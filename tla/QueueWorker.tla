---------------------------- MODULE QueueWorker -----------------------------
(***************************************************************************)
(* The consumer of the task queue that runs: the worker processes of       *)
(* app/worker.py (BLPOP, process_task), next to the API handlers of        *)
(* QueueStore and the SSE stream that reports a batch's progress           *)
(* (app/routers/sse.py).  A worker never touches qa:user_processing or     *)
(* qa:visibility and never looks at a limit.                               *)
(***************************************************************************)
EXTENDS QueueStore

CONSTANTS
  Workers,   (* worker processes                                           *)
  NoStream

VARIABLES
  worker,    (* program counter and locals of worker_loop / process_task   *)
  stream     (* the SSE generator batch_progress_generator                 *)

workerVars == <<worker, stream>>
vars == <<storeVars, worker, stream>>

\* Steps inside process_task's try block, and those of its except block.
TryPc     == {"publish", "release", "index"}
ExceptPc  == {"xPublish", "xRelease", "xIndex"}
WorkingPc == {"start", "claim", "run"} \cup TryPc \cup ExceptPc

IdleWorker == [pc |-> "idle", task |-> NoTask, ok |-> FALSE]
NotStreaming == [batch |-> NoStream, left |-> {}, good |-> 0, bad |-> 0, total |-> 0]

Init ==
  /\ StoreInit
  /\ worker = [w \in Workers |-> IdleWorker]
  /\ stream = NotStreaming

Move(w, from, to) ==
  /\ worker[w].pc = from
  /\ worker' = [worker EXCEPT ![w].pc = to]

Finish(w, from) ==
  /\ worker[w].pc = from
  /\ worker' = [worker EXCEPT ![w] = IdleWorker]

-----------------------------------------------------------------------------
(* worker_loop and process_task                                            *)

\* BLPOP qa:ready: the left end, where enqueue_task pushes.
Take(w) ==
  /\ worker[w].pc = "idle"
  /\ ready # <<>>
  /\ worker' = [worker EXCEPT ![w] = [pc |-> "start", task |-> Head(ready), ok |-> FALSE]]
  /\ ready' = Tail(ready)
  /\ UNCHANGED <<status, processing, userProcessing, completed, failed, visibility,
                 submitted, batchTasks, known, told, api, faults, resent, stream>>

\* BLPOP is executed by the server and its reply is lost: the element is gone.
TakeLost(w) ==
  /\ worker[w].pc = "idle"
  /\ ready # <<>>
  /\ faults < MaxFaults
  /\ ready' = Tail(ready)
  /\ faults' = faults + 1
  /\ UNCHANGED <<status, processing, userProcessing, completed, failed, visibility,
                 submitted, batchTasks, known, told, api, resent, workerVars>>

\* HGETALL (the hash always exists) and HSET status processing, whatever the
\* status is by now.
Start(w) ==
  /\ Move(w, "start", "claim")
  /\ status' = [status EXCEPT ![worker[w].task] = "processing"]
  /\ UNCHANGED <<ready, processing, userProcessing, completed, failed, visibility,
                 submitted, batchTasks, known, told, api, faults, resent, stream>>

\* SADD qa:processing
Claim(w) ==
  /\ Move(w, "claim", "run")
  /\ processing' = processing \cup {worker[w].task}
  /\ UNCHANGED <<ready, status, userProcessing, completed, failed, visibility,
                 submitted, batchTasks, known, told, api, faults, resent, stream>>

\* execute_analysis_background: it returned its result dict (ok), or nothing
\* because the analysis raised an exception it handles itself.
Analyse(w) ==
  /\ worker[w].pc = "run"
  /\ \E ok \in BOOLEAN :
       worker' = [worker EXCEPT ![w] = [pc |-> "publish", task |-> @.task, ok |-> ok]]
  /\ UNCHANGED <<storeVars, stream>>

\* The keys of the dict a successful analysis returns.
ResultKeys ==
  {"analysis_id", "stock_code", "stock_symbol", "analysis_date", "summary",
   "recommendation", "confidence_score", "risk_level", "key_points",
   "detailed_analysis", "execution_time", "tokens_used", "state", "analysts",
   "research_depth", "reports", "decision", "model_info", "performance_metrics"}

\* process_task asks the dict for the key "success".
FinalStatus(w) ==
  IF worker[w].ok /\ "success" \in ResultKeys THEN "completed" ELSE "failed"

\* The effect on Redis of the command at each program counter of the try and
\* except blocks: HSET status, SREM qa:processing, SADD qa:completed/failed.
PublishEffect(w, s) ==
  /\ status' = [status EXCEPT ![worker[w].task] = s]
  /\ UNCHANGED <<processing, completed, failed>>

\* Mutant of ReleaseEffect: the SREM is missing.
ReleaseEffectMissing(w) == UNCHANGED <<status, processing, completed, failed>>

ReleaseEffect(w) ==
  /\ processing' = processing \ {worker[w].task}
  /\ UNCHANGED <<status, completed, failed>>

IndexEffect(w, s) ==
  /\ completed' = IF s = "completed" THEN completed \cup {worker[w].task} ELSE completed
  /\ failed' = IF s = "failed" THEN failed \cup {worker[w].task} ELSE failed
  /\ UNCHANGED <<status, processing>>

TryEffect(w) ==
  \/ worker[w].pc = "publish" /\ PublishEffect(w, FinalStatus(w))
  \/ worker[w].pc = "release" /\ ReleaseEffect(w)
  \/ worker[w].pc = "index" /\ IndexEffect(w, FinalStatus(w))

Publish(w) == Move(w, "publish", "release") /\ PublishEffect(w, FinalStatus(w))
Release(w) == Move(w, "release", "index") /\ ReleaseEffect(w)
Index(w)   == Finish(w, "index") /\ IndexEffect(w, FinalStatus(w))

\* Mutant of ExceptPublish: the except block only repairs the sets.
ExceptPublishNothing(w) ==
  Move(w, "xPublish", "xRelease") /\ UNCHANGED <<status, processing, completed, failed>>

ExceptPublish(w) == Move(w, "xPublish", "xRelease") /\ PublishEffect(w, "failed")
ExceptRelease(w) == Move(w, "xRelease", "xIndex") /\ ReleaseEffect(w)
ExceptIndex(w)   == Finish(w, "xIndex") /\ IndexEffect(w, "failed")

Conclude(w) ==
  /\ \/ Publish(w) \/ Release(w) \/ Index(w)
     \/ ExceptPublish(w) \/ ExceptRelease(w) \/ ExceptIndex(w)
  /\ UNCHANGED <<ready, userProcessing, visibility, submitted, batchTasks,
                 known, told, api, faults, resent, stream>>

\* Mutant of RedisError: the task is put back for another try before it is
\* reported failed.
RedisErrorRetry(w) ==
  /\ faults < MaxFaults
  /\ worker[w].pc \in TryPc
  /\ TryEffect(w) \/ UNCHANGED <<status, processing, completed, failed>>
  /\ Move(w, worker[w].pc, "xPublish")
  /\ ready' = LPush(ready, worker[w].task)
  /\ faults' = faults + 1
  /\ UNCHANGED <<userProcessing, visibility, submitted, batchTasks,
                 known, told, api, resent, stream>>

\* A command of the try block raises, before or after the server executed it:
\* the except block runs and reports the task failed.
RedisError(w) ==
  /\ faults < MaxFaults
  /\ worker[w].pc \in TryPc
  /\ TryEffect(w) \/ UNCHANGED <<status, processing, completed, failed>>
  /\ Move(w, worker[w].pc, "xPublish")
  /\ faults' = faults + 1
  /\ UNCHANGED <<ready, userProcessing, visibility, submitted, batchTasks,
                 known, told, api, resent, stream>>

\* Mutant of WorkerFault: the supervisor of a dying worker requeues its task.
WorkerFaultRequeue(w) ==
  /\ faults < MaxFaults
  /\ worker[w].pc # "idle"
  /\ worker' = [worker EXCEPT ![w] = IdleWorker]
  /\ ready' = LPush(ready, worker[w].task)
  /\ faults' = faults + 1
  /\ UNCHANGED <<status, processing, userProcessing, completed, failed, visibility,
                 submitted, batchTasks, known, told, api, resent, stream>>

\* The process dies, or an error leaves process_task before its try block or
\* from its except block: worker_loop goes on with the next task.
WorkerFault(w) ==
  /\ faults < MaxFaults
  /\ worker[w].pc # "idle"
  /\ worker' = [worker EXCEPT ![w] = IdleWorker]
  /\ faults' = faults + 1
  /\ UNCHANGED <<redisVars, known, told, api, resent, stream>>

Process(w) == Take(w) \/ Start(w) \/ Claim(w) \/ Analyse(w) \/ Conclude(w)

WorkerStep(w) == Process(w) \/ TakeLost(w) \/ RedisError(w) \/ WorkerFault(w)

-----------------------------------------------------------------------------
(* batch_progress_generator                                                *)

\* A poll reads the batch's task set first.  Only a client that was told the
\* batch id can open the stream.
PollBatch(b) ==
  /\ b \in known
  /\ stream.batch \in {NoStream, b} /\ stream.left = {} /\ stream.total = 0
  /\ stream' = [batch |-> b, left |-> batchTasks[b], good |-> 0, bad |-> 0,
                total |-> Cardinality(batchTasks[b])]
  /\ UNCHANGED <<storeVars, worker>>

\* Mutant of PollTask: cancelled tasks count as finished.
PollTaskCancelledToo(t) ==
  /\ t \in stream.left
  /\ stream' = [stream EXCEPT !.left = @ \ {t},
                  !.good = IF status[t] = "completed" THEN @ + 1 ELSE @,
                  !.bad  = IF status[t] \in {"failed", "cancelled"} THEN @ + 1 ELSE @]
  /\ UNCHANGED <<storeVars, worker>>

\* ... then one task hash after another.
PollTask(t) ==
  /\ t \in stream.left
  /\ stream' = [stream EXCEPT !.left = @ \ {t},
                  !.good = IF status[t] = "completed" THEN @ + 1 ELSE @,
                  !.bad  = IF status[t] = "failed" THEN @ + 1 ELSE @]
  /\ UNCHANGED <<storeVars, worker>>

AllCounted == stream.total > 0 /\ stream.left = {}
BatchFinished == AllCounted /\ stream.good + stream.bad = stream.total

\* Not finished: sleep and poll again, or give up after the idle limit.
PollAgain ==
  /\ AllCounted /\ ~BatchFinished
  /\ \/ stream' = [NotStreaming EXCEPT !.batch = stream.batch]
     \/ stream' = NotStreaming
  /\ UNCHANGED <<storeVars, worker>>

StreamStep ==
  \/ \E b \in Batches : PollBatch(b)
  \/ \E t \in Tasks : PollTask(t)
  \/ PollAgain

-----------------------------------------------------------------------------
Next ==
  \/ \E a \in Handlers : HandlerStep(a) /\ UNCHANGED workerVars
  \/ \E w \in Workers : WorkerStep(w)
  \/ StreamStep

Spec == Init /\ [][Next]_vars

\* The worker loop runs as long as its process does, the handlers are tasks of
\* a running event loop: a started request or task goes on.  Requests, faults
\* and the stream are never forced.
Fairness ==
  /\ \A a \in Handlers : WF_vars((Enqueue(a) \/ Cancel(a)) /\ UNCHANGED workerVars)
  /\ \A w \in Workers : WF_vars(Process(w))

FairSpec == Spec /\ Fairness

-----------------------------------------------------------------------------
Held(t) == {w \in Workers : worker[w].task = t}
Final == {"completed", "failed", "cancelled"}

\* Every variable has its type.
TypeOK ==
  /\ StoreTypeOK
  /\ visibility = [t \in Tasks |-> NoLease]
  /\ worker \in [Workers -> [pc : {"idle"} \cup WorkingPc, task : Tasks \cup {NoTask},
                             ok : BOOLEAN]]
  /\ \A w \in Workers : worker[w].pc # "idle" => worker[w].task \in Tasks

\* A task id is in one place: once in qa:ready, or with one worker, never both
\* - whatever enqueues, cancels, crashes and lost replies do - unless the Redis
\* client re-sent its LPUSH (worker_loop's BLPOP, enqueue_task's LPUSH).
SingleCopy ==
  \A t \in Tasks \ resent :
    /\ \A i, j \in DOMAIN ready : ready[i] = t /\ ready[j] = t => i = j
    /\ InReady(t) => Held(t) = {}
    /\ \A w1, w2 \in Held(t) : w1 = w2

\* A task that still waits in qa:ready was never run: no worker has published a
\* status for it or entered it in a result set, so taking it is its first run.
ReadyIsUnstarted ==
  \A t \in Tasks \ resent :
    InReady(t) => /\ status[t] \in {"queued", "cancelled"}
                  /\ t \notin processing \cup completed \cup failed

\* The task hash, the result sets and the slots agree however a command of
\* process_task's try block fails: a task that counts as failed is reported
\* failed (or was cancelled since) and has given its slot back, and one that is
\* reported failed while no worker has it counts as failed, unless a fault hit
\* its worker.
LedgerAgrees ==
  \A t \in Tasks \ resent :
    /\ t \in failed => status[t] \in {"failed", "cancelled"} /\ t \notin processing
    /\ status[t] = "failed" /\ Held(t) = {} /\ t \notin failed => faults > 0

Orphans == {t \in processing : Held(t) = {}}

\* An orphan whose status is final, unless a cancel_task that read status
\* processing is about to take it out of qa:processing.
Stuck(t) ==
  /\ t \in Orphans /\ status[t] \in Final
  /\ \A a \in Handlers : api[a].task = t => api[a].pc \notin {"unmarkUser", "unmarkGlobal"}

\* qa:processing counts the tasks being worked on.  Each entry beyond those was
\* left by a fault of its own.  While such an entry's task still has status
\* processing, cancel_task can take it out; once the status is final nothing
\* does: it uses up a place of GLOBAL_CONCURRENT_LIMIT for good.
SlotsAccounted ==
  /\ [](Cardinality(Orphans) <= faults)
  /\ [][\A t \in Tasks \ resent : Stuck(t) => Stuck(t)']_vars

\* When the SSE stream reports a batch as finished, every symbol the client
\* submitted has been enqueued and concluded, though the stream reads the task
\* hashes one by one while workers and cancels go on.
FinishedIsFinal ==
  BatchFinished =>
    /\ stream.total = submitted[stream.batch]
    /\ \A t \in batchTasks[stream.batch] \ resent :
         ~InReady(t) /\ status[t] \in Final

\* Every queued task ends, unless a fault loses it: a worker takes it and
\* publishes a result, or its cancellation goes through.
QueuedTasksEnd ==
  \A t \in Tasks :
    InReady(t) ~> \/ ~InReady(t) /\ Held(t) = {} /\ status[t] \in Final
                  \/ faults > 0

\* The pool the queue implements when no LPUSH is sent twice.
Phase(t) ==
  IF Held(t) # {} THEN "taken"
  ELSE IF InReady(t) THEN "pending"
  ELSE IF status[t] = "none" \/ \E a \in Handlers : api[a].pc = "push" /\ api[a].task = t
       THEN "new" ELSE "gone"

Pool == INSTANCE TaskPool WITH
          phase <- [t \in Tasks |-> Phase(t)],
          taker <- [w \in Workers |-> worker[w].task]

\* The worker path delivers each task at most once (app/worker.py's queue is a
\* TaskPool).
ImplementsPool == Pool!Spec

\* FIFO, as enqueue_task's docstring and comments say of qa:ready: a worker that
\* takes a task takes the one that was pushed first, the right end.
TakesOldest ==
  [][\A w \in Workers : Take(w) => worker'[w].task = ready[Len(ready)]]_vars

\* A task whose analysis returned its result is published as completed, as the
\* branches of process_task have it ("Mark completed/failed").
SuccessIsCompleted ==
  [][\A w \in Workers :
       Publish(w) /\ worker[w].ok => status'[worker[w].task] = "completed"]_vars
=============================================================================
