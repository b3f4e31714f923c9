----------------------------- MODULE QueueStore -----------------------------
(***************************************************************************)
(* The Redis state behind the analysis task queue                          *)
(* (app/services/queue_service.py, app/services/queue/) and the API        *)
(* request handlers that write it: POST /analyze, POST /analyze/batch and  *)
(* POST /tasks/{id}/cancel.  Every Redis command is one atomic step, and a *)
(* handler awaits between two of them, so handlers, workers and other API  *)
(* processes interleave at each command.                                   *)
(*                                                                         *)
(* The consumers of the queue are modules of their own that EXTEND this    *)
(* one: QueueWorker (app/worker.py, the process that runs) and             *)
(* QueueLease (QueueService's dequeue / ack / visibility timeout).         *)
(***************************************************************************)
EXTENDS Integers, Sequences, FiniteSets

CONSTANTS
  Users,        (* user ids                                                *)
  Tasks,        (* the uuid4 task ids that may be drawn                    *)
  Owner,        (* Owner[t]: the "user" field written with task t          *)
  Batches,      (* the uuid4 batch ids that may be drawn                   *)
  Handlers,     (* concurrent API request handlers                         *)
  Cancellable,  (* tasks whose owner may ask for cancellation              *)
  UserLimit,    (* user_concurrent_limit                                   *)
  GlobalLimit,  (* global_concurrent_limit                                 *)
  MaxBatch,     (* bound: symbols in one batch request                     *)
  MaxFaults,    (* bound: faults in one behaviour                          *)
  RetryOnTimeout, (* settings.REDIS_RETRY_ON_TIMEOUT                       *)
  NoTask, NoBatch, NoLease

ASSUME StoreAssumption ==
  /\ Owner \in [Tasks -> Users]
  /\ Cancellable \subseteq Tasks
  /\ {UserLimit, GlobalLimit, MaxBatch, MaxFaults} \subseteq Nat
  /\ RetryOnTimeout \in BOOLEAN
  /\ NoTask \notin Tasks /\ NoBatch \notin Batches

VARIABLES
  ready,          (* qa:ready, left end first                              *)
  status,         (* the "status" field of qa:task:<id>                    *)
  processing,     (* qa:processing                                         *)
  userProcessing, (* qa:user_processing:<user>                             *)
  completed,      (* qa:completed                                          *)
  failed,         (* qa:failed                                             *)
  visibility,     (* qa:visibility:<id>                                    *)
  submitted,      (* the "submitted" field of qa:batch:<id>, 0 if no hash  *)
  batchTasks,     (* qa:batch_tasks:<id>                                   *)
  known,          (* batch ids a client has received in a response         *)
  told,           (* task ids a client can have learnt: its POST returned  *)
  api,            (* the handlers' program counters and locals             *)
  faults,         (* faults so far                                         *)
  resent          (* history: tasks whose LPUSH the Redis client sent twice *)

redisVars == <<ready, status, processing, userProcessing, completed, failed,
               visibility, submitted, batchTasks>>
storeVars == <<redisVars, known, told, api, faults, resent>>

Status == {"none", "queued", "processing", "completed", "failed", "cancelled"}

EnqueuePc == {"userLimit", "globalLimit", "save", "push", "join"}
CancelPc  == {"unmarkUser", "unmarkGlobal", "clear", "remove", "mark"}

IdleHandler == [pc |-> "idle", todo |-> {}, task |-> NoTask, batch |-> NoBatch]

-----------------------------------------------------------------------------
(* Redis list commands.  LPUSH and BLPOP work on the left end, RPOP on the *)
(* right end; LREM 0 keeps the other elements in order.                    *)

InReady(t) == \E i \in DOMAIN ready : ready[i] = t

LPush(s, t) == <<t>> \o s

\* The order-preserving enumerations of the positions of s that do not hold t.
\* There is exactly one; it is written as a set so that no step of a proof has
\* to construct it.
KeptPositions(s, t) ==
  LET keep == {i \in DOMAIN s : s[i] # t}
  IN  {f \in UNION {[1..n -> keep] : n \in 0..Len(s)} :
         /\ \A i, j \in DOMAIN f : i < j => f[i] < f[j]
         /\ \A k \in keep : \E i \in DOMAIN f : f[i] = k}

\* The lists LREM key 0 t may leave behind.
LRem(s, t) == {[i \in DOMAIN f |-> s[f[i]]] : f \in KeptPositions(s, t)}

-----------------------------------------------------------------------------
StoreInit ==
  /\ ready = <<>>
  /\ status = [t \in Tasks |-> "none"]
  /\ processing = {} /\ completed = {} /\ failed = {}
  /\ userProcessing = [u \in Users |-> {}]
  /\ visibility = [t \in Tasks |-> NoLease]
  /\ submitted = [b \in Batches |-> 0]
  /\ batchTasks = [b \in Batches |-> {}]
  /\ known = {} /\ told = {}
  /\ api = [a \in Handlers |-> IdleHandler]
  /\ faults = 0
  /\ resent = {}

Goto(a, pc) == api' = [api EXCEPT ![a].pc = pc]
Return(a) == api' = [api EXCEPT ![a] = IdleHandler]

\* uuid4 never repeats: an id is drawn at most once.
Fresh(t) ==
  /\ status[t] = "none"
  /\ \A a \in Handlers : t \notin api[a].todo \cup {api[a].task}

-----------------------------------------------------------------------------
(* enqueue_task, create_batch                                              *)

\* POST /analyze: one enqueue_task call, no batch.
SubmitSingle(a, t) ==
  /\ api[a].pc = "idle"
  /\ Fresh(t)
  /\ api' = [api EXCEPT ![a] = [pc |-> "userLimit", todo |-> {t},
                                task |-> NoTask, batch |-> NoBatch]]
  /\ UNCHANGED <<redisVars, known, told, faults, resent>>

\* POST /analyze/batch: create_batch writes the batch hash with the number of
\* symbols, then calls enqueue_task for them one after another.
CreateBatch(a, b, S) ==
  /\ api[a].pc = "idle"
  /\ submitted[b] = 0
  /\ S # {} /\ IsFiniteSet(S) /\ Cardinality(S) <= MaxBatch
  /\ \A t \in S : Fresh(t)
  /\ \A t1, t2 \in S : Owner[t1] = Owner[t2]
  /\ submitted' = [submitted EXCEPT ![b] = Cardinality(S)]
  /\ api' = [api EXCEPT ![a] = [pc |-> "userLimit", todo |-> S,
                                task |-> NoTask, batch |-> b]]
  /\ UNCHANGED <<ready, status, processing, userProcessing, completed, failed,
                 visibility, batchTasks, known, told, faults, resent>>

\* SCARD of the user's set; at the limit the ValueError ends the whole request,
\* a batch included.
CheckUserLimit(a) ==
  /\ api[a].pc = "userLimit"
  /\ \E t \in api[a].todo :
       IF Cardinality(userProcessing[Owner[t]]) < UserLimit
       THEN api' = [api EXCEPT ![a] = [pc |-> "globalLimit", todo |-> @.todo \ {t},
                                       task |-> t, batch |-> @.batch]]
       ELSE Return(a)
  /\ UNCHANGED <<redisVars, known, told, faults, resent>>

CheckGlobalLimit(a) ==
  /\ api[a].pc = "globalLimit"
  /\ IF Cardinality(processing) < GlobalLimit THEN Goto(a, "save") ELSE Return(a)
  /\ UNCHANGED <<redisVars, known, told, faults, resent>>

\* Mutant of SaveTask: a status value the queue does not know.
SaveTaskPending(a) ==
  /\ api[a].pc = "save"
  /\ status' = [status EXCEPT ![api[a].task] = "pending"]
  /\ Goto(a, "push")
  /\ UNCHANGED <<ready, processing, userProcessing, completed, failed,
                 visibility, submitted, batchTasks, known, told, faults, resent>>

\* HSET qa:task:<id>
SaveTask(a) ==
  /\ api[a].pc = "save"
  /\ status' = [status EXCEPT ![api[a].task] = "queued"]
  /\ Goto(a, "push")
  /\ UNCHANGED <<ready, processing, userProcessing, completed, failed,
                 visibility, submitted, batchTasks, known, told, faults, resent>>

\* LPUSH qa:ready.  When its reply is lost the socket times out after the server
\* has executed the command, and the client (retry_on_timeout) sends it again.
Push(t) ==
  \/ /\ ready' = LPush(ready, t)
     /\ UNCHANGED <<faults, resent>>
  \/ /\ RetryOnTimeout /\ faults < MaxFaults
     /\ ready' = LPush(LPush(ready, t), t)
     /\ faults' = faults + 1
     /\ resent' = resent \cup {t}

\* enqueue_task outside a batch ends here and its task id goes to the client.
PushReady(a) ==
  /\ api[a].pc = "push"
  /\ Push(api[a].task)
  /\ IF api[a].batch = NoBatch
     THEN Return(a) /\ told' = told \cup {api[a].task}
     ELSE Goto(a, "join") /\ UNCHANGED told
  /\ UNCHANGED <<status, processing, userProcessing, completed, failed,
                 visibility, submitted, batchTasks, known>>

\* SADD qa:batch_tasks:<id>, and the next symbol or the end of create_batch,
\* whose response tells the client the batch id (and GET /batches/{id} then its
\* task ids).
JoinBatch(a) ==
  /\ api[a].pc = "join"
  /\ batchTasks' = [batchTasks EXCEPT ![api[a].batch] = @ \cup {api[a].task}]
  /\ IF api[a].todo = {}
     THEN /\ known' = known \cup {api[a].batch}
          /\ told' = told \cup batchTasks'[api[a].batch]
          /\ Return(a)
     ELSE /\ api' = [api EXCEPT ![a] = [pc |-> "userLimit", todo |-> @.todo,
                                        task |-> NoTask, batch |-> @.batch]]
          /\ UNCHANGED <<known, told>>
  /\ UNCHANGED <<ready, status, processing, userProcessing, completed, failed,
                 visibility, submitted, faults, resent>>

-----------------------------------------------------------------------------
(* cancel_task                                                             *)

\* HGETALL: what follows depends on the status read here.  A client can only
\* name a task whose id it was told.
ReadForCancel(a, t) ==
  /\ api[a].pc = "idle"
  /\ t \in Cancellable \cap told
  /\ api' = [api EXCEPT ![a] =
       [pc |-> CASE status[t] = "processing" -> "unmarkUser"
                 [] status[t] = "queued" -> "remove"
                 [] OTHER -> "mark",
        todo |-> {}, task |-> t, batch |-> NoBatch]]
  /\ UNCHANGED <<redisVars, known, told, faults, resent>>

UnmarkUser(a) ==
  /\ api[a].pc = "unmarkUser"
  /\ userProcessing' = [userProcessing EXCEPT ![Owner[api[a].task]] =
                                                @ \ {api[a].task}]
  /\ Goto(a, "unmarkGlobal")
  /\ UNCHANGED <<ready, status, processing, completed, failed, visibility,
                 submitted, batchTasks, known, told, faults, resent>>

UnmarkGlobal(a) ==
  /\ api[a].pc = "unmarkGlobal"
  /\ processing' = processing \ {api[a].task}
  /\ Goto(a, "clear")
  /\ UNCHANGED <<ready, status, userProcessing, completed, failed, visibility,
                 submitted, batchTasks, known, told, faults, resent>>

\* DEL qa:visibility:<id>
ClearVisibility(a) ==
  /\ api[a].pc = "clear"
  /\ visibility' = [visibility EXCEPT ![api[a].task] = NoLease]
  /\ Goto(a, "mark")
  /\ UNCHANGED <<ready, status, processing, userProcessing, completed, failed,
                 submitted, batchTasks, known, told, faults, resent>>

\* Mutant of RemoveReady: cancel_task returns as soon as the task has left the list.
RemoveReadyAndReturn(a) ==
  /\ api[a].pc = "remove"
  /\ ready' \in LRem(ready, api[a].task)
  /\ Return(a)
  /\ UNCHANGED <<status, processing, userProcessing, completed, failed,
                 visibility, submitted, batchTasks, known, told, faults, resent>>

\* LREM qa:ready 0 <id>
RemoveReady(a) ==
  /\ api[a].pc = "remove"
  /\ ready' \in LRem(ready, api[a].task)
  /\ Goto(a, "mark")
  /\ UNCHANGED <<status, processing, userProcessing, completed, failed,
                 visibility, submitted, batchTasks, known, told, faults, resent>>

\* HSET status cancelled, whatever the status read was.
MarkCancelled(a) ==
  /\ api[a].pc = "mark"
  /\ status' = [status EXCEPT ![api[a].task] = "cancelled"]
  /\ Return(a)
  /\ UNCHANGED <<ready, processing, userProcessing, completed, failed,
                 visibility, submitted, batchTasks, known, told, faults, resent>>

-----------------------------------------------------------------------------
\* A Redis error raised out of the handler, or the death of its process: the
\* request ends between two commands and nothing is undone.
HandlerFault(a) ==
  /\ faults < MaxFaults
  /\ api[a].pc # "idle"
  /\ Return(a)
  /\ faults' = faults + 1
  /\ UNCHANGED <<redisVars, known, told, resent>>

Enqueue(a) ==
  \/ CheckUserLimit(a)
  \/ CheckGlobalLimit(a)
  \/ SaveTask(a)
  \/ PushReady(a)
  \/ JoinBatch(a)

Cancel(a) ==
  \/ UnmarkUser(a)
  \/ UnmarkGlobal(a)
  \/ ClearVisibility(a)
  \/ RemoveReady(a)
  \/ MarkCancelled(a)

HandlerStep(a) ==
  \/ \E t \in Tasks : SubmitSingle(a, t)
  \/ \E b \in Batches, S \in SUBSET Tasks : CreateBatch(a, b, S)
  \/ \E t \in Tasks : ReadForCancel(a, t)
  \/ Enqueue(a)
  \/ Cancel(a)
  \/ HandlerFault(a)

-----------------------------------------------------------------------------
HandlerType ==
  [pc: {"idle"} \cup EnqueuePc \cup CancelPc, todo: SUBSET Tasks,
   task: Tasks \cup {NoTask}, batch: Batches \cup {NoBatch}]

StoreTypeOK ==
  /\ ready \in Seq(Tasks)
  /\ status \in [Tasks -> Status]
  /\ processing \subseteq Tasks
  /\ completed \subseteq Tasks
  /\ failed \subseteq Tasks
  /\ userProcessing \in [Users -> SUBSET Tasks]
  /\ submitted \in [Batches -> Nat]
  /\ batchTasks \in [Batches -> SUBSET Tasks]
  /\ known \subseteq Batches
  /\ told \subseteq Tasks
  /\ api \in [Handlers -> HandlerType]
  /\ faults \in 0..MaxFaults
  /\ resent \subseteq Tasks
=============================================================================
