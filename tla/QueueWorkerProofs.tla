------------------------- MODULE QueueWorkerProofs --------------------------
(***************************************************************************)
(* Theorems about QueueWorker, for any number of users, tasks, handlers,   *)
(* workers and faults, in three parts that build on each other: where a    *)
(* task id is; what the result sets, the qa:processing slots and the SSE   *)
(* stream's verdict on a batch are worth; and that the queue implements    *)
(* TaskPool.                                                               *)
(***************************************************************************)
EXTENDS QueueWorker, QueueStoreProofs

-----------------------------------------------------------------------------
(* The inductive invariant.                                                *)

Unstarted(t) ==
  /\ status[t] \in {"queued", "cancelled"}
  /\ t \notin processing \cup completed \cup failed

PushedOnce ==
  \A a \in Handlers : api[a].pc = "push" =>
    LET t == api[a].task
    IN  Unstarted(t) /\ ~InReady(t) /\ Held(t) = {}

NoneIsNowhere ==
  \A t \in Tasks : status[t] = "none" =>
    /\ ~InReady(t) /\ Held(t) = {}
    /\ t \notin told /\ \A b \in Batches : t \notin batchTasks[b]
    /\ t \notin processing \cup completed \cup failed

IInv ==
  /\ TypeOK
  /\ HandlerLocals
  /\ OneOwner
  /\ PushedOnce
  /\ NoneIsNowhere
  /\ SingleCopy
  /\ ReadyIsUnstarted

\* The part of the invariant that is about qa:ready alone.
LEMMA IInvOnce == ASSUME IInv PROVE ready \in Seq(Tasks) /\ OnceEach
BY DEF IInv, TypeOK, StoreTypeOK, SingleCopy, OnceEach

-----------------------------------------------------------------------------
(* Type correctness.                                                       *)

\* Every command of a handler keeps the types.
LEMMA EnqueueType ==
  ASSUME StoreAssumption, TypeOK, HandlerLocals, NEW a \in Handlers,
         HandlerStep(a), UNCHANGED workerVars
  PROVE  TypeOK'
<1>1. StoreTypeOK'
  BY HandlerTypes DEF TypeOK
<1>2. visibility' = visibility \/ \E t \in Tasks : visibility' = [visibility EXCEPT ![t] = NoLease]
  BY DEF HandlerStep, Enqueue, Cancel, SubmitSingle, CreateBatch, ReadForCancel, CheckUserLimit,
         CheckGlobalLimit, SaveTask, PushReady, JoinBatch, UnmarkUser, UnmarkGlobal,
         ClearVisibility, RemoveReady, MarkCancelled, HandlerFault, redisVars, HandlerLocals,
         LocalsOf
<1>3. visibility' = [t \in Tasks |-> NoLease]
  BY <1>2 DEF TypeOK
<1> QED BY <1>1, <1>3 DEF TypeOK, workerVars

WorkerRecord == [pc : {"idle"} \cup WorkingPc, task : Tasks \cup {NoTask}, ok : BOOLEAN]

\* A worker that goes to another command keeps its task; the others keep all.
LEMMA MoveFacts ==
  ASSUME worker \in [Workers -> WorkerRecord], NEW w \in Workers, NEW from,
         NEW to \in {"idle"} \cup WorkingPc, Move(w, from, to)
  PROVE  /\ worker' \in [Workers -> WorkerRecord]
         /\ worker'[w].pc = to /\ worker'[w].task = worker[w].task
         /\ worker'[w].ok = worker[w].ok
         /\ \A v \in Workers : v # w => worker'[v] = worker[v]
<1>1. worker' = [worker EXCEPT ![w] = [worker[w] EXCEPT !.pc = to]]
  BY DEF Move
<1>2. worker[w] \in WorkerRecord
  OBVIOUS
<1>3. /\ [worker[w] EXCEPT !.pc = to] \in WorkerRecord
      /\ [worker[w] EXCEPT !.pc = to].pc = to
      /\ [worker[w] EXCEPT !.pc = to].task = worker[w].task
      /\ [worker[w] EXCEPT !.pc = to].ok = worker[w].ok
  BY <1>2 DEF WorkerRecord
<1> QED BY <1>1, <1>3

\* A worker that is done is idle; the others keep all.
LEMMA FinishFacts ==
  ASSUME worker \in [Workers -> WorkerRecord], NEW w \in Workers,
         worker' = [worker EXCEPT ![w] = IdleWorker]
  PROVE  /\ worker' \in [Workers -> WorkerRecord]
         /\ worker'[w] = IdleWorker
         /\ \A v \in Workers : v # w => worker'[v] = worker[v]
BY DEF IdleWorker, WorkerRecord

\* Every command of a worker keeps the types.
LEMMA WorkerType ==
  ASSUME StoreAssumption, TypeOK, NEW w \in Workers, WorkerStep(w)
  PROVE  TypeOK'
<1> DEFINE Busy(v) == worker'[v].pc # "idle" => worker'[v].task \in Tasks
<1> DEFINE StoreRest ==
      /\ ready' \in Seq(Tasks) /\ status' \in [Tasks -> Status]
      /\ processing' \subseteq Tasks /\ completed' \subseteq Tasks /\ failed' \subseteq Tasks
      /\ faults' \in 0..MaxFaults
      /\ UNCHANGED <<userProcessing, visibility, submitted, batchTasks, known, told, api,
                     resent>>
<1> DEFINE WorkerRest ==
      worker' \in [Workers -> WorkerRecord] /\ \A v \in Workers : Busy(v)
<1>1. SUFFICES StoreRest /\ WorkerRest
  BY DEF TypeOK, StoreTypeOK, WorkerRecord
<1>2. /\ worker \in [Workers -> WorkerRecord]
      /\ \A v \in Workers : worker[v].pc # "idle" => worker[v].task \in Tasks
  BY DEF TypeOK, WorkerRecord
<1>3. ready # <<>> => Head(ready) \in Tasks /\ Tail(ready) \in Seq(Tasks)
  BY TailFacts DEF TypeOK, StoreTypeOK
<1>4. faults < MaxFaults => faults + 1 \in 0..MaxFaults
  BY DEF StoreAssumption, TypeOK, StoreTypeOK
<1>5. ASSUME NEW to \in WorkingPc, worker[w].pc # "idle", Move(w, worker[w].pc, to)
      PROVE  WorkerRest
  BY <1>2, <1>5, MoveFacts
<1>6. ASSUME worker' = [worker EXCEPT ![w] = IdleWorker] PROVE WorkerRest
  <2>1. /\ worker' \in [Workers -> WorkerRecord] /\ worker'[w] = IdleWorker
        /\ \A v \in Workers : v # w => worker'[v] = worker[v]
    BY <1>2, <1>6, FinishFacts
  <2>2. IdleWorker.pc = "idle"
    BY DEF IdleWorker
  <2> QED BY <2>1, <2>2, <1>2
<1> USE DEF TypeOK, StoreTypeOK, redisVars, workerVars, WorkingPc, TryPc, ExceptPc, Status
<1>7. CASE Take(w)
  <2>1. WorkerRest
    BY <1>7, <1>2, <1>3 DEF Take, WorkerRecord
  <2> QED BY <2>1, <1>7, <1>3 DEF Take
<1>8. CASE TakeLost(w)
  BY <1>8, <1>2, <1>3, <1>4 DEF TakeLost
<1>9. CASE Start(w)
  <2>1. WorkerRest
    BY <1>9, <1>5 DEF Start, Move
  <2> QED BY <2>1, <1>9, <1>2 DEF Start, Move
<1>10. CASE Claim(w)
  <2>1. WorkerRest
    BY <1>10, <1>5 DEF Claim, Move
  <2> QED BY <2>1, <1>10, <1>2 DEF Claim, Move
<1>11. CASE Analyse(w)
  BY <1>11, <1>2 DEF Analyse, storeVars, WorkerRecord
<1>final. FinalStatus(w) \in {"completed", "failed"}
  BY DEF FinalStatus
<1>12. CASE Conclude(w)
  <2>1. WorkerRest
    BY <1>12, <1>5, <1>6 DEF Conclude, Publish, Release, Index, ExceptPublish, ExceptRelease,
                             ExceptIndex, Move, Finish
  <2>2. worker[w].task \in Tasks
    BY <1>12, <1>2 DEF Conclude, Publish, Release, Index, ExceptPublish, ExceptRelease,
                       ExceptIndex, Move, Finish
  <2>3. /\ status' \in [Tasks -> Status] /\ processing' \subseteq Tasks
        /\ completed' \subseteq Tasks /\ failed' \subseteq Tasks
    BY <1>12, <1>final, <2>2 DEF Conclude, Publish, Release, Index, ExceptPublish, ExceptRelease,
              ExceptIndex, PublishEffect, ReleaseEffect, IndexEffect, Status
  <2> QED BY <2>1, <2>3, <1>12 DEF Conclude
<1>13. CASE RedisError(w)
  <2>1. WorkerRest
    BY <1>13, <1>5 DEF RedisError
  <2>2. worker[w].task \in Tasks
    BY <1>13, <1>2 DEF RedisError
  <2>3. /\ status' \in [Tasks -> Status] /\ processing' \subseteq Tasks
        /\ completed' \subseteq Tasks /\ failed' \subseteq Tasks
    BY <1>13, <1>final, <2>2 DEF RedisError, TryEffect, PublishEffect, ReleaseEffect, IndexEffect,
                              Status
  <2> QED BY <2>1, <2>3, <1>13, <1>4 DEF RedisError
<1>14. CASE WorkerFault(w)
  BY <1>14, <1>4, <1>6 DEF WorkerFault
<1> QED
  BY <1>7, <1>8, <1>9, <1>10, <1>11, <1>12, <1>13, <1>14 DEF WorkerStep, Process

-----------------------------------------------------------------------------
(* Handlers preserve the rest of the invariant.                            *)

Rest == HandlerLocals /\ OneOwner /\ PushedOnce /\ NoneIsNowhere /\ SingleCopy /\ ReadyIsUnstarted

\* A new request owns ids that nobody else has and nothing else knows.
LEMMA NewRequest ==
  ASSUME IInv, NEW a \in Handlers, NEW S \in SUBSET Tasks, NEW b,
         \A t \in S : Fresh(t), api[a].pc = "idle",
         api' = [api EXCEPT ![a] = [pc |-> "userLimit", todo |-> S,
                                    task |-> NoTask, batch |-> b]],
         UNCHANGED <<ready, status, processing, completed, failed, batchTasks, told, resent,
                     worker>>
  PROVE  Rest'
<1>1. /\ api'[a].pc = "userLimit" /\ api'[a].todo = S /\ api'[a].task = NoTask
      /\ \A h \in Handlers : h # a => api'[h] = api[h]
  BY DEF IInv, TypeOK, StoreTypeOK
<1>2. HandlerLocals'
  BY <1>1 DEF IInv, HandlerLocals, LocalsOf, CancelPc
<1>3. OneOwner'
  BY <1>1 DEF IInv, OneOwner, Owns, Unwritten, Fresh
<1>4. PushedOnce'
  BY <1>1 DEF IInv, PushedOnce, Unstarted, InReady, Held
<1>5. NoneIsNowhere' /\ SingleCopy' /\ ReadyIsUnstarted'
  BY DEF IInv, NoneIsNowhere, SingleCopy, ReadyIsUnstarted, InReady, Held
<1> QED BY <1>2, <1>3, <1>4, <1>5 DEF Rest

\* A handler that moves on without writing a task hash or the ready list: it owns
\* no more than before.
LEMMA QuietMove ==
  ASSUME IInv, NEW a \in Handlers, LocalsOf(a)', OwnsNoMore(a), api'[a].pc # "push",
         \A h \in Handlers : h # a => api'[h] = api[h],
         processing' \subseteq processing,
         UNCHANGED <<ready, status, completed, failed, batchTasks, told, resent, worker>>
  PROVE  Rest'
<1>0. HandlerLocals'
  BY DEF IInv, HandlerLocals, LocalsOf
<1>1. OneOwner'
  <2>1. \A h \in Handlers, t \in Tasks : Owns(h, t)' => Owns(h, t)
    BY DEF Owns, OwnsNoMore
  <2>2. \A h \in Handlers, t \in Tasks : Unwritten(h, t)' => Unwritten(h, t)
    BY DEF Unwritten, OwnsNoMore
  <2> QED BY <2>1, <2>2 DEF IInv, OneOwner
<1>2. PushedOnce'
  BY DEF IInv, PushedOnce, Unstarted, InReady, Held
<1>3. NoneIsNowhere' /\ SingleCopy' /\ ReadyIsUnstarted'
  BY DEF IInv, NoneIsNowhere, SingleCopy, ReadyIsUnstarted, InReady, Held
<1> QED BY <1>0, <1>1, <1>2, <1>3 DEF Rest

\* HSET of a task hash: its id was unknown until now.
LEMMA SaveRest ==
  ASSUME StoreAssumption, IInv, NEW a \in Handlers, SaveTask(a), UNCHANGED worker
  PROVE  Rest'
<1> DEFINE t == api[a].task
<1>1. /\ api \in [Handlers -> HandlerType] /\ status \in [Tasks -> Status]
      /\ LocalsOf(a) /\ api[a].pc = "save" /\ t \in Tasks /\ t \notin api[a].todo
  BY DEF IInv, TypeOK, StoreTypeOK, HandlerLocals, LocalsOf, SaveTask
<1>2. /\ api'[a].pc = "push" /\ api'[a].task = t /\ api'[a].todo = api[a].todo
      /\ \A h \in Handlers : h # a => api'[h] = api[h]
  BY <1>1, GotoFacts DEF SaveTask, HandlerPc, EnqueuePc
<1>3. status'[t] = "queued" /\ \A x \in Tasks : x # t => status'[x] = status[x]
  BY <1>1 DEF SaveTask
<1>4. UNCHANGED <<ready, processing, completed, failed, batchTasks, told, resent, worker>>
  BY DEF SaveTask
<1>5. /\ Owns(a, t) /\ Unwritten(a, t) /\ status[t] = "none"
      /\ ~InReady(t) /\ Held(t) = {} /\ t \notin processing \cup completed \cup failed
  BY <1>1 DEF Owns, Unwritten, IInv, OneOwner, NoneIsNowhere
<1> HIDE DEF t
<1>6. HandlerLocals'
  <2>1. LocalsOf(a)'
    BY <1>1, <1>2 DEF LocalsOf, CancelPc
  <2>2. ASSUME NEW h \in Handlers, h # a PROVE LocalsOf(h)'
    <3>1. LocalsOf(h) /\ api'[h] = api[h]
      BY <1>2, <2>2 DEF IInv, HandlerLocals
    <3>2. api[h].task \in Tasks /\ status[api[h].task] # "none" =>
            status'[api[h].task] # "none"
      BY <1>3
    <3> QED BY <3>1, <3>2 DEF LocalsOf, CancelPc
  <2> QED BY <2>1, <2>2 DEF HandlerLocals
<1>7. OneOwner'
  <2>1. \A h \in Handlers, x \in Tasks : Owns(h, x)' => Owns(h, x)
    BY <1>1, <1>2 DEF Owns, t
  <2>2. ASSUME NEW h \in Handlers, NEW x \in Tasks, Unwritten(h, x)'
        PROVE  Unwritten(h, x) /\ x # t
    <3>1. CASE h = a
      BY <3>1, <2>2, <1>1, <1>2 DEF Unwritten
    <3>2. CASE h # a
      <4>1. Unwritten(h, x) /\ Owns(h, x)
        BY <3>2, <2>2, <1>2 DEF Unwritten, Owns
      <4> QED BY <4>1, <3>2, <1>1, <1>5 DEF IInv, OneOwner
    <3> QED BY <3>1, <3>2
  <2> QED BY <2>1, <2>2, <1>3 DEF IInv, OneOwner
<1>8. PushedOnce'
  <2> SUFFICES ASSUME NEW h \in Handlers, api'[h].pc = "push"
               PROVE  (Unstarted(api[h].task) /\ ~InReady(api[h].task)
                       /\ Held(api[h].task) = {})'
    BY DEF PushedOnce
  <2>1. CASE h = a
    BY <2>1, <1>2, <1>3, <1>4, <1>5 DEF Unstarted, InReady, Held
  <2>2. CASE h # a
    <3>1. api'[h] = api[h] /\ api[h].pc = "push" /\ api[h].task \in Tasks
      BY <2>2, <1>2 DEF IInv, HandlerLocals, LocalsOf
    <3>2. Owns(h, api[h].task)
      BY <3>1 DEF Owns
    <3>3. api[h].task # t
      BY <3>1, <3>2, <2>2, <1>1, <1>5 DEF IInv, OneOwner
    <3>4. Unstarted(api[h].task) /\ ~InReady(api[h].task) /\ Held(api[h].task) = {}
      BY <3>1 DEF IInv, PushedOnce
    <3> QED BY <3>1, <3>3, <3>4, <1>3, <1>4 DEF Unstarted, InReady, Held
  <2> QED BY <2>1, <2>2
<1>9. NoneIsNowhere'
  BY <1>3, <1>4 DEF IInv, NoneIsNowhere, InReady, Held
<1>10. SingleCopy'
  BY <1>4 DEF IInv, SingleCopy, InReady, Held
<1>11. ReadyIsUnstarted'
  BY <1>3, <1>4, <1>5 DEF IInv, ReadyIsUnstarted, InReady
<1> QED BY <1>6, <1>7, <1>8, <1>9, <1>10, <1>11 DEF Rest

\* LPUSH of a task that is nowhere yet.
LEMMA PushRest ==
  ASSUME StoreAssumption, IInv, NEW a \in Handlers, PushReady(a), UNCHANGED worker
  PROVE  Rest'
<1> DEFINE t == api[a].task
<1>1. /\ api \in [Handlers -> HandlerType] /\ api[a] \in HandlerType
      /\ api[a].pc = "push" /\ t \in Tasks
  BY DEF IInv, TypeOK, StoreTypeOK, HandlerLocals, LocalsOf, PushReady
<1>2. Push(t) /\ Unstarted(t) /\ ~InReady(t) /\ Held(t) = {} /\ Owns(a, t)
  BY <1>1 DEF PushReady, IInv, PushedOnce, Owns
<1>3. /\ \A x \in Tasks : x # t => (InReady(x)' <=> InReady(x))
      /\ resent \subseteq resent'
      /\ \A x \in Tasks \ resent' :
           \A i, j \in DOMAIN ready' : ready'[i] = x /\ ready'[j] = x => i = j
  BY <1>1, <1>2, IInvOnce, PushKeepsOnce DEF t
<1>4. UNCHANGED <<status, processing, completed, failed, batchTasks, worker>>
  BY DEF PushReady
<1>5. told' = told \/ told' = told \cup {t}
  BY DEF PushReady
<1>6. /\ \/ api'[a] = IdleHandler
         \/ /\ api'[a].pc = "join" /\ api'[a].task = t
            /\ api'[a].todo = api[a].todo /\ api'[a].batch \in Batches
      /\ \A h \in Handlers : h # a => api'[h] = api[h]
  <2>1. CASE api[a].batch = NoBatch
    BY <2>1, <1>1, ReturnFacts DEF PushReady
  <2>2. CASE api[a].batch # NoBatch
    BY <2>2, <1>1, GotoFacts DEF PushReady, HandlerPc, EnqueuePc, HandlerType
  <2> QED BY <2>1, <2>2
<1>7. status[t] # "none"
  BY <1>2 DEF Unstarted
<1> HIDE DEF t
<1>8. HandlerLocals'
  BY <1>1, <1>4, <1>6, <1>7 DEF IInv, HandlerLocals, LocalsOf, CancelPc, IdleHandler
<1>9. OneOwner'
  <2>1. \A h \in Handlers, x \in Tasks : Owns(h, x)' => Owns(h, x)
    BY <1>1, <1>6 DEF Owns, IdleHandler
  <2>2. \A h \in Handlers, x \in Tasks : Unwritten(h, x)' => Unwritten(h, x)
    BY <1>1, <1>6 DEF Unwritten, IdleHandler
  <2> QED BY <2>1, <2>2, <1>4 DEF IInv, OneOwner
<1>10. PushedOnce'
  <2> SUFFICES ASSUME NEW h \in Handlers, api'[h].pc = "push"
               PROVE  (Unstarted(api[h].task) /\ ~InReady(api[h].task)
                       /\ Held(api[h].task) = {})'
    BY DEF PushedOnce
  <2>1. h # a
    BY <1>6 DEF IdleHandler
  <2>2. api'[h] = api[h] /\ api[h].pc = "push" /\ api[h].task \in Tasks
    BY <2>1, <1>6 DEF IInv, HandlerLocals, LocalsOf
  <2>3. api[h].task # t
    <3>1. Owns(h, api[h].task)
      BY <2>2 DEF Owns
    <3> QED BY <3>1, <2>1, <2>2, <1>1, <1>2 DEF IInv, OneOwner
  <2>4. Unstarted(api[h].task) /\ ~InReady(api[h].task) /\ Held(api[h].task) = {}
    BY <2>2 DEF IInv, PushedOnce
  <2>5. ~InReady(api[h].task)'
    <3> DEFINE x == api[h].task
    <3>1. x \in Tasks /\ x # t /\ ~InReady(x)
      BY <2>2, <2>3, <2>4
    <3>2. \A i \in DOMAIN ready' : ready'[i] # x
      BY <3>1, <1>3 DEF InReady
    <3> QED BY <3>2, <2>2 DEF InReady
  <2> QED BY <2>2, <2>4, <2>5, <1>4 DEF Unstarted, Held
<1>11. NoneIsNowhere'
  BY <1>3, <1>4, <1>5, <1>7 DEF IInv, NoneIsNowhere, Held
<1>12. SingleCopy'
  <2>1. ASSUME NEW x \in Tasks \ resent', InReady(x)' PROVE Held(x)' = {}
    <3>1. Held(x)' = Held(x) /\ x \in Tasks \ resent
      BY <1>3, <1>4 DEF Held
    <3>2. CASE x = t
      BY <3>1, <3>2, <1>2
    <3>3. CASE x # t
      BY <2>1, <3>1, <3>3, <1>3 DEF IInv, SingleCopy
    <3> QED BY <3>2, <3>3
  <2>2. \A x \in Tasks \ resent' : \A w1, w2 \in Held(x)' : w1 = w2
    BY <1>3, <1>4 DEF IInv, SingleCopy, Held
  <2> QED BY <2>1, <2>2, <1>3 DEF SingleCopy
<1>13. ReadyIsUnstarted'
  BY <1>2, <1>3, <1>4 DEF IInv, ReadyIsUnstarted, Unstarted
<1> QED BY <1>8, <1>9, <1>10, <1>11, <1>12, <1>13 DEF Rest

\* SADD of a task whose hash exists to its batch; at the end of the batch the
\* client learns its ids.
LEMMA JoinRest ==
  ASSUME StoreAssumption, IInv, NEW a \in Handlers, JoinBatch(a), UNCHANGED worker
  PROVE  Rest'
<1> DEFINE t == api[a].task
           b == api[a].batch
<1>1. /\ api \in [Handlers -> HandlerType] /\ batchTasks \in [Batches -> SUBSET Tasks]
      /\ api[a].pc = "join" /\ t \in Tasks /\ b \in Batches /\ status[t] # "none"
  BY DEF IInv, TypeOK, StoreTypeOK, HandlerLocals, LocalsOf, JoinBatch
<1>2. UNCHANGED <<ready, status, processing, completed, failed, resent, worker>>
  BY DEF JoinBatch
<1>3. /\ batchTasks'[b] = batchTasks[b] \cup {t}
      /\ \A c \in Batches : c # b => batchTasks'[c] = batchTasks[c]
      /\ told' \subseteq told \cup batchTasks'[b]
  BY <1>1 DEF JoinBatch
<1>4. /\ \/ api'[a] = IdleHandler
         \/ api'[a].pc = "userLimit" /\ api'[a].todo = api[a].todo
      /\ \A h \in Handlers : h # a => api'[h] = api[h]
  <2>1. CASE api[a].todo = {}
    BY <2>1, <1>1, ReturnFacts DEF JoinBatch
  <2>2. CASE api[a].todo # {}
    BY <2>2, <1>1 DEF JoinBatch
  <2> QED BY <2>1, <2>2
<1> HIDE DEF t, b
<1>5. HandlerLocals'
  <2>1. LocalsOf(a)'
    BY <1>4 DEF LocalsOf, CancelPc, IdleHandler
  <2>2. \A h \in Handlers : h # a => LocalsOf(h)'
    BY <1>2, <1>4 DEF IInv, HandlerLocals, LocalsOf
  <2> QED BY <2>1, <2>2 DEF HandlerLocals
<1>6. OneOwner'
  <2>1. \A h \in Handlers, x \in Tasks : Owns(h, x)' => Owns(h, x)
    BY <1>4 DEF Owns, IdleHandler
  <2>2. \A h \in Handlers, x \in Tasks : Unwritten(h, x)' => Unwritten(h, x)
    BY <1>4 DEF Unwritten, IdleHandler
  <2> QED BY <2>1, <2>2, <1>2 DEF IInv, OneOwner
<1>7. PushedOnce'
  BY <1>2, <1>4 DEF IInv, PushedOnce, Unstarted, InReady, Held, IdleHandler
<1>8. NoneIsNowhere'
  <2>1. ASSUME NEW x \in Tasks, status[x] = "none"
        PROVE  x \notin told' /\ \A c \in Batches : x \notin batchTasks'[c]
    BY <2>1, <1>1, <1>3 DEF IInv, NoneIsNowhere
  <2> QED BY <2>1, <1>2 DEF IInv, NoneIsNowhere, InReady, Held
<1>9. SingleCopy' /\ ReadyIsUnstarted'
  BY <1>2 DEF IInv, SingleCopy, ReadyIsUnstarted, InReady, Held
<1> QED BY <1>5, <1>6, <1>7, <1>8, <1>9 DEF Rest

\* LREM of a task that is being cancelled.
LEMMA RemoveRest ==
  ASSUME StoreAssumption, IInv, NEW a \in Handlers, RemoveReady(a), UNCHANGED worker
  PROVE  Rest'
<1>1. /\ api \in [Handlers -> HandlerType] /\ LocalsOf(a) /\ api[a].pc = "remove"
  BY DEF IInv, TypeOK, StoreTypeOK, HandlerLocals, RemoveReady
<1>2. /\ api'[a].pc = "mark" /\ api'[a].task = api[a].task /\ api'[a].todo = api[a].todo
      /\ \A h \in Handlers : h # a => api'[h] = api[h]
  BY <1>1, GotoFacts DEF RemoveReady, HandlerPc, CancelPc
<1>3. UNCHANGED <<status, processing, completed, failed, batchTasks, told, resent, worker>>
  BY DEF RemoveReady
<1>4. /\ \A x \in Tasks : InReady(x)' => InReady(x)
      /\ \A x \in Tasks \ resent :
           \A i, j \in DOMAIN ready' : ready'[i] = x /\ ready'[j] = x => i = j
  BY IInvOnce, RemoveKeepsOnce DEF RemoveReady
<1>5. HandlerLocals'
  BY <1>1, <1>2, <1>3 DEF IInv, HandlerLocals, LocalsOf, CancelPc
<1>6. OneOwner'
  <2>1. \A h \in Handlers, x \in Tasks : Owns(h, x)' => Owns(h, x)
    BY <1>2 DEF Owns
  <2>2. \A h \in Handlers, x \in Tasks : Unwritten(h, x)' => Unwritten(h, x)
    BY <1>2 DEF Unwritten
  <2> QED BY <2>1, <2>2, <1>3 DEF IInv, OneOwner
<1>7. PushedOnce'
  <2> SUFFICES ASSUME NEW h \in Handlers, api'[h].pc = "push"
               PROVE  (Unstarted(api[h].task) /\ ~InReady(api[h].task)
                       /\ Held(api[h].task) = {})'
    BY DEF PushedOnce
  <2>1. api'[h] = api[h] /\ api[h].pc = "push" /\ api[h].task \in Tasks
    BY <1>2 DEF IInv, HandlerLocals, LocalsOf
  <2>2. Unstarted(api[h].task) /\ ~InReady(api[h].task) /\ Held(api[h].task) = {}
    BY <2>1 DEF IInv, PushedOnce
  <2>3. ~InReady(api[h].task)'
    <3> DEFINE x == api[h].task
    <3>1. x \in Tasks /\ ~InReady(x)
      BY <2>1, <2>2
    <3>2. \A i \in DOMAIN ready' : ready'[i] # x
      BY <3>1, <1>4 DEF InReady
    <3> QED BY <3>2, <2>1 DEF InReady
  <2> QED BY <2>1, <2>2, <2>3, <1>3 DEF Unstarted, Held
<1>8. NoneIsNowhere' /\ SingleCopy' /\ ReadyIsUnstarted'
  BY <1>3, <1>4 DEF IInv, NoneIsNowhere, SingleCopy, ReadyIsUnstarted, Held
<1> QED BY <1>5, <1>6, <1>7, <1>8 DEF Rest

\* HSET status cancelled of a task whose hash exists.
LEMMA MarkRest ==
  ASSUME StoreAssumption, IInv, NEW a \in Handlers, MarkCancelled(a), UNCHANGED worker
  PROVE  Rest'
<1> DEFINE t == api[a].task
<1>1. /\ api \in [Handlers -> HandlerType] /\ status \in [Tasks -> Status]
      /\ t \in Tasks /\ status[t] # "none"
  BY DEF IInv, TypeOK, StoreTypeOK, HandlerLocals, LocalsOf, MarkCancelled, CancelPc
<1>2. api'[a] = IdleHandler /\ \A h \in Handlers : h # a => api'[h] = api[h]
  BY <1>1, ReturnFacts DEF MarkCancelled
<1>3. status'[t] = "cancelled" /\ \A x \in Tasks : x # t => status'[x] = status[x]
  BY <1>1 DEF MarkCancelled
<1>4. UNCHANGED <<ready, processing, completed, failed, batchTasks, told, resent, worker>>
  BY DEF MarkCancelled
<1> HIDE DEF t
<1>5. HandlerLocals'
  <2>1. LocalsOf(a)'
    BY <1>2 DEF LocalsOf, CancelPc, IdleHandler
  <2>2. ASSUME NEW h \in Handlers, h # a PROVE LocalsOf(h)'
    <3>1. LocalsOf(h) /\ api'[h] = api[h]
      BY <1>2, <2>2 DEF IInv, HandlerLocals
    <3>2. api[h].task \in Tasks /\ status[api[h].task] # "none" =>
            status'[api[h].task] # "none"
      BY <1>3
    <3> QED BY <3>1, <3>2 DEF LocalsOf, CancelPc
  <2> QED BY <2>1, <2>2 DEF HandlerLocals
<1>6. OneOwner'
  <2>1. \A h \in Handlers, x \in Tasks : Owns(h, x)' => Owns(h, x)
    BY <1>2 DEF Owns, IdleHandler
  <2>2. \A h \in Handlers, x \in Tasks : Unwritten(h, x)' => Unwritten(h, x)
    BY <1>2 DEF Unwritten, IdleHandler
  <2>3. \A h \in Handlers : ~Unwritten(h, t)
    BY <1>1 DEF IInv, OneOwner
  <2> QED BY <2>1, <2>2, <2>3, <1>3 DEF IInv, OneOwner
<1>7. PushedOnce'
  <2> SUFFICES ASSUME NEW h \in Handlers, api'[h].pc = "push"
               PROVE  (Unstarted(api[h].task) /\ ~InReady(api[h].task)
                       /\ Held(api[h].task) = {})'
    BY DEF PushedOnce
  <2>1. api'[h] = api[h] /\ api[h].pc = "push" /\ api[h].task \in Tasks
    BY <1>2 DEF IInv, HandlerLocals, LocalsOf, IdleHandler
  <2>2. Unstarted(api[h].task) /\ ~InReady(api[h].task) /\ Held(api[h].task) = {}
    BY <2>1 DEF IInv, PushedOnce
  <2> QED BY <2>1, <2>2, <1>3, <1>4 DEF Unstarted, InReady, Held
<1>8. NoneIsNowhere' /\ SingleCopy' /\ ReadyIsUnstarted'
  BY <1>3, <1>4 DEF IInv, NoneIsNowhere, SingleCopy, ReadyIsUnstarted, InReady, Held
<1> QED BY <1>5, <1>6, <1>7, <1>8 DEF Rest

\* Every command of a handler keeps the places of the tasks.
LEMMA HandlerRest ==
  ASSUME StoreAssumption, IInv, NEW a \in Handlers, HandlerStep(a), UNCHANGED workerVars
  PROVE  Rest'
<1>1. /\ api \in [Handlers -> HandlerType] /\ api[a] \in HandlerType
      /\ LocalsOf(a) /\ TypeOK /\ UNCHANGED worker
      /\ NoTask \notin Tasks /\ NoBatch \notin Batches
  BY DEF IInv, TypeOK, StoreTypeOK, HandlerLocals, workerVars, StoreAssumption
<1>2. ASSUME Return(a), processing' \subseteq processing,
             UNCHANGED <<ready, status, completed, failed, batchTasks, told, resent>>
      PROVE  Rest'
  <2>1. api'[a] = IdleHandler /\ \A h \in Handlers : h # a => api'[h] = api[h]
    BY <1>1, <1>2, ReturnFacts
  <2>2. LocalsOf(a)' /\ api'[a].pc # "push"
    BY <2>1 DEF LocalsOf, IdleHandler, CancelPc
  <2>3. OwnsNoMore(a)
    BY <2>1, <1>1 DEF OwnsNoMore, Owns, Unwritten, IdleHandler
  <2> QED BY <2>1, <2>2, <2>3, <1>1, <1>2, QuietMove
<1>3. ASSUME NEW pc \in {"save"} \cup CancelPc, Goto(a, pc),
             pc = "save" => api[a].pc = "globalLimit",
             pc \in CancelPc => api[a].pc \in CancelPc,
             processing' \subseteq processing,
             UNCHANGED <<ready, status, completed, failed, batchTasks, told, resent>>
      PROVE  Rest'
  <2>1. /\ api'[a].pc = pc /\ api'[a].task = api[a].task /\ api'[a].todo = api[a].todo
        /\ \A h \in Handlers : h # a => api'[h] = api[h]
    BY <1>1, <1>3, GotoFacts DEF HandlerPc, EnqueuePc
  <2>2. LocalsOf(a)' /\ api'[a].pc # "push"
    BY <2>1, <1>1, <1>3 DEF LocalsOf, CancelPc
  <2>3. OwnsNoMore(a)
    BY <2>1, <1>3 DEF OwnsNoMore, Owns, Unwritten, CancelPc
  <2>4. /\ processing' \subseteq processing
        /\ UNCHANGED <<ready, status, completed, failed, batchTasks, told, resent, worker>>
    BY <1>1, <1>3
  <2> HIDE <1>3
  <2> QED BY <2>1, <2>2, <2>3, <2>4, QuietMove
<1>4. ASSUME NEW t \in Tasks, SubmitSingle(a, t) PROVE Rest'
  <2>1. {t} \in SUBSET Tasks /\ \A x \in {t} : Fresh(x)
    BY <1>4 DEF SubmitSingle
  <2> QED BY <2>1, <1>1, <1>4, NewRequest DEF SubmitSingle, redisVars
<1>5. ASSUME NEW b \in Batches, NEW S \in SUBSET Tasks, CreateBatch(a, b, S) PROVE Rest'
  BY <1>1, <1>5, NewRequest DEF CreateBatch
<1>6. ASSUME NEW t \in Tasks, ReadForCancel(a, t) PROVE Rest'
  <2>1. PICK pc \in CancelPc :
          api' = [api EXCEPT ![a] = [pc |-> pc, todo |-> {}, task |-> t, batch |-> NoBatch]]
    BY <1>6 DEF ReadForCancel, CancelPc
  <2>2. /\ api'[a].pc = pc /\ api'[a].task = t /\ api'[a].todo = {}
        /\ \A h \in Handlers : h # a => api'[h] = api[h]
    BY <2>1, <1>1
  <2>3. status[t] # "none" /\ UNCHANGED status
    BY <1>6 DEF ReadForCancel, IInv, NoneIsNowhere, redisVars
  <2>4. LocalsOf(a)' /\ api'[a].pc # "push"
    BY <2>2, <2>3, <1>6 DEF LocalsOf, CancelPc
  <2>5. OwnsNoMore(a)
    BY <2>2 DEF OwnsNoMore, Owns, Unwritten, CancelPc
  <2> QED BY <2>2, <2>4, <2>5, <1>1, <1>6, QuietMove DEF ReadForCancel, redisVars
<1>7. CASE CheckUserLimit(a)
  <2>1. PICK t \in api[a].todo :
          \/ api' = [api EXCEPT ![a] = [pc |-> "globalLimit", todo |-> api[a].todo \ {t},
                                        task |-> t, batch |-> api[a].batch]]
          \/ Return(a)
    BY <1>7 DEF CheckUserLimit
  <2>2. CASE api' = [api EXCEPT ![a] = [pc |-> "globalLimit", todo |-> api[a].todo \ {t},
                                        task |-> t, batch |-> api[a].batch]]
    <3>1. /\ api'[a].pc = "globalLimit" /\ api'[a].task = t
          /\ api'[a].todo = api[a].todo \ {t}
          /\ \A h \in Handlers : h # a => api'[h] = api[h]
      BY <2>2, <1>1
    <3>2. t \in Tasks
      BY <2>1, <1>1 DEF HandlerType
    <3>3. LocalsOf(a)' /\ api'[a].pc # "push"
      BY <3>1, <3>2 DEF LocalsOf, CancelPc
    <3>4. OwnsNoMore(a)
      BY <3>1, <2>1 DEF OwnsNoMore, Owns, Unwritten
    <3>5. /\ processing' \subseteq processing
          /\ UNCHANGED <<ready, status, completed, failed, batchTasks, told, resent, worker>>
      BY <1>1, <1>7 DEF CheckUserLimit, redisVars
    <3> QED BY <3>1, <3>3, <3>4, <3>5, QuietMove
  <2> QED BY <2>1, <2>2, <1>2, <1>7 DEF CheckUserLimit, redisVars
<1>8. CASE CheckGlobalLimit(a)
  <2>1. CASE Goto(a, "save")
    <3>1. "save" \notin CancelPc
      BY DEF CancelPc
    <3> QED BY <3>1, <2>1, <1>3, <1>8 DEF CheckGlobalLimit, redisVars
  <2> QED BY <2>1, <1>2, <1>8 DEF CheckGlobalLimit, redisVars
<1>9. CASE SaveTask(a)
  BY <1>9, SaveRest DEF IInv, workerVars
<1>10. CASE PushReady(a)
  BY <1>10, PushRest DEF workerVars
<1>11. CASE JoinBatch(a)
  BY <1>11, JoinRest DEF workerVars
<1>12. CASE UnmarkUser(a)
  BY <1>3, <1>12 DEF UnmarkUser, CancelPc
<1>13. CASE UnmarkGlobal(a)
  BY <1>3, <1>13 DEF UnmarkGlobal, CancelPc
<1>14. CASE ClearVisibility(a)
  BY <1>3, <1>14 DEF ClearVisibility, CancelPc
<1>15. CASE RemoveReady(a)
  BY <1>15, RemoveRest DEF workerVars
<1>16. CASE MarkCancelled(a)
  BY <1>16, MarkRest DEF workerVars
<1>17. CASE HandlerFault(a)
  BY <1>2, <1>17 DEF HandlerFault, redisVars
<1> QED
  BY <1>4, <1>5, <1>6, <1>7, <1>8, <1>9, <1>10, <1>11, <1>12, <1>13, <1>14, <1>15, <1>16, <1>17
     DEF HandlerStep, Enqueue, Cancel

-----------------------------------------------------------------------------
(* Workers preserve the rest of the invariant.                             *)

\* What a step of a worker that has taken a task may change: that task's status
\* and its membership of the sets, and the worker's own locals.
WorksOn(w, t) ==
  /\ \A x \in Tasks : x # t =>
       /\ status'[x] = status[x]
       /\ x \in processing' => x \in processing
       /\ x \in completed' => x \in completed
       /\ x \in failed' => x \in failed
  /\ status'[t] # "none" \/ status'[t] = status[t]
  /\ worker'[w].task \in {t, NoTask}
  /\ \A v \in Workers : v # w => worker'[v] = worker[v]
  /\ UNCHANGED <<ready, batchTasks, told, api, resent>>

\* A command of a worker on its own task keeps the places of the tasks.
LEMMA WorksOnRest ==
  ASSUME StoreAssumption, IInv, NEW w \in Workers, NEW t \in Tasks,
         worker[w].task = t, WorksOn(w, t)
  PROVE  Rest'
<1>1. w \in Held(t) /\ NoTask \notin Tasks
  BY DEF Held, StoreAssumption
<1>2. status[t] # "none" /\ status'[t] # "none"
  BY <1>1 DEF IInv, NoneIsNowhere, WorksOn
<1>3. \A x \in Tasks : Held(x)' \subseteq Held(x)
  BY <1>1 DEF Held, WorksOn
<1>4. \A x \in Tasks : (InReady(x)' <=> InReady(x)) /\ (status'[x] = "none" <=> status[x] = "none")
  BY <1>2 DEF InReady, WorksOn
<1>5. HandlerLocals'
  <2> SUFFICES ASSUME NEW h \in Handlers PROVE LocalsOf(h)'
    BY DEF HandlerLocals
  <2>1. LocalsOf(h) /\ api' = api
    BY DEF IInv, HandlerLocals, WorksOn
  <2>2. api[h].task \in Tasks /\ status[api[h].task] # "none" => status'[api[h].task] # "none"
    BY <1>4
  <2> QED BY <2>1, <2>2 DEF LocalsOf, CancelPc
<1>6. OneOwner'
  <2>1. \A h \in Handlers, x \in Tasks : (Owns(h, x)' <=> Owns(h, x))
                                         /\ (Unwritten(h, x)' <=> Unwritten(h, x))
    BY DEF Owns, Unwritten, WorksOn
  <2> QED BY <2>1, <1>4 DEF IInv, OneOwner
<1>7. PushedOnce'
  <2> SUFFICES ASSUME NEW h \in Handlers, api'[h].pc = "push"
               PROVE  (Unstarted(api[h].task) /\ ~InReady(api[h].task)
                       /\ Held(api[h].task) = {})'
    BY DEF PushedOnce
  <2> DEFINE x == api[h].task
  <2>1. api' = api /\ api[h].pc = "push" /\ x \in Tasks
    BY DEF IInv, HandlerLocals, LocalsOf, WorksOn
  <2>2. Unstarted(x) /\ ~InReady(x) /\ Held(x) = {}
    BY <2>1 DEF IInv, PushedOnce
  <2>3. x # t
    BY <2>2, <1>1
  <2> QED BY <2>1, <2>2, <2>3, <1>3 DEF Unstarted, InReady, Held, WorksOn
<1>8. NoneIsNowhere'
  <2> SUFFICES ASSUME NEW x \in Tasks, status'[x] = "none"
               PROVE  /\ ~InReady(x)' /\ Held(x)' = {}
                      /\ x \notin told' /\ \A b \in Batches : x \notin batchTasks'[b]
                      /\ x \notin processing' \cup completed' \cup failed'
    BY DEF NoneIsNowhere
  <2>1. x # t /\ status[x] = "none"
    BY <1>2, <1>4
  <2> QED BY <2>1, <1>3, <1>4 DEF IInv, NoneIsNowhere, WorksOn
<1>9. SingleCopy'
  <2>1. ready' = ready /\ resent' = resent
    BY DEF WorksOn
  <2> QED BY <2>1, <1>3, <1>4 DEF IInv, SingleCopy
<1>10. ReadyIsUnstarted'
  <2> SUFFICES ASSUME NEW x \in Tasks \ resent', InReady(x)'
               PROVE  /\ status'[x] \in {"queued", "cancelled"}
                      /\ x \notin processing' \cup completed' \cup failed'
    BY DEF ReadyIsUnstarted
  <2>1. x \in Tasks \ resent /\ InReady(x)
    BY <1>4 DEF WorksOn
  <2>2. x # t
    BY <2>1, <1>1 DEF IInv, SingleCopy
  <2> QED BY <2>1, <2>2 DEF IInv, ReadyIsUnstarted, WorksOn
<1> QED BY <1>5, <1>6, <1>7, <1>8, <1>9, <1>10 DEF Rest

\* BLPOP, whether the worker gets the reply or not.
Pops(w) ==
  /\ ready # <<>> /\ ready' = Tail(ready)
  /\ worker'[w].task = Head(ready) \/ UNCHANGED worker
  /\ \A v \in Workers : v # w => worker'[v] = worker[v]
  /\ UNCHANGED <<status, processing, completed, failed, batchTasks, told, api, resent>>

\* A pop moves its task from the list to the worker.
LEMMA PopsRest ==
  ASSUME StoreAssumption, IInv, NEW w \in Workers, Pops(w)
  PROVE  Rest'
<1> DEFINE t == Head(ready)
<1>1. /\ \A x \in Tasks : InReady(x)' => InReady(x)
      /\ InReady(t) /\ t \in Tasks
      /\ \A x \in Tasks \ resent : x = t => ~InReady(x)'
      /\ \A x \in Tasks \ resent :
           \A i, j \in DOMAIN ready' : ready'[i] = x /\ ready'[j] = x => i = j
  BY IInvOnce, TailKeepsOnce DEF Pops
<1>2. /\ \A x \in Tasks : x # t => Held(x)' \subseteq Held(x)
      /\ \A x \in Tasks : x = t => Held(x)' \subseteq Held(x) \cup {w}
  BY DEF Held, Pops
<1> HIDE DEF t
<1>3. UNCHANGED <<status, processing, completed, failed, batchTasks, told, api, resent>>
  BY DEF Pops
<1>4. HandlerLocals' /\ OneOwner'
  BY <1>3 DEF IInv, HandlerLocals, LocalsOf, OneOwner, Owns, Unwritten
<1>5. PushedOnce'
  <2> SUFFICES ASSUME NEW h \in Handlers, api'[h].pc = "push"
               PROVE  (Unstarted(api[h].task) /\ ~InReady(api[h].task)
                       /\ Held(api[h].task) = {})'
    BY DEF PushedOnce
  <2> DEFINE x == api[h].task
  <2>1. x' = x /\ api[h].pc = "push" /\ x \in Tasks
    BY <1>3 DEF IInv, HandlerLocals, LocalsOf
  <2>2. Unstarted(x) /\ ~InReady(x) /\ Held(x) = {}
    BY <2>1 DEF IInv, PushedOnce
  <2>3. \A y \in Tasks : y = x => ~InReady(y)' /\ Held(y)' = {}
    BY <2>2, <1>1, <1>2
  <2>4. ~InReady(x)' /\ Held(x)' = {}
    BY <2>1, <2>3 DEF InReady, Held
  <2> QED BY <2>1, <2>2, <2>4, <1>3 DEF Unstarted
<1>6. NoneIsNowhere'
  BY <1>1, <1>2, <1>3 DEF IInv, NoneIsNowhere
<1>7. SingleCopy'
  <2> SUFFICES ASSUME NEW x \in Tasks \ resent
               PROVE  /\ InReady(x)' => Held(x)' = {}
                      /\ \A w1, w2 \in Held(x)' : w1 = w2
    BY <1>1, <1>3 DEF SingleCopy
  <2>1. CASE x = t
    <3>1. Held(x) = {}
      BY <2>1, <1>1 DEF IInv, SingleCopy
    <3> QED BY <2>1, <3>1, <1>1, <1>2
  <2>2. CASE x # t
    BY <2>2, <1>1, <1>2 DEF IInv, SingleCopy
  <2> QED BY <2>1, <2>2
<1>8. ReadyIsUnstarted'
  BY <1>1, <1>3 DEF IInv, ReadyIsUnstarted
<1> QED BY <1>4, <1>5, <1>6, <1>7, <1>8 DEF Rest

\* Every command of a worker keeps the places of the tasks.
LEMMA WorkerStepRest ==
  ASSUME StoreAssumption, IInv, NEW w \in Workers, WorkerStep(w)
  PROVE  Rest'
<1> DEFINE t == worker[w].task
<1>1. /\ worker \in [Workers -> WorkerRecord] /\ worker[w] \in WorkerRecord
      /\ status \in [Tasks -> Status]
      /\ worker[w].pc # "idle" => t \in Tasks
  BY DEF IInv, TypeOK, StoreTypeOK, WorkerRecord
<1>2. ASSUME NEW to \in WorkingPc, NEW from, from # "idle", Move(w, from, to)
      PROVE  t \in Tasks /\ worker'[w].task \in {t, NoTask}
             /\ \A v \in Workers : v # w => worker'[v] = worker[v]
  <2>1. worker[w].pc = from
    BY <1>2 DEF Move
  <2> QED BY <2>1, <1>1, <1>2, MoveFacts
<1>3. ASSUME worker' = [worker EXCEPT ![w] = IdleWorker], worker[w].pc # "idle"
      PROVE  t \in Tasks /\ worker'[w].task \in {t, NoTask}
             /\ \A v \in Workers : v # w => worker'[v] = worker[v]
  BY <1>1, <1>3, FinishFacts DEF IdleWorker
<1> USE DEF WorkingPc, TryPc, ExceptPc
<1>4. CASE Take(w)
  <2>1. Pops(w)
    BY <1>4, <1>1 DEF Take, Pops
  <2> QED BY <2>1, PopsRest
<1>5. CASE TakeLost(w)
  <2>1. Pops(w)
    BY <1>5 DEF TakeLost, Pops, workerVars
  <2> QED BY <2>1, PopsRest
<1>6. CASE Start(w)
  <2>1. t \in Tasks /\ WorksOn(w, t)
    BY <1>6, <1>1, <1>2 DEF Start, WorksOn
  <2> QED BY <2>1, WorksOnRest
<1>7. CASE Claim(w)
  <2>1. t \in Tasks /\ WorksOn(w, t)
    BY <1>7, <1>1, <1>2 DEF Claim, WorksOn
  <2> QED BY <2>1, WorksOnRest
<1>8. CASE Analyse(w)
  <2>1. t \in Tasks /\ WorksOn(w, t)
    BY <1>8, <1>1 DEF Analyse, WorksOn, storeVars, redisVars
  <2> QED BY <2>1, WorksOnRest
<1>9. CASE Conclude(w)
  <2>1. /\ t \in Tasks /\ worker'[w].task \in {t, NoTask}
        /\ \A v \in Workers : v # w => worker'[v] = worker[v]
    BY <1>9, <1>1, <1>2, <1>3 DEF Conclude, Publish, Release, Index, ExceptPublish,
                                  ExceptRelease, ExceptIndex, Finish
  <2>2. TryEffect(w) \/ PublishEffect(w, "failed") \/ ReleaseEffect(w)
        \/ IndexEffect(w, FinalStatus(w)) \/ IndexEffect(w, "failed")
    BY <1>9 DEF Conclude, TryEffect, Publish, Release, Index, ExceptPublish, ExceptRelease,
                ExceptIndex, Move
  <2>3. WorksOn(w, t)
    BY <2>1, <2>2, <1>1, <1>9 DEF Conclude, TryEffect, PublishEffect, ReleaseEffect, IndexEffect,
                                  FinalStatus, WorksOn
  <2> QED BY <2>1, <2>3, WorksOnRest
<1>10. CASE RedisError(w)
  <2>1. /\ t \in Tasks /\ worker'[w].task \in {t, NoTask}
        /\ \A v \in Workers : v # w => worker'[v] = worker[v]
    BY <1>10, <1>1, <1>2 DEF RedisError
  <2>2. WorksOn(w, t)
    BY <2>1, <1>1, <1>10 DEF RedisError, TryEffect, PublishEffect, ReleaseEffect, IndexEffect,
                             FinalStatus, WorksOn
  <2> QED BY <2>1, <2>2, WorksOnRest
<1>11. CASE WorkerFault(w)
  <2>1. t \in Tasks /\ WorksOn(w, t)
    BY <1>11, <1>1, <1>3 DEF WorkerFault, WorksOn, redisVars
  <2> QED BY <2>1, WorksOnRest
<1> QED
  BY <1>4, <1>5, <1>6, <1>7, <1>8, <1>9, <1>10, <1>11 DEF WorkerStep, Process

-----------------------------------------------------------------------------
(* The theorems.                                                           *)

\* The empty queue satisfies the invariant.
LEMMA InitIInv == ASSUME StoreAssumption, Init PROVE IInv
<1> USE DEF Init, StoreInit
<1>1. TypeOK
  BY DEF TypeOK, StoreTypeOK, HandlerType, IdleHandler, IdleWorker, Status, StoreAssumption
<1>2. \A a \in Handlers : api[a] = IdleHandler
  OBVIOUS
<1>3. HandlerLocals /\ PushedOnce
  BY <1>2 DEF HandlerLocals, LocalsOf, PushedOnce, IdleHandler, CancelPc
<1>4. OneOwner
  BY <1>2 DEF OneOwner, Owns, Unwritten, IdleHandler
<1>5. \A t \in Tasks : ~InReady(t) /\ Held(t) = {}
  BY DEF InReady, Held, IdleWorker, StoreAssumption
<1>6. NoneIsNowhere /\ SingleCopy /\ ReadyIsUnstarted
  BY <1>5 DEF NoneIsNowhere, SingleCopy, ReadyIsUnstarted, InReady
<1> QED BY <1>1, <1>3, <1>4, <1>6 DEF IInv

\* Steps that touch neither Redis nor a handler nor a worker.
LEMMA StreamKeepsIInv ==
  ASSUME IInv, UNCHANGED <<storeVars, worker>> PROVE IInv'
BY DEF IInv, storeVars, redisVars, TypeOK, StoreTypeOK, HandlerLocals, LocalsOf, OneOwner, Owns,
       Unwritten, PushedOnce, Unstarted, NoneIsNowhere, SingleCopy, ReadyIsUnstarted, InReady, Held

\* Every step keeps the invariant.
LEMMA NextKeepsIInv == ASSUME StoreAssumption, IInv, [Next]_vars PROVE IInv'
<1>1. ASSUME NEW a \in Handlers, HandlerStep(a), UNCHANGED workerVars PROVE IInv'
  BY <1>1, EnqueueType, HandlerRest DEF IInv, Rest
<1>2. ASSUME NEW w \in Workers, WorkerStep(w) PROVE IInv'
  BY <1>2, WorkerType, WorkerStepRest DEF IInv, Rest
<1>3. ASSUME StreamStep PROVE IInv'
  BY <1>3, StreamKeepsIInv DEF StreamStep, PollBatch, PollTask, PollAgain
<1>4. ASSUME UNCHANGED vars PROVE IInv'
  BY <1>4, StreamKeepsIInv DEF vars
<1> QED BY <1>1, <1>2, <1>3, <1>4 DEF Next

\* The invariant that carries the safety of the queue holds in every behaviour.
THEOREM Inductive == Spec => []IInv
<1>1. Init => IInv
  BY InitIInv, StoreAssumption
<1>2. IInv /\ [Next]_vars => IInv'
  BY NextKeepsIInv, StoreAssumption
<1> QED BY <1>1, <1>2, PTL DEF Spec

\* Every variable keeps its type, whatever the handlers, workers and faults do.
THEOREM TypeCorrect == Spec => []TypeOK
<1>1. IInv => TypeOK
  BY DEF IInv
<1> QED BY <1>1, Inductive, PTL

\* A task id that Redis was sent once is in one place only, in qa:ready or with
\* one worker: enqueues, cancels, crashes and lost replies never duplicate it.
THEOREM TaskInOnePlace == Spec => []SingleCopy
<1>1. IInv => SingleCopy
  BY DEF IInv
<1> QED BY <1>1, Inductive, PTL

\* What waits in qa:ready has never been run: the worker that takes it is the
\* first to claim it and to publish a result for it.
THEOREM ReadyTasksAreUnstarted == Spec => []ReadyIsUnstarted
<1>1. IInv => ReadyIsUnstarted
  BY DEF IInv
<1> QED BY <1>1, Inductive, PTL

-----------------------------------------------------------------------------
(* Part two: the result sets, the slots and the stream.  The invariant of  *)
(* part one is at hand in every step.                                      *)

IdleFree == \A w \in Workers : worker[w].pc = "idle" => worker[w].task = NoTask

BeforeResult == {"start", "claim", "run", "publish"}

\* What the status and the result sets say of the task worker w runs.
RunOf(w) ==
  LET t == worker[w].task IN
  t \in Tasks \ resent =>
    /\ worker[w].pc \in BeforeResult =>
         status[t] \notin {"completed", "failed"} /\ t \notin completed \cup failed
    /\ worker[w].pc \in {"release", "index"} =>
         status[t] \in {"failed", "cancelled"} /\ t \notin failed
    /\ worker[w].pc \in ExceptPc => faults > 0
    /\ worker[w].pc \in {"xRelease", "xIndex"} => status[t] \in {"failed", "cancelled"}
    /\ worker[w].pc \in {"index", "xIndex"} => t \notin processing

RunsAgree == \A w \in Workers : RunOf(w)

LedgerOf(t) ==
  /\ t \in failed => status[t] \in {"failed", "cancelled"} /\ t \notin processing
  /\ status[t] = "failed" /\ Held(t) = {} /\ t \notin failed => faults > 0

\* The steps of a worker from which it will still remove its entry, and the
\* entries of qa:processing nobody will remove.
Clearing == {"run", "publish", "release", "xPublish", "xRelease"}
Leaked == {t \in processing : \A w \in Held(t) : worker[w].pc \notin Clearing}
LeakBounded == IsFiniteSet(Leaked) /\ Cardinality(Leaked) <= faults

LedgerInv == IdleFree /\ RunsAgree /\ LedgerAgrees /\ LeakBounded

-----------------------------------------------------------------------------
(* What a step can do, handler by handler and worker by worker.            *)

\* The writes of a handler: a status becomes cancelled, or queued when there
\* was no hash; the result sets are not touched and slots are only given back.
HandlerWrites ==
  /\ \A t \in Tasks : \/ status'[t] \in {status[t], "cancelled"}
                      \/ status[t] = "none" /\ status'[t] = "queued"
  /\ processing' \subseteq processing
  /\ faults' >= faults /\ resent \subseteq resent'
  /\ UNCHANGED <<completed, failed, worker, stream>>

\* Every command of a handler writes no more than HandlerWrites allows.
LEMMA HandlerEffects ==
  ASSUME StoreAssumption, IInv, NEW a \in Handlers, HandlerStep(a), UNCHANGED workerVars
  PROVE  HandlerWrites
<1>1. /\ status \in [Tasks -> Status] /\ faults \in Nat /\ UNCHANGED <<worker, stream>>
      /\ LocalsOf(a)
  BY DEF IInv, TypeOK, StoreTypeOK, StoreAssumption, workerVars, HandlerLocals
<1> USE DEF HandlerWrites, redisVars
<1>2. ASSUME NEW t \in Tasks, SubmitSingle(a, t) PROVE HandlerWrites
  BY <1>1, <1>2 DEF SubmitSingle
<1>3. ASSUME NEW b \in Batches, NEW S \in SUBSET Tasks, CreateBatch(a, b, S) PROVE HandlerWrites
  BY <1>1, <1>3 DEF CreateBatch
<1>4. ASSUME NEW t \in Tasks, ReadForCancel(a, t) PROVE HandlerWrites
  BY <1>1, <1>4 DEF ReadForCancel
<1>5. CASE CheckUserLimit(a)
  BY <1>1, <1>5 DEF CheckUserLimit
<1>6. CASE CheckGlobalLimit(a)
  BY <1>1, <1>6 DEF CheckGlobalLimit
<1>7. CASE SaveTask(a)
  <2>1. api[a].task \in Tasks /\ Unwritten(a, api[a].task)
    BY <1>1, <1>7 DEF SaveTask, LocalsOf, Unwritten
  <2>2. status[api[a].task] = "none"
    BY <2>1 DEF IInv, OneOwner
  <2> QED BY <2>2, <1>1, <1>7 DEF SaveTask
<1>8. CASE PushReady(a)
  BY <1>1, <1>8 DEF PushReady, Push
<1>9. CASE JoinBatch(a)
  BY <1>1, <1>9 DEF JoinBatch
<1>10. CASE UnmarkUser(a) \/ UnmarkGlobal(a) \/ ClearVisibility(a) \/ RemoveReady(a)
  BY <1>1, <1>10 DEF UnmarkUser, UnmarkGlobal, ClearVisibility, RemoveReady
<1>11. CASE MarkCancelled(a)
  BY <1>1, <1>11 DEF MarkCancelled
<1>12. CASE HandlerFault(a)
  BY <1>1, <1>12 DEF HandlerFault
<1> QED
  BY <1>2, <1>3, <1>4, <1>5, <1>6, <1>7, <1>8, <1>9, <1>10, <1>11, <1>12
     DEF HandlerStep, Enqueue, Cancel

\* A worker's step on its task leaves every other task and worker alone.
OthersStay(w, t) ==
  /\ \A x \in Tasks : x # t =>
       /\ status'[x] = status[x]
       /\ x \in processing' <=> x \in processing
       /\ x \in completed' <=> x \in completed
       /\ x \in failed' <=> x \in failed
  /\ \A v \in Workers : v # w => worker'[v] = worker[v]
  /\ faults' \in {faults, faults + 1}
  /\ UNCHANGED <<ready, submitted, batchTasks, known, told, api, resent, stream>>

\* The next program counter of a worker, and what the step writes of its task.
Goes(w, from, to) ==
  /\ worker[w].pc = from /\ worker'[w].pc = to
  /\ worker'[w].task = worker[w].task /\ worker'[w].ok = worker[w].ok

Keeps(t) ==
  /\ t \in processing' <=> t \in processing
  /\ t \in completed' <=> t \in completed
  /\ t \in failed' <=> t \in failed

Files(t, s) ==
  /\ status'[t] = status[t] /\ (t \in processing' <=> t \in processing)
  /\ t \in completed' <=> (t \in completed \/ s = "completed")
  /\ t \in failed' <=> (t \in failed \/ s = "failed")

Frees(t) ==
  /\ status'[t] = status[t] /\ t \notin processing'
  /\ t \in completed' <=> t \in completed
  /\ t \in failed' <=> t \in failed

Writes(t, s) == status'[t] = s /\ Keeps(t)

Same(t) == status'[t] = status[t] /\ Keeps(t)

\* The step of a try or except block at pc, as far as its task can see it.
BlockStep(w, t) ==
  \/ Goes(w, "publish", "release") /\ Writes(t, FinalStatus(w))
  \/ Goes(w, "release", "index") /\ Frees(t)
  \/ worker[w].pc = "index" /\ worker'[w] = IdleWorker /\ Files(t, FinalStatus(w))
  \/ Goes(w, "xPublish", "xRelease") /\ Writes(t, "failed")
  \/ Goes(w, "xRelease", "xIndex") /\ Frees(t)
  \/ worker[w].pc = "xIndex" /\ worker'[w] = IdleWorker /\ Files(t, "failed")

ErrorStep(w, t) ==
  \/ Goes(w, "publish", "xPublish") /\ (Same(t) \/ Writes(t, FinalStatus(w)))
  \/ Goes(w, "release", "xPublish") /\ (Same(t) \/ Frees(t))
  \/ Goes(w, "index", "xPublish") /\ (Same(t) \/ Files(t, FinalStatus(w)))

RunStep(w, t) ==
  \/ Goes(w, "start", "claim") /\ Writes(t, "processing")
  \/ Goes(w, "claim", "run") /\ status'[t] = status[t]
     /\ (t \in completed' <=> t \in completed) /\ (t \in failed' <=> t \in failed)
  \/ worker[w].pc = "run" /\ worker'[w].pc = "publish" /\ worker'[w].task = t /\ Same(t)

OwnStep(w, t) ==
  /\ t \in Tasks /\ worker[w].task = t /\ worker[w].pc # "idle"
  /\ OthersStay(w, t)
  /\ \/ (RunStep(w, t) \/ BlockStep(w, t)) /\ faults' = faults
     \/ ErrorStep(w, t) /\ faults' = faults + 1
     \/ worker'[w] = IdleWorker /\ Same(t) /\ faults' = faults + 1

PopStep(w) ==
  /\ ready # <<>> /\ ready' = Tail(ready) /\ worker[w].pc = "idle"
  /\ \/ worker'[w] = [pc |-> "start", task |-> Head(ready), ok |-> FALSE] /\ faults' = faults
     \/ worker' = worker /\ faults' = faults + 1
  /\ \A v \in Workers : v # w => worker'[v] = worker[v]
  /\ UNCHANGED <<status, processing, completed, failed, submitted, batchTasks, known, told, api,
                 resent, stream>>

\* Every command of a worker pops an id or works on its own task.
LEMMA WorkerEffects ==
  ASSUME IInv, NEW w \in Workers, WorkerStep(w)
  PROVE  PopStep(w) \/ OwnStep(w, worker[w].task)
<1> DEFINE t == worker[w].task
<1>1. /\ worker \in [Workers -> WorkerRecord] /\ worker[w] \in WorkerRecord
      /\ status \in [Tasks -> Status]
      /\ worker[w].pc # "idle" => t \in Tasks
  BY DEF IInv, TypeOK, StoreTypeOK, WorkerRecord
<1>2. ASSUME NEW from, NEW to \in WorkingPc, Move(w, from, to)
      PROVE  Goes(w, from, to) /\ \A v \in Workers : v # w => worker'[v] = worker[v]
  BY <1>1, <1>2, MoveFacts DEF Goes, Move
<1>3. ASSUME worker' = [worker EXCEPT ![w] = IdleWorker]
      PROVE  worker'[w] = IdleWorker /\ \A v \in Workers : v # w => worker'[v] = worker[v]
  BY <1>1, <1>3, FinishFacts
<1> USE DEF WorkingPc, TryPc, ExceptPc
<1>4. CASE Take(w)
  BY <1>4, <1>1 DEF Take, PopStep
<1>5. CASE TakeLost(w)
  BY <1>5, <1>1 DEF TakeLost, PopStep, workerVars
<1> HIDE DEF t
<1>6. CASE Start(w)
  <2>1. Goes(w, "start", "claim") /\ \A v \in Workers : v # w => worker'[v] = worker[v]
    BY <1>6, <1>2 DEF Start
  <2>2. t \in Tasks
    BY <2>1, <1>1 DEF Goes
  <2> QED BY <2>1, <2>2, <1>1, <1>6 DEF t, Start, OwnStep, OthersStay, RunStep, Writes, Keeps, Goes
<1>7. CASE Claim(w)
  <2>1. Goes(w, "claim", "run") /\ \A v \in Workers : v # w => worker'[v] = worker[v]
    BY <1>7, <1>2 DEF Claim
  <2>2. t \in Tasks
    BY <2>1, <1>1 DEF Goes
  <2> QED BY <2>1, <2>2, <1>1, <1>7 DEF t, Claim, OwnStep, OthersStay, RunStep, Goes
<1>8. CASE Analyse(w)
  <2>1. /\ worker[w].pc = "run" /\ worker'[w].pc = "publish" /\ worker'[w].task = t
        /\ \A v \in Workers : v # w => worker'[v] = worker[v]
        /\ UNCHANGED <<storeVars, stream>>
    BY <1>1, <1>8 DEF Analyse, WorkerRecord, t
  <2>2. OthersStay(w, t) /\ Same(t)
    BY <2>1 DEF OthersStay, Same, Keeps, storeVars, redisVars
  <2> QED BY <2>1, <2>2, <1>1 DEF t, OwnStep, RunStep, storeVars
<1>9. ASSUME t \in Tasks, PublishEffect(w, FinalStatus(w)) PROVE Writes(t, FinalStatus(w))
  BY <1>1, <1>9 DEF PublishEffect, Writes, Keeps, t
<1>10. ASSUME t \in Tasks, PublishEffect(w, "failed") PROVE Writes(t, "failed")
  BY <1>1, <1>10 DEF PublishEffect, Writes, Keeps, t
<1>11. ASSUME ReleaseEffect(w) PROVE Frees(t)
  BY <1>11 DEF ReleaseEffect, Frees, t
<1>12. ASSUME NEW s, IndexEffect(w, s) PROVE Files(t, s)
  BY <1>12 DEF IndexEffect, Files, t
<1>13. ASSUME t \in Tasks, \A v \in Workers : v # w => worker'[v] = worker[v],
              \/ \E s \in {FinalStatus(w), "failed"} : PublishEffect(w, s) \/ IndexEffect(w, s)
              \/ ReleaseEffect(w)
              \/ UNCHANGED <<status, processing, completed, failed>>,
              faults' \in {faults, faults + 1},
              UNCHANGED <<ready, submitted, batchTasks, known, told, api, resent, stream>>
       PROVE  OthersStay(w, t)
  BY <1>1, <1>13 DEF OthersStay, PublishEffect, IndexEffect, ReleaseEffect, t
<1>14. CASE Conclude(w)
  <2>1. /\ \A v \in Workers : v # w => worker'[v] = worker[v]
        /\ \/ Goes(w, "publish", "release") /\ PublishEffect(w, FinalStatus(w))
           \/ Goes(w, "release", "index") /\ ReleaseEffect(w)
           \/ worker[w].pc = "index" /\ worker'[w] = IdleWorker /\ IndexEffect(w, FinalStatus(w))
           \/ Goes(w, "xPublish", "xRelease") /\ PublishEffect(w, "failed")
           \/ Goes(w, "xRelease", "xIndex") /\ ReleaseEffect(w)
           \/ worker[w].pc = "xIndex" /\ worker'[w] = IdleWorker /\ IndexEffect(w, "failed")
    BY <1>14, <1>2, <1>3 DEF Conclude, Publish, Release, Index, ExceptPublish, ExceptRelease,
                             ExceptIndex, Finish
  <2>2. t \in Tasks /\ worker[w].pc # "idle"
    BY <2>1, <1>1 DEF Goes
  <2>3. BlockStep(w, t)
    BY <2>1, <2>2, <1>9, <1>10, <1>11, <1>12 DEF BlockStep
  <2>4. OthersStay(w, t)
    BY <2>1, <2>2, <1>13, <1>14 DEF Conclude
  <2> QED BY <2>2, <2>3, <2>4, <1>14 DEF OwnStep, Conclude, t
<1>15. CASE RedisError(w)
  <2>1. /\ \A v \in Workers : v # w => worker'[v] = worker[v]
        /\ Goes(w, worker[w].pc, "xPublish") /\ worker[w].pc \in TryPc
        /\ TryEffect(w) \/ UNCHANGED <<status, processing, completed, failed>>
    BY <1>15, <1>2 DEF RedisError
  <2>2. t \in Tasks /\ worker[w].pc # "idle"
    BY <2>1, <1>1
  <2>3. ASSUME TryEffect(w) PROVE ErrorStep(w, t)
    BY <2>1, <2>2, <2>3, <1>9, <1>11, <1>12 DEF TryEffect, ErrorStep, Goes
  <2>4. ASSUME UNCHANGED <<status, processing, completed, failed>> PROVE ErrorStep(w, t)
    <3>1. Same(t)
      BY <2>4 DEF Same, Keeps, t
    <3> QED BY <2>1, <3>1 DEF ErrorStep, Goes
  <2>5. OthersStay(w, t)
    BY <2>1, <2>2, <1>13, <1>15 DEF RedisError, TryEffect
  <2> QED BY <2>1, <2>2, <2>3, <2>4, <2>5, <1>15 DEF OwnStep, RedisError, t
<1>16. CASE WorkerFault(w)
  <2>1. Same(t)
    BY <1>16 DEF WorkerFault, redisVars, Same, Keeps, t
  <2>2. t \in Tasks /\ OthersStay(w, t)
    BY <1>1, <1>3, <1>16 DEF WorkerFault, redisVars, OthersStay, t
  <2> QED BY <2>1, <2>2, <1>3, <1>16 DEF OwnStep, WorkerFault, t
<1> QED
  BY <1>4, <1>5, <1>6, <1>7, <1>8, <1>14, <1>15, <1>16 DEF WorkerStep, Process, t

-----------------------------------------------------------------------------
(* The ledger and the slots.                                               *)

\* A handler never breaks the agreement of hash and sets.
LEMMA HandlerKeepsLedger ==
  ASSUME StoreAssumption, IInv, LedgerInv, HandlerWrites, faults' \in Nat
  PROVE  LedgerInv'
<1>1. worker' = worker /\ completed' = completed /\ failed' = failed /\ faults' >= faults
      /\ resent \subseteq resent' /\ processing' \subseteq processing /\ faults \in Nat
  BY DEF HandlerWrites, IInv, TypeOK, StoreTypeOK, StoreAssumption
<1>2. \A t \in Tasks : Held(t)' = Held(t)
  BY <1>1 DEF Held
<1>3. IdleFree'
  BY <1>1 DEF LedgerInv, IdleFree
<1>4. RunsAgree'
  <2> SUFFICES ASSUME NEW w \in Workers, worker[w].task \in Tasks \ resent PROVE RunOf(w)'
    BY <1>1 DEF RunsAgree, RunOf
  <2> DEFINE t == worker[w].task
  <2>1. RunOf(w) /\ t' = t
    BY <1>1 DEF LedgerInv, RunsAgree
  <2>2. status[t] # "none"
    BY DEF IInv, NoneIsNowhere, Held
  <2>3. status'[t] \in {status[t], "cancelled"}
    BY <2>2 DEF HandlerWrites
  <2>4. faults > 0 => faults' > 0
    BY <1>1
  <2> QED BY <1>1, <2>1, <2>3, <2>4 DEF RunOf
<1>5. LedgerAgrees'
  <2> SUFFICES ASSUME NEW t \in Tasks \ resent' PROVE LedgerOf(t)'
    BY DEF LedgerAgrees, LedgerOf
  <2>1. t \in Tasks \ resent /\ LedgerOf(t)
    BY <1>1 DEF LedgerInv, LedgerAgrees, LedgerOf
  <2>2. \/ status'[t] \in {status[t], "cancelled"}
        \/ status[t] = "none" /\ status'[t] = "queued"
    BY DEF HandlerWrites
  <2>3. faults > 0 => faults' > 0
    BY <1>1
  <2> QED BY <2>1, <2>2, <2>3, <1>1, <1>2 DEF LedgerOf
<1>6. LeakBounded'
  <2>1. Leaked' \subseteq Leaked
    BY <1>1 DEF Leaked, Held
  <2>2. IsFiniteSet(Leaked) /\ Cardinality(Leaked) <= faults
    BY DEF LedgerInv, LeakBounded
  <2>3. IsFiniteSet(Leaked') /\ Cardinality(Leaked') <= Cardinality(Leaked)
        /\ Cardinality(Leaked) \in Nat /\ Cardinality(Leaked') \in Nat
    BY <2>1, <2>2, FS_Subset, FS_CardinalityType
  <2> QED BY <2>2, <2>3, <1>1 DEF LeakBounded
<1> QED BY <1>3, <1>4, <1>5, <1>6 DEF LedgerInv

\* BLPOP: the task taken has not been run, the slots stay as they are.
LEMMA PopKeepsLedger ==
  ASSUME StoreAssumption, IInv, LedgerInv, NEW w \in Workers, PopStep(w)
  PROVE  LedgerInv'
<1> DEFINE t == Head(ready)
<1>1. /\ InReady(t) /\ t \in Tasks
      /\ worker[w].pc = "idle" /\ worker[w].task = NoTask /\ NoTask \notin Tasks
      /\ faults \in Nat
  BY IInvOnce, TailKeepsOnce DEF PopStep, LedgerInv, IdleFree, IInv, TypeOK, StoreTypeOK, StoreAssumption
<1>2. /\ UNCHANGED <<status, processing, completed, failed, resent>>
      /\ \A v \in Workers : v # w => worker'[v] = worker[v]
      /\ \/ worker'[w] = [pc |-> "start", task |-> t, ok |-> FALSE]
         \/ worker'[w] = worker[w]
      /\ faults' >= faults /\ faults' \in Nat
  BY <1>1 DEF PopStep
<1>3. t \notin resent => /\ status[t] \in {"queued", "cancelled"}
                        /\ t \notin processing \cup completed \cup failed
  BY <1>1 DEF IInv, ReadyIsUnstarted
<1> HIDE DEF t
<1>4. \A x \in Tasks : Held(x) \subseteq Held(x)'
  BY <1>1, <1>2 DEF Held
<1>5. IdleFree'
  BY <1>1, <1>2 DEF LedgerInv, IdleFree
<1>6. RunsAgree'
  <2> SUFFICES ASSUME NEW v \in Workers PROVE RunOf(v)'
    BY DEF RunsAgree
  <2>1. CASE worker'[v] = worker[v]
    <3>1. RunOf(v)
      BY DEF LedgerInv, RunsAgree
    <3> QED BY <3>1, <2>1, <1>1, <1>2 DEF RunOf
  <2>2. CASE worker'[v] = [pc |-> "start", task |-> t, ok |-> FALSE]
    BY <2>2, <1>2, <1>3 DEF RunOf, BeforeResult, ExceptPc
  <2> QED BY <2>1, <2>2, <1>2
<1>7. LedgerAgrees'
  <2> SUFFICES ASSUME NEW x \in Tasks \ resent' PROVE LedgerOf(x)'
    BY DEF LedgerAgrees, LedgerOf
  <2>1. LedgerOf(x)
    BY <1>2 DEF LedgerInv, LedgerAgrees, LedgerOf
  <2>2. faults > 0 => faults' > 0
    BY <1>1, <1>2
  <2> QED BY <2>1, <2>2, <1>2, <1>4 DEF LedgerOf
<1>8. LeakBounded'
  <2>1. Leaked' \subseteq Leaked
    <3> SUFFICES ASSUME NEW x \in Leaked' PROVE x \in Leaked
      OBVIOUS
    <3>1. x \in processing /\ x \in Tasks
      BY <1>2 DEF Leaked, IInv, TypeOK, StoreTypeOK
    <3>2. \A v \in Held(x) : v \in Held(x)' /\ worker'[v] = worker[v]
      BY <3>1, <1>1, <1>2 DEF Held
    <3> QED BY <3>1, <3>2 DEF Leaked
  <2>2. IsFiniteSet(Leaked) /\ Cardinality(Leaked) <= faults
    BY DEF LedgerInv, LeakBounded
  <2>3. IsFiniteSet(Leaked') /\ Cardinality(Leaked') <= Cardinality(Leaked)
        /\ Cardinality(Leaked) \in Nat /\ Cardinality(Leaked') \in Nat
    BY <2>1, <2>2, FS_Subset, FS_CardinalityType
  <2> QED BY <2>2, <2>3, <1>1, <1>2 DEF LeakBounded
<1> QED BY <1>5, <1>6, <1>7, <1>8 DEF LedgerInv

\* A step of process_task: what it writes agrees with what its task's status and
\* result sets said before.
LEMMA OwnStepAgrees ==
  ASSUME StoreAssumption, IInv, LedgerInv, NEW w \in Workers, NEW t, OwnStep(w, t),
         t \notin resent
  PROVE  RunOf(w)' /\ LedgerOf(t)'
<1>1. /\ t \in Tasks /\ worker[w].task = t /\ worker[w].pc # "idle" /\ t \notin resent'
      /\ faults \in Nat /\ faults' \in {faults, faults + 1} /\ w \in Held(t)
      /\ worker[w].ok \in BOOLEAN
  BY DEF OwnStep, OthersStay, IInv, TypeOK, StoreTypeOK, StoreAssumption, Held, WorkerRecord
<1>2. RunOf(w) /\ LedgerOf(t)
  BY <1>1 DEF LedgerInv, RunsAgree, LedgerAgrees, LedgerOf
<1>3. worker'[w].task = t => Held(t)' # {}
  BY DEF Held
<1>4. faults' = faults + 1 => faults' > 0
  BY <1>1
<1>5. worker'[w].task = NoTask => worker'[w].task \notin Tasks
  BY DEF StoreAssumption
<1>6. FinalStatus(w) = "failed"
  BY DEF FinalStatus, ResultKeys
<1> USE DEF RunOf, LedgerOf, BeforeResult, ExceptPc
<1>8. CASE RunStep(w, t) /\ faults' = faults
  <2>1. worker'[w].task = t
    BY <1>1, <1>8 DEF RunStep, Goes
  <2> QED BY <1>1, <1>2, <1>3, <1>8, <2>1 DEF RunStep, Goes, Writes, Same, Keeps
<1>9. CASE BlockStep(w, t) /\ faults' = faults
  <2>1. CASE Goes(w, "publish", "release") /\ Writes(t, FinalStatus(w))
    BY <2>1, <1>1, <1>2, <1>3, <1>6, <1>9 DEF Goes, Writes, Keeps
  <2>2. CASE Goes(w, "release", "index") /\ Frees(t)
    BY <2>2, <1>1, <1>2, <1>3, <1>6, <1>9 DEF Goes, Frees
  <2>3. CASE worker[w].pc = "index" /\ worker'[w] = IdleWorker /\ Files(t, FinalStatus(w))
    BY <2>3, <1>1, <1>2, <1>5, <1>6, <1>9 DEF Files, IdleWorker
  <2>4. CASE Goes(w, "xPublish", "xRelease") /\ Writes(t, "failed")
    BY <2>4, <1>1, <1>2, <1>3, <1>9 DEF Goes, Writes, Keeps
  <2>5. CASE Goes(w, "xRelease", "xIndex") /\ Frees(t)
    BY <2>5, <1>1, <1>2, <1>3, <1>9 DEF Goes, Frees
  <2>6. CASE worker[w].pc = "xIndex" /\ worker'[w] = IdleWorker /\ Files(t, "failed")
    BY <2>6, <1>1, <1>2, <1>5, <1>9 DEF Files, IdleWorker
  <2> QED BY <1>9, <2>1, <2>2, <2>3, <2>4, <2>5, <2>6 DEF BlockStep
<1>10. CASE ErrorStep(w, t) /\ faults' = faults + 1
  <2>1. CASE Goes(w, "publish", "xPublish") /\ (Same(t) \/ Writes(t, FinalStatus(w)))
    BY <2>1, <1>1, <1>2, <1>3, <1>4, <1>6, <1>10 DEF Goes, Writes, Same, Keeps
  <2>2. CASE Goes(w, "release", "xPublish") /\ (Same(t) \/ Frees(t))
    BY <2>2, <1>1, <1>2, <1>3, <1>4, <1>6, <1>10 DEF Goes, Frees, Same, Keeps
  <2>3. CASE Goes(w, "index", "xPublish") /\ (Same(t) \/ Files(t, FinalStatus(w)))
    BY <2>3, <1>1, <1>2, <1>3, <1>4, <1>6, <1>10 DEF Goes, Files, Same, Keeps
  <2> QED BY <1>10, <2>1, <2>2, <2>3 DEF ErrorStep
<1>11. CASE worker'[w] = IdleWorker /\ Same(t) /\ faults' = faults + 1
  BY <1>11, <1>1, <1>2, <1>4, <1>5 DEF Same, Keeps, IdleWorker
<1> QED BY <1>8, <1>9, <1>10, <1>11 DEF OwnStep

\* At most the task of a worker that dies joins the slots nobody gives back.
LEMMA OwnStepLeaks ==
  ASSUME StoreAssumption, IInv, LedgerInv, TypeOK', NEW w \in Workers, NEW t, OwnStep(w, t)
  PROVE  LeakBounded'
<1>1. /\ t \in Tasks /\ worker[w].task = t /\ faults \in Nat
      /\ IsFiniteSet(Leaked) /\ Cardinality(Leaked) <= faults
  BY DEF OwnStep, IInv, TypeOK, StoreTypeOK, StoreAssumption, LedgerInv, LeakBounded
<1>2. ASSUME NEW x \in Leaked', x # t PROVE x \in Leaked
  <2>1. x \in processing /\ x \in Tasks
    BY <1>2 DEF Leaked, OwnStep, OthersStay, IInv, TypeOK, StoreTypeOK
  <2>2. \A v \in Held(x) : v \in Held(x)' /\ worker'[v] = worker[v]
    BY <1>1, <1>2 DEF Held, OwnStep, OthersStay
  <2> QED BY <2>1, <2>2, <1>2 DEF Leaked
<1>3. CASE t \in Leaked' => t \in Leaked
  <2>1. Leaked' \subseteq Leaked
    BY <1>2, <1>3
  <2>2. IsFiniteSet(Leaked') /\ Cardinality(Leaked') <= Cardinality(Leaked)
        /\ Cardinality(Leaked) \in Nat /\ Cardinality(Leaked') \in Nat
    BY <2>1, <1>1, FS_Subset, FS_CardinalityType
  <2> QED BY <2>2, <1>1 DEF LeakBounded, OwnStep, OthersStay
<1>4. CASE faults' = faults + 1
  <2>1. Leaked' \subseteq Leaked \cup {t}
    BY <1>2
  <2>2. IsFiniteSet(Leaked \cup {t}) /\ Cardinality(Leaked \cup {t}) <= Cardinality(Leaked) + 1
        /\ Cardinality(Leaked) \in Nat
    <3>1. Cardinality(Leaked) \in Nat
      BY <1>1, FS_CardinalityType
    <3>2. IsFiniteSet(Leaked \cup {t})
          /\ Cardinality(Leaked \cup {t}) \in {Cardinality(Leaked), Cardinality(Leaked) + 1}
      BY <1>1, FS_AddElement
    <3> QED BY <3>1, <3>2
  <2>3. IsFiniteSet(Leaked') /\ Cardinality(Leaked') <= Cardinality(Leaked \cup {t})
        /\ Cardinality(Leaked \cup {t}) \in Nat /\ Cardinality(Leaked') \in Nat
    BY <2>1, <2>2, FS_Subset, FS_CardinalityType
  <2> QED BY <2>2, <2>3, <1>1, <1>4 DEF LeakBounded
<1>5. ASSUME faults' = faults, t \in Leaked' PROVE t \in Leaked
  <2>1. /\ t \in processing'
        /\ \A v \in Workers : worker'[v].task = t => worker'[v].pc \notin Clearing
        /\ \A v \in Workers : v # w => worker'[v] = worker[v]
    BY <1>5 DEF Leaked, Held, OwnStep, OthersStay
  <2>2. worker[w].pc \notin Clearing /\ t \in processing
    <3>1. RunStep(w, t) \/ BlockStep(w, t)
      BY <1>1, <1>5 DEF OwnStep
    <3>2. CASE RunStep(w, t)
      BY <3>2, <2>1, <1>1 DEF RunStep, Goes, Writes, Same, Keeps, Clearing
    <3>3. CASE BlockStep(w, t)
      BY <3>3, <2>1, <1>1 DEF BlockStep, Goes, Writes, Frees, Files, Keeps, Clearing
    <3> QED BY <3>1, <3>2, <3>3
  <2> QED BY <2>1, <2>2 DEF Leaked, Held
<1> QED BY <1>3, <1>4, <1>5 DEF OwnStep

\* A worker keeps the agreement at every command on its own task.
LEMMA OwnStepKeepsLedger ==
  ASSUME StoreAssumption, IInv, LedgerInv, TypeOK', NEW w \in Workers, NEW t, OwnStep(w, t)
  PROVE  LedgerInv'
<1>1. /\ t \in Tasks /\ worker[w].task = t /\ resent' = resent /\ faults \in Nat
      /\ \A v \in Workers : v # w => worker'[v] = worker[v]
      /\ worker'[w].pc = "idle" => worker'[w] = IdleWorker
      /\ worker'[w].task \in {t, NoTask} /\ faults' >= faults /\ NoTask \notin Tasks
  BY DEF OwnStep, OthersStay, RunStep, BlockStep, ErrorStep, Goes, IInv, TypeOK, StoreTypeOK,
         StoreAssumption, IdleWorker
<1>2. IdleFree'
  BY <1>1 DEF LedgerInv, IdleFree, IdleWorker
<1>3. RunsAgree'
  <2> SUFFICES ASSUME NEW v \in Workers, worker'[v].task \in Tasks \ resent PROVE RunOf(v)'
    BY <1>1 DEF RunsAgree, RunOf
  <2>1. CASE v = w
    <3>1. t \notin resent
      BY <2>1, <1>1
    <3> QED BY <2>1, <3>1, OwnStepAgrees
  <2>2. CASE v # w
    <3> DEFINE x == worker[v].task
    <3>1. worker'[v] = worker[v] /\ x \in Tasks \ resent /\ v \in Held(x) /\ w \in Held(t)
      BY <2>2, <1>1 DEF Held
    <3>2. x # t
      BY <2>2, <3>1 DEF IInv, SingleCopy
    <3>3. RunOf(v)
      BY <3>1 DEF LedgerInv, RunsAgree
    <3>4. status'[x] = status[x] /\ (x \in completed' <=> x \in completed)
          /\ (x \in failed' <=> x \in failed) /\ (x \in processing' <=> x \in processing)
      BY <3>1, <3>2 DEF OwnStep, OthersStay
    <3>5. faults > 0 => faults' > 0
      BY <1>1 DEF OwnStep, OthersStay
    <3> QED BY <3>1, <3>3, <3>4, <3>5 DEF RunOf
  <2> QED BY <2>1, <2>2
<1>4. LedgerAgrees'
  <2> SUFFICES ASSUME NEW x \in Tasks \ resent PROVE LedgerOf(x)'
    BY <1>1 DEF LedgerAgrees, LedgerOf
  <2>1. CASE x = t
    <3>1. LedgerOf(t)'
      BY <2>1, OwnStepAgrees
    <3> QED BY <2>1, <3>1, <1>1
  <2>2. CASE x # t
    <3>1. LedgerOf(x) /\ Held(x)' = Held(x)
      BY <2>2, <1>1 DEF LedgerInv, LedgerAgrees, LedgerOf, Held
    <3>2. status'[x] = status[x] /\ (x \in processing' <=> x \in processing)
          /\ (x \in failed' <=> x \in failed)
      BY <2>2 DEF OwnStep, OthersStay
    <3>3. faults > 0 => faults' > 0
      BY <1>1 DEF OwnStep, OthersStay
    <3> QED BY <3>1, <3>2, <3>3 DEF LedgerOf
  <2> QED BY <2>1, <2>2
<1> QED BY <1>2, <1>3, <1>4, OwnStepLeaks DEF LedgerInv

\* The empty store agrees with itself.
LEMMA InitLedger == ASSUME StoreAssumption, Init PROVE LedgerInv
<1> USE DEF Init, StoreInit
<1>1. \A w \in Workers : worker[w].pc = "idle" /\ worker[w].task = NoTask
  BY DEF IdleWorker
<1>2. IdleFree /\ RunsAgree /\ LedgerAgrees
  BY <1>1 DEF IdleFree, RunsAgree, RunOf, LedgerAgrees, StoreAssumption
<1>3. Leaked = {}
  BY DEF Leaked
<1> QED BY <1>2, <1>3, FS_EmptySet DEF LedgerInv, LeakBounded

\* Every step of the queue keeps the ledger.
LEMMA NextKeepsLedger ==
  ASSUME StoreAssumption, IInv, LedgerInv, [Next]_vars
  PROVE  LedgerInv'
<1>1. ASSUME NEW a \in Handlers, HandlerStep(a), UNCHANGED workerVars PROVE LedgerInv'
  <2>1. TypeOK'
    BY <1>1, EnqueueType DEF IInv
  <2>2. faults' \in Nat
    BY <2>1 DEF TypeOK, StoreTypeOK, StoreAssumption
  <2> QED BY <1>1, <2>2, HandlerEffects, HandlerKeepsLedger
<1>2. ASSUME NEW w \in Workers, WorkerStep(w) PROVE LedgerInv'
  <2>1. TypeOK'
    BY <1>2, WorkerType DEF IInv
  <2> QED BY <1>2, <2>1, WorkerEffects, PopKeepsLedger, OwnStepKeepsLedger
<1>3. ASSUME UNCHANGED <<storeVars, worker>> PROVE LedgerInv'
  BY <1>3 DEF storeVars, redisVars, LedgerInv, IdleFree, RunsAgree, RunOf, LedgerAgrees, LeakBounded, Leaked, Held
<1> QED
  BY <1>1, <1>2, <1>3 DEF Next, StreamStep, PollBatch, PollTask, PollAgain, vars

\* The ledger invariant: at every moment of every behaviour, the status in the
\* hash and the membership in the sets say the same but for the command that a
\* worker or a handler has just begun.
THEOREM LedgerInductive == Spec => []LedgerInv
<1>1. Init => LedgerInv
  BY InitLedger, StoreAssumption
<1>2. IInv /\ LedgerInv /\ [Next]_vars => LedgerInv'
  BY NextKeepsLedger, StoreAssumption
<1> QED BY <1>1, <1>2, Inductive, PTL DEF Spec

\* A task in qa:failed is reported failed or was cancelled since, and holds no
\* slot; one reported failed is in qa:failed as soon as no worker has it, unless
\* a fault hit - at whatever command of process_task the Redis error struck.
THEOREM StatusAgreesWithSets == Spec => []LedgerAgrees
<1>1. LedgerInv => LedgerAgrees
  BY DEF LedgerInv
<1> QED BY <1>1, LedgerInductive, PTL

\* The entries of qa:processing that no worker stands behind are at most as many
\* as there were faults.
LEMMA OrphansCounted ==
  ASSUME StoreAssumption, IInv, LedgerInv PROVE Cardinality(Orphans) <= faults
<1>1. Orphans \subseteq Leaked
  BY DEF Leaked, Orphans
<1>2. IsFiniteSet(Leaked) /\ Cardinality(Leaked) <= faults /\ faults \in Nat
  BY DEF LedgerInv, LeakBounded, IInv, TypeOK, StoreTypeOK, StoreAssumption
<1>3. IsFiniteSet(Orphans) /\ Cardinality(Orphans) <= Cardinality(Leaked)
  BY <1>1, <1>2, FS_Subset
<1>4. Cardinality(Orphans) \in Nat /\ Cardinality(Leaked) \in Nat
  BY <1>2, <1>3, FS_CardinalityType
<1> QED BY <1>2, <1>3, <1>4

\* No handler frees a slot whose task has a final status: cancel_task gives slots
\* back only when it read status processing.
LEMMA HandlerKeepsStuck ==
  ASSUME StoreAssumption, IInv, NEW a \in Handlers, HandlerStep(a), UNCHANGED workerVars,
         NEW t \in Tasks, Stuck(t)
  PROVE  Stuck(t)'
<1>1. /\ api \in [Handlers -> HandlerType] /\ t \in processing /\ status[t] \in Final
      /\ api[a].task = t => api[a].pc \notin {"unmarkUser", "unmarkGlobal"}
      /\ NoTask # t
  BY DEF Stuck, Orphans, IInv, TypeOK, StoreTypeOK, StoreAssumption
<1>2. /\ Orphans' = Orphans \ (processing \ processing') /\ status'[t] \in Final
  BY <1>1, HandlerEffects DEF HandlerWrites, Final, Orphans, Held
<1>3. t \in processing'
  <2>1. CASE UnmarkGlobal(a)
    BY <2>1, <1>1 DEF UnmarkGlobal
  <2> QED
    BY <2>1, <1>1 DEF HandlerStep, Enqueue, Cancel, redisVars, SubmitSingle, CreateBatch,
       ReadForCancel, CheckUserLimit, CheckGlobalLimit, SaveTask, PushReady, JoinBatch,
       UnmarkUser, ClearVisibility, RemoveReady, MarkCancelled, HandlerFault
<1>4. api'[a].task = t => api'[a].pc \notin {"unmarkUser", "unmarkGlobal"}
  <2>1. CASE \E x \in Tasks : ReadForCancel(a, x)
    BY <2>1, <1>1 DEF ReadForCancel, Final
  <2>2. ASSUME NEW pc \in HandlerPc, pc \notin {"unmarkUser", "unmarkGlobal"}, Goto(a, pc)
        PROVE  api'[a].pc \notin {"unmarkUser", "unmarkGlobal"}
    BY <2>2, <1>1, GotoFacts
  <2>3. ASSUME Return(a) PROVE api'[a].task # t
    BY <2>3, <1>1, ReturnFacts DEF IdleHandler
  <2>5. CASE Cancel(a) \/ HandlerFault(a)
    <3>1. CASE UnmarkUser(a)
      <4>1. api'[a].task = api[a].task
        BY <3>1, <1>1, GotoFacts DEF UnmarkUser, HandlerPc, CancelPc
      <4> QED BY <3>1, <4>1, <1>1 DEF UnmarkUser
    <3> QED
      BY <2>5, <2>2, <2>3, <3>1 DEF Cancel, HandlerFault, UnmarkGlobal, ClearVisibility, RemoveReady,
                                    MarkCancelled, HandlerPc, CancelPc
  <2>6. CASE CheckUserLimit(a) \/ JoinBatch(a)
    BY <2>6, <1>1, <2>3 DEF CheckUserLimit, JoinBatch
  <2>7. CASE CheckGlobalLimit(a) \/ SaveTask(a) \/ PushReady(a)
    BY <2>7, <2>2, <2>3 DEF CheckGlobalLimit, SaveTask, PushReady, HandlerPc, EnqueuePc
  <2>4. CASE \/ \E x \in Tasks : SubmitSingle(a, x)
             \/ \E b \in Batches, S \in SUBSET Tasks : CreateBatch(a, b, S)
    BY <2>4, <1>1 DEF SubmitSingle, CreateBatch
  <2> QED BY <2>1, <2>4, <2>5, <2>6, <2>7 DEF HandlerStep, Enqueue
<1>5. \A h \in Handlers : h # a => api'[h] = api[h]
  BY <1>1 DEF HandlerStep, Enqueue, Cancel, SubmitSingle, CreateBatch,
     ReadForCancel, CheckUserLimit, CheckGlobalLimit, SaveTask, PushReady, JoinBatch,
     UnmarkUser, UnmarkGlobal, ClearVisibility, RemoveReady, MarkCancelled, HandlerFault,
     Goto, Return
<1> QED BY <1>1, <1>2, <1>3, <1>4, <1>5 DEF Stuck

\* Nor does a worker: the task is in no worker's hands and none can take it.
LEMMA WorkerKeepsStuck ==
  ASSUME StoreAssumption, IInv, NEW w \in Workers, WorkerStep(w),
         NEW t \in Tasks \ resent, Stuck(t)
  PROVE  Stuck(t)'
<1>1. t \in processing /\ Held(t) = {} /\ t # NoTask
  BY DEF Stuck, Orphans, StoreAssumption
<1>2. CASE PopStep(w)
  <2>1. Head(ready) # t
    BY <1>1, <1>2, IInvOnce, TailKeepsOnce DEF PopStep, IInv, ReadyIsUnstarted
  <2>2. \A v \in Workers : worker'[v].task # t
    <3>1. worker'[w] \in {worker[w], [pc |-> "start", task |-> Head(ready), ok |-> FALSE]}
      BY <1>2 DEF PopStep
    <3>2. \A v \in Workers : worker[v].task # t
      BY <1>1 DEF Held
    <3> QED BY <1>2, <2>1, <3>1, <3>2 DEF PopStep
  <2>3. Held(t)' = {}
    BY <2>2 DEF Held
  <2> QED BY <1>2, <2>3 DEF PopStep, Stuck, Orphans
<1>3. ASSUME NEW x, OwnStep(w, x) PROVE Stuck(t)'
  <2>1. x # t
    BY <1>1, <1>3 DEF OwnStep, Held
  <2>2. worker'[w].task \in {x, NoTask}
    BY <1>3 DEF OwnStep, RunStep, BlockStep, ErrorStep, Goes, IdleWorker
  <2>3. Held(t)' = {}
    BY <1>1, <1>3, <2>1, <2>2 DEF Held, OwnStep, OthersStay
  <2> QED BY <1>3, <2>1, <2>3 DEF OwnStep, OthersStay, Stuck, Orphans
<1> QED BY <1>2, <1>3, WorkerEffects

\* Each entry of qa:processing beyond the tasks being run is due to a fault of its
\* own, and from the moment its task's status is final it stays there for ever.
THEOREM LeakedSlotsAreFaults == Spec => SlotsAccounted
<1>1. IInv /\ LedgerInv => Cardinality(Orphans) <= faults
  BY OrphansCounted, StoreAssumption
<1>2. IInv /\ [Next]_vars => [\A t \in Tasks \ resent : Stuck(t) => Stuck(t)']_vars
  <2> SUFFICES ASSUME IInv, Next, NEW t \in Tasks \ resent, Stuck(t) PROVE Stuck(t)'
    OBVIOUS
  <2>1. CASE UNCHANGED <<storeVars, worker>>
    BY <2>1 DEF storeVars, redisVars, Stuck, Orphans, Held
  <2> QED
    BY <2>1, HandlerKeepsStuck, WorkerKeepsStuck, StoreAssumption
       DEF Next, StreamStep, PollBatch, PollTask, PollAgain
<1> QED BY <1>1, <1>2, Inductive, LedgerInductive, PTL DEF Spec, SlotsAccounted

-----------------------------------------------------------------------------
(* Batches: the symbols of a batch that is being submitted are the ones    *)
(* already joined, the one in flight and the ones still to do; together    *)
(* they stay as many as create_batch wrote into "submitted".               *)

Flight(a) ==
  IF api[a].pc \in {"globalLimit", "save", "push", "join"} THEN {api[a].task} ELSE {}

Symbols(a) == batchTasks[api[a].batch] \cup Flight(a) \cup api[a].todo

BatchOf(a) ==
  api[a].batch # NoBatch =>
    /\ api[a].batch \notin known
    /\ submitted[api[a].batch] # 0
    /\ IsFiniteSet(Symbols(a)) /\ Cardinality(Symbols(a)) = submitted[api[a].batch]

BatchInv ==
  /\ \A a \in Handlers : BatchOf(a)
  /\ \A a1, a2 \in Handlers :
       api[a1].batch = api[a2].batch /\ api[a1].batch # NoBatch => a1 = a2
  /\ \A b \in Batches : submitted[b] = 0 => batchTasks[b] = {}
  /\ \A b \in known : /\ IsFiniteSet(batchTasks[b])
                      /\ Cardinality(batchTasks[b]) = submitted[b]
                      /\ submitted[b] # 0

\* A step that writes no batch and leaves its handler with the same symbols, or
\* with none.
LEMMA QuietBatch ==
  ASSUME BatchInv, NEW a \in Handlers,
         UNCHANGED <<submitted, batchTasks, known>>,
         \A h \in Handlers : h # a => api'[h] = api[h],
         \/ api'[a].batch = NoBatch
         \/ api'[a].batch = api[a].batch
            /\ (Flight(a) \cup api[a].todo)' = Flight(a) \cup api[a].todo
  PROVE  BatchInv'
<1>1. \A h \in Handlers : h # a => BatchOf(h)'
  BY DEF BatchInv, BatchOf, Symbols, Flight
<1>2. BatchOf(a)'
  <2>1. CASE api'[a].batch = NoBatch
    BY <2>1 DEF BatchOf
  <2>2. CASE /\ api'[a].batch = api[a].batch
             /\ (Flight(a) \cup api[a].todo)' = Flight(a) \cup api[a].todo
    <3>1. Symbols(a)' = batchTasks[api[a].batch] \cup (Flight(a) \cup api[a].todo)'
      BY <2>2 DEF Symbols
    <3>2. Symbols(a)' = Symbols(a)
      BY <3>1, <2>2 DEF Symbols
    <3> QED BY <3>2, <2>2 DEF BatchInv, BatchOf
  <2> QED BY <2>1, <2>2
<1>3. /\ \A a1, a2 \in Handlers :
           api'[a1].batch = api'[a2].batch /\ api'[a1].batch # NoBatch => a1 = a2
  BY DEF BatchInv
<1> QED BY <1>1, <1>2, <1>3 DEF BatchInv

\* create_batch draws an id without a hash.
LEMMA NewBatch ==
  ASSUME StoreAssumption, IInv, BatchInv, NEW a \in Handlers, NEW b \in Batches,
         NEW S \in SUBSET Tasks, CreateBatch(a, b, S)
  PROVE  BatchInv'
<1>1. /\ api \in [Handlers -> HandlerType] /\ submitted \in [Batches -> Nat]
      /\ IsFiniteSet(S) /\ Cardinality(S) # 0
  BY FS_EmptySet DEF IInv, TypeOK, StoreTypeOK, CreateBatch
<1>2. /\ api'[a] = [pc |-> "userLimit", todo |-> S, task |-> NoTask, batch |-> b]
      /\ \A h \in Handlers : h # a => api'[h] = api[h]
      /\ submitted'[b] = Cardinality(S) /\ \A c \in Batches : c # b => submitted'[c] = submitted[c]
      /\ UNCHANGED <<batchTasks, known>> /\ submitted[b] = 0
  BY <1>1 DEF CreateBatch
<1>3. batchTasks[b] = {} /\ b \notin known /\ \A h \in Handlers : api[h].batch # b
  BY <1>2 DEF BatchInv, BatchOf, StoreAssumption
<1>4. BatchOf(a)'
  <2>1. Symbols(a)' = S
    BY <1>2, <1>3 DEF Symbols, Flight
  <2> QED BY <2>1, <1>1, <1>2, <1>3 DEF BatchOf
<1>5. ASSUME NEW h \in Handlers, h # a PROVE BatchOf(h)'
  <2>1. api[h].batch \in Batches \cup {NoBatch} /\ api[h].batch # b
    BY <1>1, <1>3 DEF HandlerType
  <2> QED BY <2>1, <1>2, <1>5 DEF BatchInv, BatchOf, Symbols, Flight
<1>6. \A a1, a2 \in Handlers :
        api'[a1].batch = api'[a2].batch /\ api'[a1].batch # NoBatch => a1 = a2
  BY <1>2, <1>3 DEF BatchInv
<1>7. known \subseteq Batches
  BY DEF IInv, TypeOK, StoreTypeOK
<1>8. \A c \in Batches : submitted'[c] = 0 => batchTasks'[c] = {}
  BY <1>1, <1>2 DEF BatchInv
<1>9. \A c \in known' : /\ IsFiniteSet(batchTasks'[c])
                        /\ Cardinality(batchTasks'[c]) = submitted'[c] /\ submitted'[c] # 0
  BY <1>2, <1>3, <1>7 DEF BatchInv
<1> QED BY <1>4, <1>5, <1>6, <1>8, <1>9 DEF BatchInv

\* The symbol in flight joins its batch; the last one makes the batch known.
LEMMA JoinKeepsBatch ==
  ASSUME StoreAssumption, IInv, BatchInv, NEW a \in Handlers, JoinBatch(a)
  PROVE  BatchInv'
<1> DEFINE b == api[a].batch
           t == api[a].task
<1>1. /\ api \in [Handlers -> HandlerType] /\ batchTasks \in [Batches -> SUBSET Tasks]
      /\ b \in Batches /\ b # NoBatch /\ api[a].pc = "join" /\ known \subseteq Batches
  BY DEF IInv, TypeOK, StoreTypeOK, HandlerLocals, LocalsOf, JoinBatch, StoreAssumption
<1>2. /\ batchTasks'[b] = batchTasks[b] \cup {t}
      /\ \A c \in Batches : c # b => batchTasks'[c] = batchTasks[c]
      /\ UNCHANGED submitted
  BY <1>1 DEF JoinBatch
<1>3. /\ \A h \in Handlers : h # a => api'[h] = api[h]
      /\ \/ api[a].todo = {} /\ known' = known \cup {b} /\ api'[a] = IdleHandler
         \/ /\ known' = known
            /\ api'[a] = [pc |-> "userLimit", todo |-> api[a].todo, task |-> NoTask, batch |-> b]
  BY <1>1, ReturnFacts DEF JoinBatch
<1>4. /\ b \notin known /\ submitted[b] # 0 /\ IsFiniteSet(Symbols(a))
      /\ Cardinality(Symbols(a)) = submitted[b]
      /\ Symbols(a) = batchTasks[b] \cup {t} \cup api[a].todo
  BY <1>1 DEF BatchInv, BatchOf, Symbols, Flight
<1> HIDE DEF b, t
<1>5. BatchOf(a)'
  <2>1. CASE api'[a] = IdleHandler
    BY <2>1 DEF BatchOf, IdleHandler
  <2>2. CASE /\ known' = known
             /\ api'[a] = [pc |-> "userLimit", todo |-> api[a].todo, task |-> NoTask, batch |-> b]
    <3>1. Symbols(a)' = Symbols(a)
      BY <2>2, <1>2, <1>4 DEF Symbols, Flight
    <3> QED BY <3>1, <2>2, <1>2, <1>4 DEF BatchOf
  <2> QED BY <2>1, <2>2, <1>3
<1>6. ASSUME NEW h \in Handlers, h # a PROVE BatchOf(h)'
  <2>1. api'[h] = api[h] /\ api[h].batch \in Batches \cup {NoBatch}
    BY <1>1, <1>3, <1>6 DEF HandlerType
  <2>2. api[h].batch = b => FALSE
    BY <1>1, <1>6 DEF BatchInv, b
  <2>3. api[h].batch # NoBatch => /\ api[h].batch \notin known' /\ Symbols(h)' = Symbols(h)
    <3>1. api[h].batch # NoBatch => api[h].batch \notin known'
      BY <2>2, <1>3 DEF BatchInv, BatchOf
    <3>2. api[h].batch # NoBatch => batchTasks'[api[h].batch] = batchTasks[api[h].batch]
      BY <2>1, <2>2, <1>2
    <3> QED BY <3>1, <3>2, <2>1 DEF Symbols, Flight
  <2> QED BY <2>1, <2>3, <1>2 DEF BatchInv, BatchOf
<1>7. \A a1, a2 \in Handlers :
        api'[a1].batch = api'[a2].batch /\ api'[a1].batch # NoBatch => a1 = a2
  BY <1>1, <1>3 DEF BatchInv, IdleHandler, b
<1>8. \A c \in Batches : submitted'[c] = 0 => batchTasks'[c] = {}
  BY <1>2, <1>4 DEF BatchInv
<1>9. ASSUME NEW c \in known'
      PROVE  /\ IsFiniteSet(batchTasks'[c])
             /\ Cardinality(batchTasks'[c]) = submitted'[c] /\ submitted'[c] # 0
  <2>1. CASE c \in known
    BY <2>1, <1>1, <1>2, <1>4 DEF BatchInv
  <2>2. CASE c \notin known
    <3>1. c = b /\ api[a].todo = {}
      BY <2>2, <1>3
    <3>2. batchTasks'[c] = Symbols(a)
      BY <3>1, <1>2, <1>4
    <3> QED BY <3>1, <3>2, <1>2, <1>4
  <2> QED BY <2>1, <2>2
<1> QED BY <1>5, <1>6, <1>7, <1>8, <1>9 DEF BatchInv

\* Every command of a handler keeps the membership of the batches.
LEMMA HandlerKeepsBatch ==
  ASSUME StoreAssumption, IInv, BatchInv, NEW a \in Handlers, HandlerStep(a)
  PROVE  BatchInv'
<1>1. api \in [Handlers -> HandlerType] /\ api[a] \in HandlerType
  BY DEF IInv, TypeOK, StoreTypeOK
<1>2. ASSUME Return(a), UNCHANGED <<submitted, batchTasks, known>> PROVE BatchInv'
  <2>1. api'[a].batch = NoBatch /\ \A h \in Handlers : h # a => api'[h] = api[h]
    BY <1>1, <1>2, ReturnFacts DEF IdleHandler
  <2> QED BY <2>1, <1>2, QuietBatch
<1>3. ASSUME NEW pc \in {"save", "push", "join"}, Goto(a, pc),
             api[a].pc \in {"globalLimit", "save", "push"},
             UNCHANGED <<submitted, batchTasks, known>>
      PROVE  BatchInv'
  <2>1. /\ api'[a].batch = api[a].batch /\ api'[a].pc = pc /\ api'[a].task = api[a].task
        /\ api'[a].todo = api[a].todo
        /\ \A h \in Handlers : h # a => api'[h] = api[h]
    BY <1>1, <1>3, GotoFacts DEF HandlerPc, EnqueuePc
  <2>2. (Flight(a) \cup api[a].todo)' = Flight(a) \cup api[a].todo
    BY <2>1, <1>3 DEF Flight
  <2> QED BY <2>1, <2>2, <1>3, QuietBatch
<1>4. ASSUME NEW pc \in CancelPc, Goto(a, pc), api[a].pc \in CancelPc,
             UNCHANGED <<submitted, batchTasks, known>>
      PROVE  BatchInv'
  <2>1. /\ api'[a].batch = api[a].batch /\ api'[a].pc = pc /\ api'[a].todo = api[a].todo
        /\ \A h \in Handlers : h # a => api'[h] = api[h]
    BY <1>1, <1>4, GotoFacts DEF HandlerPc
  <2>2. (Flight(a) \cup api[a].todo)' = Flight(a) \cup api[a].todo
    BY <2>1, <1>4 DEF Flight, CancelPc
  <2> QED BY <2>1, <2>2, <1>4, QuietBatch
<1> USE DEF redisVars
<1>5. ASSUME NEW t \in Tasks, SubmitSingle(a, t) PROVE BatchInv'
  <2>1. api'[a].batch = NoBatch /\ \A h \in Handlers : h # a => api'[h] = api[h]
    BY <1>1, <1>5 DEF SubmitSingle
  <2> QED BY <2>1, <1>5, QuietBatch DEF SubmitSingle
<1>6. ASSUME NEW t \in Tasks, ReadForCancel(a, t) PROVE BatchInv'
  <2>1. api'[a].batch = NoBatch /\ \A h \in Handlers : h # a => api'[h] = api[h]
    BY <1>1, <1>6 DEF ReadForCancel
  <2> QED BY <2>1, <1>6, QuietBatch DEF ReadForCancel
<1>7. CASE CheckUserLimit(a)
  <2>1. PICK t \in api[a].todo :
          \/ api' = [api EXCEPT ![a] = [pc |-> "globalLimit", todo |-> api[a].todo \ {t},
                                        task |-> t, batch |-> api[a].batch]]
          \/ Return(a)
    BY <1>7 DEF CheckUserLimit
  <2>2. ASSUME api' = [api EXCEPT ![a] = [pc |-> "globalLimit", todo |-> api[a].todo \ {t},
                                          task |-> t, batch |-> api[a].batch]]
        PROVE  BatchInv'
    <3>1. /\ api'[a] = [pc |-> "globalLimit", todo |-> api[a].todo \ {t}, task |-> t,
                        batch |-> api[a].batch]
          /\ \A h \in Handlers : h # a => api'[h] = api[h]
      BY <2>2, <1>1
    <3>2. (Flight(a) \cup api[a].todo)' = Flight(a) \cup api[a].todo
      BY <3>1, <2>1, <1>7 DEF Flight, CheckUserLimit
    <3> QED BY <3>1, <3>2, <1>7, QuietBatch DEF CheckUserLimit
  <2> QED BY <2>1, <2>2, <1>2, <1>7 DEF CheckUserLimit
<1>8. CASE CheckGlobalLimit(a)
  BY <1>8, <1>2, <1>3 DEF CheckGlobalLimit
<1>9. CASE SaveTask(a)
  BY <1>9, <1>3 DEF SaveTask
<1>10. CASE PushReady(a)
  BY <1>10, <1>2, <1>3 DEF PushReady
<1>11. CASE Cancel(a)
  BY <1>11, <1>2, <1>4 DEF Cancel, UnmarkUser, UnmarkGlobal, ClearVisibility, RemoveReady,
                           MarkCancelled, CancelPc
<1>12. CASE HandlerFault(a)
  BY <1>12, <1>2 DEF HandlerFault
<1> QED
  BY <1>5, <1>6, <1>7, <1>8, <1>9, <1>10, <1>11, <1>12, NewBatch, JoinKeepsBatch
     DEF HandlerStep, Enqueue

-----------------------------------------------------------------------------
(* The stream.                                                             *)

\* A task that has ended stays where it is: it is not in qa:ready, no worker
\* will publish a result for it and no handler will push it.
Settled(t) ==
  /\ status[t] \in Final /\ ~InReady(t)
  /\ \A w \in Held(t) : worker[w].pc \notin BeforeResult
  /\ \A a \in Handlers : ~Owns(a, t)

StreamType ==
  stream \in [batch : Batches \cup {NoStream}, left : SUBSET Tasks,
              good : Nat, bad : Nat, total : Nat]

\* If every task polled so far counted, every task polled so far has settled.
StreamOK ==
  /\ stream.total = 0 => stream.left = {}
  /\ stream.total # 0 =>
       /\ stream.batch \in known
       /\ stream.total = Cardinality(batchTasks[stream.batch])
       /\ stream.left \subseteq batchTasks[stream.batch]
       /\ stream.good + stream.bad + Cardinality(stream.left) <= stream.total
       /\ stream.good + stream.bad + Cardinality(stream.left) = stream.total =>
            \A t \in batchTasks[stream.batch] \ (stream.left \cup resent) : Settled(t)

StreamInv == StreamType /\ BatchInv /\ StreamOK

\* A batch the client knows is not written any more.
LEMMA KnownBatches ==
  ASSUME StoreAssumption, IInv, BatchInv, NEW a \in Handlers, HandlerStep(a)
  PROVE  known \subseteq known' /\ \A b \in known : batchTasks'[b] = batchTasks[b]
<1>1. UNCHANGED <<known, batchTasks>> \/ JoinBatch(a)
  BY DEF HandlerStep, SubmitSingle, CreateBatch, ReadForCancel, Enqueue, CheckUserLimit,
         CheckGlobalLimit, SaveTask, PushReady, Cancel, UnmarkUser, UnmarkGlobal, ClearVisibility,
         RemoveReady, MarkCancelled, HandlerFault, redisVars
<1>2. CASE JoinBatch(a)
  <2>1. api[a].batch \in Batches /\ api[a].batch # NoBatch
    BY <1>2 DEF JoinBatch, IInv, HandlerLocals, LocalsOf, StoreAssumption
  <2>2. api[a].batch \notin known
    BY <2>1 DEF BatchInv, BatchOf
  <2> QED BY <2>1, <2>2, <1>2 DEF JoinBatch, IInv, TypeOK, StoreTypeOK
<1> QED BY <1>1, <1>2

\* A handler comes to own only ids that have no hash yet, and pushes only what
\* it owns.
LEMMA HandlerOwns ==
  ASSUME StoreAssumption, IInv, NEW a \in Handlers, HandlerStep(a), NEW t \in Tasks,
         status[t] # "none", \A h \in Handlers : ~Owns(h, t)
  PROVE  /\ \A h \in Handlers : ~Owns(h, t)'
         /\ InReady(t)' => InReady(t)
<1> DEFINE Done ==
      /\ \A h \in Handlers : ~Owns(h, t)'
      /\ InReady(t)' => InReady(t)
<1>1. api \in [Handlers -> HandlerType] /\ api[a] \in HandlerType
  BY DEF IInv, TypeOK, StoreTypeOK
<1>2. ASSUME \A h \in Handlers : h # a => api'[h] = api[h], ~Owns(a, t)',
             InReady(t)' => InReady(t)
      PROVE  Done
  BY <1>2 DEF Owns
<1>3. ASSUME Return(a), InReady(t)' => InReady(t) PROVE Done
  <2>1. api'[a] = IdleHandler /\ \A h \in Handlers : h # a => api'[h] = api[h]
    BY <1>1, <1>3, ReturnFacts
  <2> QED BY <2>1, <1>2, <1>3 DEF Owns, IdleHandler
<1>4. ASSUME NEW pc \in HandlerPc, Goto(a, pc),
             pc \in {"globalLimit", "save", "push"} =>
               api[a].pc \in {"globalLimit", "save", "push"},
             InReady(t)' => InReady(t)
      PROVE  Done
  <2>1. /\ api'[a].pc = pc /\ api'[a].task = api[a].task /\ api'[a].todo = api[a].todo
        /\ \A h \in Handlers : h # a => api'[h] = api[h]
    BY <1>1, <1>4, GotoFacts
  <2> QED BY <2>1, <1>2, <1>4 DEF Owns
<1>5. UNCHANGED ready => (InReady(t)' => InReady(t))
  BY DEF InReady
<1> HIDE DEF Done
<1> USE DEF redisVars
<1>6. ASSUME NEW x \in Tasks, SubmitSingle(a, x) PROVE Done
  <2>1. /\ api'[a].todo = {x} /\ api'[a].pc = "userLimit" /\ x # t
        /\ \A h \in Handlers : h # a => api'[h] = api[h]
    BY <1>1, <1>6 DEF SubmitSingle, Fresh
  <2> QED BY <2>1, <1>2, <1>5, <1>6 DEF SubmitSingle, Owns
<1>7. ASSUME NEW b \in Batches, NEW S \in SUBSET Tasks, CreateBatch(a, b, S) PROVE Done
  <2>1. /\ api'[a].todo = S /\ api'[a].pc = "userLimit" /\ t \notin S
        /\ \A h \in Handlers : h # a => api'[h] = api[h]
    BY <1>1, <1>7 DEF CreateBatch, Fresh
  <2> QED BY <2>1, <1>2, <1>5, <1>7 DEF CreateBatch, Owns
<1>8. ASSUME NEW x \in Tasks, ReadForCancel(a, x) PROVE Done
  <2>1. PICK pc \in CancelPc :
          api' = [api EXCEPT ![a] = [pc |-> pc, todo |-> {}, task |-> x, batch |-> NoBatch]]
    BY <1>8 DEF ReadForCancel, CancelPc
  <2>2. /\ api'[a].todo = {} /\ api'[a].pc \in CancelPc
        /\ \A h \in Handlers : h # a => api'[h] = api[h]
    BY <2>1, <1>1
  <2> QED BY <2>2, <1>2, <1>5, <1>8 DEF ReadForCancel, Owns, CancelPc
<1>9. ASSUME CheckUserLimit(a) PROVE Done
  <2>1. PICK x \in api[a].todo :
          \/ api' = [api EXCEPT ![a] = [pc |-> "globalLimit", todo |-> api[a].todo \ {x},
                                        task |-> x, batch |-> api[a].batch]]
          \/ Return(a)
    BY <1>9 DEF CheckUserLimit
  <2>2. ASSUME api' = [api EXCEPT ![a] = [pc |-> "globalLimit", todo |-> api[a].todo \ {x},
                                          task |-> x, batch |-> api[a].batch]]
        PROVE  Done
    <3>1. /\ api'[a].todo \subseteq api[a].todo /\ api'[a].task = x
          /\ \A h \in Handlers : h # a => api'[h] = api[h]
      BY <2>2, <1>1
    <3>2. t \notin api[a].todo
      BY DEF Owns
    <3> QED BY <3>1, <3>2, <2>1, <1>2, <1>5, <1>9 DEF CheckUserLimit, Owns
  <2> QED BY <2>1, <2>2, <1>3, <1>5, <1>9 DEF CheckUserLimit
<1>10. ASSUME CheckGlobalLimit(a) PROVE Done
  BY <1>10, <1>3, <1>4, <1>5 DEF CheckGlobalLimit, HandlerPc, EnqueuePc
<1>11. ASSUME SaveTask(a) PROVE Done
  BY <1>11, <1>4, <1>5 DEF SaveTask, HandlerPc, EnqueuePc
<1>12. ASSUME PushReady(a) PROVE Done
  <2>1. api[a].task \in Tasks /\ Owns(a, api[a].task)
        /\ ~InReady(api[a].task) /\ Held(api[a].task) = {}
    BY <1>12 DEF PushReady, Owns, IInv, HandlerLocals, LocalsOf, PushedOnce
  <2>2. t # api[a].task
    BY <2>1
  <2>3. InReady(t)' => InReady(t)
    BY <2>1, <2>2, <1>12, IInvOnce, PushKeepsOnce DEF PushReady
  <2> QED BY <2>3, <1>3, <1>4, <1>12 DEF PushReady, HandlerPc, EnqueuePc
<1>13. ASSUME Cancel(a) PROVE Done
  <2>1. InReady(t)' => InReady(t)
    BY <1>13, <1>5, IInvOnce, RemoveKeepsOnce DEF Cancel, UnmarkUser, UnmarkGlobal, ClearVisibility,
                                        RemoveReady, MarkCancelled
  <2> QED BY <2>1, <1>13, <1>3, <1>4 DEF Cancel, UnmarkUser, UnmarkGlobal, ClearVisibility,
                             RemoveReady, MarkCancelled, HandlerPc, CancelPc
<1>14. ASSUME HandlerFault(a) PROVE Done
  BY <1>14, <1>3, <1>5 DEF HandlerFault
<1>15. ASSUME JoinBatch(a) PROVE Done
  <2>1. CASE api[a].todo = {}
    BY <2>1, <1>3, <1>5, <1>15 DEF JoinBatch
  <2>2. CASE api[a].todo # {}
    <3>1. /\ api'[a].todo = api[a].todo /\ api'[a].pc = "userLimit"
          /\ \A h \in Handlers : h # a => api'[h] = api[h]
      BY <2>2, <1>1, <1>15 DEF JoinBatch
    <3> QED BY <3>1, <1>2, <1>5, <1>15 DEF JoinBatch, Owns
  <2> QED BY <2>1, <2>2
<1>16. Done
  BY <1>6, <1>7, <1>8, <1>9, <1>10, <1>11, <1>12, <1>13, <1>14, <1>15
     DEF HandlerStep, Enqueue
<1> QED BY <1>16 DEF Done

\* A settled task stays settled: completed and failed are never left.
LEMMA SettledStays ==
  ASSUME StoreAssumption, IInv, LedgerInv, BatchInv, NEW t \in Tasks, Settled(t),
         \/ \E a \in Handlers : HandlerStep(a) /\ UNCHANGED workerVars
         \/ \E w \in Workers : WorkerStep(w)
  PROVE  Settled(t)'
<1>1. status[t] # "none"
  BY DEF Settled, Final
<1>2. ASSUME NEW a \in Handlers, HandlerStep(a), UNCHANGED workerVars PROVE Settled(t)'
  <2>1. HandlerWrites
    BY <1>2, HandlerEffects
  <2>2. status'[t] \in Final /\ Held(t)' = Held(t) /\ worker' = worker
    BY <2>1, <1>1 DEF HandlerWrites, Settled, Final, Held
  <2>3. ~InReady(t)' /\ \A h \in Handlers : ~Owns(h, t)'
    BY <1>1, <1>2, HandlerOwns DEF Settled
  <2> QED BY <2>2, <2>3 DEF Settled
<1>3. ASSUME NEW w \in Workers, PopStep(w) PROVE Settled(t)'
  <2>1. InReady(Head(ready)) /\ (InReady(t)' => InReady(t))
    BY <1>3, IInvOnce, TailKeepsOnce DEF PopStep
  <2>2. ~InReady(t)' /\ Head(ready) # t
    BY <2>1 DEF Settled
  <2>3. \A v \in Held(t)' : v \in Held(t) /\ worker'[v] = worker[v]
    BY <2>2, <1>3 DEF Held, PopStep
  <2>4. \A h \in Handlers : ~Owns(h, t)'
    BY <1>3 DEF PopStep, Settled, Owns
  <2> QED BY <2>2, <2>3, <2>4, <1>3 DEF PopStep, Settled
<1>4. ASSUME NEW w \in Workers, NEW x, OwnStep(w, x) PROVE Settled(t)'
  <2>1. ~InReady(t)' /\ \A h \in Handlers : ~Owns(h, t)'
    BY <1>4 DEF OwnStep, OthersStay, Settled, InReady, Owns
  <2>2. /\ x \in Tasks /\ worker[w].task = x /\ worker[w].pc # "idle"
        /\ \A v \in Workers : v # w => worker'[v] = worker[v]
    BY <1>4 DEF OwnStep, OthersStay
  <2>3. CASE x # t
    <3>1. worker'[w].task \in {x, NoTask} /\ NoTask \notin Tasks
      BY <1>4, <2>2 DEF OwnStep, RunStep, BlockStep, ErrorStep, Goes, IdleWorker, StoreAssumption
    <3>2. \A v \in Held(t)' : v \in Held(t) /\ worker'[v] = worker[v]
      BY <2>2, <2>3, <3>1 DEF Held
    <3>3. status'[t] = status[t]
      BY <1>4, <2>3 DEF OwnStep, OthersStay
    <3> QED BY <2>1, <3>2, <3>3 DEF Settled
  <2>4. CASE x = t
    <3>1. worker[w].pc \notin BeforeResult /\ status[t] \in Final
      BY <2>2, <2>4 DEF Settled, Held
    <3>2. status'[t] \in Final /\ worker'[w].pc \notin BeforeResult
      <4>1. CASE RunStep(w, t)
        BY <4>1, <3>1 DEF RunStep, Goes, BeforeResult
      <4>2. CASE BlockStep(w, t)
        BY <4>2, <3>1 DEF BlockStep, Goes, IdleWorker, BeforeResult, Writes, Frees, Files, Final
      <4>3. CASE ErrorStep(w, t)
        BY <4>3, <3>1 DEF ErrorStep, Goes, BeforeResult, Frees, Files, Same, Final
      <4>4. CASE worker'[w] = IdleWorker /\ Same(t)
        BY <4>4, <3>1 DEF IdleWorker, BeforeResult, Same
      <4> QED BY <4>1, <4>2, <4>3, <4>4, <2>4, <1>4 DEF OwnStep
    <3>3. \A v \in Held(t)' : v = w \/ (v \in Held(t) /\ worker'[v] = worker[v])
      BY <2>2 DEF Held
    <3> QED BY <2>1, <3>2, <3>3 DEF Settled
  <2> QED BY <2>3, <2>4
<1> QED BY <1>2, <1>3, <1>4, WorkerEffects

\* What the stream counts has settled.
LEMMA CountedIsSettled ==
  ASSUME IInv, LedgerInv, NEW t \in Tasks \ resent, status[t] \in {"completed", "failed"}
  PROVE  Settled(t)
<1>1. ~InReady(t)
  BY DEF IInv, ReadyIsUnstarted
<1>2. \A w \in Held(t) : worker[w].pc \notin BeforeResult
  BY DEF LedgerInv, RunsAgree, RunOf, Held
<1>3. ASSUME NEW a \in Handlers, Owns(a, t) PROVE FALSE
  <2>1. ~Unwritten(a, t)
    BY DEF IInv, OneOwner
  <2>2. api[a].pc = "push" /\ api[a].task = t
    BY <2>1, <1>3 DEF Owns, Unwritten
  <2> QED BY <2>2 DEF IInv, PushedOnce, Unstarted
<1> QED BY <1>1, <1>2, <1>3 DEF Settled, Final

\* Handlers and workers leave the stream's locals and its batch alone.
LEMMA StepKeepsStream ==
  ASSUME StoreAssumption, IInv, LedgerInv, StreamInv,
         \/ \E a \in Handlers : HandlerStep(a) /\ UNCHANGED workerVars
         \/ \E w \in Workers : WorkerStep(w)
  PROVE  StreamInv'
<1>1. /\ UNCHANGED stream /\ known \subseteq known' /\ resent \subseteq resent'
      /\ \A b \in known : batchTasks'[b] = batchTasks[b]
      /\ BatchInv'
  <2>1. ASSUME NEW a \in Handlers, HandlerStep(a), UNCHANGED workerVars
        PROVE  /\ UNCHANGED stream /\ known \subseteq known' /\ resent \subseteq resent'
               /\ \A b \in known : batchTasks'[b] = batchTasks[b]
               /\ BatchInv'
    BY <2>1, HandlerEffects, HandlerKeepsBatch, KnownBatches DEF HandlerWrites, StreamInv
  <2>2. ASSUME NEW w \in Workers, WorkerStep(w)
        PROVE  UNCHANGED <<stream, known, resent, batchTasks, submitted, api>>
    <3>1. PopStep(w) \/ OwnStep(w, worker[w].task)
      BY <2>2, WorkerEffects
    <3> QED BY <3>1 DEF PopStep, OwnStep, OthersStay
  <2>3. UNCHANGED <<known, batchTasks, submitted, api>> => BatchInv'
    BY DEF StreamInv, BatchInv, BatchOf, Symbols, Flight
  <2> QED BY <2>1, <2>2, <2>3
<1>2. StreamType'
  BY <1>1 DEF StreamInv, StreamType
<1>3. StreamOK'
  <2>1. CASE stream.total = 0
    BY <2>1, <1>1 DEF StreamInv, StreamOK
  <2>2. CASE stream.total # 0
    <3>1. stream.batch \in known /\ batchTasks'[stream.batch] = batchTasks[stream.batch]
      BY <2>2, <1>1 DEF StreamInv, StreamOK
    <3>2. \A t \in batchTasks[stream.batch] : t \in Tasks
      BY <3>1 DEF IInv, TypeOK, StoreTypeOK
    <3>3. \A t \in batchTasks[stream.batch] : Settled(t) => Settled(t)'
      BY <3>2, SettledStays DEF StreamInv
    <3> QED BY <2>2, <3>1, <3>3, <1>1 DEF StreamInv, StreamOK
  <2> QED BY <2>1, <2>2
<1> QED BY <1>1, <1>2, <1>3 DEF StreamInv

\* A poll: the batch's task set, then one task hash after another.
LEMMA PollKeepsStream ==
  ASSUME StoreAssumption, IInv, LedgerInv, StreamInv, StreamStep
  PROVE  StreamInv'
<1>1. UNCHANGED <<storeVars, worker>>
  BY DEF StreamStep, PollBatch, PollTask, PollAgain
<1>2. /\ UNCHANGED <<known, batchTasks, resent, submitted, api>>
      /\ \A t \in Tasks : Settled(t) => Settled(t)'
  BY <1>1 DEF storeVars, redisVars, Settled, InReady, Held, Owns
<1>3. BatchInv'
  BY <1>2 DEF StreamInv, BatchInv, BatchOf, Symbols, Flight
<1>4. /\ known \subseteq Batches /\ batchTasks \in [Batches -> SUBSET Tasks]
      /\ \A b \in known : /\ IsFiniteSet(batchTasks[b]) /\ Cardinality(batchTasks[b]) \in Nat
                          /\ Cardinality(batchTasks[b]) # 0
  BY DEF IInv, TypeOK, StoreTypeOK, StreamInv, BatchInv
<1>5. ASSUME NEW b \in Batches, PollBatch(b) PROVE StreamType' /\ StreamOK'
  <2>1. b \in known /\ stream' = [batch |-> b, left |-> batchTasks[b], good |-> 0, bad |-> 0,
                                 total |-> Cardinality(batchTasks[b])]
    BY <1>5 DEF PollBatch
  <2>2. batchTasks[b] \subseteq Tasks
    BY <1>4
  <2>3. StreamType'
    BY <2>1, <2>2, <1>4 DEF StreamType
  <2>4. StreamOK'
    BY <2>1, <1>2, <1>4 DEF StreamOK
  <2> QED BY <2>3, <2>4
<1>6. ASSUME NEW t \in Tasks, PollTask(t) PROVE StreamType' /\ StreamOK'
  <2> DEFINE b == stream.batch
             left == stream.left
             good == IF status[t] = "completed" THEN stream.good + 1 ELSE stream.good
             bad == IF status[t] = "failed" THEN stream.bad + 1 ELSE stream.bad
  <2>1. /\ t \in left
        /\ stream \in [batch : Batches \cup {NoStream}, left : SUBSET Tasks,
                       good : Nat, bad : Nat, total : Nat]
    BY <1>6 DEF PollTask, StreamInv, StreamType
  <2>2. /\ stream'.batch = b /\ stream'.left = left \ {t} /\ stream'.total = stream.total
        /\ stream'.good = good /\ stream'.bad = bad
        /\ stream' \in [batch : Batches \cup {NoStream}, left : SUBSET Tasks,
                        good : Nat, bad : Nat, total : Nat]
    <3>1. stream' = [stream EXCEPT !.left = left \ {t}, !.good = good, !.bad = bad]
      BY <1>6 DEF PollTask
    <3>2. left \ {t} \in SUBSET Tasks /\ good \in Nat /\ bad \in Nat
      BY <2>1
    <3> HIDE DEF good, bad
    <3> QED BY <3>1, <3>2, <2>1
  <2>3. /\ stream.total # 0 /\ b \in known /\ stream.total = Cardinality(batchTasks[b])
        /\ left \subseteq batchTasks[b]
        /\ stream.good + stream.bad + Cardinality(left) <= stream.total
        /\ stream.good + stream.bad + Cardinality(left) = stream.total =>
             \A x \in batchTasks[b] \ (left \cup resent) : Settled(x)
    BY <2>1 DEF StreamInv, StreamOK
  <2>4. IsFiniteSet(left) /\ Cardinality(left) \in Nat
    BY <2>3, <1>4, FS_Subset, FS_CardinalityType
  <2>5. Cardinality(left \ {t}) = Cardinality(left) - 1
    BY <2>1, <2>4, FS_RemoveElement
  <2>6. /\ good \in Nat /\ bad \in Nat /\ stream.good \in Nat /\ stream.bad \in Nat
        /\ stream.total \in Nat
        /\ good + bad \in {stream.good + stream.bad, stream.good + stream.bad + 1}
        /\ good + bad = stream.good + stream.bad + 1 => status[t] \in {"completed", "failed"}
    BY <2>1
  <2> HIDE DEF good, bad
  <2>7. good + bad + (Cardinality(left) - 1) <= stream.total
    BY <2>3, <2>4, <2>6
  <2>8. good + bad + (Cardinality(left) - 1) = stream.total =>
          /\ stream.good + stream.bad + Cardinality(left) = stream.total
          /\ status[t] \in {"completed", "failed"}
    BY <2>3, <2>4, <2>6
  <2>9. good + bad + (Cardinality(left) - 1) = stream.total =>
          \A x \in batchTasks[b] \ ((left \ {t}) \cup resent) : Settled(x)
    BY <2>3, <2>8, CountedIsSettled
  <2>10. \A x \in batchTasks[b] : Settled(x) => Settled(x)'
    BY <2>3, <1>2, <1>4
  <2> HIDE DEF b, left
  <2>11. StreamOK'
    BY <2>2, <2>3, <2>5, <2>7, <2>9, <2>10, <1>2 DEF StreamOK
  <2>12. StreamType'
    BY <2>2 DEF StreamType
  <2> QED BY <2>11, <2>12
<1>7. ASSUME PollAgain PROVE StreamType' /\ StreamOK'
  <2>1. stream' \in [batch : Batches \cup {NoStream}, left : SUBSET Tasks,
                     good : Nat, bad : Nat, total : Nat]
        /\ stream'.total = 0 /\ stream'.left = {}
    BY <1>7 DEF PollAgain, NotStreaming, StreamInv, StreamType
  <2> QED BY <2>1 DEF StreamType, StreamOK
<1> QED BY <1>3, <1>5, <1>6, <1>7 DEF StreamStep, StreamInv

\* A stream has said nothing and no batch is finished.
LEMMA InitStream == ASSUME StoreAssumption, Init PROVE StreamInv
<1> USE DEF Init, StoreInit
<1>1. \A a \in Handlers : api[a] = IdleHandler
  OBVIOUS
<1>2. BatchInv
  BY <1>1 DEF BatchInv, BatchOf, IdleHandler
<1>3. StreamType /\ StreamOK
  BY DEF StreamType, StreamOK, NotStreaming
<1> QED BY <1>2, <1>3 DEF StreamInv

\* Every step of the queue and of the stream keeps the stream invariant.
LEMMA NextKeepsStream ==
  ASSUME StoreAssumption, IInv, LedgerInv, StreamInv, [Next]_vars
  PROVE  StreamInv'
<1>1. CASE UNCHANGED vars
  BY <1>1 DEF vars, storeVars, redisVars, StreamInv, StreamType, BatchInv, BatchOf, Symbols, Flight,
              StreamOK, Settled, InReady, Held, Owns
<1> QED BY <1>1, StepKeepsStream, PollKeepsStream DEF Next

\* The stream invariant: as long as every task the stream has polled counted as
\* ended, each of them has settled for good.
THEOREM StreamInductive == Spec => []StreamInv
<1>1. Init => StreamInv
  BY InitStream, StoreAssumption
<1>2. IInv /\ LedgerInv /\ StreamInv /\ [Next]_vars => StreamInv'
  BY NextKeepsStream, StoreAssumption
<1> QED BY <1>1, <1>2, Inductive, LedgerInductive, PTL DEF Spec

\* When the stream says a batch is finished, the whole batch was submitted and
\* every task of it has ended for good, though the hashes were read one by one.
THEOREM FinishedBatchesAreFinal == Spec => []FinishedIsFinal
<1>1. IInv /\ StreamInv => FinishedIsFinal
  <2> SUFFICES ASSUME IInv, StreamInv, BatchFinished
               PROVE  /\ stream.total = submitted[stream.batch]
                      /\ \A t \in batchTasks[stream.batch] \ resent :
                           ~InReady(t) /\ status[t] \in Final
    BY DEF FinishedIsFinal
  <2>1. /\ stream.total # 0 /\ stream.left = {} /\ stream.good + stream.bad = stream.total
        /\ stream.good \in Nat /\ stream.bad \in Nat
    BY DEF BatchFinished, AllCounted, StreamInv, StreamType
  <2>2. stream.good + stream.bad + Cardinality(stream.left) = stream.total
    BY <2>1, FS_EmptySet
  <2>3. stream.batch \in known /\ stream.total = Cardinality(batchTasks[stream.batch])
        /\ \A t \in batchTasks[stream.batch] \ resent : Settled(t)
    BY <2>1, <2>2 DEF StreamInv, StreamOK
  <2> QED BY <2>3 DEF StreamInv, BatchInv, Settled
<1> QED BY <1>1, Inductive, StreamInductive, PTL

-----------------------------------------------------------------------------
(* Part three: the queue implements TaskPool when the Redis client does    *)
(* not send an LPUSH twice: every step of a handler, a worker or the       *)
(* stream is a step of the pool or changes nothing of it.                  *)

\* What the phases are read from.
NeverResent == resent = {}
Pushing(t) == \E a \in Handlers : api[a].pc = "push" /\ api[a].task = t
PoolInv == IInv /\ LedgerInv /\ NeverResent

Phases == [t \in Tasks |-> Phase(t)]
Takers == [w \in Workers |-> worker[w].task]

-----------------------------------------------------------------------------
(* Removing one id from the list keeps the others in it.                   *)

\* LREM of an id keeps every other id in the list.
LEMMA RemoveIsExact ==
  ASSUME IInv, NEW t, ready' \in LRem(ready, t)
  PROVE  \A x \in Tasks : InReady(x)' <=> InReady(x) /\ x # t
<1> DEFINE keep == {i \in DOMAIN ready : ready[i] # t}
<1>1. PICK f \in KeptPositions(ready, t) : ready' = [i \in DOMAIN f |-> ready[f[i]]]
  BY DEF LRem
<1>2. PICK n \in 0..Len(ready) : f \in [1..n -> keep]
  BY <1>1 DEF KeptPositions
<1>3. \A k \in keep : \E i \in DOMAIN f : f[i] = k
  BY <1>1 DEF KeptPositions
<1>4. DOMAIN ready' = DOMAIN f /\ \A i \in DOMAIN f : f[i] \in keep /\ ready'[i] = ready[f[i]]
  BY <1>1, <1>2
<1>5. ASSUME NEW x \in Tasks, InReady(x)' PROVE InReady(x) /\ x # t
  BY <1>4, <1>5 DEF InReady
<1>6. ASSUME NEW x \in Tasks, InReady(x), x # t PROVE InReady(x)'
  <2>1. PICK k \in keep : ready[k] = x
    BY <1>6 DEF InReady
  <2>2. PICK i \in DOMAIN f : f[i] = k
    BY <2>1, <1>3
  <2> QED BY <2>1, <2>2, <1>4 DEF InReady
<1> QED BY <1>5, <1>6

\* LPOP takes its id out of the list, which held it once.
LEMMA TailIsExact ==
  ASSUME IInv, NeverResent, ready # <<>>, ready' = Tail(ready)
  PROVE  \A x \in Tasks : InReady(x)' <=> InReady(x) /\ x # Head(ready)
<1>1. /\ \A x \in Tasks : InReady(x)' => InReady(x)
      /\ \A x \in Tasks : x = Head(ready) => ~InReady(x)'
  BY IInvOnce, TailKeepsOnce DEF NeverResent
<1>2. ASSUME NEW x \in Tasks, InReady(x), x # Head(ready) PROVE InReady(x)'
  <2>1. ready \in Seq(Tasks)
    BY DEF IInv, TypeOK, StoreTypeOK
  <2>2. /\ Head(ready) = ready[1] /\ Len(Tail(ready)) = Len(ready) - 1 /\ Tail(ready) \in Seq(Tasks)
        /\ \A i \in 1..(Len(ready) - 1) : Tail(ready)[i] = ready[i + 1]
    BY <2>1, TailFacts
  <2>3. PICK i \in 1..Len(ready) : ready[i] = x
    BY <2>1, <1>2 DEF InReady
  <2>4. i # 1
    BY <2>2, <2>3, <1>2
  <2>5. i - 1 \in 1..(Len(ready) - 1) /\ (i - 1) + 1 = i
    BY <2>1, <2>3, <2>4
  <2>6. i - 1 \in DOMAIN ready' /\ ready'[i - 1] = x
    BY <2>2, <2>3, <2>5
  <2> QED BY <2>6 DEF InReady
<1> QED BY <1>1, <1>2

-----------------------------------------------------------------------------
(* Steps of the pool.                                                      *)


\* An id that has no hash yet, or whose LPUSH is still to come.
New(t) == status[t] = "none" \/ Pushing(t)

\* The phase of a task depends on its places and on whether it was pushed.
LEMMA PhaseKept ==
  ASSUME NEW t \in Tasks, Held(t)' = Held(t), InReady(t)' <=> InReady(t), New(t)' <=> New(t)
  PROVE  Phase(t)' = Phase(t)
BY DEF Phase, New, Pushing

\* A step that moves no task is a stutter of the pool.
LEMMA PoolStutters ==
  ASSUME \A t \in Tasks : Phase(t)' = Phase(t),
         \A w \in Workers : worker'[w].task = worker[w].task
  PROVE  UNCHANGED Pool!poolVars
BY DEF Pool!poolVars

\* One task changes its phase: the function changes at one point.
LEMMA PhaseMoves ==
  ASSUME NEW t \in Tasks, NEW p, Phase(t)' = p, \A x \in Tasks : x # t => Phase(x)' = Phase(x)
  PROVE  Phases' = [Phases EXCEPT ![t] = p]
BY DEF Phases

\* What waits or is held has been pushed, and has a hash.
LEMMA NotNew ==
  ASSUME IInv, NEW t \in Tasks, InReady(t) \/ Held(t) # {}
  PROVE  ~New(t) /\ ~Pushing(t) /\ status[t] # "none"
BY DEF New, Pushing, IInv, PushedOnce, NoneIsNowhere

\* Handlers that neither push nor remove nor give up a push.
LEMMA HandlerStutters ==
  ASSUME StoreAssumption, PoolInv, NEW a \in Handlers, HandlerStep(a), UNCHANGED workerVars,
         ~PushReady(a), ~RemoveReady(a), ~(HandlerFault(a) /\ api[a].pc = "push")
  PROVE  UNCHANGED Pool!poolVars
<1>1. /\ api \in [Handlers -> HandlerType] /\ api[a] \in HandlerType
      /\ status \in [Tasks -> Status] /\ worker' = worker /\ LocalsOf(a)
  BY DEF PoolInv, IInv, TypeOK, StoreTypeOK, workerVars, HandlerLocals
<1> DEFINE NewKept == \A t \in Tasks : New(t)' <=> New(t)
           Idles == /\ \A h \in Handlers : h # a => api'[h] = api[h]
                    /\ api[a].pc # "push" /\ api'[a].pc # "push"
<1>2. UNCHANGED ready
  BY DEF HandlerStep, SubmitSingle, CreateBatch, ReadForCancel, Enqueue, CheckUserLimit,
         CheckGlobalLimit, SaveTask, JoinBatch, Cancel, UnmarkUser, UnmarkGlobal,
         ClearVisibility, MarkCancelled, HandlerFault, redisVars
<1>3. ASSUME SaveTask(a) PROVE NewKept
  <2>0. PICK t \in Tasks : t = api[a].task
    BY <1>1, <1>3 DEF SaveTask, LocalsOf
  <2>1. t = api[a].task /\ status[t] = "none" /\ api[a].pc = "save"
    BY <2>0, <1>3 DEF SaveTask, PoolInv, IInv, OneOwner, Unwritten
  <2>2. /\ api'[a].pc = "push" /\ api'[a].task = t
        /\ \A h \in Handlers : h # a => api'[h] = api[h]
    BY <1>1, <1>3, <2>0, GotoFacts DEF SaveTask, HandlerPc, EnqueuePc
  <2>3. \A x \in Tasks : x # t => status'[x] = status[x]
    BY <1>1, <1>3, <2>0 DEF SaveTask
  <2>4. New(t) /\ New(t)'
    BY <2>1, <2>2 DEF New, Pushing
  <2>5. ASSUME NEW x \in Tasks, x # t PROVE New(x)' <=> New(x)
    <3>1. Pushing(x)' <=> Pushing(x)
      BY <2>1, <2>2, <2>5 DEF Pushing
    <3> QED BY <3>1, <2>3, <2>5 DEF New
  <2> QED BY <2>4, <2>5
<1>4. ASSUME Idles, \A t \in Tasks : status'[t] = "none" <=> status[t] = "none" PROVE NewKept
  BY <1>4 DEF New, Pushing
<1>5. ASSUME Return(a), api[a].pc # "push" PROVE Idles
  BY <1>1, <1>5, ReturnFacts DEF IdleHandler
<1>6. ASSUME NEW pc \in HandlerPc, Goto(a, pc), pc # "push", api[a].pc # "push" PROVE Idles
  BY <1>1, <1>6, GotoFacts
<1> USE DEF redisVars
<1>7. ASSUME (\E t \in Tasks : SubmitSingle(a, t))
             \/ (\E b \in Batches, S \in SUBSET Tasks : CreateBatch(a, b, S))
      PROVE  Idles /\ UNCHANGED status
  BY <1>1, <1>7 DEF SubmitSingle, CreateBatch
<1>8. ASSUME NEW t \in Tasks, ReadForCancel(a, t) PROVE Idles /\ UNCHANGED status
  <2>1. PICK pc \in CancelPc :
          api' = [api EXCEPT ![a] = [pc |-> pc, todo |-> {}, task |-> t, batch |-> NoBatch]]
    BY <1>8 DEF ReadForCancel, CancelPc
  <2> QED BY <2>1, <1>1, <1>8 DEF ReadForCancel, CancelPc
<1>9. ASSUME CheckUserLimit(a) PROVE Idles /\ UNCHANGED status
  <2>1. PICK x \in api[a].todo :
          \/ api' = [api EXCEPT ![a] = [pc |-> "globalLimit", todo |-> api[a].todo \ {x},
                                        task |-> x, batch |-> api[a].batch]]
          \/ Return(a)
    BY <1>9 DEF CheckUserLimit
  <2> QED BY <2>1, <1>1, <1>5, <1>9 DEF CheckUserLimit
<1>10. ASSUME CheckGlobalLimit(a) PROVE Idles /\ UNCHANGED status
  <2>1. api[a].pc = "globalLimit" /\ (Goto(a, "save") \/ Return(a)) /\ UNCHANGED status
    BY <1>10 DEF CheckGlobalLimit
  <2>2. "save" \in HandlerPc
    BY DEF HandlerPc, EnqueuePc
  <2> QED BY <2>1, <2>2, <1>5, <1>6
<1>11. ASSUME JoinBatch(a) PROVE Idles /\ UNCHANGED status
  <2>1. /\ api[a].pc = "join" /\ UNCHANGED status
        /\ Return(a) \/ api' = [api EXCEPT ![a] = [pc |-> "userLimit", todo |-> api[a].todo,
                                                   task |-> NoTask, batch |-> api[a].batch]]
    BY <1>11 DEF JoinBatch
  <2> QED BY <2>1, <1>1, <1>5
<1>12. ASSUME UnmarkUser(a) \/ UnmarkGlobal(a) \/ ClearVisibility(a)
       PROVE  Idles /\ UNCHANGED status
  <2>1. PICK pc \in CancelPc : Goto(a, pc) /\ api[a].pc \in CancelPc /\ UNCHANGED status
    BY <1>12 DEF UnmarkUser, UnmarkGlobal, ClearVisibility, CancelPc
  <2> QED BY <2>1, <1>6 DEF CancelPc, HandlerPc
<1>13. ASSUME MarkCancelled(a)
       PROVE  Idles /\ \A t \in Tasks : status'[t] = "none" <=> status[t] = "none"
  <2>1. api[a].task \in Tasks /\ status[api[a].task] # "none"
    BY <1>1, <1>13 DEF MarkCancelled, LocalsOf, CancelPc
  <2> QED BY <2>1, <1>1, <1>5, <1>13 DEF MarkCancelled
<1>14. ASSUME HandlerFault(a) PROVE Idles /\ UNCHANGED status
  BY <1>5, <1>14 DEF HandlerFault
<1>15. NewKept
  BY <1>3, <1>4, <1>7, <1>8, <1>9, <1>10, <1>11, <1>12, <1>13, <1>14
     DEF HandlerStep, Enqueue, Cancel
<1>16. \A t \in Tasks : Held(t)' = Held(t) /\ (InReady(t)' <=> InReady(t))
  BY <1>1, <1>2 DEF Held, InReady
<1> QED BY <1>15, <1>16, <1>1, PhaseKept, PoolStutters

\* LPUSH offers the task to the workers.
LEMMA PushOffers ==
  ASSUME StoreAssumption, PoolInv, NEW a \in Handlers, PushReady(a), UNCHANGED workerVars
  PROVE  \E t \in Tasks : Pool!Offer(t)
<1>0. PICK t \in Tasks : t = api[a].task
  BY DEF PushReady, PoolInv, IInv, HandlerLocals, LocalsOf
<1>1. /\ api \in [Handlers -> HandlerType] /\ api[a].pc = "push" /\ api[a].task = t
      /\ worker' = worker /\ ~InReady(t) /\ Held(t) = {} /\ IInv /\ Push(t) /\ UNCHANGED status
  BY <1>0 DEF PoolInv, IInv, TypeOK, StoreTypeOK, workerVars, PushReady, PushedOnce
<1>2. InReady(t)' /\ \A x \in Tasks : x # t => (InReady(x)' <=> InReady(x))
  BY <1>1, IInvOnce, PushKeepsOnce
<1>3. api'[a].pc # "push" /\ \A h \in Handlers : h # a => api'[h] = api[h]
  BY <1>1, ReturnFacts, GotoFacts DEF PushReady, IdleHandler, HandlerPc, EnqueuePc
<1>4. Pushing(t)
  BY <1>1 DEF Pushing
<1>5. \A x \in Tasks : Held(x)' = Held(x)
  BY <1>1 DEF Held
<1>6. ASSUME NEW x \in Tasks, x # t PROVE Phase(x)' = Phase(x)
  <2>1. Pushing(x)' <=> Pushing(x)
    BY <1>1, <1>3, <1>6 DEF Pushing
  <2> QED BY <2>1, <1>1, <1>2, <1>5, <1>6, PhaseKept DEF New
<1>7. Phase(t) = "new"
  BY <1>1, <1>4 DEF Phase, Pushing
<1>8. Phase(t)' = "pending"
  BY <1>1, <1>2, <1>5 DEF Phase
<1>9. Phases' = [Phases EXCEPT ![t] = "pending"]
  BY <1>6, <1>8, PhaseMoves
<1> QED BY <1>1, <1>7, <1>9 DEF Pool!Offer, Phases

\* A fault just before the LPUSH: the task will never be offered.
LEMMA LostPushWithdraws ==
  ASSUME StoreAssumption, PoolInv, NEW a \in Handlers, HandlerFault(a), api[a].pc = "push",
         UNCHANGED workerVars
  PROVE  \E t \in Tasks : Pool!Withdraw(t)
<1>0. PICK t \in Tasks : t = api[a].task
  BY DEF PoolInv, IInv, HandlerLocals, LocalsOf
<1>1. /\ api \in [Handlers -> HandlerType] /\ api[a].pc = "push" /\ api[a].task = t
      /\ worker' = worker /\ ~InReady(t) /\ Held(t) = {} /\ UNCHANGED <<status, ready>>
      /\ status[t] # "none"
  BY <1>0 DEF PoolInv, IInv, TypeOK, StoreTypeOK, workerVars, HandlerFault, PushedOnce, Unstarted,
              redisVars
<1>2. api'[a].pc # "push" /\ \A h \in Handlers : h # a => api'[h] = api[h]
  BY <1>1, ReturnFacts DEF HandlerFault, IdleHandler
<1>3. \A h \in Handlers : h # a => ~(api[h].pc = "push" /\ api[h].task = t)
  BY <1>1 DEF PoolInv, IInv, OneOwner, Owns
<1>4. Pushing(t) /\ ~Pushing(t)'
  BY <1>1, <1>2, <1>3 DEF Pushing
<1>5. \A x \in Tasks : Held(x)' = Held(x) /\ (InReady(x)' <=> InReady(x))
  BY <1>1 DEF Held, InReady
<1>6. ASSUME NEW x \in Tasks, x # t PROVE Phase(x)' = Phase(x)
  <2>1. Pushing(x)' <=> Pushing(x)
    BY <1>1, <1>2, <1>6 DEF Pushing
  <2> QED BY <2>1, <1>1, <1>5, <1>6, PhaseKept DEF New
<1>7. Phase(t) = "new"
  BY <1>1, <1>4 DEF Phase, Pushing
<1>8. Phase(t)' = "gone"
  BY <1>1, <1>4, <1>5 DEF Phase, Pushing
<1>9. Phases' = [Phases EXCEPT ![t] = "gone"]
  BY <1>6, <1>8, PhaseMoves
<1> QED BY <1>1, <1>7, <1>9 DEF Pool!Withdraw, Phases

\* LREM withdraws a task that still waits, and does nothing to one that does not.
LEMMA RemoveWithdraws ==
  ASSUME StoreAssumption, PoolInv, NEW a \in Handlers, RemoveReady(a), UNCHANGED workerVars
  PROVE  (\E t \in Tasks : Pool!Withdraw(t)) \/ UNCHANGED Pool!poolVars
<1>0. PICK t \in Tasks : t = api[a].task
  BY DEF RemoveReady, PoolInv, IInv, HandlerLocals, LocalsOf
<1>1. /\ api \in [Handlers -> HandlerType] /\ api[a].pc = "remove" /\ api[a].task = t
      /\ worker' = worker /\ UNCHANGED status /\ status[t] # "none" /\ IInv
  BY <1>0 DEF PoolInv, IInv, TypeOK, StoreTypeOK, workerVars, RemoveReady, HandlerLocals, LocalsOf,
              CancelPc
<1>2. api'[a].pc # "push" /\ \A h \in Handlers : h # a => api'[h] = api[h]
  BY <1>1, GotoFacts DEF RemoveReady, HandlerPc, CancelPc
<1>3. \A x \in Tasks : InReady(x)' <=> InReady(x) /\ x # t
  BY <1>1, RemoveIsExact DEF RemoveReady
<1>4. \A x \in Tasks : Held(x)' = Held(x) /\ (New(x)' <=> New(x))
  BY <1>1, <1>2 DEF Held, New, Pushing
<1>5. \A x \in Tasks : x # t => Phase(x)' = Phase(x)
  BY <1>3, <1>4, PhaseKept
<1>6. CASE InReady(t)
  <2>1. Held(t) = {} /\ ~New(t)
    BY <1>6, NotNew DEF PoolInv, IInv, SingleCopy, NeverResent
  <2>2. Phase(t) = "pending"
    BY <2>1, <1>6 DEF Phase
  <2>3. Phase(t)' = "gone"
    BY <2>1, <1>3, <1>4 DEF Phase, New, Pushing
  <2>4. Phases' = [Phases EXCEPT ![t] = "gone"]
    BY <1>5, <2>3, PhaseMoves
  <2> QED BY <2>2, <2>4, <1>1 DEF Pool!Withdraw, Phases
<1>7. CASE ~InReady(t)
  <2>1. Phase(t)' = Phase(t)
    BY <1>3, <1>4, <1>7, PhaseKept
  <2> QED BY <2>1, <1>1, <1>5, PoolStutters
<1> QED BY <1>6, <1>7

\* BLPOP gives the task to the worker, or to nobody when its reply is lost.
LEMMA PopTakes ==
  ASSUME StoreAssumption, PoolInv, NEW w \in Workers, PopStep(w)
  PROVE  \E t \in Tasks : Pool!Take(w, t) \/ Pool!Withdraw(t)
<1>0. PICK t \in Tasks : t = Head(ready) /\ InReady(t)
  BY IInvOnce, TailKeepsOnce DEF PopStep, PoolInv
<1>1. /\ worker[w].task = NoTask /\ NoTask \notin Tasks /\ IInv
      /\ UNCHANGED <<status, api>> /\ \A v \in Workers : v # w => worker'[v] = worker[v]
  BY DEF PoolInv, LedgerInv, IdleFree, PopStep, StoreAssumption
<1>2. \A x \in Tasks : InReady(x)' <=> InReady(x) /\ x # t
  BY <1>0, <1>1, TailIsExact DEF PopStep, PoolInv
<1>3. Held(t) = {} /\ ~New(t)
  BY <1>0, <1>1, NotNew DEF IInv, SingleCopy, PoolInv, NeverResent
<1>4. \A x \in Tasks : New(x)' <=> New(x)
  BY <1>1 DEF New, Pushing
<1>5. Phase(t) = "pending"
  BY <1>0, <1>3 DEF Phase
<1>6. CASE worker'[w] = [pc |-> "start", task |-> Head(ready), ok |-> FALSE]
  <2>1. worker'[w].task = t
    BY <1>0, <1>6
  <2>2. \A x \in Tasks : x # t => Held(x)' = Held(x)
    BY <2>1, <1>1 DEF Held
  <2>3. \A x \in Tasks : x # t => Phase(x)' = Phase(x)
    BY <2>2, <1>2, <1>4, PhaseKept
  <2>4. Phase(t)' = "taken"
    BY <2>1 DEF Phase, Held
  <2>5. Phases' = [Phases EXCEPT ![t] = "taken"]
    BY <2>3, <2>4, PhaseMoves
  <2>6. Takers' = [Takers EXCEPT ![w] = t]
    BY <2>1, <1>1 DEF Takers
  <2> QED BY <2>5, <2>6, <1>1, <1>5 DEF Pool!Take, Phases, Takers
<1>7. CASE worker' = worker
  <2>1. \A x \in Tasks : Held(x)' = Held(x)
    BY <1>7 DEF Held
  <2>2. \A x \in Tasks : x # t => Phase(x)' = Phase(x)
    BY <2>1, <1>2, <1>4, PhaseKept
  <2>3. Phase(t)' = "gone"
    BY <2>1, <1>2, <1>3, <1>4 DEF Phase, New, Pushing
  <2>4. Phases' = [Phases EXCEPT ![t] = "gone"]
    BY <2>2, <2>3, PhaseMoves
  <2> QED BY <2>4, <1>5, <1>7 DEF Pool!Withdraw, Phases
<1> QED BY <1>6, <1>7 DEF PopStep

\* A worker keeps its task until the last command, or the fault, that ends it.
LEMMA OwnStepLeaves ==
  ASSUME StoreAssumption, PoolInv, NEW w \in Workers, NEW t, OwnStep(w, t)
  PROVE  Pool!Leave(w) \/ UNCHANGED Pool!poolVars
<1>1. /\ t \in Tasks /\ worker[w].task = t /\ NoTask \notin Tasks /\ IInv
      /\ UNCHANGED <<ready, api>> /\ \A v \in Workers : v # w => worker'[v] = worker[v]
      /\ worker'[w].task = t \/ worker'[w] = IdleWorker
      /\ w \in Held(t)
  BY DEF OwnStep, OthersStay, RunStep, BlockStep, ErrorStep, Goes, StoreAssumption, PoolInv, Held
<1>2. ~InReady(t) /\ ~New(t) /\ ~Pushing(t) /\ status[t] # "none" /\ \A v \in Held(t) : v = w
  BY <1>1, NotNew DEF PoolInv, IInv, SingleCopy, NeverResent
<1>3. status'[t] # "none" /\ \A x \in Tasks : x # t => status'[x] = status[x]
  BY <1>1, <1>2 DEF OwnStep, OthersStay, RunStep, BlockStep, ErrorStep, Writes, Frees, Files, Same,
                    FinalStatus
<1>4. \A x \in Tasks : (InReady(x)' <=> InReady(x)) /\ (New(x)' <=> New(x))
  BY <1>1, <1>2, <1>3 DEF InReady, New, Pushing
<1>5. CASE worker'[w].task = t
  <2>1. \A x \in Tasks : Held(x)' = Held(x)
    BY <1>1, <1>5 DEF Held
  <2>2. \A x \in Tasks : Phase(x)' = Phase(x)
    BY <2>1, <1>4, PhaseKept
  <2> QED BY <2>2, <1>1, <1>5, PoolStutters
<1>6. CASE worker'[w] = IdleWorker
  <2>1. worker'[w].task = NoTask
    BY <1>6 DEF IdleWorker
  <2>2. Held(t)' = {} /\ \A x \in Tasks : x # t => Held(x)' = Held(x)
    BY <2>1, <1>1, <1>2 DEF Held
  <2>3. \A x \in Tasks : x # t => Phase(x)' = Phase(x)
    BY <2>2, <1>4, PhaseKept
  <2>4. ~InReady(t)' /\ ~New(t)'
    BY <1>1, <1>2, <1>4
  <2>5. Phase(t)' = "gone"
    BY <2>2, <2>4 DEF Phase, New, Pushing
  <2>6. Phases' = [Phases EXCEPT ![t] = "gone"]
    BY <2>3, <2>5, <1>1, PhaseMoves
  <2>7. Takers' = [Takers EXCEPT ![w] = NoTask]
    BY <2>1, <1>1 DEF Takers
  <2> QED BY <2>6, <2>7, <1>1 DEF Pool!Leave, Phases, Takers
<1> QED BY <1>1, <1>5, <1>6

-----------------------------------------------------------------------------
(* The refinement.                                                         *)

\* An empty queue is an empty pool.
LEMMA InitPool == ASSUME StoreAssumption, Init PROVE Pool!Init
<1>1. \A t \in Tasks : Held(t) = {} /\ ~InReady(t) /\ status[t] = "none"
  BY DEF Init, StoreInit, Held, InReady, IdleWorker, StoreAssumption
<1>2. \A t \in Tasks : Phase(t) = "new"
  BY <1>1 DEF Phase
<1>3. \A w \in Workers : worker[w].task = NoTask
  BY DEF Init, IdleWorker
<1> QED BY <1>2, <1>3 DEF Pool!Init

\* Every step of the queue is a step of the pool or a stutter.
LEMMA NextIsPoolNext ==
  ASSUME StoreAssumption, PoolInv, [Next]_vars
  PROVE  [Pool!Next]_Pool!poolVars
<1>1. ASSUME NEW a \in Handlers, HandlerStep(a), UNCHANGED workerVars
      PROVE  [Pool!Next]_Pool!poolVars
  BY <1>1, HandlerStutters, PushOffers, LostPushWithdraws, RemoveWithdraws DEF Pool!Next
<1>2. ASSUME NEW w \in Workers, WorkerStep(w) PROVE [Pool!Next]_Pool!poolVars
  BY <1>2, WorkerEffects, PopTakes, OwnStepLeaves DEF Pool!Next, PoolInv
<1>3. ASSUME UNCHANGED <<storeVars, worker>> PROVE UNCHANGED Pool!poolVars
  <2>1. \A t \in Tasks : Phase(t)' = Phase(t)
    BY <1>3 DEF storeVars, redisVars, Phase, Held, InReady
  <2> QED BY <2>1, <1>3, PoolStutters
<1> QED BY <1>1, <1>2, <1>3 DEF Next, StreamStep, PollBatch, PollTask, PollAgain, vars

\* With retry_on_timeout off, no LPUSH is ever sent twice.
LEMMA NextKeepsUnsent ==
  ASSUME ~RetryOnTimeout, NeverResent, [Next]_vars
  PROVE  NeverResent'
<1>1. ASSUME NEW a \in Handlers, HandlerStep(a) PROVE UNCHANGED resent
  BY <1>1 DEF HandlerStep, SubmitSingle, CreateBatch, ReadForCancel, Enqueue, CheckUserLimit,
         CheckGlobalLimit, SaveTask, PushReady, Push, JoinBatch, Cancel, UnmarkUser, UnmarkGlobal,
         ClearVisibility, RemoveReady, MarkCancelled, HandlerFault
<1>2. ASSUME NEW w \in Workers, WorkerStep(w) PROVE UNCHANGED resent
  BY <1>2 DEF WorkerStep, Process, Take, TakeLost, Start, Claim, Analyse, Conclude, RedisError,
              WorkerFault, storeVars
<1>3. ASSUME StreamStep PROVE UNCHANGED resent
  BY <1>3 DEF StreamStep, PollBatch, PollTask, PollAgain, storeVars
<1> QED BY <1>1, <1>2, <1>3 DEF Next, vars, storeVars, NeverResent

\* When the Redis client does not re-send an LPUSH, the queue delivers each task
\* at most once: whatever handlers, workers, cancels, crashes and lost replies
\* do, an id is offered once, taken by one worker and never comes back.
THEOREM DeliversAtMostOnce ==
  ASSUME ~RetryOnTimeout
  PROVE  Spec => ImplementsPool
<1>1. Init => Pool!Init
  BY InitPool, StoreAssumption
<1>2. Init => NeverResent
  BY DEF Init, StoreInit, NeverResent
<1>3. NeverResent /\ [Next]_vars => NeverResent'
  BY NextKeepsUnsent
<1>4. PoolInv /\ [Next]_vars => [Pool!Next]_Pool!poolVars
  BY NextIsPoolNext, StoreAssumption
<1>5. IInv /\ LedgerInv /\ NeverResent => PoolInv
  BY DEF PoolInv
<1> QED BY <1>1, <1>2, <1>3, <1>4, <1>5, Inductive, LedgerInductive, PTL
        DEF Spec, ImplementsPool, Pool!Spec

=============================================================================
