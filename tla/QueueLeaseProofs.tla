-------------------------- MODULE QueueLeaseProofs --------------------------
(***************************************************************************)
(* What holds of QueueLease for every number of users, tasks, batches,     *)
(* handlers and workers, and every visibility timeout:                     *)
(*                                                                         *)
(*   LeaseInductive     the invariant LeaseInv below is inductive;         *)
(*   LeaseTypes         type correctness;                                  *)
(*   OneTokenPerTask    SingleToken;                                       *)
(*   RedeliveryIsLate   NoEarlyRedelivery;                                 *)
(*   OvershootIsSmall   OvershootBounded.                                  *)
(*                                                                         *)
(* TokenOK(t) speaks of one task.  A step either leaves the token of t     *)
(* where it is (Spares(t)) or is about t itself, so every action has one   *)
(* lemma for its own task and shares the lemma for all the others.         *)
(***************************************************************************)
EXTENDS QueueLease, QueueStoreProofs

-----------------------------------------------------------------------------
(* The inductive invariant.                                                *)

Lease == [timeoutAt : Nat, expiresAt : Nat \cup {NoTTL}]
WorkerRecord == [pc : {"idle"} \cup PreLeasePc \cup LeasedPc,
                 task : Tasks \cup {NoTask}, timeoutAt : Nat, ok : BOOLEAN]
CleanerRecord == [pc : {"idle", "scan", "global", "clear", "push", "status"}, now : Nat,
                  keys : SUBSET Tasks, expired : SUBSET Tasks, task : Tasks \cup {NoTask}]

WorkerLocals == \A w \in Workers : worker[w].pc = "idle" => worker[w].task = NoTask

\* One expired task is handled after the other, and once.
CleanerLocals ==
  /\ cleaner.now <= clock
  /\ cleaner.pc \in {"global", "clear", "push", "status"} =>
       cleaner.keys = {} /\ cleaner.task \notin cleaner.expired

\* The visibility timeout that w was given for its task has run out.
Late(w) == worker[w].pc \in LeasedPc /\ clock > worker[w].timeoutAt

FoundExpired(t) ==
  \/ t \in cleaner.expired
  \/ cleaner.task = t /\ cleaner.pc \in {"global", "clear", "push"}

\* No consumer has seen the task.
Nowhere(t) == ~InReady(t) /\ Held(t) = {} /\ visibility[t] = NoLease /\ ~InCleaner(t)

Undelivered(t) ==
  \/ status[t] = "none"
  \/ \E a \in Handlers : api[a].pc = "push" /\ api[a].task = t

UnseenOK(t) == Undelivered(t) => Nowhere(t)

\* Where the one token of t may be, and who may still hold t by then.
TokenOK(t) ==
  t \notin resent =>
    /\ \A w1, w2 \in PreLease(t) : w1 = w2
    /\ InReady(t) => PreLease(t) = {}
    /\ visibility[t] # NoLease \/ InCleaner(t) => ~InReady(t) /\ PreLease(t) = {}
    /\ cleaner.pc = "push" /\ cleaner.task = t => visibility[t] = NoLease
    /\ InReady(t) \/ FoundExpired(t) => \A w \in Held(t) : Late(w)
    /\ \A w \in PreLease(t) : \A v \in Held(t) : v = w \/ Late(v)
    /\ visibility[t] # NoLease =>
         \A w \in Held(t) : Late(w) \/ worker[w].timeoutAt <= visibility[t].timeoutAt
    /\ \A w1, w2 \in Held(t) : w1 = w2 \/ Late(w1) \/ Late(w2)

CleanerKnows == cleaner.pc = "status" => status[cleaner.task] # "none"

LeaseInv ==
  /\ TypeOK /\ StoreInv /\ OnceEach /\ WorkerLocals /\ CleanerLocals /\ CleanerKnows
  /\ \A t \in Tasks : TokenOK(t) /\ UnseenOK(t)

-----------------------------------------------------------------------------
(* Type correctness.                                                       *)

\* A worker that goes to another command keeps its locals; the others keep all.
LEMMA MoveFacts ==
  ASSUME worker \in [Workers -> WorkerRecord], NEW w \in Workers, NEW from,
         NEW to \in {"idle"} \cup PreLeasePc \cup LeasedPc, Move(w, from, to)
  PROVE  /\ worker' \in [Workers -> WorkerRecord]
         /\ worker'[w].pc = to /\ worker'[w].task = worker[w].task
         /\ worker'[w].timeoutAt = worker[w].timeoutAt /\ worker'[w].ok = worker[w].ok
         /\ \A v \in Workers : v # w => worker'[v] = worker[v]
<1>1. worker' = [worker EXCEPT ![w] = [worker[w] EXCEPT !.pc = to]]
  BY DEF Move
<1>2. worker[w] \in WorkerRecord
  OBVIOUS
<1>3. /\ [worker[w] EXCEPT !.pc = to] \in WorkerRecord
      /\ [worker[w] EXCEPT !.pc = to].pc = to
      /\ [worker[w] EXCEPT !.pc = to].task = worker[w].task
      /\ [worker[w] EXCEPT !.pc = to].timeoutAt = worker[w].timeoutAt
      /\ [worker[w] EXCEPT !.pc = to].ok = worker[w].ok
  BY <1>2 DEF WorkerRecord
<1> QED BY <1>1, <1>3

\* A worker that drops its task is idle; the others keep all.
LEMMA DropFacts ==
  ASSUME worker \in [Workers -> WorkerRecord], NEW w \in Workers,
         worker' = [worker EXCEPT ![w] = IdleWorker]
  PROVE  /\ worker' \in [Workers -> WorkerRecord]
         /\ worker'[w] = IdleWorker
         /\ \A v \in Workers : v # w => worker'[v] = worker[v]
BY DEF IdleWorker, WorkerRecord

\* What a command of worker w may do to the worker.
WorkerMoves(w) ==
  /\ worker' \in [Workers -> WorkerRecord]
  /\ \A v \in Workers : v # w => worker'[v] = worker[v]
  /\ \/ worker'[w] = IdleWorker
     \/ worker'[w].pc # "idle" /\ worker'[w].task \in Tasks

\* Every command of a worker leaves it idle or with a task.
LEMMA WorkerMovesOn ==
  ASSUME StoreAssumption, LeaseAssumption, TypeOK, NEW w \in Workers,
         Dequeue(w) \/ Ack(w) \/ WorkerFault(w)
  PROVE  WorkerMoves(w)
<1> USE DEF PreLeasePc, LeasedPc
<1>1. /\ worker \in [Workers -> WorkerRecord] /\ worker[w] \in WorkerRecord
      /\ worker[w].pc # "idle" => worker[w].task \in Tasks
      /\ clock \in Nat
  BY DEF TypeOK, WorkerRecord, LeaseAssumption
<1>2. ASSUME NEW from, from # "idle", NEW to \in PreLeasePc \cup LeasedPc, Move(w, from, to)
      PROVE  WorkerMoves(w)
  <2>1. worker[w].pc = from
    BY <1>2 DEF Move
  <2> QED BY <2>1, <1>1, <1>2, MoveFacts DEF WorkerMoves
<1>3. ASSUME worker' = [worker EXCEPT ![w] = IdleWorker] PROVE WorkerMoves(w)
  BY <1>1, <1>3, DropFacts DEF WorkerMoves
<1>4. CASE PopTask(w)
  <2> DEFINE new == [IdleWorker EXCEPT !.pc = "check", !.task = ready[Len(ready)]]
  <2>1. ready[Len(ready)] \in Tasks
    BY <1>4 DEF PopTask, TypeOK, StoreTypeOK
  <2>2. new \in WorkerRecord /\ new.pc = "check" /\ new.task \in Tasks
    BY <2>1 DEF WorkerRecord, IdleWorker
  <2>3. worker' = [worker EXCEPT ![w] = new]
    BY <1>4 DEF PopTask
  <2> HIDE DEF new
  <2> QED BY <2>2, <2>3, <1>1 DEF WorkerMoves
<1>5. CASE Recheck(w)
  <2>1. Move(w, "check", "markUser") \/ Move(w, "check", "pushBack")
    BY <1>5 DEF Recheck, Move
  <2> QED BY <2>1, <1>2
<1>6. CASE PushBack(w)
  BY <1>6, <1>3 DEF PushBack
<1>7. CASE MarkUser(w) \/ WriteLease(w) \/ ExpireLease(w) \/ SetProcessing(w)
  BY <1>7, <1>2 DEF MarkUser, WriteLease, ExpireLease, SetProcessing
<1>8. CASE MarkGlobal(w)
  <2> DEFINE new == [worker[w] EXCEPT !.pc = "lease", !.timeoutAt = clock + VisibilityTimeout]
  <2>1. worker' = [worker EXCEPT ![w] = new] /\ worker[w].pc # "idle"
    BY <1>8, <1>1 DEF MarkGlobal
  <2>2. clock + VisibilityTimeout \in Nat
    BY <1>1 DEF LeaseAssumption
  <2>3. new \in WorkerRecord /\ new.pc = "lease" /\ new.task = worker[w].task
    BY <2>2, <1>1 DEF WorkerRecord
  <2> HIDE DEF new
  <2> QED BY <2>1, <2>3, <1>1 DEF WorkerMoves
<1>9. CASE AckUser(w)
  <2>1. PICK ok \in BOOLEAN : worker' = [worker EXCEPT ![w] = [worker[w] EXCEPT !.pc = "ackGlobal",
                                                                              !.ok = ok]]
    BY <1>9, <1>1 DEF AckUser
  <2> DEFINE new == [worker[w] EXCEPT !.pc = "ackGlobal", !.ok = ok]
  <2>2. new \in WorkerRecord /\ new.pc = "ackGlobal" /\ new.task = worker[w].task
    BY <1>1 DEF WorkerRecord
  <2>3. worker[w].pc # "idle" /\ worker' = [worker EXCEPT ![w] = new]
    BY <2>1, <1>9 DEF AckUser
  <2> HIDE DEF new
  <2> QED BY <2>2, <2>3, <1>1 DEF WorkerMoves
<1>10. CASE AckGlobal(w) \/ AckClear(w) \/ AckStatus(w)
  BY <1>10, <1>2 DEF AckGlobal, AckClear, AckStatus
<1>11. CASE AckIndex(w) \/ WorkerFault(w)
  BY <1>11, <1>3 DEF AckIndex, WorkerFault
<1> QED
  BY <1>4, <1>5, <1>6, <1>7, <1>8, <1>9, <1>10, <1>11 DEF Dequeue, Ack

\* The parts of the type invariant that a consumer's step may touch.
ConsumerTypes ==
  /\ ready' \in Seq(Tasks) /\ status' \in [Tasks -> Status]
  /\ processing' \subseteq Tasks /\ completed' \subseteq Tasks /\ failed' \subseteq Tasks
  /\ userProcessing' \in [Users -> SUBSET Tasks]
  /\ visibility' \in [Tasks -> Lease \cup {NoLease}]
  /\ faults' \in 0..MaxFaults /\ resent' \subseteq Tasks
  /\ UNCHANGED <<submitted, batchTasks, known, told, api>>

\* Every command of a worker keeps the types.
LEMMA WorkerTypes ==
  ASSUME StoreAssumption, LeaseAssumption, TypeOK, WorkerLocals, NEW w \in Workers,
         Dequeue(w) \/ Ack(w) \/ WorkerFault(w)
  PROVE  TypeOK' /\ WorkerLocals'
<1>1. WorkerMoves(w)
  BY WorkerMovesOn
<1>2. UNCHANGED <<cleaner, clock>>
  BY DEF Dequeue, Ack, WorkerFault, PopTask, Recheck, PushBack, MarkUser, MarkGlobal, WriteLease,
         ExpireLease, SetProcessing, AckUser, AckGlobal, AckClear, AckStatus, AckIndex
<1>3. ConsumerTypes
  <2> USE DEF ConsumerTypes, KeepStore, KeepFaults, KeepSets, storeVars, redisVars, PreLeasePc,
              LeasedPc
  <2>1. /\ ready \in Seq(Tasks) /\ status \in [Tasks -> Status]
        /\ processing \subseteq Tasks /\ completed \subseteq Tasks /\ failed \subseteq Tasks
        /\ userProcessing \in [Users -> SUBSET Tasks]
        /\ visibility \in [Tasks -> Lease \cup {NoLease}]
        /\ faults \in 0..MaxFaults /\ resent \subseteq Tasks
        /\ worker \in [Workers -> WorkerRecord] /\ worker[w] \in WorkerRecord
        /\ worker[w].pc # "idle" => worker[w].task \in Tasks
        /\ clock \in Nat
        /\ StoreTypeOK
    BY DEF TypeOK, StoreTypeOK, WorkerRecord, Lease, LeaseAssumption
  <2>2. CASE PopTask(w)
    BY <2>1, <2>2 DEF PopTask
  <2>3. CASE Recheck(w)
    BY <2>1, <2>3 DEF Recheck
  <2>4. CASE PushBack(w)
    <3>1. ready' \in Seq(Tasks) /\ faults' \in 0..MaxFaults /\ resent' \subseteq Tasks
      BY <2>1, <2>4, PushType DEF PushBack
    <3> QED BY <3>1, <2>1, <2>4 DEF PushBack
  <2>5. CASE MarkUser(w)
    BY <2>1, <2>5 DEF MarkUser, Move
  <2>6. CASE MarkGlobal(w)
    BY <2>1, <2>6 DEF MarkGlobal
  <2>7. CASE WriteLease(w)
    <3> DEFINE t == worker[w].task
               new == [timeoutAt |-> worker[w].timeoutAt,
                       expiresAt |-> IF visibility[t] = NoLease THEN NoTTL
                                     ELSE visibility[t].expiresAt]
    <3>1. t \in Tasks /\ visibility' = [visibility EXCEPT ![t] = new]
      BY <2>1, <2>7 DEF WriteLease, Move
    <3>2. new \in Lease
      BY <2>1, <3>1 DEF Lease, WorkerRecord
    <3>3. visibility' \in [Tasks -> Lease \cup {NoLease}]
      BY <3>1, <3>2, <2>1
    <3> QED BY <3>3, <2>1, <2>7 DEF WriteLease
  <2>8. CASE ExpireLease(w)
    <3> DEFINE t == worker[w].task
               new == [visibility[t] EXCEPT !.expiresAt = clock + VisibilityTimeout]
    <3>1. /\ t \in Tasks
          /\ \/ UNCHANGED visibility
             \/ visibility[t] # NoLease /\ visibility' = [visibility EXCEPT ![t] = new]
      BY <2>1, <2>8 DEF ExpireLease, Move
    <3>2. clock + VisibilityTimeout \in Nat
      BY <2>1 DEF LeaseAssumption
    <3>3. visibility[t] # NoLease => new \in Lease
      BY <3>1, <3>2, <2>1 DEF Lease
    <3>4. visibility' \in [Tasks -> Lease \cup {NoLease}]
      BY <3>1, <3>3, <2>1
    <3> QED BY <3>4, <2>1, <2>8 DEF ExpireLease
  <2>9. CASE SetProcessing(w)
    BY <2>1, <2>9 DEF SetProcessing, Move, Status
  <2>10. CASE AckUser(w)
    BY <2>1, <2>10 DEF AckUser
  <2>11. CASE AckGlobal(w)
    BY <2>1, <2>11 DEF AckGlobal
  <2>12. CASE AckClear(w)
    BY <2>1, <2>12 DEF AckClear
  <2>13. CASE AckStatus(w)
    BY <2>1, <2>13 DEF AckStatus, Move, Status
  <2>14. CASE AckIndex(w)
    BY <2>1, <2>14 DEF AckIndex
  <2>15. CASE WorkerFault(w)
    BY <2>1, <2>15 DEF WorkerFault, StoreAssumption
  <2> QED
    BY <2>2, <2>3, <2>4, <2>5, <2>6, <2>7, <2>8, <2>9, <2>10, <2>11, <2>12, <2>13, <2>14, <2>15
       DEF Dequeue, Ack
<1>4. StoreTypeOK'
  BY <1>3 DEF ConsumerTypes, TypeOK, StoreTypeOK
<1>5. \A v \in Workers : (worker'[v].pc # "idle" => worker'[v].task \in Tasks)
                         /\ (worker'[v].pc = "idle" => worker'[v].task = NoTask)
  BY <1>1 DEF WorkerMoves, TypeOK, WorkerLocals, IdleWorker
<1> QED BY <1>1, <1>2, <1>3, <1>4, <1>5 DEF ConsumerTypes, WorkerMoves, TypeOK, WorkerLocals, WorkerRecord, Lease

\* What a command of the cleaner may do to the cleaner.
CleanerMoves ==
  /\ cleaner' \in CleanerRecord
  /\ cleaner'.pc \in {"global", "clear", "push", "status"} => cleaner'.task \in Tasks

\* Every command of the cleaner leaves it with one task at most, and none twice.
LEMMA CleanerMovesOn ==
  ASSUME StoreAssumption, LeaseAssumption, TypeOK, CleanerLocals, UNCHANGED clock,
         Cleanup \/ CleanerFault
  PROVE  CleanerMoves /\ CleanerLocals'
<1>1. /\ cleaner \in CleanerRecord /\ clock \in Nat /\ cleaner.now <= clock
      /\ cleaner.pc \in {"global", "clear", "push", "status"} =>
           /\ cleaner.task \in Tasks
           /\ cleaner.keys = {} /\ cleaner.task \notin cleaner.expired
  BY DEF TypeOK, CleanerRecord, CleanerLocals, LeaseAssumption
<1>2. IdleCleaner \in CleanerRecord /\ IdleCleaner.pc = "idle" /\ IdleCleaner.now = 0
  BY DEF IdleCleaner, CleanerRecord
<1> USE DEF CleanerMoves, CleanerLocals, CleanerRecord
<1>3. CASE ScanLeases
  <2> DEFINE K == {t \in Tasks : visibility[t] # NoLease}
  <2>1. cleaner' = [pc |-> "scan", now |-> clock, keys |-> K, expired |-> {}, task |-> NoTask]
    BY <1>3 DEF ScanLeases, IdleCleaner
  <2> QED BY <2>1, <1>1
<1>4. ASSUME NEW t \in Tasks, ReadLease(t) PROVE CleanerMoves /\ CleanerLocals'
  <2>1. PICK E \in SUBSET Tasks :
          cleaner' = [cleaner EXCEPT !.keys = cleaner.keys \ {t}, !.expired = E]
    BY <1>1, <1>4 DEF ReadLease
  <2> QED BY <2>1, <1>1, <1>4 DEF ReadLease
<1>5. CASE ScanDone \/ CleanerFault
  BY <1>1, <1>2, <1>5 DEF ScanDone, CleanerFault
<1>6. ASSUME NEW t \in Tasks, RequeueUser(t) PROVE CleanerMoves /\ CleanerLocals'
  BY <1>1, <1>6 DEF RequeueUser
<1>7. CASE RequeueGlobal
  BY <1>1, <1>7 DEF RequeueGlobal, CleanerMove
<1>8. CASE RequeueClear
  BY <1>1, <1>8 DEF RequeueClear, CleanerMove
<1>9. CASE RequeuePush
  BY <1>1, <1>9 DEF RequeuePush, CleanerMove
<1>10. CASE RequeueStatus
  BY <1>1, <1>10 DEF RequeueStatus
<1> QED
  BY <1>3, <1>4, <1>5, <1>6, <1>7, <1>8, <1>9, <1>10 DEF Cleanup

\* Every command of the cleaner keeps the types.
LEMMA CleanerTypes ==
  ASSUME StoreAssumption, LeaseAssumption, TypeOK, WorkerLocals, CleanerLocals,
         Cleanup \/ CleanerFault
  PROVE  TypeOK' /\ WorkerLocals' /\ CleanerLocals'
<1>1. UNCHANGED <<worker, clock>>
  BY DEF Cleanup, CleanerFault, ScanLeases, ReadLease, ScanDone, RequeueUser, RequeueGlobal,
         RequeueClear, RequeuePush, RequeueStatus
<1>2. CleanerMoves /\ CleanerLocals'
  BY <1>1, CleanerMovesOn
<1>3. ConsumerTypes
  <2> USE DEF ConsumerTypes, KeepStore, KeepFaults, KeepSets, storeVars, redisVars, CleanerMove
  <2>1. /\ ready \in Seq(Tasks) /\ status \in [Tasks -> Status]
        /\ processing \subseteq Tasks /\ completed \subseteq Tasks /\ failed \subseteq Tasks
        /\ userProcessing \in [Users -> SUBSET Tasks]
        /\ visibility \in [Tasks -> Lease \cup {NoLease}]
        /\ faults \in 0..MaxFaults /\ resent \subseteq Tasks
        /\ cleaner.pc \in {"global", "clear", "push", "status"} => cleaner.task \in Tasks
        /\ StoreTypeOK
    BY DEF TypeOK, StoreTypeOK, Lease
  <2>2. CASE ScanLeases \/ ScanDone \/ \E t \in Tasks : ReadLease(t)
    BY <2>1, <2>2 DEF ScanLeases, ScanDone, ReadLease
  <2>3. ASSUME NEW t \in Tasks, RequeueUser(t) PROVE ConsumerTypes
    BY <2>1, <2>3 DEF RequeueUser
  <2>4. CASE RequeueGlobal
    BY <2>1, <2>4 DEF RequeueGlobal
  <2>5. CASE RequeueClear
    BY <2>1, <2>5 DEF RequeueClear
  <2>6. CASE RequeuePush
    <3>1. ready' \in Seq(Tasks) /\ faults' \in 0..MaxFaults /\ resent' \subseteq Tasks
      BY <2>1, <2>6, PushType DEF RequeuePush
    <3> QED BY <3>1, <2>1, <2>6 DEF RequeuePush
  <2>7. CASE RequeueStatus
    BY <2>1, <2>7 DEF RequeueStatus, Status
  <2>8. CASE CleanerFault
    BY <2>1, <2>8 DEF CleanerFault, StoreAssumption
  <2> QED
    BY <2>2, <2>3, <2>4, <2>5, <2>6, <2>7, <2>8 DEF Cleanup
<1>4. StoreTypeOK'
  BY <1>3 DEF ConsumerTypes, TypeOK, StoreTypeOK
<1>5. WorkerLocals'
  BY <1>1 DEF WorkerLocals
<1> QED
  BY <1>1, <1>2, <1>3, <1>4, <1>5 DEF ConsumerTypes, CleanerMoves, TypeOK, CleanerRecord, Lease

\* Every command of a request handler keeps the types.
LEMMA RequestTypes ==
  ASSUME StoreAssumption, TypeOK, WorkerLocals, CleanerLocals, HandlerLocals,
         NEW a \in Handlers, HandlerStep(a), UNCHANGED leaseVars
  PROVE  TypeOK' /\ WorkerLocals' /\ CleanerLocals'
<1>1. StoreTypeOK'
  BY HandlerTypes DEF TypeOK
<1>2. visibility' = visibility \/ \E t \in Tasks : visibility' = [visibility EXCEPT ![t] = NoLease]
  BY DEF HandlerStep, Enqueue, Cancel, SubmitSingle, CreateBatch, ReadForCancel, CheckUserLimit,
         CheckGlobalLimit, SaveTask, PushReady, JoinBatch, UnmarkUser, UnmarkGlobal,
         ClearVisibility, RemoveReady, MarkCancelled, HandlerFault, redisVars, HandlerLocals,
         LocalsOf
<1>3. visibility' \in [Tasks -> Lease \cup {NoLease}]
  BY <1>2 DEF TypeOK, Lease
<1> QED BY <1>1, <1>3 DEF TypeOK, Lease, leaseVars, WorkerLocals, CleanerLocals

\* Time and Redis's expiry keep the types.
LEMMA ClockTypes ==
  ASSUME StoreAssumption, LeaseAssumption, TypeOK, WorkerLocals, CleanerLocals,
         Tick \/ \E t \in Tasks : DropKey(t)
  PROVE  TypeOK' /\ WorkerLocals' /\ CleanerLocals'
<1>1. CASE Tick
  <2>1. clock' \in 0..MaxClock /\ clock' = clock + 1 /\ UNCHANGED <<storeVars, worker, cleaner>>
    BY <1>1 DEF Tick, TypeOK, LeaseAssumption
  <2>2. cleaner'.now <= clock'
    BY <2>1 DEF TypeOK, CleanerLocals, LeaseAssumption
  <2> QED BY <2>1, <2>2 DEF TypeOK, StoreTypeOK, storeVars, redisVars, WorkerLocals, CleanerLocals
<1>2. ASSUME NEW t \in Tasks, DropKey(t) PROVE TypeOK' /\ WorkerLocals' /\ CleanerLocals'
  <2>1. visibility' \in [Tasks -> Lease \cup {NoLease}]
    BY <1>2 DEF DropKey, TypeOK, Lease
  <2> QED BY <2>1, <1>2 DEF DropKey, KeepSets, KeepStore, KeepFaults, TypeOK, StoreTypeOK, Lease,
                          WorkerLocals, CleanerLocals
<1> QED BY <1>1, <1>2

-----------------------------------------------------------------------------
(* Steps that move the token of a task nowhere.                            *)

ToLeasePc == PreLeasePc \cup {"lease"}

\* Nobody new has t, its list entry, its lease and its place with the cleaner are
\* what they were or gone.
Spares(t) ==
  /\ resent \subseteq resent'
  /\ InReady(t)' => InReady(t)
  /\ \A w \in Workers : worker'[w].task = t =>
       /\ worker[w].task = t
       /\ worker'[w].pc \in ToLeasePc => worker[w].pc \in ToLeasePc
       /\ Late(w) => Late(w)'
       /\ worker'[w].timeoutAt = worker[w].timeoutAt \/ worker'[w].pc \in ToLeasePc
  /\ \/ visibility'[t] = NoLease
     \/ visibility[t] # NoLease /\ visibility'[t].timeoutAt = visibility[t].timeoutAt
  /\ InCleaner(t)' => InCleaner(t) \/ visibility[t] # NoLease
  /\ FoundExpired(t)' => FoundExpired(t) \/ (t \notin resent => \A w \in Held(t) : Late(w))
  /\ cleaner'.pc = "push" /\ cleaner'.task = t =>
       visibility'[t] = NoLease \/ (cleaner.pc = "push" /\ cleaner.task = t)

\* A step that spares t keeps its token single and its holders late.
LEMMA SparesToken ==
  ASSUME NEW t \in Tasks, TokenOK(t), Spares(t)
  PROVE  TokenOK(t)'
<1> SUFFICES ASSUME t \notin resent' PROVE TokenOK(t)'
  BY DEF TokenOK
<1>1. t \notin resent
  BY DEF Spares
<1>2. \A w \in Held(t)' : w \in Held(t) /\ (Late(w) => Late(w)')
  BY DEF Held, Spares
<1>3. \A w \in PreLease(t)' : w \in PreLease(t) /\ w \in Held(t)'
  BY DEF PreLease, Held, Spares, ToLeasePc
<1>4. \A w1, w2 \in PreLease(t) : w1 = w2
  BY <1>1 DEF TokenOK
<1>5. InReady(t)' => InReady(t) /\ PreLease(t) = {} /\ PreLease(t)' = {}
  BY <1>1, <1>3 DEF TokenOK, Spares
<1>6. visibility'[t] # NoLease \/ InCleaner(t)' =>
        (visibility[t] # NoLease \/ InCleaner(t)) /\ ~InReady(t) /\ PreLease(t) = {}
  BY <1>1 DEF TokenOK, Spares
<1>7. cleaner'.pc = "push" /\ cleaner'.task = t => visibility'[t] = NoLease
  BY <1>1 DEF TokenOK, Spares
<1>8. InReady(t)' \/ FoundExpired(t)' => \A w \in Held(t) : Late(w)
  BY <1>1, <1>5 DEF TokenOK, Spares
<1>9. \A w \in PreLease(t)' : \A v \in Held(t)' : v = w \/ Late(v)'
  <2>1. \A w \in PreLease(t) : \A v \in Held(t) : v = w \/ Late(v)
    BY <1>1 DEF TokenOK
  <2> QED BY <2>1, <1>2, <1>3
<1>10. ASSUME visibility'[t] # NoLease, NEW w \in Held(t)'
       PROVE  Late(w)' \/ worker'[w].timeoutAt <= visibility'[t].timeoutAt
  <2>1. /\ visibility[t] # NoLease /\ visibility'[t].timeoutAt = visibility[t].timeoutAt
        /\ PreLease(t) = {} /\ w \in Held(t)
    BY <1>1, <1>2, <1>10 DEF TokenOK, Spares
  <2>2. worker'[w].pc \notin ToLeasePc
    BY <2>1, <1>3, <1>10 DEF PreLease, ToLeasePc
  <2>3. worker'[w].timeoutAt = worker[w].timeoutAt
    BY <2>2, <1>10 DEF Spares, Held
  <2>4. Late(w) \/ worker[w].timeoutAt <= visibility[t].timeoutAt
    BY <2>1, <1>1 DEF TokenOK
  <2> QED BY <2>1, <2>3, <2>4, <1>2, <1>10
<1>11. \A w1, w2 \in Held(t)' : w1 = w2 \/ Late(w1)' \/ Late(w2)'
  <2>1. \A w1, w2 \in Held(t) : w1 = w2 \/ Late(w1) \/ Late(w2)
    BY <1>1 DEF TokenOK
  <2> QED BY <2>1, <1>2
<1>12. visibility'[t] # NoLease \/ InCleaner(t)' => ~InReady(t)' /\ PreLease(t)' = {}
  BY <1>3, <1>5, <1>6
<1> QED BY <1>2, <1>3, <1>4, <1>5, <1>7, <1>8, <1>9, <1>10, <1>11, <1>12 DEF TokenOK

\* A task no consumer has seen stays so.
LEMMA SparesUnseen ==
  ASSUME NEW t \in Tasks, UnseenOK(t), Spares(t), Undelivered(t)' => Undelivered(t)
  PROVE  UnseenOK(t)'
<1>1. Nowhere(t) => Nowhere(t)'
  BY DEF Nowhere, Spares, Held
<1> QED BY <1>1 DEF UnseenOK

\* A task that a consumer has seen, and whose hash exists, cannot become unseen.
LEMMA SeenStays ==
  ASSUME NEW t \in Tasks, UnseenOK(t), ~Nowhere(t), Undelivered(t)' => Undelivered(t)
  PROVE  UnseenOK(t)'
BY DEF UnseenOK

\* A task that has just been pushed, and is nowhere else but with late holders.
LEMMA PushedToken ==
  ASSUME NEW t \in Tasks, PreLease(t)' = {}, visibility'[t] = NoLease, ~InCleaner(t)',
         \A w \in Held(t)' : Late(w)'
  PROVE  TokenOK(t)'
<1>1. ~FoundExpired(t)' /\ ~(cleaner'.pc = "push" /\ cleaner'.task = t)
  BY DEF FoundExpired, InCleaner
<1> QED BY <1>1 DEF TokenOK

-----------------------------------------------------------------------------
(* Commands of a worker.                                                   *)

\* What all commands of worker w have in common.
OnOwn(w) ==
  /\ worker[w].task \in Tasks
  /\ worker'[w].task \in {worker[w].task, NoTask}
  /\ \A v \in Workers : v # w => worker'[v] = worker[v]
  /\ \A x \in Tasks : x # worker[w].task => visibility'[x] = visibility[x] /\ status'[x] = status[x]
  /\ \A x \in Tasks : status[x] # "none" => status'[x] # "none"
  /\ UNCHANGED <<told, api, batchTasks, cleaner, clock>>

\* A command of w on its task spares every other task that it does not push.
LEMMA OnOwnSpares ==
  ASSUME NEW w \in Workers, OnOwn(w), NoTask \notin Tasks, resent \subseteq resent',
         NEW x \in Tasks, x # worker[w].task, InReady(x)' => InReady(x)
  PROVE  Spares(x)
<1>1. \A v \in Workers : worker'[v].task = x => v # w /\ worker'[v] = worker[v] /\ (Late(v) => Late(v)')
  BY DEF OnOwn, Late
<1>2. (InCleaner(x)' <=> InCleaner(x)) /\ (FoundExpired(x)' <=> FoundExpired(x))
  BY DEF OnOwn, InCleaner, FoundExpired
<1>3. visibility'[x] = visibility[x] /\ cleaner' = cleaner
  BY DEF OnOwn
<1> QED BY <1>1, <1>2, <1>3 DEF Spares

\* The commands of w that neither push nor pop nor write a lease.
QuietOwn(w) ==
  /\ OnOwn(w) /\ UNCHANGED <<ready, resent>>
  /\ \/ worker'[w].task = NoTask
     \/ /\ worker'[w].pc \in ToLeasePc => worker[w].pc \in ToLeasePc
        /\ worker[w].pc \in LeasedPc =>
             worker'[w].pc \in LeasedPc /\ worker'[w].timeoutAt = worker[w].timeoutAt
        /\ worker'[w].timeoutAt = worker[w].timeoutAt \/ worker'[w].pc \in ToLeasePc
  /\ LET t == worker[w].task IN
     \/ visibility'[t] = NoLease
     \/ visibility[t] # NoLease /\ visibility'[t].timeoutAt = visibility[t].timeoutAt

\* A quiet command spares all tasks.
LEMMA QuietOwnSpares ==
  ASSUME NEW w \in Workers, QuietOwn(w), NoTask \notin Tasks, NEW x \in Tasks
  PROVE  Spares(x)
<1>1. InReady(x)' <=> InReady(x)
  BY DEF InReady, QuietOwn
<1>2. CASE x # worker[w].task
  BY <1>1, <1>2, OnOwnSpares DEF QuietOwn
<1>3. CASE x = worker[w].task
  <2>1. \A v \in Workers : v # w => worker'[v] = worker[v] /\ (Late(v) => Late(v)')
    BY DEF QuietOwn, OnOwn, Late
  <2>2. worker'[w].task = x =>
          /\ worker[w].task = x
          /\ worker'[w].pc \in ToLeasePc => worker[w].pc \in ToLeasePc
          /\ Late(w) => Late(w)'
          /\ worker'[w].timeoutAt = worker[w].timeoutAt \/ worker'[w].pc \in ToLeasePc
    BY <1>3 DEF QuietOwn, OnOwn, Late
  <2>3. (InCleaner(x)' <=> InCleaner(x)) /\ (FoundExpired(x)' <=> FoundExpired(x))
    BY DEF QuietOwn, OnOwn, InCleaner, FoundExpired
  <2>4. \/ visibility'[x] = NoLease
        \/ visibility[x] # NoLease /\ visibility'[x].timeoutAt = visibility[x].timeoutAt
    BY <1>3 DEF QuietOwn
  <2>5. cleaner' = cleaner /\ resent' = resent
    BY DEF QuietOwn, OnOwn
  <2> QED BY <2>1, <2>2, <2>3, <2>4, <2>5, <1>1 DEF Spares
<1> QED BY <1>2, <1>3

\* What is left to show when the types are known to be kept.
TokensKept == OnceEach' /\ CleanerKnows' /\ StoreInv' /\ \A t \in Tasks : TokenOK(t)' /\ UnseenOK(t)'

\* The parts of the invariant that no command of a worker disturbs.
LEMMA OnOwnKeeps ==
  ASSUME LeaseInv, NEW w \in Workers, OnOwn(w), StoreTypeOK'
  PROVE  /\ StoreInv' /\ CleanerKnows'
         /\ \A t \in Tasks : Undelivered(t)' => Undelivered(t)
<1>1. w \in Held(worker[w].task) /\ worker[w].task \in Tasks
  BY DEF Held, OnOwn
<1>2. status[worker[w].task] # "none"
  BY <1>1 DEF LeaseInv, UnseenOK, Undelivered, Nowhere
<1>3. \A t \in Tasks : status[t] = "none" => status'[t] = "none"
  BY <1>2 DEF OnOwn
<1>4. StoreInv'
  BY <1>3, ConsumerKeepsStore DEF LeaseInv, OnOwn
<1>5. CleanerKnows'
  BY DEF LeaseInv, TypeOK, CleanerKnows, OnOwn
<1>6. \A t \in Tasks : Undelivered(t)' => Undelivered(t)
  BY DEF Undelivered, OnOwn
<1> QED BY <1>4, <1>5, <1>6

\* A quiet command keeps the tokens.
LEMMA QuietOwnKeeps ==
  ASSUME LeaseInv, NEW w \in Workers, QuietOwn(w), StoreTypeOK', NoTask \notin Tasks
  PROVE  TokensKept
<1>1. /\ StoreInv' /\ CleanerKnows' /\ \A t \in Tasks : Undelivered(t)' => Undelivered(t)
  BY OnOwnKeeps DEF QuietOwn
<1>2. \A t \in Tasks : Spares(t)
  BY QuietOwnSpares
<1>3. \A t \in Tasks : TokenOK(t)' /\ UnseenOK(t)'
  BY <1>1, <1>2, SparesToken, SparesUnseen DEF LeaseInv
<1>4. OnceEach'
  BY DEF LeaseInv, OnceEach, QuietOwn
<1> QED BY <1>1, <1>3, <1>4 DEF TokensKept

\* RPOP takes the last position; it held the only copy of an id not sent again.
LEMMA PopKeepsOnce ==
  ASSUME ready \in Seq(Tasks), OnceEach, ready # <<>>,
         ready' = SubSeq(ready, 1, Len(ready) - 1), resent' = resent
  PROVE  /\ ready[Len(ready)] \in Tasks /\ InReady(ready[Len(ready)])
         /\ \A x \in Tasks : InReady(x)' => InReady(x)
         /\ \A x \in Tasks \ resent : x = ready[Len(ready)] => ~InReady(x)'
         /\ OnceEach'
<1>1. /\ Len(ready) \in Nat /\ Len(ready) >= 1 /\ DOMAIN ready = 1..Len(ready)
      /\ ready[Len(ready)] \in Tasks
  OBVIOUS
<1>2. DOMAIN ready' = 1..(Len(ready) - 1) /\ \A i \in 1..(Len(ready) - 1) : ready'[i] = ready[i]
  OBVIOUS
<1>3. InReady(ready[Len(ready)])
  BY <1>1 DEF InReady
<1>4. \A x \in Tasks : InReady(x)' => InReady(x)
  BY <1>1, <1>2 DEF InReady
<1>5. ASSUME NEW x \in Tasks \ resent, x = ready[Len(ready)], InReady(x)' PROVE FALSE
  <2>1. PICK i \in 1..(Len(ready) - 1) : ready[i] = x
    BY <1>2, <1>5 DEF InReady
  <2>2. i \in DOMAIN ready /\ Len(ready) \in DOMAIN ready
    BY <1>1
  <2>3. i = Len(ready)
    BY <2>1, <2>2, <1>5 DEF OnceEach
  <2> QED BY <2>1, <2>3, <1>1
<1>6. OnceEach'
  BY <1>1, <1>2 DEF OnceEach
<1> QED BY <1>1, <1>3, <1>4, <1>5, <1>6

\* The commands of a worker that are quiet.
QuietCommand(w) ==
  \/ Recheck(w) \/ MarkUser(w) \/ MarkGlobal(w) \/ ExpireLease(w) \/ SetProcessing(w)
  \/ Ack(w) \/ WorkerFault(w)

\* Each of them is.
LEMMA QuietCommands ==
  ASSUME StoreAssumption, LeaseInv, NEW w \in Workers, QuietCommand(w)
  PROVE  QuietOwn(w)
<1> USE DEF PreLeasePc, LeasedPc, ToLeasePc, KeepStore, KeepFaults, KeepSets, storeVars, redisVars
<1>1. /\ worker \in [Workers -> WorkerRecord] /\ worker[w] \in WorkerRecord
      /\ worker[w].pc # "idle" => worker[w].task \in Tasks
      /\ status \in [Tasks -> Status] /\ visibility \in [Tasks -> Lease \cup {NoLease}]
      /\ NoTask \notin Tasks
  BY DEF LeaseInv, TypeOK, StoreTypeOK, WorkerRecord, Lease, StoreAssumption
<1>2. ASSUME NEW from \in {"check", "markUser", "expire", "status", "busy", "ackGlobal", "ackClear",
                           "ackStatus"},
             NEW to \in {"pushBack", "markUser", "markGlobal", "status", "busy", "ackClear",
                         "ackStatus", "ackIndex"},
             from \in {"check", "markUser"} <=> to \in {"pushBack", "markUser", "markGlobal"},
             Move(w, from, to)
      PROVE  /\ worker[w].task \in Tasks /\ worker'[w].task = worker[w].task
             /\ \A v \in Workers : v # w => worker'[v] = worker[v]
             /\ worker'[w].pc = to /\ worker[w].pc = from
             /\ worker'[w].timeoutAt = worker[w].timeoutAt
  BY <1>1, <1>2, MoveFacts DEF Move
<1>3. ASSUME worker' = [worker EXCEPT ![w] = IdleWorker]
      PROVE  worker'[w].task = NoTask /\ \A v \in Workers : v # w => worker'[v] = worker[v]
  BY <1>1, <1>3, DropFacts DEF IdleWorker
<1> USE DEF QuietOwn, OnOwn
<1>4. CASE Recheck(w)
  <2>1. Move(w, "check", "markUser") \/ Move(w, "check", "pushBack")
    BY <1>4 DEF Recheck, Move
  <2>2. /\ worker[w].task \in Tasks /\ worker'[w].task = worker[w].task
        /\ \A v \in Workers : v # w => worker'[v] = worker[v]
        /\ worker'[w].pc \in {"markUser", "pushBack"} /\ worker[w].pc = "check"
        /\ worker'[w].timeoutAt = worker[w].timeoutAt
    BY <2>1, <1>2
  <2>3. visibility[worker[w].task] = NoLease \/ visibility[worker[w].task] # NoLease
    OBVIOUS
  <2> QED BY <2>2, <2>3, <1>4 DEF Recheck
<1>5. CASE MarkUser(w)
  <2>1. /\ worker[w].task \in Tasks /\ worker'[w].task = worker[w].task
        /\ \A v \in Workers : v # w => worker'[v] = worker[v]
        /\ worker'[w].pc = "markGlobal" /\ worker[w].pc = "markUser"
        /\ worker'[w].timeoutAt = worker[w].timeoutAt
    BY <1>2, <1>5 DEF MarkUser
  <2> QED BY <2>1, <1>5 DEF MarkUser
<1>6. CASE MarkGlobal(w)
  <2>1. /\ worker[w].task \in Tasks /\ worker'[w].task = worker[w].task
        /\ \A v \in Workers : v # w => worker'[v] = worker[v]
        /\ worker'[w].pc = "lease" /\ worker[w].pc = "markGlobal"
    BY <1>1, <1>6 DEF MarkGlobal, WorkerRecord
  <2> QED BY <2>1, <1>6 DEF MarkGlobal
<1>7. CASE ExpireLease(w)
  <2>1. /\ worker[w].task \in Tasks /\ worker'[w].task = worker[w].task
        /\ \A v \in Workers : v # w => worker'[v] = worker[v]
        /\ worker'[w].pc = "status" /\ worker[w].pc = "expire"
        /\ worker'[w].timeoutAt = worker[w].timeoutAt
    BY <1>2, <1>7 DEF ExpireLease
  <2>2. PICK t \in Tasks : t = worker[w].task
    BY <2>1
  <2>3. /\ \A x \in Tasks : x # t => visibility'[x] = visibility[x]
        /\ \/ visibility'[t] = NoLease
           \/ visibility[t] # NoLease /\ visibility'[t].timeoutAt = visibility[t].timeoutAt
    <3>1. CASE visibility[t] = NoLease
      BY <3>1, <2>2, <1>7 DEF ExpireLease
    <3>2. CASE visibility[t] # NoLease
      <4>1. visibility[t] \in Lease
        BY <3>2, <1>1
      <4>2. visibility' = [visibility EXCEPT ![t] = [visibility[t] EXCEPT
                                                       !.expiresAt = clock + VisibilityTimeout]]
        BY <3>2, <2>2, <1>1, <1>7 DEF ExpireLease
      <4> QED BY <3>2, <4>1, <4>2, <1>1 DEF Lease
    <3> QED BY <3>1, <3>2
  <2>4. UNCHANGED <<ready, resent, status, told, api, batchTasks, cleaner, clock>>
    BY <1>7 DEF ExpireLease
  <2> QED BY <2>1, <2>2, <2>3, <2>4
<1>8. CASE SetProcessing(w)
  <2>1. /\ worker[w].task \in Tasks /\ worker'[w].task = worker[w].task
        /\ \A v \in Workers : v # w => worker'[v] = worker[v]
        /\ worker'[w].pc = "busy" /\ worker[w].pc = "status"
        /\ worker'[w].timeoutAt = worker[w].timeoutAt
    BY <1>2, <1>8 DEF SetProcessing
  <2> QED BY <2>1, <1>1, <1>8 DEF SetProcessing
<1>9. CASE AckUser(w)
  <2>1. /\ worker[w].task \in Tasks /\ worker'[w].task = worker[w].task
        /\ \A v \in Workers : v # w => worker'[v] = worker[v]
        /\ worker'[w].pc = "ackGlobal" /\ worker[w].pc = "busy"
        /\ worker'[w].timeoutAt = worker[w].timeoutAt
    BY <1>1, <1>9 DEF AckUser, WorkerRecord
  <2> QED BY <2>1, <1>9 DEF AckUser
<1>10. CASE AckGlobal(w)
  <2>1. /\ worker[w].task \in Tasks /\ worker'[w].task = worker[w].task
        /\ \A v \in Workers : v # w => worker'[v] = worker[v]
        /\ worker'[w].pc = "ackClear" /\ worker[w].pc = "ackGlobal"
        /\ worker'[w].timeoutAt = worker[w].timeoutAt
    BY <1>2, <1>10 DEF AckGlobal
  <2> QED BY <2>1, <1>10 DEF AckGlobal
<1>11. CASE AckClear(w)
  <2>1. /\ worker[w].task \in Tasks /\ worker'[w].task = worker[w].task
        /\ \A v \in Workers : v # w => worker'[v] = worker[v]
        /\ worker'[w].pc = "ackStatus" /\ worker[w].pc = "ackClear"
        /\ worker'[w].timeoutAt = worker[w].timeoutAt
    BY <1>2, <1>11 DEF AckClear
  <2> QED BY <2>1, <1>1, <1>11 DEF AckClear
<1>12. CASE AckStatus(w)
  <2>1. /\ worker[w].task \in Tasks /\ worker'[w].task = worker[w].task
        /\ \A v \in Workers : v # w => worker'[v] = worker[v]
        /\ worker'[w].pc = "ackIndex" /\ worker[w].pc = "ackStatus"
        /\ worker'[w].timeoutAt = worker[w].timeoutAt
    BY <1>2, <1>12 DEF AckStatus
  <2> QED BY <2>1, <1>1, <1>12 DEF AckStatus
<1>13. CASE AckIndex(w)
  BY <1>1, <1>3, <1>13 DEF AckIndex
<1>14. CASE WorkerFault(w)
  BY <1>1, <1>3, <1>14 DEF WorkerFault
<1> QED
  BY <1>4, <1>5, <1>6, <1>7, <1>8, <1>9, <1>10, <1>11, <1>12, <1>13, <1>14 DEF QuietCommand, Ack

\* RPOP moves the token from the list to the worker.
LEMMA PopTaskKeeps ==
  ASSUME StoreAssumption, LeaseInv, NEW w \in Workers, PopTask(w), StoreTypeOK'
  PROVE  TokensKept
<1> DEFINE last == ready[Len(ready)]
<1>1. PICK t \in Tasks : t = last
  BY DEF PopTask, LeaseInv, TypeOK, StoreTypeOK
<1> HIDE DEF last
<1>2. /\ InReady(t) /\ OnceEach'
      /\ \A x \in Tasks : InReady(x)' => InReady(x)
      /\ t \notin resent => ~InReady(t)'
  BY <1>1, PopKeepsOnce DEF PopTask, LeaseInv, TypeOK, StoreTypeOK, KeepFaults, last
<1>3. /\ worker \in [Workers -> WorkerRecord] /\ NoTask \notin Tasks
      /\ worker[w].task = NoTask
  BY DEF LeaseInv, TypeOK, WorkerLocals, PopTask, WorkerRecord, StoreAssumption
<1>4. /\ worker'[w].task = t /\ worker'[w].pc = "check"
      /\ \A v \in Workers : v # w => worker'[v] = worker[v]
  <2>1. [IdleWorker EXCEPT !.pc = "check", !.task = last].pc = "check"
        /\ [IdleWorker EXCEPT !.pc = "check", !.task = last].task = last
    BY DEF IdleWorker
  <2> QED BY <2>1, <1>1, <1>3 DEF PopTask, last
<1>5. UNCHANGED <<status, visibility, cleaner, clock, told, api, batchTasks, resent>>
  BY DEF PopTask, KeepStore, KeepFaults
<1>6. StoreInv' /\ CleanerKnows'
  BY <1>5, ConsumerKeepsStore DEF LeaseInv, CleanerKnows
<1>7. \A x \in Tasks : Undelivered(x)' => Undelivered(x)
  BY <1>5 DEF Undelivered
<1>8. ASSUME NEW x \in Tasks, x # t PROVE Spares(x)
  <2>1. \A v \in Workers : worker'[v].task = x =>
          v # w /\ worker'[v] = worker[v] /\ (Late(v) => Late(v)')
    BY <1>4, <1>5, <1>8 DEF Late
  <2>2. (InCleaner(x)' <=> InCleaner(x)) /\ (FoundExpired(x)' <=> FoundExpired(x))
    BY <1>5 DEF InCleaner, FoundExpired
  <2> QED BY <2>1, <2>2, <1>2, <1>5 DEF Spares
<1>9. UnseenOK(t)'
  BY <1>2, <1>7, SeenStays DEF LeaseInv, Nowhere
<1>10. TokenOK(t)'
  <2> SUFFICES ASSUME t \notin resent PROVE TokenOK(t)'
    BY <1>5 DEF TokenOK
  <2>1. /\ PreLease(t) = {} /\ visibility[t] = NoLease /\ ~InCleaner(t)
        /\ \A v \in Held(t) : Late(v)
    BY <1>2 DEF LeaseInv, TokenOK
  <2>2. visibility'[t] = NoLease /\ ~InCleaner(t)' /\ ~FoundExpired(t)'
        /\ ~(cleaner'.pc = "push" /\ cleaner'.task = t)
    BY <2>1, <1>5 DEF InCleaner, FoundExpired
  <2>3. \A v \in Held(t)' : v = w \/ (v \in Held(t) /\ Late(v)')
    BY <2>1, <1>4, <1>5 DEF Held, Late
  <2>4. PreLease(t)' \subseteq {w}
    <3> SUFFICES ASSUME NEW v \in PreLease(t)', v # w PROVE FALSE
      OBVIOUS
    <3>1. v \in PreLease(t)
      BY <1>4 DEF PreLease, Held
    <3> QED BY <3>1, <2>1
  <2>5. PreLease(t)' \subseteq Held(t)' /\ ~InReady(t)'
    BY <1>2 DEF PreLease
  <2> QED BY <2>2, <2>3, <2>4, <2>5 DEF TokenOK
<1>11. \A x \in Tasks : TokenOK(x)' /\ UnseenOK(x)'
  BY <1>7, <1>8, <1>9, <1>10, SparesToken, SparesUnseen DEF LeaseInv
<1> QED BY <1>2, <1>6, <1>11 DEF TokensKept

\* At the user limit the token goes back from the worker to the list.
LEMMA PushBackKeeps ==
  ASSUME StoreAssumption, LeaseInv, NEW w \in Workers, PushBack(w), StoreTypeOK'
  PROVE  TokensKept
<1>1. PICK t \in Tasks : t = worker[w].task
  BY DEF PushBack, LeaseInv, TypeOK
<1>2. w \in PreLease(t) /\ w \in Held(t)
  BY <1>1 DEF PushBack, PreLease, Held, PreLeasePc
<1>3. t \notin resent => ~InReady(t)
  BY <1>2 DEF LeaseInv, TokenOK
<1>4. /\ \A x \in Tasks : x # t => (InReady(x)' <=> InReady(x))
      /\ resent \subseteq resent' /\ OnceEach'
  <2>1. Push(t) /\ ready \in Seq(Tasks) /\ OnceEach /\ (~InReady(t) \/ t \in resent)
    BY <1>1, <1>3 DEF PushBack, LeaseInv, TypeOK, StoreTypeOK
  <2> QED BY <2>1, PushKeepsOnce DEF OnceEach
<1>5. /\ worker'[w].task = NoTask /\ NoTask \notin Tasks
      /\ \A v \in Workers : v # w => worker'[v] = worker[v]
  BY DropFacts DEF PushBack, LeaseInv, TypeOK, WorkerRecord, IdleWorker, StoreAssumption
<1>6. UNCHANGED <<status, visibility, cleaner, clock, told, api, batchTasks>>
  BY DEF PushBack, KeepStore
<1>7. OnOwn(w)
  BY <1>1, <1>5, <1>6 DEF OnOwn
<1>8. StoreInv' /\ CleanerKnows' /\ \A x \in Tasks : Undelivered(x)' => Undelivered(x)
  BY <1>7, OnOwnKeeps
<1>9. \A x \in Tasks : x # t => Spares(x)
  BY <1>1, <1>4, <1>5, <1>7, OnOwnSpares
<1>10. UnseenOK(t)'
  BY <1>2, <1>8, SeenStays DEF LeaseInv, Nowhere
<1>11. TokenOK(t)'
  <2> SUFFICES ASSUME t \notin resent PROVE TokenOK(t)'
    BY <1>4 DEF TokenOK
  <2>1. /\ visibility[t] = NoLease /\ ~InCleaner(t) /\ \A v \in PreLease(t) : v = w
        /\ \A v \in Held(t) : v = w \/ Late(v)
    BY <1>2 DEF LeaseInv, TokenOK
  <2>2. visibility'[t] = NoLease /\ ~InCleaner(t)'
    BY <2>1, <1>6 DEF InCleaner
  <2>3. \A v \in Held(t)' : v # w /\ v \in Held(t) /\ Late(v)'
    BY <2>1, <1>5, <1>6 DEF Held, Late
  <2>4. PreLease(t)' = {}
    <3> SUFFICES ASSUME NEW v \in PreLease(t)' PROVE FALSE
      OBVIOUS
    <3>1. v # w
      BY <2>3 DEF PreLease
    <3>2. v \in PreLease(t)
      BY <3>1, <1>5 DEF PreLease, Held
    <3> QED BY <3>1, <3>2, <2>1
  <2> QED BY <2>2, <2>3, <2>4, PushedToken
<1>12. \A x \in Tasks : TokenOK(x)' /\ UnseenOK(x)'
  BY <1>8, <1>9, <1>10, <1>11, SparesToken, SparesUnseen DEF LeaseInv
<1> QED BY <1>4, <1>8, <1>12 DEF TokensKept

\* HSET qa:visibility: the token goes from the worker to the lease.
LEMMA WriteLeaseKeeps ==
  ASSUME StoreAssumption, LeaseInv, NEW w \in Workers, WriteLease(w), StoreTypeOK'
  PROVE  TokensKept
<1>0. /\ worker \in [Workers -> WorkerRecord] /\ NoTask \notin Tasks
      /\ visibility \in [Tasks -> Lease \cup {NoLease}]
  BY DEF LeaseInv, TypeOK, WorkerRecord, Lease, StoreAssumption
<1>1. PICK t \in Tasks : t = worker[w].task
  BY DEF WriteLease, Move, LeaseInv, TypeOK
<1>2. w \in PreLease(t) /\ w \in Held(t)
  BY <1>1 DEF WriteLease, Move, PreLease, Held
<1>3. /\ worker'[w].task = t /\ worker'[w].pc = "expire"
      /\ worker'[w].timeoutAt = worker[w].timeoutAt /\ worker[w].timeoutAt \in Nat
      /\ \A v \in Workers : v # w => worker'[v] = worker[v]
  BY <1>0, <1>1, MoveFacts DEF WriteLease, LeasedPc, WorkerRecord
<1>4. UNCHANGED <<ready, resent, status, cleaner, clock, told, api, batchTasks>>
  BY DEF WriteLease, KeepStore, KeepFaults
<1>5. /\ \A x \in Tasks : x # t => visibility'[x] = visibility[x]
      /\ visibility'[t].timeoutAt = worker[w].timeoutAt
  BY <1>0, <1>1 DEF WriteLease
<1>6. OnOwn(w)
  BY <1>1, <1>3, <1>4, <1>5 DEF OnOwn
<1>7. StoreInv' /\ CleanerKnows' /\ \A x \in Tasks : Undelivered(x)' => Undelivered(x)
  BY <1>6, OnOwnKeeps
<1>8. \A x \in Tasks : x # t => Spares(x)
  <2>1. \A x \in Tasks : InReady(x)' => InReady(x)
    BY <1>4 DEF InReady
  <2> QED BY <2>1, <1>0, <1>1, <1>4, <1>6, OnOwnSpares
<1>9. UnseenOK(t)'
  BY <1>2, <1>7, SeenStays DEF LeaseInv, Nowhere
<1>10. TokenOK(t)'
  <2> SUFFICES ASSUME t \notin resent PROVE TokenOK(t)'
    BY <1>4 DEF TokenOK
  <2>1. /\ ~InReady(t) /\ visibility[t] = NoLease /\ ~InCleaner(t)
        /\ \A v \in PreLease(t) : v = w
        /\ \A v \in Held(t) : v = w \/ Late(v)
    BY <1>2 DEF LeaseInv, TokenOK
  <2>2. ~InReady(t)' /\ ~InCleaner(t)' /\ ~FoundExpired(t)'
        /\ ~(cleaner'.pc = "push" /\ cleaner'.task = t)
    BY <2>1, <1>4 DEF InReady, InCleaner, FoundExpired
  <2>3. \A v \in Held(t)' : v = w \/ (v \in Held(t) /\ Late(v)')
    BY <2>1, <1>3, <1>4 DEF Held, Late
  <2>4. PreLease(t)' = {}
    <3> SUFFICES ASSUME NEW v \in PreLease(t)' PROVE FALSE
      OBVIOUS
    <3>1. v # w
      BY <1>3 DEF PreLease, PreLeasePc
    <3>2. v \in PreLease(t)
      BY <3>1, <1>3 DEF PreLease, Held
    <3> QED BY <3>1, <3>2, <2>1
  <2>5. worker'[w].timeoutAt <= visibility'[t].timeoutAt
    BY <1>3, <1>5
  <2> QED BY <2>2, <2>3, <2>4, <2>5 DEF TokenOK
<1>11. \A x \in Tasks : TokenOK(x)' /\ UnseenOK(x)'
  BY <1>7, <1>8, <1>9, <1>10, SparesToken, SparesUnseen DEF LeaseInv
<1>12. OnceEach'
  BY <1>4 DEF LeaseInv, OnceEach
<1> QED BY <1>7, <1>11, <1>12 DEF TokensKept

\* Every command of a worker keeps the tokens.
LEMMA WorkerKeeps ==
  ASSUME StoreAssumption, LeaseInv, NEW w \in Workers, StoreTypeOK',
         Dequeue(w) \/ Ack(w) \/ WorkerFault(w)
  PROVE  TokensKept
<1>1. CASE QuietCommand(w)
  BY <1>1, QuietCommands, QuietOwnKeeps DEF StoreAssumption
<1>2. CASE PopTask(w)
  BY <1>2, PopTaskKeeps
<1>3. CASE PushBack(w)
  BY <1>3, PushBackKeeps
<1>4. CASE WriteLease(w)
  BY <1>4, WriteLeaseKeeps
<1> QED BY <1>1, <1>2, <1>3, <1>4 DEF Dequeue, QuietCommand

-----------------------------------------------------------------------------
(* Commands of the cleaner.                                                *)

\* The commands of the cleaner that do not push.
CleanerSpares ==
  /\ UNCHANGED <<ready, resent, worker, clock, told, api, batchTasks>>
  /\ \A x \in Tasks : visibility'[x] = NoLease \/ visibility'[x] = visibility[x]
  /\ \A x \in Tasks : InCleaner(x)' => InCleaner(x) \/ visibility[x] # NoLease
  /\ \A x \in Tasks :
       FoundExpired(x)' => FoundExpired(x) \/ (x \notin resent => \A w \in Held(x) : Late(w))
  /\ cleaner'.pc = "push" => visibility'[cleaner'.task] = NoLease
  /\ cleaner'.pc # "status"
  /\ \A x \in Tasks : status'[x] = "none" <=> status[x] = "none"

\* They keep the tokens.
LEMMA CleanerSparesKeeps ==
  ASSUME StoreAssumption, LeaseInv, CleanerSpares, StoreTypeOK'
  PROVE  TokensKept
<1>1. StoreInv' /\ CleanerKnows'
  BY ConsumerKeepsStore DEF LeaseInv, CleanerSpares, CleanerKnows
<1>2. ASSUME NEW x \in Tasks PROVE Spares(x) /\ (Undelivered(x)' => Undelivered(x))
  <2>1. Undelivered(x)' => Undelivered(x)
    BY DEF Undelivered, CleanerSpares
  <2>2. InReady(x)' <=> InReady(x)
    BY DEF InReady, CleanerSpares
  <2>3. \A w \in Workers : worker'[w] = worker[w] /\ (Late(w) => Late(w)')
    BY DEF Late, CleanerSpares
  <2>4. \/ visibility'[x] = NoLease
        \/ visibility[x] # NoLease /\ visibility'[x].timeoutAt = visibility[x].timeoutAt
    BY DEF CleanerSpares
  <2>5. cleaner'.pc = "push" /\ cleaner'.task = x => visibility'[x] = NoLease
    BY DEF CleanerSpares
  <2>6. /\ InCleaner(x)' => InCleaner(x) \/ visibility[x] # NoLease
        /\ FoundExpired(x)' => FoundExpired(x) \/ (x \notin resent => \A w \in Held(x) : Late(w))
        /\ resent \subseteq resent'
    BY DEF CleanerSpares
  <2> QED BY <2>1, <2>2, <2>3, <2>4, <2>5, <2>6 DEF Spares
<1>3. \A x \in Tasks : TokenOK(x)' /\ UnseenOK(x)'
  BY <1>2, SparesToken, SparesUnseen DEF LeaseInv
<1>4. OnceEach'
  BY DEF LeaseInv, OnceEach, CleanerSpares
<1> QED BY <1>1, <1>3, <1>4 DEF TokensKept

\* LPUSH of an expired task: the token goes from the cleaner to the list, and
\* whoever still holds the task is late.
LEMMA RequeuePushKeeps ==
  ASSUME StoreAssumption, LeaseInv, RequeuePush, StoreTypeOK'
  PROVE  TokensKept
<1>1. PICK t \in Tasks : t = cleaner.task
  BY DEF RequeuePush, CleanerMove, LeaseInv, TypeOK
<1>2. /\ cleaner \in CleanerRecord /\ cleaner.pc = "push"
      /\ cleaner.keys = {} /\ t \notin cleaner.expired
      /\ cleaner'.pc = "status" /\ cleaner'.task = t
      /\ cleaner'.keys = {} /\ cleaner'.expired = cleaner.expired
  BY <1>1 DEF RequeuePush, CleanerMove, LeaseInv, TypeOK, CleanerLocals, CleanerRecord
<1>3. InCleaner(t) /\ FoundExpired(t)
  BY <1>1, <1>2 DEF InCleaner, FoundExpired
<1>4. t \notin resent => ~InReady(t)
  BY <1>3 DEF LeaseInv, TokenOK
<1>5. /\ \A x \in Tasks : x # t => (InReady(x)' <=> InReady(x))
      /\ resent \subseteq resent' /\ OnceEach'
  <2>1. Push(t) /\ ready \in Seq(Tasks) /\ OnceEach /\ (~InReady(t) \/ t \in resent)
    BY <1>1, <1>4 DEF RequeuePush, LeaseInv, TypeOK, StoreTypeOK
  <2> QED BY <2>1, PushKeepsOnce DEF OnceEach
<1>6. UNCHANGED <<status, visibility, worker, clock, told, api, batchTasks>>
  BY DEF RequeuePush, KeepStore
<1>7. status[t] # "none"
  BY <1>3 DEF LeaseInv, UnseenOK, Undelivered, Nowhere
<1>8. StoreInv' /\ CleanerKnows'
  BY <1>2, <1>6, <1>7, ConsumerKeepsStore DEF LeaseInv, CleanerKnows
<1>9. \A x \in Tasks : Undelivered(x)' => Undelivered(x)
  BY <1>6 DEF Undelivered
<1>10. ASSUME NEW x \in Tasks, x # t PROVE Spares(x)
  <2>1. \A w \in Workers : worker'[w] = worker[w] /\ (Late(w) => Late(w)')
    BY <1>6 DEF Late
  <2>2. (InCleaner(x)' => InCleaner(x)) /\ (FoundExpired(x)' => FoundExpired(x))
    BY <1>2, <1>10 DEF InCleaner, FoundExpired
  <2> QED BY <2>1, <2>2, <1>2, <1>5, <1>6, <1>10 DEF Spares
<1>11. UnseenOK(t)'
  BY <1>3, <1>9, SeenStays DEF LeaseInv, Nowhere
<1>12. TokenOK(t)'
  <2> SUFFICES ASSUME t \notin resent PROVE TokenOK(t)'
    BY <1>5 DEF TokenOK
  <2>1. /\ PreLease(t) = {} /\ visibility[t] = NoLease /\ \A w \in Held(t) : Late(w)
    BY <1>1, <1>2, <1>3 DEF LeaseInv, TokenOK
  <2>2. PreLease(t)' = {} /\ visibility'[t] = NoLease /\ \A w \in Held(t)' : Late(w)'
    BY <2>1, <1>6 DEF PreLease, Held, Late
  <2>3. ~InCleaner(t)'
    BY <1>2 DEF InCleaner
  <2> QED BY <2>2, <2>3, PushedToken
<1>13. \A x \in Tasks : TokenOK(x)' /\ UnseenOK(x)'
  BY <1>9, <1>10, <1>11, <1>12, SparesToken, SparesUnseen DEF LeaseInv
<1> QED BY <1>5, <1>8, <1>13 DEF TokensKept

\* Every command of the cleaner keeps the tokens.
LEMMA CleanerKeeps ==
  ASSUME StoreAssumption, LeaseAssumption, LeaseInv, StoreTypeOK', Cleanup \/ CleanerFault
  PROVE  TokensKept
<1> USE DEF KeepStore, KeepFaults, KeepSets, storeVars, redisVars
<1>1. /\ cleaner \in CleanerRecord /\ clock \in Nat /\ cleaner.now <= clock
      /\ cleaner.pc \in {"global", "clear", "push", "status"} => cleaner.task \in Tasks
      /\ visibility \in [Tasks -> Lease \cup {NoLease}] /\ status \in [Tasks -> Status]
      /\ worker \in [Workers -> WorkerRecord] /\ NoTask \notin Tasks
  BY DEF LeaseInv, TypeOK, StoreTypeOK, CleanerRecord, WorkerRecord, Lease, CleanerLocals,
         StoreAssumption, LeaseAssumption
<1>2. CASE ScanLeases
  <2> DEFINE K == {t \in Tasks : visibility[t] # NoLease}
  <2>1. cleaner' = [pc |-> "scan", now |-> clock, keys |-> K, expired |-> {}, task |-> NoTask]
    BY <1>2 DEF ScanLeases, IdleCleaner
  <2>2. /\ cleaner'.pc = "scan" /\ cleaner'.expired = {}
        /\ \A x \in cleaner'.keys : x \in Tasks /\ visibility[x] # NoLease
    BY <2>1
  <2>3. /\ \A x \in Tasks : InCleaner(x)' => visibility[x] # NoLease
        /\ \A x \in Tasks : ~FoundExpired(x)'
    BY <2>2 DEF InCleaner, FoundExpired
  <2>4. CleanerSpares
    BY <2>2, <2>3, <1>2 DEF ScanLeases, CleanerSpares
  <2> QED BY <2>4, CleanerSparesKeeps
<1>3. ASSUME NEW t \in Tasks, ReadLease(t) PROVE TokensKept
  <2>1. /\ cleaner'.pc = "scan" /\ cleaner'.keys = cleaner.keys \ {t} /\ t \in cleaner.keys
        /\ \/ cleaner'.expired = cleaner.expired
           \/ /\ cleaner'.expired = cleaner.expired \cup {t}
              /\ visibility[t] # NoLease /\ cleaner.now > visibility[t].timeoutAt
    BY <1>1, <1>3 DEF ReadLease, CleanerRecord
  <2>2. \A x \in Tasks : InCleaner(x)' => InCleaner(x)
    BY <2>1 DEF InCleaner
  <2>3. ASSUME NEW x \in Tasks, FoundExpired(x)', ~FoundExpired(x), x \notin resent,
               NEW w \in Held(x)
        PROVE  Late(w)
    <3>1. x = t /\ visibility[t] # NoLease /\ cleaner.now > visibility[t].timeoutAt
      BY <2>1, <2>3 DEF FoundExpired
    <3>2. PreLease(t) = {} /\ (Late(w) \/ worker[w].timeoutAt <= visibility[t].timeoutAt)
      BY <3>1, <2>3 DEF LeaseInv, TokenOK
    <3>3. worker[w].pc \in LeasedPc
      <4>1. worker[w].pc # "idle"
        BY <2>3, <1>1 DEF Held, LeaseInv, WorkerLocals
      <4>2. worker[w].pc \notin PreLeasePc
        BY <3>1, <3>2, <2>3 DEF PreLease
      <4> QED BY <4>1, <4>2, <1>1, <2>3 DEF WorkerRecord, Held
    <3>4. /\ worker[w].timeoutAt \in Nat /\ visibility[t].timeoutAt \in Nat
          /\ cleaner.now \in Nat
      BY <3>1, <2>3, <1>1 DEF WorkerRecord, CleanerRecord, Lease, Held
    <3>5. worker[w].timeoutAt <= visibility[t].timeoutAt => clock > worker[w].timeoutAt
      BY <3>1, <3>4, <1>1
    <3> QED BY <3>2, <3>3, <3>5 DEF Late
  <2>4. CleanerSpares
    BY <2>1, <2>2, <2>3, <1>3 DEF ReadLease, CleanerSpares
  <2> QED BY <2>4, CleanerSparesKeeps
<1>4. CASE ScanDone \/ CleanerFault
  <2>1. CleanerSpares
    BY <1>4, <1>1 DEF ScanDone, CleanerFault, IdleCleaner, CleanerSpares, InCleaner, FoundExpired
  <2> QED BY <2>1, CleanerSparesKeeps
<1>5. ASSUME NEW t \in Tasks, RequeueUser(t) PROVE TokensKept
  <2>1. /\ cleaner'.pc = "global" /\ cleaner'.task = t /\ t \in cleaner.expired
        /\ cleaner'.keys = {} /\ cleaner'.expired = cleaner.expired \ {t}
    BY <1>1, <1>5 DEF RequeueUser, CleanerRecord
  <2>2. CleanerSpares
    BY <2>1, <1>5 DEF RequeueUser, CleanerSpares, InCleaner, FoundExpired
  <2> QED BY <2>2, CleanerSparesKeeps
<1>6. CASE RequeueGlobal
  <2>1. /\ cleaner.pc = "global" /\ cleaner'.pc = "clear" /\ cleaner'.task = cleaner.task
        /\ cleaner'.keys = cleaner.keys /\ cleaner'.expired = cleaner.expired
    BY <1>1, <1>6 DEF RequeueGlobal, CleanerMove, CleanerRecord
  <2>2. CleanerSpares
    BY <2>1, <1>6 DEF RequeueGlobal, CleanerSpares, InCleaner, FoundExpired
  <2> QED BY <2>2, CleanerSparesKeeps
<1>7. CASE RequeueClear
  <2>1. /\ cleaner.pc = "clear" /\ cleaner'.pc = "push" /\ cleaner'.task = cleaner.task
        /\ cleaner'.keys = cleaner.keys /\ cleaner'.expired = cleaner.expired
        /\ cleaner.task \in Tasks
    BY <1>1, <1>7 DEF RequeueClear, CleanerMove, CleanerRecord
  <2>2. /\ \A x \in Tasks : visibility'[x] = NoLease \/ visibility'[x] = visibility[x]
        /\ visibility'[cleaner.task] = NoLease
    BY <2>1, <1>1, <1>7 DEF RequeueClear
  <2>3. CleanerSpares
    BY <2>1, <2>2, <1>7 DEF RequeueClear, CleanerSpares, InCleaner, FoundExpired
  <2> QED BY <2>3, CleanerSparesKeeps
<1>8. CASE RequeuePush
  BY <1>8, RequeuePushKeeps
<1>9. CASE RequeueStatus
  <2>1. /\ cleaner.pc = "status" /\ cleaner'.pc = "scan"
        /\ cleaner'.keys = cleaner.keys /\ cleaner'.expired = cleaner.expired
    BY <1>1, <1>9 DEF RequeueStatus, CleanerRecord
  <2>2. \A x \in Tasks : status'[x] = "none" <=> status[x] = "none"
    BY <2>1, <1>1, <1>9 DEF RequeueStatus, LeaseInv, CleanerKnows
  <2>3. CleanerSpares
    BY <2>1, <2>2, <1>9 DEF RequeueStatus, CleanerSpares, InCleaner, FoundExpired
  <2> QED BY <2>3, CleanerSparesKeeps
<1> QED
  BY <1>2, <1>3, <1>4, <1>5, <1>6, <1>7, <1>8, <1>9 DEF Cleanup

-----------------------------------------------------------------------------
(* Request handlers, time and Redis's expiry.                              *)

\* Every command of a request handler keeps the tokens; what it pushes no
\* consumer has seen.
LEMMA RequestKeeps ==
  ASSUME StoreAssumption, LeaseInv, NEW a \in Handlers, HandlerStep(a), UNCHANGED leaseVars
  PROVE  TokensKept
<1>1. StoreInv' /\ HandlerEffect(a)
  BY HandlerKeepsStore, visibility \in [Tasks -> Lease \cup {NoLease}]
     DEF LeaseInv, TypeOK, Lease
<1>2. UNCHANGED <<worker, cleaner, clock>>
  BY DEF leaseVars
<1>3. CleanerKnows'
  <2>1. cleaner.pc = "status" => cleaner.task \in Tasks
    BY DEF LeaseInv, TypeOK
  <2> QED BY <2>1, <1>1, <1>2 DEF LeaseInv, CleanerKnows, HandlerEffect
<1>4. ASSUME NEW x \in Tasks, Undelivered(x)' PROVE Undelivered(x)
  <2>1. CASE status'[x] = "none"
    BY <2>1, <1>1 DEF HandlerEffect, Undelivered
  <2>2. CASE \E h \in Handlers : api'[h].pc = "push" /\ api'[h].task = x
    <3>1. PICK h \in Handlers : api[h].task = x /\ api[h].pc \in {"save", "push"}
      BY <2>2, <1>1 DEF HandlerEffect
    <3>2. CASE api[h].pc = "push"
      BY <3>1, <3>2 DEF Undelivered
    <3>3. CASE api[h].pc = "save"
      <4>1. Unwritten(h, x)
        BY <3>1, <3>3 DEF Unwritten
      <4> QED BY <4>1 DEF LeaseInv, StoreInv, OneOwner, Undelivered
    <3> QED BY <3>1, <3>2, <3>3
  <2> QED BY <2>1, <2>2, <1>4 DEF Undelivered
<1>5. ASSUME NEW x \in Tasks, InReady(x)' => InReady(x) PROVE Spares(x)
  <2>1. \A w \in Workers : worker'[w] = worker[w] /\ (Late(w) => Late(w)')
    BY <1>2 DEF Late
  <2>2. (InCleaner(x)' <=> InCleaner(x)) /\ (FoundExpired(x)' <=> FoundExpired(x))
    BY <1>2 DEF InCleaner, FoundExpired
  <2>3. visibility'[x] \in {visibility[x], NoLease} /\ resent \subseteq resent'
    BY <1>1 DEF HandlerEffect
  <2> QED BY <2>1, <2>2, <2>3, <1>2, <1>5 DEF Spares
<1>6. CASE resent' = resent /\ (ready' = ready \/ \E t : ready' \in LRem(ready, t))
  <2>1. OnceEach' /\ \A x \in Tasks : InReady(x)' => InReady(x)
    <3>1. CASE ready' = ready
      BY <3>1, <1>6 DEF LeaseInv, OnceEach, InReady
    <3>2. ASSUME NEW t, ready' \in LRem(ready, t)
          PROVE  OnceEach' /\ \A x \in Tasks : InReady(x)' => InReady(x)
      BY <3>2, <1>6, RemoveKeepsOnce DEF LeaseInv, TypeOK, StoreTypeOK, OnceEach
    <3> QED BY <3>1, <3>2, <1>6
  <2>2. \A x \in Tasks : TokenOK(x)' /\ UnseenOK(x)'
    BY <2>1, <1>4, <1>5, SparesToken, SparesUnseen DEF LeaseInv
  <2> QED BY <2>1, <2>2, <1>1, <1>3 DEF TokensKept
<1>7. CASE api[a].pc = "push" /\ api'[a].pc # "push" /\ Push(api[a].task)
  <2>1. PICK t \in Tasks : t = api[a].task
    BY <1>7 DEF LeaseInv, StoreInv, HandlerLocals, LocalsOf
  <2>2. Owns(a, t) /\ Undelivered(t)
    BY <2>1, <1>7 DEF Owns, Undelivered
  <2>3. Nowhere(t)
    BY <2>2 DEF LeaseInv, UnseenOK
  <2>4. /\ \A x \in Tasks : x # t => (InReady(x)' <=> InReady(x))
        /\ resent \subseteq resent' /\ OnceEach'
    <3>1. Push(t) /\ ready \in Seq(Tasks) /\ OnceEach /\ ~InReady(t)
      BY <2>1, <2>3, <1>7 DEF LeaseInv, TypeOK, StoreTypeOK, Nowhere
    <3> QED BY <3>1, PushKeepsOnce DEF OnceEach
  <2>5. ~Undelivered(t)'
    <3>1. status'[t] # "none"
      BY <2>1, <1>1, <1>7 DEF HandlerEffect, LeaseInv, StoreInv, PushKnown
    <3>2. ASSUME NEW h \in Handlers, api'[h].pc = "push", api'[h].task = t PROVE FALSE
      <4>1. h # a /\ Owns(h, t)
        BY <3>2, <1>1, <1>7 DEF HandlerEffect, Owns
      <4> QED BY <4>1, <2>2 DEF LeaseInv, StoreInv, OneOwner
    <3> QED BY <3>1, <3>2 DEF Undelivered
  <2>6. TokenOK(t)'
    <3>1. PreLease(t)' = {} /\ Held(t)' = {}
      BY <2>3, <1>2 DEF Nowhere, PreLease, Held
    <3>2. visibility'[t] = NoLease
      BY <2>3, <1>1 DEF Nowhere, HandlerEffect
    <3>3. ~InCleaner(t)'
      BY <2>3, <1>2 DEF Nowhere, InCleaner
    <3>4. \A w \in Held(t)' : Late(w)'
      BY <3>1
    <3> QED BY <3>1, <3>2, <3>3, <3>4, PushedToken
  <2>7. UnseenOK(t)'
    BY <2>5 DEF UnseenOK
  <2>8. \A x \in Tasks : TokenOK(x)' /\ UnseenOK(x)'
    BY <2>4, <2>6, <2>7, <1>4, <1>5, SparesToken, SparesUnseen DEF LeaseInv
  <2> QED BY <2>4, <2>8, <1>1, <1>3 DEF TokensKept
<1> QED BY <1>1, <1>6, <1>7 DEF HandlerEffect

\* Time only makes holders late, and Redis only drops leases.
LEMMA ClockKeeps ==
  ASSUME StoreAssumption, LeaseAssumption, LeaseInv, StoreTypeOK',
         Tick \/ \E t \in Tasks : DropKey(t)
  PROVE  TokensKept
<1>1. /\ UNCHANGED <<ready, resent, worker, cleaner, status, told, api, batchTasks>>
      /\ clock' \in {clock, clock + 1}
      /\ \A x \in Tasks : visibility'[x] \in {visibility[x], NoLease}
  BY DEF Tick, DropKey, storeVars, redisVars, KeepSets, KeepStore, KeepFaults, LeaseInv, TypeOK
<1>2. StoreInv' /\ CleanerKnows'
  BY <1>1, ConsumerKeepsStore DEF LeaseInv, CleanerKnows
<1>3. ASSUME NEW x \in Tasks PROVE Spares(x) /\ (Undelivered(x)' => Undelivered(x))
  <2>1. \A w \in Workers : worker'[w] = worker[w] /\ (Late(w) => Late(w)')
    <3>1. \A w \in Workers : worker[w].timeoutAt \in Nat
      BY DEF LeaseInv, TypeOK
    <3>2. clock \in Nat
      BY DEF LeaseInv, TypeOK, LeaseAssumption
    <3> QED BY <3>1, <3>2, <1>1 DEF Late
  <2>2. /\ InCleaner(x)' <=> InCleaner(x)
        /\ FoundExpired(x)' <=> FoundExpired(x)
        /\ InReady(x)' <=> InReady(x)
        /\ Undelivered(x)' <=> Undelivered(x)
    BY <1>1 DEF InCleaner, FoundExpired, InReady, Undelivered
  <2>3. visibility'[x] \in {visibility[x], NoLease} /\ resent' = resent /\ cleaner' = cleaner
    BY <1>1
  <2> QED BY <2>1, <2>2, <2>3 DEF Spares
<1>4. \A x \in Tasks : TokenOK(x)' /\ UnseenOK(x)'
  BY <1>3, SparesToken, SparesUnseen DEF LeaseInv
<1>5. OnceEach'
  BY <1>1 DEF LeaseInv, OnceEach
<1> QED BY <1>2, <1>4, <1>5 DEF TokensKept

-----------------------------------------------------------------------------
(* The theorems.                                                           *)

\* The empty queue satisfies the invariant.
LEMMA LeaseStarts == ASSUME StoreAssumption, LeaseAssumption, Init PROVE LeaseInv
<1> USE DEF Init
<1>1. StoreInv /\ OnceEach /\ StoreTypeOK
  BY StoreStarts DEF StoreInv
<1>2. \A w \in Workers : worker[w] = IdleWorker
  OBVIOUS
<1>3. TypeOK
  BY <1>1 DEF TypeOK, IdleWorker, IdleCleaner, StoreInit, LeaseAssumption
<1>4. WorkerLocals /\ CleanerLocals /\ CleanerKnows
  BY <1>2 DEF WorkerLocals, CleanerLocals, CleanerKnows, IdleWorker, IdleCleaner
<1>5. ASSUME NEW t \in Tasks PROVE TokenOK(t) /\ UnseenOK(t)
  <2>1. Held(t) = {} /\ PreLease(t) = {}
    BY <1>2 DEF Held, PreLease, IdleWorker, StoreAssumption
  <2>2. ~InReady(t) /\ visibility[t] = NoLease
    BY DEF InReady, StoreInit
  <2>3. ~InCleaner(t) /\ ~FoundExpired(t) /\ cleaner.pc # "push"
    BY DEF InCleaner, FoundExpired, IdleCleaner
  <2> QED BY <2>1, <2>2, <2>3 DEF TokenOK, UnseenOK, Nowhere
<1> QED BY <1>1, <1>3, <1>4, <1>5 DEF LeaseInv

\* Every step keeps the invariant.
LEMMA NextKeepsLease ==
  ASSUME StoreAssumption, LeaseAssumption, LeaseInv, [Next]_vars
  PROVE  LeaseInv'
<1>1. ASSUME TypeOK' /\ WorkerLocals' /\ CleanerLocals', StoreTypeOK' => TokensKept PROVE LeaseInv'
  BY <1>1 DEF LeaseInv, TokensKept, TypeOK
<1>2. TypeOK /\ WorkerLocals /\ CleanerLocals /\ HandlerLocals
  BY DEF LeaseInv, StoreInv
<1>3. ASSUME NEW a \in Handlers, HandlerStep(a), UNCHANGED leaseVars PROVE LeaseInv'
  BY <1>1, <1>2, <1>3, RequestTypes, RequestKeeps
<1>4. ASSUME NEW w \in Workers, Dequeue(w) \/ Ack(w) \/ WorkerFault(w) PROVE LeaseInv'
  <2>1. CleanerLocals'
    BY <1>2, <1>4 DEF CleanerLocals, Dequeue, Ack, WorkerFault, PopTask, Recheck, PushBack,
         MarkUser, MarkGlobal, WriteLease, ExpireLease, SetProcessing, AckUser, AckGlobal,
         AckClear, AckStatus, AckIndex
  <2> QED BY <2>1, <1>1, <1>2, <1>4, WorkerTypes, WorkerKeeps
<1>5. CASE Cleanup \/ CleanerFault
  BY <1>1, <1>2, <1>5, CleanerTypes, CleanerKeeps
<1>6. CASE Tick \/ \E t \in Tasks : DropKey(t)
  BY <1>1, <1>2, <1>6, ClockTypes, ClockKeeps
<1>7. CASE UNCHANGED vars
  <2>1. /\ UNCHANGED <<ready, status, processing, userProcessing, completed, failed, visibility>>
        /\ UNCHANGED <<submitted, batchTasks, known, told, api, faults, resent>>
        /\ UNCHANGED <<worker, cleaner, clock>>
    BY <1>7 DEF vars, storeVars, redisVars
  <2>2. TypeOK' /\ WorkerLocals' /\ CleanerLocals' /\ StoreTypeOK'
    BY <2>1, <1>2 DEF TypeOK, StoreTypeOK, WorkerLocals, CleanerLocals
  <2>3. StoreInv' /\ CleanerKnows' /\ OnceEach'
    BY <2>1, <2>2, ConsumerKeepsStore DEF LeaseInv, CleanerKnows, OnceEach
  <2>4. \A t \in Tasks : TokenOK(t)' /\ UnseenOK(t)'
    BY <2>1 DEF LeaseInv, TokenOK, UnseenOK, Undelivered, Nowhere, InReady, InCleaner, FoundExpired,
                PreLease, Held, Late
  <2> QED BY <2>2, <2>3, <2>4 DEF LeaseInv
<1> QED BY <1>3, <1>4, <1>5, <1>6, <1>7 DEF Next

\* The invariant that carries the safety of the lease holds in every behaviour.
THEOREM LeaseInductive == Spec => []LeaseInv
<1>1. Init => LeaseInv
  BY LeaseStarts, StoreAssumption, LeaseAssumption
<1>2. LeaseInv /\ [Next]_vars => LeaseInv'
  BY NextKeepsLease, StoreAssumption, LeaseAssumption
<1> QED BY <1>1, <1>2, PTL DEF Spec

\* Every variable keeps its type, whatever handlers, workers, the cleaner and
\* faults do.
THEOREM LeaseTypes == Spec => []TypeOK
<1>1. LeaseInv => TypeOK
  BY DEF LeaseInv
<1> QED BY <1>1, LeaseInductive, PTL

\* One token per task: it waits once in qa:ready, or is with one worker on its
\* way to a lease, or is leased or about to be requeued, never two of these, as
\* long as Redis was sent the id once.
THEOREM OneTokenPerTask == Spec => []SingleToken
<1>1. LeaseInv => SingleToken
  BY DEF LeaseInv, SingleToken, OnceEach, TokenOK
<1> QED BY <1>1, LeaseInductive, PTL

\* A task is delivered again only after the visibility timeout that its holder
\* was given has run out, whatever the order of scans, late acknowledgements,
\* cancellations and faults.
THEOREM RedeliveryIsLate == Spec => []NoEarlyRedelivery
<1>1. LeaseInv => NoEarlyRedelivery
  <2> SUFFICES ASSUME LeaseInv, NEW t \in Tasks \ resent, NEW w1 \in Held(t), NEW w2 \in Held(t),
                      w1 # w2
               PROVE  \E w \in {w1, w2} : worker[w].pc \in LeasedPc /\ clock > worker[w].timeoutAt
    BY DEF NoEarlyRedelivery
  <2>1. Late(w1) \/ Late(w2)
    BY DEF LeaseInv, TokenOK
  <2> QED BY <2>1 DEF Late
<1> QED BY <1>1, LeaseInductive, PTL

-----------------------------------------------------------------------------
(* The overshoot of the user limit.  A worker that has read the limit and  *)
(* not marked its task yet holds a slot of its user in advance.            *)

Checking(u) ==
  {w \in Workers : worker[w].pc = "markUser" /\ Owner[worker[w].task] = u}

SlotsInv ==
  \A u \in Users :
    /\ IsFiniteSet(userProcessing[u])
    /\ Cardinality(userProcessing[u]) + Cardinality(Checking(u))
         <= UserLimit + Cardinality(Workers) - 1

\* Sets of workers are finite and never larger than Workers.
LEMMA FewWorkers ==
  ASSUME LeaseAssumption, NEW S \in SUBSET Workers
  PROVE  /\ IsFiniteSet(S) /\ Cardinality(S) \in Nat /\ Cardinality(Workers) \in Nat
         /\ Cardinality(S) <= Cardinality(Workers) /\ Cardinality(Workers) # 0
BY FS_Subset, FS_CardinalityType, FS_EmptySet DEF LeaseAssumption

\* No slot is taken where both sets only shrink.
LEMMA FewerSlots ==
  ASSUME StoreAssumption, LeaseAssumption, SlotsInv, NEW u \in Users,
         userProcessing'[u] \subseteq userProcessing[u], Checking(u)' \subseteq Checking(u)
  PROVE  /\ IsFiniteSet(userProcessing'[u])
         /\ Cardinality(userProcessing'[u]) + Cardinality(Checking(u)')
              <= UserLimit + Cardinality(Workers) - 1
<1>1. Checking(u) \subseteq Workers
  BY DEF Checking
<1>2. IsFiniteSet(userProcessing[u])
  BY DEF SlotsInv
<1>3. /\ IsFiniteSet(userProcessing'[u]) /\ Cardinality(userProcessing'[u]) \in Nat
      /\ Cardinality(userProcessing[u]) \in Nat
      /\ Cardinality(userProcessing'[u]) <= Cardinality(userProcessing[u])
  BY <1>2, FS_Subset, FS_CardinalityType
<1>4. IsFiniteSet(Checking(u)) /\ Cardinality(Checking(u)) \in Nat /\ Cardinality(Workers) \in Nat
  BY <1>1, FewWorkers
<1>5. Cardinality(Checking(u)') \in Nat /\ Cardinality(Checking(u)') <= Cardinality(Checking(u))
  BY <1>4, FS_Subset, FS_CardinalityType
<1>6. UserLimit \in Nat
  BY DEF StoreAssumption
<1>7. Cardinality(userProcessing[u]) + Cardinality(Checking(u))
        <= UserLimit + Cardinality(Workers) - 1
  BY DEF SlotsInv
<1> QED BY <1>3, <1>4, <1>5, <1>6, <1>7

\* A worker's commands other than the check and the mark take no slot.
LEMMA CommandsTakeNoSlot ==
  ASSUME StoreAssumption, LeaseAssumption, TypeOK, NEW w \in Workers,
         Dequeue(w) \/ Ack(w) \/ WorkerFault(w), ~Recheck(w), ~MarkUser(w), NEW u \in Users
  PROVE  userProcessing'[u] \subseteq userProcessing[u] /\ Checking(u)' \subseteq Checking(u)
<1>1. WorkerMoves(w)
  BY WorkerMovesOn
<1>2. worker \in [Workers -> WorkerRecord] /\ userProcessing \in [Users -> SUBSET Tasks]
  BY DEF TypeOK, StoreTypeOK, WorkerRecord
<1>3. worker'[w].pc # "markUser"
  <2>1. ASSUME NEW from, NEW to, to # "markUser", Move(w, from, to)
        PROVE  worker'[w].pc # "markUser"
    BY <1>2, <2>1 DEF Move, WorkerRecord
  <2>2. CASE WriteLease(w) \/ ExpireLease(w) \/ SetProcessing(w) \/ AckGlobal(w) \/ AckClear(w)
             \/ AckStatus(w)
    BY <2>1, <2>2 DEF WriteLease, ExpireLease, SetProcessing, AckGlobal, AckClear, AckStatus
  <2>3. CASE PushBack(w) \/ AckIndex(w) \/ WorkerFault(w)
    BY <1>2, <2>3 DEF PushBack, AckIndex, WorkerFault, IdleWorker
  <2>4. CASE PopTask(w)
    <3> DEFINE new == [IdleWorker EXCEPT !.pc = "check", !.task = ready[Len(ready)]]
    <3>1. worker' = [worker EXCEPT ![w] = new]
      BY <2>4 DEF PopTask
    <3>2. new.pc = "check"
      BY DEF IdleWorker
    <3> HIDE DEF new
    <3> QED BY <3>1, <3>2, <1>2
  <2>5. CASE MarkGlobal(w)
    <3>1. worker' = [worker EXCEPT ![w] = [worker[w] EXCEPT !.pc = "lease",
                                             !.timeoutAt = clock + VisibilityTimeout]]
      BY <2>5 DEF MarkGlobal
    <3> QED BY <3>1, <1>2 DEF WorkerRecord
  <2>6. CASE AckUser(w)
    <3>1. PICK ok \in BOOLEAN :
            worker' = [worker EXCEPT ![w] = [worker[w] EXCEPT !.pc = "ackGlobal", !.ok = ok]]
      BY <2>6 DEF AckUser
    <3> QED BY <3>1, <1>2 DEF WorkerRecord
  <2> QED BY <2>2, <2>3, <2>4, <2>5, <2>6 DEF Dequeue, Ack
<1>4. Checking(u)' \subseteq Checking(u)
  BY <1>1, <1>3 DEF Checking, WorkerMoves
<1>5. userProcessing'[u] \subseteq userProcessing[u]
  BY <1>2 DEF Dequeue, Ack, WorkerFault, PopTask, PushBack, MarkGlobal, WriteLease, ExpireLease,
     SetProcessing, AckUser, AckGlobal, AckClear, AckStatus, AckIndex, KeepSets, storeVars, redisVars
<1> QED BY <1>4, <1>5

\* The check takes a slot of a user below the limit.
LEMMA CheckTakesSlot ==
  ASSUME StoreAssumption, LeaseAssumption, TypeOK, WorkerLocals, SlotsInv, NEW w \in Workers,
         Recheck(w)
  PROVE  SlotsInv'
<1>1. WorkerMoves(w) /\ UNCHANGED userProcessing
  BY WorkerMovesOn DEF Recheck, Dequeue, storeVars, redisVars
<1>2. worker \in [Workers -> WorkerRecord] /\ worker[w].task \in Tasks
  BY DEF TypeOK, WorkerRecord, Recheck
<1> SUFFICES ASSUME NEW u \in Users
             PROVE  /\ IsFiniteSet(userProcessing'[u])
                    /\ Cardinality(userProcessing'[u]) + Cardinality(Checking(u)')
                         <= UserLimit + Cardinality(Workers) - 1
  BY DEF SlotsInv
<1>3. worker'[w].task = worker[w].task /\ worker'[w].pc \in {"markUser", "pushBack"}
  <2>1. PICK pc \in {"markUser", "pushBack"} :
          worker' = [worker EXCEPT ![w] = [worker[w] EXCEPT !.pc = pc]]
    BY DEF Recheck
  <2> QED BY <2>1, <1>2 DEF WorkerRecord
<1>4. CASE worker'[w].pc = "pushBack" \/ Owner[worker[w].task] # u
  BY <1>1, <1>3, <1>4, FewerSlots DEF Checking, WorkerMoves
<1>5. CASE worker'[w].pc = "markUser" /\ Owner[worker[w].task] = u
  <2>1. Cardinality(userProcessing[u]) < UserLimit
    <3>1. CASE ~(Cardinality(userProcessing[Owner[worker[w].task]]) < UserLimit)
      <4>1. worker' = [worker EXCEPT ![w] = [worker[w] EXCEPT !.pc = "pushBack"]]
        BY <3>1 DEF Recheck
      <4> QED BY <4>1, <1>2, <1>5 DEF WorkerRecord
    <3> QED BY <3>1, <1>5
  <2>2. Checking(u)' \in SUBSET Workers
    BY DEF Checking
  <2>3. /\ Cardinality(Checking(u)') \in Nat /\ Cardinality(Workers) \in Nat
        /\ Cardinality(Checking(u)') <= Cardinality(Workers)
    BY <2>2, FewWorkers
  <2>4. IsFiniteSet(userProcessing[u]) /\ Cardinality(userProcessing[u]) \in Nat /\ UserLimit \in Nat
    BY FS_CardinalityType DEF SlotsInv, StoreAssumption
  <2> QED BY <1>1, <2>1, <2>3, <2>4
<1> QED BY <1>3, <1>4, <1>5

\* The mark turns the slot held in advance into a member of the user's set.
LEMMA MarkUsesSlot ==
  ASSUME StoreAssumption, LeaseAssumption, TypeOK, SlotsInv, NEW w \in Workers, MarkUser(w)
  PROVE  SlotsInv'
<1> DEFINE t == worker[w].task
<1>1. /\ worker \in [Workers -> WorkerRecord] /\ worker[w].pc = "markUser" /\ t \in Tasks
      /\ Owner[t] \in Users /\ UserLimit \in Nat
      /\ userProcessing \in [Users -> SUBSET Tasks]
  BY DEF TypeOK, StoreTypeOK, WorkerRecord, MarkUser, Move, StoreAssumption
<1>2. /\ worker'[w].pc = "markGlobal" /\ \A v \in Workers : v # w => worker'[v] = worker[v]
  <2>1. worker' = [worker EXCEPT ![w] = [worker[w] EXCEPT !.pc = "markGlobal"]]
    BY DEF MarkUser, Move
  <2> QED BY <2>1, <1>1 DEF WorkerRecord
<1>3. /\ userProcessing'[Owner[t]] = userProcessing[Owner[t]] \cup {t}
      /\ \A u \in Users : u # Owner[t] => userProcessing'[u] = userProcessing[u]
  BY <1>1 DEF MarkUser
<1> HIDE DEF t
<1> SUFFICES ASSUME NEW u \in Users
             PROVE  /\ IsFiniteSet(userProcessing'[u])
                    /\ Cardinality(userProcessing'[u]) + Cardinality(Checking(u)')
                         <= UserLimit + Cardinality(Workers) - 1
  BY DEF SlotsInv
<1>4. CASE u # Owner[t]
  BY <1>2, <1>3, <1>4, FewerSlots DEF Checking
<1>5. CASE u = Owner[t]
  <2>1. w \in Checking(u) /\ Checking(u)' = Checking(u) \ {w} /\ Checking(u) \in SUBSET Workers
    BY <1>1, <1>2, <1>5 DEF Checking, t
  <2>2. IsFiniteSet(Checking(u)) /\ Cardinality(Checking(u)) \in Nat /\ Cardinality(Workers) \in Nat
    BY <2>1, FewWorkers
  <2>3. Cardinality(Checking(u)') = Cardinality(Checking(u)) - 1
    BY <2>1, <2>2, FS_RemoveElement
  <2>4. /\ IsFiniteSet(userProcessing[u])
        /\ Cardinality(userProcessing[u]) + Cardinality(Checking(u))
             <= UserLimit + Cardinality(Workers) - 1
    BY DEF SlotsInv
  <2>5. /\ IsFiniteSet(userProcessing'[u])
        /\ Cardinality(userProcessing'[u]) \in Nat /\ Cardinality(userProcessing[u]) \in Nat
        /\ Cardinality(userProcessing'[u]) <= Cardinality(userProcessing[u]) + 1
    <3>1. IsFiniteSet(userProcessing'[u])
      BY <1>3, <1>5, <2>4, FS_AddElement
    <3>2. \/ Cardinality(userProcessing'[u]) = Cardinality(userProcessing[u])
          \/ Cardinality(userProcessing'[u]) = Cardinality(userProcessing[u]) + 1
      <4>1. Cardinality(userProcessing[u] \cup {t}) =
              IF t \in userProcessing[u] THEN Cardinality(userProcessing[u])
              ELSE Cardinality(userProcessing[u]) + 1
        BY <2>4, FS_AddElement
      <4> QED BY <4>1, <1>3, <1>5
    <3> QED BY <3>1, <3>2, <2>4, FS_CardinalityType
  <2> QED BY <2>2, <2>3, <2>4, <2>5, <1>1
<1> QED BY <1>4, <1>5

\* Every step keeps the bound.
LEMMA NextKeepsSlots ==
  ASSUME StoreAssumption, LeaseAssumption, LeaseInv, SlotsInv, [Next]_vars
  PROVE  SlotsInv'
<1>1. TypeOK /\ WorkerLocals /\ userProcessing \in [Users -> SUBSET Tasks]
  BY DEF LeaseInv, TypeOK, StoreTypeOK
<1>2. ASSUME \A u \in Users : userProcessing'[u] \subseteq userProcessing[u]
                              /\ Checking(u)' \subseteq Checking(u)
      PROVE  SlotsInv'
  BY <1>2, FewerSlots DEF SlotsInv
<1>3. ASSUME UNCHANGED worker, NEW u \in Users PROVE Checking(u)' = Checking(u)
  BY <1>3 DEF Checking
<1>4. ASSUME NEW a \in Handlers, HandlerStep(a), UNCHANGED leaseVars PROVE SlotsInv'
  <2>1. \A u \in Users : userProcessing'[u] \subseteq userProcessing[u]
    BY <1>1, <1>4 DEF HandlerStep, SubmitSingle, CreateBatch, ReadForCancel, Enqueue, Cancel,
       HandlerFault, CheckUserLimit, CheckGlobalLimit, SaveTask, PushReady, JoinBatch, UnmarkUser,
       UnmarkGlobal, ClearVisibility, RemoveReady, MarkCancelled, redisVars
  <2> QED BY <2>1, <1>2, <1>3, <1>4 DEF leaseVars
<1>5. ASSUME NEW w \in Workers, Dequeue(w) \/ Ack(w) \/ WorkerFault(w) PROVE SlotsInv'
  BY <1>1, <1>2, <1>5, CommandsTakeNoSlot, CheckTakesSlot, MarkUsesSlot
<1>6. CASE Cleanup \/ CleanerFault \/ Tick \/ \E t \in Tasks : DropKey(t)
  <2>1. UNCHANGED worker
    BY <1>6 DEF Cleanup, CleanerFault, Tick, DropKey, ScanLeases, ReadLease, ScanDone,
       RequeueUser, RequeueGlobal, RequeueClear, RequeuePush, RequeueStatus
  <2>2. UNCHANGED userProcessing \/ \E t \in Tasks : RequeueUser(t)
    BY <1>6 DEF Cleanup, CleanerFault, Tick, DropKey, ScanLeases, ReadLease, ScanDone,
       RequeueGlobal, RequeueClear, RequeuePush, RequeueStatus, KeepSets, storeVars, redisVars
  <2>3. ASSUME NEW t \in Tasks, RequeueUser(t)
        PROVE  \A u \in Users : userProcessing'[u] \subseteq userProcessing[u]
    BY <1>1, <2>3 DEF RequeueUser
  <2> QED BY <2>1, <2>2, <2>3, <1>2, <1>3
<1>7. CASE UNCHANGED vars
  <2>1. UNCHANGED <<worker, userProcessing>>
    BY <1>7 DEF vars, storeVars, redisVars
  <2> QED BY <2>1, <1>2, <1>3
<1> QED BY <1>4, <1>5, <1>6, <1>7 DEF Next

\* Workers that read the user limit at the same time overshoot it by at most one
\* slot per further worker, however often tasks are requeued, cancelled or lost.
THEOREM OvershootIsSmall == Spec => []OvershootBounded
<1>1. Init => SlotsInv
  <2> SUFFICES ASSUME Init, NEW u \in Users
               PROVE  /\ IsFiniteSet(userProcessing[u])
                      /\ Cardinality(userProcessing[u]) + Cardinality(Checking(u))
                           <= UserLimit + Cardinality(Workers) - 1
    BY DEF SlotsInv
  <2>1. userProcessing[u] = {} /\ Checking(u) = {}
    BY DEF Init, StoreInit, Checking, IdleWorker
  <2>2. Cardinality(Workers) \in Nat /\ Cardinality(Workers) # 0 /\ UserLimit \in Nat
    BY FewWorkers, LeaseAssumption, StoreAssumption DEF StoreAssumption
  <2> QED BY <2>1, <2>2, FS_EmptySet
<1>2. LeaseInv /\ SlotsInv /\ [Next]_vars => SlotsInv'
  BY NextKeepsSlots, StoreAssumption, LeaseAssumption
<1>3. SlotsInv => OvershootBounded
  <2> SUFFICES ASSUME SlotsInv, NEW u \in Users
               PROVE  Cardinality(userProcessing[u]) <= UserLimit + Cardinality(Workers) - 1
    BY DEF OvershootBounded
  <2>1. Checking(u) \in SUBSET Workers
    BY DEF Checking
  <2>2. Cardinality(Checking(u)) \in Nat /\ Cardinality(Workers) \in Nat
    BY <2>1, FewWorkers, LeaseAssumption
  <2>3. Cardinality(userProcessing[u]) \in Nat /\ UserLimit \in Nat
    BY FS_CardinalityType, StoreAssumption DEF SlotsInv, StoreAssumption
  <2> QED BY <2>2, <2>3 DEF SlotsInv
<1> QED BY <1>1, <1>2, <1>3, LeaseInductive, PTL DEF Spec

=============================================================================
