----------------------------- MODULE QueueLease -----------------------------
(***************************************************************************)
(* The consumer side that QueueService itself offers: dequeue_task,        *)
(* ack_task and the visibility timeout with cleanup_expired_tasks          *)
(* (app/services/queue_service.py, app/services/queue/helpers.py).  A      *)
(* worker dequeues a task, works on it for any time and acknowledges it,   *)
(* or abandons it; one cleaner requeues the tasks whose lease ran out.     *)
(* Time is the integer seconds of int(time.time()).                        *)
(***************************************************************************)
EXTENDS QueueStore

CONSTANTS
  Workers,            (* callers of dequeue_task / ack_task                *)
  VisibilityTimeout,  (* visibility_timeout, in seconds                    *)
  MaxClock,           (* bound on time                                     *)
  NoTTL               (* the expiry of a key that has none                 *)

ASSUME LeaseAssumption ==
  /\ IsFiniteSet(Workers) /\ Workers # {}
  /\ VisibilityTimeout \in Nat \ {0} /\ MaxClock \in Nat
  /\ NoTTL \notin Nat

VARIABLES worker, cleaner, clock

leaseVars == <<worker, cleaner, clock>>
vars == <<storeVars, worker, cleaner, clock>>

\* From RPOP until timeout_at is computed; then until the task is acknowledged.
PreLeasePc == {"check", "pushBack", "markUser", "markGlobal"}
LeasedPc == {"lease", "expire", "status", "busy",
             "ackGlobal", "ackClear", "ackStatus", "ackIndex"}

IdleWorker == [pc |-> "idle", task |-> NoTask, timeoutAt |-> 0, ok |-> FALSE]
IdleCleaner == [pc |-> "idle", now |-> 0, keys |-> {}, expired |-> {}, task |-> NoTask]

Init ==
  /\ StoreInit
  /\ worker = [w \in Workers |-> IdleWorker]
  /\ cleaner = IdleCleaner
  /\ clock = 0

Move(w, from, to) ==
  /\ worker[w].pc = from
  /\ worker' = [worker EXCEPT ![w].pc = to]

\* The parts of the Redis state a step of these actions leaves alone.
KeepStore == UNCHANGED <<submitted, batchTasks, known, told, api>>
KeepFaults == UNCHANGED <<faults, resent>>
KeepSets == UNCHANGED <<processing, userProcessing, completed, failed>>

-----------------------------------------------------------------------------
(* dequeue_task                                                            *)

\* RPOP: the right end, the oldest push.
PopTask(w) ==
  /\ worker[w].pc = "idle"
  /\ ready # <<>>
  /\ worker' = [worker EXCEPT ![w] = [IdleWorker EXCEPT !.pc = "check",
                                                     !.task = ready[Len(ready)]]]
  /\ ready' = SubSeq(ready, 1, Len(ready) - 1)
  /\ KeepSets /\ KeepStore /\ KeepFaults
  /\ UNCHANGED <<status, visibility, cleaner, clock>>

\* Mutant of Recheck: the limit checked at enqueue time is trusted.
RecheckSkipped(w) ==
  /\ worker[w].pc = "check"
  /\ worker' = [worker EXCEPT ![w].pc = "markUser"]
  /\ UNCHANGED <<storeVars, cleaner, clock>>

\* The hash is there and its user never changes; SCARD of the user's set decides.
Recheck(w) ==
  /\ worker[w].pc = "check"
  /\ worker' = [worker EXCEPT ![w].pc =
       IF Cardinality(userProcessing[Owner[worker[w].task]]) < UserLimit
       THEN "markUser" ELSE "pushBack"]
  /\ UNCHANGED <<storeVars, cleaner, clock>>

\* Mutant of PushBack: a task over the limit is dropped.
PushBackDropped(w) ==
  /\ worker[w].pc = "pushBack"
  /\ worker' = [worker EXCEPT ![w] = IdleWorker]
  /\ KeepSets /\ KeepStore /\ KeepFaults
  /\ UNCHANGED <<ready, status, visibility, cleaner, clock>>

PushBack(w) ==
  /\ worker[w].pc = "pushBack"
  /\ Push(worker[w].task)
  /\ worker' = [worker EXCEPT ![w] = IdleWorker]
  /\ KeepSets /\ KeepStore
  /\ UNCHANGED <<status, visibility, cleaner, clock>>

MarkUser(w) ==
  /\ Move(w, "markUser", "markGlobal")
  /\ userProcessing' = [userProcessing EXCEPT ![Owner[worker[w].task]] =
                                                @ \cup {worker[w].task}]
  /\ KeepStore /\ KeepFaults
  /\ UNCHANGED <<ready, status, processing, completed, failed, visibility,
                 cleaner, clock>>

\* SADD qa:processing; timeout_at is computed before the next command is sent.
MarkGlobal(w) ==
  /\ worker[w].pc = "markGlobal"
  /\ processing' = processing \cup {worker[w].task}
  /\ worker' = [worker EXCEPT ![w].pc = "lease",
                              ![w].timeoutAt = clock + VisibilityTimeout]
  /\ KeepStore /\ KeepFaults
  /\ UNCHANGED <<ready, status, userProcessing, completed, failed, visibility,
                 cleaner, clock>>

\* HSET qa:visibility:<id>, which keeps the TTL the key may have.
WriteLease(w) ==
  /\ Move(w, "lease", "expire")
  /\ LET t == worker[w].task
     IN  visibility' = [visibility EXCEPT ![t] =
           [timeoutAt |-> worker[w].timeoutAt,
            expiresAt |-> IF @ = NoLease THEN NoTTL ELSE @.expiresAt]]
  /\ KeepSets /\ KeepStore /\ KeepFaults
  /\ UNCHANGED <<ready, status, cleaner, clock>>

\* EXPIRE qa:visibility:<id>: the key lives for exactly the visibility timeout.
ExpireLease(w) ==
  /\ Move(w, "expire", "status")
  /\ LET t == worker[w].task
     IN  IF visibility[t] = NoLease THEN UNCHANGED visibility
         ELSE visibility' = [visibility EXCEPT ![t].expiresAt = clock + VisibilityTimeout]
  /\ KeepSets /\ KeepStore /\ KeepFaults
  /\ UNCHANGED <<ready, status, cleaner, clock>>

\* Mutant of SetProcessing: a status value the queue does not know.
SetProcessingRunning(w) ==
  /\ Move(w, "status", "busy")
  /\ status' = [status EXCEPT ![worker[w].task] = "running"]
  /\ KeepSets /\ KeepStore /\ KeepFaults
  /\ UNCHANGED <<ready, visibility, cleaner, clock>>

SetProcessing(w) ==
  /\ Move(w, "status", "busy")
  /\ status' = [status EXCEPT ![worker[w].task] = "processing"]
  /\ KeepSets /\ KeepStore /\ KeepFaults
  /\ UNCHANGED <<ready, visibility, cleaner, clock>>

Dequeue(w) ==
  \/ PopTask(w) \/ Recheck(w) \/ PushBack(w) \/ MarkUser(w) \/ MarkGlobal(w)
  \/ WriteLease(w) \/ ExpireLease(w) \/ SetProcessing(w)

-----------------------------------------------------------------------------
(* ack_task: nothing is checked about who holds the task, or its status.   *)

\* The work is done, well or badly; the first command of ack_task.
AckUser(w) ==
  /\ worker[w].pc = "busy"
  /\ \E ok \in BOOLEAN :
       worker' = [worker EXCEPT ![w].pc = "ackGlobal", ![w].ok = ok]
  /\ userProcessing' = [userProcessing EXCEPT ![Owner[worker[w].task]] =
                                                @ \ {worker[w].task}]
  /\ KeepStore /\ KeepFaults
  /\ UNCHANGED <<ready, status, processing, completed, failed, visibility,
                 cleaner, clock>>

AckGlobal(w) ==
  /\ Move(w, "ackGlobal", "ackClear")
  /\ processing' = processing \ {worker[w].task}
  /\ KeepStore /\ KeepFaults
  /\ UNCHANGED <<ready, status, userProcessing, completed, failed, visibility,
                 cleaner, clock>>

AckClear(w) ==
  /\ Move(w, "ackClear", "ackStatus")
  /\ visibility' = [visibility EXCEPT ![worker[w].task] = NoLease]
  /\ KeepSets /\ KeepStore /\ KeepFaults
  /\ UNCHANGED <<ready, status, cleaner, clock>>

AckStatus(w) ==
  /\ Move(w, "ackStatus", "ackIndex")
  /\ status' = [status EXCEPT ![worker[w].task] =
                  IF worker[w].ok THEN "completed" ELSE "failed"]
  /\ KeepSets /\ KeepStore /\ KeepFaults
  /\ UNCHANGED <<ready, visibility, cleaner, clock>>

AckIndex(w) ==
  /\ worker[w].pc = "ackIndex"
  /\ IF worker[w].ok
     THEN completed' = completed \cup {worker[w].task} /\ UNCHANGED failed
     ELSE failed' = failed \cup {worker[w].task} /\ UNCHANGED completed
  /\ worker' = [worker EXCEPT ![w] = IdleWorker]
  /\ KeepStore /\ KeepFaults
  /\ UNCHANGED <<ready, status, processing, userProcessing, visibility,
                 cleaner, clock>>

Ack(w) == AckUser(w) \/ AckGlobal(w) \/ AckClear(w) \/ AckStatus(w) \/ AckIndex(w)

\* The worker dies, or a Redis error makes dequeue_task return None or ack_task
\* False: it drops the task where it stands.
WorkerFault(w) ==
  /\ faults < MaxFaults
  /\ worker[w].pc # "idle"
  /\ worker' = [worker EXCEPT ![w] = IdleWorker]
  /\ faults' = faults + 1
  /\ UNCHANGED <<redisVars, known, told, api, resent, cleaner, clock>>

-----------------------------------------------------------------------------
(* cleanup_expired_tasks, _handle_expired_task                             *)

\* KEYS qa:visibility:* and the time everything below is compared with.
ScanLeases ==
  /\ cleaner.pc = "idle"
  /\ \E t \in Tasks : visibility[t] # NoLease
  /\ cleaner' = [IdleCleaner EXCEPT !.pc = "scan", !.now = clock,
                   !.keys = {t \in Tasks : visibility[t] # NoLease}]
  /\ UNCHANGED <<storeVars, worker, clock>>

\* Mutant of ReadLease: a lease expires one second early.
ReadLeaseEarly(t) ==
  /\ cleaner.pc = "scan" /\ t \in cleaner.keys
  /\ cleaner' = [cleaner EXCEPT !.keys = @ \ {t},
       !.expired = IF visibility[t] # NoLease /\ cleaner.now >= visibility[t].timeoutAt
                   THEN @ \cup {t} ELSE @]
  /\ UNCHANGED <<storeVars, worker, clock>>

\* HGETALL of one key: gone, still running, or expired.
ReadLease(t) ==
  /\ cleaner.pc = "scan" /\ t \in cleaner.keys
  /\ cleaner' = [cleaner EXCEPT !.keys = @ \ {t},
       !.expired = IF visibility[t] # NoLease /\ cleaner.now > visibility[t].timeoutAt
                   THEN @ \cup {t} ELSE @]
  /\ UNCHANGED <<storeVars, worker, clock>>

ScanDone ==
  /\ cleaner.pc = "scan" /\ cleaner.keys = {} /\ cleaner.expired = {}
  /\ cleaner' = IdleCleaner
  /\ UNCHANGED <<storeVars, worker, clock>>

\* The expired tasks are handled one by one; the lease is not looked at again.
RequeueUser(t) ==
  /\ cleaner.pc = "scan" /\ cleaner.keys = {} /\ t \in cleaner.expired
  /\ cleaner' = [cleaner EXCEPT !.pc = "global", !.task = t, !.expired = @ \ {t}]
  /\ userProcessing' = [userProcessing EXCEPT ![Owner[t]] = @ \ {t}]
  /\ KeepStore /\ KeepFaults
  /\ UNCHANGED <<ready, status, processing, completed, failed, visibility,
                 worker, clock>>

CleanerMove(from, to) ==
  cleaner.pc = from /\ cleaner' = [cleaner EXCEPT !.pc = to]

RequeueGlobal ==
  /\ CleanerMove("global", "clear")
  /\ processing' = processing \ {cleaner.task}
  /\ KeepStore /\ KeepFaults
  /\ UNCHANGED <<ready, status, userProcessing, completed, failed, visibility,
                 worker, clock>>

\* Mutant of RequeueClear: the lease of a requeued task stays.
RequeueClearMissing ==
  /\ CleanerMove("clear", "push")
  /\ KeepSets /\ KeepStore /\ KeepFaults
  /\ UNCHANGED <<ready, status, visibility, worker, clock>>

RequeueClear ==
  /\ CleanerMove("clear", "push")
  /\ visibility' = [visibility EXCEPT ![cleaner.task] = NoLease]
  /\ KeepSets /\ KeepStore /\ KeepFaults
  /\ UNCHANGED <<ready, status, worker, clock>>

RequeuePush ==
  /\ CleanerMove("push", "status")
  /\ Push(cleaner.task)
  /\ KeepSets /\ KeepStore
  /\ UNCHANGED <<status, visibility, worker, clock>>

RequeueStatus ==
  /\ cleaner.pc = "status"
  /\ status' = [status EXCEPT ![cleaner.task] = "queued"]
  /\ cleaner' = [cleaner EXCEPT !.pc = "scan", !.task = NoTask]
  /\ KeepSets /\ KeepStore /\ KeepFaults
  /\ UNCHANGED <<ready, visibility, worker, clock>>

CleanerFault ==
  /\ faults < MaxFaults
  /\ cleaner.pc # "idle"
  /\ cleaner' = IdleCleaner
  /\ faults' = faults + 1
  /\ UNCHANGED <<redisVars, known, told, api, resent, worker, clock>>

Cleanup ==
  \/ ScanLeases \/ (\E t \in Tasks : ReadLease(t)) \/ ScanDone
  \/ (\E t \in Tasks : RequeueUser(t))
  \/ RequeueGlobal \/ RequeueClear \/ RequeuePush \/ RequeueStatus

-----------------------------------------------------------------------------
(* Time.  Redis drops a key in the second its TTL ends, before the next    *)
(* second begins.                                                          *)

Due(t) == visibility[t] # NoLease /\ visibility[t].expiresAt # NoTTL
          /\ visibility[t].expiresAt <= clock

DropKey(t) ==
  /\ Due(t)
  /\ visibility' = [visibility EXCEPT ![t] = NoLease]
  /\ KeepSets /\ KeepStore /\ KeepFaults
  /\ UNCHANGED <<ready, status, worker, cleaner, clock>>

Tick ==
  /\ clock < MaxClock
  /\ \A t \in Tasks : ~Due(t)
  /\ clock' = clock + 1
  /\ UNCHANGED <<storeVars, worker, cleaner>>

-----------------------------------------------------------------------------
Next ==
  \/ \E a \in Handlers : HandlerStep(a) /\ UNCHANGED leaseVars
  \/ \E w \in Workers : Dequeue(w) \/ Ack(w) \/ WorkerFault(w)
  \/ Cleanup \/ CleanerFault
  \/ \E t \in Tasks : DropKey(t)
  \/ Tick

Spec == Init /\ [][Next]_vars

\* Time passes, Redis expires keys, the cleanup job and a live worker's calls go on.
Fairness ==
  /\ \A a \in Handlers : WF_vars((Enqueue(a) \/ Cancel(a)) /\ UNCHANGED leaseVars)
  /\ \A w \in Workers : WF_vars(Dequeue(w) \/ Ack(w))
  /\ WF_vars(Cleanup)
  /\ WF_vars(\E t \in Tasks : DropKey(t))
  /\ WF_vars(Tick)

FairSpec == Spec /\ Fairness

-----------------------------------------------------------------------------
Held(t) == {w \in Workers : worker[w].task = t}
PreLease(t) == {w \in Held(t) : worker[w].pc \in PreLeasePc \cup {"lease"}}

\* The cleaner has found t expired and not pushed it yet.
InCleaner(t) ==
  \/ t \in cleaner.keys \cup cleaner.expired
  \/ cleaner.task = t /\ cleaner.pc \in {"global", "clear", "push"}

\* Every variable has its type.
TypeOK ==
  /\ StoreTypeOK
  /\ visibility \in [Tasks -> [timeoutAt : Nat, expiresAt : Nat \cup {NoTTL}] \cup {NoLease}]
  /\ worker \in [Workers -> [pc : {"idle"} \cup PreLeasePc \cup LeasedPc,
                             task : Tasks \cup {NoTask}, timeoutAt : Nat, ok : BOOLEAN]]
  /\ \A w \in Workers : worker[w].pc # "idle" => worker[w].task \in Tasks
  /\ cleaner \in [pc : {"idle", "scan", "global", "clear", "push", "status"}, now : Nat,
                  keys : SUBSET Tasks, expired : SUBSET Tasks, task : Tasks \cup {NoTask}]
  /\ cleaner.pc \in {"global", "clear", "push", "status"} => cleaner.task \in Tasks
  /\ clock \in 0..MaxClock

\* One token per task: it is once in qa:ready, or with one worker on its way to
\* a lease, or leased / about to be requeued - never two of these - so with one
\* cleaner a stale scan requeues nothing twice (dequeue_task, _handle_expired_task).
SingleToken ==
  \A t \in Tasks \ resent :
    /\ \A i, j \in DOMAIN ready : ready[i] = t /\ ready[j] = t => i = j
    /\ \A w1, w2 \in PreLease(t) : w1 = w2
    /\ InReady(t) => PreLease(t) = {}
    /\ (visibility[t] # NoLease \/ InCleaner(t)) => ~InReady(t) /\ PreLease(t) = {}

\* Two workers hold the same task only after the visibility timeout one of them
\* was given has run out: no interleaving of scans, late acknowledgements and
\* cancellations delivers a task early.
NoEarlyRedelivery ==
  \A t \in Tasks \ resent : \A w1, w2 \in Held(t) :
    w1 # w2 => \E w \in {w1, w2} : worker[w].pc \in LeasedPc /\ clock > worker[w].timeoutAt

\* dequeue_task checks the user's limit and marks the task some commands later.
\* Workers that checked at the same time overshoot it, but never by more than one
\* slot per further worker.
OvershootBounded ==
  \A u \in Users :
    Cardinality(userProcessing[u]) <= UserLimit + Cardinality(Workers) - 1

\* A queued task is acknowledged or cancelled in the end, unless a fault loses it:
\* the push-back at the user limit cannot starve it for ever.
QueuedTasksEnd ==
  \A t \in Tasks :
    InReady(t) ~> \/ t \in completed \cup failed
                  \/ status[t] = "cancelled"
                  \/ faults > 0

\* What the visibility timeout is for: a leased task no worker holds any more is
\* queued again (cleanup_expired_tasks), unless it is cancelled.  Leases that run
\* out beyond the bound on time are not asked for.
AbandonedRequeued ==
  \A t \in Tasks :
    (visibility[t] # NoLease /\ visibility[t].timeoutAt < MaxClock /\ Held(t) = {})
      ~> (InReady(t) \/ status[t] = "cancelled")
=============================================================================
