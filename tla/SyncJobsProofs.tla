--------------------------- MODULE SyncJobsProofs ---------------------------
(***************************************************************************)
(* The records of the scheduled jobs and the bodies that run beside them,  *)
(* for any number of jobs, records, dispatches, calls and items, and any   *)
(* thresholds: no success without a run, cancellation is obeyed, what has  *)
(* ended stays ended but for the named reasons.                            *)
(***************************************************************************)
EXTENDS SyncJobs, RateLimiterProofs, FiniteSetTheorems, WellFoundedInduction

-----------------------------------------------------------------------------
\* The inductive invariant

\* What a handler has found: a young record of its own job.
HandlersAgree ==
  \A n \in 1 .. MaxRuns :
    /\ handlers[n].pc # "off" => handlers[n].status # "none"
    /\ handlers[n].pc = "write" /\ handlers[n].id # 0 =>
         /\ executions[handlers[n].id].job = handlers[n].job
         /\ executions[handlers[n].id].status # "none"
         /\ executions[handlers[n].id].age <= RecentAge

\* What the zombie check has found: no handler can have it in hand as well.
ZombiesAreOld ==
  \A i \in zombies : /\ executions[i].age > ZombieAge
                     /\ executions[i].status \in {"running", "failed", "deleted"}

RequestKnown == request.op \in {"cancel", "mark", "delete"} => request.id \in Ids

BodyRuns == \A j \in Jobs : body[j].pc # "idle" => running[j] # 0

\* A body begins one item more than it had unanswered looks, and none more before
\* it looks again.
LateAt(j, pc, l, n) ==
  /\ l \in Nat /\ n \in Nat /\ l <= 1 + n
  /\ pc \in {"init", "permit", "asleep", "work"} \/ kind[j] \in {"financial", "plain"} => l <= n

LateOnce == \A j \in Jobs : LateAt(j, body[j].pc, late[j], blind[j])

RunsCounted == \A j \in Jobs : successes[j] + (IF running[j] # 0 THEN 1 ELSE 0) <= runs

\* The records that say success, and the events that are about to say it.
Shown(j) == {i \in Ids : executions[i].job = j /\ executions[i].status = "success"}
Heard(j) == {n \in 1 .. MaxRuns : /\ handlers[n].pc # "off" /\ handlers[n].job = j
                                  /\ handlers[n].status = "success"}
SuccessesCovered == \A j \in Jobs : Cardinality(Shown(j)) + Cardinality(Heard(j)) <= successes[j]

JobInv ==
  /\ TypeOK /\ LimiterInv
  /\ HandlersAgree /\ ZombiesAreOld /\ RequestKnown /\ BodyRuns /\ LateOnce /\ RunsCounted /\ SuccessesCovered

-----------------------------------------------------------------------------
\* One record at a time

Record == [job : Jobs \cup {"none"}, status : Statuses, cancel : BOOLEAN, age : 0 .. ZombieAge + 1]
Handler == [job : Jobs \cup {"none"}, status : Ended \cup {"none", "missed"},
            pc : {"off", "find", "write"}, id : 0 .. MaxRecords]

\* Record i becomes e; a record keeps its job and its age until the next tick.
Written(i, e) ==
  /\ i \in Ids /\ e \in Record /\ e.status # "none"
  /\ executions' = [executions EXCEPT ![i] = e]
  /\ executions[i].status # "none" => e.job = executions[i].job /\ e.age = executions[i].age

\* The first id without a record.
LEMMA FirstFree ==
  ASSUME NEW S \in SUBSET Ids, S # {}
  PROVE  \E i \in S : \A k \in 1 .. i - 1 : k \notin S
<1>0. MaxRecords \in Nat
  BY SchedulerAssumption
<1>1. S \subseteq Nat
  BY <1>0 DEF Ids
<1>2. PICK m \in S : \A x \in S : ~(<<x, m>> \in OpToRel(<, Nat))
  BY <1>1, NatLessThanWellFounded, WFMin
<1>3. ASSUME NEW k \in 1 .. m - 1, k \in S PROVE FALSE
  <2>1. k < m
    BY <1>1, <1>3
  <2> QED
    BY <1>1, <1>2, <1>3, <2>1 DEF OpToRel
<1> QED
  BY <1>3

\* find_one with the newest first: a member, and nothing of an empty set.
LEMMA NewestIsMember ==
  ASSUME NEW S \in SUBSET Ids
  PROVE  /\ Newest(S) \in 0 .. MaxRecords
         /\ Newest(S) # 0 => Newest(S) \in S
<1>0. MaxRecords \in Nat
  BY SchedulerAssumption
<1>1. CASE S = {}
  BY <1>0, <1>1 DEF Newest
<1>2. CASE S # {}
  <2> DEFINE T == {MaxRecords - i : i \in S}
  <2>1. T \subseteq Nat /\ T # {}
    <3>1. ASSUME NEW i \in S PROVE MaxRecords - i \in Nat
      BY <1>0 DEF Ids
    <3> QED
      BY <1>2, <3>1
  <2>2. PICK m \in T : \A x \in T : ~(<<x, m>> \in OpToRel(<, Nat))
    BY <2>1, NatLessThanWellFounded, WFMin
  <2>3. PICK i \in S : m = MaxRecords - i
    OBVIOUS
  <2>4. ASSUME NEW k \in S PROVE k <= i
    <3>1. MaxRecords - k \in T
      OBVIOUS
    <3>2. ~(MaxRecords - k < m)
      BY <2>1, <2>2, <3>1 DEF OpToRel
    <3> QED
      BY <1>0, <2>3, <3>2 DEF Ids
  <2>5. Newest(S) \in S
    BY <1>2, <2>4 DEF Newest
  <2>6. Newest(S) \in 1 .. MaxRecords
    BY <2>5 DEF Ids
  <2> QED
    BY <1>0, <2>5, <2>6
<1> QED
  BY <1>1, <1>2

\* insert_one writes the first id that has no record.
LEMMA InsertWrites ==
  ASSUME SchedulerTypeOK, NEW j \in Jobs \cup {"none"}, NEW st \in Statuses \ {"none"}, Insert(j, st)
  PROVE  \E i \in Ids, e \in Record :
           /\ Written(i, e) /\ executions[i].status = "none"
           /\ e.job = j /\ e.status = st
<1> DEFINE Free == {k \in Ids : executions[k].status = "none"}
<1>1. Free # {}
  BY DEF Insert, Room
<1>2. PICK f \in Free : \A k \in 1 .. f - 1 : k \notin Free
  BY <1>1, FirstFree
<1>3. f \in Ids /\ executions[f].status = "none" /\ \A l \in 1 .. f - 1 : executions[l].status # "none"
  <2>1. ASSUME NEW l \in 1 .. f - 1 PROVE l \in Ids
    BY SchedulerAssumption DEF Ids
  <2> QED
    BY <1>2, <2>1
<1>4. PICK i \in Ids :
        /\ executions[i].status = "none"
        /\ executions' = [executions EXCEPT
                            ![i] = [job |-> j, status |-> st, cancel |-> FALSE, age |-> 0]]
  <2> DEFINE P(k) == executions[k].status = "none" /\ \A l \in 1 .. k - 1 : executions[l].status # "none"
             i == CHOOSE k \in Ids : P(k)
  <2>1. \E k \in Ids : P(k)
    BY <1>3
  <2>2. i \in Ids /\ P(i)
    BY <2>1
  <2>3. executions' = [executions EXCEPT
                         ![i] = [job |-> j, status |-> st, cancel |-> FALSE, age |-> 0]]
    BY DEF Insert
  <2> HIDE DEF i
  <2> QED
    BY <2>2, <2>3
<1> DEFINE e == [job |-> j, status |-> st, cancel |-> FALSE, age |-> 0]
<1>5. e \in Record /\ e.job = j /\ e.status = st
  BY SchedulerAssumption DEF Record
<1> QED
  BY <1>4, <1>5 DEF Written

\* update_one by _id writes the record, if it is still there.
LEMMA SetStatusWrites ==
  ASSUME SchedulerTypeOK, NEW i \in Ids, NEW st \in Statuses \ {"none"}, SetStatus(i, st)
  PROVE  \/ executions' = executions
         \/ \E e \in Record : /\ Written(i, e) /\ executions[i].status # "none"
                              /\ e.job = executions[i].job /\ e.status = st
<1>1. CASE ~Stored(i)
  BY <1>1 DEF SetStatus
<1>2. CASE Stored(i)
  <2> DEFINE e == [executions[i] EXCEPT !.status = st]
  <2>1. executions[i] \in Record
    BY DEF SchedulerTypeOK, Record
  <2>2. /\ e \in Record /\ e.status = st
        /\ e.job = executions[i].job /\ e.age = executions[i].age
    BY <2>1 DEF Record
  <2>3. executions' = [executions EXCEPT ![i] = e]
    BY <1>2 DEF SetStatus
  <2>4. executions[i].status # "none"
    BY <1>2 DEF Stored
  <2> QED
    BY <2>2, <2>3, <2>4 DEF Written
<1> QED
  BY <1>1, <1>2

-----------------------------------------------------------------------------
\* Who changes a record

\* Handler n writes the event it was started for, to the record it has found or
\* to a new one.
RecordedBy(n, i, e) ==
  /\ handlers[n].pc = "write" /\ handlers' = [handlers EXCEPT ![n] = NoHandler]
  /\ successes' = successes
  /\ e.job = handlers[n].job /\ e.status = handlers[n].status
  /\ handlers[n].id = i \/ executions[i].status = "none"

\* Nobody else writes a success.
SetBySomeone(i, e) ==
  /\ e.status \in {"running", "failed", "deleted"}
  /\ \/ executions[i].status = "none"
     \/ request.op \in {"mark", "delete"} /\ request.id = i
     \/ i \in zombies /\ e.status = "failed"
     \/ /\ kind[executions[i].job] = "financial" /\ running[executions[i].job] # 0
        /\ e.status = "running"

Change(i, e) ==
  \/ \E n \in 1 .. MaxRuns : RecordedBy(n, i, e)
  \/ e.status = executions[i].status
  \/ SetBySomeone(i, e)

\* What a step does to the records, unless it is a tick.
RecordsEffect == executions' = executions \/ \E i \in Ids, e \in Record : Written(i, e) /\ Change(i, e)

\* _record_job_execution.
LEMMA EventWrites ==
  ASSUME JobInv, NEW n \in 1 .. MaxRuns, RecordExecution(n), successes' = successes
  PROVE  RecordsEffect
<1>1. handlers[n].job \in Jobs \cup {"none"} /\ handlers[n].status \in Statuses \ {"none"}
  BY DEF JobInv, TypeOK, SchedulerTypeOK, HandlersAgree, RecordExecution, Statuses
<1>2. SchedulerTypeOK /\ handlers[n].pc = "write" /\ handlers' = [handlers EXCEPT ![n] = NoHandler]
  BY DEF JobInv, TypeOK, RecordExecution
<1>3. CASE handlers[n].id # 0
  <2>1. handlers[n].id \in Ids /\ executions[handlers[n].id].job = handlers[n].job
    BY <1>2, <1>3, SchedulerAssumption DEF SchedulerTypeOK, JobInv, HandlersAgree, Ids
  <2>2. SetStatus(handlers[n].id, handlers[n].status)
    BY <1>3 DEF RecordExecution
  <2> DEFINE i == handlers[n].id
             st == handlers[n].status
  <2>3. i \in Ids /\ st \in Statuses \ {"none"} /\ SetStatus(i, st) /\ executions[i].job = handlers[n].job
    BY <1>1, <2>1, <2>2
  <2>4. i = handlers[n].id /\ st = handlers[n].status
    OBVIOUS
  <2> HIDE DEF i, st
  <2>5. \/ executions' = executions
        \/ \E e \in Record : /\ Written(i, e) /\ executions[i].status # "none"
                             /\ e.job = executions[i].job /\ e.status = st
    BY <1>2, <2>3, SetStatusWrites
  <2> QED
    BY <1>2, <2>3, <2>4, <2>5 DEF RecordsEffect, Change, RecordedBy
<1>4. CASE handlers[n].id = 0
  <2>1. Insert(handlers[n].job, handlers[n].status)
    BY <1>4 DEF RecordExecution
  <2>2. \E i \in Ids, e \in Record :
           /\ Written(i, e) /\ executions[i].status = "none"
           /\ e.job = handlers[n].job /\ e.status = handlers[n].status
    BY <1>1, <1>2, <2>1, InsertWrites
  <2> QED
    BY <1>2, <2>2 DEF RecordsEffect, Change, RecordedBy
<1> QED
  BY <1>3, <1>4

\* The second half of trigger_job.
LEMMA TriggerWrites ==
  ASSUME JobInv, TriggerRecords
  PROVE  RecordsEffect
<1>1. SchedulerTypeOK /\ request.job \in Jobs \cup {"none"} /\ "running" \in Statuses \ {"none"}
  BY DEF JobInv, TypeOK, SchedulerTypeOK, Statuses
<1>2. Insert(request.job, "running")
  BY DEF TriggerRecords
<1>3. \E i \in Ids, e \in Record :
         /\ Written(i, e) /\ executions[i].status = "none"
         /\ e.job = request.job /\ e.status = "running"
  BY <1>1, <1>2, InsertWrites
<1> QED
  BY <1>3 DEF RecordsEffect, Change, SetBySomeone

\* The writes of the other three calls.
LEMMA CallWrites ==
  ASSUME JobInv, WriteExecution
  PROVE  RecordsEffect
<1>1. SchedulerTypeOK
  BY DEF JobInv, TypeOK
<1>2. request.op \in {"cancel", "mark", "delete"} /\ request.id \in Ids
  BY DEF JobInv, RequestKnown, WriteExecution, CancelExecution, MarkExecutionAsFailed, DeleteExecution
<1> PICK i \in Ids : i = request.id
  BY <1>2
<1>3. executions[i] \in Record
  BY <1>1 DEF SchedulerTypeOK, Record
<1>4. CASE CancelExecution
  <2> DEFINE e == [executions[i] EXCEPT !.cancel = TRUE]
  <2>1. CASE ~Stored(i)
    BY <1>4, <2>1 DEF CancelExecution, RecordsEffect
  <2>2. CASE Stored(i)
    <3>1. /\ e \in Record /\ e.status = executions[i].status
          /\ e.job = executions[i].job /\ e.age = executions[i].age
      BY <1>3 DEF Record
    <3>2. executions' = [executions EXCEPT ![i] = e] /\ executions[i].status # "none"
      BY <1>4, <2>2 DEF CancelExecution, Stored
    <3> QED
      BY <3>1, <3>2 DEF Written, RecordsEffect, Change
  <2> QED
    BY <2>1, <2>2
<1>5. CASE MarkExecutionAsFailed
  <2>1. SetStatus(i, "failed") /\ request.op = "mark" /\ "failed" \in Statuses \ {"none"}
    BY <1>5 DEF MarkExecutionAsFailed, Statuses, Ended
  <2>2. \/ executions' = executions
        \/ \E e \in Record : /\ Written(i, e) /\ executions[i].status # "none"
                             /\ e.job = executions[i].job /\ e.status = "failed"
    BY <1>1, <2>1, SetStatusWrites
  <2> QED
    BY <2>1, <2>2 DEF RecordsEffect, Change, SetBySomeone
<1>6. CASE DeleteExecution
  <2> DEFINE e == [executions[i] EXCEPT !.status = "deleted"]
  <2>1. /\ e \in Record /\ e.status = "deleted"
        /\ e.job = executions[i].job /\ e.age = executions[i].age
    BY <1>3 DEF Record, Statuses
  <2>2. executions' = [executions EXCEPT ![i] = e] /\ request.op = "delete"
    BY <1>6 DEF DeleteExecution
  <2> QED
    BY <2>1, <2>2 DEF Written, RecordsEffect, Change, SetBySomeone
<1> QED
  BY <1>4, <1>5, <1>6 DEF WriteExecution

\* The zombie check.
LEMMA ZombieWrites ==
  ASSUME JobInv, NEW i \in Ids, FailZombie(i)
  PROVE  RecordsEffect
<1>1. SchedulerTypeOK /\ SetStatus(i, "failed") /\ i \in zombies /\ "failed" \in Statuses \ {"none"}
  BY DEF JobInv, TypeOK, FailZombie, Statuses, Ended
<1>2. \/ executions' = executions
      \/ \E e \in Record : /\ Written(i, e) /\ executions[i].status # "none"
                           /\ e.job = executions[i].job /\ e.status = "failed"
  BY <1>1, SetStatusWrites
<1> QED
  BY <1>1, <1>2 DEF RecordsEffect, Change, SetBySomeone

\* update_job_progress of a financial body, which runs.
LEMMA ReportWrites ==
  ASSUME JobInv, NEW j \in Jobs, UpdateJobProgress(j)
  PROVE  RecordsEffect
<1> DEFINE S == {k \in Ids : /\ executions[k].job = j
                             /\ executions[k].status \in {"running"} \cup Ended}
<1>1. SchedulerTypeOK /\ "running" \in Statuses \ {"none"} /\ j \in Jobs \cup {"none"}
  BY DEF JobInv, TypeOK, Statuses
<1>2. kind[j] = "financial" /\ running[j] # 0
  BY DEF JobInv, BodyRuns, UpdateJobProgress, At
<1>3. PICK i \in 0 .. MaxRecords : i = Newest(S) /\ (i # 0 => i \in S)
  BY NewestIsMember
<1>4. IF i = 0 THEN Insert(j, "running")
      ELSE IF executions[i].cancel THEN UNCHANGED executions ELSE SetStatus(i, "running")
  BY <1>3 DEF UpdateJobProgress
<1>5. CASE i = 0
  <2>1. Insert(j, "running")
    BY <1>4, <1>5
  <2>2. \E k \in Ids, e \in Record :
           Written(k, e) /\ executions[k].status = "none" /\ e.job = j /\ e.status = "running"
    BY <1>1, <2>1, InsertWrites
  <2> QED
    BY <2>2 DEF RecordsEffect, Change, SetBySomeone
<1>6. CASE i # 0 /\ executions[i].cancel
  BY <1>4, <1>6 DEF RecordsEffect
<1>7. CASE i # 0 /\ ~executions[i].cancel
  <2>1. i \in Ids /\ executions[i].job = j /\ SetStatus(i, "running")
    BY <1>3, <1>4, <1>7
  <2>2. \/ executions' = executions
        \/ \E e \in Record : /\ Written(i, e) /\ executions[i].status # "none"
                             /\ e.job = executions[i].job /\ e.status = "running"
    BY <1>1, <2>1, SetStatusWrites
  <2> QED
    BY <1>2, <2>1, <2>2 DEF RecordsEffect, Change, SetBySomeone
<1> QED
  BY <1>5, <1>6, <1>7

\* Every other step leaves the records alone; only time makes all of them older.
LEMMA WhoWrites ==
  ASSUME JobInv, Next, ~Tick
  PROVE  RecordsEffect
<1>1. CASE SchedulerStep /\ UNCHANGED <<limiterVars, jobVars>>
  <2>0. successes' = successes
    BY <1>1 DEF jobVars
  <2>1. ASSUME NEW j \in Jobs, CronDue(j) \/ SkipDispatch(j) \/ Misfire(j) PROVE RecordsEffect
    BY <2>1 DEF CronDue, SkipDispatch, Misfire, RecordsEffect
  <2>2. ASSUME NEW n \in 1 .. MaxRuns, FindRunning(n) \/ LoseExecution(n) PROVE RecordsEffect
    BY <2>2 DEF FindRunning, LoseExecution, RecordsEffect
  <2>3. ASSUME NEW n \in 1 .. MaxRuns, RecordExecution(n) PROVE RecordsEffect
    BY <2>0, <2>3, EventWrites
  <2>4. ASSUME NEW j \in Jobs, PauseJob(j) \/ ResumeJob(j) \/ TriggerJob(j) PROVE RecordsEffect
    BY <2>4 DEF PauseJob, ResumeJob, TriggerJob, RecordsEffect
  <2>5. ASSUME NEW i \in Ids, NEW op \in {"cancel", "mark", "delete"}, ReadExecution(op, i)
        PROVE  RecordsEffect
    BY <2>5 DEF ReadExecution, RecordsEffect
  <2>6. CASE CreateService \/ CheckZombieTasks \/ AbandonZombies
    BY <2>6 DEF CreateService, CheckZombieTasks, AbandonZombies, RecordsEffect
  <2> QED
    BY <1>1, <2>1, <2>2, <2>3, <2>4, <2>5, <2>6, TriggerWrites, CallWrites, ZombieWrites
    DEF SchedulerStep
<1>2. ASSUME NEW j \in Jobs, StartBody(j) PROVE RecordsEffect
  BY <1>2 DEF StartBody, Dispatch, RecordsEffect
<1>3. ASSUME NEW j \in Jobs, BodyStep(j) PROVE RecordsEffect
  <2>1. CASE UpdateJobProgress(j)
    BY <2>1, ReportWrites
  <2>2. CASE \/ Initialize(j) \/ ShouldStop(j) \/ LookFails(j)
             \/ TakePermit(j) \/ Work(j) \/ UpdateProgress(j)
    BY <2>2 DEF Initialize, ShouldStop, LookFails, TakePermit, Work, UpdateProgress, schedulerVars, RecordsEffect
  <2> QED
    BY <1>3, <2>1, <2>2 DEF BodyStep
<1>4. CASE Restart
  BY <1>4 DEF Restart, SchedulerRestart, RecordsEffect
<1> QED
  BY <1>1, <1>2, <1>3, <1>4 DEF Next

-----------------------------------------------------------------------------
\* The bodies

Body == [pc : {"idle", "init", "look", "permit", "asleep", "work", "report"}, item : 0 .. Items]

\* What a step leaves in the counts of job j.
Counts(j, l, n) == late' = [late EXCEPT ![j] = l] /\ blind' = [blind EXCEPT ![j] = n]

\* The body of j goes on, or its run returns.
GoesOn(j) ==
  /\ UNCHANGED <<running, handlers, successes>>
  /\ \E b \in Body, l \in Nat, n \in Nat :
       /\ b.pc # "idle" /\ body' = [body EXCEPT ![j] = b]
       /\ Counts(j, l, n) /\ LateAt(j, b.pc, l, n)

Returns(j) ==
  \E st \in Ended, l \in Nat, n \in Nat :
    /\ Return(j, st)
    /\ Counts(j, l, n) /\ LateAt(j, "idle", l, n)

KeptByBodies == <<service, paused, due, runs, request, ops, zombies, kind, restarts>>

\* The first step of a pass is a look where the body looks at all.
LEMMA LoopHeads ==
  ASSUME TypeOK, NEW j \in Jobs
  PROVE  /\ kind[j] \in {"batch", "symbol", "financial", "plain"}
         /\ LoopHead(j) = IF kind[j] \in {"batch", "symbol"} THEN "look"
                          ELSE IF kind[j] = "financial" THEN "permit" ELSE "work"
<1>1. kind[j] \in {"batch", "symbol", "financial", "plain"}
  BY SyncAssumption DEF TypeOK
<1>2. kind[j] \in {"batch", "symbol"} => LoopHead(j) = "look"
  BY DEF LoopHead
<1>3. kind[j] = "financial" => LoopHead(j) = "permit"
  BY DEF LoopHead
<1>4. kind[j] = "plain" => LoopHead(j) = "work"
  BY DEF LoopHead
<1> QED
  BY <1>1, <1>2, <1>3, <1>4

\* The end of a pass, with what is left in the counts.
LEMMA PassEnds ==
  ASSUME JobInv, NEW j \in Jobs, NextItem(j), body[j].item \in 0 .. Items,
         NEW l \in Nat, NEW n \in Nat, Counts(j, l, n), l <= 1 + n,
         kind[j] \in {"financial", "plain"} => l <= n
  PROVE  GoesOn(j) \/ Returns(j)
<1>1. Items \in Nat /\ TypeOK
  BY SyncAssumption DEF JobInv
<1>2. CASE body[j].item < Items
  <2> DEFINE b == [pc |-> LoopHead(j), item |-> body[j].item + 1]
  <2>1. b \in Body /\ b.pc # "idle" /\ LateAt(j, b.pc, l, n)
    BY <1>1, <1>2, LoopHeads DEF Body, LateAt
  <2>2. body' = [body EXCEPT ![j] = b] /\ UNCHANGED <<running, handlers, successes>>
    BY <1>2 DEF NextItem
  <2> HIDE DEF b
  <2> QED
    BY <2>1, <2>2 DEF GoesOn
<1>3. CASE ~(body[j].item < Items)
  <2>1. Return(j, "success") /\ "success" \in Ended
    BY <1>3 DEF NextItem, Ended
  <2>2. LateAt(j, "idle", l, n)
    BY DEF LateAt
  <2> QED
    BY <2>1, <2>2 DEF Returns
<1> QED
  BY <1>2, <1>3

\* A body that only changes its step.
LEMMA StepsTo ==
  ASSUME JobInv, NEW j \in Jobs, NEW pc \in {"look", "permit", "asleep", "work", "report"}, GoTo(j, pc),
         UNCHANGED <<running, handlers, successes>>,
         NEW l \in Nat, NEW n \in Nat, Counts(j, l, n), LateAt(j, pc, l, n)
  PROVE  GoesOn(j)
<1> DEFINE b == [body[j] EXCEPT !.pc = pc]
<1>1. body[j] \in Body
  BY DEF JobInv, TypeOK, Body
<1>2. b \in Body /\ b.pc = pc /\ body' = [body EXCEPT ![j] = b]
  BY <1>1 DEF Body, GoTo
<1> HIDE DEF b
<1> QED
  BY <1>2 DEF GoesOn

\* Every step of a body goes on or returns, and keeps the count of late items.
LEMMA BodyEffect ==
  ASSUME JobInv, NEW j \in Jobs, BodyStep(j)
  PROVE  /\ UNCHANGED KeptByBodies
         /\ UNCHANGED limiterVars \/ LimiterNext
         /\ GoesOn(j) \/ Returns(j)
<1>1. /\ LateAt(j, body[j].pc, late[j], blind[j]) /\ body[j] \in Body
      /\ late[j] \in Nat /\ blind[j] \in Nat /\ late[j] <= 1 + blind[j]
      /\ late \in [Jobs -> Nat] /\ blind \in [Jobs -> Nat]
      /\ TypeOK /\ Items \in Nat \ {0}
  BY SyncAssumption DEF JobInv, LateOnce, LateAt, TypeOK, Body
<1>2. kind[j] \in {"batch", "symbol", "financial", "plain"} /\ body[j].item \in 0 .. Items
  BY <1>1, LoopHeads DEF Body
<1>3. UNCHANGED <<late, blind>> => Counts(j, late[j], blind[j])
  BY <1>1 DEF Counts
<1>4. ASSUME NEW st \in Ended, Return(j, st), UNCHANGED <<late, blind>> PROVE Returns(j)
  BY <1>1, <1>3, <1>4 DEF Returns, LateAt
<1>5. CASE Initialize(j)
  <2>1. UNCHANGED KeptByBodies /\ UNCHANGED limiterVars /\ UNCHANGED <<late, blind>>
    BY <1>5 DEF Initialize, SchedulerKept, KeptByBodies
  <2>2. ASSUME body' = [body EXCEPT ![j] = [pc |-> LoopHead(j), item |-> 1]],
               UNCHANGED <<running, handlers, successes>>
        PROVE  GoesOn(j)
    <3> DEFINE b == [pc |-> LoopHead(j), item |-> 1]
    <3>1. b \in Body /\ b.pc # "idle"
      BY <1>1, LoopHeads DEF Body
    <3>2. body' = [body EXCEPT ![j] = b]
      BY <2>2
    <3> HIDE DEF b
    <3>3. LateAt(j, b.pc, late[j], blind[j])
      BY <1>1, <1>5 DEF Initialize, At, LateAt
    <3> QED
      BY <1>1, <1>3, <2>1, <2>2, <3>1, <3>2, <3>3 DEF GoesOn
  <2> QED
    BY <1>4, <1>5, <2>1, <2>2 DEF Initialize
<1>6. CASE ShouldStop(j)
  <2>1. UNCHANGED KeptByBodies /\ UNCHANGED limiterVars
    BY <1>6 DEF ShouldStop, SchedulerKept, KeptByBodies
  <2>2. CASE Flagged(j)
    BY <1>4, <1>6, <2>1, <2>2 DEF ShouldStop, Ended
  <2>3. CASE ~Flagged(j)
    <3>1. LateAt(j, AfterLook(j), 0, blind[j]) /\ Counts(j, 0, blind[j]) /\ 0 \in Nat
      BY <1>1, <1>6, <2>3 DEF ShouldStop, LateAt, Counts
    <3> QED
      BY <1>1, <1>6, <2>1, <2>3, <3>1, StepsTo DEF ShouldStop, AfterLook
  <2> QED
    BY <2>1, <2>2, <2>3
<1>10. CASE LookFails(j)
  <2>1. UNCHANGED KeptByBodies /\ UNCHANGED limiterVars
    BY <1>10 DEF LookFails, SchedulerKept, KeptByBodies
  <2>2. blind[j] + 1 \in Nat /\ Counts(j, late[j], blind[j] + 1)
    BY <1>1, <1>10 DEF LookFails, Counts
  <2>3. LateAt(j, AfterLook(j), late[j], blind[j] + 1)
    BY <1>1 DEF LateAt
  <2>4. GoesOn(j)
    BY <1>1, <1>10, <2>2, <2>3, StepsTo DEF LookFails, AfterLook
  <2> QED
    BY <2>1, <2>4
<1>7. CASE TakePermit(j)
  <2>1. UNCHANGED KeptByBodies /\ UNCHANGED <<running, handlers, successes, late, blind>>
    BY <1>7 DEF TakePermit, schedulerVars, KeptByBodies
  <2>2. GoTo(j, "work") \/ GoTo(j, "asleep")
    BY <1>7 DEF TakePermit
  <2>3. \A pc : LateAt(j, pc, late[j], blind[j])
    BY <1>1, <1>7 DEF TakePermit, At, LateAt
  <2>4. GoesOn(j)
    BY <1>1, <1>3, <2>1, <2>2, <2>3, StepsTo
  <2>5. LimiterNext
    BY <1>7, SyncAssumption DEF TakePermit, LimiterNext
  <2> QED
    BY <2>1, <2>4, <2>5
<1>8. CASE Work(j)
  <2>1. UNCHANGED KeptByBodies /\ UNCHANGED limiterVars
    BY <1>8 DEF Work, SchedulerKept, KeptByBodies
  <2>2. PICK l \in Nat : /\ Counts(j, l, blind[j]) /\ l <= 1 + blind[j]
                         /\ kind[j] \in {"financial", "plain"} => l <= blind[j]
    <3>1. late[j] <= blind[j] /\ blind' = [blind EXCEPT ![j] = blind[j]]
      BY <1>1, <1>8 DEF Work, At, LateAt
    <3>2. CASE kind[j] \in {"batch", "symbol"} /\ Flagged(j)
      <4>1. late[j] + 1 \in Nat /\ late[j] + 1 <= 1 + blind[j]
        BY <1>1, <3>1
      <4>2. late' = [late EXCEPT ![j] = late[j] + 1]
        BY <1>8, <3>2 DEF Work
      <4>3. kind[j] \notin {"financial", "plain"}
        BY <3>2
      <4> QED
        BY <3>1, <4>1, <4>2, <4>3 DEF Counts
    <3>3. CASE ~(kind[j] \in {"batch", "symbol"} /\ Flagged(j))
      <4>1. Counts(j, late[j], blind[j]) /\ late[j] <= 1 + blind[j]
        BY <1>1, <1>8, <3>1, <3>3 DEF Work, Counts
      <4> QED
        BY <1>1, <3>1, <4>1
    <3> QED
      BY <3>2, <3>3
  <2>3. ASSUME GoTo(j, "report"), UNCHANGED <<running, handlers, successes>>
        PROVE  GoesOn(j)
    <3>1. LateAt(j, "report", l, blind[j])
      BY <1>1, <2>2 DEF LateAt
    <3> QED
      BY <1>1, <2>2, <2>3, <3>1, StepsTo
  <2>4. ASSUME NextItem(j) PROVE GoesOn(j) \/ Returns(j)
    BY <1>1, <1>2, <2>2, <2>4, PassEnds
  <2> QED
    BY <1>8, <2>1, <2>3, <2>4 DEF Work
<1>9. CASE UpdateProgress(j) \/ UpdateJobProgress(j)
  <2>1. UNCHANGED KeptByBodies /\ UNCHANGED limiterVars /\ UNCHANGED <<late, blind>>
    BY <1>9 DEF UpdateProgress, UpdateJobProgress, SchedulerKept, KeptByBodies
  <2>2. Counts(j, late[j], blind[j]) /\ (kind[j] \in {"financial", "plain"} => late[j] <= blind[j])
    BY <1>1, <1>3, <2>1 DEF LateAt
  <2>3. ASSUME NextItem(j) PROVE GoesOn(j) \/ Returns(j)
    BY <1>1, <1>2, <2>2, <2>3, PassEnds
  <2> QED
    BY <1>4, <1>9, <2>1, <2>3 DEF UpdateProgress, UpdateJobProgress, Ended
<1> QED
  BY <1>5, <1>6, <1>7, <1>8, <1>9, <1>10 DEF BodyStep

-----------------------------------------------------------------------------
\* The records and the handlers

\* Between two ticks a record keeps its job and its age, and stays a record.
LEMMA RecordsKept ==
  ASSUME JobInv, RecordsEffect
  PROVE  /\ executions' \in [Ids -> Record]
         /\ \A i \in Ids : executions[i].status # "none" =>
              /\ executions'[i].job = executions[i].job /\ executions'[i].age = executions[i].age
              /\ executions'[i].status # "none"
<1>1. executions \in [Ids -> Record]
  BY DEF JobInv, TypeOK, SchedulerTypeOK, Record
<1>2. CASE executions' = executions
  BY <1>1, <1>2
<1>3. ASSUME NEW i \in Ids, NEW e \in Record, Written(i, e)
      PROVE  /\ executions' \in [Ids -> Record]
             /\ \A k \in Ids : executions[k].status # "none" =>
                  /\ executions'[k].job = executions[k].job /\ executions'[k].age = executions[k].age
                  /\ executions'[k].status # "none"
  <2>1. /\ executions' \in [Ids -> Record] /\ executions'[i] = e
        /\ \A k \in Ids \ {i} : executions'[k] = executions[k]
    BY <1>1, <1>3 DEF Written
  <2> QED
    BY <1>3, <2>1 DEF Written
<1> QED
  BY <1>2, <1>3 DEF RecordsEffect

\* An event starts a handler that has found nothing yet, or nobody listens.
LEMMA Announced ==
  ASSUME JobInv, NEW n \in 1 .. MaxRuns, NEW j \in Jobs, NEW st \in Ended \cup {"missed"}, Announce(n, j, st)
  PROVE  /\ handlers' \in [1 .. MaxRuns -> Handler]
         /\ \A m \in 1 .. MaxRuns :
              \/ handlers'[m] = handlers[m]
              \/ /\ m = n /\ handlers'[m].id = 0 /\ handlers'[m].pc # "off"
                 /\ handlers'[m].job = j /\ handlers'[m].status = st
<1> DEFINE h == [job |-> j, status |-> st, id |-> 0, pc |-> IF st \in Ended THEN "find" ELSE "write"]
<1>1. handlers \in [1 .. MaxRuns -> Handler]
  BY DEF JobInv, TypeOK, SchedulerTypeOK, Handler
<1>2. h \in Handler /\ h.id = 0 /\ h.pc # "off" /\ h.job = j /\ h.status = st
  BY SchedulerAssumption DEF Handler
<1>3. handlers' = handlers \/ handlers' = [handlers EXCEPT ![n] = h]
  BY DEF Announce
<1> HIDE DEF h
<1> QED
  BY <1>1, <1>2, <1>3

\* What a step does to handler n: nothing, its end, a new event, or what it finds.
Heeds(n) ==
  \/ handlers'[n] \in {handlers[n], NoHandler}
  \/ handlers'[n].id = 0 /\ handlers'[n].status # "none"
  \/ /\ executions' = executions
     /\ handlers'[n].status # "none"
     /\ handlers'[n].id # 0 => /\ executions[handlers'[n].id].job = handlers'[n].job
                               /\ executions[handlers'[n].id].status # "none"
                               /\ executions[handlers'[n].id].age <= RecentAge

\* And to the successes: none, or one run more and one event more.
SuccessEffect ==
  \/ successes' = successes /\ \A k \in Jobs : Heard(k)' \subseteq Heard(k)
  \/ \E j \in Jobs, n \in 1 .. MaxRuns :
       /\ successes' = [successes EXCEPT ![j] = @ + 1]
       /\ Heard(j)' \subseteq Heard(j) \cup {n}
       /\ \A k \in Jobs \ {j} : Heard(k)' \subseteq Heard(k)

\* A step that changes no handler but ends some.
LEMMA HandlersEnd ==
  ASSUME JobInv, successes' = successes, handlers' \in [1 .. MaxRuns -> Handler],
         \A n \in 1 .. MaxRuns : handlers'[n] \in {handlers[n], NoHandler}
  PROVE  (\A n \in 1 .. MaxRuns : Heeds(n)) /\ SuccessEffect
<1>1. \A k \in Jobs : Heard(k)' \subseteq Heard(k)
  BY DEF Heard, NoHandler
<1> QED
  BY <1>1 DEF Heeds, SuccessEffect

\* find_one of a handler: a young running record of its job.
LEMMA Finds ==
  ASSUME JobInv, NEW n \in 1 .. MaxRuns, FindRunning(n), successes' = successes
  PROVE  /\ handlers' \in [1 .. MaxRuns -> Handler]
         /\ \A m \in 1 .. MaxRuns : Heeds(m)
         /\ SuccessEffect
<1> DEFINE S == {i \in RunningRecords(handlers[n].job) : executions[i].age <= RecentAge}
<1>1. PICK r \in 0 .. MaxRecords : r = Newest(S) /\ (r # 0 => r \in S)
  <2>1. S \in SUBSET Ids
    BY DEF RunningRecords
  <2> QED
    BY <2>1, NewestIsMember
<1> DEFINE h == [handlers[n] EXCEPT !.pc = "write", !.id = r]
<1>2. handlers \in [1 .. MaxRuns -> Handler]
  BY DEF JobInv, TypeOK, SchedulerTypeOK, Handler
<1>3. /\ h \in Handler /\ h.job = handlers[n].job /\ h.status = handlers[n].status
      /\ h.pc = "write" /\ h.id = r
  BY <1>2 DEF Handler
<1>4. handlers[n].pc = "find" /\ handlers[n].status # "none" /\ executions' = executions
  BY DEF FindRunning, JobInv, HandlersAgree
<1>5. handlers' = [handlers EXCEPT ![n] = h]
  BY <1>1 DEF FindRunning
<1>6. r # 0 => executions[r].job = handlers[n].job /\ executions[r].status = "running"
               /\ executions[r].age <= RecentAge
  BY <1>1 DEF RunningRecords
<1> HIDE DEF h, S
<1>7. /\ handlers' \in [1 .. MaxRuns -> Handler] /\ handlers'[n] = h
      /\ \A m \in 1 .. MaxRuns \ {n} : handlers'[m] = handlers[m]
  BY <1>2, <1>3, <1>5
<1>8. \A m \in 1 .. MaxRuns : Heeds(m)
  BY <1>3, <1>4, <1>6, <1>7 DEF Heeds
<1>9. \A k \in Jobs : Heard(k)' \subseteq Heard(k)
  BY <1>3, <1>4, <1>7 DEF Heard
<1> QED
  BY <1>7, <1>8, <1>9 DEF SuccessEffect

\* A run that returns is counted once and heard once at most.
LEMMA ReturnHeard ==
  ASSUME JobInv, NEW j \in Jobs, NEW st \in Ended, Return(j, st)
  PROVE  /\ handlers' \in [1 .. MaxRuns -> Handler]
         /\ \A m \in 1 .. MaxRuns : Heeds(m)
         /\ SuccessEffect
<1>1. running[j] \in 1 .. MaxRuns /\ successes \in [Jobs -> 0 .. MaxRuns]
  BY SchedulerAssumption DEF JobInv, TypeOK, SchedulerTypeOK, Return, RunReturns
<1> PICK n \in 1 .. MaxRuns : n = running[j]
  BY <1>1
<1>2. Announce(n, j, st) /\ successes' = [successes EXCEPT ![j] = IF st = "success" THEN @ + 1 ELSE @]
  BY DEF Return, RunReturns
<1>3. /\ handlers' \in [1 .. MaxRuns -> Handler]
      /\ \A m \in 1 .. MaxRuns :
           \/ handlers'[m] = handlers[m]
           \/ /\ m = n /\ handlers'[m].id = 0 /\ handlers'[m].pc # "off"
              /\ handlers'[m].job = j /\ handlers'[m].status = st
  BY <1>2, Announced
<1>4. \A m \in 1 .. MaxRuns : Heeds(m)
  BY <1>3 DEF Heeds, Ended
<1>5. /\ Heard(j)' \subseteq Heard(j) \cup {n}
      /\ \A k \in Jobs \ {j} : Heard(k)' \subseteq Heard(k)
      /\ st # "success" => Heard(j)' \subseteq Heard(j)
  BY <1>3 DEF Heard
<1>6. SuccessEffect
  <2>1. CASE st = "success"
    BY <1>2, <1>5, <2>1 DEF SuccessEffect
  <2>2. CASE st # "success"
    <3>1. successes' = successes
      BY <1>1, <1>2, <2>2
    <3>2. \A k \in Jobs : Heard(k)' \subseteq Heard(k)
      BY <1>5, <2>2
    <3> QED
      BY <3>1, <3>2 DEF SuccessEffect
  <2> QED
    BY <2>1, <2>2
<1> QED
  BY <1>3, <1>4, <1>6

\* A misfire is told, but it is no success.
LEMMA MisfireHeard ==
  ASSUME JobInv, NEW j \in Jobs, Misfire(j), successes' = successes
  PROVE  /\ handlers' \in [1 .. MaxRuns -> Handler]
         /\ \A m \in 1 .. MaxRuns : Heeds(m)
         /\ SuccessEffect
<1>1. runs + 1 \in 1 .. MaxRuns
  BY SchedulerAssumption DEF JobInv, TypeOK, SchedulerTypeOK, Misfire
<1> PICK n \in 1 .. MaxRuns : n = runs + 1
  BY <1>1
<1>2. Announce(n, j, "missed")
  BY DEF Misfire
<1>3. /\ handlers' \in [1 .. MaxRuns -> Handler]
      /\ \A m \in 1 .. MaxRuns :
           \/ handlers'[m] = handlers[m]
           \/ /\ m = n /\ handlers'[m].id = 0 /\ handlers'[m].pc # "off"
              /\ handlers'[m].job = j /\ handlers'[m].status = "missed"
  BY <1>2, Announced
<1>4. \A m \in 1 .. MaxRuns : Heeds(m)
  BY <1>3 DEF Heeds
<1>5. \A k \in Jobs : Heard(k)' \subseteq Heard(k)
  BY <1>3 DEF Heard
<1> QED
  BY <1>3, <1>4, <1>5 DEF SuccessEffect

\* All steps together.
LEMMA WhoHears ==
  ASSUME JobInv, Next
  PROVE  /\ handlers' \in [1 .. MaxRuns -> Handler]
         /\ \A n \in 1 .. MaxRuns : Heeds(n)
         /\ SuccessEffect
<1> DEFINE Good == /\ handlers' \in [1 .. MaxRuns -> Handler]
                   /\ \A n \in 1 .. MaxRuns : Heeds(n)
                   /\ SuccessEffect
<1> SUFFICES Good
  OBVIOUS
<1>0. handlers \in [1 .. MaxRuns -> Handler] /\ NoHandler \in Handler
  BY SchedulerAssumption DEF JobInv, TypeOK, SchedulerTypeOK, Handler, NoHandler
<1>1. ASSUME handlers' = handlers, successes' = successes PROVE Good
  BY <1>0, <1>1, HandlersEnd
<1>2. ASSUME NEW n \in 1 .. MaxRuns, handlers' = [handlers EXCEPT ![n] = NoHandler], successes' = successes
      PROVE  Good
  <2>1. /\ handlers' \in [1 .. MaxRuns -> Handler]
        /\ \A m \in 1 .. MaxRuns : handlers'[m] \in {handlers[m], NoHandler}
    BY <1>0, <1>2
  <2> QED
    BY <1>2, <2>1, HandlersEnd
<1>3. CASE SchedulerStep /\ UNCHANGED <<limiterVars, jobVars>>
  <2>0. successes' = successes
    BY <1>3 DEF jobVars
  <2>1. ASSUME NEW j \in Jobs, CronDue(j) \/ SkipDispatch(j) \/ PauseJob(j) \/ ResumeJob(j) \/ TriggerJob(j)
        PROVE  Good
    BY <1>1, <2>0, <2>1 DEF CronDue, SkipDispatch, PauseJob, ResumeJob, TriggerJob
  <2>2. ASSUME NEW j \in Jobs, Misfire(j) PROVE Good
    BY <2>0, <2>2, MisfireHeard
  <2>3. ASSUME NEW n \in 1 .. MaxRuns, FindRunning(n) PROVE Good
    BY <2>0, <2>3, Finds
  <2>4. ASSUME NEW n \in 1 .. MaxRuns, RecordExecution(n) \/ LoseExecution(n) PROVE Good
    BY <1>2, <2>0, <2>4 DEF RecordExecution, LoseExecution
  <2>5. CASE CreateService \/ TriggerRecords \/ WriteExecution \/ CheckZombieTasks \/ AbandonZombies
    BY <1>1, <2>0, <2>5 DEF CreateService, TriggerRecords, WriteExecution, CheckZombieTasks,
                            AbandonZombies
  <2>6. ASSUME NEW i \in Ids, NEW op \in {"cancel", "mark", "delete"}, ReadExecution(op, i) PROVE Good
    BY <1>1, <2>0, <2>6 DEF ReadExecution
  <2>7. ASSUME NEW i \in Ids, FailZombie(i) PROVE Good
    BY <1>1, <2>0, <2>7 DEF FailZombie
  <2> HIDE DEF Good
  <2> QED
    BY <1>3, <2>1, <2>2, <2>3, <2>4, <2>5, <2>6, <2>7 DEF SchedulerStep
<1>4. ASSUME NEW j \in Jobs, StartBody(j) PROVE Good
  BY <1>1, <1>4 DEF StartBody, Dispatch
<1>5. ASSUME NEW j \in Jobs, BodyStep(j) PROVE Good
  <2>1. GoesOn(j) \/ Returns(j)
    BY <1>5, BodyEffect
  <2>2. CASE GoesOn(j)
    BY <1>1, <2>2 DEF GoesOn
  <2>3. CASE Returns(j)
    BY <2>3, ReturnHeard DEF Returns
  <2> QED
    BY <2>1, <2>2, <2>3
<1>6. CASE Tick
  BY <1>1, <1>6 DEF Tick, SchedulerTick, jobVars
<1>7. CASE Restart
  <2>1. /\ handlers' \in [1 .. MaxRuns -> Handler] /\ successes' = successes
        /\ \A m \in 1 .. MaxRuns : handlers'[m] \in {handlers[m], NoHandler}
    BY <1>0, <1>7 DEF Restart, SchedulerRestart
  <2> QED
    BY <2>1, HandlersEnd
<1> HIDE DEF Good
<1> QED
  BY <1>3, <1>4, <1>5, <1>6, <1>7 DEF Next

-----------------------------------------------------------------------------
\* The steps keep the types

Request == [op : {"none", "trigger", "cancel", "mark", "delete"},
            job : Jobs \cup {"none"}, id : 0 .. MaxRecords]

\* The scheduler's own variables, beside its records and its handlers.
PlainTypes ==
  /\ service \in BOOLEAN /\ paused \in [Jobs -> BOOLEAN] /\ due \in [Jobs -> BOOLEAN]
  /\ running \in [Jobs -> 0 .. MaxRuns] /\ runs \in 0 .. MaxRuns /\ ops \in 0 .. MaxOps
  /\ request \in Request
  /\ zombies \subseteq Ids

\* The variables of the bodies.
BodyTypes ==
  /\ kind \in KindsOfJobs /\ body \in [Jobs -> Body]
  /\ successes \in [Jobs -> 0 .. MaxRuns] /\ late \in [Jobs -> Nat] /\ blind \in [Jobs -> Nat]
  /\ restarts \in 0 .. MaxRestarts

TypesInParts ==
  /\ executions \in [Ids -> Record] /\ handlers \in [1 .. MaxRuns -> Handler]
  /\ PlainTypes /\ BodyTypes /\ LimiterTypeOK

\* The types, and the types in parts.
LEMMA TypeParts ==
  TypeOK <=> TypesInParts
BY DEF TypesInParts, TypeOK, SchedulerTypeOK, Record, Handler, Request, PlainTypes, BodyTypes, Body

\* No request, a trigger and a call on a record.
LEMMA RequestTypes ==
  /\ NoRequest \in Request /\ NoRequest.op = "none"
  /\ \A j \in Jobs \cup {"none"}, i \in 0 .. MaxRecords, op \in {"trigger", "cancel", "mark", "delete"} :
       LET r == [op |-> op, job |-> j, id |-> i]
       IN  r \in Request /\ r.op = op /\ r.id = i
BY SchedulerAssumption DEF NoRequest, Request

\* Events, calls and checks keep what they do not count.
LEMMA SchedulerStepTypes ==
  ASSUME JobInv, SchedulerStep
  PROVE  PlainTypes' /\ RequestKnown' /\ running' = running /\ runs' \in {runs, runs + 1}
<1>0. /\ PlainTypes /\ RequestKnown /\ executions \in [Ids -> Record] /\ runs \in Nat
      /\ MaxRuns \in Nat /\ MaxOps \in Nat /\ MaxRecords \in Nat
  BY TypeParts, SchedulerAssumption DEF TypesInParts, JobInv, PlainTypes
<1>1. ASSUME NEW j \in Jobs, CronDue(j) \/ SkipDispatch(j)
      PROVE  PlainTypes' /\ RequestKnown' /\ running' = running /\ runs' \in {runs, runs + 1}
  BY <1>0, <1>1 DEF CronDue, SkipDispatch, PlainTypes, RequestKnown
<1>2. ASSUME NEW j \in Jobs, Misfire(j)
      PROVE  PlainTypes' /\ RequestKnown' /\ running' = running /\ runs' \in {runs, runs + 1}
  BY <1>0, <1>2 DEF Misfire, PlainTypes, RequestKnown
<1>3. ASSUME NEW n \in 1 .. MaxRuns, FindRunning(n) \/ RecordExecution(n) \/ LoseExecution(n)
      PROVE  PlainTypes' /\ RequestKnown' /\ running' = running /\ runs' \in {runs, runs + 1}
  BY <1>0, <1>3 DEF FindRunning, RecordExecution, LoseExecution, PlainTypes, RequestKnown
<1>4. ASSUME NEW j \in Jobs, PauseJob(j) \/ ResumeJob(j) \/ TriggerJob(j)
      PROVE  PlainTypes' /\ RequestKnown' /\ running' = running /\ runs' \in {runs, runs + 1}
  <2>0. ops < MaxOps /\ ops' = ops + 1
    BY <1>4 DEF PauseJob, ResumeJob, TriggerJob, Called
  <2>1. ops' \in 0 .. MaxOps
    BY <1>0, <2>0 DEF PlainTypes
  <2>5. \E p \in BOOLEAN : paused' = [paused EXCEPT ![j] = p]
    BY <1>4 DEF PauseJob, ResumeJob, TriggerJob
  <2>6. due' = due \/ \E p \in BOOLEAN : due' = [due EXCEPT ![j] = p]
    BY <1>4 DEF PauseJob, ResumeJob, TriggerJob
  <2>7. paused' \in [Jobs -> BOOLEAN] /\ due' \in [Jobs -> BOOLEAN]
    BY <1>0, <2>5, <2>6 DEF PlainTypes
  <2>2. 0 \in 0 .. MaxRecords /\ j \in Jobs \cup {"none"}
    BY <1>0
  <2> PICK r \in Request : r = [op |-> "trigger", job |-> j, id |-> 0] /\ r.op = "trigger"
    BY <2>2, RequestTypes
  <2>3. request' = request \/ request' = r
    BY <1>4 DEF PauseJob, ResumeJob, TriggerJob
  <2>4. UNCHANGED <<service, running, runs, zombies>>
    BY <1>4 DEF PauseJob, ResumeJob, TriggerJob
  <2> QED
    BY <1>0, <2>1, <2>3, <2>4, <2>7 DEF PlainTypes, RequestKnown
<1>5. CASE CreateService \/ TriggerRecords \/ WriteExecution
  <2>1. service' \in BOOLEAN /\ request' \in {request, NoRequest}
    BY <1>0, <1>5 DEF CreateService, TriggerRecords, WriteExecution, PlainTypes
  <2>2. UNCHANGED <<paused, due, running, runs, ops, zombies>>
    BY <1>5 DEF CreateService, TriggerRecords, WriteExecution
  <2> QED
    BY <1>0, <2>1, <2>2, RequestTypes DEF PlainTypes, RequestKnown
<1>6. ASSUME NEW i \in Ids, NEW op \in {"cancel", "mark", "delete"}, ReadExecution(op, i)
      PROVE  PlainTypes' /\ RequestKnown' /\ running' = running /\ runs' \in {runs, runs + 1}
  <2>1. executions[i].job \in Jobs \cup {"none"} /\ i \in 0 .. MaxRecords
    BY <1>0 DEF Record, Ids
  <2> PICK r \in Request : r = [op |-> op, job |-> executions[i].job, id |-> i] /\ r.id = i
    BY <2>1, RequestTypes
  <2>2. request' = r /\ ops' \in 0 .. MaxOps /\ UNCHANGED <<service, paused, due, running, runs, zombies>>
    BY <1>0, <1>6 DEF ReadExecution, Called, PlainTypes
  <2> QED
    BY <1>0, <2>2 DEF PlainTypes, RequestKnown
<1>7. CASE CheckZombieTasks \/ AbandonZombies \/ \E i \in Ids : FailZombie(i)
  BY <1>0, <1>7 DEF CheckZombieTasks, AbandonZombies, FailZombie, PlainTypes, RequestKnown
<1> QED
  BY <1>1, <1>2, <1>3, <1>4, <1>5, <1>6, <1>7 DEF SchedulerStep

\* A body that goes on keeps its run; one that returns ends it and counts it.
LEMMA BodyStepKeeps ==
  ASSUME JobInv, NEW j \in Jobs, BodyStep(j)
  PROVE  PlainTypes' /\ RequestKnown' /\ BodyTypes' /\ BodyRuns' /\ LateOnce' /\ RunsCounted'
<1>0. /\ PlainTypes /\ BodyTypes /\ RequestKnown /\ BodyRuns /\ LateOnce /\ RunsCounted
      /\ Items \in Nat \ {0} /\ MaxRuns \in Nat /\ Idle \in Body
  BY TypeParts, SyncAssumption, SchedulerAssumption DEF TypesInParts, JobInv, Idle, Body
<1>1. UNCHANGED KeptByBodies /\ (GoesOn(j) \/ Returns(j))
  BY BodyEffect
<1>2. ASSUME NEW l \in Nat, NEW n \in Nat, NEW pc, Counts(j, l, n), LateAt(j, pc, l, n),
             \A k \in Jobs \ {j} : body'[k] = body[k], body'[j].pc = pc, kind' = kind
      PROVE  late' \in [Jobs -> Nat] /\ blind' \in [Jobs -> Nat] /\ LateOnce'
  <2>1. /\ late' \in [Jobs -> Nat] /\ late'[j] = l /\ \A k \in Jobs \ {j} : late'[k] = late[k]
        /\ blind' \in [Jobs -> Nat] /\ blind'[j] = n /\ \A k \in Jobs \ {j} : blind'[k] = blind[k]
    BY <1>0, <1>2 DEF BodyTypes, Counts
  <2> QED
    BY <1>0, <1>2, <2>1 DEF LateOnce, LateAt
<1>3. CASE GoesOn(j)
  <2>1. PICK b \in Body, l \in Nat, n \in Nat :
          /\ b.pc # "idle" /\ body' = [body EXCEPT ![j] = b]
          /\ Counts(j, l, n) /\ LateAt(j, b.pc, l, n)
    BY <1>3 DEF GoesOn
  <2>2. body' \in [Jobs -> Body] /\ body'[j] = b /\ \A k \in Jobs \ {j} : body'[k] = body[k]
    BY <1>0, <2>1 DEF BodyTypes
  <2>3. late' \in [Jobs -> Nat] /\ blind' \in [Jobs -> Nat] /\ LateOnce'
    BY <1>1, <1>2, <2>1, <2>2 DEF KeptByBodies
  <2>4. running' = running /\ successes' = successes /\ body[j].pc # "idle"
    BY <1>3 DEF GoesOn, BodyStep, Initialize, ShouldStop, LookFails, TakePermit, Work,
                    UpdateProgress, UpdateJobProgress, At
  <2> QED
    BY <1>0, <1>1, <2>2, <2>3, <2>4
    DEF KeptByBodies, PlainTypes, RequestKnown, BodyTypes, BodyRuns, RunsCounted
<1>4. CASE Returns(j)
  <2>1. PICK st \in Ended, l \in Nat, n \in Nat :
          Return(j, st) /\ Counts(j, l, n) /\ LateAt(j, "idle", l, n)
    BY <1>4 DEF Returns
  <2>2. /\ running[j] # 0 /\ running' = [running EXCEPT ![j] = 0] /\ body' = [body EXCEPT ![j] = Idle]
        /\ successes' = [successes EXCEPT ![j] = IF st = "success" THEN @ + 1 ELSE @]
    BY <2>1 DEF Return, RunReturns
  <2>3. /\ body' \in [Jobs -> Body] /\ body'[j].pc = "idle" /\ \A k \in Jobs \ {j} : body'[k] = body[k]
        /\ running' \in [Jobs -> 0 .. MaxRuns] /\ running'[j] = 0
        /\ \A k \in Jobs \ {j} : running'[k] = running[k]
    BY <1>0, <2>2 DEF BodyTypes, PlainTypes, Idle
  <2>4. late' \in [Jobs -> Nat] /\ blind' \in [Jobs -> Nat] /\ LateOnce'
    BY <1>1, <1>2, <2>1, <2>3 DEF KeptByBodies
  <2>5. successes[j] \in Nat /\ successes[j] + 1 <= runs /\ runs \in 0 .. MaxRuns
    BY <1>0, <2>2 DEF RunsCounted, BodyTypes, PlainTypes
  <2>6. /\ successes' \in [Jobs -> 0 .. MaxRuns] /\ successes'[j] \in {successes[j], successes[j] + 1}
        /\ \A k \in Jobs \ {j} : successes'[k] = successes[k]
    BY <1>0, <2>2, <2>5 DEF BodyTypes
  <2>7. BodyRuns'
    BY <1>0, <2>3 DEF BodyRuns
  <2>8. RunsCounted'
    <3>1. runs' = runs
      BY <1>1 DEF KeptByBodies
    <3> QED
      BY <1>0, <2>3, <2>5, <2>6, <3>1 DEF RunsCounted
  <2> QED
    BY <1>0, <1>1, <2>3, <2>4, <2>6, <2>7, <2>8
    DEF KeptByBodies, PlainTypes, RequestKnown, BodyTypes
<1> QED
  BY <1>1, <1>3, <1>4

\* Every step keeps the types and the counts of the bodies.
LEMMA CountsKept ==
  ASSUME JobInv, Next
  PROVE  PlainTypes' /\ RequestKnown' /\ BodyTypes' /\ BodyRuns' /\ LateOnce' /\ RunsCounted'
<1> DEFINE Good == PlainTypes' /\ RequestKnown' /\ BodyTypes' /\ BodyRuns' /\ LateOnce' /\ RunsCounted'
<1> SUFFICES Good
  OBVIOUS
<1>0. /\ PlainTypes /\ BodyTypes /\ RequestKnown /\ BodyRuns /\ LateOnce /\ RunsCounted
      /\ Items \in Nat \ {0} /\ MaxRuns \in Nat /\ MaxRestarts \in Nat /\ Idle \in Body
  BY TypeParts, SyncAssumption, SchedulerAssumption DEF TypesInParts, JobInv, Idle, Body
<1>1. CASE SchedulerStep /\ UNCHANGED <<limiterVars, jobVars>>
  <2>1. PlainTypes' /\ RequestKnown' /\ running' = running /\ runs' \in {runs, runs + 1}
    BY <1>1, SchedulerStepTypes
  <2>2. UNCHANGED jobVars
    BY <1>1
  <2>3. BodyTypes' /\ BodyRuns' /\ LateOnce'
    BY <1>0, <2>1, <2>2 DEF jobVars, BodyTypes, BodyRuns, LateOnce, LateAt
  <2>4. RunsCounted'
    BY <1>0, <2>1, <2>2 DEF jobVars, RunsCounted, BodyTypes, PlainTypes
  <2> QED
    BY <2>1, <2>3, <2>4
<1>2. ASSUME NEW j \in Jobs, StartBody(j) PROVE Good
  <2> DEFINE b == [pc |-> "init", item |-> 0]
  <2>1. b \in Body /\ b.pc = "init"
    BY <1>0 DEF Body
  <2>2. /\ body' = [body EXCEPT ![j] = b] /\ Counts(j, 0, 0)
        /\ due' = [due EXCEPT ![j] = FALSE] /\ running' = [running EXCEPT ![j] = runs + 1]
        /\ running[j] = 0 /\ runs < MaxRuns /\ runs' = runs + 1
        /\ UNCHANGED <<kind, successes, restarts, service, paused, request, ops, zombies>>
    BY <1>2 DEF StartBody, Dispatch, Counts
  <2> HIDE DEF b
  <2>3. PlainTypes' /\ RequestKnown'
    BY <1>0, <2>2 DEF PlainTypes, RequestKnown
  <2>4. BodyTypes'
    BY <1>0, <2>1, <2>2 DEF BodyTypes, Counts
  <2>5. /\ body'[j] = b /\ late'[j] = 0 /\ blind'[j] = 0 /\ running'[j] = runs + 1
        /\ \A k \in Jobs \ {j} : /\ body'[k] = body[k] /\ running'[k] = running[k]
                                 /\ late'[k] = late[k] /\ blind'[k] = blind[k]
    BY <1>0, <2>2 DEF BodyTypes, PlainTypes, Counts
  <2>6. BodyRuns' /\ LateOnce'
    BY <1>0, <2>1, <2>2, <2>5 DEF BodyRuns, LateOnce, LateAt, PlainTypes
  <2>7. RunsCounted'
    BY <1>0, <2>2, <2>5 DEF RunsCounted, PlainTypes, BodyTypes
  <2> QED
    BY <2>3, <2>4, <2>6, <2>7
<1>3. ASSUME NEW j \in Jobs, BodyStep(j) PROVE Good
  BY <1>3, BodyStepKeeps
<1>4. CASE Tick
  BY <1>0, <1>4 DEF Tick, SchedulerTick, jobVars, PlainTypes, RequestKnown, BodyTypes,
                    BodyRuns, LateOnce, LateAt, RunsCounted
<1>5. CASE Restart
  <2>1. PlainTypes' /\ RequestKnown'
    <3>1. /\ service' = FALSE /\ request' = NoRequest /\ zombies' = {} /\ runs' = runs /\ ops' = ops
          /\ paused' \in [Jobs -> BOOLEAN] /\ due' \in [Jobs -> BOOLEAN]
      BY <1>5 DEF Restart, SchedulerRestart
    <3>2. running' \in [Jobs -> 0 .. MaxRuns]
      BY <1>0, <1>5 DEF Restart, SchedulerRestart
    <3> QED
      BY <1>0, <3>1, <3>2, RequestTypes DEF PlainTypes, RequestKnown
  <2>2. BodyTypes'
    BY <1>0, <1>5 DEF Restart, BodyTypes
  <2>3. BodyRuns' /\ LateOnce'
    BY <1>0, <1>5 DEF Restart, Idle, BodyRuns, LateOnce, LateAt
  <2>4. RunsCounted'
    BY <1>0, <1>5 DEF Restart, SchedulerRestart, RunsCounted, BodyTypes, PlainTypes
  <2> QED
    BY <2>1, <2>2, <2>3, <2>4
<1> HIDE DEF Good
<1> QED
  BY <1>1, <1>2, <1>3, <1>4, <1>5 DEF Next

-----------------------------------------------------------------------------
\* The steps keep what handlers, zombie check and successes know

\* A tick only makes records older, and meets no handler.
LEMMA TickAges ==
  ASSUME JobInv, Tick
  PROVE  /\ executions' \in [Ids -> Record]
         /\ \A i \in Ids : /\ executions'[i].job = executions[i].job
                           /\ executions'[i].status = executions[i].status
         /\ \A n \in 1 .. MaxRuns : handlers'[n] = NoHandler
         /\ zombies' = {} /\ UNCHANGED <<handlers, successes>>
<1>0. executions \in [Ids -> Record] /\ ZombieAge \in Nat
  BY TypeParts, SchedulerAssumption DEF TypesInParts, JobInv
<1>1. executions' = [i \in Ids |->
         IF executions[i].status \in {"running"} \cup Ended /\ executions[i].age <= ZombieAge
         THEN [executions[i] EXCEPT !.age = @ + 1] ELSE executions[i]]
  BY DEF Tick, SchedulerTick
<1>2. ASSUME NEW i \in Ids
      PROVE  /\ executions'[i] \in Record
             /\ executions'[i].job = executions[i].job
             /\ executions'[i].status = executions[i].status
  <2> DEFINE e == [executions[i] EXCEPT !.age = @ + 1]
  <2>1. CASE executions'[i] = executions[i]
    BY <1>0, <2>1
  <2>2. CASE executions'[i] = e /\ executions[i].age <= ZombieAge
    <3>1. executions[i].age + 1 \in 0 .. ZombieAge + 1
      BY <1>0, <2>2 DEF Record
    <3> QED
      BY <1>0, <2>2, <3>1 DEF Record
  <2> QED
    BY <1>1, <2>1, <2>2
<1>3. executions' \in [Ids -> Record]
  BY <1>1, <1>2
<1> QED
  BY <1>2, <1>3 DEF Tick, SchedulerTick, DatabaseIdle, jobVars

\* Handlers keep what they have found.
LEMMA HandlersStep ==
  ASSUME JobInv, Next
  PROVE  executions' \in [Ids -> Record] /\ HandlersAgree'
<1>0. /\ handlers \in [1 .. MaxRuns -> Handler] /\ handlers' \in [1 .. MaxRuns -> Handler]
      /\ \A n \in 1 .. MaxRuns : Heeds(n)
      /\ HandlersAgree /\ MaxRecords \in Nat
  BY WhoHears, TypeParts, SchedulerAssumption DEF TypesInParts, JobInv
<1>1. CASE Tick
  <2>1. executions' \in [Ids -> Record] /\ \A n \in 1 .. MaxRuns : handlers'[n] = NoHandler
    BY <1>1, TickAges
  <2> QED
    BY <2>1 DEF HandlersAgree, NoHandler
<1>2. CASE ~Tick
  <2>1. /\ RecordsEffect /\ executions' \in [Ids -> Record]
        /\ \A i \in Ids : executions[i].status # "none" =>
             /\ executions'[i].job = executions[i].job /\ executions'[i].age = executions[i].age
             /\ executions'[i].status # "none"
    BY <1>2, WhoWrites, RecordsKept
  <2> SUFFICES ASSUME NEW n \in 1 .. MaxRuns
               PROVE  /\ handlers'[n].pc # "off" => handlers'[n].status # "none"
                      /\ handlers'[n].pc = "write" /\ handlers'[n].id # 0 =>
                           /\ executions'[handlers'[n].id].job = handlers'[n].job
                           /\ executions'[handlers'[n].id].status # "none"
                           /\ executions'[handlers'[n].id].age <= RecentAge
    BY <2>1 DEF HandlersAgree
  <2>2. CASE handlers'[n] = handlers[n]
    <3>1. handlers[n].id # 0 => handlers[n].id \in Ids
      BY <1>0 DEF Handler, Ids
    <3> QED
      BY <1>0, <2>1, <2>2, <3>1 DEF HandlersAgree
  <2>3. CASE handlers'[n] = NoHandler
    BY <2>3 DEF NoHandler
  <2>4. CASE handlers'[n].id = 0 /\ handlers'[n].status # "none"
    BY <2>4
  <2>5. CASE /\ executions' = executions
             /\ handlers'[n].status # "none"
             /\ handlers'[n].id # 0 => /\ executions[handlers'[n].id].job = handlers'[n].job
                                       /\ executions[handlers'[n].id].status # "none"
                                       /\ executions[handlers'[n].id].age <= RecentAge
    BY <2>5
  <2> QED
    BY <1>0, <2>2, <2>3, <2>4, <2>5 DEF Heeds
<1> QED
  BY <1>1, <1>2

\* A record the zombie check holds is never made a success: the handler of an
\* event finds younger records only.
LEMMA ZombieSurvives ==
  ASSUME JobInv, RecordsEffect, NEW i \in zombies
  PROVE  /\ executions'[i].age > ZombieAge
         /\ executions'[i].status \in {"running", "failed", "deleted"}
<1>0. /\ i \in Ids /\ executions[i].age > ZombieAge
      /\ executions[i].status \in {"running", "failed", "deleted"}
      /\ executions \in [Ids -> Record] /\ RecentAge \in Nat /\ ZombieAge \in Nat /\ RecentAge <= ZombieAge
  BY TypeParts, SchedulerAssumption DEF TypesInParts, JobInv, ZombiesAreOld, PlainTypes
<1>1. executions'[i].age = executions[i].age
  BY <1>0, RecordsKept
<1>2. executions'[i].status \in {"running", "failed", "deleted"}
  <2>1. CASE executions' = executions
    BY <1>0, <2>1
  <2>2. ASSUME NEW k \in Ids, NEW e \in Record, Written(k, e), Change(k, e)
        PROVE  executions'[i].status \in {"running", "failed", "deleted"}
    <3>1. executions' = [executions EXCEPT ![k] = e]
      BY <2>2 DEF Written
    <3>2. CASE k # i
      BY <1>0, <3>1, <3>2
    <3>3. CASE k = i
      <4>1. executions'[i] = e
        BY <1>0, <3>1, <3>3
      <4>2. ASSUME NEW n \in 1 .. MaxRuns, RecordedBy(n, k, e) PROVE FALSE
        <5>1. handlers[n].pc = "write" /\ handlers[n].id = i /\ i # 0
          BY <1>0, <3>3, <4>2 DEF RecordedBy, Ids
        <5>2. executions[i].age <= RecentAge
          BY <5>1 DEF JobInv, HandlersAgree
        <5>3. executions[i].age \in Nat
          BY <1>0 DEF Record
        <5> QED
          BY <1>0, <5>2, <5>3
      <4> QED
        BY <1>0, <2>2, <3>3, <4>1, <4>2 DEF Change, SetBySomeone
    <3> QED
      BY <3>2, <3>3
  <2> QED
    BY <2>1, <2>2 DEF RecordsEffect
<1> QED
  BY <1>0, <1>1, <1>2

\* The zombie check holds old records only.
LEMMA ZombiesStep ==
  ASSUME JobInv, Next
  PROVE  ZombiesAreOld'
<1>1. CASE Tick
  BY <1>1, TickAges DEF ZombiesAreOld
<1>2. CASE CheckZombieTasks
  BY <1>2 DEF CheckZombieTasks, ZombiesAreOld
<1>3. CASE ~Tick /\ ~CheckZombieTasks
  <2>1. zombies' \subseteq zombies
    <3>1. CASE SchedulerStep
      BY <1>3, <3>1
      DEF SchedulerStep, CronDue, SkipDispatch, Misfire, FindRunning, RecordExecution, LoseExecution,
          CreateService, PauseJob, ResumeJob, TriggerJob, TriggerRecords, ReadExecution, WriteExecution,
          FailZombie, AbandonZombies
    <3>2. ASSUME NEW j \in Jobs, StartBody(j) \/ BodyStep(j) PROVE zombies' = zombies
      BY <3>2, BodyEffect DEF StartBody, Dispatch, KeptByBodies
    <3>3. CASE Restart
      BY <3>3 DEF Restart, SchedulerRestart
    <3> QED
      BY <1>3, <3>1, <3>2, <3>3 DEF Next
  <2>2. RecordsEffect
    BY <1>3, WhoWrites
  <2> QED
    BY <2>1, <2>2, ZombieSurvives DEF ZombiesAreOld
<1> QED
  BY <1>1, <1>2, <1>3

\* A record shows a new success only by the hand of a handler that heard of one.
LEMMA WhoShows ==
  ASSUME JobInv, Next
  PROVE  \/ \A k \in Jobs : Shown(k)' \subseteq Shown(k)
         \/ \E n \in 1 .. MaxRuns, i \in Ids :
              /\ handlers[n].pc = "write" /\ handlers[n].status = "success"
              /\ handlers' = [handlers EXCEPT ![n] = NoHandler] /\ successes' = successes
              /\ \A k \in Jobs : Shown(k)' \subseteq IF k = handlers[n].job THEN Shown(k) \cup {i}
                                                                           ELSE Shown(k)
<1>0. executions \in [Ids -> Record]
  BY TypeParts DEF TypesInParts, JobInv
<1>1. CASE Tick
  BY <1>1, TickAges DEF Shown
<1>2. CASE ~Tick /\ executions' = executions
  BY <1>2 DEF Shown
<1>3. ASSUME NEW i \in Ids, NEW e \in Record, Written(i, e), Change(i, e)
      PROVE  \/ \A k \in Jobs : Shown(k)' \subseteq Shown(k)
             \/ \E n \in 1 .. MaxRuns :
                  /\ handlers[n].pc = "write" /\ handlers[n].status = "success"
                  /\ handlers' = [handlers EXCEPT ![n] = NoHandler] /\ successes' = successes
                  /\ \A k \in Jobs : Shown(k)' \subseteq IF k = handlers[n].job THEN Shown(k) \cup {i}
                                                                               ELSE Shown(k)
  <2>1. executions'[i] = e /\ \A k \in Ids \ {i} : executions'[k] = executions[k]
    BY <1>0, <1>3 DEF Written
  <2>2. e.status # "success" => \A k \in Jobs : Shown(k)' \subseteq Shown(k)
    BY <2>1 DEF Shown
  <2>3. ASSUME e.status = executions[i].status PROVE \A k \in Jobs : Shown(k)' \subseteq Shown(k)
    BY <1>3, <2>1, <2>3 DEF Shown, Written
  <2>4. ASSUME NEW n \in 1 .. MaxRuns, RecordedBy(n, i, e), e.status = "success"
        PROVE  /\ handlers[n].pc = "write" /\ handlers[n].status = "success"
               /\ handlers' = [handlers EXCEPT ![n] = NoHandler] /\ successes' = successes
               /\ \A k \in Jobs : Shown(k)' \subseteq IF k = handlers[n].job THEN Shown(k) \cup {i}
                                                                            ELSE Shown(k)
    BY <2>1, <2>4 DEF Shown, RecordedBy
  <2> QED
    BY <1>3, <2>2, <2>3, <2>4 DEF Change, SetBySomeone
<1> QED
  BY <1>1, <1>2, <1>3, WhoWrites DEF RecordsEffect

\* The sets of records and of handlers are finite.
LEMMA FiniteSets ==
  ASSUME NEW k
  PROVE  /\ IsFiniteSet(Shown(k)) /\ IsFiniteSet(Heard(k))
         /\ Cardinality(Shown(k)) \in Nat /\ Cardinality(Heard(k)) \in Nat
<1>1. IsFiniteSet(Ids) /\ IsFiniteSet(1 .. MaxRuns)
  BY FS_Interval, SchedulerAssumption DEF Ids
<1>2. Shown(k) \subseteq Ids /\ Heard(k) \subseteq 1 .. MaxRuns
  BY DEF Shown, Heard
<1>3. IsFiniteSet(Shown(k)) /\ IsFiniteSet(Heard(k))
  BY <1>1, <1>2, FS_Subset
<1> QED
  BY <1>3, FS_CardinalityType

\* One element more, at most.
LEMMA AtMostOneMore ==
  ASSUME NEW S, IsFiniteSet(S), NEW x, NEW T \in SUBSET (S \cup {x})
  PROVE  IsFiniteSet(T) /\ Cardinality(T) \in Nat /\ Cardinality(T) <= Cardinality(S) + 1
<1>1. /\ IsFiniteSet(S \cup {x}) /\ Cardinality(S) \in Nat
      /\ Cardinality(S \cup {x}) = IF x \in S THEN Cardinality(S) ELSE Cardinality(S) + 1
  BY FS_AddElement, FS_CardinalityType
<1>2. IsFiniteSet(T) /\ Cardinality(T) <= Cardinality(S \cup {x})
  BY <1>1, FS_Subset
<1>3. Cardinality(T) \in Nat
  BY <1>2, FS_CardinalityType
<1> QED
  BY <1>1, <1>2, <1>3

\* What is shown and heard of a job never exceeds its successes.
LEMMA SuccessesStep ==
  ASSUME JobInv, Next
  PROVE  SuccessesCovered'
<1> SUFFICES ASSUME NEW k \in Jobs
             PROVE  Cardinality(Shown(k)') + Cardinality(Heard(k)') <= successes'[k]
  BY DEF SuccessesCovered
<1>0. /\ Cardinality(Shown(k)) + Cardinality(Heard(k)) <= successes[k]
      /\ successes \in [Jobs -> 0 .. MaxRuns] /\ successes[k] \in Nat
      /\ handlers \in [1 .. MaxRuns -> Handler]
  BY TypeParts, SchedulerAssumption DEF TypesInParts, JobInv, SuccessesCovered, BodyTypes
<1>1. /\ IsFiniteSet(Shown(k)) /\ IsFiniteSet(Heard(k))
      /\ Cardinality(Shown(k)) \in Nat /\ Cardinality(Heard(k)) \in Nat
  BY FiniteSets
<1>2. /\ Shown(k)' \subseteq Shown(k) => /\ Cardinality(Shown(k)') \in Nat
                                         /\ Cardinality(Shown(k)') <= Cardinality(Shown(k))
      /\ Heard(k)' \subseteq Heard(k) => /\ Cardinality(Heard(k)') \in Nat
                                         /\ Cardinality(Heard(k)') <= Cardinality(Heard(k))
  BY <1>1, FS_Subset, FS_CardinalityType
<1>3. CASE Shown(k)' \subseteq Shown(k)
  <2>1. CASE successes' = successes /\ Heard(k)' \subseteq Heard(k)
    BY <1>0, <1>1, <1>2, <1>3, <2>1
  <2>2. ASSUME NEW j \in Jobs, NEW n \in 1 .. MaxRuns,
               successes' = [successes EXCEPT ![j] = @ + 1],
               Heard(j)' \subseteq Heard(j) \cup {n},
               \A l \in Jobs \ {j} : Heard(l)' \subseteq Heard(l)
        PROVE  Cardinality(Shown(k)') + Cardinality(Heard(k)') <= successes'[k]
    <3>1. CASE k = j
      <4>1. Cardinality(Heard(k)') \in Nat /\ Cardinality(Heard(k)') <= Cardinality(Heard(k)) + 1
        BY <1>1, <2>2, <3>1, AtMostOneMore
      <4>2. successes'[k] = successes[k] + 1
        BY <1>0, <2>2, <3>1
      <4> QED
        BY <1>0, <1>1, <1>2, <1>3, <4>1, <4>2
    <3>2. CASE k # j
      <4>1. Heard(k)' \subseteq Heard(k) /\ successes'[k] = successes[k]
        BY <1>0, <2>2, <3>2
      <4> QED
        BY <1>0, <1>1, <1>2, <1>3, <4>1
    <3> QED
      BY <3>1, <3>2
  <2> QED
    BY <2>1, <2>2, WhoHears DEF SuccessEffect
<1>4. ASSUME NEW n \in 1 .. MaxRuns, NEW i \in Ids,
             handlers[n].pc = "write", handlers[n].status = "success",
             handlers' = [handlers EXCEPT ![n] = NoHandler], successes' = successes,
             Shown(k)' \subseteq IF k = handlers[n].job THEN Shown(k) \cup {i} ELSE Shown(k)
      PROVE  Cardinality(Shown(k)') + Cardinality(Heard(k)') <= successes'[k]
  <2>1. handlers'[n] = NoHandler /\ \A m \in 1 .. MaxRuns \ {n} : handlers'[m] = handlers[m]
    BY <1>0, <1>4
  <2>2. Heard(k)' \subseteq Heard(k) \ {n}
    BY <2>1 DEF Heard, NoHandler
  <2>3. CASE k = handlers[n].job
    <3>1. n \in Heard(k)
      BY <1>4, <2>3 DEF Heard
    <3>2. /\ IsFiniteSet(Heard(k) \ {n}) /\ Cardinality(Heard(k) \ {n}) = Cardinality(Heard(k)) - 1
      BY <1>1, <3>1, FS_RemoveElement
    <3>3. Cardinality(Heard(k)') \in Nat /\ Cardinality(Heard(k)') <= Cardinality(Heard(k)) - 1
      BY <2>2, <3>2, FS_Subset, FS_CardinalityType
    <3>4. Cardinality(Shown(k)') \in Nat /\ Cardinality(Shown(k)') <= Cardinality(Shown(k)) + 1
      BY <1>1, <1>4, <2>3, AtMostOneMore
    <3> QED
      BY <1>0, <1>1, <1>4, <3>3, <3>4
  <2>4. CASE k # handlers[n].job
    BY <1>0, <1>1, <1>2, <1>4, <2>2, <2>4
  <2> QED
    BY <2>3, <2>4
<1> QED
  BY <1>3, <1>4, WhoShows

\* The limiter moves by its own steps only.
LEMMA LimiterStep ==
  ASSUME JobInv, Next
  PROVE  LimiterInv'
<1>1. LimiterInv
  BY DEF JobInv
<1>2. UNCHANGED limiterVars \/ LimiterNext
  <2>1. ASSUME NEW j \in Jobs, BodyStep(j) PROVE UNCHANGED limiterVars \/ LimiterNext
    BY <2>1, BodyEffect
  <2> QED
    BY <2>1 DEF Next, StartBody, Tick, Restart, LimiterNext
<1>3. CASE UNCHANGED limiterVars
  BY <1>1, <1>3
  DEF limiterVars, LimiterInv, LimiterTypeOK, PermitsAreCalls, Outdated, SleeperKnowsOldest
<1> QED
  BY <1>1, <1>2, <1>3, LimiterKept

-----------------------------------------------------------------------------
\* The theorems

\* Nothing is recorded and nothing runs.
LEMMA JobsStart ==
  Init => JobInv
<1> SUFFICES ASSUME Init PROVE JobInv
  OBVIOUS
<1>0. /\ MaxRecords \in Nat /\ MaxRuns \in Nat /\ MaxOps \in Nat /\ ZombieAge \in Nat
      /\ Items \in Nat \ {0} /\ MaxRestarts \in Nat
  BY SchedulerAssumption, SyncAssumption
<1>1. LimiterInv
  BY LimiterInitially DEF Init
<1>2. TypeOK
  <2>1. executions \in [Ids -> Record] /\ handlers \in [1 .. MaxRuns -> Handler]
    BY <1>0 DEF Init, SchedulerInit, NoHandler, Record, Handler, Statuses
  <2>2. PlainTypes
    <3>1. request = NoRequest /\ zombies = {} /\ service = FALSE /\ runs = 0 /\ ops = 0
      BY DEF Init, SchedulerInit
    <3>2. paused \in [Jobs -> BOOLEAN] /\ due \in [Jobs -> BOOLEAN]
      BY DEF Init, SchedulerInit
    <3>3. running \in [Jobs -> 0 .. MaxRuns]
      BY <1>0 DEF Init, SchedulerInit
    <3>4. runs \in 0 .. MaxRuns /\ ops \in 0 .. MaxOps
      BY <1>0, <3>1
    <3>5. request \in Request /\ zombies \subseteq Ids /\ service \in BOOLEAN
      BY <3>1, RequestTypes
    <3> QED
      BY <3>2, <3>3, <3>4, <3>5 DEF PlainTypes
  <2>3. BodyTypes
    BY <1>0 DEF Init, BodyTypes, Idle, Body
  <2> QED
    BY <1>1, <2>1, <2>2, <2>3, TypeParts DEF TypesInParts, LimiterInv
<1>3. HandlersAgree /\ ZombiesAreOld /\ RequestKnown /\ BodyRuns /\ LateOnce /\ RunsCounted
  BY <1>0, RequestTypes DEF Init, SchedulerInit, NoHandler, NoRequest, Idle, HandlersAgree, ZombiesAreOld,
    RequestKnown, BodyRuns, LateOnce, LateAt, RunsCounted
<1>4. SuccessesCovered
  <2>1. \A k \in Jobs : Shown(k) = {} /\ Heard(k) = {} /\ successes[k] = 0
    BY DEF Init, SchedulerInit, Shown, Heard, NoHandler
  <2> QED
    BY <2>1, FS_EmptySet DEF SuccessesCovered
<1> QED
  BY <1>1, <1>2, <1>3, <1>4 DEF JobInv

\* The invariant of records, handlers, bodies and limiter, in every behaviour.
THEOREM JobsInductive == Spec => []JobInv
<1>1. Init => JobInv
  BY JobsStart
<1>2. JobInv /\ [Next]_vars => JobInv'
  <2>1. ASSUME JobInv, Next PROVE JobInv'
    <3>1. TypesInParts' => TypeOK'
      BY TypeParts, PTL
    <3>2. LimiterInv' /\ LimiterTypeOK'
      BY <2>1, LimiterStep DEF LimiterInv
    <3>3. TypesInParts'
      BY <2>1, <3>2, CountsKept, HandlersStep, WhoHears DEF TypesInParts
    <3>4. HandlersAgree' /\ ZombiesAreOld' /\ SuccessesCovered'
      BY <2>1, HandlersStep, ZombiesStep, SuccessesStep
    <3>5. RequestKnown' /\ BodyRuns' /\ LateOnce' /\ RunsCounted'
      BY <2>1, CountsKept
    <3> QED
      BY <3>1, <3>2, <3>3, <3>4, <3>5 DEF JobInv
  <2>2. ASSUME JobInv, UNCHANGED vars PROVE JobInv'
    <3> USE DEF vars, schedulerVars, limiterVars, jobVars
    <3>1. TypeOK'
      BY <2>2 DEF JobInv, TypeOK, SchedulerTypeOK, LimiterTypeOK
    <3>2. LimiterInv'
      BY <2>2 DEF JobInv, LimiterInv, LimiterTypeOK, PermitsAreCalls, Outdated, SleeperKnowsOldest
    <3>3. HandlersAgree' /\ ZombiesAreOld' /\ RequestKnown'
      BY <2>2 DEF JobInv, HandlersAgree, ZombiesAreOld, RequestKnown
    <3>4. BodyRuns' /\ LateOnce' /\ RunsCounted'
      BY <2>2 DEF JobInv, BodyRuns, LateOnce, LateAt, RunsCounted
    <3>5. SuccessesCovered'
      BY <2>2 DEF JobInv, SuccessesCovered, Shown, Heard
    <3> QED
      BY <3>1, <3>2, <3>3, <3>4, <3>5 DEF JobInv
  <2> QED
    BY <2>1, <2>2
<1> QED
  BY <1>1, <1>2, PTL DEF Spec

\* Every variable of scheduler, limiter and bodies keeps its type.
THEOREM JobTypes == Spec => []TypeOK
<1>1. JobInv => TypeOK
  BY DEF JobInv
<1> QED
  BY <1>1, JobsInductive, PTL

\* A job never shows more successes than runs of it returned
\* (_record_job_execution).
THEOREM NoFalseSuccess == Spec => []SuccessesAreRuns
<1>1. JobInv => SuccessesAreRuns
  <2> SUFFICES ASSUME JobInv, NEW j \in Jobs PROVE Cardinality(Shown(j)) <= successes[j]
    BY DEF SuccessesAreRuns, Shown
  <2>1. /\ Cardinality(Shown(j)) + Cardinality(Heard(j)) <= successes[j] /\ successes[j] \in Nat
    BY TypeParts, SchedulerAssumption DEF TypesInParts, JobInv, SuccessesCovered, BodyTypes
  <2> QED
    BY <2>1, FiniteSets
<1> QED
  BY <1>1, JobsInductive, PTL

\* Once the cancel flag is visible, a body that looks at it begins one item at
\* most, and one more for each look the database left unanswered, on every path
\* through its loop (_should_stop, _update_progress).
THEOREM CancellationIsObeyed == Spec => []CancelObeyed
<1>1. JobInv => CancelObeyed
  BY DEF JobInv, LateOnce, LateAt, CancelObeyed
<1> QED
  BY <1>1, JobsInductive, PTL

\* The jobs that share the limiter keep its window, whatever else they do
\* (TushareRateLimiter.acquire).
THEOREM JobsKeepTheRate == Spec => []PermitsInWindow
<1>1. JobInv => PermitsInWindow
  BY LimiterSafe DEF JobInv
<1> QED
  BY <1>1, JobsInductive, PTL

\* A record that has ended changes by the user, by the event that found it
\* running, or by a financial job that reopens it; never by the zombie check.
THEOREM EndedForGood == Spec => EndedRecordsStay
<1> DEFINE Why(i) ==
         \/ request.op \in {"mark", "delete"} /\ request.id = i
         \/ \E n \in 1 .. MaxRuns : /\ handlers[n].pc = "write" /\ handlers[n].id = i
                                    /\ handlers'[n] = NoHandler
         \/ /\ kind[executions[i].job] = "financial"
            /\ running[executions[i].job] # 0
            /\ executions'[i].status = "running"
<1>1. ASSUME JobInv, [Next]_vars, NEW i \in Ids,
             executions[i].status \in Ended, executions'[i].status # executions[i].status
      PROVE  Why(i)
  <2>1. Next
    BY <1>1 DEF vars, schedulerVars
  <2>2. ~Tick
    BY <1>1, TickAges
  <2>3. RecordsEffect
    BY <1>1, <2>1, <2>2, WhoWrites
  <2>4. PICK k \in Ids, e \in Record : Written(k, e) /\ Change(k, e)
    BY <1>1, <2>3 DEF RecordsEffect
  <2>5. /\ executions \in [Ids -> Record] /\ handlers \in [1 .. MaxRuns -> Handler]
    BY <1>1, TypeParts DEF TypesInParts, JobInv
  <2>6. k = i /\ executions'[i] = e
    BY <1>1, <2>4, <2>5 DEF Written
  <2>7. executions[i].status # "none"
    BY <1>1 DEF Ended
  <2>8. ASSUME NEW n \in 1 .. MaxRuns, RecordedBy(n, k, e) PROVE Why(i)
    BY <2>5, <2>6, <2>7, <2>8 DEF RecordedBy
  <2>9. ASSUME i \in zombies, e.status = "failed" PROVE FALSE
    <3>1. executions[i].status = "failed"
      BY <1>1, <2>9 DEF JobInv, ZombiesAreOld, Ended
    <3> QED
      BY <1>1, <2>6, <2>9, <3>1
  <2> QED
    BY <1>1, <2>4, <2>6, <2>7, <2>8, <2>9 DEF Change, SetBySomeone
<1>2. JobInv /\ [Next]_vars => \A i \in Ids :
        executions[i].status \in Ended /\ executions'[i].status # executions[i].status => Why(i)
  BY <1>1
<1> QED
  BY <1>2, JobsInductive, PTL DEF Spec, EndedRecordsStay

=============================================================================
