-------------------------- MODULE SchedulerService --------------------------
(***************************************************************************)
(* The execution records of the scheduled jobs                              *)
(* (app/services/scheduler_service.py, collection scheduler_executions).    *)
(* The service object, its listeners and its zombie check exist only after  *)
(* the first call of the scheduler API.  APScheduler itself is external: a  *)
(* job becomes due, is dispatched with max_instances = 1, or misfires.      *)
(*                                                                          *)
(* Time is kept as the age of each record.  A tick is longer than any       *)
(* database call, so it passes only between the handlers; what interleaves  *)
(* inside a tick is unrestricted.                                           *)
(***************************************************************************)
EXTENDS Integers, FiniteSets

CONSTANTS
  Jobs,
  MaxRecords,  \* bound on the records ever inserted
  MaxRuns,     \* bound on the dispatches of all jobs together
  MaxOps,      \* bound on the state-changing API calls
  RecentAge,   \* "five minutes": an older running record is not found again
  ZombieAge    \* "thirty minutes": a running record older than that is failed

ASSUME SchedulerAssumption ==
  /\ MaxRecords \in Nat /\ MaxRuns \in Nat /\ MaxOps \in Nat
  /\ RecentAge \in Nat /\ ZombieAge \in Nat /\ RecentAge <= ZombieAge

VARIABLES
  executions,  \* scheduler_executions, by _id; ids grow with the timestamp
  service,     \* get_scheduler_service() has been called in this process
  paused,      \* per job: next_run_time is None
  due,         \* per job: next_run_time is reached
  running,     \* per job: the number of its run, 0 when it does not run
  runs,        \* dispatches so far
  handlers,    \* per dispatch: the _record_job_execution task of its event
  request,     \* the API call between its read and its write
  ops,         \* API calls so far
  zombies      \* ids that _check_zombie_tasks has read and not yet updated

schedulerVars ==
  <<executions, service, paused, due, running, runs, handlers, request, ops, zombies>>

Ids == 1 .. MaxRecords
Ended == {"success", "failed"}
Statuses == {"none", "running", "missed", "deleted"} \cup Ended

NoHandler == [job |-> "none", status |-> "none", pc |-> "off", id |-> 0]
NoRequest == [op |-> "none", job |-> "none", id |-> 0]

SchedulerTypeOK ==
  /\ executions \in [Ids -> [job : Jobs \cup {"none"}, status : Statuses,
                             cancel : BOOLEAN, age : 0 .. ZombieAge + 1]]
  /\ service \in BOOLEAN
  /\ paused \in [Jobs -> BOOLEAN] /\ due \in [Jobs -> BOOLEAN]
  /\ running \in [Jobs -> 0 .. MaxRuns]
  /\ runs \in 0 .. MaxRuns /\ ops \in 0 .. MaxOps
  /\ handlers \in [1 .. MaxRuns -> [job : Jobs \cup {"none"}, status : Ended \cup {"none", "missed"},
                                    pc : {"off", "find", "write"}, id : 0 .. MaxRecords]]
  /\ request \in [op : {"none", "trigger", "cancel", "mark", "delete"},
                  job : Jobs \cup {"none"}, id : 0 .. MaxRecords]
  /\ zombies \subseteq Ids

SchedulerInit ==
  /\ executions = [i \in Ids |-> [job |-> "none", status |-> "none", cancel |-> FALSE, age |-> 0]]
  /\ service = FALSE
  /\ paused = [j \in Jobs |-> FALSE] /\ due = [j \in Jobs |-> FALSE]
  /\ running = [j \in Jobs |-> 0]
  /\ runs = 0 /\ ops = 0
  /\ handlers = [n \in 1 .. MaxRuns |-> NoHandler]
  /\ request = NoRequest
  /\ zombies = {}

-----------------------------------------------------------------------------
\* The collection

Stored(i) == executions[i].status \notin {"none", "deleted"}

\* sort=[("timestamp", -1)] of a find_one; 0 when nothing matches.
Newest(S) == IF S = {} THEN 0 ELSE CHOOSE i \in S : \A k \in S : k <= i

RunningRecords(j) == {i \in Ids : executions[i].job = j /\ executions[i].status = "running"}

Room == \E i \in Ids : executions[i].status = "none"

\* insert_one
Insert(j, status) ==
  LET i == CHOOSE k \in Ids : /\ executions[k].status = "none"
                              /\ \A l \in 1 .. k - 1 : executions[l].status # "none"
  IN  /\ Room
      /\ executions' = [executions EXCEPT
                          ![i] = [job |-> j, status |-> status, cancel |-> FALSE, age |-> 0]]

\* update_one by _id: matches nothing when the record was deleted meanwhile.
SetStatus(i, status) ==
  executions' = IF Stored(i) THEN [executions EXCEPT ![i].status = status] ELSE executions

-----------------------------------------------------------------------------
\* APScheduler, as app/main.py sets it up

\* The cron time of a job arrives.
CronDue(j) ==
  /\ ~paused[j] /\ ~due[j]
  /\ runs < MaxRuns
  /\ due' = [due EXCEPT ![j] = TRUE]
  /\ UNCHANGED <<executions, service, paused, running, runs, handlers, request, ops, zombies>>

\* A due job that does not run is submitted.
Dispatch(j) ==
  /\ due[j] /\ running[j] = 0
  /\ runs < MaxRuns
  /\ due' = [due EXCEPT ![j] = FALSE]
  /\ runs' = runs + 1
  /\ running' = [running EXCEPT ![j] = runs + 1]
  /\ UNCHANGED <<executions, service, paused, handlers, request, ops, zombies>>

\* max_instances = 1: no listener hears of the dropped dispatch.
SkipDispatch(j) ==
  /\ due[j] /\ running[j] # 0
  /\ due' = [due EXCEPT ![j] = FALSE]
  /\ UNCHANGED <<executions, service, paused, running, runs, handlers, request, ops, zombies>>

\* asyncio.create_task(self._record_job_execution(...)) of the three listeners;
\* without the service nobody listens.
Announce(n, j, status) ==
  handlers' = IF ~service THEN handlers
              ELSE [handlers EXCEPT ![n] =
                      [job |-> j, status |-> status, id |-> 0,
                       pc |-> IF status \in Ended THEN "find" ELSE "write"]]

\* The dispatch comes later than the misfire grace time.
Misfire(j) ==
  /\ due[j] /\ running[j] = 0
  /\ runs < MaxRuns
  /\ due' = [due EXCEPT ![j] = FALSE]
  /\ runs' = runs + 1
  /\ Announce(runs + 1, j, "missed")
  /\ UNCHANGED <<executions, service, paused, running, request, ops, zombies>>

\* The coroutine of a run returns (status "success") or raises ("failed").
RunReturns(j, status) ==
  /\ running[j] # 0
  /\ Announce(running[j], j, status)
  /\ running' = [running EXCEPT ![j] = 0]

-----------------------------------------------------------------------------
\* _record_job_execution: find the running record of the job, then write

FindRunning(n) ==
  /\ handlers[n].pc = "find"
  /\ handlers' = [handlers EXCEPT
       ![n].pc = "write",
       ![n].id = Newest({i \in RunningRecords(handlers[n].job) :
                           executions[i].age <= RecentAge})]
  /\ UNCHANGED <<executions, service, paused, due, running, runs, request, ops, zombies>>

\* Mutant of RecordExecution: update_many by job instead of update_one by _id.
RecordExecutionOfAll(n) ==
  /\ handlers[n].pc = "write"
  /\ IF handlers[n].id # 0
     THEN executions' = [i \in Ids |-> IF i \in RunningRecords(handlers[n].job)
                                      THEN [executions[i] EXCEPT !.status = handlers[n].status]
                                      ELSE executions[i]]
     ELSE Insert(handlers[n].job, handlers[n].status)
  /\ handlers' = [handlers EXCEPT ![n] = NoHandler]
  /\ UNCHANGED <<service, paused, due, running, runs, request, ops, zombies>>

RecordExecution(n) ==
  /\ handlers[n].pc = "write"
  /\ IF handlers[n].id # 0 THEN SetStatus(handlers[n].id, handlers[n].status)
                           ELSE Insert(handlers[n].job, handlers[n].status)
  /\ handlers' = [handlers EXCEPT ![n] = NoHandler]
  /\ UNCHANGED <<service, paused, due, running, runs, request, ops, zombies>>

\* A database error in either step is logged, and the event is not recorded.
LoseExecution(n) ==
  /\ handlers[n].pc \in {"find", "write"}
  /\ handlers' = [handlers EXCEPT ![n] = NoHandler]
  /\ UNCHANGED <<executions, service, paused, due, running, runs, request, ops, zombies>>

-----------------------------------------------------------------------------
\* The API

\* get_scheduler_service: the first call creates the service, its listeners and
\* its zombie job.
CreateService ==
  /\ ~service
  /\ service' = TRUE
  /\ UNCHANGED <<executions, paused, due, running, runs, handlers, request, ops, zombies>>

Called == service /\ request = NoRequest /\ ops < MaxOps /\ ops' = ops + 1

\* pause_job / resume_job
PauseJob(j) ==
  /\ Called /\ ~paused[j]
  /\ paused' = [paused EXCEPT ![j] = TRUE]
  /\ due' = [due EXCEPT ![j] = FALSE]
  /\ UNCHANGED <<executions, service, running, runs, handlers, request, zombies>>

ResumeJob(j) ==
  /\ Called /\ paused[j]
  /\ paused' = [paused EXCEPT ![j] = FALSE]
  /\ UNCHANGED <<executions, service, due, running, runs, handlers, request, zombies>>

\* trigger_job up to its first await: a paused job is resumed and stays so.
TriggerJob(j) ==
  /\ Called
  /\ paused' = [paused EXCEPT ![j] = FALSE]
  /\ due' = [due EXCEPT ![j] = TRUE]
  /\ request' = [op |-> "trigger", job |-> j, id |-> 0]
  /\ UNCHANGED <<executions, service, running, runs, handlers, zombies>>

\* ... and after the history entry: the "running" record, whatever the job did
\* in the meantime.
TriggerRecords ==
  /\ request.op = "trigger"
  /\ Insert(request.job, "running")
  /\ request' = NoRequest
  /\ UNCHANGED <<service, paused, due, running, runs, handlers, ops, zombies>>

\* The find_one of cancel_job_execution, mark_execution_as_failed and
\* delete_execution with the refusal that follows it.
ReadExecution(op, i) ==
  /\ Called
  /\ Stored(i)
  /\ op = "cancel" => executions[i].status = "running"
  /\ op = "delete" => executions[i].status # "running"
  /\ request' = [op |-> op, job |-> executions[i].job, id |-> i]
  /\ UNCHANGED <<executions, service, paused, due, running, runs, handlers, zombies>>

\* Their writes, by _id and without a condition.
CancelExecution ==
  /\ request.op = "cancel"
  /\ executions' = IF Stored(request.id) THEN [executions EXCEPT ![request.id].cancel = TRUE]
                                         ELSE executions
MarkExecutionAsFailed == request.op = "mark" /\ SetStatus(request.id, "failed")
DeleteExecution ==
  /\ request.op = "delete"
  /\ executions' = [executions EXCEPT ![request.id].status = "deleted"]

WriteExecution ==
  /\ CancelExecution \/ MarkExecutionAsFailed \/ DeleteExecution
  /\ request' = NoRequest
  /\ UNCHANGED <<service, paused, due, running, runs, handlers, ops, zombies>>

-----------------------------------------------------------------------------
\* The zombie check, every five minutes

\* Mutant of CheckZombieTasks: the query forgets the status.
CheckZombieTasksAnyStatus ==
  /\ service /\ zombies = {}
  /\ zombies' = {i \in Ids : executions[i].status # "missed" /\ executions[i].age > ZombieAge}
  /\ zombies' # {}
  /\ UNCHANGED <<executions, service, paused, due, running, runs, handlers, request, ops>>

\* Mutant of CheckZombieTasks: the comparison with the threshold is reversed.
CheckZombieTasksYoung ==
  /\ service /\ zombies = {}
  /\ zombies' = {i \in Ids : executions[i].status = "running" /\ executions[i].age < ZombieAge}
  /\ zombies' # {}
  /\ UNCHANGED <<executions, service, paused, due, running, runs, handlers, request, ops>>

CheckZombieTasks ==
  /\ service /\ zombies = {}
  /\ zombies' = {i \in Ids : executions[i].status = "running" /\ executions[i].age > ZombieAge}
  /\ zombies' # {}
  /\ UNCHANGED <<executions, service, paused, due, running, runs, handlers, request, ops>>

FailZombie(i) ==
  /\ i \in zombies
  /\ SetStatus(i, "failed")
  /\ zombies' = zombies \ {i}
  /\ UNCHANGED <<service, paused, due, running, runs, handlers, request, ops>>

\* A database error ends the loop: what it has not updated waits for the next check.
AbandonZombies ==
  /\ zombies # {}
  /\ zombies' = {}
  /\ UNCHANGED <<executions, service, paused, due, running, runs, handlers, request, ops>>

-----------------------------------------------------------------------------
\* Time and restarts.  The age of a missed record is never looked at.

DatabaseIdle ==
  /\ request = NoRequest /\ zombies = {}
  /\ \A n \in 1 .. MaxRuns : handlers[n] = NoHandler

SchedulerTick ==
  /\ DatabaseIdle
  /\ executions' = [i \in Ids |->
       IF executions[i].status \in {"running"} \cup Ended /\ executions[i].age <= ZombieAge
       THEN [executions[i] EXCEPT !.age = @ + 1] ELSE executions[i]]
  /\ UNCHANGED <<service, paused, due, running, runs, handlers, request, ops, zombies>>

\* The jobs are registered anew at the next start; the collection stays.
SchedulerRestart ==
  /\ service' = FALSE
  /\ paused' = [j \in Jobs |-> FALSE] /\ due' = [j \in Jobs |-> FALSE]
  /\ running' = [j \in Jobs |-> 0]
  /\ handlers' = [n \in 1 .. MaxRuns |-> NoHandler]
  /\ request' = NoRequest
  /\ zombies' = {}
  /\ UNCHANGED <<executions, runs, ops>>

SchedulerStep ==
  \/ \E j \in Jobs : CronDue(j) \/ SkipDispatch(j) \/ Misfire(j)
  \/ \E n \in 1 .. MaxRuns : FindRunning(n) \/ RecordExecution(n) \/ LoseExecution(n)
  \/ CreateService
  \/ \E j \in Jobs : PauseJob(j) \/ ResumeJob(j) \/ TriggerJob(j)
  \/ TriggerRecords
  \/ \E i \in Ids, op \in {"cancel", "mark", "delete"} : ReadExecution(op, i)
  \/ WriteExecution
  \/ CheckZombieTasks
  \/ \E i \in Ids : FailZombie(i)
  \/ AbandonZombies
=============================================================================
