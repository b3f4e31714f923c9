------------------------------ MODULE SyncJobs ------------------------------
(***************************************************************************)
(* The bodies of the scheduled synchronisation jobs                         *)
(* (app/worker/*_sync_service.py) beside the records SchedulerService keeps *)
(* of them and the limiter the Tushare jobs share.  Four shapes of body     *)
(* cover the jobs that app/main.py registers:                               *)
(*   batch      basic data and news: look at the cancel flag, process a     *)
(*              batch, report progress                                      *)
(*   symbol     price history: look, take a permit, fetch and save one      *)
(*              symbol, report progress                                     *)
(*   financial  financial data: take a permit, fetch and save one symbol,   *)
(*              report through update_job_progress every few symbols        *)
(*   plain      quotes and every AKShare and BaoStock job: no look, no      *)
(*              report                                                      *)
(* No body lets an exception out once it is initialised: it returns its     *)
(* statistics, which the scheduler hears as success.                        *)
(***************************************************************************)
EXTENDS SchedulerService, RateLimiter

CONSTANTS
  KindsOfJobs,   \* the assignments of body shapes to Jobs to be considered
  Items,         \* batches or symbols of one run
  ReportEvery,   \* sync_financial_data reports every 20 symbols
  MaxRestarts    \* bound on restarts of the process

ASSUME SyncAssumption ==
  /\ Callers = Jobs
  /\ KindsOfJobs \subseteq [Jobs -> {"batch", "symbol", "financial", "plain"}]
  /\ Items \in Nat \ {0} /\ ReportEvery \in Nat \ {0}
  /\ MaxRestarts \in Nat

VARIABLES
  kind,      \* per job: the shape of its body
  body,      \* per job: where its coroutine stands, and in which item
  successes, \* history: per job, the runs that returned
  late,      \* history: per job, the items this run has begun under a visible
             \* cancel flag since a look last found none
  blind,     \* history: per job, the looks of this run the database did not answer
  restarts

jobVars == <<kind, body, successes, late, blind, restarts>>
vars == <<schedulerVars, limiterVars, jobVars>>

Idle == [pc |-> "idle", item |-> 0]

TypeOK ==
  /\ SchedulerTypeOK /\ LimiterTypeOK
  /\ kind \in KindsOfJobs
  /\ body \in [Jobs -> [pc : {"idle", "init", "look", "permit", "asleep", "work", "report"},
                        item : 0 .. Items]]
  /\ successes \in [Jobs -> 0 .. MaxRuns]
  /\ late \in [Jobs -> Nat] /\ blind \in [Jobs -> Nat]
  /\ restarts \in 0 .. MaxRestarts

Init ==
  /\ SchedulerInit /\ LimiterInit
  /\ kind \in KindsOfJobs
  /\ body = [j \in Jobs |-> Idle]
  /\ successes = [j \in Jobs |-> 0]
  /\ late = [j \in Jobs |-> 0] /\ blind = [j \in Jobs |-> 0]
  /\ restarts = 0

-----------------------------------------------------------------------------
\* How a body moves on

At(j, pc) == body[j].pc = pc

GoTo(j, pc) == body' = [body EXCEPT ![j].pc = pc]

\* The first step of every pass through the loop.
LoopHead(j) == CASE kind[j] \in {"batch", "symbol"} -> "look"
                 [] kind[j] = "financial" -> "permit"
                 [] kind[j] = "plain" -> "work"

\* return stats / the exception of the initialisation
Return(j, status) ==
  /\ RunReturns(j, status)
  /\ body' = [body EXCEPT ![j] = Idle]
  /\ successes' = [successes EXCEPT ![j] = IF status = "success" THEN @ + 1 ELSE @]

\* Mutant of NextItem: the loop runs once too often.
NextItemOneTooMany(j) ==
  IF body[j].item <= Items
  THEN /\ body' = [body EXCEPT ![j] = [pc |-> LoopHead(j), item |-> @.item + 1]]
       /\ UNCHANGED <<running, handlers, successes>>
  ELSE Return(j, "success")

\* The end of a pass: the next item, or the final statistics.
NextItem(j) ==
  IF body[j].item < Items
  THEN /\ body' = [body EXCEPT ![j] = [pc |-> LoopHead(j), item |-> @.item + 1]]
       /\ UNCHANGED <<running, handlers, successes>>
  ELSE Return(j, "success")

\* The record that _should_stop and _update_progress look at.
Flagged(j) ==
  LET i == Newest(RunningRecords(j)) IN i # 0 /\ executions[i].cancel

\* Whether the body reports progress after the item at hand.
Reports(j) ==
  \/ kind[j] \in {"batch", "symbol"}
  \/ kind[j] = "financial" /\ body[j].item % ReportEvery = 0

\* What a body step leaves alone of the scheduler beside <<running, handlers>>.
SchedulerKept == UNCHANGED <<service, paused, due, runs, request, ops, zombies>>

-----------------------------------------------------------------------------
\* Steps of a body

StartBody(j) ==
  /\ Dispatch(j)
  /\ body' = [body EXCEPT ![j] = [pc |-> "init", item |-> 0]]
  /\ late' = [late EXCEPT ![j] = 0] /\ blind' = [blind EXCEPT ![j] = 0]
  /\ UNCHANGED <<limiterVars, kind, successes, restarts>>

\* get_*_sync_service() and the list of symbols.  A provider that cannot
\* connect raises; an empty list ends the run as a success.
Initialize(j) ==
  /\ At(j, "init")
  /\ \/ /\ body' = [body EXCEPT ![j] = [pc |-> LoopHead(j), item |-> 1]]
        /\ UNCHANGED <<running, handlers, successes>>
     \/ \E status \in Ended : Return(j, status)
  /\ SchedulerKept
  /\ UNCHANGED <<executions, limiterVars, kind, late, blind, restarts>>

\* The step of the loop after a look that does not end it.
AfterLook(j) == IF kind[j] = "symbol" THEN "permit" ELSE "work"

\* Mutant of ShouldStop: the flag is read and not obeyed.
ShouldStopIgnored(j) ==
  /\ At(j, "look")
  /\ GoTo(j, AfterLook(j))
  /\ late' = IF Flagged(j) THEN late ELSE [late EXCEPT ![j] = 0]
  /\ SchedulerKept
  /\ UNCHANGED <<running, handlers, successes, executions, limiterVars, kind, blind, restarts>>

\* _should_stop: the flag of the newest running record ends the run.
ShouldStop(j) ==
  /\ At(j, "look")
  /\ IF Flagged(j)
     THEN /\ Return(j, "success")
          /\ UNCHANGED late
     ELSE /\ GoTo(j, AfterLook(j))
          /\ late' = [late EXCEPT ![j] = 0]
          /\ UNCHANGED <<running, handlers, successes>>
  /\ SchedulerKept
  /\ UNCHANGED <<executions, limiterVars, kind, blind, restarts>>

\* _should_stop while the database does not answer: the error is logged and the
\* answer is no.
LookFails(j) ==
  /\ At(j, "look")
  /\ GoTo(j, AfterLook(j))
  /\ blind' = [blind EXCEPT ![j] = @ + 1]
  /\ SchedulerKept
  /\ UNCHANGED <<running, handlers, successes, executions, limiterVars, kind, late, restarts>>

\* await self.rate_limiter.acquire()
TakePermit(j) ==
  /\ \/ At(j, "permit") /\ AcquireNow /\ GoTo(j, "work")
     \/ At(j, "permit") /\ AcquireSleeps(j) /\ GoTo(j, "asleep")
     \/ At(j, "asleep") /\ AcquireWakes(j) /\ GoTo(j, "work")
  /\ UNCHANGED <<schedulerVars, kind, successes, late, blind, restarts>>

\* One batch, or fetch and save of one symbol.  The per-symbol try of the
\* symbol and financial bodies catches what is raised and goes on.
Work(j) ==
  /\ At(j, "work")
  /\ late' = [late EXCEPT ![j] =
       IF kind[j] \in {"batch", "symbol"} /\ Flagged(j) THEN @ + 1 ELSE @]
  /\ \/ /\ Reports(j)
        /\ GoTo(j, "report")
        /\ UNCHANGED <<running, handlers, successes>>
     \/ /\ kind[j] # "batch"
        /\ NextItem(j)
  /\ SchedulerKept
  /\ UNCHANGED <<executions, limiterVars, kind, blind, restarts>>

\* _update_progress writes the progress of the newest running record, a column
\* this model leaves out.  On a cancel flag it raises: the batch bodies return,
\* the symbol body's own except catches it and the next look ends the run.  A
\* database error is logged and the loop goes on.
UpdateProgress(j) ==
  /\ At(j, "report") /\ kind[j] \in {"batch", "symbol"}
  /\ \/ Flagged(j) /\ kind[j] = "batch" /\ Return(j, "success")
     \/ NextItem(j)
  /\ SchedulerKept
  /\ UNCHANGED <<executions, limiterVars, kind, late, blind, restarts>>

\* update_job_progress takes the newest record of any of three states and makes
\* it running; the exception it raises on a cancel flag never leaves it.
UpdateJobProgress(j) ==
  /\ At(j, "report") /\ kind[j] = "financial"
  /\ LET i == Newest({k \in Ids : /\ executions[k].job = j
                                  /\ executions[k].status \in {"running"} \cup Ended})
     IN  IF i = 0 THEN Insert(j, "running")
         ELSE IF executions[i].cancel THEN UNCHANGED executions
         ELSE SetStatus(i, "running")
  /\ NextItem(j)
  /\ SchedulerKept
  /\ UNCHANGED <<limiterVars, kind, late, blind, restarts>>

BodyStep(j) ==
  \/ Initialize(j) \/ ShouldStop(j) \/ LookFails(j)
  \/ TakePermit(j) \/ Work(j) \/ UpdateProgress(j) \/ UpdateJobProgress(j)

Tick ==
  /\ SchedulerTick /\ LimiterTick
  /\ UNCHANGED jobVars

Restart ==
  /\ restarts < MaxRestarts
  /\ restarts' = restarts + 1
  /\ SchedulerRestart /\ LimiterRestart
  /\ body' = [j \in Jobs |-> Idle]
  /\ late' = [j \in Jobs |-> 0] /\ blind' = [j \in Jobs |-> 0]
  /\ UNCHANGED <<kind, successes>>

Next ==
  \/ SchedulerStep /\ UNCHANGED <<limiterVars, jobVars>>
  \/ \E j \in Jobs : StartBody(j) \/ BodyStep(j)
  \/ Tick
  \/ Restart

\* Time passes, the coroutines and the tasks of the event loop run, and the
\* zombie job fires every five minutes (nobody pauses it) and does not fail for
\* ever; nobody has to call the API or to crash.
Fairness ==
  /\ WF_vars(Tick)
  /\ \A j \in Jobs : WF_vars(BodyStep(j))
  /\ \A n \in 1 .. MaxRuns :
       WF_vars((FindRunning(n) \/ RecordExecution(n)) /\ UNCHANGED <<limiterVars, jobVars>>)
  /\ WF_vars((TriggerRecords \/ WriteExecution) /\ UNCHANGED <<limiterVars, jobVars>>)
  /\ WF_vars(CheckZombieTasks /\ UNCHANGED <<limiterVars, jobVars>>)
  /\ SF_vars((\E i \in Ids : FailZombie(i)) /\ UNCHANGED <<limiterVars, jobVars>>)

Spec == Init /\ [][Next]_vars /\ Fairness

-----------------------------------------------------------------------------
\* Properties

\* A record says success only for a run that returned: however the events of
\* several runs and the records of triggers interleave, a job never shows more
\* successes than it had (_record_job_execution updates one record per event).
SuccessesAreRuns ==
  \A j \in Jobs :
    Cardinality({i \in Ids : executions[i].job = j /\ executions[i].status = "success"})
      <= successes[j]

\* A body that honours cancellation begins one item at most under a visible flag
\* and then ends, on every path through its loop - after an item that failed, and
\* after a progress update whose cancel exception the body's own except caught -
\* but for one more item for each look the database left unanswered
\* (_should_stop, _update_progress).
CancelObeyed == \A j \in Jobs : late[j] <= 1 + blind[j]

\* A record that has ended changes only by the hand of the user, by an event
\* whose task found it while it was still running (a mark-as-failed in between
\* is overwritten), or by a financial job, still running, that reopens it.  The
\* zombie check, which reads first and writes later, never hits a record that
\* ended in between.
EndedRecordsStay ==
  [][\A i \in Ids :
       executions[i].status \in Ended /\ executions'[i].status # executions[i].status =>
         \/ request.op \in {"mark", "delete"} /\ request.id = i
         \/ \E n \in 1 .. MaxRuns : /\ handlers[n].pc = "write" /\ handlers[n].id = i
                                    /\ handlers'[n] = NoHandler
         \/ /\ kind[executions[i].job] = "financial"
            /\ running[executions[i].job] # 0
            /\ executions'[i].status = "running"]_vars

\* No record stays running for ever while the service exists: what the events
\* miss, because the job was faster than its trigger or slower than five
\* minutes, because a write failed or the process died, the zombie check ends.
\* (A record that ran for ever would be overdue from some moment on.)
NoRecordRunsForever ==
  []<>(service => \A i \in Ids :
         executions[i].status = "running" => executions[i].age <= ZombieAge)
=============================================================================
