---------------------------- MODULE AnalysisTask ----------------------------
(***************************************************************************)
(* An analysis started by POST /single or POST /batch: the coroutine       *)
(* execute_analysis_background, the pool thread that runs the agent graph, *)
(* the thread that simulates progress, the log handler all analyses share, *)
(* and the operations of an administrator (mark failed, delete, clean up   *)
(* zombies) beside them.                                                   *)
(*                                                                         *)
(* A task's status is kept three times: in process memory                  *)
(* (MemoryStateManager), in MongoDB (analysis_tasks) and in the progress   *)
(* tracker, an object whose to_dict() is saved in Redis.  One update       *)
(* writes the copies one after another; todo holds the writes that the     *)
(* update in progress has still to do.                                     *)
(***************************************************************************)
EXTENDS Integers, Sequences, FiniteSets

CONSTANTS
  Tasks,         (* the uuid4 task ids that may be drawn                    *)
  Requests,      (* clients that submit analyses                            *)
  Admins,        (* clients that mark, delete or clean up                   *)
  PoolSize,      (* ThreadPoolExecutor(max_workers)                         *)
  NodeProgress,  (* the percentages of node_progress_map                    *)
  SideUpdates,   (* bound: updates of a tracker by the simulator and by the *)
                 (*   log handler, each                                     *)
  MaxAdmin,      (* bound: operations of administrators                     *)
  MaxFaults,     (* bound: faults in one behaviour                          *)
  NoEntry        (* no record under this task id                            *)

Terminal == {"completed", "failed"}
Progress == 0..100

\* What memory, MongoDB and the tracker hold under a task id.
Entry == [status: {"pending", "running"} \cup Terminal, progress: Progress, ended: BOOLEAN]
Document == [status: {"pending", "processing"} \cup Terminal, progress: Progress]
ProgressData == [status: {"running"} \cup Terminal, pct: Progress]

ASSUME AnalysisAssumption ==
  /\ PoolSize \in Nat \ {0}
  /\ NodeProgress \subseteq Progress
  /\ {SideUpdates, MaxAdmin, MaxFaults} \subseteq Nat
  /\ NoEntry \notin Tasks \cup Entry \cup Document \cup ProgressData

VARIABLES
  mem,        (* MemoryStateManager._tasks                                 *)
  doc,        (* MongoDB analysis_tasks                                    *)
  report,     (* the tasks with a document in analysis_reports             *)
  tracker,    (* the RedisProgressTracker object's progress_data           *)
  stored,     (* Redis progress:<id>                                       *)
  registered, (* _progress_trackers and ProgressLogHandler._trackers       *)
  job,        (* the coroutine and the pool thread of each task            *)
  side,       (* what else updates a task's tracker                       *)
  req,        (* the submitting request handlers                           *)
  told,       (* task ids a client has received                            *)
  admin,      (* the administrators' request handlers                      *)
  ops,        (* operations of administrators so far                       *)
  faults,     (* faults so far                                             *)
  touched,    (* history: tasks an administrator wrote while they ran      *)
  lost        (* history: tasks with a failed MongoDB write                *)

copies == <<mem, doc, report, tracker, stored, registered>>
history == <<touched, lost>>
vars == <<copies, job, side, req, told, admin, ops, faults, history>>

Coroutine == <<"tracker", "store", "memory", "mongo">>

\* Mutant of Writes: the report is saved after the task is called completed.
WritesReportLast == [start     |-> Coroutine, prepare |-> Coroutine,
                     configure |-> Coroutine, engine  |-> Coroutine,
                     agents    |-> Coroutine, result  |-> Coroutine,
                     node      |-> <<"tracker", "store", "mongo", "memory">>,
                     message   |-> <<"tracker", "store">>,
                     invalid   |-> <<"memory", "mongo">>,
                     done      |-> <<"tracker", "store", "memory", "mongo", "report">>,
                     failed    |-> <<"tracker", "store", "memory", "mongo">>]

\* The updates of one task, in the order of the code: which copies each writes,
\* in which order.
Writes == [start     |-> Coroutine, prepare |-> Coroutine,
           configure |-> Coroutine, engine  |-> Coroutine,
           agents    |-> Coroutine, result  |-> Coroutine,
           node      |-> <<"tracker", "store", "mongo", "memory">>,
           message   |-> <<"tracker", "store">>,
           invalid   |-> <<"memory", "mongo">>,
           done      |-> <<"tracker", "store", "report", "memory", "mongo">>,
           failed    |-> <<"tracker", "store", "memory", "mongo">>]

Percent == [start |-> 10, prepare |-> 20, configure |-> 7, engine |-> 9,
            agents |-> 10, result |-> 90, done |-> 100, failed |-> 0,
            invalid |-> 0]

\* Where the program is after the last write of an update.
Following == [start |-> "prepare", prepare |-> "pool", configure |-> "engine",
              engine |-> "agents", agents |-> "graph", node |-> "graph",
              message |-> "graph", result |-> "extract", done |-> "ended",
              failed |-> "ended", invalid |-> "ended"]

Updates == DOMAIN Writes
InThread == {"configure", "engine", "agents", "node", "message", "result",
             "graph", "extract"}
Idle == {"none", "orphan", "ended", "dead"}
Active(t) == job[t].at \notin Idle

\* The progress_data of a tracker that has not ended says "running".
EndStatus(at) == CASE at = "done" -> "completed"
                   [] at \in {"failed", "invalid"} -> "failed"
                   [] OTHER -> "running"

\* simulate_progress, a thread of each analysis, and ProgressLogHandler, in
\* whatever thread logs a line.
Savers == {"simulator", "log"}

Init ==
  /\ mem = [t \in Tasks |-> NoEntry] /\ doc = [t \in Tasks |-> NoEntry]
  /\ tracker = [t \in Tasks |-> NoEntry] /\ stored = [t \in Tasks |-> NoEntry]
  /\ report = {} /\ registered = {} /\ told = {}
  /\ job = [t \in Tasks |-> [at |-> "none", todo |-> <<>>, pct |-> 0,
                             snap |-> NoEntry, nodes |-> {}]]
  /\ side = [t \in Tasks |-> [s \in Savers |->
               [left |-> SideUpdates, pc |-> "idle", snap |-> NoEntry]]]
  /\ req = [r \in Requests |-> [todo |-> {}, made |-> {}, task |-> NoEntry]]
  /\ admin = [a \in Admins |-> [op |-> "idle", task |-> NoEntry]]
  /\ ops = 0 /\ faults = 0
  /\ touched = {} /\ lost = {}

Fault == faults < MaxFaults /\ faults' = faults + 1

-----------------------------------------------------------------------------
(* create_analysis_task, called once by POST /single and once per symbol   *)
(* by POST /batch                                                          *)

Submit(r, S) ==
  /\ req[r].todo = {} /\ req[r].task = NoEntry
  /\ S # {}
  /\ \A t \in S : job[t].at = "none" /\ \A q \in Requests : t \notin req[q].todo \cup req[q].made
  /\ req' = [req EXCEPT ![r] = [todo |-> S, made |-> {}, task |-> NoEntry]]
  /\ UNCHANGED <<copies, job, side, told, admin, ops, faults, history>>

\* The entry of a new task in memory.
NewEntry == [status |-> "pending", progress |-> 0, ended |-> FALSE]

CreateInMemory(r) ==
  /\ req[r].task = NoEntry
  /\ \E t \in req[r].todo :
       /\ mem' = [mem EXCEPT ![t] = NewEntry]
       /\ req' = [req EXCEPT ![r].task = t]
  /\ UNCHANGED <<doc, report, tracker, stored, registered, job, side, told,
                 admin, ops, faults, history>>

\* One asyncio task per analysis (POST /batch) or one background task (POST
\* /single), for the tasks that were made.
Launch(made) ==
  /\ told' = told \cup made
  /\ job' = [u \in Tasks |-> IF u \in made
               THEN [job[u] EXCEPT !.at = "launched"] ELSE job[u]]

\* update_one with $setOnInsert and upsert; an error is logged and ignored.
\* After the last symbol the response is sent and the coroutines are started.
InsertDocument(r) ==
  LET t == req[r].task
      made == req[r].made \cup {t}
      last == req[r].todo = {t}
  IN
  /\ t # NoEntry
  /\ \/ /\ doc' = [doc EXCEPT ![t] = IF @ = NoEntry
                      THEN [status |-> "pending", progress |-> 0] ELSE @]
        /\ UNCHANGED <<faults, lost>>
     \/ Fault /\ lost' = lost \cup {t} /\ UNCHANGED doc
  /\ req' = [req EXCEPT ![r] = [todo |-> @.todo \ {t},
                                made |-> IF last THEN {} ELSE made, task |-> NoEntry]]
  /\ IF last THEN Launch(made) ELSE UNCHANGED <<told, job>>
  /\ UNCHANGED <<mem, report, tracker, stored, registered, side, admin, ops, touched>>

\* An empty symbol in the list: create_analysis_task raises ValueError, the
\* request answers 400 and the tasks created before it are never started.
RejectSymbol(r) ==
  /\ req[r].task = NoEntry /\ req[r].todo # {}
  /\ job' = [u \in Tasks |-> IF u \in req[r].made
               THEN [job[u] EXCEPT !.at = "orphan"] ELSE job[u]]
  /\ req' = [req EXCEPT ![r] = [todo |-> {}, made |-> {}, task |-> NoEntry]]
  /\ UNCHANGED <<copies, side, told, admin, ops, faults, history>>

-----------------------------------------------------------------------------
(* execute_analysis_background and _run_analysis_sync                      *)

\* Begin the update `at` with the writes in `todo`.
Begin(t, at, todo, pct) ==
  job' = [job EXCEPT ![t] = [@ EXCEPT !.at = at, !.todo = todo, !.pct = pct]]

\* prepare_stock_data: the code may be invalid, or the validation may raise; the
\* tracker does not exist yet.
Validate(t) ==
  /\ job[t].at = "launched"
  /\ \/ Begin(t, "newTracker", <<>>, 0)
     \/ Begin(t, "invalid", Writes.invalid, 0)
     \/ Begin(t, "failed", <<"memory", "mongo">>, 0)
  /\ UNCHANGED <<copies, side, req, told, admin, ops, faults, history>>

\* The constructor saves its state; then the tracker is known to the service and
\* to the log handler.
CreateTracker(t) ==
  /\ job[t].at = "newTracker"
  /\ tracker' = [tracker EXCEPT ![t] = [status |-> "running", pct |-> 0]]
  /\ stored' = [stored EXCEPT ![t] = tracker'[t]]
  /\ registered' = registered \cup {t}
  /\ Begin(t, "start", Writes.start, Percent.start)
  /\ UNCHANGED <<mem, doc, report, side, req, told, admin, ops, faults, history>>

\* What the coroutine or the thread does after a write: the next write of this
\* update, or the next update.  The coroutine ends in its finally block, which
\* forgets the tracker.
Proceed(t, rest) ==
  LET next == Following[job[t].at] IN
  /\ job' = [job EXCEPT ![t] =
       IF rest # <<>> THEN [@ EXCEPT !.todo = rest, !.snap = NoEntry]
       ELSE [at |-> next, snap |-> NoEntry,
             todo |-> IF next \in Updates THEN Writes[next] ELSE <<>>,
             pct |-> IF next \in Updates THEN Percent[next] ELSE 0,
             nodes |-> IF next = "graph" THEN @.nodes ELSE {}]]
  /\ registered' = IF rest = <<>> /\ next = "ended" THEN registered \ {t} ELSE registered

Writing(t, copy) == job[t].todo # <<>> /\ Head(job[t].todo) = copy

\* progress_data after mark_completed and mark_failed.
EndedTracker(old, at) ==
  [status |-> EndStatus(at), pct |-> IF at = "done" THEN 100 ELSE old.pct]

\* update_progress, mark_completed or mark_failed changes progress_data and takes
\* to_dict() of it ...
UpdateTracker(t) ==
  LET at == job[t].at IN
  /\ Writing(t, "tracker")
  /\ tracker' = [tracker EXCEPT ![t] =
       CASE at \in {"done", "failed"} -> EndedTracker(@, at)
         [] at = "message" -> @
         [] OTHER -> [@ EXCEPT !.pct = job[t].pct]]
  /\ job' = [job EXCEPT ![t] = [@ EXCEPT !.todo = Tail(job[t].todo), !.snap = tracker'[t]]]
  /\ UNCHANGED <<mem, doc, report, stored, registered, side, req, told, admin,
                 ops, faults, history>>

\* Mutant of StoreProgress: mark_failed forgets to save.
StoreProgressNotFailed(t) ==
  /\ Writing(t, "store")
  /\ stored' = [stored EXCEPT ![t] = IF job[t].at = "failed" THEN @ ELSE job[t].snap]
  /\ Proceed(t, Tail(job[t].todo))
  /\ UNCHANGED <<mem, doc, report, tracker, side, req, told, admin, ops, faults,
                 history>>

\* ... and then write it to Redis.
StoreProgress(t) ==
  /\ Writing(t, "store")
  /\ stored' = [stored EXCEPT ![t] = job[t].snap]
  /\ Proceed(t, Tail(job[t].todo))
  /\ UNCHANGED <<mem, doc, report, tracker, side, req, told, admin, ops, faults,
                 history>>

\* Mutant of MemoryUpdated: an update creates the entry it does not find.
MemoryUpdatedCreates(t, status, pct, ended) ==
  [status |-> status, progress |-> pct,
   ended |-> ended \/ (mem[t] # NoEntry /\ mem[t].ended)]

\* update_task_status: nothing is created, and any status may follow any other.
MemoryUpdated(t, status, pct, ended) ==
  IF mem[t] = NoEntry THEN NoEntry
  ELSE [status |-> status, progress |-> pct, ended |-> ended \/ mem[t].ended]

\* Mutant of UpdateMemory: the coroutine forgets the memory copy when it fails.
UpdateMemoryNotFailed(t) ==
  LET at == job[t].at IN
  /\ Writing(t, "memory")
  /\ mem' = IF at = "failed" THEN mem
            ELSE [mem EXCEPT ![t] = MemoryUpdated(t, EndStatus(at), job[t].pct, at = "done")]
  /\ Proceed(t, Tail(job[t].todo))
  /\ UNCHANGED <<doc, report, tracker, stored, side, req, told, admin, ops,
                 faults, history>>

\* The failure of the validation is reported with the other enumeration
\* (AnalysisStatus instead of TaskStatus), which is none of the statuses that
\* set end_time.
UpdateMemory(t) ==
  LET at == job[t].at IN
  /\ Writing(t, "memory")
  /\ mem' = [mem EXCEPT ![t] = MemoryUpdated(t, EndStatus(at), job[t].pct,
                                             at \in {"done", "failed"})]
  /\ Proceed(t, Tail(job[t].todo))
  /\ UNCHANGED <<doc, report, tracker, stored, side, req, told, admin, ops,
                 faults, history>>

\* Mutant of UpdateMongo: the status name of the memory copy.
UpdateMongoRunning(t) ==
  LET at == job[t].at
      status == CASE at \in {"start", "prepare"} -> "running"
                  [] at \in {"done", "failed", "invalid"} -> EndStatus(at)
                  [] OTHER -> doc[t].status
  IN
  /\ Writing(t, "mongo")
  /\ \/ /\ doc' = [doc EXCEPT ![t] = IF @ = NoEntry THEN NoEntry
                       ELSE [status |-> status, progress |-> job[t].pct]]
        /\ Proceed(t, Tail(job[t].todo))
        /\ UNCHANGED <<faults, lost>>
     \/ /\ Fault /\ lost' = lost \cup {t}
        /\ Proceed(t, <<>>)
        /\ UNCHANGED doc
  /\ UNCHANGED <<mem, report, tracker, stored, side, req, told, admin, ops, touched>>

\* update_one without upsert.  The thread's updates leave the status alone.  An
\* error is caught: _update_task_status goes on, graph_progress_callback skips
\* the memory copy.
UpdateMongo(t) ==
  LET at == job[t].at
      status == CASE at \in {"start", "prepare"} -> "processing"
                  [] at \in {"done", "failed", "invalid"} -> EndStatus(at)
                  [] OTHER -> doc[t].status
  IN
  /\ Writing(t, "mongo")
  /\ \/ /\ doc' = [doc EXCEPT ![t] = IF @ = NoEntry THEN NoEntry
                       ELSE [status |-> status, progress |-> job[t].pct]]
        /\ Proceed(t, Tail(job[t].todo))
        /\ UNCHANGED <<faults, lost>>
     \/ /\ Fault /\ lost' = lost \cup {t}
        /\ Proceed(t, <<>>)
        /\ UNCHANGED doc
  /\ UNCHANGED <<mem, report, tracker, stored, side, req, told, admin, ops, touched>>

\* _save_analysis_results_complete: the report is inserted before the task is
\* completed; an error is logged and the task completes without it.
SaveReport(t) ==
  /\ Writing(t, "report")
  /\ \/ report' = report \cup {t} /\ UNCHANGED <<faults, lost>>
     \/ Fault /\ lost' = lost \cup {t} /\ UNCHANGED report
  /\ Proceed(t, Tail(job[t].todo))
  /\ UNCHANGED <<mem, doc, tracker, stored, side, req, told, admin, ops, touched>>

\* A worker of the shared pool takes the analysis.
EnterPool(t) ==
  /\ job[t].at = "pool"
  /\ Cardinality({u \in Tasks : job[u].at \in InThread}) < PoolSize
  /\ Begin(t, "configure", Writes.configure, Percent.configure)
  /\ UNCHANGED <<copies, side, req, told, admin, ops, faults, history>>

\* graph_progress_callback: a node's percentage counts only if it is larger than
\* the tracker's, otherwise only the message is new.
NodeCallback(t) ==
  /\ job[t].at = "graph"
  /\ \E p \in NodeProgress \ job[t].nodes :
       LET at == IF p > tracker[t].pct THEN "node" ELSE "message" IN
       job' = [job EXCEPT ![t] = [@ EXCEPT !.at = at, !.todo = Writes[at], !.pct = p,
                                           !.nodes = job[t].nodes \cup {p}]]
  /\ UNCHANGED <<copies, side, req, told, admin, ops, faults, history>>

\* propagate returns and the results are about to be extracted.
GraphReturns(t) ==
  /\ job[t].at = "graph"
  /\ job' = [job EXCEPT ![t] = [@ EXCEPT !.at = "result", !.todo = Writes.result,
                                         !.pct = Percent.result, !.nodes = {}]]
  /\ UNCHANGED <<copies, side, req, told, admin, ops, faults, history>>

\* Reports, decision and summary are taken from the final state: the thread
\* returns the result and the coroutine marks the tracker completed.
ExtractResult(t) ==
  /\ job[t].at = "extract"
  /\ Begin(t, "done", Writes.done, Percent.done)
  /\ UNCHANGED <<copies, side, req, told, admin, ops, faults, history>>

\* An error in the thread: in the choice of models, the construction of the graph,
\* the graph, or the extraction.  The coroutine's except block reports it.
AnalysisFails(t) ==
  /\ \/ job[t].at \in {"graph", "extract"}
     \/ job[t].at \in {"engine", "agents"} /\ Len(job[t].todo) = 4
  /\ Begin(t, "failed", Writes.failed, Percent.failed)
  /\ UNCHANGED <<copies, side, req, told, admin, ops, faults, history>>

-----------------------------------------------------------------------------
(* What else updates the tracker                                           *)

\* simulate_progress runs from the start of the graph on, for as long as its
\* script lasts, whatever becomes of the analysis.
Simulating(t) ==
  /\ tracker[t] # NoEntry /\ tracker[t].pct >= 10
  /\ job[t].at \in {"graph", "node", "message", "result", "extract", "done",
                   "failed", "ended"}
  /\ side[t]["simulator"].pc = "idle" /\ side[t]["simulator"].left > 0

\* ProgressLogHandler.emit: a progress message, of whichever analysis logged it,
\* goes to the first registered tracker that is running; which one that is is
\* left open.  logging.Handler.handle runs one emit at a time.
FindTracker(t) ==
  /\ t \in registered /\ tracker[t].status = "running"
  /\ \A u \in Tasks : side[u]["log"].pc = "idle"
  /\ side[t]["log"].left > 0
  /\ side' = [side EXCEPT ![t]["log"].pc = "found"]
  /\ UNCHANGED <<copies, job, req, told, admin, ops, faults, history>>

\* The handler does not look again: the analysis may have ended since.
Updating(t, s) ==
  \/ s = "simulator" /\ Simulating(t)
  \/ s = "log" /\ side[t][s].pc = "found"

\* to_dict() of the tracker, about to be saved.
Snapped(t, s) ==
  side' = [side EXCEPT ![t][s] = [left |-> @.left - 1, pc |-> "saving", snap |-> tracker'[t]]]

\* Mutant of SideUpdate: the late update sends the status as well.
SideUpdateRestarts(t, s) ==
  /\ Updating(t, s)
  /\ tracker' = [tracker EXCEPT ![t].status = "running"]
  /\ Snapped(t, s)
  /\ UNCHANGED <<mem, doc, report, stored, registered, job, req, told, admin, ops, faults, history>>

\* update_progress with a string: only the message changes, but the whole record
\* is saved.
SideUpdate(t, s) ==
  /\ Updating(t, s)
  /\ UNCHANGED <<copies, job, req, told, admin, ops, faults, history>>
  /\ Snapped(t, s)

\* The SET of _save_progress; nothing orders it after the snapshots that others
\* have taken and saved since.
SideStore(t, s) ==
  /\ side[t][s].pc = "saving"
  /\ stored' = [stored EXCEPT ![t] = side[t][s].snap]
  /\ side' = [side EXCEPT ![t][s].pc = "idle"]
  /\ UNCHANGED <<mem, doc, report, tracker, registered, job, req, told, admin,
                 ops, faults, history>>

-----------------------------------------------------------------------------
(* Operations of an administrator: memory first, then MongoDB              *)

StartOp(a, op, S) ==
  /\ admin[a].op = "idle" /\ ops < MaxAdmin
  /\ ops' = ops + 1
  /\ touched' = touched \cup {t \in S : Active(t)}

Touch(S) == touched' = touched \cup {t \in S : Active(t)}

MarkFailedInMemory(a, t) ==
  /\ StartOp(a, "mark", {t}) /\ t \in told
  /\ mem' = [mem EXCEPT ![t] = IF @ = NoEntry THEN NoEntry
                                 ELSE MemoryUpdated(t, "failed", @.progress, TRUE)]
  /\ admin' = [admin EXCEPT ![a] = [op |-> "mark", task |-> t]]
  /\ UNCHANGED <<doc, report, tracker, stored, registered, job, side, req, told,
                 faults, lost>>

\* Mutant of MarkFailedInMongo: only the memory copy is marked.
MarkFailedInMongoForgotten(a) ==
  LET t == admin[a].task IN
  /\ admin[a].op = "mark"
  /\ admin' = [admin EXCEPT ![a] = [op |-> "idle", task |-> NoEntry]]
  /\ Touch({t})
  /\ UNCHANGED <<mem, doc, report, tracker, stored, registered, job, side, req, told,
                 ops, faults, lost>>

MarkFailedInMongo(a) ==
  LET t == admin[a].task IN
  /\ admin[a].op = "mark"
  /\ doc' = [doc EXCEPT ![t] = IF @ = NoEntry THEN NoEntry ELSE [@ EXCEPT !.status = "failed"]]
  /\ admin' = [admin EXCEPT ![a] = [op |-> "idle", task |-> NoEntry]]
  /\ Touch({t})
  /\ UNCHANGED <<mem, report, tracker, stored, registered, job, side, req, told,
                 ops, faults, lost>>

DeleteInMemory(a, t) ==
  /\ StartOp(a, "delete", {t}) /\ t \in told
  /\ mem' = [mem EXCEPT ![t] = NoEntry]
  /\ admin' = [admin EXCEPT ![a] = [op |-> "delete", task |-> t]]
  /\ UNCHANGED <<doc, report, tracker, stored, registered, job, side, req, told,
                 faults, lost>>

\* The documents of analysis_reports stay.
DeleteInMongo(a) ==
  LET t == admin[a].task IN
  /\ admin[a].op = "delete"
  /\ doc' = [doc EXCEPT ![t] = NoEntry]
  /\ admin' = [admin EXCEPT ![a] = [op |-> "idle", task |-> NoEntry]]
  /\ Touch({t})
  /\ UNCHANGED <<mem, report, tracker, stored, registered, job, side, req, told,
                 ops, faults, lost>>

\* cleanup_zombie_tasks: the tasks S that have run for too long, in memory and
\* then in MongoDB, where those that a restart has stopped are found as well.
CleanMemory(a, S) ==
  /\ StartOp(a, "clean", S)
  /\ \A t \in S : mem[t] # NoEntry /\ mem[t].status \notin Terminal
  /\ mem' = [t \in Tasks |-> IF t \in S
               THEN [status |-> "failed", progress |-> 0, ended |-> TRUE] ELSE mem[t]]
  /\ admin' = [admin EXCEPT ![a] = [op |-> "clean", task |-> NoEntry]]
  /\ UNCHANGED <<doc, report, tracker, stored, registered, job, side, req, told,
                 faults, lost>>

CleanMongo(a, S) ==
  /\ admin[a].op = "clean"
  /\ \A t \in S : doc[t] # NoEntry /\ doc[t].status \notin Terminal
  /\ doc' = [t \in Tasks |-> IF t \in S
               THEN [doc[t] EXCEPT !.status = "failed"] ELSE doc[t]]
  /\ admin' = [admin EXCEPT ![a] = [op |-> "idle", task |-> NoEntry]]
  /\ Touch(S)
  /\ UNCHANGED <<mem, report, tracker, stored, registered, job, side, req, told,
                 ops, faults, lost>>

-----------------------------------------------------------------------------
\* The process dies and is started again: memory, threads and requests are gone,
\* MongoDB and Redis stay, and nothing resumes a task.
Restart ==
  /\ Fault
  /\ mem' = [t \in Tasks |-> NoEntry]
  /\ tracker' = [t \in Tasks |-> NoEntry]
  /\ registered' = {}
  /\ job' = [t \in Tasks |->
       IF Active(t) \/ \E r \in Requests : t \in req[r].made \cup {req[r].task}
       THEN [job[t] EXCEPT !.at = "dead", !.todo = <<>>] ELSE job[t]]
  /\ side' = [t \in Tasks |-> [s \in Savers |-> [side[t][s] EXCEPT !.pc = "idle"]]]
  /\ req' = [r \in Requests |-> [todo |-> {}, made |-> {}, task |-> NoEntry]]
  /\ admin' = [a \in Admins |-> [op |-> "idle", task |-> NoEntry]]
  /\ UNCHANGED <<doc, report, stored, told, ops, history>>

RequestStep(r) ==
  \/ CreateInMemory(r)
  \/ InsertDocument(r)

JobStep(t) ==
  \/ Validate(t) \/ CreateTracker(t)
  \/ UpdateTracker(t) \/ StoreProgress(t) \/ UpdateMemory(t) \/ UpdateMongo(t)
  \/ SaveReport(t)
  \/ EnterPool(t) \/ NodeCallback(t) \/ GraphReturns(t) \/ ExtractResult(t)
  \/ AnalysisFails(t)

SideStep(t) ==
  \/ FindTracker(t)
  \/ \E s \in Savers : SideUpdate(t, s) \/ SideStore(t, s)

AdminStep(a) ==
  \/ \E t \in Tasks : MarkFailedInMemory(a, t)
  \/ MarkFailedInMongo(a)
  \/ \E t \in Tasks : DeleteInMemory(a, t)
  \/ DeleteInMongo(a)
  \/ \E S \in SUBSET Tasks : CleanMemory(a, S)
  \/ \E S \in SUBSET Tasks : CleanMongo(a, S)

Next ==
  \/ \E r \in Requests, S \in SUBSET Tasks : Submit(r, S)
  \/ \E r \in Requests : RequestStep(r)
  \/ \E r \in Requests : RejectSymbol(r)
  \/ \E t \in Tasks : JobStep(t)
  \/ \E t \in Tasks : SideStep(t)
  \/ \E a \in Admins : AdminStep(a)
  \/ Restart

Spec == Init /\ [][Next]_vars

\* The event loop and the threads keep running; the graph reports each node once
\* and returns or raises.
FairSpec ==
  /\ Spec
  /\ \A r \in Requests : WF_vars(RequestStep(r))
  /\ \A t \in Tasks : WF_vars(JobStep(t))

-----------------------------------------------------------------------------
Snapshot == ProgressData \cup {NoEntry}

TypeOK ==
  /\ mem \in [Tasks -> Entry \cup {NoEntry}]
  /\ doc \in [Tasks -> Document \cup {NoEntry}]
  /\ report \subseteq Tasks /\ registered \subseteq Tasks /\ told \subseteq Tasks
  /\ tracker \in [Tasks -> Snapshot] /\ stored \in [Tasks -> Snapshot]
  /\ \A t \in Tasks :
       /\ job[t].at \in Updates \cup InThread \cup Idle
                        \cup {"launched", "newTracker", "pool"}
       /\ job[t].todo # <<>> <=> job[t].at \in Updates
       /\ job[t].snap \in Snapshot
       /\ \A s \in Savers : side[t][s].snap \in Snapshot
  /\ ops \in 0..MaxAdmin /\ faults \in 0..MaxFaults

\* A task that memory or MongoDB calls completed has its report in
\* analysis_reports, which is all that is left of it after a restart, unless a
\* MongoDB error was logged for it: the order of writes in
\* execute_analysis_background.
CompletedHasReport ==
  \A t \in Tasks :
    /\ \/ mem[t] # NoEntry /\ mem[t].status = "completed"
       \/ doc[t] # NoEntry /\ doc[t].status = "completed"
    => t \in report \cup lost

\* When a task's coroutine has ended and no administrator is in the middle of an
\* operation, memory and MongoDB tell the same status and progress, provided no
\* administrator wrote the task while it ran and no write failed: GET
\* /tasks/{id}/status may then be answered from either.
CopiesAgreeAtRest ==
  \A t \in Tasks :
    /\ job[t].at = "ended" /\ t \notin touched \cup lost
    /\ mem[t] # NoEntry
    /\ \A a \in Admins : admin[a].op = "idle"
    => /\ doc[t] # NoEntry
       /\ doc[t].status = mem[t].status
       /\ doc[t].progress = mem[t].progress

\* When the coroutine has ended and no save is under way, Redis holds the tracker's
\* last state, or else the last snapshot that the simulator or the log handler
\* took: an older snapshot saved after a newer one, its own or the other's, can
\* hide the end of an analysis from get_progress_by_id, but nothing else can.
StoredIsLastOrLate ==
  \A t \in Tasks :
    /\ job[t].at = "ended" /\ tracker[t] # NoEntry
    /\ \A s \in Savers : side[t][s].pc # "saving"
    => stored[t] \in {tracker[t]} \cup {side[t][s].snap : s \in Savers}

\* A record that was deleted, or that a restart has lost, is not written again by
\* the analysis that is still running: update_task_status and update_one create
\* nothing.
DeletedStaysDeleted ==
  [][\A t \in Tasks : job[t].at \notin {"none"} =>
       /\ mem[t] = NoEntry => mem'[t] = NoEntry
       /\ doc[t] = NoEntry => doc'[t] = NoEntry]_vars

\* mark_completed and mark_failed are final for the tracker, whatever the other
\* threads still send.
EndedTrackerStays ==
  [][\A t \in Tasks : tracker[t] # NoEntry /\ tracker[t].status \in Terminal
       => tracker'[t] \in {tracker[t], NoEntry}]_vars

\* Every analysis that is started comes to an end and stays there, for a client
\* that asks the memory copy, even when administrators fail it or clean it up and
\* a late progress update sets it back to running; unless the process restarts.
EveryTaskEnds ==
  \A t \in Tasks :
    job[t].at = "launched" ~>
      [](\/ job[t].at = "dead"
         \/ mem[t] = NoEntry
         \/ mem[t].status \in Terminal)

=============================================================================
