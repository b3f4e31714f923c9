----------------------------- MODULE BasicsSync -----------------------------
(***************************************************************************)
(* The synchronisation of the stock list                                    *)
(* (app/services/multi_source_basics_sync_service.py).  Two service objects *)
(* exist in a process, one that app/main.py creates for the schedule and    *)
(* one that the API uses; each has a running flag of its own, and both      *)
(* write the one status document.                                           *)
(***************************************************************************)
EXTENDS Integers, FiniteSets

CONSTANTS
  Instances,  \* the service objects
  Syncs       \* calls of run_full_sync, each made once

VARIABLES
  flag,       \* per instance: _running
  last,       \* per instance: the status in _last_status
  doc,        \* the status in the collection
  sync,       \* per call: its instance, its force argument, where it stands
  lostWrite,  \* history: some write of the status failed or died with its process
  stuck       \* history: the instances whose flag a failed first write left set

syncVars == <<flag, last, doc, sync, lostWrite, stuck>>

Verdicts == {"success", "success_with_errors", "failed"}
Active(c) == sync[c].pc \notin {"uncalled", "skipped", "done"}

SyncInit ==
  /\ flag = [i \in Instances |-> FALSE]
  /\ last = [i \in Instances |-> "never_run"]
  /\ doc = "never_run"
  /\ sync = [c \in Syncs |-> [pc |-> "uncalled", inst |-> "none", force |-> FALSE, verdict |-> "none"]]
  /\ lostWrite = FALSE
  /\ stuck = {}

SyncTypeOK ==
  /\ flag \in [Instances -> BOOLEAN]
  /\ last \in [Instances -> {"never_run", "running"} \cup Verdicts]
  /\ doc \in {"never_run", "running"} \cup Verdicts
  /\ \A c \in Syncs : sync[c].pc \in {"uncalled", "skipped", "announce", "fetch", "settle", "clear", "done"}
  /\ stuck \subseteq Instances

Goes(c, pc) == sync' = [sync EXCEPT ![c].pc = pc]

\* Mutant of MayStart: the check is dropped.
MayStartAlways(i, force) == force \/ i \in Instances

\* The check under the lock; without force a second run is turned away.
MayStart(i, force) == force \/ ~flag[i]

RunFullSync(c, i, force) ==
  /\ sync[c].pc = "uncalled"
  /\ sync' = [sync EXCEPT ![c] = [pc |-> IF MayStart(i, force) THEN "announce" ELSE "skipped",
                                  inst |-> i, force |-> force, verdict |-> "none"]]
  /\ flag' = [flag EXCEPT ![i] = TRUE]
  /\ UNCHANGED <<last, doc, lostWrite, stuck>>

\* _persist_status, document first
PersistStatus(c, status) ==
  /\ doc' = status
  /\ last' = [last EXCEPT ![sync[c].inst] = status]

\* The first write stands before the try: when it fails, nothing clears the flag.
AnnounceRunning(c) ==
  /\ sync[c].pc = "announce"
  /\ \/ /\ PersistStatus(c, "running")
        /\ Goes(c, "fetch")
        /\ UNCHANGED <<lostWrite, stuck>>
     \/ /\ Goes(c, "done")
        /\ lostWrite' = TRUE
        /\ stuck' = stuck \cup {sync[c].inst}
        /\ UNCHANGED <<last, doc>>
  /\ UNCHANGED flag

\* The stock list, the daily data and the bulk writes, with their fallbacks:
\* every row written, some not, or an exception.
FetchAndWrite(c) ==
  /\ sync[c].pc = "fetch"
  /\ \E verdict \in Verdicts :
       sync' = [sync EXCEPT ![c].pc = "settle", ![c].verdict = verdict]
  /\ UNCHANGED <<flag, last, doc, lostWrite, stuck>>

\* Mutant of SettleStatus: only a success is persisted.
SettleStatusOnSuccess(c) ==
  /\ sync[c].pc = "settle"
  /\ IF sync[c].verdict = "failed" THEN UNCHANGED <<last, doc>>
                                   ELSE PersistStatus(c, sync[c].verdict)
  /\ Goes(c, "clear")
  /\ UNCHANGED <<flag, lostWrite, stuck>>

\* The final status.  A failing write of a success enters the except branch,
\* which writes failed; a failing write there leaves through the finally.
SettleStatus(c) ==
  /\ sync[c].pc = "settle"
  /\ \/ /\ PersistStatus(c, sync[c].verdict)
        /\ Goes(c, "clear")
        /\ UNCHANGED lostWrite
     \/ /\ sync[c].verdict # "failed"
        /\ sync' = [sync EXCEPT ![c].verdict = "failed"]
        /\ UNCHANGED <<last, doc, lostWrite>>
     \/ /\ sync[c].verdict = "failed"
        /\ Goes(c, "clear")
        /\ lostWrite' = TRUE
        /\ UNCHANGED <<last, doc>>
  /\ UNCHANGED <<flag, stuck>>

\* finally
ClearRunning(c) ==
  /\ sync[c].pc = "clear"
  /\ flag' = [flag EXCEPT ![sync[c].inst] = FALSE]
  /\ Goes(c, "done")
  /\ UNCHANGED <<last, doc, lostWrite, stuck>>

\* A new process starts with clear flags; what was under way is gone, and the
\* document keeps what it last held.
SyncRestart ==
  /\ \E c \in Syncs : Active(c)
  /\ flag' = [i \in Instances |-> FALSE]
  /\ last' = [i \in Instances |-> "never_run"]
  /\ sync' = [c \in Syncs |-> IF Active(c) THEN [sync[c] EXCEPT !.pc = "done"] ELSE sync[c]]
  /\ lostWrite' = TRUE
  /\ stuck' = {}
  /\ UNCHANGED doc

SyncNext ==
  \/ SyncRestart
  \/ \E c \in Syncs :
       \/ \E i \in Instances, force \in BOOLEAN : RunFullSync(c, i, force)
       \/ AnnounceRunning(c) \/ FetchAndWrite(c) \/ SettleStatus(c) \/ ClearRunning(c)

-----------------------------------------------------------------------------
\* Properties

\* A forced run starts beside a running one and the first to end clears the
\* flag of both, so the flag excludes nothing afterwards; still the runs of an
\* instance never number more than one plus the forced ones so far.
SyncsBounded ==
  \A i \in Instances :
    Cardinality({c \in Syncs : Active(c) /\ sync[c].inst = i})
      <= 1 + Cardinality({c \in Syncs : sync[c].force /\ sync[c].inst = i})

\* Two instances and overlapping runs share the status: whoever ends last
\* replaces "running", in the document and in the memory of each instance, so
\* an instance at rest shows a verdict unless a write was lost; and its flag is
\* down unless the first write of a run failed, which locks every later
\* unforced run out until a restart.
StatusSettles ==
  /\ ~lostWrite /\ (\A c \in Syncs : ~Active(c)) => doc # "running"
  /\ \A i \in Instances : (\A c \in Syncs : sync[c].inst = i => ~Active(c)) =>
       /\ ~lostWrite => last[i] # "running"
       /\ flag[i] => i \in stuck
=============================================================================
