--------------------------- MODULE HistoricalData ---------------------------
(***************************************************************************)
(* The incremental price history of one stock from one source:              *)
(* _get_last_sync_date and _save_historical_data of                         *)
(* app/worker/tushare_sync_service.py over                                  *)
(* app/services/historical_data_service.py.  Days are numbered from the     *)
(* listing, and one row stands for a day of any period; rows are written in *)
(* ascending batches, and a batch that fails after its retries is skipped.  *)
(* The latest date is looked up without regard to the period.               *)
(***************************************************************************)
EXTENDS Integers, FiniteSets

CONSTANTS
  Periods,    \* daily, weekly, ...
  LastDay,    \* bound on time
  BatchSize,  \* rows of one bulk write
  Lookback    \* "30 days ago", where a failed look-up starts

ASSUME HistoryAssumption ==
  /\ LastDay \in Nat \ {0} /\ BatchSize \in Nat \ {0} /\ Lookback \in Nat

VARIABLES
  today,
  saved,    \* per period: the days stored in stock_daily_quotes
  job,      \* the run in progress: its period and the days still to be written
  excused   \* history: per period, the days dropped for a known reason

historyVars == <<today, saved, job, excused>>

Days == 1 .. LastDay
NoJob == [period |-> "none", pending |-> {}]

HistoryInit ==
  /\ today = 1
  /\ saved = [p \in Periods |-> {}]
  /\ job = NoJob
  /\ excused = [p \in Periods |-> {}]

HistoryTypeOK ==
  /\ today \in Days
  /\ saved \in [Periods -> SUBSET Days] /\ excused \in [Periods -> SUBSET Days]
  /\ job \in [period : Periods \cup {"none"}, pending : SUBSET Days]

Latest(S) == IF S = {} THEN 0 ELSE CHOOSE d \in S : \A e \in S : e <= d

\* get_latest_date: the newest row of the symbol and source, of any period.
GetLatestDate == Latest(UNION {saved[p] : p \in Periods})

\* Mutant of LastSyncDates: the day after the day after.
LastSyncDatesSkipOne == {GetLatestDate + 2, 1}

\* _get_last_sync_date: the day after the newest row, or the listing date; a
\* failing read of the newest row looks like an empty collection.
LastSyncDates == {GetLatestDate + 1, 1}

\* "30 days ago": when the listing date cannot be read either, and for a range
\* that the user asks for.
LookbackDate == IF today > Lookback THEN today - Lookback ELSE 1

\* Fetch every day from the start to today.
StartRun(p, start) ==
  /\ job = NoJob
  /\ start <= today
  /\ job' = [period |-> p, pending |-> start .. today]
  /\ UNCHANGED <<today, saved>>

\* The incremental run.  From the newest row on, it passes over the days that
\* only another period has.
IncrementalSync(p) ==
  \E start \in LastSyncDates :
    /\ StartRun(p, start)
    /\ excused' = IF start = 1 THEN excused
                  ELSE [excused EXCEPT ![p] = @ \cup (Latest(saved[p]) + 1 .. GetLatestDate)]

\* A run over the last days, whatever is stored.
RangeSync(p) ==
  /\ StartRun(p, LookbackDate)
  /\ excused' = [excused EXCEPT ![p] = @ \cup (1 .. LookbackDate - 1)]

\* The first BatchSize rows that are still to be written.
NextBatch ==
  {d \in job.pending : Cardinality({e \in job.pending : e < d}) < BatchSize}

\* _execute_bulk_write_with_retry after _standardize_record: a row that cannot be
\* read is left out, the upserts are unordered, and a batch that is given up
\* returns 0; the next batch follows all the same.
WriteBatch ==
  /\ job # NoJob
  /\ \E ok \in SUBSET NextBatch :
       /\ saved' = [saved EXCEPT ![job.period] = @ \cup ok]
       /\ excused' = [excused EXCEPT ![job.period] = @ \cup (NextBatch \ ok)]
  /\ job' = IF job.pending = NextBatch THEN NoJob ELSE [job EXCEPT !.pending = @ \ NextBatch]
  /\ UNCHANGED today

\* The process stops between two batches.
RunDies ==
  /\ job # NoJob
  /\ job' = NoJob
  /\ UNCHANGED <<today, saved, excused>>

NextDay ==
  /\ today < LastDay
  /\ today' = today + 1
  /\ UNCHANGED <<saved, job, excused>>

HistoryNext ==
  \/ \E p \in Periods : IncrementalSync(p) \/ RangeSync(p)
  \/ WriteBatch \/ RunDies
  \/ NextDay

-----------------------------------------------------------------------------
\* Properties

\* Incremental runs never look behind the newest row, so what is missing there
\* stays missing.  It is missing only where a row failed, a run began
\* at a range instead of at the newest row, or another period's newest row hid
\* the days: crashes, retries, overlapping ranges and days without a run leave
\* no gap, because the batches are written in ascending order.
GapsAreKnown ==
  \A p \in Periods : 1 .. Latest(saved[p]) \subseteq saved[p] \cup excused[p]
=============================================================================
