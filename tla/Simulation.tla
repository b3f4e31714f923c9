----------------------------- MODULE Simulation -----------------------------
(***************************************************************************)
(* One simulated strategy (app/services/alpha/simulation_engine.py): the    *)
(* loop that drives it with the newest daily bar of each of its symbols,    *)
(* beside the calls that pause and stop it.  The strategy itself is         *)
(* external and may raise at any bar.  What it trades, and what             *)
(* _persist_state copies to MongoDB, is left out.                           *)
(***************************************************************************)
EXTENDS Integers

CONSTANTS
  NSymbols,          \* the symbols of the simulation, in the order of vt_symbols
  MaxDay, MaxDrives  \* bounds on time and on the bars driven

ASSUME SimAssumption ==
  NSymbols \in Nat \ {0} /\ MaxDay \in Nat \ {0} /\ MaxDrives \in Nat

VARIABLES
  simDay,      \* the date
  latestBar,  \* per symbol, its newest row of stock_daily_quotes, 0 when it has none
  loop,       \* where start_simulation / _periodic_update stands
  asked,      \* the symbol that _fetch_latest_bars asks for next
  bar,        \* per symbol, the date of its bar in hand, 0 when there is none
  simStatus,  \* ctx.status
  registered, \* the entry in _simulations: "yes", "stopping", "no"
  lastBar,    \* ctx.last_bar_date
  drives,     \* history: the passes driven so far, bounded by MaxDrives
  led,        \* history: per symbol and day, the passes dated by that bar
  raised,     \* history: those of them in the loop in which the strategy raised
  firstBar,   \* history: the bar that dated the initial cycle
  afterStop   \* history: passes driven while the status was not running

simVars == <<simDay, latestBar, loop, asked, bar, simStatus, registered, lastBar, drives, led,
             raised, firstBar, afterStop>>

SimDays == 1 .. MaxDay

Symbols == 1 .. NSymbols

Bars == Symbols \X SimDays

NoBars == [s \in Symbols |-> 0]

SimInit ==
  /\ simDay = 1 /\ latestBar = NoBars
  /\ loop = "start" /\ asked = 1 /\ bar = NoBars
  /\ simStatus = "running" /\ registered = "yes"
  /\ lastBar = 0
  /\ drives = 0 /\ led = [b \in Bars |-> 0] /\ raised = [b \in Bars |-> 0]
  /\ firstBar = <<0, 0>> /\ afterStop = 0

SimTypeOK ==
  /\ simDay \in SimDays /\ latestBar \in [Symbols -> 0 .. simDay]
  /\ bar \in [Symbols -> 0 .. MaxDay]
  /\ loop \in {"start", "initial", "sleep", "fetch", "drive", "persist", "over"}
  /\ asked \in 1 .. NSymbols + 1
  /\ simStatus \in {"running", "paused", "stopped", "error"}
  /\ registered \in {"yes", "stopping", "no"}
  /\ lastBar \in 0 .. MaxDay

-----------------------------------------------------------------------------
\* list(bars.values())[0]: the first symbol with a row gives the pass its date.
Leads(s, bars) == bars[s] # 0 /\ \A t \in 1 .. s - 1 : bars[t] = 0

\* One find_one of _fetch_latest_bars, awaited.
FetchRow ==
  /\ bar' = [bar EXCEPT ![asked] = latestBar[asked]]
  /\ asked' = asked + 1

\* strategy.on_bars with all the bars in hand, dated by that of s.
OnBars(s) ==
  /\ drives < MaxDrives
  /\ Leads(s, bar)
  /\ drives' = drives + 1
  /\ led' = [led EXCEPT ![<<s, bar[s]>>] = @ + 1]
  /\ afterStop' = IF simStatus = "running" THEN afterStop ELSE afterStop + 1

\* Mutant of KeepsRunning: a paused simulation goes on.
KeepsRunningWhilePaused == simStatus \in {"running", "paused"}

\* The condition of the loop and of the check after the sleep.
KeepsRunning == simStatus = "running"

-----------------------------------------------------------------------------
\* start_simulation

\* _run_initial_cycle up to the end of _fetch_latest_bars, which may raise.
FetchInitialBars ==
  /\ loop = "start"
  /\ \/ /\ FetchRow
        /\ loop' = IF asked < NSymbols THEN "start"
                   ELSE IF bar' = NoBars THEN "sleep" ELSE "initial"
        /\ UNCHANGED simStatus
     \/ loop' = "over" /\ simStatus' = "error" /\ UNCHANGED <<bar, asked>>
  /\ UNCHANGED <<simDay, latestBar, registered, lastBar, drives, led, raised, firstBar, afterStop>>

\* The first bars; ctx.last_bar_date stays unset.  An exception leaves the
\* simulation in error and without its loop.
InitialCycle ==
  /\ loop = "initial"
  /\ \E s \in Symbols : OnBars(s) /\ firstBar' = <<s, bar[s]>>
  /\ \/ loop' = "sleep" /\ UNCHANGED simStatus
     \/ loop' = "over" /\ simStatus' = "error"
  /\ UNCHANGED <<simDay, latestBar, asked, bar, registered, lastBar, raised>>

-----------------------------------------------------------------------------
\* _periodic_update

\* The loop's condition before the sleep and the check after it; while the
\* market trades, or when today's bar is done, it sleeps again.
WakeUp ==
  /\ loop = "sleep"
  /\ loop' = IF KeepsRunning THEN "fetch" ELSE "over"
  /\ KeepsRunning => lastBar # simDay
  /\ asked' = 1 /\ bar' = NoBars
  /\ UNCHANGED <<simDay, latestBar, simStatus, registered, lastBar, drives, led, raised, firstBar, afterStop>>

\* _fetch_latest_bars, and the one date that decides whether any of the bars
\* is looked at; an exception leads back to the sleep as well.
FetchBars ==
  /\ loop = "fetch"
  /\ \/ /\ FetchRow
        /\ loop' = IF asked < NSymbols THEN "fetch"
                   ELSE IF \E s \in Symbols : Leads(s, bar') /\ bar'[s] # lastBar THEN "drive"
                   ELSE "sleep"
     \/ loop' = "sleep" /\ UNCHANGED <<bar, asked>>
  /\ UNCHANGED <<simDay, latestBar, simStatus, registered, lastBar, drives, led, raised, firstBar, afterStop>>

\* Mutant of BarDone: the day of the run instead of the day of the bar.
BarDoneToday(s) == lastBar' = simDay

\* What the loop remembers of the bars it has driven: one date for all of them.
BarDone(s) == lastBar' = bar[s]

\* An exception is logged and the bars stay unmarked: the next pass repeats them
\* on top of the orders it has already filled.
DriveBar ==
  /\ loop = "drive"
  /\ \E s \in Symbols :
       /\ OnBars(s)
       /\ \/ BarDone(s) /\ loop' = "persist" /\ UNCHANGED raised
          \/ /\ raised' = [raised EXCEPT ![<<s, bar[s]>>] = @ + 1]
             /\ loop' = "sleep" /\ UNCHANGED lastBar
  /\ UNCHANGED <<simDay, latestBar, asked, bar, simStatus, registered, firstBar>>

\* await self._persist_state(ctx)
PersistState ==
  /\ loop = "persist"
  /\ loop' = "sleep"
  /\ UNCHANGED <<simDay, latestBar, asked, bar, simStatus, registered, lastBar, drives, led, raised, firstBar, afterStop>>

-----------------------------------------------------------------------------
\* The calls of the API, and the world

PauseSimulation ==
  /\ registered # "no"
  /\ simStatus' = "paused"
  /\ UNCHANGED <<simDay, latestBar, loop, asked, bar, registered, lastBar, drives, led, raised, firstBar, afterStop>>

\* stop_simulation up to the await inside its lock ...
StopSimulation ==
  /\ registered = "yes"
  /\ registered' = "stopping"
  /\ simStatus' = "stopped"
  /\ UNCHANGED <<simDay, latestBar, loop, asked, bar, lastBar, drives, led, raised, firstBar, afterStop>>

\* ... and after it; a pause may have come in between.
RemoveSimulation ==
  /\ registered = "stopping"
  /\ registered' = "no"
  /\ UNCHANGED <<simDay, latestBar, loop, asked, bar, simStatus, lastBar, drives, led, raised, firstBar, afterStop>>

NewDay ==
  /\ simDay < MaxDay
  /\ simDay' = simDay + 1
  /\ UNCHANGED <<latestBar, loop, asked, bar, simStatus, registered, lastBar, drives, led, raised, firstBar, afterStop>>

\* A row of one symbol arrives, perhaps days late.
NewBar ==
  /\ \E s \in Symbols : \E d \in latestBar[s] + 1 .. simDay :
       latestBar' = [latestBar EXCEPT ![s] = d]
  /\ UNCHANGED <<simDay, loop, asked, bar, simStatus, registered, lastBar, drives, led, raised, firstBar, afterStop>>

SimNext ==
  \/ FetchInitialBars \/ InitialCycle
  \/ WakeUp \/ FetchBars \/ DriveBar \/ PersistState
  \/ PauseSimulation \/ StopSimulation \/ RemoveSimulation
  \/ NewDay \/ NewBar

-----------------------------------------------------------------------------
\* Properties

\* Why a bar dates more than one pass: the initial cycle does not mark its bar,
\* and an exception leaves the bar unmarked.  Neither late data, nor a new day
\* without a bar, nor a pause, nor a symbol that takes the lead with an older bar
\* makes the loop finish two passes dated by the same bar.  This is all that is
\* left of "the bars of a day are handled once" (_periodic_update): the bars of
\* the other symbols ride along, handled again with every new date of the leader
\* and not at all while its date stands still.
BarRepeatsAreKnown ==
  \A b \in Bars : led[b] <= 1 + (IF firstBar = b THEN 1 ELSE 0) + raised[b]

\* The status is not looked at between the fetch and the strategy, so the
\* bars in hand still trade after a stop or a pause, but only those.
StopLeavesOneBar == afterStop <= 1
=============================================================================
