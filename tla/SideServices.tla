---------------------------- MODULE SideServices ----------------------------
(***************************************************************************)
(* The services beside the analysis of stocks: the paper account, the       *)
(* simulated strategies, the price history, the stock list and the rate     *)
(* limiter.  They share no state, so a behaviour of all of them is an       *)
(* interleaving of behaviours of each; a run looks at one of them, chosen    *)
(* in its first state, while the others rest.                               *)
(***************************************************************************)
EXTENDS PaperTrading, Simulation, HistoricalData, BasicsSync, RateLimiter

VARIABLE focus  \* the service that this behaviour is about

vars == <<paperVars, simVars, historyVars, syncVars, limiterVars, focus>>

Init ==
  /\ PaperInit /\ SimInit /\ HistoryInit /\ SyncInit /\ LimiterInit
  /\ focus \in {"paper", "simulation", "history", "basics", "limiter"}

TypeOK == PaperTypeOK /\ SimTypeOK /\ HistoryTypeOK /\ SyncTypeOK /\ LimiterTypeOK

PaperRuns ==
  focus = "paper" /\ PaperNext
  /\ UNCHANGED <<simVars, historyVars, syncVars, limiterVars, focus>>

SimulationRuns ==
  focus = "simulation" /\ SimNext
  /\ UNCHANGED <<paperVars, historyVars, syncVars, limiterVars, focus>>

HistoryRuns ==
  focus = "history" /\ HistoryNext
  /\ UNCHANGED <<paperVars, simVars, syncVars, limiterVars, focus>>

BasicsRun ==
  focus = "basics" /\ SyncNext
  /\ UNCHANGED <<paperVars, simVars, historyVars, limiterVars, focus>>

LimiterRuns ==
  focus = "limiter" /\ LimiterNext
  /\ UNCHANGED <<paperVars, simVars, historyVars, syncVars, focus>>

Next == PaperRuns \/ SimulationRuns \/ HistoryRuns \/ BasicsRun \/ LimiterRuns

Spec == Init /\ [][Next]_vars
=============================================================================
