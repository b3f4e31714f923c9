----------------------------- MODULE MCAgentGraph -----------------------------
EXTENDS AgentGraph

(* An analyst that loops beside one that does not, and two that loop, at   *)
(* every depth; the four together; and a caller without a callback.        *)
MCSetups ==
    [analysts : {{"market", "news"}, {"market", "social"}, {"fundamentals", "social"}},
     depth : 1 .. 5, callback : {TRUE}]
    \cup {[analysts |-> Analysts, depth |-> 3, callback |-> TRUE],
          [analysts |-> {"market"}, depth |-> 1, callback |-> FALSE]}
=============================================================================
