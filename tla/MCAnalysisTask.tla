--------------------------- MODULE MCAnalysisTask ---------------------------
(* Small instances of AnalysisTask: two nodes report, a fundamentals analyst *)
(* and the risk manager, whose 93 is above the 90 that follows the graph.    *)
EXTENDS AnalysisTask

MCNodeProgress == {45, 93}
=============================================================================
