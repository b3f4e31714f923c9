--------------------------- MODULE MCQueueWorker ----------------------------
(* Small instances of QueueWorker: all tasks belong to one user.           *)
EXTENDS QueueWorker, TLC

CONSTANT u1

MCOwner == [t \in Tasks |-> u1]
MCUsers == {u1}
Symmetry == Permutations(Handlers) \cup Permutations(Workers)
=============================================================================
