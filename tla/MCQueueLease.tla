---------------------------- MODULE MCQueueLease ----------------------------
(* Small instances of QueueLease: all tasks belong to one user.            *)
EXTENDS QueueLease, TLC

CONSTANT u1

MCOwner == [t \in Tasks |-> u1]
MCUsers == {u1}
Symmetry == Permutations(Workers)
=============================================================================
