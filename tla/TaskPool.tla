------------------------------ MODULE TaskPool ------------------------------
(***************************************************************************)
(* What a task queue promises its producers when nothing is sent twice: an *)
(* id is offered once, at most one worker ever takes it, and once it has   *)
(* been withdrawn, finished or lost it never comes back.                   *)
(***************************************************************************)
CONSTANTS Tasks, Workers, NoTask

VARIABLES
  phase,  (* where each id is in its life                                  *)
  taker   (* the id each worker is busy with                               *)

poolVars == <<phase, taker>>

Init ==
  /\ phase = [t \in Tasks |-> "new"]
  /\ taker = [w \in Workers |-> NoTask]

Offer(t) ==
  /\ phase[t] = "new"
  /\ phase' = [phase EXCEPT ![t] = "pending"]
  /\ UNCHANGED taker

\* Cancelled, or lost before a worker got it.
Withdraw(t) ==
  /\ phase[t] \in {"new", "pending"}
  /\ phase' = [phase EXCEPT ![t] = "gone"]
  /\ UNCHANGED taker

Take(w, t) ==
  /\ phase[t] = "pending" /\ taker[w] = NoTask
  /\ phase' = [phase EXCEPT ![t] = "taken"]
  /\ taker' = [taker EXCEPT ![w] = t]

Leave(w) ==
  /\ taker[w] # NoTask
  /\ phase' = [phase EXCEPT ![taker[w]] = "gone"]
  /\ taker' = [taker EXCEPT ![w] = NoTask]

Next ==
  \/ \E t \in Tasks : Offer(t) \/ Withdraw(t)
  \/ \E w \in Workers : Leave(w) \/ \E t \in Tasks : Take(w, t)

Spec == Init /\ [][Next]_poolVars
=============================================================================
