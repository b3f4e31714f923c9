----------------------------- MODULE MCSyncJobs -----------------------------
(* One scheduled job, with each shape of body. *)
EXTENDS SyncJobs

CONSTANT a

MCJobs == {a}
MCKindsOfJobs == [MCJobs -> {"batch", "symbol", "financial", "plain"}]
=============================================================================
