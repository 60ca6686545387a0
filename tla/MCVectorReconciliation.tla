----------------------- MODULE MCVectorReconciliation -----------------------
(* Instances of VectorReconciliation for TLC. *)
EXTENDS VectorReconciliation

UserRequests == {"delete", "filesAvailable"}
=============================================================================
