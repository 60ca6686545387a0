------------------------ MODULE MCDocumentLifecycle ------------------------
(* Instances of DocumentLifecycle for TLC. *)
EXTENDS DocumentLifecycle, TLC

RaceRequests == {"upload", "delete", "deleteAll", "reprocess"}

Symmetry == Permutations(Handlers) \cup Permutations(Tasks)
=============================================================================
