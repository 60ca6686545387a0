--------------------------- MODULE MCStreamWorker ---------------------------
(* Instances of StreamWorker for TLC: two tenants, the entries all of one.  *)
EXTENDS StreamWorker

OneTenant  == [m \in Msgs |-> CHOOSE t \in Tenants : TRUE]
SecondMissing == {2}
FirstMalformed == {1}
AB == {"a", "b"}
=============================================================================
