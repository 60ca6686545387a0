--------------------------- MODULE MCConversation ---------------------------
(* Instances of Conversation for TLC. *)
EXTENDS Conversation, TLC
TurnSymmetry == Permutations(Turns)
=============================================================================
