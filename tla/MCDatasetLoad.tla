--------------------------- MODULE MCDatasetLoad ---------------------------
(* Three datasets for TLC: two exchanges of three, a title whose first row is *)
(* too short, and a scan that leaves out a short row.                      *)
EXTENDS DatasetLoad

Said(role, size) == [role |-> role, size |-> size]
Dialogues == <<[messages |-> <<Said("user", 40), Said("assistant", 40), Said("user", 1), Said("assistant", 1)>>],
               [messages |-> <<Said("user", 40), Said("user", 50), Said("assistant", 9)>>]>>
Contracts == <<[title |-> "a", size |-> 20], [title |-> "a", size |-> 90]>>
Pages == <<[size |-> 10], [size |-> 70]>>
Requested == <<[kind |-> "pairs", rows |-> Dialogues],
               [kind |-> "titled", rows |-> Contracts],
               [kind |-> "scan", rows |-> Pages]>>
=============================================================================
