---------------------------- MODULE MCAlgorithms ----------------------------
(* TokenSplitter and SampleSelection over all inputs up to a length: one    *)
(* state per input, a text or the rows of a dataset.                        *)
EXTENDS TextInputs, SampleInputs

CONSTANT MaxLength

vars == <<input, table, talk>>

\* What is left of a cut word takes one token more when it stands alone.
OneMore == [k \in 1 .. OverlapTokens |-> k + 1]

Symbols == {0, NewLine, Period, 1, MaxTokens + 1}
AllRows == [title : Title, size : {MinLength - 1, MinLength}]
AllMessages == [role : {"none", "user", "assistant"}, size : {0, MinLength - 17}]

Init == input = <<>> /\ table = <<>> /\ talk = <<>>

Lengthen ==
    /\ Len(input) < MaxLength /\ table = <<>> /\ talk = <<>>
    /\ \E c \in Symbols : Extend(c)
    /\ UNCHANGED <<table, talk>>
Tabulate ==
    /\ Len(table) < MaxLength - 2 /\ input = <<>> /\ talk = <<>>
    /\ \E row \in AllRows : AddRow(row)
    /\ UNCHANGED input
Converse ==
    /\ Len(talk) + FoldLeft(LAMBDA n, row : n + Len(row.messages), 0, talk) < MaxLength
    /\ input = <<>> /\ table = <<>>
    /\ Begin \/ \E m \in AllMessages : Say(m)
    /\ UNCHANGED input

Next == Lengthen \/ Tabulate \/ Converse
Spec == Init /\ [][Next]_vars
=============================================================================
