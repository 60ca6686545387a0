--------------------------- MODULE MCModelSettings ---------------------------
\* One tenant and two models of a family, a chat and a vision model.
EXTENDS ModelSettings, TLC
Symmetry == Permutations(Callers)
NameMarks == [m \in Models |-> IF m = "qwen3" THEN {"qwen3"} ELSE {"qwen2.5-vl", "vl"}]
BothFields == {"temperature", "top_p"}
Vals(t, p) == [f \in BothFields |-> IF f = "temperature" THEN t ELSE p]
BuiltinFamilies == <<[mark |-> "qwen2.5-vl", vals |-> Vals(1, 9)],
                     [mark |-> "qwen3", vals |-> [temperature |-> 1]]>>

Wild(n, ms, kind, v) == [wild |-> TRUE, length |-> n, models |-> ms, kind |-> kind, vals |-> v]

Rows ==
    [s \in Scopes |->
        IF s = Platform
        THEN {Wild(1, Models, None, Vals(2, 8))}
        ELSE {Wild(5, Models, "chat", Vals(4, 7))}]
==============================================================================
