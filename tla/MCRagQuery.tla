----------------------------- MODULE MCRagQuery -----------------------------
(* Instances of RagQuery for TLC. *)
EXTENDS RagQuery

Ask1(s, c, k, o) == [sse |-> s, useCache |-> c, useReranking |-> k, retrieveOnly |-> o]
Refusal == <<"R">>
Chunk(r, s, c) == [reasoning |-> r, status |-> s, content |-> c]
AnswerChunks == {Chunk(FALSE, FALSE, <<"w">>), Chunk(FALSE, FALSE, <<"_", "R">>), Chunk(TRUE, FALSE, <<>>)}
\* A refusal of two words: after an answer, alone, repeated, and cut in the middle.
TwoWords == <<"R", "R">>
TextChunks == {Chunk(FALSE, FALSE, <<"w", "_", "R">>), Chunk(FALSE, FALSE, <<"R">>)}
NoDocs == {}
AllowFirst == [q \in Queries |-> {"d1"}]
NoCacheAsks == {Ask1(TRUE, FALSE, FALSE, FALSE)}

\* The policy allows the first request one document and the others the second.
OneEach == LET first == CHOOSE q \in Queries : TRUE
           IN  [q \in Queries |-> IF q = first THEN {"d1"} ELSE {"d2"}]
\* The first user is cleared for internal documents, the others for public ones.
OneCleared == LET first == CHOOSE q \in Queries : TRUE
              IN  [q \in Queries |-> IF q = first THEN 1 ELSE 0]
NoRoles == [q \in Queries |-> {}]
DocSet == {"d1", "d2"}
First == {"d1"}
MixedAsks == {Ask1(TRUE, TRUE, TRUE, FALSE), Ask1(FALSE, FALSE, TRUE, TRUE)}
StreamAsks == {Ask1(TRUE, TRUE, TRUE, FALSE)}
=============================================================================
