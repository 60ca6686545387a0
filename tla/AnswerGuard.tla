---------------------------- MODULE AnswerGuard ----------------------------
(***************************************************************************)
(* The trailing-refusal guard of rag-service (pipelines/answer_guard.py).   *)
(* Text is a sequence of symbols; Space stands for any whitespace.  A guard *)
(* is [held, content]: the text held back and whether anything but          *)
(* whitespace has been released.                                            *)
(***************************************************************************)
EXTENDS Naturals, Sequences, SequencesExt

CONSTANTS
    Space,      \* the whitespace symbol
    Sentence    \* REFUSAL_SENTENCE

ASSUME SentenceAssumption == /\ Space \in STRING /\ Sentence \in Seq(STRING) /\ Sentence # <<>>
                             /\ Sentence[1] # Space /\ Last(Sentence) # Space

Blank(s) == \A i \in DOMAIN s : s[i] = Space

\* s.strip()
Strip(s) ==
    LET ink == {i \in DOMAIN s : s[i] # Space}
    IN  IF ink = {} THEN <<>>
        ELSE SubSeq(s, CHOOSE i \in ink : \A j \in ink : i <= j,
                       CHOOSE i \in ink : \A j \in ink : i >= j)

NewGuard == [held |-> <<>>, content |-> FALSE]

\* How many symbols precede the whitespace that ends at position j.
WhitespaceStart(s, j) ==
    CHOOSE k \in 0 .. j : /\ \A i \in k + 1 .. j : s[i] = Space
                          /\ (k = 0 \/ s[k] # Space)

\* Mutant of HoldFrom: the whitespace before the sentence is not held.
HoldSentenceOnly(s) ==
    LET starts == {j \in 0 .. Len(s) - 1 : /\ (j = 0 \/ s[j] = Space)
                                           /\ IsPrefix(SubSeq(s, j + 1, Len(s)), Sentence)}
    IN  IF starts = {} THEN Len(s) ELSE CHOOSE i \in starts : \A j \in starts : i <= j

\* The length of the part of s that may be released: the rest is whitespace
\* followed by the beginning of the sentence, at the start of a word.
HoldFrom(s) ==
    LET first  == IF Len(s) > Len(Sentence) THEN Len(s) - Len(Sentence) ELSE 0
        starts == {j \in first .. Len(s) - 1 : /\ (j = 0 \/ s[j] = Space)
                                               /\ IsPrefix(SubSeq(s, j + 1, Len(s)), Sentence)}
    IN  WhitespaceStart(s, IF starts = {} THEN Len(s)
                           ELSE CHOOSE i \in starts : \A j \in starts : i <= j)

\* feed(text): what is released now, and the guard afterwards.
Feed(guard, text) ==
    LET buf == guard.held \o text
        cut == HoldFrom(buf)
        out == SubSeq(buf, 1, cut)
    IN  [out   |-> out,
         guard |-> [held    |-> SubSeq(buf, cut + 1, Len(buf)),
                    content |-> guard.content \/ ~Blank(out)]]

\* finish(): the held text, unless it is a refusal after an answer.
Finish(guard) ==
    IF guard.content /\ Strip(guard.held) = Sentence THEN <<>> ELSE guard.held

\* The text before a refusal that ends it.
Before(text) == SubSeq(text, 1, Len(text) - Len(Sentence))

\* The refusal follows an answer.
Refused(text) ==
    /\ IsSuffix(Sentence, text)
    /\ ~Blank(Before(text))

\* ... without a space between them.
Glued(text) == Refused(text) /\ Last(Before(text)) # Space

\* Reference: what a reader of the whole text would remove, whichever way the
\* engine cut it into chunks.
Cleaned(text) ==
    IF Refused(text) /\ ~Glued(text)
    THEN SubSeq(text, 1, WhitespaceStart(text, Len(Before(text))))
    ELSE text
=============================================================================
