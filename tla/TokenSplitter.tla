--------------------------- MODULE TokenSplitter ---------------------------
(***************************************************************************)
(* TokenAwareSplitter of ingestion-service: a text is cut at the coarsest   *)
(* separator whose pieces fit the token budget, then every chunk is given   *)
(* the tail of the one before it.  A text is a sequence of symbols: a       *)
(* positive number is a word of that many tokens, 0 a space, NewLine a line *)
(* break and Period a full stop, which is a token of its own.               *)
(***************************************************************************)
EXTENDS Integers, Sequences, SequencesExt

CONSTANTS
    MaxTokens, OverlapTokens,
    Alone       \* tokens the last k pieces of a word are when they are encoded on their own

ASSUME BudgetAssumption == MaxTokens \in Nat \ {0} /\ OverlapTokens \in Nat
ASSUME AloneAssumption == Alone \in [1 .. OverlapTokens -> Nat \ {0}]

NewLine == -1
Period == -2
Symbol == Nat \cup {NewLine, Period}
Text == Seq(Symbol)

Cost(c) == IF c = Period THEN 1 ELSE IF c = NewLine THEN 0 ELSE c
Count(text) == FoldLeft(LAMBDA n, c : n + Cost(c), 0, text)
Fits(text) == Count(text) <= MaxTokens
IsBlank(text) == \A i \in DOMAIN text : text[i] \in {0, NewLine}

Separators == <<<<NewLine, NewLine>>, <<NewLine>>, <<Period, 0>>, <<0>>>>

-----------------------------------------------------------------------------
(* str.split: left to right, without overlaps; from is where the part begins *)
(* that is being read.                                                      *)
IsAt(text, sep, i) ==
    i + Len(sep) - 1 <= Len(text) /\ SubSeq(text, i, i + Len(sep) - 1) = sep

Cut(text, sep, acc, i) ==
    IF i < acc.from \/ ~IsAt(text, sep, i) THEN acc
    ELSE [from |-> i + Len(sep), out |-> Append(acc.out, SubSeq(text, acc.from, i - 1))]

Places(text) == [i \in DOMAIN text |-> i]

SplitAt(text, sep) ==
    LET end == FoldLeft(LAMBDA acc, i : Cut(text, sep, acc, i), [from |-> 1, out |-> <<>>],
                        Places(text))
    IN  Append(end.out, SubSeq(text, end.from, Len(text)))

\* Every part but the last with its separator.
Attached(text, sep) ==
    LET parts == SplitAt(text, sep)
    IN  [i \in DOMAIN parts |-> IF i < Len(parts) THEN parts[i] \o sep ELSE parts[i]]

-----------------------------------------------------------------------------
(* The chunks so far are acc.out; acc.buf is being collected.               *)

\* Mutant of Flush: what was collected before an oversized part is forgotten.
FlushNothing(acc) == acc.out

\* What was collected becomes a chunk, unless it is blank.
Flush(acc) == IF IsBlank(acc.buf) THEN acc.out ELSE Append(acc.out, acc.buf)

\* _hard_split: words are put together while they fit; a word that is over the
\* budget alone is a chunk as it is.  open: the buffer has a word, if an empty one.
Joined(acc, word) == IF acc.open THEN acc.buf \o <<0>> \o word ELSE word
AddWord(acc, word) ==
    IF Fits(Joined(acc, word)) THEN [acc EXCEPT !.buf = Joined(acc, word), !.open = TRUE]
    ELSE IF Fits(word) THEN [out |-> Flush(acc), buf |-> word, open |-> TRUE]
    ELSE [out |-> Append(Flush(acc), word), buf |-> <<>>, open |-> FALSE]

HardSplit(text) ==
    Flush(FoldLeft(AddWord, [out |-> <<>>, buf |-> <<>>, open |-> FALSE], SplitAt(text, <<0>>)))

\* A piece that is over the budget alone is cut deeper, at the next separator.
AddPiece(deeper, acc, piece) ==
    IF Fits(acc.buf \o piece) THEN [acc EXCEPT !.buf = acc.buf \o piece]
    ELSE IF Fits(piece) THEN [out |-> Flush(acc), buf |-> piece]
    ELSE [out |-> Flush(acc) \o deeper[piece], buf |-> <<>>]

Collected(deeper, pieces) ==
    FoldLeft(LAMBDA acc, piece : AddPiece(deeper, acc, piece), [out |-> <<>>, buf |-> <<>>], pieces)

Pieces(deeper, text, sep) ==
    LET pieces == Flush(Collected(deeper, Attached(text, sep)))
    IN  IF pieces = <<>> THEN <<text>> ELSE pieces

\* _recurse with the separators from number k on.
Recurse(text, level) ==
    LET f[k \in 1 .. Len(Separators) + 1] ==
            [t \in Text |->
                IF Fits(t) THEN <<t>>
                ELSE IF k > Len(Separators) THEN HardSplit(t)
                ELSE Pieces(f[k + 1], t, Separators[k])]
    IN  f[level][text]

\* _split_text
RawChunks(text) ==
    IF IsBlank(text) THEN <<>> ELSE Recurse(text, 1)

-----------------------------------------------------------------------------
(* The overlap.                                                             *)

\* Mutant of TokenTail: the previous chunk is not cut.
WholePrevious(text, n) == text

\* What the tail gives back of a word it begins inside of: the decoder keeps the
\* "##" of a piece nothing precedes.  They are two marks, each a token of its own,
\* and the rest is encoded anew.
Remnant(k) == <<1, 1, Alone[k]>>

GivenBack(c, k) == IF k < Cost(c) THEN Remnant(k) ELSE <<c>>

\* The last n tokens of a text, decoded; whitespace comes back as spaces.
Keep(acc, c) ==
    LET k == IF Cost(c) <= acc.left THEN Cost(c) ELSE acc.left IN
    IF k = 0 THEN acc
    ELSE [left |-> acc.left - k,
          out  |-> IF c = Period \/ acc.out = <<>> THEN GivenBack(c, k) \o acc.out
                   ELSE GivenBack(c, k) \o <<0>> \o acc.out]

TokenTail(text, n) == FoldLeft(Keep, [left |-> n, out |-> <<>>], Reverse(text)).out

\* run: the texts of the documents the splitter puts out.
Chunks(text) ==
    LET raw == RawChunks(text)
    IN  [i \in DOMAIN raw |->
            IF OverlapTokens = 0 \/ i = 1 THEN raw[i]
            ELSE TokenTail(raw[i - 1], OverlapTokens) \o <<0>> \o raw[i]]

-----------------------------------------------------------------------------
(* What the splitter promises of a text.                                    *)

Ink(c) == IF Cost(c) > 0 THEN <<c>> ELSE <<>>
Words(text) == FoldLeft(LAMBDA w, c : w \o Ink(c), <<>>, text)
WordsOf(chunks) == FoldLeft(LAMBDA w, c : w \o Words(c), <<>>, chunks)

\* Two words of the text have a space or a line break between them.
Divisible(text) == \E i, j, k \in DOMAIN text :
    i < j /\ j < k /\ text[j] \in {0, NewLine} /\ Cost(text[i]) > 0 /\ Cost(text[k]) > 0

\* The chunks before the overlap hold every word, once and in order.
KeepsWords(text) == WordsOf(RawChunks(text)) = Words(text)

\* A chunk is over the budget only if it cannot be divided.  The overlap adds at
\* most its own tokens, unless it begins inside a word of the chunk before: then the
\* k pieces left of the word count as two marks and what they are alone.
KeepsBudget(text) ==
    LET raw == RawChunks(text)  out == Chunks(text) IN
    \A i \in DOMAIN raw :
        /\ Fits(raw[i]) \/ ~Divisible(raw[i])
        /\ \/ Count(out[i]) <= Count(raw[i]) + OverlapTokens
           \/ /\ i > 1
              /\ \E k \in 1 .. OverlapTokens :
                    /\ \E c \in ToSet(raw[i - 1]) : k < c
                    /\ Count(out[i]) <= Count(raw[i]) + (OverlapTokens - k) + 2 + Alone[k]
=============================================================================
