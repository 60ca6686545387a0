---------------------------- MODULE TextInputs ----------------------------
(***************************************************************************)
(* Every text the token splitter can be given, built symbol by symbol, and  *)
(* what the splitter promises of it.                                        *)
(***************************************************************************)
EXTENDS TokenSplitter

VARIABLE input

Extend(c) == input' = Append(input, c)

AnyText == input = <<>> /\ [][\E c \in Symbol : Extend(c)]_input

\* "recursive descent, no truncation": the chunks before the overlap hold every
\* word of the text, once and in order.
NothingLost == KeepsWords(input)

\* What is left of "guaranteed to fit" and "up to overlap_tokens": a chunk is over
\* the budget only if there is no space or line break between two words of it; the
\* overlap adds at most its own tokens, or, when it begins inside a word, two marks
\* and the tokens of what is left of that word in place of the pieces it cut.
FitsBudget == KeepsBudget(input)
=============================================================================
