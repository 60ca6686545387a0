---------------------------- MODULE PageReading ----------------------------
(***************************************************************************)
(* How ingestion-service reads a page of a PDF: the probe measures it, the  *)
(* router chooses an extractor, Tesseract reads what has no text layer, and *)
(* a gate of several signals hands what it garbled to the VLM.              *)
(*                                                                          *)
(* A page is [printed, layer, chars, area, ink, bars, tabs, lines, gaps,    *)
(* math, confs, words, garbled]: what is printed on it and what its text    *)
(* layer says; characters of the layer, its area in thousand square points, *)
(* its dark pixels in percent, its bars, tabs, lines and double spaces, its *)
(* mathematical symbols; and what Tesseract makes of its picture: the       *)
(* confidences, the words and the text.                                     *)
(***************************************************************************)
EXTENDS Integers, Sequences, SequencesExt, FiniteSetsExt

CONSTANTS
    Blank,          \* a text without a word
    Dictionary,     \* the words of the spell checker
    Lone            \* noise characters, and single letters but I, a and A

-----------------------------------------------------------------------------
(* The probe *)

HasTable(p) == p.bars > 5 \/ p.tabs > 10 \/ (p.chars > 50 /\ p.lines > 5 /\ p.gaps > 10)

\* probe_pages
Profile(p) ==
    [chars |-> p.chars, area |-> p.area, ink |-> p.ink,
     table |-> HasTable(p), math |-> Cardinality(p.math) >= 3]

\* The text density is over, or under, so many percent of ten characters per
\* thousand square points.
DenserThan(f, percent) == 10 * f.chars > percent * f.area
SparserThan(f, percent) == 10 * f.chars < percent * f.area

\* initial_path
InitialPath(f) ==
    IF DenserThan(f, 50) /\ f.ink < 5 THEN "digital"
    ELSE IF DenserThan(f, 30) /\ f.table THEN "layout"
    ELSE IF (f.ink > 50 /\ SparserThan(f, 5)) \/ f.chars = 0 THEN "tesseract"
    ELSE "layout"

-----------------------------------------------------------------------------
(* Tesseract *)

\* word_validity_ratio in percent: a lone "i" is noise and a word; the unknown words
\* are a set, so one that is repeated counts once; too few words give no ratio.
WordValidityRatio(words) ==
    LET bases == SelectSeq(words, LAMBDA w : w \notin Lone \ {"i"})
        n     == Len(bases)
    IN  IF n < 5 THEN -1 ELSE (100 * (n - Cardinality(ToSet(bases) \ Dictionary))) \div n

\* noise_marker_count
NoiseMarkers(words) == Len(SelectSeq(words, LAMBDA w : w \in Lone))

\* A page that cannot be rendered or recognised.
Unreadable == [text |-> Blank, conf |-> -1, ratio |-> -1, noise |-> 0]

\* The results extract_tesseract may return for a page.
Recognised(p) ==
    {Unreadable,
     [text  |-> p.garbled,
      conf  |-> IF p.confs = <<>> THEN 0 ELSE FoldLeft(+, 0, p.confs) \div Len(p.confs),
      ratio |-> WordValidityRatio(p.words),
      noise |-> NoiseMarkers(p.words)]}

-----------------------------------------------------------------------------
(* The gate and the VLM *)

\* should_escalate_to_vlm
ShouldEscalate(r, f) ==
    \/ r.conf < 0
    \/ r.noise >= 2
    \/ r.ratio >= 0 /\ r.ratio < 80
    \/ r.conf < 60
    \/ f.table
    \/ f.math

\* extract_vlm: 413 and other 4xx end it, 503, 5xx and timeouts use up an attempt.
VlmText(replies, text) ==
    LET final == {i \in DOMAIN replies : replies[i] \in {"ok", "413", "4xx"}}
    IN  IF final # {} /\ replies[Min(final)] = "ok" THEN text ELSE Blank

\* The texts a page may give, when the VLM may answer replies.
PageTexts(p, replies) ==
    LET f == Profile(p) IN
    IF InitialPath(f) # "tesseract" THEN {p.layer}
    ELSE UNION {IF ShouldEscalate(r, f) THEN {VlmText(s, p.printed) : s \in replies} ELSE {r.text}
                   : r \in Recognised(p)}
=============================================================================
