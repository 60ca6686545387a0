--------------------------- MODULE MCIngestionRun ---------------------------
(* Instances of IngestionRun for TLC. *)
EXTENDS IngestionRun

\* Pages of 500 thousand square points.
Page(printed, layer, chars, ink) ==
    [printed |-> printed, layer |-> layer, chars |-> chars, area |-> 500, ink |-> ink,
     bars |-> 0, tabs |-> 0, lines |-> 3, gaps |-> 0, math |-> {},
     confs |-> <<>>, words |-> <<>>, garbled |-> ""]
Digital(text) == Page(text, text, 3000, 2)
Table(text) == [Page(text, text, 2000, 10) EXCEPT !.bars = 6]
BlankPage == Page("", "", 0, 0)

\* Tesseract is sure of itself, while two of the words are single letters.
NoisyScan(text) ==
    [Page(text, "", 0, 70) EXCEPT !.garbled = "noise", !.confs = <<92, 88>>,
        !.words = <<"the", "i", "leave", "is", "b", "paid", "yearly">>]
English == {"the", "i", "leave", "is", "paid", "yearly"}
Letters == {"i", "b"}

\* A PDF with a digital cover, a blank page, a scan only the VLM reads and a
\* table; a text of two chunks.
Report4 == <<Digital("cover"), BlankPage, NoisyScan("body"), Table("table")>>
Note == <<"first", "second">>
AllTexts == {"", "noise", "cover", "body", "table", "first", "second"}

Two == {"report", "note"}
TwoKinds == [d \in Two |-> IF d = "report" THEN "pdf" ELSE "text"]
TwoContents == [d \in Two |-> IF d = "report" THEN Report4 ELSE Note]
AllHr == [d \in Two |-> "hr"]
ThreadSymmetry == Permutations(Threads)
Loading == {<<"ok", "ok", "ok">>, <<"503", "5xx", "ok">>}

\* The noisy scan ends with what the VLM reads.
ASSUME AllLegible == \A d \in Docs : Legible(d)
=============================================================================
