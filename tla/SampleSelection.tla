-------------------------- MODULE SampleSelection --------------------------
(***************************************************************************)
(* HuggingFaceAdapter of data-loader: which rows of a dataset become files. *)
(* A text is its length without surrounding blanks; a row is [title, size,  *)
(* messages] and a message [role, size], role "none" for an entry that is   *)
(* not a message of a user or an assistant.  A file is the place it was     *)
(* read from: <<row>>, or <<row, question, answer>>.                        *)
(***************************************************************************)
EXTENDS Naturals, Sequences, SequencesExt

MinLength == 50

\* What a dataset is: its kind says which branch of _load_dataset_sync reads it.
WellFormed(dataset) ==
    /\ dataset.kind \in {"titled", "pairs", "scan"}
    /\ dataset.rows \in Seq(Range(dataset.rows))
    /\ dataset.kind = "pairs" =>
          \A row \in Range(dataset.rows) : row.messages \in Seq(Range(row.messages))

Rows(rows) == [i \in DOMAIN rows |-> i]
First(s, n) == SubSeq(s, 1, IF Len(s) < n THEN Len(s) ELSE n)

-----------------------------------------------------------------------------
(* dedup_field: one file per title *)

NextTitle(titles, row) ==
    IF row.title \in ToSet(titles) THEN titles ELSE Append(titles, row.title)

\* ds.unique(dedup_field)[:samples]
Selected(rows, n) == First(FoldLeft(NextTitle, <<>>, rows), n)

\* A selected title is used up by its first row, which gives a file if it is
\* long enough.
Used(rows, titles, acc, i) ==
    IF rows[i].title \notin titles \ acc.seen THEN acc
    ELSE [seen |-> acc.seen \cup {rows[i].title},
          out  |-> IF rows[i].size >= MinLength THEN Append(acc.out, <<i>>) ELSE acc.out]

Titled(rows, n) ==
    FoldLeft(LAMBDA acc, i : Used(rows, ToSet(Selected(rows, n)), acc, i),
             [seen |-> {}, out |-> <<>>], Rows(rows)).out

-----------------------------------------------------------------------------
(* extract_fn "messages": one file per question and answer *)

\* "USER: question", a line break, "ASSISTANT: answer", stripped.
PairSize(q, a) == 17 + q + IF a = 0 THEN 0 ELSE 1 + a

\* Mutant of Turn: a question whose pair was too short is asked again.
TurnKeeping(acc, messages, n, i, j) ==
    LET size == PairSize(messages[acc.asked].size, messages[j].size) IN
    CASE messages[j].role = "user" -> [acc EXCEPT !.asked = j]
      [] messages[j].role = "assistant" /\ acc.asked # 0 /\ size >= MinLength /\ Len(acc.out) < n ->
             [asked |-> 0, out |-> Append(acc.out, <<i, acc.asked, j>>)]
      [] OTHER -> acc

\* Message j of row i: a question waits for its answer and is replaced by the next
\* one; a short pair and one too many are left out.
Turn(acc, messages, n, i, j) ==
    CASE messages[j].role = "user" -> [acc EXCEPT !.asked = j]
      [] messages[j].role = "assistant" /\ acc.asked # 0 ->
             [asked |-> 0,
              out   |-> IF /\ PairSize(messages[acc.asked].size, messages[j].size) >= MinLength
                           /\ Len(acc.out) < n
                        THEN Append(acc.out, <<i, acc.asked, j>>) ELSE acc.out]
      [] OTHER -> acc

Turns(rows, n, out, i) ==
    FoldLeft(LAMBDA acc, j : Turn(acc, rows[i].messages, n, i, j),
             [asked |-> 0, out |-> out], Rows(rows[i].messages)).out

Pairs(rows, n) == FoldLeft(LAMBDA out, i : Turns(rows, n, out, i), <<>>, Rows(rows))

-----------------------------------------------------------------------------
(* the sequential scan *)

Scan(rows, n, out, i) ==
    IF rows[i].size >= MinLength /\ Len(out) < n THEN Append(out, <<i>>) ELSE out

Scanned(rows, n) == FoldLeft(LAMBDA out, i : Scan(rows, n, out, i), <<>>, Rows(rows))

\* fetch: the strategy is the dataset's.
Loaded(dataset, n) ==
    CASE dataset.kind = "titled" -> Titled(dataset.rows, n)
      [] dataset.kind = "pairs"  -> Pairs(dataset.rows, n)
      [] dataset.kind = "scan"   -> Scanned(dataset.rows, n)

-----------------------------------------------------------------------------
(* What the selection promises of a dataset.                                *)

\* The order of reading: by row, then by the message that completes a pair.
Before(f, g) == f[1] < g[1] \/ (f[1] = g[1] /\ Len(f) = 3 /\ f[3] < g[3])
InOrder(files) == \A k, l \in DOMAIN files : k < l => Before(files[k], files[l])

\* The files are the first n of the wanted ones, or all if there are fewer.
AreFirst(files, n, wanted) ==
    /\ InOrder(files) /\ Len(files) <= n /\ ToSet(files) \subseteq wanted
    /\ \A f \in wanted \ ToSet(files) :
          Len(files) = n /\ \A k \in DOMAIN files : Before(files[k], f)

Long(rows) == {i \in DOMAIN rows : rows[i].size >= MinLength}

\* The rows that open one of the first n titles.
Openings(rows, n) ==
    {i \in DOMAIN rows : /\ \A k \in 1 .. i - 1 : rows[k].title # rows[i].title
                         /\ Cardinality({rows[k].title : k \in 1 .. i}) <= n}

\* A question and the first answer after it, with no other question or answer
\* between them.
Speaks(message) == message.role \in {"user", "assistant"}
IsExchange(messages, q, a) ==
    /\ messages[q].role = "user" /\ messages[a].role = "assistant"
    /\ q < a /\ \A k \in q + 1 .. a - 1 : ~Speaks(messages[k])
    /\ PairSize(messages[q].size, messages[a].size) >= MinLength
Exchanges(rows) ==
    UNION {{<<i, x[1], x[2]>> : x \in {y \in (DOMAIN rows[i].messages) \X (DOMAIN rows[i].messages) :
                                         IsExchange(rows[i].messages, y[1], y[2])}} : i \in DOMAIN rows}

LoadsWhole(dataset, n) ==
    LET rows == dataset.rows  files == Loaded(dataset, n) IN
    CASE dataset.kind = "pairs"  -> AreFirst(files, n, Exchanges(rows))
      [] dataset.kind = "titled" -> /\ InOrder(files)
                                    /\ ToSet(files) = {<<i>> : i \in Openings(rows, n) \cap Long(rows)}
      [] dataset.kind = "scan"   -> AreFirst(files, n, {<<i>> : i \in Long(rows)})
=============================================================================
