--------------------------- MODULE IngestionRun ---------------------------
(***************************************************************************)
(* What a documents.ready entry makes ingestion-service do to a document:   *)
(* run_ingestion in a thread of the pool, text files in one pass and PDFs   *)
(* shard by shard with a checkpoint after every shard, page by page through *)
(* the router, Tesseract and the VLM; the vectors it writes to Qdrant, the  *)
(* chunks it stores through document-service; the verdict and the ack of    *)
(* the stream worker.  Threads run side by side; an entry whose run takes   *)
(* longer than the claim's idle time is given to a second thread; the       *)
(* process may restart and loses the checkpoints, which live in its memory. *)
(***************************************************************************)
EXTENDS PageReading

CONSTANTS
    Docs,
    Threads,        \* the pool of docling_max_workers threads
    Kind,           \* per document, "text" or "pdf"
    Texts,          \* what a page or a chunk may say
    Content,        \* per text document, the chunks of TokenSplitter; per PDF, its pages
    Domain,         \* per document, what the classifier answers
    VlmReplies,     \* the answers LMForge may give to the attempts of one page
    ShardPages,     \* docling_shard_pages
    MaxDeliveries,  \* _MAX_DELIVERY_COUNT
    MaxEntries, MaxMishaps, \* bounds; a mishap is a failure, a restart or a deletion
    None

ASSUME IngestionAssumption ==
    /\ ShardPages \in Nat \ {0} /\ MaxDeliveries \in Nat
    /\ Kind \in [Docs -> {"text", "pdf"}]
    /\ \A d \in Docs : Content[d] \in Seq(Range(Content[d]))
    /\ \A d \in Docs : Kind[d] = "text" => Range(Content[d]) \subseteq Texts
    /\ \A d \in Docs : Kind[d] = "pdf" =>
        \A i \in DOMAIN Content[d] : PageTexts(Content[d][i], VlmReplies) \subseteq Texts
    /\ None \notin Docs

VARIABLES
    entry,      \* entries of documents.ready: [doc, deliveries, acked]
    run,        \* per thread, the locals of its run
    checkpoint, \* _checkpoint_cache
    vectors,    \* points of the tenant's collection: [key, doc, domain]
    rows,       \* per document, the chunk rows: index -> text
    status,     \* per document, the last verdict reported
    marred,     \* history: documents with two runs at once, deleted while a run,
                \* an entry or a checkpoint of theirs was left, or with pages that
                \* could not be probed or read
    mishaps     \* so far

data == <<checkpoint, vectors, rows>>
vars == <<entry, run, data, status, marred, mishaps>>

IdleRun == [pc |-> "idle", entry |-> 0, start |-> 0, offset |-> 0, resumed |-> FALSE,
            first |-> TRUE, domain |-> "auto", shard |-> <<>>]

-----------------------------------------------------------------------------
\* Per page of a PDF, the texts it may give.
Readings == [d \in Docs |-> IF Kind[d] = "pdf" THEN [i \in DOMAIN Content[d] |->
                                PageTexts(Content[d][i], VlmReplies)] ELSE <<>>]

\* The n-th page of a set of pages.
NthPage(pages, n) == CHOOSE p \in pages : Cardinality({q \in pages : q <= p}) = n

\* The pages that have a text, in their order and with their numbers.
Chunks(pages, text) ==
    LET said == {p \in pages : text[p] # Blank}
    IN  [n \in 1 .. Cardinality(said) |-> [page |-> NthPage(said, n), text |-> text[NthPage(said, n)]]]

\* What the pages from a to b may say.
Outputs(d, a, b) ==
    {out \in [a .. b -> UNION {Readings[d][i] : i \in a .. b}] :
        \A i \in a .. b : out[i] \in Readings[d][i]}

-----------------------------------------------------------------------------
(* Haystack derives a point's id from the document it is created with.  The *)
(* splitter creates the chunks of a text after the metadata was merged into *)
(* it; those of a PDF exist before, so their id holds the text and its      *)
(* place but not the document.                                              *)
TextKey(d, i, text) == [of |-> d, index |-> i, page |-> 0, text |-> text]

PdfKey(i, c) == [of |-> None, index |-> i, page |-> c.page, text |-> c.text]

\* Mutant of Write: points with the same id pile up.
WriteAppending(points) == vectors' = vectors \cup points

\* Mutant of Write: what a write brings replaces the document's points, as
\* persist_chunks replaces its rows.
WriteReplacing(points) ==
    vectors' = {v \in vectors : \A p \in points : p.doc # v.doc} \cup points

\* DuplicatePolicy.OVERWRITE
Write(points) ==
    vectors' = {v \in vectors : \A p \in points : p.key # v.key} \cup points

\* The chunks a document should end up with: every part of the text it prints,
\* in order, as [page, text].
Expected ==
    [d \in Docs |->
        IF Kind[d] = "text" THEN [i \in DOMAIN Content[d] |-> [page |-> 0, text |-> Content[d][i]]]
        ELSE Chunks(DOMAIN Content[d], [i \in DOMAIN Content[d] |-> Content[d][i].printed])]

Doc(t) == entry[run[t].entry].doc
Busy(d) == \E t \in Threads : run[t].pc # "idle" /\ Doc(t) = d
Owed(d) == \E e \in DOMAIN entry : entry[e].doc = d /\ ~entry[e].acked
Goto(t, pc) == run' = [run EXCEPT ![t].pc = pc]
Mishap == mishaps < MaxMishaps /\ mishaps' = mishaps + 1

Keys == [of : Docs \cup {None}, index : Nat, page : Nat, text : Texts]

\* The variables have their types; a point id names one point; a run that has
\* an entry to settle is about a delivered one.
RunTypeOK ==
    /\ \A e \in DOMAIN entry : entry[e] \in [doc : Docs, deliveries : 0 .. MaxDeliveries + 1,
                                            acked : BOOLEAN]
    /\ \A t \in Threads : run[t].pc # "idle" => entry[run[t].entry].deliveries > 0
    /\ \A d \in Docs : checkpoint[d] # None => checkpoint[d] \in [page : Nat, chunks : Nat]
    /\ vectors \subseteq [key : Keys, doc : Docs, domain : {"general"} \cup {Domain[d] : d \in Docs}]
    /\ \A v, w \in vectors : v.key = w.key => v = w
    /\ \A d \in Docs : \A i \in DOMAIN rows[d] : rows[d][i] \in Texts
    /\ status \in [Docs -> {"NONE", "COMPLETED", "FAILED"}]
    /\ marred \subseteq Docs

Init ==
    /\ entry = <<>>
    /\ run = [t \in Threads |-> IdleRun]
    /\ checkpoint = [d \in Docs |-> None]
    /\ vectors = {} /\ rows = [d \in Docs |-> <<>>]
    /\ status = [d \in Docs |-> "NONE"]
    /\ marred = {}
    /\ mishaps = 0

-----------------------------------------------------------------------------
(* Entries.                                                                 *)

\* document-service publishes a document that is not completed: an upload, a
\* reprocess, or the sweeper's retry.
Publish(d) ==
    /\ Len(entry) < MaxEntries
    /\ status[d] # "COMPLETED"
    /\ entry' = Append(entry, [doc |-> d, deliveries |-> 0, acked |-> FALSE])
    /\ UNCHANGED <<run, data, status, marred, mishaps>>

\* An entry is delivered to a free thread, or claimed from a run that failed,
\* was lost in a restart or has taken more than the idle time.
Take(t, e) ==
    /\ run[t].pc = "idle"
    /\ ~entry[e].acked /\ entry[e].deliveries < MaxDeliveries
    /\ entry' = [entry EXCEPT ![e].deliveries = @ + 1]
    /\ run' = [run EXCEPT ![t] = [IdleRun EXCEPT !.pc = "load", !.entry = e]]
    /\ marred' = IF Busy(entry[e].doc) THEN marred \cup {entry[e].doc} ELSE marred
    /\ UNCHANGED <<data, status, mishaps>>

\* Delivered too often: reported as failed and acked without a run.
DeadLetter(e) ==
    /\ ~entry[e].acked /\ entry[e].deliveries = MaxDeliveries
    /\ entry' = [entry EXCEPT ![e].deliveries = @ + 1, ![e].acked = TRUE]
    /\ status' = [status EXCEPT ![entry[e].doc] = "FAILED"]
    /\ UNCHANGED <<run, data, marred, mishaps>>

-----------------------------------------------------------------------------
(* A run.                                                                   *)

\* Mutant of ResumeAt: the page of the checkpoint is taken for the next one to
\* start after.
ResumeSkipping(cp) == cp.page + 2

ResumeAt(cp) == cp.page + 1

\* run_ingestion: a PDF goes on after the page of its checkpoint.
Load(t) ==
    /\ run[t].pc = "load"
    /\ LET d == Doc(t)  cp == checkpoint[d] IN
       IF Kind[d] = "text" THEN Goto(t, "text")
       ELSE /\ Content[d] # <<>>
            /\ run' = [run EXCEPT ![t].pc = "shard",
                          ![t].start = IF cp = None THEN 1 ELSE ResumeAt(cp),
                          ![t].offset = IF cp = None THEN 0 ELSE cp.chunks,
                          ![t].resumed = cp # None,
                          ![t].domain = IF cp = None THEN "auto" ELSE "general"]
    /\ UNCHANGED <<entry, data, status, marred, mishaps>>

LastPage(t) == Min({run[t].start + ShardPages - 1, Len(Content[Doc(t)])})

ThisShard(t) == run[t].start .. LastPage(t)

\* The domain is decided from the first shard that has a text; without a text
\* nothing is written or stored.
Converted(t, shard) ==
    run' = [run EXCEPT ![t].pc = IF shard = <<>> THEN "save" ELSE "write",
                ![t].shard = shard,
                ![t].domain = IF @ = "auto" /\ shard # <<>> THEN Domain[Doc(t)] ELSE @]

\* The pages of the next shard are read.
Convert(t) ==
    /\ run[t].pc = "shard"
    /\ IF run[t].start > Len(Content[Doc(t)]) THEN Goto(t, "finish")
       ELSE \E out \in Outputs(Doc(t), run[t].start, LastPage(t)) :
              Converted(t, Chunks(ThisShard(t), out))
    /\ UNCHANGED <<entry, data, status, marred, mishaps>>

\* A page whose text layer cannot be read gives no text, like one the VLM gives up;
\* when probe_pages fails it answers an empty list and the shard has no page.
LostPages(t) == SUBSET ThisShard(t) \ {{}}

\* The errors are only logged: the pages are taken for blank.
ConvertBlind(t) ==
    /\ run[t].pc = "shard" /\ run[t].start <= Len(Content[Doc(t)])
    /\ Mishap
    /\ \E out \in Outputs(Doc(t), run[t].start, LastPage(t)), lost \in LostPages(t) :
          Converted(t, Chunks(ThisShard(t) \ lost, out))
    /\ marred' = marred \cup {Doc(t)}
    /\ UNCHANGED <<entry, data, status>>

WriteShard(t) ==
    /\ run[t].pc = "write"
    /\ Write({[key |-> PdfKey(run[t].offset + i, run[t].shard[i]),
               doc |-> Doc(t), domain |-> run[t].domain] : i \in DOMAIN run[t].shard})
    /\ Goto(t, "append")
    /\ UNCHANGED <<entry, checkpoint, rows, status, marred, mishaps>>

\* Mutant of Clears: a resumed run clears the rows too.
ClearsFirst(t) == run[t].first

\* append_chunks with clear_existing.
Clears(t) == run[t].first /\ ~run[t].resumed

\* append_chunks: the chunks are put at their places from n on, over what is
\* there; the rows that were there are removed first if clear holds.
Appended(old, n, chunks, clear) ==
    LET new == n + 1 .. n + Len(chunks) IN
    [i \in new \cup (IF clear THEN {} ELSE DOMAIN old) |->
        IF i \in new THEN chunks[i - n].text ELSE old[i]]

AppendRows(t) ==
    /\ run[t].pc = "append"
    /\ LET n == run[t].offset IN
       /\ rows' = [rows EXCEPT ![Doc(t)] = Appended(@, n, run[t].shard, Clears(t))]
       /\ run' = [run EXCEPT ![t].pc = "save", ![t].offset = n + Len(run[t].shard),
                             ![t].shard = <<>>]
    /\ UNCHANGED <<entry, checkpoint, vectors, status, marred, mishaps>>

SaveCheckpoint(t) ==
    /\ run[t].pc = "save"
    /\ checkpoint' = [checkpoint EXCEPT ![Doc(t)] = [page |-> LastPage(t), chunks |-> run[t].offset]]
    /\ run' = [run EXCEPT ![t].pc = "shard", ![t].first = FALSE,
                          ![t].start = LastPage(t) + 1]
    /\ UNCHANGED <<entry, vectors, rows, status, marred, mishaps>>

DeleteCheckpoint(t) ==
    /\ run[t].pc = "finish"
    /\ checkpoint' = [checkpoint EXCEPT ![Doc(t)] = None]
    /\ Goto(t, "report")
    /\ UNCHANGED <<entry, vectors, rows, status, marred, mishaps>>

\* _run_text: converted, classified, split, embedded and written in one pass.
WriteText(t) ==
    /\ run[t].pc = "text"
    /\ LET d == Doc(t) IN
       Write({[key |-> TextKey(d, i, Content[d][i]), doc |-> d, domain |-> Domain[d]]
                 : i \in DOMAIN Content[d]})
    /\ Goto(t, "store")
    /\ UNCHANGED <<entry, checkpoint, rows, status, marred, mishaps>>

\* _build_chunk_payload: the row of a chunk, at its index.
TextRows(d) == [i \in DOMAIN Content[d] |-> Content[d][i]]

\* persist_chunks replaces the rows, unless there is no chunk.
StoreText(t) ==
    /\ run[t].pc = "store"
    /\ LET d == Doc(t) IN
       rows' = IF Content[d] = <<>> THEN rows ELSE [rows EXCEPT ![d] = TextRows(d)]
    /\ Goto(t, "report")
    /\ UNCHANGED <<entry, checkpoint, vectors, status, marred, mishaps>>

Report(t) ==
    /\ run[t].pc = "report"
    /\ status' = [status EXCEPT ![Doc(t)] = "COMPLETED"]
    /\ Goto(t, "ack")
    /\ UNCHANGED <<entry, data, marred, mishaps>>

Ack(t) ==
    /\ run[t].pc = "ack"
    /\ entry' = [entry EXCEPT ![run[t].entry].acked = TRUE]
    /\ run' = [run EXCEPT ![t] = IdleRun]
    /\ UNCHANGED <<data, status, marred, mishaps>>

\* A call of the run raises, or its answer is lost after it took effect; the
\* failure is reported and the entry left pending.
Fail(t) ==
    /\ run[t].pc # "idle"
    /\ Mishap
    /\ status' = [status EXCEPT ![Doc(t)] = "FAILED"]
    /\ run' = [run EXCEPT ![t] = IdleRun]
    /\ UNCHANGED <<entry, data, marred>>

-----------------------------------------------------------------------------
\* ingestion-service restarts.
Restart ==
    /\ Mishap
    /\ run' = [t \in Threads |-> IdleRun]
    /\ checkpoint' = [d \in Docs |-> None]
    /\ UNCHANGED <<entry, vectors, rows, status, marred>>

\* The deletion worker removes what the stores hold of a document, by its id;
\* the document may be uploaded again before its row goes.
Delete(d) ==
    /\ Mishap
    /\ vectors' = {v \in vectors : v.doc # d}
    /\ rows' = [rows EXCEPT ![d] = <<>>]
    /\ status' = [status EXCEPT ![d] = "NONE"]
    /\ marred' = IF Busy(d) \/ Owed(d) \/ checkpoint[d] # None THEN marred \cup {d} ELSE marred \ {d}
    /\ UNCHANGED <<entry, run, checkpoint>>

Step(t) ==
    \/ Load(t) \/ Convert(t) \/ ConvertBlind(t) \/ WriteShard(t) \/ AppendRows(t)
    \/ SaveCheckpoint(t) \/ DeleteCheckpoint(t)
    \/ WriteText(t) \/ StoreText(t) \/ Report(t) \/ Ack(t)

Next ==
    \/ \E d \in Docs : Publish(d) \/ Delete(d)
    \/ \E e \in DOMAIN entry : DeadLetter(e) \/ (\E t \in Threads : Take(t, e))
    \/ \E t \in Threads : Step(t) \/ Fail(t)
    \/ Restart

Spec == Init /\ [][Next]_vars

-----------------------------------------------------------------------------
Settled(d) == status[d] = "COMPLETED" /\ ~Owed(d)
Whole(d) == rows[d] = [i \in DOMAIN Expected[d] |-> Expected[d][i].text]

\* When a document is completed and its entries are settled, its rows are the
\* text of the whole document in order, each part once, however often its runs
\* failed, were resumed from a checkpoint or lost it in a restart - unless two
\* runs of it overlapped, it was deleted under one, or a page of it could not be
\* read (marred).
CompletedIsWhole == \A d \in Docs \ marred : Settled(d) => Whole(d)

Key == [d \in Docs |-> [i \in DOMAIN Expected[d] |->
            IF Kind[d] = "text" THEN TextKey(d, i, Expected[d][i].text)
            ELSE PdfKey(i, Expected[d][i])]]
Found(d, i) == \E v \in vectors : v.key = Key[d][i] /\ v.doc = d
Shared(d, i) ==
    \E o \in Docs \ {d} :
        /\ Kind[d] = "pdf" /\ Kind[o] = "pdf"
        /\ Expected[d][i].page \in DOMAIN Content[o]
        /\ Expected[d][i].text \in Readings[o][Expected[d][i].page]

\* Every page of the PDF is read as it is printed, whichever extractor the router
\* takes and whatever Tesseract and LMForge answer.
Legible(d) ==
    Kind[d] = "pdf" => \A i \in DOMAIN Content[d] : Readings[d][i] = {Content[d][i].printed}

\* A settled, completed document has a vector for every row, under its own id,
\* save for the pages that another PDF of the tenant reads the same at the same
\* number: their point may be the other's, and goes when the other is deleted.
CompletedIsSearchable ==
    \A d \in Docs \ marred : Settled(d) =>
        \A i \in DOMAIN Key[d] : Found(d, i) \/ Shared(d, i)

\* A checkpoint never promises more than is stored: a run that resumes after it
\* finds the rows and the vectors of every page before it.
CheckpointCovered ==
    \A d \in Docs \ marred : checkpoint[d] # None =>
        \A i \in 1 .. checkpoint[d].chunks :
            i \in DOMAIN rows[d] /\ (Found(d, i) \/ Shared(d, i))
=============================================================================
