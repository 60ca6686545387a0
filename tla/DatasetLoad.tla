---------------------------- MODULE DatasetLoad ----------------------------
(***************************************************************************)
(* data-loader: the background task of POST /datasets/load, which loads the *)
(* datasets of a request one after the other, and the progress stream of    *)
(* GET /datasets/load/{job_id}/progress that any number of clients read.    *)
(* Every call to the hub, the object store, Redis and document-service is   *)
(* an action that may fail; a call may also take effect and raise.          *)
(***************************************************************************)
EXTENDS Naturals, FiniteSets, FiniteSetsExt, SampleSelection

CONSTANTS
    Dataset,        \* the datasets of the request: [kind, rows]
    Samples,        \* samples_per_dataset
    Readers,        \* clients of the progress stream
    MaxEventsKept,  \* _MAX_EVENTS_KEPT
    MaxMishaps      \* bound: failed calls and restarts

ASSUME LoadAssumption ==
    /\ MaxEventsKept \in Nat /\ Samples \in Nat
    /\ Dataset \in Seq(Range(Dataset)) /\ Dataset # <<>>
    /\ \A d \in DOMAIN Dataset : WellFormed(Dataset[d])

Datasets == DOMAIN Dataset
NumFiles == [d \in Datasets |-> Len(Loaded(Dataset[d], Samples))]
Files == UNION {{d} \X (1 .. NumFiles[d]) : d \in Datasets}

VARIABLES
    source,     \* data_sources row of each dataset: status and document_count
    stored,     \* files in the object store
    stream,     \* entries of files.available
    load,       \* the background task
    job,        \* the registry's job
    reader,     \* the generators of JobRegistry.stream
    mishaps

vars == <<source, stored, stream, load, job, reader, mishaps>>

NoRow == [status |-> "none", count |-> 0]
NoLoad == [pc |-> "off", d |-> 1, i |-> 1, published |-> 0, total |-> 0]
NoJob == [known |-> FALSE, total |-> 0, processed |-> 0, end |-> "none", registered |-> 0,
          events |-> <<>>]
NoReader == [pc |-> "off", pos |-> 0, left |-> 0, signal |-> FALSE]

NumTotal == Cardinality(Files)

\* The variables have their types, only files in the store are in the stream
\* and a reader never is past the replay buffer.
TypeOK ==
    /\ source \in [Datasets -> [status : {"none", "LOADING", "COMPLETED", "FAILED"},
                                count : 0 .. NumTotal]]
    /\ stored \subseteq Files /\ stream \subseteq stored
    /\ load \in [pc : {"off", "source", "fetch", "upload", "publish", "complete", "fail"},
                 d : Datasets, i : 1 .. NumTotal + 1, published : 0 .. NumTotal,
                 total : 0 .. NumTotal]
    /\ job \in [known : BOOLEAN, total : 0 .. NumTotal, processed : 0 .. NumTotal,
                end : {"none", "done", "error"}, registered : 0 .. NumTotal,
                events : Seq({"total", "progress", "done", "error"})]
    /\ Len(job.events) <= MaxEventsKept
    /\ reader \in [Readers -> [pc : {"off", "yield", "wait", "ended", "refused"},
                               pos : 0 .. MaxEventsKept, left : 0 .. MaxEventsKept,
                               signal : BOOLEAN]]
    /\ \A r \in Readers : reader[r].left <= reader[r].pos /\ reader[r].pos <= Len(job.events)

Init ==
    /\ source = [d \in Datasets |-> NoRow]
    /\ stored = {} /\ stream = {}
    /\ load = NoLoad /\ job = NoJob
    /\ reader = [r \in Readers |-> NoReader]
    /\ mishaps = 0

Mishap == mishaps < MaxMishaps /\ mishaps' = mishaps + 1
Busy(pc) == load.pc = pc
This == <<load.d, load.i>>

-----------------------------------------------------------------------------
(* The registry *)

\* Mutant of Push: no limit.
PushUnbounded(j, type) ==
    /\ job' = [j EXCEPT !.events = Append(@, type)]
    /\ reader' = [r \in Readers |-> [reader[r] EXCEPT !.signal = @ \/ reader[r].pc \in {"yield", "wait"}]]

\* _Job.push: the event is kept while there is room; every waiter is set.
Push(j, type) ==
    /\ job' = IF Len(j.events) < MaxEventsKept THEN [j EXCEPT !.events = Append(@, type)] ELSE j
    /\ reader' = [r \in Readers |-> [reader[r] EXCEPT !.signal = @ \/ reader[r].pc \in {"yield", "wait"}]]

Create == [NoJob EXCEPT !.known = TRUE]
SetTotal(n) == Push([job EXCEPT !.total = n], "total")
FileDone == Push([job EXCEPT !.processed = @ + 1], "progress")
FinishJob(n) == Push([job EXCEPT !.end = "done", !.registered = n], "done")
FailJob == Push([job EXCEPT !.end = "error"], "error")

\* get_validated: the job is there until it is evicted.
Found == job.known

-----------------------------------------------------------------------------
(* The background task *)

\* start_dataset_load
Start ==
    /\ ~job.known /\ Busy("off") /\ job.end = "none"
    /\ job' = Create
    /\ load' = [NoLoad EXCEPT !.pc = "source"]
    /\ UNCHANGED <<source, stored, stream, reader, mishaps>>

CreateSource ==
    /\ Busy("source")
    /\ source' = [source EXCEPT ![load.d] = [NoRow EXCEPT !.status = "LOADING"]]
    /\ load' = [load EXCEPT !.pc = "fetch", !.published = 0]
    /\ UNCHANGED <<stored, stream, job, reader, mishaps>>

\* The source is not created, or it is and the reply is lost: its id is unknown.
CreateSourceFails ==
    /\ Busy("source")
    /\ Mishap
    /\ \E made \in BOOLEAN :
        source' = [source EXCEPT ![load.d].status = IF made THEN "LOADING" ELSE @]
    /\ FailJob
    /\ load' = [load EXCEPT !.pc = "off"]
    /\ UNCHANGED <<stored, stream>>

\* adapter.fetch in the executor, then set_total.
Fetch ==
    /\ Busy("fetch")
    /\ LET n == NumFiles[load.d] IN
       /\ load' = [load EXCEPT !.pc = IF n = 0 THEN "complete" ELSE "upload", !.i = 1]
       /\ IF n = 0 THEN UNCHANGED <<job, reader>> ELSE SetTotal(n)
    /\ UNCHANGED <<source, stored, stream, mishaps>>

FetchFails ==
    /\ Busy("fetch")
    /\ Mishap
    /\ load' = [load EXCEPT !.pc = "fail"]
    /\ UNCHANGED <<source, stored, stream, job, reader>>

Upload ==
    /\ Busy("upload")
    /\ stored' = stored \cup {This}
    /\ load' = [load EXCEPT !.pc = "publish"]
    /\ UNCHANGED <<source, stream, job, reader, mishaps>>

\* The loop goes on with the next file, or ends.
NextFile(l) == [l EXCEPT !.pc = IF l.i = NumFiles[l.d] THEN "complete" ELSE "upload", !.i = @ + 1]

UploadFails ==
    /\ Busy("upload")
    /\ Mishap
    /\ load' = NextFile(load)
    /\ UNCHANGED <<source, stored, stream, job, reader>>

PublishFile ==
    /\ Busy("publish")
    /\ stream' = stream \cup {This}
    /\ load' = NextFile([load EXCEPT !.published = @ + 1])
    /\ FileDone
    /\ UNCHANGED <<source, stored, mishaps>>

\* Mutant of Skipped: the counter is advanced before the call.
SkippedCounted == NextFile([load EXCEPT !.published = @ + 1])

\* A file whose upload or XADD raised is left out of the count.
Skipped == NextFile(load)

\* XADD raises; the entry may have been added.
PublishFileFails ==
    /\ Busy("publish")
    /\ Mishap
    /\ \E added \in BOOLEAN : stream' = IF added THEN stream \cup {This} ELSE stream
    /\ load' = Skipped
    /\ UNCHANGED <<source, stored, job, reader>>

\* Mutant of NextDataset: the last dataset is not counted.
NextDatasetUncounted ==
    IF load.d < Len(Dataset)
    THEN [load EXCEPT !.pc = "source", !.d = @ + 1, !.total = @ + load.published]
    ELSE [load EXCEPT !.pc = "off"]

\* total_published += published
NextDataset ==
    [load EXCEPT !.pc = IF load.d < Len(Dataset) THEN "source" ELSE "off",
                 !.d = IF load.d < Len(Dataset) THEN @ + 1 ELSE @,
                 !.total = @ + load.published]

\* complete_data_source; after the last dataset, registry.finish.
Complete ==
    /\ Busy("complete")
    /\ source' = [source EXCEPT ![load.d] = [status |-> "COMPLETED", count |-> load.published]]
    /\ load' = NextDataset
    /\ IF load'.pc = "off"
       THEN FinishJob(load'.total)
       ELSE UNCHANGED <<job, reader>>
    /\ UNCHANGED <<stored, stream, mishaps>>

\* The call raises; document-service may have completed the source.
CompleteFails ==
    /\ Busy("complete")
    /\ Mishap
    /\ \E done \in BOOLEAN :
        source' = IF done THEN [source EXCEPT ![load.d] = [status |-> "COMPLETED", count |-> load.published]]
                          ELSE source
    /\ load' = [load EXCEPT !.pc = "fail"]
    /\ UNCHANGED <<stored, stream, job, reader>>

\* fail_data_source: the call fails, before or after the row is updated.
FailSource ==
    \/ source' = [source EXCEPT ![load.d].status = "FAILED"] /\ UNCHANGED mishaps
    \/ Mishap /\ \E done \in BOOLEAN :
                   source' = IF done THEN [source EXCEPT ![load.d].status = "FAILED"] ELSE source

\* A failure of fail_data_source is swallowed; then registry.fail: the datasets
\* that follow are not loaded.
Fail ==
    /\ Busy("fail")
    /\ FailSource
    /\ FailJob
    /\ load' = [load EXCEPT !.pc = "off"]
    /\ UNCHANGED <<stored, stream>>

-----------------------------------------------------------------------------
(* JobRegistry.stream *)
Set(r, v) == reader' = [reader EXCEPT ![r] = v]

\* events, pos = job.snapshot_from(pos): what is to be yielded next.
Snapshot(v) ==
    [v EXCEPT !.pc = "yield", !.left = Len(job.events) - v.pos, !.pos = Len(job.events)]

Subscribe(r) ==
    /\ reader[r].pc = "off" /\ (job.known \/ job.end # "none")
    /\ Set(r, IF Found THEN Snapshot(NoReader) ELSE [NoReader EXCEPT !.pc = "refused"])
    /\ UNCHANGED <<source, stored, stream, load, job, mishaps>>

\* An event is written to the client; the event loop runs other tasks meanwhile.
Yield(r) ==
    /\ reader[r].pc = "yield" /\ reader[r].left > 0
    /\ Set(r, [reader[r] EXCEPT !.left = @ - 1])
    /\ UNCHANGED <<source, stored, stream, load, job, mishaps>>

\* Mutant of Over: the job is done.
OverWhenDone(v) == job.end # "none"

\* "if job.done and not job._events[pos:]"
Over(v) == job.end # "none" /\ v.pos = Len(job.events)

\* After the last yield: leave, or clear the waiter and wait.  What was pushed
\* during the yields is not looked at, and its signal is cleared.
Settle(r) ==
    /\ reader[r].pc = "yield" /\ reader[r].left = 0
    /\ Set(r, [reader[r] EXCEPT !.pc = IF Over(reader[r]) THEN "ended" ELSE "wait",
                                !.signal = FALSE])
    /\ UNCHANGED <<source, stored, stream, load, job, mishaps>>

\* Mutant of Woken: no timeout.
WokenBySignal(v) == v.signal

\* The waiter is set, or 25 seconds pass and a keepalive is written.
Woken(v) == v.signal \/ v.pos < Len(job.events) \/ job.end # "none"

Wake(r) ==
    /\ reader[r].pc = "wait" /\ Woken(reader[r])
    /\ Set(r, Snapshot(reader[r]))
    /\ UNCHANGED <<source, stored, stream, load, job, mishaps>>

Disconnect(r) ==
    /\ reader[r].pc \in {"yield", "wait"}
    /\ Mishap
    /\ Set(r, NoReader)
    /\ UNCHANGED <<source, stored, stream, load, job>>

-----------------------------------------------------------------------------
\* evict_expired; a generator keeps the job it reads.
Evict ==
    /\ job.known /\ job.end # "none"
    /\ job' = [job EXCEPT !.known = FALSE]
    /\ UNCHANGED <<source, stored, stream, load, reader, mishaps>>

\* The process stops: the task, the registry and the connections are gone, and
\* a client that asks for the job finds none.  The data source stays LOADING.
Restart ==
    /\ job.known
    /\ Mishap
    /\ load' = NoLoad /\ job' = [NoJob EXCEPT !.end = "error"]
    /\ reader' = [r \in Readers |-> NoReader]
    /\ UNCHANGED <<source, stored, stream>>

Loading ==
    \/ CreateSource \/ CreateSourceFails \/ Fetch \/ FetchFails \/ Upload \/ UploadFails
    \/ PublishFile \/ PublishFileFails \/ Complete \/ CompleteFails \/ Fail
Streaming(r) == Yield(r) \/ Settle(r) \/ Wake(r)

Next ==
    \/ Start \/ Loading \/ Evict \/ Restart
    \/ \E r \in Readers : Subscribe(r) \/ Streaming(r) \/ Disconnect(r)

Spec == Init /\ [][Next]_vars

\* The task runs, clients read what is written to them, the timeout fires.
FairSpec == Spec /\ WF_vars(Loading) /\ \A r \in Readers : WF_vars(Streaming(r))

-----------------------------------------------------------------------------
PublishedOf(d) == Cardinality({f \in stream : f[1] = d})

\* "document_count reflects the number of files published": the count of a
\* completed data source never exceeds its entries in files.available, whichever
\* uploads, XADDs and replies failed.
CountIsBacked == \A d \in Datasets : source[d].count <= PublishedOf(d)

\* A job that reports "done" completed the data source of every dataset of the
\* request and registered what those sources count, across failed and skipped files.
DoneMeansLoaded ==
    job.end = "done" =>
        /\ \A d \in Datasets : source[d].status = "COMPLETED"
        /\ job.registered = MapThenSumSet(LAMBDA d : source[d].count, Datasets)

\* A progress stream that ends by itself has written every event that was kept,
\* the terminal one among them unless the replay buffer was full.
EndedSawAll ==
    \A r \in Readers : reader[r].pc = "ended" =>
        /\ reader[r].left = 0 /\ reader[r].pos = Len(job.events)
        /\ \/ Len(job.events) = MaxEventsKept
           \/ job.events[Len(job.events)] = job.end

\* A client that subscribes is told the end of the job, though the signal of an
\* event pushed while earlier ones were being written is cleared.
StreamsEnd ==
    \A r \in Readers : reader[r].pc = "yield" ~> reader[r].pc \in {"ended", "off"}
=============================================================================
