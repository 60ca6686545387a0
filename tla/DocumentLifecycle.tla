------------------------- MODULE DocumentLifecycle -------------------------
(***************************************************************************)
(* The life of a document in document-service: registration, ingestion,    *)
(* completion, deletion and the background jobs that repair what was lost.  *)
(*                                                                         *)
(* The state is spread over PostgreSQL (document rows, chunk rows, the     *)
(* deletion_tasks outbox), Qdrant (vectors), the object store (files) and   *)
(* three Redis streams.  PostgreSQL runs at READ COMMITTED and the entities *)
(* carry no version column, so a transaction is a read step followed, some  *)
(* time later, by a write step that does not look again.  Handlers, stream  *)
(* consumers and scheduled jobs are threads that interleave at those steps. *)
(***************************************************************************)
EXTENDS Naturals, Sequences, FiniteSets

CONSTANTS
    Docs,          \* document ids (content hashes) of one tenant
    Tasks,         \* ids of deletion_tasks rows, each inserted at most once
    Handlers,      \* HTTP request threads with the coroutines they launch
    None,          \* "no document", "no task"
    Requests,      \* the kinds of requests this instance receives
    MaxAttempts,   \* DeletionTaskWorker.MAX_ATTEMPTS
    MaxRequests,   \* bound: requests received from users and from data-loader
    MaxFaults,     \* bound: failures of a call, a thread or a process
    MaxReady,      \* bound: documents.ready entries told apart per document
    MaxEvents      \* bound: length of the ingestion.complete backlog

AllRequests == {"upload", "fromPath", "filesAvailable", "reprocess",
                "delete", "deleteAll"}

ASSUME NoneAssumption == None \notin Docs \cup Tasks
ASSUME RequestsAssumption == Requests \subseteq AllRequests
ASSUME BoundsAssumption == /\ MaxAttempts \in Nat \ {0}
                           /\ MaxRequests \in Nat
                           /\ MaxFaults \in Nat
                           /\ MaxReady \in Nat \ {0}
                           /\ MaxEvents \in Nat \ {0}
ASSUME ThreadsAssumption ==
    Handlers \cap {"filesAvailable", "ingestionComplete", "sweeper"} = {}

(* The fixed threads: one listener per stream subscription, and the one     *)
(* thread of Spring's scheduler (pool size 1) when it runs the sweeper.     *)
Threads == Handlers \cup {"filesAvailable", "ingestionComplete", "sweeper"}

InFlight == {"PENDING", "PROCESSING"}
Status   == InFlight \cup {"COMPLETED", "FAILED", "DELETING"}
RowState == Status \cup {"ABSENT"}

VARIABLES
    row,       \* documents table: status of each document's row
    stale,     \* updated_at of an in-flight row is older than STALE_MINUTES
    task,      \* deletion_tasks table
    chunks,    \* chunks table: the document has chunk rows
    vectors,   \* Qdrant: the document has points
    files,     \* object store: the document's key prefix holds its file
    offered,   \* files.available: an undelivered entry for the document
    ready,     \* documents.ready: entries not yet acknowledged
    complete,  \* ingestion.complete: entries not yet delivered, in order
    run,       \* ingestion-service: stage of the document's pipeline run
    tx,        \* what each thread is in the middle of
    wpc,       \* DeletionTaskWorker: program counter
    batch,     \* DeletionTaskWorker: tasks of the loaded page not yet handled
    cur,       \* DeletionTaskWorker: the task being processed
    copy,      \* DeletionTaskWorker: the detached entities of the loaded page
    requests,  \* requests received so far
    faults     \* failures so far

tables   == <<row, stale, task, chunks>>
stores   == <<vectors, files>>
streams  == <<offered, ready, complete, run>>
workers  == <<wpc, batch, cur, copy>>
history  == <<requests, faults>>
vars     == <<tables, stores, streams, tx, workers, history>>

NoTask == [doc |-> None, status |-> "FREE", qdrantDone |-> FALSE,
           objectStoreDone |-> FALSE, attempts |-> 0]

TaskStatus == {"FREE", "PENDING", "DONE", "DEAD", "CANCELLED"}
TaskRow == [doc : Docs \cup {None}, status : TaskStatus, qdrantDone : BOOLEAN,
            objectStoreDone : BOOLEAN, attempts : 0 .. MaxAttempts]

(* A thread's local state: the documents it works on, the status it read    *)
(* and, for an upload, the task rows its uncommitted UPDATE has locked.     *)
(* "scroll", "compare" and "purge" are steps of VectorReconciliation's pass *)
(* on the scheduler thread.                                                 *)
At(pc, kind, ds, seen) == [pc |-> pc, kind |-> kind, docs |-> ds, seen |-> seen,
                           locks |-> {}, dropped |-> FALSE]
Idle == At("idle", "none", {}, "ABSENT")

TxPc == {"idle", "cancel", "put", "save", "announce", "fetch", "mark",
         "publish", "markFailed", "flag", "select", "flagAll", "queueAll",
         "verdict", "scroll", "compare", "purge"}
TxKind == AllRequests \cup {"none", "sweep", "reconcile", "COMPLETED", "FAILED"}
TxState == [pc : TxPc, kind : TxKind, docs : SUBSET Docs, seen : RowState,
            locks : SUBSET Tasks, dropped : BOOLEAN]

WorkerPc == {"idle", "next", "guard", "void", "qdrant", "objectStore",
             "chunks", "row", "done", "attempt"}

TypeOK ==
    /\ row \in [Docs -> RowState]
    /\ stale \in [Docs -> BOOLEAN]
    /\ task \in [Tasks -> TaskRow]
    /\ chunks \in [Docs -> BOOLEAN]
    /\ vectors \in [Docs -> BOOLEAN]
    /\ files \in [Docs -> BOOLEAN]
    /\ offered \in [Docs -> BOOLEAN]
    /\ ready \in [Docs -> 0 .. MaxReady]
    /\ complete \in Seq(Docs \X {"COMPLETED", "FAILED"})
    /\ run \in [Docs -> {"idle", "index", "persist", "report"}]
    /\ tx \in [Threads -> TxState]
    /\ wpc \in WorkerPc
    /\ batch \in SUBSET Tasks
    /\ cur \in Tasks \cup {None}
    /\ copy \in [Tasks -> TaskRow]
    /\ requests \in 0 .. MaxRequests
    /\ faults \in 0 .. MaxFaults

Init ==
    /\ row = [d \in Docs |-> "ABSENT"]
    /\ stale = [d \in Docs |-> FALSE]
    /\ task = [t \in Tasks |-> NoTask]
    /\ chunks = [d \in Docs |-> FALSE]
    /\ vectors = [d \in Docs |-> FALSE]
    /\ files = [d \in Docs |-> FALSE]
    /\ offered = [d \in Docs |-> FALSE]
    /\ ready = [d \in Docs |-> 0]
    /\ complete = <<>>
    /\ run = [d \in Docs |-> "idle"]
    /\ tx = [h \in Threads |-> Idle]
    /\ wpc = "idle" /\ batch = {} /\ cur = None
    /\ copy = [t \in Tasks |-> NoTask]
    /\ requests = 0 /\ faults = 0

-----------------------------------------------------------------------------
(* Helpers: what a repository call does to the tables.                      *)

Request(k) == k \in Requests /\ requests < MaxRequests /\ requests' = requests + 1
Fault == faults < MaxFaults /\ faults' = faults + 1

(* Mutant of QueuedFor: the cancelling UPDATE forgets its status filter.     *)
QueuedOrEnded(d) == {t \in Tasks : task[t].doc = d}

QueuedFor(d) == {t \in Tasks : task[t].doc = d /\ task[t].status = "PENDING"}

Locked(t) == \E h \in Threads : t \in tx[h].locks

Finish(h) == tx' = [tx EXCEPT ![h] = Idle]
Step(h, pc) == tx' = [tx EXCEPT ![h].pc = pc]

(* JpaRepository.save writes every column: the status is overwritten        *)
(* whatever it has become, and @PreUpdate refreshes updated_at.             *)
SetRow(d, s) == row' = [row EXCEPT ![d] = s] /\ stale' = [stale EXCEPT ![d] = FALSE]

(* save() of an entity loaded before the save's own transaction merges: an  *)
(* equal row is not dirty and keeps its updated_at, a missing row is        *)
(* inserted again.                                                          *)
Merge(d, s) == IF row[d] = s THEN UNCHANGED <<row, stale>> ELSE SetRow(d, s)

PublishReady(d) ==
    ready' = [ready EXCEPT ![d] = IF @ < MaxReady THEN @ + 1 ELSE @]

-----------------------------------------------------------------------------
(* Registration: uploadDocument and registerFromPath.                       *)

(* data-loader has PUT the file and published files.available (or is about  *)
(* to call /from-path).                                                     *)
DataLoaderPut(d) ==
    /\ ~offered[d]
    /\ \E k \in {"fromPath", "filesAvailable"} : Request(k)
    /\ files' = [files EXCEPT ![d] = TRUE]
    /\ offered' = [offered EXCEPT ![d] = TRUE]
    /\ UNCHANGED <<tables, vectors, ready, complete, run, tx, workers, faults>>

(* The request reaches its thread: uploads spend a request of the budget,   *)
(* the other two take the entry data-loader left.                           *)
Arrives(h, k, d) ==
    \/ /\ k = "upload" /\ h \in Handlers
       /\ Request(k) /\ UNCHANGED offered
    \/ /\ k \in Requests /\ offered[d]
       /\ \/ k = "fromPath" /\ h \in Handlers
          \/ k = "filesAvailable" /\ h = "filesAvailable"
       /\ offered' = [offered EXCEPT ![d] = FALSE]
       /\ UNCHANGED requests

(* The dedup SELECT finds a live row and the request returns it.            *)
DedupHit(h, k, d) ==
    /\ tx[h] = Idle
    /\ row[d] \in InFlight \cup {"COMPLETED"}
    /\ Arrives(h, k, d)
    /\ UNCHANGED <<tables, stores, ready, complete, run, tx, workers, faults>>

(* Otherwise the registration goes on: a DELETING row first has its queued  *)
(* deletion voided, an upload then PUTs the file.                           *)
Admit(h, k, d) ==
    /\ tx[h] = Idle
    /\ row[d] \in {"ABSENT", "FAILED", "DELETING"}
    /\ Arrives(h, k, d)
    /\ LET pc == IF row[d] = "DELETING" THEN "cancel"
                 ELSE IF k = "upload" THEN "put" ELSE "save"
       IN tx' = [tx EXCEPT ![h] = At(pc, k, {d}, row[d])]
    /\ UNCHANGED <<tables, stores, ready, complete, run, workers, faults>>

(* Mutant of CancelQueuedDeletion: the UPDATE commits on its own.            *)
CancelAtOnce(h, d) ==
    /\ tx[h].pc = "cancel" /\ tx[h].docs = {d}
    /\ task' = [t \in Tasks |-> IF t \in QueuedFor(d)
                                THEN [task[t] EXCEPT !.status = "CANCELLED"]
                                ELSE task[t]]
    /\ Step(h, IF tx[h].kind = "upload" THEN "put" ELSE "save")
    /\ UNCHANGED <<row, stale, chunks, stores, streams, workers, history>>

(* cancelPendingForDocument: an UPDATE inside the registration's            *)
(* transaction.  It waits for rows another transaction has locked and then  *)
(* holds its own until commit; others still read PENDING meanwhile.         *)
CancelQueuedDeletion(h, d) ==
    /\ tx[h].pc = "cancel" /\ tx[h].docs = {d}
    /\ \A t \in QueuedFor(d) : ~Locked(t)
    /\ LET pc == IF tx[h].kind = "upload" THEN "put" ELSE "save"
       IN tx' = [tx EXCEPT ![h] = [@ EXCEPT !.pc = pc, !.locks = QueuedFor(d)]]
    /\ UNCHANGED <<tables, stores, streams, workers, history>>

(* StorageService.storeFile: the PUT happens inside the open transaction.   *)
StoreFile(h, d) ==
    /\ tx[h].pc = "put" /\ tx[h].docs = {d}
    /\ files' = [files EXCEPT ![d] = TRUE]
    /\ Step(h, "save")
    /\ UNCHANGED <<tables, vectors, streams, workers, history>>

(* The PENDING row and the voided tasks commit together.  The HTTP paths    *)
(* then run processDocument in the background; FilesAvailableConsumer       *)
(* publishes documents.ready itself.                                        *)
SaveRow(h, d) ==
    /\ tx[h].pc = "save" /\ tx[h].docs = {d}
    /\ row[d] # "ABSENT" \/ tx[h].seen = "ABSENT"
    /\ SetRow(d, "PENDING")
    /\ task' = [t \in Tasks |-> IF t \in tx[h].locks
                                THEN [task[t] EXCEPT !.status = "CANCELLED"]
                                ELSE task[t]]
    /\ LET pc == IF tx[h].kind = "filesAvailable" THEN "announce" ELSE "fetch"
       IN tx' = [tx EXCEPT ![h] = [@ EXCEPT !.pc = pc, !.locks = {}]]
    /\ UNCHANGED <<chunks, stores, streams, workers, requests, faults>>

(* The flush misses its row (purged since the read) or, read as absent,     *)
(* collides with one inserted since: the transaction rolls back.            *)
SaveRowFails(h, d) ==
    /\ tx[h].pc = "save" /\ tx[h].docs = {d}
    /\ (row[d] = "ABSENT") # (tx[h].seen = "ABSENT")
    /\ Finish(h)
    /\ UNCHANGED <<tables, stores, streams, workers, history>>

Announce(h, d) ==
    /\ tx[h].pc = "announce" /\ tx[h].docs = {d}
    /\ PublishReady(d)
    /\ Finish(h)
    /\ UNCHANGED <<tables, stores, offered, complete, run, workers, history>>

-----------------------------------------------------------------------------
(* processDocument: fetch, mark PROCESSING, publish documents.ready.  The   *)
(* calls are self-invocations, so each repository call is a transaction of  *)
(* its own.                                                                 *)

Reprocess(h, d) ==
    /\ tx[h] = Idle /\ h \in Handlers
    /\ row[d] # "ABSENT"
    /\ Request("reprocess")
    /\ tx' = [tx EXCEPT ![h] = At("mark", "reprocess", {d}, row[d])]
    /\ UNCHANGED <<tables, stores, streams, workers, faults>>

FetchForIngestion(h, d) ==
    /\ tx[h].pc = "fetch" /\ tx[h].docs = {d}
    /\ IF row[d] = "ABSENT" THEN Finish(h) ELSE Step(h, "mark")
    /\ UNCHANGED <<tables, stores, streams, workers, history>>

(* A row purged since the fetch is either missed by the re-read (nothing is *)
(* written) or inserted again by the merge.                                 *)
MarkProcessing(h, d) ==
    /\ tx[h].pc = "mark" /\ tx[h].docs = {d}
    /\ \/ Merge(d, "PROCESSING")
       \/ row[d] = "ABSENT" /\ UNCHANGED <<row, stale>>
    /\ Step(h, "publish")
    /\ UNCHANGED <<task, chunks, stores, streams, workers, history>>

Publish(h, d) ==
    /\ tx[h].pc = "publish" /\ tx[h].docs = {d}
    /\ PublishReady(d)
    /\ Finish(h)
    /\ UNCHANGED <<tables, stores, offered, complete, run, workers, history>>

PublishFails(h, d) ==
    /\ tx[h].pc = "publish" /\ tx[h].docs = {d}
    /\ Fault
    /\ Step(h, "markFailed")
    /\ UNCHANGED <<tables, stores, streams, workers, requests>>

MarkFailed(h, d) ==
    /\ tx[h].pc = "markFailed" /\ tx[h].docs = {d}
    /\ \/ SetRow(d, "FAILED")
       \/ row[d] = "ABSENT" /\ UNCHANGED <<row, stale>>
    /\ Finish(h)
    /\ UNCHANGED <<task, chunks, stores, streams, workers, history>>

-----------------------------------------------------------------------------
(* Deletion requests: markForDeletion and deleteAllDocuments.               *)

(* The row is DELETING already: answered without touching anything.         *)
DeleteAgain(h, d) ==
    /\ tx[h] = Idle /\ h \in Handlers
    /\ row[d] = "DELETING"
    /\ Request("delete")
    /\ UNCHANGED <<tables, stores, streams, tx, workers, faults>>

Delete(h, d) ==
    /\ tx[h] = Idle /\ h \in Handlers
    /\ row[d] \notin {"ABSENT", "DELETING"}
    /\ Request("delete")
    /\ tx' = [tx EXCEPT ![h] = At("flag", "delete", {d}, row[d])]
    /\ UNCHANGED <<tables, stores, streams, workers, faults>>

(* The outbox: one task per document; after a dropped collection it starts  *)
(* with qdrantDone.                                                         *)
NewTasks(h, f) ==
    [t \in Tasks |-> IF \E d \in tx[h].docs : f[d] = t
                     THEN [doc |-> CHOOSE d \in tx[h].docs : f[d] = t,
                           status |-> "PENDING", qdrantDone |-> tx[h].dropped,
                           objectStoreDone |-> FALSE, attempts |-> 0]
                     ELSE task[t]]

InsertTasks(h) ==
    \E f \in [tx[h].docs -> {t \in Tasks : task[t].status = "FREE"}] :
       /\ \A d, e \in tx[h].docs : f[d] = f[e] => d = e
       /\ task' = NewTasks(h, f)

FlagRows(h) ==
    /\ row' = [d \in Docs |-> IF d \in tx[h].docs THEN "DELETING" ELSE row[d]]
    /\ stale' = [d \in Docs |-> d \notin tx[h].docs /\ stale[d]]

(* markForDeletion is called through the transactional proxy: the status    *)
(* DELETING and the outbox task commit together.                            *)
Flag(h) ==
    /\ tx[h].pc = "flag"
    /\ \A d \in tx[h].docs : row[d] # "ABSENT"
    /\ FlagRows(h) /\ InsertTasks(h)
    /\ Finish(h)
    /\ UNCHANGED <<chunks, stores, streams, workers, requests, faults>>

FlagFails(h) ==
    /\ tx[h].pc = "flag"
    /\ \E d \in tx[h].docs : row[d] = "ABSENT"
    /\ Finish(h)
    /\ UNCHANGED <<tables, stores, streams, workers, history>>

(* The whole collection goes first, outside any transaction.  The call may  *)
(* fail before or after the collection went, and the endpoint also answers  *)
(* "deleted" when Qdrant refused.                                           *)
DropCollection(h) ==
    /\ tx[h] = Idle /\ h \in Handlers
    /\ Request("deleteAll")
    /\ \E gone, answered \in BOOLEAN :
          /\ vectors' = [d \in Docs |-> vectors[d] /\ ~gone]
          /\ tx' = [tx EXCEPT ![h] = [At("select", "deleteAll", {}, "ABSENT")
                                         EXCEPT !.dropped = answered]]
          /\ IF gone /\ answered THEN UNCHANGED faults ELSE Fault
    /\ UNCHANGED <<tables, files, streams, workers>>

(* deleteAllDocuments calls markAllDocumentsForDeletion on itself, past the *)
(* proxy: the page of rows, the saved rows and the saved tasks are three    *)
(* transactions.                                                            *)
SelectAll(h) ==
    /\ tx[h].pc = "select"
    /\ LET live == {d \in Docs : row[d] \notin {"ABSENT", "DELETING"}}
       IN tx' = [tx EXCEPT ![h] = IF live = {} THEN Idle
                                  ELSE [@ EXCEPT !.pc = "flagAll", !.docs = live]]
    /\ UNCHANGED <<tables, stores, streams, workers, requests, faults>>

(* A row purged since it was read is inserted again.                        *)
FlagAll(h) ==
    /\ tx[h].pc = "flagAll"
    /\ FlagRows(h)
    /\ Step(h, "queueAll")
    /\ UNCHANGED <<task, chunks, stores, streams, workers, requests, faults>>

QueueAll(h) ==
    /\ tx[h].pc = "queueAll"
    /\ InsertTasks(h)
    /\ Finish(h)
    /\ UNCHANGED <<row, stale, chunks, stores, streams, workers, history>>

-----------------------------------------------------------------------------
(* IngestionCompleteConsumer: the terminal status of a run.                 *)

(* The entry is delivered once; the row is read and, when missing, the      *)
(* event is dropped.                                                        *)
EventRead(h) ==
    /\ h = "ingestionComplete" /\ tx[h] = Idle
    /\ complete # <<>>
    /\ LET d == complete[1][1]
           s == complete[1][2]
       IN tx' = [tx EXCEPT ![h] = IF row[d] = "ABSENT" THEN Idle
                                                ELSE At("verdict", s, {d}, row[d])]
    /\ complete' = Tail(complete)
    /\ UNCHANGED <<tables, stores, offered, ready, run, workers, history>>

(* markDocumentCompleted / markDocumentFailed write without looking at the  *)
(* status.  An entity that already had it is written only if chunk count or *)
(* error message differ.                                                    *)
Verdict(h, d) ==
    /\ tx[h].pc = "verdict" /\ tx[h].docs = {d}
    /\ row[d] # "ABSENT"
    /\ \/ SetRow(d, tx[h].kind)
       \/ tx[h].seen = tx[h].kind /\ UNCHANGED <<row, stale>>
    /\ Finish(h)
    /\ UNCHANGED <<task, chunks, stores, streams, workers, history>>

(* The row was purged since the read: the exception leaves the entry        *)
(* unacknowledged, and nothing reads it again.                              *)
VerdictFails(h, d) ==
    /\ tx[h].pc = "verdict" /\ tx[h].docs = {d}
    /\ row[d] = "ABSENT"
    /\ Finish(h)
    /\ UNCHANGED <<tables, stores, streams, workers, history>>

-----------------------------------------------------------------------------
(* PendingDocumentSweeper: a stale in-flight document is processed again.   *)
(* It shares the scheduler thread with the deletion worker.                 *)

Age(d) ==
    /\ row[d] \in InFlight /\ ~stale[d]
    /\ stale' = [stale EXCEPT ![d] = TRUE]
    /\ UNCHANGED <<row, task, chunks, stores, streams, tx, workers, history>>

(* Mutant of Sweep: only PENDING documents are looked for.                   *)
SweepPending(h, d) ==
    /\ h = "sweeper" /\ tx[h] = Idle /\ wpc = "idle"
    /\ row[d] = "PENDING" /\ stale[d]
    /\ tx' = [tx EXCEPT ![h] = At("fetch", "sweep", {d}, row[d])]
    /\ UNCHANGED <<tables, stores, streams, workers, history>>

Sweep(h, d) ==
    /\ h = "sweeper" /\ tx[h] = Idle /\ wpc = "idle"
    /\ row[d] \in InFlight /\ stale[d]
    /\ tx' = [tx EXCEPT ![h] = At("fetch", "sweep", {d}, row[d])]
    /\ UNCHANGED <<tables, stores, streams, workers, history>>

-----------------------------------------------------------------------------
(* DeletionTaskWorker.                                                      *)

(* Mutant of Poll: a task that was attempted is never due again.             *)
PollFresh(B) ==
    /\ wpc = "idle" /\ tx["sweeper"] = Idle
    /\ B # {}
    /\ B = {t \in Tasks : task[t].status = "PENDING" /\ task[t].attempts = 0}
    /\ batch' = B
    /\ copy' = [t \in Tasks |-> IF t \in B THEN task[t] ELSE NoTask]
    /\ wpc' = "next"
    /\ UNCHANGED <<tables, stores, streams, tx, cur, history>>

(* process(): the page of PENDING tasks is loaded once; a task never        *)
(* attempted is always due, another when its back-off has run out.  The     *)
(* entities stay detached: copy is what later saves write back.             *)
Poll(B) ==
    /\ wpc = "idle" /\ tx["sweeper"] = Idle
    /\ B # {}
    /\ \A t \in B : task[t].status = "PENDING"
    /\ \A t \in Tasks : task[t].status = "PENDING" /\ task[t].attempts = 0 => t \in B
    /\ batch' = B
    /\ copy' = [t \in Tasks |-> IF t \in B THEN task[t] ELSE NoTask]
    /\ wpc' = "next"
    /\ UNCHANGED <<tables, stores, streams, tx, cur, history>>

(* processTask re-reads the task and skips it unless it is still PENDING.   *)
TakeTask(t) ==
    /\ wpc = "next" /\ t \in batch
    /\ batch' = batch \ {t}
    /\ IF task[t].status = "PENDING"
       THEN wpc' = "guard" /\ cur' = t /\ UNCHANGED copy
       ELSE /\ wpc' = IF batch' = {} THEN "idle" ELSE "next"
            /\ copy' = [copy EXCEPT ![t] = NoTask]
            /\ UNCHANGED cur
    /\ UNCHANGED <<tables, stores, streams, tx, history>>

(* A row that is not DELETING was resurrected: the task is to be cancelled. *)
Resurrected(d) == row[d] \notin {"ABSENT", "DELETING"}

Guard ==
    /\ wpc = "guard"
    /\ IF Resurrected(copy[cur].doc)
       THEN /\ wpc' = "void"
            /\ copy' = [copy EXCEPT ![cur].status = "CANCELLED"]
       ELSE wpc' = "qdrant" /\ UNCHANGED copy
    /\ UNCHANGED <<tables, stores, streams, tx, batch, cur, history>>

(* DELETE /vectors/{tenant}/{doc} answers false when the call fails, which  *)
(* it may do after the points are gone.                                     *)
DeleteVectors ==
    /\ wpc = "qdrant"
    /\ wpc' = "objectStore"
    /\ \/ copy[cur].qdrantDone /\ UNCHANGED <<vectors, copy, faults>>
       \/ /\ ~copy[cur].qdrantDone
          /\ vectors' = [vectors EXCEPT ![copy[cur].doc] = FALSE]
          /\ copy' = [copy EXCEPT ![cur].qdrantDone = TRUE]
          /\ UNCHANGED faults
       \/ /\ ~copy[cur].qdrantDone
          /\ Fault
          /\ \/ UNCHANGED vectors
             \/ vectors' = [vectors EXCEPT ![copy[cur].doc] = FALSE]
          /\ UNCHANGED copy
    /\ UNCHANGED <<tables, files, streams, tx, batch, cur, requests>>

(* StorageService.deleteDocumentFiles, then the decision: purge the rows    *)
(* when both stores confirmed, record a failed attempt otherwise.           *)
DeleteFiles ==
    /\ wpc = "objectStore"
    /\ \/ copy[cur].objectStoreDone /\ UNCHANGED <<files, copy, faults>>
       \/ /\ ~copy[cur].objectStoreDone
          /\ files' = [files EXCEPT ![copy[cur].doc] = FALSE]
          /\ copy' = [copy EXCEPT ![cur].objectStoreDone = TRUE]
          /\ UNCHANGED faults
       \/ ~copy[cur].objectStoreDone /\ Fault /\ UNCHANGED <<files, copy>>
    /\ wpc' = IF copy'[cur].qdrantDone /\ copy'[cur].objectStoreDone
              THEN "chunks" ELSE "attempt"
    /\ UNCHANGED <<tables, vectors, streams, tx, batch, cur, requests>>

PurgeChunks ==
    /\ wpc = "chunks"
    /\ chunks' = [chunks EXCEPT ![copy[cur].doc] = FALSE]
    /\ wpc' = "row"
    /\ UNCHANGED <<row, stale, task, stores, streams, tx, batch, cur, copy, history>>

(* The row goes whatever its status is now, and takes with it the chunk     *)
(* rows that arrived since (ON DELETE CASCADE).                             *)
PurgeRow ==
    /\ wpc = "row"
    /\ row' = [row EXCEPT ![copy[cur].doc] = "ABSENT"]
    /\ stale' = [stale EXCEPT ![copy[cur].doc] = FALSE]
    /\ chunks' = [chunks EXCEPT ![copy[cur].doc] = FALSE]
    /\ copy' = [copy EXCEPT ![cur].status = "DONE"]
    /\ wpc' = "done"
    /\ UNCHANGED <<task, stores, streams, tx, batch, cur, history>>

NextTask == /\ wpc' = IF batch = {} THEN "idle" ELSE "next"
            /\ cur' = None
            /\ copy' = [copy EXCEPT ![cur] = NoTask]

(* save(task) with CANCELLED or DONE: all columns of the detached entity    *)
(* overwrite the row, once no other transaction has it locked.              *)
SaveTask ==
    /\ wpc \in {"void", "done"} /\ ~Locked(cur)
    /\ task' = [task EXCEPT ![cur] = copy[cur]]
    /\ NextTask
    /\ UNCHANGED <<row, stale, chunks, stores, streams, tx, batch, history>>

(* Mutant of Attempted: a task given up is closed like a finished one.       *)
AttemptedOrClosed(c) == [c EXCEPT !.attempts = @ + 1,
                                  !.status = IF c.attempts + 1 >= MaxAttempts
                                             THEN "DONE" ELSE @]

Attempted(c) == [c EXCEPT !.attempts = @ + 1,
                          !.status = IF c.attempts + 1 >= MaxAttempts
                                     THEN "DEAD" ELSE @]

RecordAttempt ==
    /\ wpc = "attempt" /\ ~Locked(cur)
    /\ task' = [task EXCEPT ![cur] = Attempted(copy[cur])]
    /\ NextTask
    /\ UNCHANGED <<row, stale, chunks, stores, streams, tx, batch, history>>

(* Any other exception inside processTask counts as an attempt; one raised  *)
(* by recordAttempt's own save leaves process() and drops the batch (the    *)
(* second try the catch block may give that save is left out).              *)
WorkerFails ==
    /\ Fault
    /\ \/ wpc \notin {"idle", "next", "attempt"} /\ wpc' = "attempt"
          /\ UNCHANGED <<batch, cur, copy>>
       \/ wpc = "attempt" /\ wpc' = "idle" /\ batch' = {} /\ cur' = None
          /\ copy' = [t \in Tasks |-> NoTask]
    /\ UNCHANGED <<tables, stores, streams, tx, requests>>

-----------------------------------------------------------------------------
(* ingestion-service, as document-service sees it.                          *)

Report(d, s) == /\ Len(complete) < MaxEvents
                /\ complete' = Append(complete, <<d, s>>)

Ack(d) == ready' = [ready EXCEPT ![d] = @ - 1]

SetRun(d, s) == run' = [run EXCEPT ![d] = s]

(* Mutant of IngestTake: the entry is acknowledged when the run starts.      *)
IngestTakeAcking(d) ==
    /\ run[d] = "idle" /\ ready[d] > 0
    /\ Ack(d)
    /\ \/ files[d] /\ SetRun(d, "index") /\ UNCHANGED complete
       \/ ~files[d] /\ Report(d, "FAILED") /\ UNCHANGED run
    /\ UNCHANGED <<tables, stores, offered, tx, workers, history>>

(* The object is fetched; a missing object is terminal.                     *)
IngestTake(d) ==
    /\ run[d] = "idle" /\ ready[d] > 0
    /\ \/ files[d] /\ SetRun(d, "index") /\ UNCHANGED <<ready, complete>>
       \/ ~files[d] /\ Report(d, "FAILED") /\ Ack(d) /\ UNCHANGED run
    /\ UNCHANGED <<tables, stores, offered, tx, workers, history>>

(* Mutant of IngestIndex: completion is reported before the chunks are kept. *)
IngestIndexOnly(d) ==
    /\ run[d] = "index"
    /\ vectors' = [vectors EXCEPT ![d] = TRUE]
    /\ SetRun(d, "report")
    /\ UNCHANGED <<tables, files, offered, ready, complete, tx, workers, history>>

(* Qdrant is written before the chunks are posted to document-service;      *)
(* every document is taken to yield at least one chunk.                     *)
IngestIndex(d) ==
    /\ run[d] = "index"
    /\ vectors' = [vectors EXCEPT ![d] = TRUE]
    /\ SetRun(d, "persist")
    /\ UNCHANGED <<tables, files, offered, ready, complete, tx, workers, history>>

IngestPersist(d) ==
    /\ run[d] = "persist" /\ row[d] # "ABSENT"
    /\ chunks' = [chunks EXCEPT ![d] = TRUE]
    /\ SetRun(d, "report")
    /\ UNCHANGED <<row, stale, task, stores, offered, ready, complete, tx, workers, history>>

(* Without a row the POST answers 404; after the last delivery the entry is *)
(* acknowledged with a FAILED event.                                        *)
IngestRejected(d) ==
    /\ run[d] = "persist" /\ row[d] = "ABSENT"
    /\ Report(d, "FAILED") /\ Ack(d) /\ SetRun(d, "idle")
    /\ UNCHANGED <<tables, stores, offered, tx, workers, history>>

IngestReport(d) ==
    /\ run[d] = "report"
    /\ Report(d, "COMPLETED") /\ Ack(d) /\ SetRun(d, "idle")
    /\ UNCHANGED <<tables, stores, offered, tx, workers, history>>

(* A failed run reports FAILED and is delivered again, or not when that was *)
(* its last delivery; a crash of the process reports nothing.               *)
IngestFails(d) ==
    /\ run[d] # "idle" /\ Fault
    /\ SetRun(d, "idle")
    /\ \/ Report(d, "FAILED") /\ (Ack(d) \/ UNCHANGED ready)
       \/ UNCHANGED <<ready, complete>>
    /\ UNCHANGED <<tables, stores, offered, tx, workers, requests>>

-----------------------------------------------------------------------------
(* Failures.                                                                *)

(* A call inside a handler throws: its transaction rolls back, nothing that *)
(* follows happens.  For the two stream consumers the entry is lost too.    *)
HandlerFails(h) ==
    /\ tx[h].pc \notin {"idle", "publish"}
    /\ Fault
    /\ Finish(h)
    /\ UNCHANGED <<tables, stores, streams, workers, requests>>

(* document-service stops and starts again.                                 *)
Crash ==
    /\ \/ \E h \in Threads : tx[h] # Idle
       \/ wpc # "idle"
    /\ Fault
    /\ tx' = [h \in Threads |-> Idle]
    /\ wpc' = "idle" /\ batch' = {} /\ cur' = None
    /\ copy' = [t \in Tasks |-> NoTask]
    /\ UNCHANGED <<tables, stores, streams, requests>>

-----------------------------------------------------------------------------
(* The requests of the outside world.                                       *)
Receive(h, d) ==
    \/ \E k \in {"upload", "fromPath", "filesAvailable"} :
          DedupHit(h, k, d) \/ Admit(h, k, d)
    \/ Reprocess(h, d)
    \/ DeleteAgain(h, d) \/ Delete(h, d)

(* What a thread does once it has started.                                  *)
Continue(h, d) ==
    \/ CancelQueuedDeletion(h, d) \/ StoreFile(h, d)
    \/ SaveRow(h, d) \/ SaveRowFails(h, d) \/ Announce(h, d)
    \/ FetchForIngestion(h, d) \/ MarkProcessing(h, d) \/ Publish(h, d)
    \/ MarkFailed(h, d)
    \/ Verdict(h, d) \/ VerdictFails(h, d)

Advance(h) == \/ \E d \in Docs : Continue(h, d)
              \/ Flag(h) \/ FlagFails(h)
              \/ SelectAll(h) \/ FlagAll(h) \/ QueueAll(h)

Worker ==
    \/ \E t \in Tasks : TakeTask(t)
    \/ Guard \/ DeleteVectors \/ DeleteFiles \/ PurgeChunks \/ PurgeRow
    \/ SaveTask \/ RecordAttempt

Ingest(d) == IngestTake(d) \/ IngestIndex(d) \/ IngestPersist(d)
             \/ IngestRejected(d) \/ IngestReport(d)

Fail == \/ \E h \in Threads : HandlerFails(h) \/ (\E d \in Docs : PublishFails(h, d))
        \/ WorkerFails
        \/ \E d \in Docs : IngestFails(d)

Operate ==
    \/ \E d \in Docs : DataLoaderPut(d) \/ Age(d) \/ Ingest(d)
    \/ \E h \in Threads, d \in Docs : Receive(h, d) \/ Sweep(h, d)
    \/ \E h \in Threads : DropCollection(h) \/ Advance(h) \/ EventRead(h)
    \/ \E B \in SUBSET Tasks : Poll(B)
    \/ Worker
    \/ Fail

Next == Operate \/ Crash

Spec == Init /\ [][Next]_vars

(* Threads run, the scheduler fires, time passes and both consumers poll;   *)
(* requests and failures are never owed.                                    *)
Fairness ==
    /\ \A h \in Threads : WF_vars(Advance(h)) /\ WF_vars(EventRead(h))
    /\ \A d \in Docs : WF_vars(Age(d)) /\ WF_vars(Ingest(d))
    /\ SF_vars(\E d \in Docs : Sweep("sweeper", d))
    /\ WF_vars(Worker)
    /\ \A t \in Tasks : SF_vars(\E B \in SUBSET Tasks : t \in B /\ Poll(B))

FairSpec == Spec /\ Fairness
-----------------------------------------------------------------------------
(* Properties.                                                              *)

Queued(d) == \E t \in Tasks : task[t].doc = d /\ task[t].status \in {"PENDING", "DEAD"}
BeingQueued(d) == \E h \in Threads : tx[h].pc = "queueAll" /\ d \in tx[h].docs

(* A DELETING row is never orphaned: whatever uploads, events, retries and  *)
(* stale saves interleave, some task of the outbox still owns the deletion  *)
(* or has been given up as DEAD, or a thread is about to insert one         *)
(* (markForDeletion, cancelPendingForDocument and the worker's saves        *)
(* together).                                                               *)
DeletingHasTask == \A d \in Docs : row[d] = "DELETING" => Queued(d) \/ BeingQueued(d)

(* A task that ended (DONE or DEAD) is never written again, by a stale copy *)
(* of the worker or by a registration that voids queued deletions.          *)
SettledStays ==
    [][\A t \in Tasks : task[t].status \in {"DONE", "DEAD"} => task'[t] = task[t]]_vars

(* A COMPLETED document that nobody asked to delete has its file, its       *)
(* vectors and its chunks, whatever redelivered, duplicated or failed runs  *)
(* came before the event.                                                   *)
NeverDeleted(d) ==
    /\ \A t \in Tasks : task[t].doc # d
    /\ \A h \in Handlers : tx[h].kind # "deleteAll"

CompletedIsIndexed ==
    \A d \in Docs : row[d] = "COMPLETED" /\ NeverDeleted(d) => files[d] /\ vectors[d] /\ chunks[d]

(* Every accepted document reaches a terminal status, though the process    *)
(* may stop between the commit and the publish and the completion event may *)
(* be lost: the sweeper publishes again.                                    *)
InFlightSettles == \A d \in Docs : row[d] \in InFlight ~> row[d] \notin InFlight

(* A deletion that was queued comes to an end: the row goes or is           *)
(* resurrected, or the task is DEAD and left to an operator.                *)
DeletionCompletes ==
    \A d \in Docs : row[d] = "DELETING" /\ Queued(d) ~>
        \/ row[d] # "DELETING"
        \/ \E t \in Tasks : task[t].doc = d /\ task[t].status = "DEAD"
=============================================================================
