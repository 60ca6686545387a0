----------------------- MODULE DocumentLifecycle_proofs -----------------------
(***************************************************************************)
(* Safety of DocumentLifecycle and of VectorReconciliation, its composition *)
(* with the daily pass, for every set of documents, tasks and threads and   *)
(* every bound: type correctness, no orphaned DELETING row unless a         *)
(* deleteAll may be cut short, no write to a task that has ended, and a     *)
(* COMPLETED document is stored, also when the pass removes points.         *)
(***************************************************************************)
EXTENDS VectorReconciliation, TLAPS

-----------------------------------------------------------------------------
(* The inductive invariant.                                                 *)

(* A pipeline run owns an unacknowledged entry.                             *)
RunHasEntry == \A d \in Docs : run[d] # "idle" => ready[d] > 0

(* A verdict carries a terminal status; only a registration between its     *)
(* cancelling UPDATE and its commit holds row locks; the steps of deleteAll *)
(* are taken only where such requests arrive.                               *)
TxShape == \A h \in Threads :
    /\ tx[h].pc = "verdict" => tx[h].kind \in {"COMPLETED", "FAILED"}
    /\ tx[h].locks # {} => tx[h].pc \in {"put", "save"}
    /\ tx[h].pc \in {"select", "flagAll", "queueAll"} => "deleteAll" \in Requests

(* A locked row is a PENDING task of the document being registered, and two *)
(* transactions never hold the same row.                                    *)
LocksHeld ==
    /\ \A h \in Threads : \A t \in tx[h].locks :
          task[t].status = "PENDING" /\ tx[h].docs = {task[t].doc}
    /\ \A g, h \in Threads : tx[g].locks \cap tx[h].locks # {} => g = h

AttemptsLeft ==
    \A t \in Tasks : task[t].status = "PENDING" => task[t].attempts < MaxAttempts

(* What the worker holds in memory still matches the row it will overwrite: *)
(* same document, and the row has not ended since.                          *)
Held == {t \in Tasks : t \in batch \/ t = cur}

WorkerShape ==
    /\ cur = None <=> wpc \in {"idle", "next"}
    /\ cur \notin batch
    /\ \A t \in Held : /\ task[t].status \in {"PENDING", "CANCELLED"}
                       /\ copy[t].doc = task[t].doc
                       /\ copy[t].attempts < MaxAttempts
    /\ \A t \in batch : copy[t].status = "PENDING"
    /\ \A t \in Tasks : t = cur => copy[t].status \in {"PENDING", "CANCELLED", "DONE"}

(* A task of the outbox still owns the deletion of the document.            *)
Owns(t, d) == task[t].doc = d /\ task[t].status \in {"PENDING", "DEAD"}

(* Once the worker has decided to close its task, a row that is DELETING    *)
(* (again) is owned by another task, or soon: the save cannot orphan it.    *)
Superseded == \A t \in Tasks, d \in Docs :
    t = cur /\ copy[t].status # "PENDING" /\ copy[t].doc = d /\ row[d] = "DELETING"
      => BeingQueued(d) \/ \E u \in Tasks \ {t} : Owns(u, d)

(* No deleteAll stops between the transaction that marks the rows and the   *)
(* one that inserts their tasks: nothing fails, or none is received.        *)
SoundDeletes == MaxFaults = 0 \/ "deleteAll" \notin Requests

IInv ==
    /\ TypeOK
    /\ RunHasEntry
    /\ TxShape
    /\ LocksHeld
    /\ AttemptsLeft
    /\ WorkerShape
    /\ SoundDeletes => DeletingHasTask /\ Superseded

-----------------------------------------------------------------------------

(* The program starts with empty tables and idle threads.                   *)
LEMMA InitInv == Init => IInv
  BY NoneAssumption, BoundsAssumption
  DEF Init, IInv, TypeOK, RunHasEntry, TxShape, LocksHeld, AttemptsLeft, WorkerShape,
      Held, DeletingHasTask, Superseded, Queued, BeingQueued, RowState, Status, InFlight, TaskRow,
      TaskStatus, NoTask, TxState, TxPc, TxKind, Idle, At, WorkerPc, AllRequests

-----------------------------------------------------------------------------
(* Lemmas on the operators the actions are built from.                      *)

(* What a thread remembers is well formed, whichever step it starts with.   *)
LEMMA AtType ==
    ASSUME NEW pc \in TxPc, NEW kind \in TxKind, NEW ds \in SUBSET Docs,
           NEW seen \in RowState
    PROVE  At(pc, kind, ds, seen) \in TxState
  BY DEF At, TxState

LEMMA IdleType == Idle \in TxState
  BY AtType DEF Idle, TxPc, TxKind, RowState

LEMMA NoTaskType == NoTask \in TaskRow
  BY BoundsAssumption DEF NoTask, TaskRow, TaskStatus

LEMMA MoveType ==
    ASSUME NEW r \in TxState, NEW p \in TxPc, NEW L \in SUBSET Tasks
    PROVE  [r EXCEPT !.pc = p, !.locks = L] \in TxState
  BY DEF TxState

LEMMA MoveFields ==
    ASSUME NEW r \in TxState, NEW p \in TxPc, NEW L \in SUBSET Tasks
    PROVE  LET s == [r EXCEPT !.pc = p, !.locks = L]
           IN s.pc = p /\ s.locks = L /\ s.docs = r.docs /\ s.kind = r.kind
  BY DEF TxState

LEMMA AimType ==
    ASSUME NEW r \in TxState, NEW p \in TxPc, NEW ds \in SUBSET Docs
    PROVE  [r EXCEPT !.pc = p, !.docs = ds] \in TxState
  BY DEF TxState

(* A thread that finishes, or goes on to another point, stays in its type.  *)
LEMMA FinishType ==
    ASSUME tx \in [Threads -> TxState], NEW h \in Threads, Finish(h)
    PROVE  tx' \in [Threads -> TxState]
  BY IdleType DEF Finish

LEMMA StepType ==
    ASSUME tx \in [Threads -> TxState], NEW h \in Threads, NEW p \in TxPc, Step(h, p)
    PROVE  tx' \in [Threads -> TxState]
  BY DEF Step, TxState

(* Writing a row keeps the tables of rows and ages in their types.          *)
LEMMA SetRowType ==
    ASSUME row \in [Docs -> RowState], stale \in [Docs -> BOOLEAN],
           NEW d \in Docs, NEW s \in RowState, SetRow(d, s)
    PROVE  row' \in [Docs -> RowState] /\ stale' \in [Docs -> BOOLEAN]
  BY DEF SetRow

LEMMA MergeType ==
    ASSUME row \in [Docs -> RowState], stale \in [Docs -> BOOLEAN],
           NEW d \in Docs, NEW s \in RowState, Merge(d, s)
    PROVE  row' \in [Docs -> RowState] /\ stale' \in [Docs -> BOOLEAN]
  BY DEF Merge, SetRow

LEMMA StatusType ==
    ASSUME NEW c \in TaskRow, NEW s \in TaskStatus
    PROVE  [c EXCEPT !.status = s] \in TaskRow
  BY DEF TaskRow

(* The outbox after an insertion: old tasks stay, each document of the      *)
(* thread has a new one.                                                    *)
LEMMA InsertTasksType ==
    ASSUME task \in [Tasks -> TaskRow], tx \in [Threads -> TxState],
           NEW h \in Threads, InsertTasks(h)
    PROVE  task' \in [Tasks -> TaskRow]
  <1>1. tx[h].docs \in SUBSET Docs /\ tx[h].dropped \in BOOLEAN
    BY DEF TxState
  <1>2. PICK f \in [tx[h].docs -> {t \in Tasks : task[t].status = "FREE"}] :
           task' = NewTasks(h, f)
    BY DEF InsertTasks
  <1>3. ASSUME NEW t \in Tasks, NEW e \in tx[h].docs, f[e] = t
        PROVE  (CHOOSE c \in tx[h].docs : f[c] = t) \in Docs
    BY <1>1, <1>3
  <1>4. ASSUME NEW e \in Docs
        PROVE  [doc |-> e, status |-> "PENDING", qdrantDone |-> tx[h].dropped,
                objectStoreDone |-> FALSE, attempts |-> 0] \in TaskRow
    BY <1>1, BoundsAssumption DEF TaskRow, TaskStatus
  <1>5. \A t \in Tasks : NewTasks(h, f)[t] \in TaskRow
    BY <1>3, <1>4 DEF NewTasks
  <1> QED
    BY <1>2, <1>5 DEF NewTasks

LEMMA InsertTasksFields ==
    ASSUME NEW h \in Threads, InsertTasks(h)
    PROVE  /\ \A t \in Tasks :
              task'[t] = task[t] \/ (task[t].status = "FREE" /\ task'[t].attempts = 0)
           /\ \A d \in tx[h].docs : \E u \in Tasks :
                 task[u].status = "FREE" /\ task'[u].doc = d /\ task'[u].status = "PENDING"
  <1>1. PICK f \in [tx[h].docs -> {t \in Tasks : task[t].status = "FREE"}] :
           /\ \A d, e \in tx[h].docs : f[d] = f[e] => d = e
           /\ task' = NewTasks(h, f)
    BY DEF InsertTasks
  <1>2. ASSUME NEW d \in tx[h].docs
        PROVE  /\ f[d] \in Tasks /\ task[f[d]].status = "FREE"
               /\ task'[f[d]].doc = d /\ task'[f[d]].status = "PENDING"
    <2>1. f[d] \in Tasks /\ task[f[d]].status = "FREE"
      BY <1>1
    <2>2. (CHOOSE e \in tx[h].docs : f[e] = f[d]) = d
      BY <1>1
    <2> QED
      BY <1>1, <2>1, <2>2 DEF NewTasks
  <1>3. ASSUME NEW t \in Tasks
        PROVE  task'[t] = task[t] \/ (task[t].status = "FREE" /\ task'[t].attempts = 0)
    <2>1. CASE \E d \in tx[h].docs : f[d] = t
      <3>1. task[t].status = "FREE"
        BY <1>2, <2>1
      <3>2. task'[t].attempts = 0
        BY <1>1, <2>1 DEF NewTasks
      <3> QED
        BY <3>1, <3>2
    <2>2. CASE ~\E d \in tx[h].docs : f[d] = t
      BY <1>1, <2>2 DEF NewTasks
    <2> QED
      BY <2>1, <2>2
  <1> QED
    BY <1>2, <1>3

LEMMA FlagRowsType ==
    ASSUME row \in [Docs -> RowState], stale \in [Docs -> BOOLEAN],
           NEW h \in Threads, FlagRows(h)
    PROVE  /\ row' \in [Docs -> RowState] /\ stale' \in [Docs -> BOOLEAN]
  BY DEF FlagRows, RowState, Status

(* What a request, a failure, a report and an acknowledgement count.        *)
LEMMA FaultType ==
    ASSUME faults \in 0 .. MaxFaults, Fault PROVE faults' \in 0 .. MaxFaults
  BY BoundsAssumption DEF Fault

LEMMA RequestType ==
    ASSUME requests \in 0 .. MaxRequests, NEW k, Request(k)
    PROVE  requests' \in 0 .. MaxRequests
  BY BoundsAssumption DEF Request

LEMMA ArrivesType ==
    ASSUME requests \in 0 .. MaxRequests, offered \in [Docs -> BOOLEAN],
           NEW h, NEW k, NEW d, Arrives(h, k, d)
    PROVE  requests' \in 0 .. MaxRequests /\ offered' \in [Docs -> BOOLEAN]
  <1>1. CASE Request(k) /\ UNCHANGED offered
    BY <1>1, RequestType
  <1>2. CASE UNCHANGED requests /\ offered' = [offered EXCEPT ![d] = FALSE]
    BY <1>2
  <1> QED
    BY <1>1, <1>2 DEF Arrives

LEMMA ReportType ==
    ASSUME complete \in Seq(Docs \X {"COMPLETED", "FAILED"}), NEW d \in Docs,
           NEW s \in {"COMPLETED", "FAILED"}, Report(d, s)
    PROVE  complete' \in Seq(Docs \X {"COMPLETED", "FAILED"})
  <1>1. <<d, s>> \in Docs \X {"COMPLETED", "FAILED"}
    OBVIOUS
  <1> QED
    BY <1>1 DEF Report

LEMMA AckType ==
    ASSUME ready \in [Docs -> 0 .. MaxReady], NEW d \in Docs, ready[d] > 0, Ack(d)
    PROVE  ready' \in [Docs -> 0 .. MaxReady]
  BY BoundsAssumption DEF Ack

(* One more attempt keeps a task's document, and either leaves attempts to  *)
(* spend or makes it DEAD.                                                  *)
LEMMA AttemptedType ==
    ASSUME NEW c \in TaskRow, c.attempts < MaxAttempts
    PROVE  Attempted(c) \in TaskRow
  <1> DEFINE s == IF c.attempts + 1 >= MaxAttempts THEN "DEAD" ELSE c.status
             n == c.attempts + 1
  <1>1. n \in 0 .. MaxAttempts
    BY BoundsAssumption DEF TaskRow
  <1>2. s \in TaskStatus
    BY DEF TaskRow, TaskStatus
  <1>3. Attempted(c) = [c EXCEPT !.attempts = n, !.status = s]
    BY DEF Attempted
  <1> HIDE DEF s, n
  <1> QED
    BY <1>1, <1>2, <1>3 DEF TaskRow

LEMMA AttemptedFields ==
    ASSUME NEW c \in TaskRow, c.attempts < MaxAttempts
    PROVE  /\ Attempted(c).doc = c.doc
           /\ Attempted(c).status \in {"DEAD", c.status}
           /\ Attempted(c).status # "DEAD" => Attempted(c).attempts < MaxAttempts
  BY BoundsAssumption DEF TaskRow, TaskStatus, Attempted

-----------------------------------------------------------------------------
(* The daily pass: only its own thread and the vectors change.              *)

PassPc == {"idle", "scroll", "compare", "purge"}

LEMMA PassStep ==
    ASSUME tx \in [Threads -> TxState], vectors \in [Docs -> BOOLEAN], Discover \/ Reconcile
    PROVE  /\ UNCHANGED <<tables, files, streams, workers, history>>
           /\ tx["sweeper"].pc \in PassPc /\ "sweeper" \in Threads
           /\ vectors' \in [Docs -> BOOLEAN]
           /\ \E pc \in PassPc, kind \in {"none", "reconcile"}, ds \in SUBSET Docs :
                 tx' = [tx EXCEPT !["sweeper"] = At(pc, kind, ds, "ABSENT")]
  <1> DEFINE Ends == tx' = [tx EXCEPT !["sweeper"] = At("idle", "none", {}, "ABSENT")]
             Goes(pc, ds) == tx' = [tx EXCEPT !["sweeper"] = At(pc, "reconcile", ds, "ABSENT")]
  <1>1. "sweeper" \in Threads /\ tx["sweeper"].docs \subseteq Docs
    BY DEF Threads, TxState
  <1>2. tx["sweeper"].pc \in PassPc
    <2>1. ASSUME Discover PROVE tx["sweeper"].pc = "idle"
      BY <2>1 DEF Discover, Pass, Idle, At
    <2>2. ASSUME Reconcile PROVE tx["sweeper"].pc \in {"scroll", "compare", "purge"}
      BY <2>2 DEF Reconcile, Scroll, Compare, DeleteOrphans, Pass
    <2> QED
      BY <2>1, <2>2 DEF PassPc
  <1>3. UNCHANGED <<tables, files, streams, workers, history>>
    BY DEF Discover, Reconcile, Scroll, Compare, DeleteOrphans, Continues
  <1>4. vectors' \in [Docs -> BOOLEAN]
    BY DEF Discover, Reconcile, Scroll, Compare, DeleteOrphans
  <1>5. Ends \/ \E pc \in PassPc, ds \in SUBSET Docs : Goes(pc, ds)
    <2>1. CASE Discover
      BY <2>1 DEF Discover, Continues, PassPc
    <2>2. CASE Scroll
      BY <2>2 DEF Scroll, Continues, PassPc, Idle
    <2>3. CASE Compare
      <3>1. Orphans(Pass.docs) \subseteq Docs
        BY <1>1 DEF Orphans, Pass
      <3> QED
        BY <2>3, <3>1 DEF Compare, Continues, PassPc, Idle
    <2>4. CASE DeleteOrphans
      BY <2>4 DEF DeleteOrphans, Continues, Idle
    <2> QED
      BY <2>1, <2>2, <2>3, <2>4 DEF Reconcile
  <1> QED
    BY <1>1, <1>2, <1>3, <1>4, <1>5 DEF PassPc

-----------------------------------------------------------------------------
(* Type correctness of each step.                                           *)

(* Every action keeps the variables in their types, given what the rest of  *)
(* the invariant says of counters that are decremented or bounded.          *)
LEMMA TypeStep == IInv /\ [RNext]_vars => TypeOK' /\ RunHasEntry'
  <1> SUFFICES ASSUME IInv, [RNext]_vars PROVE TypeOK' /\ RunHasEntry'
    OBVIOUS
  <1> DEFINE Kept == TypeOK' /\ RunHasEntry'
  <1>0. TypeOK /\ RunHasEntry /\ TxShape /\ WorkerShape
    BY DEF IInv
  <1>b. /\ MaxAttempts \in Nat /\ MaxRequests \in Nat /\ MaxFaults \in Nat
        /\ MaxReady \in Nat /\ MaxEvents \in Nat
    BY BoundsAssumption
  <1>i. cur # None => cur \in Tasks /\ copy[cur] \in TaskRow /\ copy[cur].attempts < MaxAttempts
    BY <1>0 DEF TypeOK, WorkerShape, Held
  <1> USE <1>0, <1>b DEF Kept, TypeOK, RunHasEntry, tables, stores, streams, workers, history
  <1>1. ASSUME NEW d \in Docs, DataLoaderPut(d) PROVE Kept
    BY <1>1 DEF DataLoaderPut, Request
  <1>2. ASSUME NEW h \in Threads, NEW d \in Docs, NEW k \in AllRequests, DedupHit(h, k, d) PROVE Kept
    <2>1. requests' \in 0 .. MaxRequests /\ offered' \in [Docs -> BOOLEAN]
      BY <1>2, ArrivesType DEF DedupHit
    <2> QED
      BY <1>2, <2>1 DEF DedupHit
  <1>3. ASSUME NEW h \in Threads, NEW d \in Docs, NEW k \in AllRequests, Admit(h, k, d) PROVE Kept
    <2>1. tx' \in [Threads -> TxState]
      BY <1>3, AtType DEF Admit, TxPc, TxKind
    <2>2. requests' \in 0 .. MaxRequests /\ offered' \in [Docs -> BOOLEAN]
      BY <1>3, ArrivesType DEF Admit
    <2> QED
      BY <1>3, <2>1, <2>2 DEF Admit
  <1>4. ASSUME NEW h \in Threads, NEW d \in Docs, CancelQueuedDeletion(h, d) PROVE Kept
    <2>1. tx' \in [Threads -> TxState]
      BY <1>4, MoveType DEF CancelQueuedDeletion, QueuedFor, TxPc
    <2> QED
      BY <1>4, <2>1 DEF CancelQueuedDeletion
  <1>5. ASSUME NEW h \in Threads, NEW d \in Docs, StoreFile(h, d) PROVE Kept
    <2>1. tx' \in [Threads -> TxState]
      BY <1>5, StepType DEF StoreFile, TxPc
    <2> QED
      BY <1>5, <2>1 DEF StoreFile
  <1>6. ASSUME NEW h \in Threads, NEW d \in Docs, SaveRow(h, d) PROVE Kept
    <2>1. tx' \in [Threads -> TxState]
      BY <1>6, MoveType DEF SaveRow, TxPc
    <2>2. task' \in [Tasks -> TaskRow]
      <3>1. \A t \in Tasks : [task[t] EXCEPT !.status = "CANCELLED"] \in TaskRow
        BY StatusType DEF TaskStatus
      <3> QED
        BY <1>6, <3>1 DEF SaveRow
    <2>3. row' \in [Docs -> RowState] /\ stale' \in [Docs -> BOOLEAN]
      BY <1>6, SetRowType DEF SaveRow, RowState, Status, InFlight
    <2> QED
      BY <1>6, <2>1, <2>2, <2>3 DEF SaveRow
  <1>7. ASSUME NEW h \in Threads, NEW d \in Docs, SaveRowFails(h, d) PROVE Kept
    <2>1. tx' \in [Threads -> TxState]
      BY <1>7, FinishType DEF SaveRowFails
    <2> QED
      BY <1>7, <2>1 DEF SaveRowFails
  <1>8. ASSUME NEW h \in Threads, NEW d \in Docs, Announce(h, d) PROVE Kept
    <2>1. tx' \in [Threads -> TxState]
      BY <1>8, FinishType DEF Announce
    <2> QED
      BY <1>8, <2>1 DEF Announce, PublishReady
  <1>9. ASSUME NEW h \in Threads, NEW d \in Docs, Reprocess(h, d) PROVE Kept
    <2>1. tx' \in [Threads -> TxState]
      BY <1>9, AtType DEF Reprocess, TxPc, TxKind, AllRequests
    <2> QED
      BY <1>9, <2>1 DEF Reprocess, Request
  <1>10. ASSUME NEW h \in Threads, NEW d \in Docs, FetchForIngestion(h, d) PROVE Kept
    <2>1. tx' \in [Threads -> TxState]
      BY <1>10, FinishType, StepType DEF FetchForIngestion, TxPc
    <2> QED
      BY <1>10, <2>1 DEF FetchForIngestion
  <1>11. ASSUME NEW h \in Threads, NEW d \in Docs, MarkProcessing(h, d) PROVE Kept
    <2>1. tx' \in [Threads -> TxState]
      BY <1>11, StepType DEF MarkProcessing, TxPc
    <2>2. row' \in [Docs -> RowState] /\ stale' \in [Docs -> BOOLEAN]
      BY <1>11, MergeType DEF MarkProcessing, RowState, Status, InFlight
    <2> QED
      BY <1>11, <2>1, <2>2 DEF MarkProcessing
  <1>12. ASSUME NEW h \in Threads, NEW d \in Docs, Publish(h, d) PROVE Kept
    <2>1. tx' \in [Threads -> TxState]
      BY <1>12, FinishType DEF Publish
    <2> QED
      BY <1>12, <2>1 DEF Publish, PublishReady
  <1>13. ASSUME NEW h \in Threads, NEW d \in Docs, PublishFails(h, d) PROVE Kept
    <2>1. tx' \in [Threads -> TxState]
      BY <1>13, StepType DEF PublishFails, TxPc
    <2> QED
      BY <1>13, <2>1 DEF PublishFails, Fault
  <1>14. ASSUME NEW h \in Threads, NEW d \in Docs, MarkFailed(h, d) PROVE Kept
    <2>1. tx' \in [Threads -> TxState]
      BY <1>14, FinishType DEF MarkFailed
    <2>2. row' \in [Docs -> RowState] /\ stale' \in [Docs -> BOOLEAN]
      BY <1>14, SetRowType DEF MarkFailed, RowState, Status
    <2> QED
      BY <1>14, <2>1, <2>2 DEF MarkFailed
  <1>15. ASSUME NEW h \in Threads, NEW d \in Docs, DeleteAgain(h, d) PROVE Kept
    BY <1>15 DEF DeleteAgain, Request
  <1>16. ASSUME NEW h \in Threads, NEW d \in Docs, Delete(h, d) PROVE Kept
    <2>1. tx' \in [Threads -> TxState]
      BY <1>16, AtType DEF Delete, TxPc, TxKind, AllRequests
    <2> QED
      BY <1>16, <2>1 DEF Delete, Request
  <1>17. ASSUME NEW h \in Threads, DropCollection(h) PROVE Kept
    <2> DEFINE a == At("select", "deleteAll", {}, "ABSENT")
    <2>1. a \in TxState
      BY AtType DEF TxPc, TxKind, AllRequests, RowState
    <2>2. \A b \in BOOLEAN : [a EXCEPT !.dropped = b] \in TxState
      BY <2>1 DEF TxState
    <2>3. tx' \in [Threads -> TxState]
      BY <1>17, <2>2 DEF DropCollection
    <2>4. faults' \in 0 .. MaxFaults
      BY <1>17, FaultType DEF DropCollection
    <2>5. vectors' \in [Docs -> BOOLEAN]
      BY <1>17 DEF DropCollection
    <2> QED
      BY <1>17, <2>3, <2>4, <2>5 DEF DropCollection, Request
  <1>18. ASSUME NEW h \in Threads, SelectAll(h) PROVE Kept
    <2> DEFINE live == {d \in Docs : row[d] \notin {"ABSENT", "DELETING"}}
    <2>1. [tx[h] EXCEPT !.pc = "flagAll", !.docs = live] \in TxState
      BY AimType DEF TxPc
    <2>2. tx' \in [Threads -> TxState]
      BY <1>18, <2>1, IdleType DEF SelectAll
    <2> QED
      BY <1>18, <2>2 DEF SelectAll
  <1>19. ASSUME NEW h \in Threads, Flag(h) PROVE Kept
    <2>1. tx' \in [Threads -> TxState] /\ task' \in [Tasks -> TaskRow]
      BY <1>19, FinishType, InsertTasksType DEF Flag
    <2>2. /\ row' \in [Docs -> RowState] /\ stale' \in [Docs -> BOOLEAN]
      BY <1>19, FlagRowsType DEF Flag
    <2> QED
      BY <1>19, <2>1, <2>2 DEF Flag
  <1>45. ASSUME NEW h \in Threads, FlagAll(h) PROVE Kept
    <2>1. tx' \in [Threads -> TxState]
      BY <1>45, StepType DEF FlagAll, TxPc
    <2>2. /\ row' \in [Docs -> RowState] /\ stale' \in [Docs -> BOOLEAN]
      BY <1>45, FlagRowsType DEF FlagAll
    <2> QED
      BY <1>45, <2>1, <2>2 DEF FlagAll
  <1>46. ASSUME NEW h \in Threads, QueueAll(h) PROVE Kept
    <2>1. tx' \in [Threads -> TxState] /\ task' \in [Tasks -> TaskRow]
      BY <1>46, FinishType, InsertTasksType DEF QueueAll
    <2> QED
      BY <1>46, <2>1 DEF QueueAll
  <1>20. ASSUME NEW h \in Threads, FlagFails(h) PROVE Kept
    <2>1. tx' \in [Threads -> TxState]
      BY <1>20, FinishType DEF FlagFails
    <2> QED
      BY <1>20, <2>1 DEF FlagFails
  <1>21. ASSUME NEW h \in Threads, EventRead(h) PROVE Kept
    <2>1. complete[1] \in Docs \X {"COMPLETED", "FAILED"}
      BY <1>21 DEF EventRead
    <2>2. complete[1][1] \in Docs /\ complete[1][2] \in TxKind
      BY <2>1 DEF TxKind
    <2>3. tx' \in [Threads -> TxState]
      BY <1>21, <2>2, IdleType, AtType DEF EventRead, TxPc
    <2>4. complete' \in Seq(Docs \X {"COMPLETED", "FAILED"})
      BY <1>21 DEF EventRead
    <2> QED
      BY <1>21, <2>3, <2>4 DEF EventRead
  <1>22. ASSUME NEW h \in Threads, NEW d \in Docs, Verdict(h, d) PROVE Kept
    <2>1. tx' \in [Threads -> TxState]
      BY <1>22, FinishType DEF Verdict
    <2>2. tx[h].kind \in RowState
      BY <1>22 DEF Verdict, TxShape, RowState, Status
    <2>3. row' \in [Docs -> RowState] /\ stale' \in [Docs -> BOOLEAN]
      BY <1>22, <2>2, SetRowType DEF Verdict
    <2> QED
      BY <1>22, <2>1, <2>3 DEF Verdict
  <1>23. ASSUME NEW h \in Threads, NEW d \in Docs, VerdictFails(h, d) PROVE Kept
    <2>1. tx' \in [Threads -> TxState]
      BY <1>23, FinishType DEF VerdictFails
    <2> QED
      BY <1>23, <2>1 DEF VerdictFails
  <1>24. ASSUME NEW d \in Docs, Age(d) PROVE Kept
    BY <1>24 DEF Age
  <1>25. ASSUME NEW h \in Threads, NEW d \in Docs, Sweep(h, d) PROVE Kept
    <2>1. tx' \in [Threads -> TxState]
      BY <1>25, AtType DEF Sweep, TxPc, TxKind
    <2> QED
      BY <1>25, <2>1 DEF Sweep
  <1>26. ASSUME NEW B \in SUBSET Tasks, Poll(B) PROVE Kept
    <2>1. copy' \in [Tasks -> TaskRow]
      BY <1>26, NoTaskType DEF Poll
    <2> QED
      BY <1>26, <2>1 DEF Poll, WorkerPc
  <1>27. ASSUME NEW t \in Tasks, TakeTask(t) PROVE Kept
    <2>1. copy' \in [Tasks -> TaskRow]
      BY <1>27, NoTaskType DEF TakeTask
    <2> QED
      BY <1>27, <2>1 DEF TakeTask, WorkerPc
  <1>28. CASE Guard
    <2>0. cur # None
      BY <1>28 DEF Guard, WorkerShape
    <2>1. copy' \in [Tasks -> TaskRow]
      <3>1. [copy[cur] EXCEPT !.status = "CANCELLED"] \in TaskRow
        BY <2>0, <1>i DEF TaskRow, TaskStatus
      <3> QED
        BY <1>28, <2>0, <1>i, <3>1 DEF Guard
    <2> QED
      BY <1>28, <2>1 DEF Guard, WorkerPc
  <1>29. CASE DeleteVectors
    <2>0. cur # None
      BY <1>29 DEF DeleteVectors, WorkerShape
    <2>1. copy' \in [Tasks -> TaskRow]
      <3>1. [copy[cur] EXCEPT !.qdrantDone = TRUE] \in TaskRow
        BY <2>0, <1>i DEF TaskRow, TaskStatus
      <3> QED
        BY <1>29, <2>0, <1>i, <3>1 DEF DeleteVectors
    <2>2. faults' \in 0 .. MaxFaults
      BY <1>29, FaultType DEF DeleteVectors
    <2>3. vectors' \in [Docs -> BOOLEAN]
      BY <1>29 DEF DeleteVectors
    <2> QED
      BY <1>29, <2>1, <2>2, <2>3 DEF DeleteVectors, WorkerPc
  <1>30. CASE DeleteFiles
    <2>0. cur # None
      BY <1>30 DEF DeleteFiles, WorkerShape
    <2>1. copy' \in [Tasks -> TaskRow]
      <3>1. [copy[cur] EXCEPT !.objectStoreDone = TRUE] \in TaskRow
        BY <2>0, <1>i DEF TaskRow, TaskStatus
      <3> QED
        BY <1>30, <2>0, <1>i, <3>1 DEF DeleteFiles
    <2>2. faults' \in 0 .. MaxFaults
      BY <1>30, FaultType DEF DeleteFiles
    <2>4. files' \in [Docs -> BOOLEAN]
      BY <1>30 DEF DeleteFiles
    <2>3. wpc' \in WorkerPc
      BY <1>30 DEF DeleteFiles, WorkerPc
    <2> QED
      BY <1>30, <2>1, <2>2, <2>3, <2>4 DEF DeleteFiles
  <1>31. CASE PurgeChunks
    BY <1>31 DEF PurgeChunks, WorkerPc
  <1>32. CASE PurgeRow
    <2>0. cur # None
      BY <1>32 DEF PurgeRow, WorkerShape
    <2>1. copy' \in [Tasks -> TaskRow]
      <3>1. [copy[cur] EXCEPT !.status = "DONE"] \in TaskRow
        BY <2>0, <1>i DEF TaskRow, TaskStatus
      <3> QED
        BY <1>32, <2>0, <1>i, <3>1 DEF PurgeRow
    <2>2. row' \in [Docs -> RowState]
      BY <1>32 DEF PurgeRow, RowState
    <2> QED
      BY <1>32, <2>1, <2>2 DEF PurgeRow, WorkerPc
  <1>33. CASE SaveTask
    <2>1. cur # None
      BY <1>33 DEF SaveTask, WorkerShape
    <2> QED
      BY <1>33, <2>1, <1>i, NoTaskType DEF SaveTask, NextTask, WorkerPc
  <1>34. CASE RecordAttempt
    <2>1. cur # None
      BY <1>34 DEF RecordAttempt, WorkerShape
    <2>2. Attempted(copy[cur]) \in TaskRow
      BY <2>1, <1>i, AttemptedType
    <2> QED
      BY <1>34, <2>1, <2>2, <1>i, NoTaskType DEF RecordAttempt, NextTask, WorkerPc
  <1>35. CASE WorkerFails
    <2>1. copy' \in [Tasks -> TaskRow]
      BY <1>35, NoTaskType DEF WorkerFails
    <2> QED
      BY <1>35, <2>1 DEF WorkerFails, Fault, WorkerPc
  <1>36. ASSUME NEW d \in Docs, IngestTake(d) PROVE Kept
    <2>1. complete' \in Seq(Docs \X {"COMPLETED", "FAILED"})
      BY <1>36, ReportType DEF IngestTake
    <2>2. ready' \in [Docs -> 0 .. MaxReady]
      BY <1>36, AckType DEF IngestTake
    <2>3. run' \in [Docs -> {"idle", "index", "persist", "report"}]
      BY <1>36 DEF IngestTake, SetRun
    <2>4. RunHasEntry'
      BY <1>36 DEF IngestTake, Ack, SetRun
    <2> QED
      BY <1>36, <2>1, <2>2, <2>3, <2>4 DEF IngestTake
  <1>37. ASSUME NEW d \in Docs, IngestIndex(d) PROVE Kept
    BY <1>37 DEF IngestIndex, SetRun
  <1>38. ASSUME NEW d \in Docs, IngestPersist(d) PROVE Kept
    BY <1>38 DEF IngestPersist, SetRun
  <1>39. ASSUME NEW d \in Docs, IngestRejected(d) PROVE Kept
    <2>1. complete' \in Seq(Docs \X {"COMPLETED", "FAILED"})
      BY <1>39, ReportType DEF IngestRejected
    <2>2. ready' \in [Docs -> 0 .. MaxReady]
      BY <1>39, AckType DEF IngestRejected
    <2>3. run' \in [Docs -> {"idle", "index", "persist", "report"}]
      BY <1>39 DEF IngestRejected, SetRun
    <2>4. RunHasEntry'
      BY <1>39 DEF IngestRejected, Ack, SetRun
    <2> QED
      BY <1>39, <2>1, <2>2, <2>3, <2>4 DEF IngestRejected
  <1>40. ASSUME NEW d \in Docs, IngestReport(d) PROVE Kept
    <2>1. complete' \in Seq(Docs \X {"COMPLETED", "FAILED"})
      BY <1>40, ReportType DEF IngestReport
    <2>2. ready' \in [Docs -> 0 .. MaxReady]
      BY <1>40, AckType DEF IngestReport
    <2>3. run' \in [Docs -> {"idle", "index", "persist", "report"}]
      BY <1>40 DEF IngestReport, SetRun
    <2>4. RunHasEntry'
      BY <1>40 DEF IngestReport, Ack, SetRun
    <2> QED
      BY <1>40, <2>1, <2>2, <2>3, <2>4 DEF IngestReport
  <1>41. ASSUME NEW d \in Docs, IngestFails(d) PROVE Kept
    <2>1. complete' \in Seq(Docs \X {"COMPLETED", "FAILED"})
      BY <1>41, ReportType DEF IngestFails
    <2>2. ready' \in [Docs -> 0 .. MaxReady]
      BY <1>41, AckType DEF IngestFails
    <2>3. run' \in [Docs -> {"idle", "index", "persist", "report"}]
      BY <1>41 DEF IngestFails, SetRun
    <2>4. RunHasEntry'
      BY <1>41 DEF IngestFails, Ack, SetRun
    <2> QED
      BY <1>41, <2>1, <2>2, <2>3, <2>4, FaultType DEF IngestFails
  <1>42. ASSUME NEW h \in Threads, HandlerFails(h) PROVE Kept
    <2>1. tx' \in [Threads -> TxState]
      BY <1>42, FinishType DEF HandlerFails
    <2> QED
      BY <1>42, <2>1 DEF HandlerFails, Fault
  <1>43. CASE Crash
    BY <1>43, IdleType, NoTaskType DEF Crash, Fault, WorkerPc
  <1>47. CASE Discover \/ Reconcile
    <2>1. PICK pc \in PassPc, kind \in {"none", "reconcile"}, ds \in SUBSET Docs :
             tx' = [tx EXCEPT !["sweeper"] = At(pc, kind, ds, "ABSENT")]
      BY <1>47, PassStep
    <2>2. At(pc, kind, ds, "ABSENT") \in TxState
      BY AtType DEF PassPc, TxPc, TxKind, RowState
    <2>3. tx' \in [Threads -> TxState]
      BY <2>1, <2>2
    <2> QED
      BY <1>47, <2>3, PassStep
  <1>44. CASE UNCHANGED vars
    BY <1>44 DEF vars
  <1> QED
    BY <1>1, <1>2, <1>3, <1>4, <1>5, <1>6, <1>7, <1>8, <1>9, <1>10, <1>11, <1>12, <1>13, <1>14, <1>15, <1>16, <1>17, <1>18, <1>19, <1>20, <1>21, <1>22, <1>23, <1>24, <1>25, <1>26, <1>27, <1>28, <1>29, <1>30, <1>31, <1>32, <1>33, <1>34, <1>35, <1>36, <1>37, <1>38, <1>39, <1>40, <1>41, <1>42, <1>43, <1>44, <1>45, <1>46, <1>47
    DEF RNext, Next, Operate, Receive, Continue, Advance, Worker, Ingest, Fail, AllRequests
-----------------------------------------------------------------------------
(* The steps, by what they do to the outbox, its locks and the worker.      *)

NoneMarked == \A d \in Docs : row'[d] = "DELETING" => row[d] = "DELETING"

(* Nothing the outbox invariants speak of changes.                          *)
Quiet == UNCHANGED <<row, task, tx, workers>>

(* Thread h moves on, keeps or drops its locks and touches no task.         *)
Moves(h) ==
    /\ UNCHANGED <<task, workers>>
    /\ NoneMarked
    /\ \A g \in Threads \ {h} : tx'[g] = tx[g]
    /\ tx'[h].pc = "verdict" => tx'[h].kind \in {"COMPLETED", "FAILED"}
    /\ tx'[h].pc \in {"select", "flagAll", "queueAll"} => "deleteAll" \in Requests
    /\ SoundDeletes => tx[h].pc # "queueAll"
    /\ \/ tx'[h].locks = {}
       \/ tx'[h].locks = tx[h].locks /\ tx'[h].docs = tx[h].docs /\ tx'[h].pc = "save"

(* Thread h inserts its documents' tasks, after marking the rows or with    *)
(* them.                                                                    *)
Inserts(h) ==
    /\ InsertTasks(h)
    /\ Finish(h)
    /\ tx[h].pc \in {"flag", "queueAll"}
    /\ UNCHANGED workers
    /\ \A d \in Docs : row'[d] = "DELETING" => row[d] = "DELETING" \/ d \in tx[h].docs

(* The worker goes on with its task: only what it remembers of it changes,  *)
(* and its status only when the row is not DELETING.                        *)
Works ==
    /\ UNCHANGED <<task, tx, batch, cur>>
    /\ NoneMarked
    /\ cur # None /\ wpc' \notin {"idle", "next"}
    /\ \A t \in Tasks : copy'[t].doc = copy[t].doc /\ copy'[t].attempts = copy[t].attempts
    /\ \A t \in Tasks : t # cur => copy'[t].status = copy[t].status
    /\ copy'[cur].status \in {"PENDING", "CANCELLED", "DONE"}
    /\ \/ copy'[cur].status = copy[cur].status
       \/ \A d \in Docs : copy[cur].doc = d => row'[d] # "DELETING"

(* The worker forgets everything, alone or with every other thread.         *)
Forgets ==
    /\ UNCHANGED <<row, task>>
    /\ wpc' = "idle" /\ batch' = {} /\ cur' = None
    /\ \/ tx' = tx
       \/ /\ tx' = [h \in Threads |-> Idle]
          /\ SoundDeletes => \A h \in Threads : tx[h].pc # "queueAll"

(* The worker writes its task back, finished or with one more attempt.      *)
Saves ==
    /\ cur \in Tasks /\ ~Locked(cur)
    /\ \E c \in TaskRow :
          /\ task' = [task EXCEPT ![cur] = c]
          /\ c.doc = copy[cur].doc
          /\ c.status \in {"DEAD", copy[cur].status}
          /\ c.status # "DEAD" => c.attempts < MaxAttempts
    /\ NextTask
    /\ UNCHANGED <<row, tx, batch>>

LEMMA FinishMoves ==
    ASSUME tx \in [Threads -> TxState], NEW h \in Threads,
           Finish(h), SoundDeletes => tx[h].pc # "queueAll",
           NoneMarked, UNCHANGED <<task, workers>>
    PROVE  Moves(h)
  BY DEF Moves, Finish, Idle, At

LEMMA StepMoves ==
    ASSUME tx \in [Threads -> TxState], NEW h \in Threads, NEW p \in TxPc, Step(h, p),
           p \notin {"verdict", "select", "flagAll", "queueAll"},
           p = "save" \/ tx[h].locks = {}, tx[h].pc # "queueAll",
           NoneMarked, UNCHANGED <<task, workers>>
    PROVE  Moves(h)
  <1>1. /\ tx'[h] = [tx[h] EXCEPT !.pc = p]
        /\ \A g \in Threads \ {h} : tx'[g] = tx[g]
    BY DEF Step
  <1>2. tx'[h].pc = p /\ tx'[h].locks = tx[h].locks /\ tx'[h].docs = tx[h].docs
    BY <1>1 DEF TxState
  <1> QED
    BY <1>1, <1>2 DEF Moves

LEMMA AtMoves ==
    ASSUME tx \in [Threads -> TxState], NEW h \in Threads,
           NEW pc, NEW kind, NEW ds, NEW seen,
           tx' = [tx EXCEPT ![h] = At(pc, kind, ds, seen)],
           pc = "verdict" => kind \in {"COMPLETED", "FAILED"},
           pc \notin {"select", "flagAll", "queueAll"}, tx[h].pc # "queueAll",
           NoneMarked, UNCHANGED <<task, workers>>
    PROVE  Moves(h)
  BY DEF Moves, At

LEMMA SetRowMarksNone ==
    ASSUME row \in [Docs -> RowState], NEW d \in Docs, NEW s, s # "DELETING", SetRow(d, s)
    PROVE  NoneMarked
  BY DEF SetRow, NoneMarked

Kind ==
    \/ Quiet
    \/ \E h \in Threads : Moves(h) \/ Inserts(h) \/ FlagAll(h)
    \/ \E h \in Threads, d \in Docs : CancelQueuedDeletion(h, d) \/ SaveRow(h, d)
    \/ \E B \in SUBSET Tasks : Poll(B)
    \/ \E t \in Tasks : TakeTask(t)
    \/ Works \/ Forgets \/ Saves

(* Every step is of one of these kinds.                                     *)
LEMMA StepKinds == ASSUME IInv, [RNext]_vars PROVE Kind
  <1>0. /\ tx \in [Threads -> TxState] /\ row \in [Docs -> RowState]
        /\ copy \in [Tasks -> TaskRow] /\ cur \in Tasks \cup {None}
        /\ TxShape /\ WorkerShape
    BY DEF IInv, TypeOK
  <1>u. UNCHANGED row => NoneMarked
    BY DEF NoneMarked
  <1>f. \A h \in Threads : Finish(h) /\ (SoundDeletes => tx[h].pc # "queueAll")
                           /\ UNCHANGED <<row, task, workers>> => Moves(h)
    BY <1>0, <1>u, FinishMoves
  <1>s. \A h \in Threads, p \in TxPc :
           Step(h, p) /\ p \notin {"verdict", "select", "flagAll", "queueAll"}
             /\ (p = "save" \/ tx[h].locks = {}) /\ tx[h].pc # "queueAll"
             /\ UNCHANGED <<row, task, workers>> => Moves(h)
    BY <1>0, <1>u, StepMoves
  <1>l. \A h \in Threads : tx[h].pc \notin {"put", "save"} => tx[h].locks = {}
    BY <1>0 DEF TxShape
  <1>i. \A h \in Threads : tx[h] = Idle => tx[h].pc = "idle"
    BY DEF Idle, At
  <1>d. SoundDeletes /\ Fault => \A h \in Threads : tx[h].pc # "queueAll"
    BY <1>0, BoundsAssumption DEF SoundDeletes, Fault, TxShape, IInv, TypeOK
  <1> USE <1>0 DEF Kind, tables, stores, streams, history
  <1>1. ASSUME NEW d \in Docs, DataLoaderPut(d) PROVE Kind
    BY <1>1 DEF Quiet, DataLoaderPut
  <1>2. ASSUME NEW h \in Threads, NEW d \in Docs, NEW k \in AllRequests, DedupHit(h, k, d) PROVE Kind
    BY <1>2 DEF Quiet, DedupHit
  <1>3. ASSUME NEW h \in Threads, NEW d \in Docs, NEW k \in AllRequests, Admit(h, k, d) PROVE Kind
    BY <1>3, <1>u, <1>i, AtMoves DEF Admit
  <1>4. ASSUME NEW h \in Threads, NEW d \in Docs, StoreFile(h, d) PROVE Kind
    BY <1>4, <1>s DEF StoreFile, TxPc
  <1>5. ASSUME NEW h \in Threads, NEW d \in Docs, SaveRowFails(h, d) PROVE Kind
    BY <1>5, <1>f DEF SaveRowFails
  <1>6. ASSUME NEW h \in Threads, NEW d \in Docs, Announce(h, d) PROVE Kind
    BY <1>6, <1>f DEF Announce
  <1>7. ASSUME NEW h \in Threads, NEW d \in Docs, Reprocess(h, d) PROVE Kind
    BY <1>7, <1>u, <1>i, AtMoves DEF Reprocess
  <1>8. ASSUME NEW h \in Threads, NEW d \in Docs, FetchForIngestion(h, d) PROVE Kind
    BY <1>8, <1>f, <1>s, <1>l DEF FetchForIngestion, TxPc
  <1>9. ASSUME NEW h \in Threads, NEW d \in Docs, MarkProcessing(h, d) PROVE Kind
    <2>1. NoneMarked
      BY <1>9, <1>u, SetRowMarksNone DEF MarkProcessing, Merge
    <2> QED
      BY <1>9, <2>1, <1>l, StepMoves DEF MarkProcessing, TxPc
  <1>10. ASSUME NEW h \in Threads, NEW d \in Docs, Publish(h, d) PROVE Kind
    BY <1>10, <1>f DEF Publish
  <1>11. ASSUME NEW h \in Threads, NEW d \in Docs, PublishFails(h, d) PROVE Kind
    BY <1>11, <1>s, <1>l DEF PublishFails, TxPc
  <1>12. ASSUME NEW h \in Threads, NEW d \in Docs, MarkFailed(h, d) PROVE Kind
    <2>1. NoneMarked
      BY <1>12, <1>u, SetRowMarksNone DEF MarkFailed
    <2> QED
      BY <1>12, <2>1, FinishMoves DEF MarkFailed
  <1>13. ASSUME NEW h \in Threads, NEW d \in Docs, DeleteAgain(h, d) PROVE Kind
    BY <1>13 DEF Quiet, DeleteAgain
  <1>14. ASSUME NEW h \in Threads, NEW d \in Docs, Delete(h, d) PROVE Kind
    BY <1>14, <1>u, <1>i, AtMoves DEF Delete
  <1>15. ASSUME NEW h \in Threads, DropCollection(h) PROVE Kind
    <2> DEFINE a(b) == [At("select", "deleteAll", {}, "ABSENT") EXCEPT !.dropped = b]
    <2>1. PICK b \in BOOLEAN : tx' = [tx EXCEPT ![h] = a(b)]
      BY <1>15 DEF DropCollection
    <2>2. a(b).pc = "select" /\ a(b).locks = {}
      BY DEF At
    <2>3. tx'[h] = a(b) /\ \A g \in Threads \ {h} : tx'[g] = tx[g]
      BY <2>1
    <2>4. "deleteAll" \in Requests
      BY <1>15 DEF DropCollection, Request
    <2> QED
      BY <1>15, <2>2, <2>3, <2>4, <1>u, <1>i DEF Moves, DropCollection
  <1>16. ASSUME NEW h \in Threads, SelectAll(h) PROVE Kind
    <2> DEFINE live == {d \in Docs : row[d] \notin {"ABSENT", "DELETING"}}
                r == [tx[h] EXCEPT !.pc = "flagAll", !.docs = live]
    <2>1. tx[h].locks = {}
      BY <1>16, <1>l DEF SelectAll
    <2>2. r.pc = "flagAll" /\ r.locks = {}
      BY <2>1 DEF TxState
    <2>3. CASE tx' = [tx EXCEPT ![h] = r]
      <3>1. "deleteAll" \in Requests
        BY <1>16 DEF SelectAll, TxShape
      <3> QED
        BY <1>16, <2>2, <2>3, <3>1, <1>u DEF SelectAll, Moves
    <2>4. CASE Finish(h)
      BY <1>16, <2>4, <1>f DEF SelectAll
    <2> QED
      BY <1>16, <2>3, <2>4 DEF SelectAll, Finish
  <1>17. ASSUME NEW h \in Threads, FlagFails(h) PROVE Kind
    BY <1>17, <1>f DEF FlagFails
  <1>18. ASSUME NEW h \in Threads, EventRead(h) PROVE Kind
    <2>1. complete[1][2] \in {"COMPLETED", "FAILED"}
      BY <1>18 DEF EventRead, IInv, TypeOK
    <2>2. CASE Finish(h)
      BY <1>18, <2>2, <1>f, <1>i DEF EventRead
    <2>3. CASE tx' = [tx EXCEPT ![h] = At("verdict", complete[1][2], {complete[1][1]},
                                          row[complete[1][1]])]
      <3>1. UNCHANGED <<row, task, workers>>
        BY <1>18 DEF EventRead
      <3>2. tx[h].pc # "queueAll"
        BY <1>18, <1>i DEF EventRead
      <3>3. "verdict" \notin {"select", "flagAll", "queueAll"}
        OBVIOUS
      <3>4. Moves(h)
        BY <2>1, <2>3, <3>1, <3>2, <3>3, <1>u, AtMoves
      <3> QED
        BY <3>4
    <2> QED
      BY <1>18, <2>2, <2>3 DEF EventRead, Finish
  <1>19. ASSUME NEW h \in Threads, NEW d \in Docs, Verdict(h, d) PROVE Kind
    <2>1. NoneMarked
      BY <1>19, <1>u, SetRowMarksNone DEF Verdict, TxShape
    <2> QED
      BY <1>19, <2>1, FinishMoves DEF Verdict
  <1>20. ASSUME NEW h \in Threads, NEW d \in Docs, VerdictFails(h, d) PROVE Kind
    BY <1>20, <1>f DEF VerdictFails
  <1>21. ASSUME NEW d \in Docs, Age(d) PROVE Kind
    BY <1>21 DEF Quiet, Age
  <1>22. ASSUME NEW h \in Threads, NEW d \in Docs, Sweep(h, d) PROVE Kind
    BY <1>22, <1>u, <1>i, AtMoves DEF Sweep
  <1>23. ASSUME Guard PROVE Kind
    <2>1. cur # None /\ cur \in Tasks /\ copy[cur] \in TaskRow
          /\ copy[cur].status \in {"PENDING", "CANCELLED", "DONE"}
      BY <1>23 DEF Guard, WorkerShape
    <2>2. /\ [copy[cur] EXCEPT !.status = "CANCELLED"].doc = copy[cur].doc
          /\ [copy[cur] EXCEPT !.status = "CANCELLED"].attempts = copy[cur].attempts
          /\ [copy[cur] EXCEPT !.status = "CANCELLED"].status = "CANCELLED"
      BY <2>1 DEF TaskRow
    <2>3. Resurrected(copy[cur].doc) => \A d \in Docs : copy[cur].doc = d => row[d] # "DELETING"
      BY DEF Resurrected
    <2>4. Works
      BY <1>23, <2>1, <2>2, <2>3, <1>u DEF Guard, Works
    <2> QED
      BY <2>4
  <1>24. ASSUME DeleteVectors PROVE Kind
    <2>1. cur # None /\ cur \in Tasks /\ copy[cur] \in TaskRow
          /\ copy[cur].status \in {"PENDING", "CANCELLED", "DONE"}
      BY <1>24 DEF DeleteVectors, WorkerShape
    <2>2. /\ [copy[cur] EXCEPT !.qdrantDone = TRUE].doc = copy[cur].doc
          /\ [copy[cur] EXCEPT !.qdrantDone = TRUE].attempts = copy[cur].attempts
          /\ [copy[cur] EXCEPT !.qdrantDone = TRUE].status = copy[cur].status
      BY <2>1 DEF TaskRow
    <2>3. copy' = copy \/ copy' = [copy EXCEPT ![cur] = [copy[cur] EXCEPT !.qdrantDone = TRUE]]
      BY <1>24 DEF DeleteVectors
    <2>4. /\ UNCHANGED <<row, task, tx, batch, cur>>
          /\ wpc' \notin {"idle", "next"}
      BY <1>24 DEF DeleteVectors
    <2>5. Works
      BY <2>1, <2>2, <2>3, <2>4, <1>u DEF Works
    <2> QED
      BY <2>5
  <1>25. ASSUME DeleteFiles PROVE Kind
    <2>1. cur # None /\ cur \in Tasks /\ copy[cur] \in TaskRow
          /\ copy[cur].status \in {"PENDING", "CANCELLED", "DONE"}
      BY <1>25 DEF DeleteFiles, WorkerShape
    <2>2. /\ [copy[cur] EXCEPT !.objectStoreDone = TRUE].doc = copy[cur].doc
          /\ [copy[cur] EXCEPT !.objectStoreDone = TRUE].attempts = copy[cur].attempts
          /\ [copy[cur] EXCEPT !.objectStoreDone = TRUE].status = copy[cur].status
      BY <2>1 DEF TaskRow
    <2>3. copy' = copy \/ copy' = [copy EXCEPT ![cur] = [copy[cur] EXCEPT !.objectStoreDone = TRUE]]
      BY <1>25 DEF DeleteFiles
    <2>4. /\ UNCHANGED <<row, task, tx, batch, cur>>
          /\ wpc' \notin {"idle", "next"}
      BY <1>25 DEF DeleteFiles
    <2>5. Works
      BY <2>1, <2>2, <2>3, <2>4, <1>u DEF Works
    <2> QED
      BY <2>5
  <1>26. ASSUME PurgeChunks PROVE Kind
    <2>1. cur # None /\ cur \in Tasks /\ copy[cur] \in TaskRow
          /\ copy[cur].status \in {"PENDING", "CANCELLED", "DONE"}
      BY <1>26 DEF PurgeChunks, WorkerShape
    <2>2. Works
      BY <1>26, <2>1, <1>u DEF PurgeChunks, Works
    <2> QED
      BY <2>2
  <1>27. ASSUME PurgeRow PROVE Kind
    <2>1. cur # None /\ cur \in Tasks /\ copy[cur] \in TaskRow
          /\ copy[cur].status \in {"PENDING", "CANCELLED", "DONE"}
      BY <1>27 DEF PurgeRow, WorkerShape
    <2>2. /\ [copy[cur] EXCEPT !.status = "DONE"].doc = copy[cur].doc
          /\ [copy[cur] EXCEPT !.status = "DONE"].attempts = copy[cur].attempts
          /\ [copy[cur] EXCEPT !.status = "DONE"].status = "DONE"
      BY <2>1 DEF TaskRow
    <2>3. NoneMarked /\ \A d \in Docs : copy[cur].doc = d => row'[d] # "DELETING"
      BY <1>27 DEF PurgeRow, NoneMarked
    <2>4. Works
      BY <1>27, <2>1, <2>2, <2>3 DEF PurgeRow, Works
    <2> QED
      BY <2>4
  <1>28. ASSUME SaveTask PROVE Kind
    <2>1. cur # None
      BY <1>28 DEF SaveTask, WorkerShape
    <2>2. /\ cur \in Tasks /\ copy[cur] \in TaskRow
          /\ copy[cur].attempts < MaxAttempts
      BY <2>1 DEF WorkerShape, Held
    <2>3. /\ copy[cur] \in TaskRow
          /\ copy[cur].doc = copy[cur].doc
          /\ copy[cur].status \in {"DEAD", copy[cur].status}
          /\ copy[cur].status # "DEAD" => copy[cur].attempts < MaxAttempts
      BY <2>2
    <2>4. Saves
      BY <1>28, <2>2, <2>3 DEF SaveTask, Saves
    <2> QED
      BY <2>4
  <1>29. ASSUME RecordAttempt PROVE Kind
    <2>1. cur # None
      BY <1>29 DEF RecordAttempt, WorkerShape
    <2>2. /\ cur \in Tasks /\ copy[cur] \in TaskRow
          /\ copy[cur].attempts < MaxAttempts
      BY <2>1 DEF WorkerShape, Held
    <2>3. /\ Attempted(copy[cur]) \in TaskRow
          /\ Attempted(copy[cur]).doc = copy[cur].doc
          /\ Attempted(copy[cur]).status \in {"DEAD", copy[cur].status}
          /\ Attempted(copy[cur]).status # "DEAD" => Attempted(copy[cur]).attempts < MaxAttempts
      BY <2>2, AttemptedType, AttemptedFields
    <2>4. Saves
      BY <1>29, <2>2, <2>3 DEF RecordAttempt, Saves
    <2> QED
      BY <2>4
  <1>30. ASSUME WorkerFails PROVE Kind
    <2>1. CASE wpc' = "attempt"
      <3>1. wpc \notin {"idle", "next"} /\ UNCHANGED <<row, task, tx, batch, cur, copy>>
        BY <1>30, <2>1 DEF WorkerFails
      <3>2. cur # None /\ copy[cur].status \in {"PENDING", "CANCELLED", "DONE"}
        BY <3>1 DEF WorkerShape
      <3>3. Works
        BY <2>1, <3>1, <3>2, <1>u DEF Works
      <3> QED
        BY <3>3
    <2>2. CASE wpc' = "idle"
      <3>1. Forgets
        BY <1>30, <2>2 DEF WorkerFails, Forgets
      <3> QED
        BY <3>1
    <2> QED
      BY <1>30, <2>1, <2>2 DEF WorkerFails
  <1>31. ASSUME NEW d \in Docs, IngestTake(d) PROVE Kind
    BY <1>31 DEF Quiet, IngestTake
  <1>32. ASSUME NEW d \in Docs, IngestIndex(d) PROVE Kind
    BY <1>32 DEF Quiet, IngestIndex
  <1>33. ASSUME NEW d \in Docs, IngestPersist(d) PROVE Kind
    BY <1>33 DEF Quiet, IngestPersist
  <1>34. ASSUME NEW d \in Docs, IngestRejected(d) PROVE Kind
    BY <1>34 DEF Quiet, IngestRejected
  <1>35. ASSUME NEW d \in Docs, IngestReport(d) PROVE Kind
    BY <1>35 DEF Quiet, IngestReport
  <1>36. ASSUME NEW d \in Docs, IngestFails(d) PROVE Kind
    BY <1>36 DEF Quiet, IngestFails
  <1>37. ASSUME NEW h \in Threads, HandlerFails(h) PROVE Kind
    BY <1>37, <1>f, <1>d DEF HandlerFails
  <1>38. ASSUME Crash PROVE Kind
    <2>1. Forgets
      BY <1>38, <1>d DEF Crash, Forgets
    <2> QED
      BY <2>1
  <1>40. ASSUME NEW h \in Threads, Flag(h) PROVE Kind
    <2>1. \A d \in Docs : row'[d] = "DELETING" => row[d] = "DELETING" \/ d \in tx[h].docs
      BY <1>40 DEF Flag, FlagRows
    <2>2. Inserts(h)
      BY <1>40, <2>1 DEF Flag, Inserts
    <2> QED
      BY <2>2
  <1>41. ASSUME NEW h \in Threads, QueueAll(h) PROVE Kind
    <2>1. Inserts(h)
      BY <1>41 DEF QueueAll, Inserts
    <2> QED
      BY <2>1
  <1>42. ASSUME Discover \/ Reconcile PROVE Kind
    <2>1. vectors \in [Docs -> BOOLEAN]
      BY DEF IInv, TypeOK
    <2>2. PICK pc \in PassPc, kind \in {"none", "reconcile"}, ds \in SUBSET Docs :
             tx' = [tx EXCEPT !["sweeper"] = At(pc, kind, ds, "ABSENT")]
      BY <1>42, <2>1, PassStep
    <2>3. /\ UNCHANGED <<row, task, workers>> /\ "sweeper" \in Threads
          /\ tx["sweeper"].pc # "queueAll" /\ pc \notin {"verdict", "select", "flagAll", "queueAll"}
      BY <1>42, <2>1, PassStep DEF PassPc
    <2>4. Moves("sweeper")
      BY <1>u, <2>2, <2>3, AtMoves
    <2> QED
      BY <2>3, <2>4
  <1>39. ASSUME UNCHANGED vars PROVE Kind
    BY <1>39 DEF vars, Quiet
  <1> QED
    BY <1>1, <1>2, <1>3, <1>4, <1>5, <1>6, <1>7, <1>8, <1>9, <1>10, <1>11, <1>12, <1>13, <1>14, <1>15, <1>16, <1>17, <1>18, <1>19, <1>20, <1>21, <1>22, <1>23, <1>24, <1>25, <1>26, <1>27, <1>28, <1>29, <1>30, <1>31, <1>32, <1>33, <1>34, <1>35, <1>36, <1>37, <1>38, <1>39, <1>40, <1>41, <1>42
    DEF RNext, Next, Operate, Receive, Continue, Advance, Worker, Ingest, Fail, AllRequests
-----------------------------------------------------------------------------
(* The outbox invariants, kind by kind.                                     *)

(* Locks stay exclusive and on PENDING rows of the document registered.     *)
LEMMA LocksStep == ASSUME IInv, Kind PROVE TxShape' /\ LocksHeld'
  <1>0. /\ tx \in [Threads -> TxState] /\ task \in [Tasks -> TaskRow]
        /\ TxShape /\ LocksHeld
        /\ \A h \in Threads : tx[h].locks \subseteq Tasks
    BY DEF IInv, TypeOK, TxState
  <1> USE <1>0 DEF TxShape, LocksHeld
  <1>1. CASE UNCHANGED <<task, tx>>
    BY <1>1
  <1>2. ASSUME NEW h \in Threads, Moves(h) PROVE TxShape' /\ LocksHeld'
    BY <1>2 DEF Moves
  <1>3. ASSUME NEW h \in Threads, Inserts(h) PROVE TxShape' /\ LocksHeld'
    <2>1. \A t \in Tasks : task[t].status # "FREE" => task'[t] = task[t]
      BY <1>3, InsertTasksFields DEF Inserts
    <2>2. /\ tx'[h].pc = "idle" /\ tx'[h].locks = {}
          /\ \A g \in Threads \ {h} : tx'[g] = tx[g]
      BY <1>3 DEF Inserts, Finish, Idle, At
    <2> QED
      BY <2>1, <2>2
  <1>8. ASSUME NEW h \in Threads, FlagAll(h) PROVE TxShape' /\ LocksHeld'
    <2>1. UNCHANGED task /\ tx[h].locks = {} /\ "deleteAll" \in Requests
      BY <1>8 DEF FlagAll
    <2>2. tx'[h] = [tx[h] EXCEPT !.pc = "queueAll"] /\ \A g \in Threads \ {h} : tx'[g] = tx[g]
      BY <1>8 DEF FlagAll, Step
    <2>3. tx'[h].pc = "queueAll" /\ tx'[h].locks = {}
      BY <2>1, <2>2 DEF TxState
    <2>4. TxShape'
      BY <2>1, <2>2, <2>3
    <2>5. \A g \in Threads : tx'[g].locks = tx[g].locks /\ (g # h => tx'[g].docs = tx[g].docs)
      BY <2>1, <2>2, <2>3
    <2>6. LocksHeld'
      BY <2>1, <2>3, <2>5
    <2> QED
      BY <2>4, <2>6
  <1>4. ASSUME NEW h \in Threads, NEW d \in Docs, CancelQueuedDeletion(h, d)
        PROVE TxShape' /\ LocksHeld'
    <2>1. PICK p \in {"put", "save"} : tx' = [tx EXCEPT ![h] = [@ EXCEPT !.pc = p, !.locks = QueuedFor(d)]]
      BY <1>4 DEF CancelQueuedDeletion
    <2>2. tx'[h] = [tx[h] EXCEPT !.pc = p, !.locks = QueuedFor(d)]
          /\ \A g \in Threads \ {h} : tx'[g] = tx[g]
      BY <2>1
    <2>3. tx'[h].pc = p /\ tx'[h].locks = QueuedFor(d) /\ tx'[h].docs = {d}
      <3>1. QueuedFor(d) \in SUBSET Tasks /\ p \in TxPc /\ tx[h].docs = {d}
        BY <1>4 DEF QueuedFor, TxPc, CancelQueuedDeletion
      <3> QED
        BY <2>2, <3>1, MoveFields
    <2>4. \A t \in QueuedFor(d) : /\ task[t].status = "PENDING" /\ task[t].doc = d
                                  /\ \A g \in Threads : t \notin tx[g].locks
      BY <1>4 DEF CancelQueuedDeletion, QueuedFor, Locked
    <2>5. UNCHANGED task
      BY <1>4 DEF CancelQueuedDeletion, tables
    <2>6. TxShape'
      BY <2>2, <2>3
    <2>7. ASSUME NEW g \in Threads, NEW t \in tx'[g].locks
          PROVE  task'[t].status = "PENDING" /\ tx'[g].docs = {task'[t].doc}
      <3>1. CASE g = h
        BY <2>3, <2>4, <2>5, <2>7, <3>1
      <3>2. CASE g # h
        BY <2>2, <2>5, <2>7, <3>2
      <3> QED
        BY <3>1, <3>2
    <2>8. ASSUME NEW f \in Threads, NEW g \in Threads, NEW t, t \in tx'[f].locks, t \in tx'[g].locks
          PROVE  f = g
      <3>1. CASE f # h /\ g # h
        BY <2>2, <2>8, <3>1
      <3>2. CASE f = h /\ g # h
        <4>1. t \in QueuedFor(d) /\ t \in tx[g].locks
          BY <2>2, <2>3, <2>8, <3>2
        <4> QED
          BY <2>4, <4>1
      <3>3. CASE g = h /\ f # h
        <4>1. t \in QueuedFor(d) /\ t \in tx[f].locks
          BY <2>2, <2>3, <2>8, <3>3
        <4> QED
          BY <2>4, <4>1
      <3>4. CASE f = h /\ g = h
        BY <3>4
      <3> QED
        BY <3>1, <3>2, <3>3, <3>4
    <2> QED
      BY <2>6, <2>7, <2>8
  <1>5. ASSUME NEW h \in Threads, NEW d \in Docs, SaveRow(h, d)
        PROVE TxShape' /\ LocksHeld'
    <2>1. PICK p \in {"announce", "fetch"} : tx' = [tx EXCEPT ![h] = [@ EXCEPT !.pc = p, !.locks = {}]]
      BY <1>5 DEF SaveRow
    <2>2. tx'[h] = [tx[h] EXCEPT !.pc = p, !.locks = {}]
          /\ \A g \in Threads \ {h} : tx'[g] = tx[g]
      BY <2>1
    <2>3. tx'[h].pc = p /\ tx'[h].locks = {}
      BY <2>2, MoveFields DEF TxPc
    <2>4. \A t \in Tasks : t \notin tx[h].locks => task'[t] = task[t]
      BY <1>5 DEF SaveRow
    <2>5. TxShape'
      BY <2>2, <2>3
    <2>6. ASSUME NEW g \in Threads \ {h}, NEW t \in tx[g].locks
          PROVE  t \in Tasks /\ task'[t] = task[t]
      BY <2>4, <2>6
    <2>7. ASSUME NEW g \in Threads, NEW t \in tx'[g].locks
          PROVE  task'[t].status = "PENDING" /\ tx'[g].docs = {task'[t].doc}
      <3>1. g # h /\ tx'[g] = tx[g] /\ t \in tx[g].locks
        BY <2>2, <2>3, <2>7
      <3> QED
        BY <2>6, <3>1
    <2>8. ASSUME NEW f \in Threads, NEW g \in Threads, NEW t, t \in tx'[f].locks, t \in tx'[g].locks
          PROVE  f = g
      BY <2>2, <2>3, <2>8
    <2> QED
      BY <2>5, <2>7, <2>8
  <1>6. CASE Forgets
    <2>1. CASE tx' = [h \in Threads |-> Idle]
      BY <1>6, <2>1 DEF Forgets, Idle, At
    <2> QED
      BY <1>1, <1>6, <2>1 DEF Forgets
  <1>7. CASE Saves
    <2>1. \A t \in Tasks : t # cur => task'[t] = task[t]
      BY <1>7 DEF Saves
    <2>2. UNCHANGED tx /\ \A g \in Threads : cur \notin tx[g].locks
      BY <1>7 DEF Saves, Locked
    <2> QED
      BY <2>1, <2>2
  <1> QED
    BY <1>1, <1>2, <1>3, <1>4, <1>5, <1>6, <1>7, <1>8
    DEF Kind, Quiet, Works, Poll, TakeTask, tables

(* What the worker remembers keeps matching the outbox: the saves of others *)
(* change a held row only from PENDING to CANCELLED.                        *)
LEMMA WorkerStep == ASSUME IInv, Kind PROVE AttemptsLeft' /\ WorkerShape'
  <1>0. /\ task \in [Tasks -> TaskRow] /\ copy \in [Tasks -> TaskRow]
        /\ batch \in SUBSET Tasks /\ cur \in Tasks \cup {None}
        /\ \A h \in Threads : tx[h].locks \subseteq Tasks
        /\ LocksHeld /\ AttemptsLeft /\ WorkerShape
        /\ None \notin Tasks /\ MaxAttempts \in Nat \ {0}
    BY NoneAssumption, BoundsAssumption DEF IInv, TypeOK, TxState
  <1> USE <1>0 DEF AttemptsLeft, WorkerShape, Held, workers
  <1>1. CASE UNCHANGED <<task, workers>>
    BY <1>1
  <1>3. ASSUME NEW h \in Threads, Inserts(h) PROVE AttemptsLeft' /\ WorkerShape'
    <2>1. \A t \in Tasks :
              task'[t] = task[t] \/ (task[t].status = "FREE" /\ task'[t].attempts = 0)
      BY <1>3, InsertTasksFields DEF Inserts
    <2>2. UNCHANGED workers
      BY <1>3 DEF Inserts
    <2>3. \A t \in Held : task'[t] = task[t]
      BY <2>1
    <2>4. AttemptsLeft'
      BY <2>1
    <2> QED
      BY <2>2, <2>3, <2>4
  <1>5. ASSUME NEW h \in Threads, NEW d \in Docs, SaveRow(h, d)
        PROVE AttemptsLeft' /\ WorkerShape'
    <2>1. \A t \in Tasks : [task[t] EXCEPT !.status = "CANCELLED"].status = "CANCELLED"
                        /\ [task[t] EXCEPT !.status = "CANCELLED"].doc = task[t].doc
      BY DEF TaskRow
    <2>2. \A t \in Tasks : \/ task'[t] = task[t]
                           \/ /\ task'[t].status = "CANCELLED"
                              /\ task'[t].doc = task[t].doc
      BY <1>5, <2>1 DEF SaveRow
    <2>3. UNCHANGED workers
      BY <1>5 DEF SaveRow
    <2> QED
      BY <2>2, <2>3
  <1>6. ASSUME NEW B \in SUBSET Tasks, Poll(B) PROVE AttemptsLeft' /\ WorkerShape'
    BY <1>6 DEF Poll, tables
  <1>7. ASSUME NEW t \in Tasks, TakeTask(t) PROVE AttemptsLeft' /\ WorkerShape'
    <2>1. CASE task[t].status = "PENDING"
      BY <1>7, <2>1 DEF TakeTask, tables
    <2>2. CASE task[t].status # "PENDING"
      <3>1. /\ UNCHANGED <<task, cur>> /\ cur = None
            /\ wpc' \in {"idle", "next"}
            /\ batch' = batch \ {t}
            /\ \A u \in Tasks \ {t} : copy'[u] = copy[u]
        BY <1>7, <2>2 DEF TakeTask, tables
      <3> QED
        BY <3>1
    <2> QED
      BY <2>1, <2>2
  <1>8. CASE Works
    <2>1. cur \in Tasks /\ wpc \notin {"idle", "next"}
      BY <1>8 DEF Works
    <2> QED
      BY <1>8, <2>1 DEF Works
  <1>9. CASE Forgets
    BY <1>9 DEF Forgets
  <1>10. CASE Saves
    <2>1. PICK c \in TaskRow :
             /\ task' = [task EXCEPT ![cur] = c]
             /\ c.status # "DEAD" => c.attempts < MaxAttempts
      BY <1>10 DEF Saves
    <2>2. /\ cur \in Tasks /\ cur' = None /\ batch' = batch
          /\ wpc' \in {"idle", "next"}
          /\ \A t \in Tasks \ {cur} : copy'[t] = copy[t]
      BY <1>10 DEF Saves, NextTask
    <2>3. AttemptsLeft'
      BY <2>1, <2>2
    <2>4. \A t \in batch : t # cur /\ task'[t] = task[t] /\ copy'[t] = copy[t]
      BY <2>1, <2>2
    <2> QED
      BY <2>2, <2>3, <2>4
  <1> QED
    BY <1>1, <1>3, <1>5, <1>6, <1>7, <1>8, <1>9, <1>10
    DEF Kind, Quiet, Moves, FlagAll, CancelQueuedDeletion, tables

(* No step orphans a DELETING row.                                          *)
LEMMA QueuedStep ==
    ASSUME IInv, Kind, SoundDeletes PROVE DeletingHasTask' /\ Superseded'
  <1> DEFINE Steady == \A h \in Threads : tx[h].pc = "queueAll" => tx'[h] = tx[h]
             Good == DeletingHasTask' /\ Superseded'
  <1>0. /\ task \in [Tasks -> TaskRow] /\ copy \in [Tasks -> TaskRow]
        /\ tx \in [Threads -> TxState] /\ row \in [Docs -> RowState]
        /\ cur \in Tasks \cup {None} /\ None \notin Tasks
        /\ \A h \in Threads : tx[h].locks \subseteq Tasks /\ tx[h].docs \subseteq Docs
        /\ LocksHeld /\ WorkerShape /\ DeletingHasTask /\ Superseded
    BY NoneAssumption DEF IInv, TypeOK, TxState
  <1>1. \A d \in Docs : row[d] = "DELETING" => BeingQueued(d) \/ \E u \in Tasks : Owns(u, d)
    BY <1>0 DEF DeletingHasTask, Queued, Owns
  <1>2. ASSUME \A d \in Docs : row'[d] = "DELETING" =>
                  BeingQueued(d)' \/ \E u \in Tasks : Owns(u, d)'
        PROVE  DeletingHasTask'
    BY <1>2 DEF DeletingHasTask, Queued, Owns
  <1>3. ASSUME Steady, NEW d \in Docs, BeingQueued(d) PROVE BeingQueued(d)'
    BY <1>3 DEF BeingQueued
  <1>4. ASSUME UNCHANGED <<task, workers>>, NoneMarked, Steady PROVE Good
    <2>1. \A t \in Tasks, d \in Docs : Owns(t, d)' <=> Owns(t, d)
      BY <1>4 DEF Owns
    <2>2. DeletingHasTask'
      BY <1>1, <1>2, <1>3, <1>4, <2>1 DEF NoneMarked
    <2>3. Superseded'
      BY <1>0, <1>3, <1>4, <2>1 DEF NoneMarked, Superseded, workers
    <2> QED
      BY <2>2, <2>3
  <1>5. ASSUME NEW h \in Threads, Inserts(h) PROVE Good
    <2>1. /\ \A t \in Tasks : task[t].status # "FREE" => task'[t] = task[t]
          /\ \A d \in tx[h].docs : \E u \in Tasks :
                 task[u].status = "FREE" /\ task'[u].doc = d /\ task'[u].status = "PENDING"
      BY <1>5, InsertTasksFields DEF Inserts
    <2>2. /\ UNCHANGED <<batch, cur, copy>>
          /\ \A g \in Threads \ {h} : tx'[g] = tx[g]
          /\ \A d \in Docs : row'[d] = "DELETING" => d \in tx[h].docs \/ row[d] = "DELETING"
      BY <1>5, <1>0 DEF Inserts, Finish, workers
    <2>3. \A d \in tx[h].docs : \E u \in Tasks : task[u].status = "FREE" /\ Owns(u, d)'
      BY <2>1 DEF Owns
    <2>4. \A t \in Tasks, d \in Docs : Owns(t, d) => Owns(t, d)'
      BY <2>1 DEF Owns
    <2>5. \A d \in Docs : BeingQueued(d) => d \in tx[h].docs \/ BeingQueued(d)'
      BY <2>2 DEF BeingQueued
    <2>6. cur \in Tasks => task[cur].status # "FREE"
      BY <1>0 DEF WorkerShape, Held
    <2>7. DeletingHasTask'
      BY <1>1, <1>2, <2>2, <2>3, <2>4, <2>5
    <2>8. Superseded'
      <3> SUFFICES ASSUME NEW t \in Tasks, NEW d \in Docs, t = cur, copy[t].status # "PENDING",
                          copy[t].doc = d, row'[d] = "DELETING"
                   PROVE  BeingQueued(d)' \/ \E u \in Tasks \ {t} : Owns(u, d)'
        BY <2>2 DEF Superseded
      <3>1. CASE d \in tx[h].docs
        BY <2>3, <2>6, <3>1
      <3>2. CASE d \notin tx[h].docs
        <4>1. BeingQueued(d) \/ \E u \in Tasks \ {t} : Owns(u, d)
          BY <1>0, <2>2, <3>2 DEF Superseded
        <4> QED
          BY <2>4, <2>5, <3>2, <4>1
      <3> QED
        BY <3>1, <3>2
    <2> QED
      BY <2>7, <2>8
  <1>6. ASSUME NEW h \in Threads, FlagAll(h) PROVE Good
    <2>1. UNCHANGED <<task, workers>>
      BY <1>6 DEF FlagAll
    <2>2. tx'[h] = [tx[h] EXCEPT !.pc = "queueAll"] /\ \A g \in Threads \ {h} : tx'[g] = tx[g]
      BY <1>0, <1>6 DEF FlagAll, Step
    <2>3. tx'[h].pc = "queueAll" /\ tx'[h].docs = tx[h].docs
      BY <1>0, <2>2 DEF TxState
    <2>4. \A d \in Docs : row'[d] = "DELETING" => BeingQueued(d)' \/ row[d] = "DELETING"
      BY <1>6, <2>3 DEF FlagAll, FlagRows, BeingQueued
    <2>5. Steady
      BY <1>6, <2>2 DEF FlagAll
    <2>6. \A t \in Tasks, d \in Docs : Owns(t, d)' <=> Owns(t, d)
      BY <2>1 DEF Owns
    <2>7. DeletingHasTask'
      BY <1>1, <1>2, <1>3, <2>4, <2>5, <2>6
    <2>8. Superseded'
      BY <1>0, <1>3, <2>1, <2>4, <2>5, <2>6 DEF Superseded, workers
    <2> QED
      BY <2>7, <2>8
  <1>7. ASSUME NEW h \in Threads, NEW d \in Docs, SaveRow(h, d) PROVE Good
    <2>1. row'[d] = "PENDING" /\ \A e \in Docs \ {d} : row'[e] = row[e]
      BY <1>0, <1>7 DEF SaveRow, SetRow
    <2>2. ASSUME NEW t \in Tasks, task[t].doc # d PROVE task'[t] = task[t]
      <3>1. tx[h].docs = {d}
        BY <1>7 DEF SaveRow
      <3>2. t \notin tx[h].locks
        BY <1>0, <2>2, <3>1 DEF LocksHeld
      <3> QED
        BY <1>7, <3>2 DEF SaveRow
    <2>3. Steady /\ UNCHANGED <<cur, copy>>
      BY <1>7 DEF SaveRow, workers
    <2>4. \A t \in Tasks, e \in Docs \ {d} : Owns(t, e) => Owns(t, e)'
      BY <2>2 DEF Owns
    <2>5. DeletingHasTask'
      BY <1>1, <1>2, <1>3, <2>1, <2>3, <2>4
    <2>6. Superseded'
      BY <1>0, <1>3, <2>1, <2>3, <2>4 DEF Superseded
    <2> QED
      BY <2>5, <2>6
  <1>8. ASSUME UNCHANGED <<row, task, tx>>,
               \A t \in Tasks : t = cur' => \/ cur' = cur /\ copy' = copy
                                            \/ copy'[t].status = "PENDING"
        PROVE  Good
    <2>1. \A t \in Tasks, d \in Docs : Owns(t, d)' <=> Owns(t, d)
      BY <1>8 DEF Owns
    <2>2. Steady
      BY <1>8
    <2>3. DeletingHasTask'
      BY <1>1, <1>2, <1>3, <1>8, <2>1, <2>2
    <2>4. Superseded'
      BY <1>0, <1>3, <1>8, <2>1, <2>2 DEF Superseded
    <2> QED
      BY <2>3, <2>4
  <1>9. ASSUME NEW B \in SUBSET Tasks, Poll(B) PROVE Good
    <2>1. UNCHANGED <<row, task, tx>> /\ cur' = None
      BY <1>0, <1>9 DEF Poll, tables, WorkerShape
    <2> QED
      BY <1>0, <1>8, <2>1
  <1>10. ASSUME NEW t \in Tasks, TakeTask(t) PROVE Good
    <2>1. UNCHANGED <<row, task, tx>> /\ cur = None /\ copy[t].status = "PENDING"
      BY <1>0, <1>10 DEF TakeTask, tables, WorkerShape
    <2>2. cur' = None \/ (cur' = t /\ copy' = copy)
      BY <1>10, <2>1 DEF TakeTask
    <2> QED
      BY <1>0, <1>8, <2>1, <2>2
  <1>11. CASE Works
    <2>1. UNCHANGED <<task, tx, cur>> /\ NoneMarked /\ cur \in Tasks
      BY <1>0, <1>11 DEF Works
    <2>2. Steady /\ \A t \in Tasks, d \in Docs : Owns(t, d)' <=> Owns(t, d)
      BY <2>1 DEF Owns
    <2>3. DeletingHasTask'
      BY <1>1, <1>2, <1>3, <2>1, <2>2 DEF NoneMarked
    <2>4. Superseded'
      <3> SUFFICES ASSUME NEW d \in Docs, copy'[cur].status # "PENDING", copy'[cur].doc = d,
                          row'[d] = "DELETING"
                   PROVE  BeingQueued(d)' \/ \E u \in Tasks \ {cur} : Owns(u, d)'
        BY <2>1 DEF Superseded
      <3>1. copy[cur].doc = d /\ copy[cur].status # "PENDING" /\ row[d] = "DELETING"
        BY <1>11, <2>1 DEF Works, NoneMarked
      <3>2. BeingQueued(d) \/ \E u \in Tasks \ {cur} : Owns(u, d)
        BY <1>0, <2>1, <3>1 DEF Superseded
      <3> QED
        BY <1>3, <2>2, <3>2
    <2> QED
      BY <2>3, <2>4
  <1>12. CASE Forgets
    <2>1. UNCHANGED <<row, task>> /\ cur' = None /\ Steady
      BY <1>12 DEF Forgets
    <2>2. \A t \in Tasks, d \in Docs : Owns(t, d)' <=> Owns(t, d)
      BY <2>1 DEF Owns
    <2>3. DeletingHasTask'
      BY <1>1, <1>2, <1>3, <2>1, <2>2
    <2>4. Superseded'
      BY <1>0, <2>1 DEF Superseded
    <2> QED
      BY <2>3, <2>4
  <1>13. CASE Saves
    <2>1. PICK c \in TaskRow :
             /\ task' = [task EXCEPT ![cur] = c]
             /\ c.doc = copy[cur].doc
             /\ c.status \in {"DEAD", copy[cur].status}
      BY <1>13 DEF Saves
    <2>2. cur \in Tasks /\ cur' = None /\ UNCHANGED <<row, tx>>
      BY <1>13 DEF Saves, NextTask
    <2>3. task'[cur] = c /\ \A t \in Tasks \ {cur} : task'[t] = task[t]
      BY <1>0, <2>1, <2>2
    <2>4. c.doc = task[cur].doc
      BY <1>0, <2>1, <2>2 DEF WorkerShape, Held
    <2>5. \A t \in Tasks \ {cur}, d \in Docs : Owns(t, d) => Owns(t, d)'
      BY <2>3 DEF Owns
    <2>6. ASSUME NEW d \in Docs, row[d] = "DELETING"
          PROVE  BeingQueued(d)' \/ \E u \in Tasks : Owns(u, d)'
      <3>1. CASE c.doc # d
        <4>1. ~Owns(cur, d)
          BY <2>4, <3>1 DEF Owns
        <4> QED
          BY <1>1, <1>3, <2>2, <2>5, <2>6, <4>1
      <3>2. CASE c.doc = d /\ c.status \in {"PENDING", "DEAD"}
        BY <2>2, <2>3, <3>2 DEF Owns
      <3>3. CASE c.doc = d /\ c.status \notin {"PENDING", "DEAD"}
        <4>1. copy[cur].status # "PENDING" /\ copy[cur].doc = d
          BY <2>1, <3>3
        <4>2. BeingQueued(d) \/ \E u \in Tasks \ {cur} : Owns(u, d)
          BY <1>0, <2>2, <2>6, <4>1 DEF Superseded
        <4> QED
          BY <1>3, <2>2, <2>5, <4>2
      <3> QED
        BY <3>1, <3>2, <3>3
    <2>7. DeletingHasTask'
      BY <1>2, <2>2, <2>6
    <2>8. Superseded'
      BY <1>0, <2>2 DEF Superseded
    <2> QED
      BY <2>7, <2>8
  <1>14. ASSUME NEW h \in Threads, NEW d \in Docs, CancelQueuedDeletion(h, d) PROVE Good
    <2>1. UNCHANGED <<row, task, workers>> /\ Steady
      BY <1>14 DEF CancelQueuedDeletion, tables
    <2> QED
      BY <1>4, <2>1 DEF NoneMarked
  <1>15. CASE Quiet
    <2>1. UNCHANGED <<task, workers>> /\ Steady /\ NoneMarked
      BY <1>15 DEF Quiet, NoneMarked
    <2> QED
      BY <1>4, <2>1
  <1>16. ASSUME NEW h \in Threads, Moves(h) PROVE Good
    <2>1. UNCHANGED <<task, workers>> /\ Steady /\ NoneMarked
      BY <1>16 DEF Moves
    <2> QED
      BY <1>4, <2>1
  <1> QED
    BY <1>5, <1>6, <1>7, <1>9, <1>10, <1>11, <1>12, <1>13, <1>14, <1>15, <1>16 DEF Kind

(* A task that has ended is neither locked nor held by the worker.          *)
LEMMA EndedStep ==
    ASSUME IInv, Kind
    PROVE  \A t \in Tasks : task[t].status \in {"DONE", "DEAD"} => task'[t] = task[t]
  <1>0. /\ \A h \in Threads : tx[h].locks \subseteq Tasks
        /\ task \in [Tasks -> TaskRow] /\ LocksHeld /\ WorkerShape
    BY DEF IInv, TypeOK, TxState
  <1> USE <1>0
  <1>1. ASSUME NEW h \in Threads, Inserts(h)
        PROVE  \A t \in Tasks : task[t].status # "FREE" => task'[t] = task[t]
    BY <1>1, InsertTasksFields DEF Inserts
  <1>2. ASSUME NEW h \in Threads, NEW d \in Docs, SaveRow(h, d)
        PROVE  \A t \in Tasks : task[t].status # "PENDING" => task'[t] = task[t]
    BY <1>2 DEF SaveRow, LocksHeld
  <1>3. ASSUME Saves
        PROVE  \A t \in Tasks : task[t].status \in {"DONE", "DEAD"} => task'[t] = task[t]
    BY <1>3 DEF Saves, WorkerShape, Held
  <1>4. \/ UNCHANGED task
        \/ \E h \in Threads : Inserts(h)
        \/ \E h \in Threads, d \in Docs : SaveRow(h, d)
        \/ Saves
    BY DEF Kind, Quiet, Moves, FlagAll, CancelQueuedDeletion, Poll, TakeTask, Works, Forgets, tables
  <1> QED
    BY <1>1, <1>2, <1>3, <1>4

-----------------------------------------------------------------------------
(* The theorems.                                                            *)

LEMMA Invariance == RSpec => []IInv
  <1>1. IInv /\ [RNext]_vars => IInv'
    <2> SUFFICES ASSUME IInv, [RNext]_vars PROVE IInv'
      OBVIOUS
    <2>1. Kind
      BY StepKinds
    <2>2. SoundDeletes => DeletingHasTask' /\ Superseded'
      BY <2>1, QueuedStep
    <2>3. SoundDeletes' <=> SoundDeletes
      BY DEF SoundDeletes
    <2> QED
      BY <2>1, <2>2, <2>3, TypeStep, LocksStep, WorkerStep DEF IInv
  <1> QED
    BY InitInv, <1>1, PTL DEF RSpec

(* A run without the pass is one of the specification with it.              *)
LEMMA WithoutPass == Spec => RSpec
  <1>1. [Next]_vars => [RNext]_vars
    BY DEF RNext
  <1> QED
    BY <1>1, PTL DEF Spec, RSpec

(* What the daily pass leaves alone: it is on the worker's thread, and      *)
(* neither a row nor a task is orphaned or rewritten because of it.         *)
THEOREM SafeUnderReconciliation ==
    ASSUME SoundDeletes PROVE RSpec => []TypeOK /\ []DeletingHasTask /\ SettledStays
  <1>1. IInv => TypeOK /\ DeletingHasTask
    BY SoundDeletes DEF IInv
  <1>2. IInv /\ [RNext]_vars
          => [\A t \in Tasks : task[t].status \in {"DONE", "DEAD"} => task'[t] = task[t]]_vars
    BY StepKinds, EndedStep
  <1> QED
    BY Invariance, <1>1, <1>2, PTL DEF RSpec, SettledStays

(* The tables, streams and threads of document-service keep their types.    *)
THEOREM TypeCorrect == Spec => []TypeOK
  <1>1. IInv => TypeOK
    BY DEF IInv
  <1> QED
    BY Invariance, WithoutPass, <1>1, PTL

(* Every DELETING row is owned by a queued or dead task, or about to be: no *)
(* interleaving of registrations, deletions, stale saves, failures and      *)
(* restarts orphans it, unless a deleteAll may fail between its two saves.  *)
THEOREM DeletionIsQueued == ASSUME SoundDeletes PROVE Spec => []DeletingHasTask
  <1>1. IInv => DeletingHasTask
    BY SoundDeletes DEF IInv
  <1> QED
    BY Invariance, WithoutPass, <1>1, PTL

(* No step writes a task that is DONE or DEAD.                              *)
THEOREM EndedTasksStay == Spec => SettledStays
  <1>1. IInv /\ [RNext]_vars
          => [\A t \in Tasks : task[t].status \in {"DONE", "DEAD"} => task'[t] = task[t]]_vars
    BY StepKinds, EndedStep
  <1> QED
    BY Invariance, WithoutPass, <1>1, PTL DEF RSpec, SettledStays

-----------------------------------------------------------------------------
(* A COMPLETED document is stored, as long as nobody asked to delete it:    *)
(* the invariant, on top of the one above, which says of the worker's stale *)
(* copies that they are about a document with a task.                       *)

(* A deletion of the document was asked for, now or ever.                   *)
Owned(d) == \E t \in Tasks : task[t].doc = d /\ task[t].status # "FREE"

Stored(d) == files[d] /\ vectors[d] /\ chunks[d]

(* What a run has stored by the stage it is in.                             *)
Progress(d) ==
    /\ run[d] # "idle" => files[d]
    /\ run[d] \in {"persist", "report"} => vectors[d]
    /\ run[d] = "report" => chunks[d]

(* The row, an event under way or the consumer's thread says COMPLETED.     *)
Announced(d) == \E i \in DOMAIN complete : complete[i] = <<d, "COMPLETED">>
Deciding(d) ==
    \E h \in Threads : tx[h].pc = "verdict" /\ tx[h].kind = "COMPLETED" /\ d \in tx[h].docs
Claimed(d) == row[d] = "COMPLETED" \/ Announced(d) \/ Deciding(d)

Indexed == \A d \in Docs : ~Owned(d) => Progress(d) /\ (Claimed(d) => Stored(d))

(* Who published the document found its row, and with it whoever indexed    *)
(* it: entries and vectors exist only of documents that have a row.         *)
Sending(d) ==
    \E h \in Threads : tx[h].pc \in {"announce", "mark", "publish"} /\ d \in tx[h].docs
Traced(d) == ready[d] > 0 \/ vectors[d] \/ Sending(d)

(* So the pass, which compares what it found with rows it reads later,      *)
(* takes no document for an orphan that nobody asked to delete.             *)
Sifted(d) ==
    /\ Pass.pc = "compare" /\ d \in Pass.docs => row[d] # "ABSENT"
    /\ Pass.pc = "purge" => d \notin Pass.docs

Spared == \A d \in Docs : ~Owned(d) => (Traced(d) => row[d] # "ABSENT") /\ Sifted(d)

(* The collection of the whole tenant is not dropped: deleteAll does it     *)
(* before it asks for the rows.                                             *)
NoDeleteAll == "deleteAll" \notin Requests

-----------------------------------------------------------------------------
LEMMA IndexedInit == Init => Indexed /\ Spared
  BY DEF Init, Indexed, Owned, Progress, Claimed, Announced, Deciding, NoTask, Idle, At,
         Spared, Traced, Sending, Sifted, Pass, Threads

(* A task is never taken back: the worker's saves keep its document.        *)
LEMMA OwnedStays == ASSUME IInv, Kind PROVE \A d \in Docs : Owned(d) => Owned(d)'
  <1> DEFINE Stays == \A t \in Tasks : task[t].status # "FREE" =>
                          task'[t].doc = task[t].doc /\ task'[t].status # "FREE"
  <1>0. /\ task \in [Tasks -> TaskRow] /\ tx \in [Threads -> TxState]
        /\ copy \in [Tasks -> TaskRow] /\ WorkerShape
    BY DEF IInv, TypeOK
  <1>1. ASSUME UNCHANGED task PROVE Stays
    BY <1>1
  <1>2. ASSUME NEW h \in Threads, Inserts(h) PROVE Stays
    BY <1>2, InsertTasksFields DEF Inserts
  <1>3. ASSUME NEW h \in Threads, NEW d \in Docs, SaveRow(h, d) PROVE Stays
    <2>1. \A t \in Tasks : task'[t] = task[t] \/ task'[t] = [task[t] EXCEPT !.status = "CANCELLED"]
      BY <1>3 DEF SaveRow
    <2>2. \A t \in Tasks : LET c == [task[t] EXCEPT !.status = "CANCELLED"] IN
             c.doc = task[t].doc /\ c.status = "CANCELLED"
      BY <1>0 DEF TaskRow
    <2> QED
      BY <2>1, <2>2
  <1>4. ASSUME Saves PROVE Stays
    <2>1. PICK c \in TaskRow : /\ task' = [task EXCEPT ![cur] = c] /\ c.doc = copy[cur].doc
                               /\ c.status \in {"DEAD", copy[cur].status}
      BY <1>4 DEF Saves
    <2>2. cur \in Tasks
      BY <1>4 DEF Saves
    <2>3. copy[cur].doc = task[cur].doc /\ copy[cur].status \in {"PENDING", "CANCELLED", "DONE"}
      BY <1>0, <2>2 DEF WorkerShape, Held
    <2> QED
      BY <1>0, <2>1, <2>2, <2>3
  <1>5. Stays
    <2>1. \/ UNCHANGED task
          \/ \E h \in Threads : Inserts(h)
          \/ \E h \in Threads, d \in Docs : SaveRow(h, d)
          \/ Saves
      BY DEF Kind, Quiet, Moves, FlagAll, CancelQueuedDeletion, Poll, TakeTask, Works, Forgets, tables
    <2> HIDE DEF Stays
    <2> QED
      BY <1>1, <1>2, <1>3, <1>4, <2>1
  <1> QED
    BY <1>5 DEF Owned

(* What the worker is about to remove belongs to a document with a task.    *)
LEMMA WorkerOwns == ASSUME IInv, wpc \notin {"idle", "next"} PROVE cur \in Tasks /\ Owned(copy[cur].doc)
  <1>1. cur \in Tasks
    BY DEF IInv, TypeOK, WorkerShape
  <1>2. copy[cur].doc = task[cur].doc /\ task[cur].status \in {"PENDING", "CANCELLED"}
    BY <1>1 DEF IInv, WorkerShape, Held
  <1> QED
    BY <1>1, <1>2 DEF Owned

(* The stores lose nothing of a document nobody asked to delete.            *)
LEMMA StoresKept ==
    ASSUME IInv, [RNext]_vars, NoDeleteAll, Spared, NEW d \in Docs, ~Owned(d)
    PROVE  /\ files[d] => files'[d]
           /\ vectors[d] => vectors'[d]
           /\ chunks[d] => chunks'[d]
  <1> DEFINE Kept == /\ files[d] => files'[d]
                     /\ vectors[d] => vectors'[d]
                     /\ chunks[d] => chunks'[d]
  <1>0. /\ files \in [Docs -> BOOLEAN] /\ vectors \in [Docs -> BOOLEAN] /\ chunks \in [Docs -> BOOLEAN]
        /\ tx \in [Threads -> TxState]
    BY DEF IInv, TypeOK
  <1>1. ASSUME UNCHANGED <<chunks, vectors, files>> PROVE Kept
    BY <1>1
  <1>2. ASSUME NEW e \in Docs, DataLoaderPut(e) \/ IngestIndex(e) \/ IngestPersist(e) PROVE Kept
    BY <1>0, <1>2 DEF DataLoaderPut, IngestIndex, IngestPersist, tables, stores
  <1>3. ASSUME NEW h \in Threads, NEW e \in Docs, StoreFile(h, e) PROVE Kept
    BY <1>0, <1>3 DEF StoreFile, tables
  <1>4. ASSUME DeleteVectors \/ DeleteFiles \/ PurgeChunks \/ PurgeRow PROVE Kept
    <2>1. d # copy[cur].doc
      BY <1>4, WorkerOwns DEF DeleteVectors, DeleteFiles, PurgeChunks, PurgeRow
    <2>2. ASSUME DeleteVectors PROVE Kept
      BY <1>0, <2>1, <2>2 DEF DeleteVectors, tables
    <2>3. ASSUME DeleteFiles PROVE Kept
      BY <1>0, <2>1, <2>3 DEF DeleteFiles, tables
    <2>4. ASSUME PurgeChunks \/ PurgeRow PROVE Kept
      BY <1>0, <2>1, <2>4 DEF PurgeChunks, PurgeRow, stores
    <2> QED
      BY <1>4, <2>2, <2>3, <2>4
  <1>16. ASSUME Discover \/ Reconcile PROVE Kept
    <2>1. UNCHANGED <<chunks, files>>
      BY <1>0, <1>16, PassStep DEF tables
    <2>2. CASE DeleteOrphans
      <3>1. Pass.pc = "purge" /\ vectors' = [c \in Docs |-> vectors[c] /\ c \notin Pass.docs]
        BY <2>2 DEF DeleteOrphans
      <3>2. d \notin Pass.docs
        BY <3>1 DEF Spared, Sifted
      <3> QED
        BY <2>1, <3>1, <3>2
    <2>3. CASE ~DeleteOrphans
      <3>1. UNCHANGED vectors
        BY <1>16, <2>3 DEF Discover, Reconcile, Scroll, Compare
      <3> QED
        BY <2>1, <3>1
    <2> QED
      BY <2>2, <2>3
  <1>5. ASSUME NEW h \in Threads PROVE ~DropCollection(h)
    BY DEF DropCollection, Request, NoDeleteAll
  <1> HIDE DEF Kept
  <1>6. ASSUME NEW h \in Threads, NEW e \in Docs, Receive(h, e) \/ Sweep(h, e) PROVE UNCHANGED <<chunks, vectors, files>>
    BY <1>6 DEF Receive, Sweep, DedupHit, Admit, Reprocess, DeleteAgain, Delete, tables, stores
  <1>7. ASSUME NEW h \in Threads, NEW e \in Docs, Continue(h, e), ~StoreFile(h, e)
        PROVE UNCHANGED <<chunks, vectors, files>>
    BY <1>7 DEF Continue, CancelQueuedDeletion, SaveRow, SaveRowFails, Announce, FetchForIngestion,
                MarkProcessing, Publish, MarkFailed, Verdict, VerdictFails, tables, stores
  <1>8. ASSUME NEW h \in Threads, Flag(h) \/ FlagFails(h) \/ SelectAll(h) \/ FlagAll(h) \/ QueueAll(h) \/ EventRead(h)
        PROVE UNCHANGED <<chunks, vectors, files>>
    BY <1>8 DEF Flag, FlagFails, SelectAll, FlagAll, QueueAll, EventRead, tables, stores
  <1>9. ASSUME NEW e \in Docs, Age(e) \/ IngestTake(e) \/ IngestRejected(e) \/ IngestReport(e) \/ IngestFails(e)
        PROVE UNCHANGED <<chunks, vectors, files>>
    BY <1>9 DEF Age, IngestTake, IngestRejected, IngestReport, IngestFails, tables, stores
  <1>10. ASSUME NEW t \in Tasks, TakeTask(t) PROVE UNCHANGED <<chunks, vectors, files>>
    BY <1>10 DEF TakeTask, tables, stores
  <1>11. ASSUME NEW B \in SUBSET Tasks, Poll(B) PROVE UNCHANGED <<chunks, vectors, files>>
    BY <1>11 DEF Poll, tables, stores
  <1>12. ASSUME Guard \/ SaveTask \/ RecordAttempt \/ WorkerFails \/ Crash
         PROVE UNCHANGED <<chunks, vectors, files>>
    BY <1>12 DEF Guard, SaveTask, RecordAttempt, WorkerFails, Crash, tables, stores
  <1>13. ASSUME NEW h \in Threads, HandlerFails(h) \/ \E e \in Docs : PublishFails(h, e)
         PROVE UNCHANGED <<chunks, vectors, files>>
    BY <1>13 DEF HandlerFails, PublishFails, tables, stores
  <1>14. ASSUME UNCHANGED vars PROVE UNCHANGED <<chunks, vectors, files>>
    BY <1>14 DEF vars, tables, stores
  <1>15. Kept
    BY <1>1, <1>2, <1>3, <1>4, <1>5, <1>6, <1>7, <1>8, <1>9, <1>10, <1>11, <1>12, <1>13, <1>14, <1>16
    DEF RNext, Next, Operate, Advance, Worker, Ingest, Fail
  <1> QED
    BY <1>15 DEF Kept

-----------------------------------------------------------------------------
(* Runs, events and verdicts.                                               *)

(* A run goes on only after what its stage stores is stored.                *)
LEMMA RunAdvances ==
    ASSUME IInv, [RNext]_vars, NEW d \in Docs
    PROVE  \/ run'[d] \in {run[d], "idle"}
           \/ run'[d] = "index" /\ files[d]
           \/ run'[d] = "persist" /\ run[d] = "index" /\ vectors'[d]
           \/ run'[d] = "report" /\ run[d] = "persist" /\ vectors'[d] = vectors[d] /\ chunks'[d]
  <1> DEFINE Advances ==
                \/ run'[d] \in {run[d], "idle"}
                \/ run'[d] = "index" /\ files[d]
                \/ run'[d] = "persist" /\ run[d] = "index" /\ vectors'[d]
                \/ run'[d] = "report" /\ run[d] = "persist" /\ vectors'[d] = vectors[d] /\ chunks'[d]
  <1>0. /\ run \in [Docs -> {"idle", "index", "persist", "report"}]
        /\ vectors \in [Docs -> BOOLEAN] /\ chunks \in [Docs -> BOOLEAN]
        /\ tx \in [Threads -> TxState]
    BY DEF IInv, TypeOK
  <1>1. ASSUME UNCHANGED run PROVE Advances
    BY <1>1
  <1>2. ASSUME NEW e \in Docs, IngestTake(e) PROVE Advances
    BY <1>0, <1>2 DEF IngestTake, SetRun
  <1>3. ASSUME NEW e \in Docs, IngestIndex(e) PROVE Advances
    BY <1>0, <1>3 DEF IngestIndex, SetRun
  <1>4. ASSUME NEW e \in Docs, IngestPersist(e) PROVE Advances
    BY <1>0, <1>4 DEF IngestPersist, SetRun, stores
  <1>5. ASSUME NEW e \in Docs, IngestRejected(e) \/ IngestReport(e) \/ IngestFails(e) PROVE Advances
    BY <1>0, <1>5 DEF IngestRejected, IngestReport, IngestFails, SetRun
  <1> HIDE DEF Advances
  <1>6. ASSUME NEW h \in Threads, NEW e \in Docs, Receive(h, e) \/ Sweep(h, e) PROVE UNCHANGED run
    BY <1>6 DEF Receive, Sweep, DedupHit, Admit, Reprocess, DeleteAgain, Delete, streams
  <1>7. ASSUME NEW h \in Threads, NEW e \in Docs, Continue(h, e) PROVE UNCHANGED run
    BY <1>7 DEF Continue, CancelQueuedDeletion, StoreFile, SaveRow, SaveRowFails, Announce,
                FetchForIngestion, MarkProcessing, Publish, MarkFailed, Verdict, VerdictFails, streams
  <1>8. ASSUME NEW h \in Threads,
               Flag(h) \/ FlagFails(h) \/ SelectAll(h) \/ FlagAll(h) \/ QueueAll(h) \/ EventRead(h)
                   \/ DropCollection(h)
        PROVE UNCHANGED run
    BY <1>8 DEF Flag, FlagFails, SelectAll, FlagAll, QueueAll, EventRead, DropCollection, streams
  <1>9. ASSUME NEW e \in Docs, Age(e) \/ DataLoaderPut(e) PROVE UNCHANGED run
    BY <1>9 DEF Age, DataLoaderPut, streams
  <1>10. ASSUME NEW t \in Tasks, TakeTask(t) PROVE UNCHANGED run
    BY <1>10 DEF TakeTask, streams
  <1>11. ASSUME NEW B \in SUBSET Tasks, Poll(B) PROVE UNCHANGED run
    BY <1>11 DEF Poll, streams
  <1>12. ASSUME Guard \/ DeleteVectors \/ DeleteFiles \/ PurgeChunks \/ PurgeRow \/ SaveTask
                  \/ RecordAttempt \/ WorkerFails \/ Crash
         PROVE UNCHANGED run
    BY <1>12 DEF Guard, DeleteVectors, DeleteFiles, PurgeChunks, PurgeRow, SaveTask,
                 RecordAttempt, WorkerFails, Crash, streams
  <1>13. ASSUME NEW h \in Threads, HandlerFails(h) \/ \E e \in Docs : PublishFails(h, e)
         PROVE UNCHANGED run
    BY <1>13 DEF HandlerFails, PublishFails, streams
  <1>16. ASSUME Discover \/ Reconcile PROVE UNCHANGED run
    BY <1>0, <1>16, PassStep DEF streams
  <1>14. ASSUME UNCHANGED vars PROVE UNCHANGED run
    BY <1>14 DEF vars, streams
  <1>15. Advances
    BY <1>1, <1>2, <1>3, <1>4, <1>5, <1>6, <1>7, <1>8, <1>9, <1>10, <1>11, <1>12, <1>13, <1>14, <1>16
    DEF RNext, Next, Operate, Advance, Worker, Ingest, Fail
  <1> QED
    BY <1>15 DEF Advances

(* A COMPLETED event comes from a run that reports.                         *)
LEMMA EventsFromRuns ==
    ASSUME IInv, [RNext]_vars, NEW d \in Docs, Announced(d)'
    PROVE  Announced(d) \/ run[d] = "report"
  <1> DEFINE Goal == Announced(d) \/ run[d] = "report"
  <1>0. /\ complete \in Seq(Docs \X {"COMPLETED", "FAILED"})
        /\ tx \in [Threads -> TxState] /\ vectors \in [Docs -> BOOLEAN]
    BY DEF IInv, TypeOK
  <1>r. ASSUME NEW e \in Docs, NEW s \in {"COMPLETED", "FAILED"}, Report(e, s),
               e # d \/ s = "FAILED" \/ run[d] = "report"
        PROVE Goal
    BY <1>0, <1>r DEF Report, Announced
  <1>1. ASSUME UNCHANGED complete PROVE Goal
    BY <1>1 DEF Announced
  <1>2. ASSUME NEW e \in Docs, IngestTake(e) \/ IngestRejected(e) \/ IngestReport(e) \/ IngestFails(e)
        PROVE Goal
    <2>1. \/ UNCHANGED complete \/ Report(e, "FAILED")
          \/ Report(e, "COMPLETED") /\ run[e] = "report"
      BY <1>2 DEF IngestTake, IngestRejected, IngestReport, IngestFails
    <2> HIDE DEF Goal
    <2> QED
      BY <1>r, <1>1, <2>1
  <1>3. ASSUME NEW h \in Threads, EventRead(h) PROVE Goal
    <2>1. complete # <<>> /\ complete' = Tail(complete)
      BY <1>3 DEF EventRead
    <2> QED
      BY <1>0, <2>1 DEF Announced
  <1> HIDE DEF Goal
  <1>6. ASSUME NEW h \in Threads, NEW e \in Docs, Receive(h, e) \/ Sweep(h, e) PROVE UNCHANGED complete
    BY <1>6 DEF Receive, Sweep, DedupHit, Admit, Reprocess, DeleteAgain, Delete, streams
  <1>7. ASSUME NEW h \in Threads, NEW e \in Docs, Continue(h, e) PROVE UNCHANGED complete
    BY <1>7 DEF Continue, CancelQueuedDeletion, StoreFile, SaveRow, SaveRowFails, Announce,
                FetchForIngestion, MarkProcessing, Publish, MarkFailed, Verdict, VerdictFails, streams
  <1>8. ASSUME NEW h \in Threads,
               Flag(h) \/ FlagFails(h) \/ SelectAll(h) \/ FlagAll(h) \/ QueueAll(h) \/ DropCollection(h)
        PROVE UNCHANGED complete
    BY <1>8 DEF Flag, FlagFails, SelectAll, FlagAll, QueueAll, DropCollection, streams
  <1>9. ASSUME NEW e \in Docs, Age(e) \/ DataLoaderPut(e) \/ IngestIndex(e) \/ IngestPersist(e)
        PROVE UNCHANGED complete
    BY <1>9 DEF Age, DataLoaderPut, IngestIndex, IngestPersist, streams
  <1>10. ASSUME NEW t \in Tasks, TakeTask(t) PROVE UNCHANGED complete
    BY <1>10 DEF TakeTask, streams
  <1>11. ASSUME NEW B \in SUBSET Tasks, Poll(B) PROVE UNCHANGED complete
    BY <1>11 DEF Poll, streams
  <1>12. ASSUME Guard \/ DeleteVectors \/ DeleteFiles \/ PurgeChunks \/ PurgeRow \/ SaveTask
                  \/ RecordAttempt \/ WorkerFails \/ Crash
         PROVE UNCHANGED complete
    BY <1>12 DEF Guard, DeleteVectors, DeleteFiles, PurgeChunks, PurgeRow, SaveTask,
                 RecordAttempt, WorkerFails, Crash, streams
  <1>13. ASSUME NEW h \in Threads, HandlerFails(h) \/ \E e \in Docs : PublishFails(h, e)
         PROVE UNCHANGED complete
    BY <1>13 DEF HandlerFails, PublishFails, streams
  <1>16. ASSUME Discover \/ Reconcile PROVE UNCHANGED complete
    BY <1>0, <1>16, PassStep DEF streams
  <1>14. ASSUME UNCHANGED vars PROVE UNCHANGED complete
    BY <1>14 DEF vars, streams
  <1>15. Goal
    BY <1>1, <1>2, <1>3, <1>6, <1>7, <1>8, <1>9, <1>10, <1>11, <1>12, <1>13, <1>14, <1>16
    DEF RNext, Next, Operate, Advance, Worker, Ingest, Fail
  <1> QED
    BY <1>15 DEF Goal

(* A thread that is about to write COMPLETED has read such an event.        *)
LEMMA VerdictsFromEvents ==
    ASSUME IInv, [RNext]_vars, NEW d \in Docs, Deciding(d)'
    PROVE  Deciding(d) \/ Announced(d)
  <1> DEFINE Decides(r) == r.pc = "verdict" /\ r.kind = "COMPLETED" /\ d \in r.docs
             Goal == \A h \in Threads : Decides(tx'[h]) => Decides(tx[h]) \/ Announced(d)
  <1>0. /\ tx \in [Threads -> TxState] /\ complete \in Seq(Docs \X {"COMPLETED", "FAILED"})
    BY DEF IInv, TypeOK
  <1>i. ~Decides(Idle)
    BY DEF Idle, At
  <1>f. ASSUME NEW h \in Threads, Finish(h) PROVE Goal
    BY <1>0, <1>f, <1>i DEF Finish
  <1>s. ASSUME NEW h \in Threads, NEW p, p # "verdict", Step(h, p) PROVE Goal
    BY <1>0, <1>s DEF Step, TxState
  <1>a. ASSUME NEW h \in Threads, NEW pc, NEW kind, NEW ds, NEW seen, pc # "verdict",
               tx' = [tx EXCEPT ![h] = At(pc, kind, ds, seen)]
        PROVE Goal
    BY <1>0, <1>a DEF At
  <1>m. ASSUME NEW h \in Threads, NEW p, NEW L, p # "verdict",
               tx' = [tx EXCEPT ![h] = [@ EXCEPT !.pc = p, !.locks = L]]
        PROVE Goal
    BY <1>0, <1>m DEF TxState
  <1>1. ASSUME UNCHANGED tx PROVE Goal
    BY <1>1
  <1> HIDE DEF Goal
  <1>2. ASSUME NEW h \in Threads, EventRead(h) PROVE Goal
    <2> DEFINE e == complete[1][1]
               s == complete[1][2]
    <2>1. complete # <<>> /\ 1 \in DOMAIN complete /\ complete[1] \in Docs \X {"COMPLETED", "FAILED"}
      BY <1>0, <1>2 DEF EventRead
    <2>2. complete[1] = <<e, s>>
      BY <2>1
    <2>3. CASE tx' = [tx EXCEPT ![h] = Idle]
      BY <2>3, <1>f DEF Finish
    <2>4. CASE tx' = [tx EXCEPT ![h] = At("verdict", s, {e}, row[e])]
      <3>1. Decides(At("verdict", s, {e}, row[e])) => Announced(d)
        BY <2>1, <2>2 DEF At, Announced
      <3> QED
        BY <1>0, <2>4, <3>1 DEF Goal
    <2> QED
      BY <1>2, <2>3, <2>4 DEF EventRead
  <1>3. ASSUME NEW h \in Threads, NEW e \in Docs, Receive(h, e) \/ Sweep(h, e) PROVE Goal
    <2>1. \/ UNCHANGED tx
          \/ \E pc \in TxPc \ {"verdict"}, k \in TxKind :
                tx' = [tx EXCEPT ![h] = At(pc, k, {e}, row[e])]
      BY <1>3 DEF Receive, Sweep, DedupHit, Admit, Reprocess, DeleteAgain, Delete, TxPc, TxKind, AllRequests
    <2> QED
      BY <1>1, <1>a, <2>1
  <1>4. ASSUME NEW h \in Threads, NEW e \in Docs, Continue(h, e) PROVE Goal
    <2>1. CASE CancelQueuedDeletion(h, e)
      <3>1. PICK p \in {"put", "save"} : tx' = [tx EXCEPT ![h] = [@ EXCEPT !.pc = p, !.locks = QueuedFor(e)]]
        BY <2>1 DEF CancelQueuedDeletion
      <3> QED
        BY <1>m, <3>1
    <2>2. CASE SaveRow(h, e)
      <3>1. PICK p \in {"announce", "fetch"} : tx' = [tx EXCEPT ![h] = [@ EXCEPT !.pc = p, !.locks = {}]]
        BY <2>2 DEF SaveRow
      <3> QED
        BY <1>m, <3>1
    <2>3. CASE StoreFile(h, e)
      BY <2>3, <1>s DEF StoreFile
    <2>4. CASE FetchForIngestion(h, e) \/ MarkProcessing(h, e)
      BY <2>4, <1>s, <1>f DEF FetchForIngestion, MarkProcessing
    <2>5. CASE SaveRowFails(h, e) \/ Announce(h, e) \/ Publish(h, e) \/ MarkFailed(h, e)
                 \/ Verdict(h, e) \/ VerdictFails(h, e)
      BY <2>5, <1>f DEF SaveRowFails, Announce, Publish, MarkFailed, Verdict, VerdictFails
    <2> QED
      BY <1>4, <2>1, <2>2, <2>3, <2>4, <2>5 DEF Continue
  <1>5. ASSUME NEW h \in Threads, Flag(h) \/ FlagFails(h) \/ QueueAll(h) \/ HandlerFails(h) PROVE Goal
    BY <1>5, <1>f DEF Flag, FlagFails, QueueAll, HandlerFails
  <1>6. ASSUME NEW h \in Threads, FlagAll(h) \/ \E e \in Docs : PublishFails(h, e) PROVE Goal
    BY <1>6, <1>s DEF FlagAll, PublishFails
  <1>7. ASSUME NEW h \in Threads, SelectAll(h) PROVE Goal
    <2>1. CASE Finish(h)
      BY <2>1, <1>f
    <2>2. ASSUME NEW ds \in SUBSET Docs, tx' = [tx EXCEPT ![h] = [@ EXCEPT !.pc = "flagAll", !.docs = ds]]
          PROVE Goal
      BY <1>0, <2>2 DEF Goal, TxState
    <2>3. {c \in Docs : row[c] \notin {"ABSENT", "DELETING"}} \in SUBSET Docs
      OBVIOUS
    <2> QED
      BY <1>7, <2>1, <2>2, <2>3 DEF SelectAll, Finish
  <1>8. ASSUME NEW h \in Threads, DropCollection(h) PROVE Goal
    <2>1. PICK b \in BOOLEAN : tx' = [tx EXCEPT ![h] = [At("select", "deleteAll", {}, "ABSENT") EXCEPT !.dropped = b]]
      BY <1>8 DEF DropCollection
    <2>2. ~Decides([At("select", "deleteAll", {}, "ABSENT") EXCEPT !.dropped = b])
      BY DEF At
    <2> QED
      BY <1>0, <2>1, <2>2 DEF Goal
  <1>9. ASSUME Crash PROVE Goal
    BY <1>9, <1>i DEF Crash, Goal
  <1>10. ASSUME NEW e \in Docs, Age(e) \/ DataLoaderPut(e) \/ Ingest(e) \/ IngestFails(e) PROVE UNCHANGED tx
    BY <1>10 DEF Age, DataLoaderPut, Ingest, IngestTake, IngestIndex, IngestPersist, IngestRejected,
                 IngestReport, IngestFails
  <1>11. ASSUME NEW B \in SUBSET Tasks, Poll(B) PROVE UNCHANGED tx
    BY <1>11 DEF Poll
  <1>12. ASSUME Worker \/ WorkerFails PROVE UNCHANGED tx
    BY <1>12 DEF Worker, TakeTask, Guard, DeleteVectors, DeleteFiles, PurgeChunks, PurgeRow, SaveTask,
                 RecordAttempt, WorkerFails
  <1>15. ASSUME Discover \/ Reconcile PROVE Goal
    <2>1. vectors \in [Docs -> BOOLEAN]
      BY DEF IInv, TypeOK
    <2>2. PICK pc \in PassPc, kind \in {"none", "reconcile"}, ds \in SUBSET Docs :
             tx' = [tx EXCEPT !["sweeper"] = At(pc, kind, ds, "ABSENT")]
      BY <1>0, <1>15, <2>1, PassStep
    <2> QED
      BY <1>0, <1>15, <1>a, <2>1, <2>2, PassStep DEF PassPc
  <1>13. ASSUME UNCHANGED vars PROVE UNCHANGED tx
    BY <1>13 DEF vars
  <1>14. Goal
    BY <1>1, <1>2, <1>3, <1>4, <1>5, <1>6, <1>7, <1>8, <1>9, <1>10, <1>11, <1>12, <1>13, <1>15
    DEF RNext, Next, Operate, Advance, Fail
  <1> QED
    BY <1>14 DEF Goal, Deciding

(* Nothing but a verdict makes a row COMPLETED.                             *)
LEMMA RowsFromVerdicts ==
    ASSUME IInv, [RNext]_vars, NEW d \in Docs, row'[d] = "COMPLETED"
    PROVE  row[d] = "COMPLETED" \/ Deciding(d)
  <1> DEFINE Goal == row[d] = "COMPLETED" \/ Deciding(d)
  <1>0. row \in [Docs -> RowState] /\ tx \in [Threads -> TxState] /\ vectors \in [Docs -> BOOLEAN]
    BY DEF IInv, TypeOK
  <1>1. ASSUME UNCHANGED row PROVE Goal
    BY <1>1
  <1>2. ASSUME NEW e \in Docs, NEW s, s # "COMPLETED", SetRow(e, s) PROVE Goal
    BY <1>0, <1>2 DEF SetRow
  <1>3. ASSUME NEW h \in Threads, FlagRows(h) PROVE Goal
    BY <1>0, <1>3 DEF FlagRows
  <1>4. ASSUME PurgeRow PROVE Goal
    BY <1>0, <1>4 DEF PurgeRow
  <1>5. ASSUME NEW h \in Threads, NEW e \in Docs, Verdict(h, e) PROVE Goal
    <2>1. CASE SetRow(e, tx[h].kind)
      <3>1. row'[d] = IF d = e THEN tx[h].kind ELSE row[d]
        BY <1>0, <2>1 DEF SetRow
      <3>2. tx[h].pc = "verdict" /\ e \in tx[h].docs
        BY <1>5 DEF Verdict
      <3> QED
        BY <3>1, <3>2 DEF Deciding
    <2>2. CASE UNCHANGED row
      BY <2>2
    <2> QED
      BY <1>5, <2>1, <2>2 DEF Verdict
  <1> HIDE DEF Goal
  <1>6. ASSUME NEW h \in Threads, NEW e \in Docs, Continue(h, e), ~Verdict(h, e) PROVE Goal
    <2>1. \/ UNCHANGED row
          \/ \E s \in {"PENDING", "PROCESSING", "FAILED"} : SetRow(e, s)
      BY <1>6 DEF Continue, CancelQueuedDeletion, StoreFile, SaveRow, SaveRowFails, Announce,
                  FetchForIngestion, MarkProcessing, Merge, Publish, MarkFailed, VerdictFails, tables
    <2> QED
      BY <1>1, <1>2, <2>1
  <1>7. ASSUME NEW h \in Threads, Flag(h) \/ FlagAll(h) PROVE Goal
    BY <1>3, <1>7 DEF Flag, FlagAll
  <1>8. ASSUME NEW h \in Threads,
               FlagFails(h) \/ SelectAll(h) \/ QueueAll(h) \/ EventRead(h) \/ DropCollection(h)
        PROVE UNCHANGED row
    BY <1>8 DEF FlagFails, SelectAll, QueueAll, EventRead, DropCollection, tables
  <1>9. ASSUME NEW h \in Threads, NEW e \in Docs, Receive(h, e) \/ Sweep(h, e) PROVE UNCHANGED row
    BY <1>9 DEF Receive, Sweep, DedupHit, Admit, Reprocess, DeleteAgain, Delete, tables
  <1>10. ASSUME NEW e \in Docs, Age(e) \/ DataLoaderPut(e) \/ Ingest(e) \/ IngestFails(e) PROVE UNCHANGED row
    BY <1>10 DEF Age, DataLoaderPut, Ingest, IngestTake, IngestIndex, IngestPersist, IngestRejected,
                 IngestReport, IngestFails, tables
  <1>11. ASSUME NEW B \in SUBSET Tasks, Poll(B) PROVE UNCHANGED row
    BY <1>11 DEF Poll, tables
  <1>12. ASSUME Worker \/ WorkerFails \/ Crash PROVE PurgeRow \/ UNCHANGED row
    BY <1>12 DEF Worker, TakeTask, Guard, DeleteVectors, DeleteFiles, PurgeChunks, SaveTask,
                 RecordAttempt, WorkerFails, Crash, tables
  <1>13. ASSUME NEW h \in Threads, HandlerFails(h) \/ \E e \in Docs : PublishFails(h, e)
         PROVE UNCHANGED row
    BY <1>13 DEF HandlerFails, PublishFails, tables
  <1>16. ASSUME Discover \/ Reconcile PROVE UNCHANGED row
    BY <1>0, <1>16, PassStep DEF tables
  <1>14. ASSUME UNCHANGED vars PROVE UNCHANGED row
    BY <1>14 DEF vars, tables
  <1>15. Goal
    BY <1>1, <1>4, <1>5, <1>6, <1>7, <1>8, <1>9, <1>10, <1>11, <1>12, <1>13, <1>14, <1>16
    DEF RNext, Next, Operate, Advance, Fail
  <1> QED
    BY <1>15 DEF Goal

-----------------------------------------------------------------------------
(* Rows, entries and vectors.                                               *)

(* Only the worker removes a row.                                           *)
LEMMA RowsStay ==
    ASSUME IInv, [RNext]_vars, NEW d \in Docs, ~Owned(d), row[d] # "ABSENT"
    PROVE  row'[d] # "ABSENT"
  <1> DEFINE Goal == row'[d] # "ABSENT"
  <1>0. row \in [Docs -> RowState] /\ tx \in [Threads -> TxState] /\ vectors \in [Docs -> BOOLEAN]
    BY DEF IInv, TypeOK
  <1>1. ASSUME UNCHANGED row PROVE Goal
    BY <1>1
  <1>2. ASSUME NEW e \in Docs, NEW s, s # "ABSENT", SetRow(e, s) PROVE Goal
    BY <1>0, <1>2 DEF SetRow
  <1>3. ASSUME NEW h \in Threads, FlagRows(h) PROVE Goal
    BY <1>0, <1>3 DEF FlagRows
  <1>4. ASSUME PurgeRow PROVE Goal
    <2>1. d # copy[cur].doc
      BY <1>4, WorkerOwns DEF PurgeRow
    <2> QED
      BY <1>0, <1>4, <2>1 DEF PurgeRow
  <1> HIDE DEF Goal
  <1>6. ASSUME NEW h \in Threads, NEW e \in Docs, Continue(h, e) PROVE Goal
    <2>1. \/ UNCHANGED row
          \/ \E s \in {"PENDING", "PROCESSING", "FAILED"} : SetRow(e, s)
          \/ Verdict(h, e)
      BY <1>6 DEF Continue, CancelQueuedDeletion, StoreFile, SaveRow, SaveRowFails, Announce,
                  FetchForIngestion, MarkProcessing, Merge, Publish, MarkFailed, VerdictFails, tables
    <2>2. CASE Verdict(h, e)
      <3>1. tx[h].kind \in {"COMPLETED", "FAILED"}
        BY <2>2 DEF Verdict, IInv, TxShape
      <3>2. UNCHANGED row \/ SetRow(e, tx[h].kind)
        BY <2>2 DEF Verdict
      <3> QED
        BY <1>1, <1>2, <3>1, <3>2
    <2> QED
      BY <1>1, <1>2, <2>1, <2>2
  <1>7. ASSUME NEW h \in Threads, Flag(h) \/ FlagAll(h) PROVE Goal
    BY <1>3, <1>7 DEF Flag, FlagAll
  <1>8. ASSUME NEW h \in Threads,
               FlagFails(h) \/ SelectAll(h) \/ QueueAll(h) \/ EventRead(h) \/ DropCollection(h)
        PROVE UNCHANGED row
    BY <1>8 DEF FlagFails, SelectAll, QueueAll, EventRead, DropCollection, tables
  <1>9. ASSUME NEW h \in Threads, NEW e \in Docs, Receive(h, e) \/ Sweep(h, e) PROVE UNCHANGED row
    BY <1>9 DEF Receive, Sweep, DedupHit, Admit, Reprocess, DeleteAgain, Delete, tables
  <1>10. ASSUME NEW e \in Docs, Age(e) \/ DataLoaderPut(e) \/ Ingest(e) \/ IngestFails(e) PROVE UNCHANGED row
    BY <1>10 DEF Age, DataLoaderPut, Ingest, IngestTake, IngestIndex, IngestPersist, IngestRejected,
                 IngestReport, IngestFails, tables
  <1>11. ASSUME NEW B \in SUBSET Tasks, Poll(B) PROVE UNCHANGED row
    BY <1>11 DEF Poll, tables
  <1>12. ASSUME Worker \/ WorkerFails \/ Crash PROVE PurgeRow \/ UNCHANGED row
    BY <1>12 DEF Worker, TakeTask, Guard, DeleteVectors, DeleteFiles, PurgeChunks, SaveTask,
                 RecordAttempt, WorkerFails, Crash, tables
  <1>13. ASSUME NEW h \in Threads, HandlerFails(h) \/ \E e \in Docs : PublishFails(h, e)
         PROVE UNCHANGED row
    BY <1>13 DEF HandlerFails, PublishFails, tables
  <1>16. ASSUME Discover \/ Reconcile PROVE UNCHANGED row
    BY <1>0, <1>16, PassStep DEF tables
  <1>14. ASSUME UNCHANGED vars PROVE UNCHANGED row
    BY <1>14 DEF vars, tables
  <1>15. Goal
    BY <1>1, <1>4, <1>6, <1>7, <1>8, <1>9, <1>10, <1>11, <1>12, <1>13, <1>14, <1>16
    DEF RNext, Next, Operate, Advance, Fail
  <1> QED
    BY <1>15 DEF Goal

(* An entry of documents.ready comes from a thread that publishes.          *)
LEMMA EntriesFromThreads ==
    ASSUME IInv, [RNext]_vars, NEW d \in Docs, ready'[d] > 0
    PROVE  ready[d] > 0 \/ Sending(d)
  <1> DEFINE Goal == ready[d] > 0 \/ Sending(d)
  <1>0. /\ ready \in [Docs -> 0 .. MaxReady] /\ MaxReady \in Nat
        /\ tx \in [Threads -> TxState] /\ vectors \in [Docs -> BOOLEAN]
    BY BoundsAssumption DEF IInv, TypeOK
  <1>1. ASSUME UNCHANGED ready PROVE Goal
    BY <1>1
  <1>2. ASSUME NEW e \in Docs, Ack(e) PROVE Goal
    BY <1>0, <1>2 DEF Ack
  <1>3. ASSUME NEW h \in Threads, NEW e \in Docs, Announce(h, e) \/ Publish(h, e) PROVE Goal
    <2>1. PublishReady(e) /\ (e = d => Sending(d))
      BY <1>3 DEF Announce, Publish, Sending
    <2> QED
      BY <1>0, <2>1 DEF PublishReady
  <1> HIDE DEF Goal
  <1>4. ASSUME NEW e \in Docs, Ingest(e) \/ IngestFails(e) PROVE Ack(e) \/ UNCHANGED ready
    BY <1>4 DEF Ingest, IngestTake, IngestIndex, IngestPersist, IngestRejected, IngestReport, IngestFails
  <1>6. ASSUME NEW h \in Threads, NEW e \in Docs, Receive(h, e) \/ Sweep(h, e) PROVE UNCHANGED ready
    BY <1>6 DEF Receive, Sweep, DedupHit, Admit, Reprocess, DeleteAgain, Delete, streams
  <1>7. ASSUME NEW h \in Threads, NEW e \in Docs, Continue(h, e), ~Announce(h, e), ~Publish(h, e)
        PROVE UNCHANGED ready
    BY <1>7 DEF Continue, CancelQueuedDeletion, StoreFile, SaveRow, SaveRowFails,
                FetchForIngestion, MarkProcessing, MarkFailed, Verdict, VerdictFails, streams
  <1>8. ASSUME NEW h \in Threads,
               Flag(h) \/ FlagFails(h) \/ SelectAll(h) \/ FlagAll(h) \/ QueueAll(h) \/ EventRead(h)
                   \/ DropCollection(h)
        PROVE UNCHANGED ready
    BY <1>8 DEF Flag, FlagFails, SelectAll, FlagAll, QueueAll, EventRead, DropCollection, streams
  <1>9. ASSUME NEW e \in Docs, Age(e) \/ DataLoaderPut(e) PROVE UNCHANGED ready
    BY <1>9 DEF Age, DataLoaderPut, streams
  <1>11. ASSUME NEW B \in SUBSET Tasks, Poll(B) PROVE UNCHANGED ready
    BY <1>11 DEF Poll, streams
  <1>12. ASSUME Worker \/ WorkerFails \/ Crash PROVE UNCHANGED ready
    BY <1>12 DEF Worker, TakeTask, Guard, DeleteVectors, DeleteFiles, PurgeChunks, PurgeRow, SaveTask,
                 RecordAttempt, WorkerFails, Crash, streams
  <1>13. ASSUME NEW h \in Threads, HandlerFails(h) \/ \E e \in Docs : PublishFails(h, e)
         PROVE UNCHANGED ready
    BY <1>13 DEF HandlerFails, PublishFails, streams
  <1>16. ASSUME Discover \/ Reconcile PROVE UNCHANGED ready
    BY <1>0, <1>16, PassStep DEF streams
  <1>14. ASSUME UNCHANGED vars PROVE UNCHANGED ready
    BY <1>14 DEF vars, streams
  <1>15. Goal
    BY <1>1, <1>2, <1>3, <1>4, <1>6, <1>7, <1>8, <1>9, <1>11, <1>12, <1>13, <1>14, <1>16
    DEF RNext, Next, Operate, Advance, Fail
  <1> QED
    BY <1>15 DEF Goal

(* A thread that publishes has found the row there, or goes on publishing;  *)
(* and nothing but the pass itself brings the scheduler's thread to its     *)
(* comparison and what follows.                                             *)
Sends(r) == r.pc \in {"announce", "mark", "publish"}
Passes(r) == r.pc \in {"compare", "purge"}
Turns(r, s) ==
    /\ Passes(s) => s = r
    /\ Sends(s) => \/ Sends(r) /\ s.docs = r.docs
                   \/ \A d \in s.docs : row'[d] # "ABSENT"

LEMMA ThreadsTurn ==
    ASSUME IInv, [Next]_vars, NEW g \in Threads PROVE Turns(tx[g], tx'[g])
  <1> DEFINE Goal == \A h \in Threads : Turns(tx[h], tx'[h])
  <1>0. tx \in [Threads -> TxState] /\ row \in [Docs -> RowState]
    BY DEF IInv, TypeOK
  <1>c. \A r \in TxState : Turns(r, r)
    BY DEF Turns
  <1>q. \A r, s : s.pc \in TxPc \ {"announce", "mark", "publish", "compare", "purge"} => Turns(r, s)
    BY DEF Turns, Sends, Passes
  <1>o. ASSUME NEW h \in Threads, NEW s, tx' = [tx EXCEPT ![h] = s], Turns(tx[h], s) PROVE Goal
    BY <1>0, <1>c, <1>o
  <1> HIDE DEF Goal
  <1>f. ASSUME NEW h \in Threads, Finish(h) PROVE Goal
    <2>1. Turns(tx[h], Idle)
      BY <1>q DEF Idle, At, TxPc
    <2> QED
      BY <1>f, <1>o, <2>1 DEF Finish
  <1>s. ASSUME NEW h \in Threads, NEW p \in TxPc \ {"announce", "mark", "publish", "compare", "purge"}, Step(h, p)
        PROVE Goal
    <2>1. [tx[h] EXCEPT !.pc = p].pc = p
      BY <1>0 DEF TxState
    <2>2. Turns(tx[h], [tx[h] EXCEPT !.pc = p])
      BY <1>q, <2>1
    <2> QED
      BY <1>s, <1>o, <2>2 DEF Step
  <1>a. ASSUME NEW h \in Threads, NEW pc \in TxPc \ {"announce", "mark", "publish", "compare", "purge"},
               NEW kind, NEW ds, NEW seen, tx' = [tx EXCEPT ![h] = At(pc, kind, ds, seen)]
        PROVE Goal
    <2>1. Turns(tx[h], At(pc, kind, ds, seen))
      BY <1>q DEF At
    <2> QED
      BY <1>a, <1>o, <2>1
  <1>1. ASSUME UNCHANGED tx PROVE Goal
    BY <1>0, <1>1, <1>c DEF Goal
  <1>2. ASSUME NEW h \in Threads, EventRead(h) PROVE Goal
    BY <1>2, <1>f, <1>a DEF EventRead, Finish, TxPc
  <1>3. ASSUME NEW h \in Threads, NEW e \in Docs, Receive(h, e) \/ Sweep(h, e) PROVE Goal
    <2>1. CASE Reprocess(h, e)
      <3>1. /\ tx' = [tx EXCEPT ![h] = At("mark", "reprocess", {e}, row[e])]
            /\ row' = row /\ row[e] # "ABSENT"
        BY <2>1 DEF Reprocess, tables
      <3>2. Turns(tx[h], At("mark", "reprocess", {e}, row[e]))
        BY <3>1 DEF Turns, Sends, Passes, At
      <3> QED
        BY <1>o, <3>1, <3>2
    <2>2. CASE ~Reprocess(h, e)
      <3>1. \/ UNCHANGED tx
            \/ \E pc \in TxPc \ {"announce", "mark", "publish", "compare", "purge"}, k \in TxKind :
                  tx' = [tx EXCEPT ![h] = At(pc, k, {e}, row[e])]
        BY <1>3, <2>2 DEF Receive, Sweep, DedupHit, Admit, DeleteAgain, Delete, TxPc, TxKind, AllRequests
      <3> QED
        BY <1>1, <1>a, <3>1
    <2> QED
      BY <2>1, <2>2
  <1>4. ASSUME NEW h \in Threads, NEW e \in Docs, Continue(h, e) PROVE Goal
    <2>1. CASE CancelQueuedDeletion(h, e)
      <3>1. PICK p \in {"put", "save"} : tx' = [tx EXCEPT ![h] = [@ EXCEPT !.pc = p, !.locks = QueuedFor(e)]]
        BY <2>1 DEF CancelQueuedDeletion
      <3>2. [tx[h] EXCEPT !.pc = p, !.locks = QueuedFor(e)].pc = p
        BY <1>0 DEF TxState
      <3>3. Turns(tx[h], [tx[h] EXCEPT !.pc = p, !.locks = QueuedFor(e)])
        BY <1>q, <3>2 DEF TxPc
      <3> QED
        BY <1>o, <3>1, <3>3
    <2>2. CASE SaveRow(h, e)
      <3>1. PICK p \in {"announce", "fetch"} : tx' = [tx EXCEPT ![h] = [@ EXCEPT !.pc = p, !.locks = {}]]
        BY <2>2 DEF SaveRow
      <3>2. [tx[h] EXCEPT !.pc = p, !.locks = {}].pc = p /\ [tx[h] EXCEPT !.pc = p, !.locks = {}].docs = {e}
        BY <1>0, <2>2 DEF TxState, SaveRow
      <3>3. row'[e] # "ABSENT"
        BY <1>0, <2>2 DEF SaveRow, SetRow
      <3>4. Turns(tx[h], [tx[h] EXCEPT !.pc = p, !.locks = {}])
        BY <3>2, <3>3 DEF Turns, Sends, Passes
      <3> QED
        BY <1>o, <3>1, <3>4
    <2>3. CASE StoreFile(h, e)
      BY <2>3, <1>s DEF StoreFile, TxPc
    <2>4. CASE FetchForIngestion(h, e)
      <3>1. CASE row[e] # "ABSENT"
        <4>1. tx' = [tx EXCEPT ![h] = [@ EXCEPT !.pc = "mark"]] /\ row' = row /\ tx[h].docs = {e}
          BY <2>4, <3>1 DEF FetchForIngestion, Step, tables
        <4>2. [tx[h] EXCEPT !.pc = "mark"].pc = "mark" /\ [tx[h] EXCEPT !.pc = "mark"].docs = {e}
          BY <1>0, <4>1 DEF TxState
        <4>3. Turns(tx[h], [tx[h] EXCEPT !.pc = "mark"])
          BY <3>1, <4>1, <4>2 DEF Turns, Sends, Passes
        <4> QED
          BY <1>o, <4>1, <4>3
      <3>2. CASE row[e] = "ABSENT"
        BY <2>4, <3>2, <1>f DEF FetchForIngestion
      <3> QED
        BY <3>1, <3>2
    <2>5. CASE MarkProcessing(h, e)
      <3>1. tx' = [tx EXCEPT ![h] = [@ EXCEPT !.pc = "publish"]] /\ tx[h].pc = "mark"
        BY <2>5 DEF MarkProcessing, Step
      <3>2. [tx[h] EXCEPT !.pc = "publish"].pc = "publish" /\ [tx[h] EXCEPT !.pc = "publish"].docs = tx[h].docs
        BY <1>0 DEF TxState
      <3>3. Turns(tx[h], [tx[h] EXCEPT !.pc = "publish"])
        BY <3>1, <3>2 DEF Turns, Sends, Passes
      <3> QED
        BY <1>o, <3>1, <3>3
    <2>6. CASE SaveRowFails(h, e) \/ Announce(h, e) \/ Publish(h, e) \/ MarkFailed(h, e)
                 \/ Verdict(h, e) \/ VerdictFails(h, e)
      BY <2>6, <1>f DEF SaveRowFails, Announce, Publish, MarkFailed, Verdict, VerdictFails
    <2> QED
      BY <1>4, <2>1, <2>2, <2>3, <2>4, <2>5, <2>6 DEF Continue
  <1>5. ASSUME NEW h \in Threads, Flag(h) \/ FlagFails(h) \/ QueueAll(h) \/ HandlerFails(h) PROVE Goal
    BY <1>5, <1>f DEF Flag, FlagFails, QueueAll, HandlerFails
  <1>6. ASSUME NEW h \in Threads, FlagAll(h) \/ \E e \in Docs : PublishFails(h, e) PROVE Goal
    BY <1>6, <1>s DEF FlagAll, PublishFails, TxPc
  <1>7. ASSUME NEW h \in Threads, SelectAll(h) PROVE Goal
    <2>1. CASE Finish(h)
      BY <2>1, <1>f
    <2>2. ASSUME NEW ds \in SUBSET Docs, tx' = [tx EXCEPT ![h] = [@ EXCEPT !.pc = "flagAll", !.docs = ds]]
          PROVE Goal
      <3>1. [tx[h] EXCEPT !.pc = "flagAll", !.docs = ds].pc = "flagAll"
        BY <1>0 DEF TxState
      <3>2. Turns(tx[h], [tx[h] EXCEPT !.pc = "flagAll", !.docs = ds])
        BY <1>q, <3>1 DEF TxPc
      <3> QED
        BY <1>o, <2>2, <3>2
    <2>3. {c \in Docs : row[c] \notin {"ABSENT", "DELETING"}} \in SUBSET Docs
      OBVIOUS
    <2> QED
      BY <1>7, <2>1, <2>2, <2>3 DEF SelectAll, Finish
  <1>8. ASSUME NEW h \in Threads, DropCollection(h) PROVE Goal
    <2>1. PICK b \in BOOLEAN : tx' = [tx EXCEPT ![h] = [At("select", "deleteAll", {}, "ABSENT") EXCEPT !.dropped = b]]
      BY <1>8 DEF DropCollection
    <2>2. [At("select", "deleteAll", {}, "ABSENT") EXCEPT !.dropped = b].pc = "select"
      BY DEF At
    <2>3. Turns(tx[h], [At("select", "deleteAll", {}, "ABSENT") EXCEPT !.dropped = b])
      BY <1>q, <2>2 DEF TxPc
    <2> QED
      BY <1>o, <2>1, <2>3
  <1>9. ASSUME Crash PROVE Goal
    <2>1. \A r : Turns(r, Idle)
      BY <1>q DEF Idle, At, TxPc
    <2> QED
      BY <1>9, <2>1 DEF Crash, Goal
  <1>10. ASSUME NEW e \in Docs, Age(e) \/ DataLoaderPut(e) \/ Ingest(e) \/ IngestFails(e) PROVE UNCHANGED tx
    BY <1>10 DEF Age, DataLoaderPut, Ingest, IngestTake, IngestIndex, IngestPersist, IngestRejected,
                 IngestReport, IngestFails
  <1>11. ASSUME NEW B \in SUBSET Tasks, Poll(B) PROVE UNCHANGED tx
    BY <1>11 DEF Poll
  <1>12. ASSUME Worker \/ WorkerFails PROVE UNCHANGED tx
    BY <1>12 DEF Worker, TakeTask, Guard, DeleteVectors, DeleteFiles, PurgeChunks, PurgeRow, SaveTask,
                 RecordAttempt, WorkerFails
  <1>13. ASSUME UNCHANGED vars PROVE UNCHANGED tx
    BY <1>13 DEF vars
  <1>14. Goal
    BY <1>1, <1>2, <1>3, <1>4, <1>5, <1>6, <1>7, <1>8, <1>9, <1>10, <1>11, <1>12, <1>13
    DEF Next, Operate, Advance, Fail
  <1> QED
    BY <1>14 DEF Goal

(* Vectors come from a run, which has an entry.                             *)
LEMMA VectorsFromRuns ==
    ASSUME IInv, [RNext]_vars, NEW d \in Docs, vectors'[d]
    PROVE  vectors[d] \/ ready[d] > 0
  <1> DEFINE Goal == vectors[d] \/ ready[d] > 0
  <1>0. vectors \in [Docs -> BOOLEAN] /\ tx \in [Threads -> TxState] /\ RunHasEntry
    BY DEF IInv, TypeOK
  <1>1. ASSUME UNCHANGED vectors PROVE Goal
    BY <1>1
  <1>2. ASSUME NEW e \in Docs, IngestIndex(e) PROVE Goal
    BY <1>0, <1>2 DEF IngestIndex, RunHasEntry
  <1>3. ASSUME DeleteVectors PROVE Goal
    BY <1>0, <1>3 DEF DeleteVectors
  <1>4. ASSUME NEW h \in Threads, DropCollection(h) PROVE Goal
    BY <1>0, <1>4 DEF DropCollection
  <1>5. ASSUME DeleteOrphans PROVE Goal
    BY <1>0, <1>5 DEF DeleteOrphans
  <1> HIDE DEF Goal
  <1>6. ASSUME NEW h \in Threads, NEW e \in Docs, Receive(h, e) \/ Sweep(h, e) PROVE UNCHANGED vectors
    BY <1>6 DEF Receive, Sweep, DedupHit, Admit, Reprocess, DeleteAgain, Delete, stores
  <1>7. ASSUME NEW h \in Threads, NEW e \in Docs, Continue(h, e) PROVE UNCHANGED vectors
    BY <1>7 DEF Continue, CancelQueuedDeletion, StoreFile, SaveRow, SaveRowFails, Announce, Publish,
                FetchForIngestion, MarkProcessing, MarkFailed, Verdict, VerdictFails, stores
  <1>8. ASSUME NEW h \in Threads,
               Flag(h) \/ FlagFails(h) \/ SelectAll(h) \/ FlagAll(h) \/ QueueAll(h) \/ EventRead(h)
        PROVE UNCHANGED vectors
    BY <1>8 DEF Flag, FlagFails, SelectAll, FlagAll, QueueAll, EventRead, stores
  <1>9. ASSUME NEW e \in Docs, Age(e) \/ DataLoaderPut(e) \/ IngestFails(e) PROVE UNCHANGED vectors
    BY <1>9 DEF Age, DataLoaderPut, IngestFails, stores
  <1>10. ASSUME NEW e \in Docs, Ingest(e) PROVE IngestIndex(e) \/ UNCHANGED vectors
    BY <1>10 DEF Ingest, IngestTake, IngestPersist, IngestRejected, IngestReport, stores
  <1>11. ASSUME NEW B \in SUBSET Tasks, Poll(B) PROVE UNCHANGED vectors
    BY <1>11 DEF Poll, stores
  <1>12. ASSUME Worker \/ WorkerFails \/ Crash PROVE DeleteVectors \/ UNCHANGED vectors
    BY <1>12 DEF Worker, TakeTask, Guard, DeleteFiles, PurgeChunks, PurgeRow, SaveTask,
                 RecordAttempt, WorkerFails, Crash, stores
  <1>13. ASSUME NEW h \in Threads, HandlerFails(h) \/ \E e \in Docs : PublishFails(h, e)
         PROVE UNCHANGED vectors
    BY <1>13 DEF HandlerFails, PublishFails, stores
  <1>14. ASSUME UNCHANGED vars PROVE UNCHANGED vectors
    BY <1>14 DEF vars, stores
  <1>16. ASSUME Discover \/ Reconcile PROVE DeleteOrphans \/ UNCHANGED vectors
    BY <1>16 DEF Discover, Reconcile, Scroll, Compare
  <1>15. Goal
    BY <1>1, <1>2, <1>3, <1>4, <1>5, <1>6, <1>7, <1>8, <1>9, <1>10, <1>11, <1>12, <1>13, <1>14, <1>16
    DEF RNext, Next, Operate, Advance, Fail
  <1> QED
    BY <1>15 DEF Goal

-----------------------------------------------------------------------------
(* The invariant is kept, and the theorem.                                  *)

LEMMA SparedStep ==
    ASSUME IInv, [RNext]_vars, NoDeleteAll, Spared PROVE Spared'
  <1> SUFFICES ASSUME NEW d \in Docs, ~Owned(d)'
               PROVE  (Traced(d)' => row'[d] # "ABSENT") /\ Sifted(d)'
    BY DEF Spared
  <1>0. /\ tx \in [Threads -> TxState] /\ vectors \in [Docs -> BOOLEAN] /\ row \in [Docs -> RowState]
        /\ "sweeper" \in Threads
    BY DEF IInv, TypeOK, Threads
  <1>1. ~Owned(d)
    BY StepKinds, OwnedStays
  <1>2. (Traced(d) => row[d] # "ABSENT") /\ Sifted(d)
    BY <1>1 DEF Spared
  <1>3. row[d] # "ABSENT" => row'[d] # "ABSENT"
    BY <1>1, RowsStay
  <1>4. [Next]_vars \/ Discover \/ Reconcile
    BY DEF RNext
  <1>5. ASSUME Sending(d)' PROVE row'[d] # "ABSENT"
    <2>1. PICK h \in Threads : Sends(tx'[h]) /\ d \in tx'[h].docs
      BY <1>5 DEF Sending, Sends
    <2>2. Sends(tx[h]) /\ d \in tx[h].docs => Sending(d)
      BY DEF Sending, Sends
    <2>3. CASE [Next]_vars
      <3>1. Turns(tx[h], tx'[h])
        BY <2>3, ThreadsTurn
      <3> QED
        BY <1>2, <1>3, <2>1, <2>2, <3>1 DEF Turns, Traced
    <2>4. CASE Discover \/ Reconcile
      <3>0. PICK pc \in PassPc : \E kind, ds : tx' = [tx EXCEPT !["sweeper"] = At(pc, kind, ds, "ABSENT")]
        BY <1>0, <2>4, PassStep
      <3>1. PICK kind, ds : tx' = [tx EXCEPT !["sweeper"] = At(pc, kind, ds, "ABSENT")]
        BY <3>0
      <3>2. ~Sends(At(pc, kind, ds, "ABSENT"))
        BY DEF At, Sends, PassPc
      <3>3. tx'[h] = tx[h]
        BY <1>0, <2>1, <3>1, <3>2
      <3> QED
        BY <1>2, <1>3, <2>1, <2>2, <3>3 DEF Traced
    <2> QED
      BY <1>4, <2>3, <2>4
  <1>6. Traced(d)' => row'[d] # "ABSENT"
    BY <1>2, <1>3, <1>5, EntriesFromThreads, VectorsFromRuns DEF Traced
  <1>7. CASE [Next]_vars
    <2>1. Turns(tx["sweeper"], tx'["sweeper"])
      BY <1>0, <1>7, ThreadsTurn
    <2>2. Passes(Pass') => Pass' = Pass
      BY <2>1 DEF Turns, Pass
    <2>3. Sifted(d)'
      BY <1>2, <1>3, <2>2 DEF Sifted, Passes
    <2> QED
      BY <1>6, <2>3
  <1>8. ASSUME NEW pc \in {"idle", "scroll"}, NEW kind, NEW ds,
               tx' = [tx EXCEPT !["sweeper"] = At(pc, kind, ds, "ABSENT")]
        PROVE  Sifted(d)'
    BY <1>0, <1>8 DEF Sifted, Pass, At
  <1>9. CASE Discover
    BY <1>6, <1>8, <1>9 DEF Discover, Continues
  <1>10. CASE Scroll
    <2> DEFINE found == {c \in Docs : vectors[c]}
    <2>1. \/ tx' = [tx EXCEPT !["sweeper"] = Idle]
          \/ tx' = [tx EXCEPT !["sweeper"] = At("compare", "reconcile", found, "ABSENT")]
      BY <1>10 DEF Scroll, Continues
    <2>2. CASE tx' = [tx EXCEPT !["sweeper"] = Idle]
      BY <1>6, <1>8, <2>2 DEF Idle
    <2>3. CASE tx' = [tx EXCEPT !["sweeper"] = At("compare", "reconcile", found, "ABSENT")]
      <3>1. Pass'.pc = "compare" /\ Pass'.docs = found
        BY <1>0, <2>3 DEF Pass, At
      <3>2. d \in found => row'[d] # "ABSENT"
        BY <1>2, <1>3 DEF Traced
      <3> QED
        BY <1>6, <3>1, <3>2 DEF Sifted
    <2> QED
      BY <2>1, <2>2, <2>3
  <1>11. CASE Compare
    <2>1. \/ tx' = [tx EXCEPT !["sweeper"] = Idle]
          \/ tx' = [tx EXCEPT !["sweeper"] = At("purge", "reconcile", Orphans(Pass.docs), "ABSENT")]
      BY <1>11 DEF Compare, Continues
    <2>2. CASE tx' = [tx EXCEPT !["sweeper"] = Idle]
      BY <1>6, <1>8, <2>2 DEF Idle
    <2>3. CASE tx' = [tx EXCEPT !["sweeper"] = At("purge", "reconcile", Orphans(Pass.docs), "ABSENT")]
      <3>1. Pass'.pc = "purge" /\ Pass'.docs = Orphans(Pass.docs)
        BY <1>0, <2>3 DEF Pass, At
      <3>2. row[d] # "DELETING"
        <4>1. DeletingHasTask /\ \A h \in Threads : tx[h].pc # "queueAll"
          BY NoDeleteAll DEF IInv, SoundDeletes, NoDeleteAll, TxShape
        <4>2. ~Queued(d) /\ ~BeingQueued(d)
          BY <1>1, <4>1 DEF Queued, Owned, BeingQueued
        <4> QED
          BY <4>1, <4>2 DEF DeletingHasTask
      <3>3. d \notin Orphans(Pass.docs)
        BY <1>2, <1>11, <3>2 DEF Orphans, Active, Sifted, Compare
      <3> QED
        BY <1>6, <3>1, <3>3 DEF Sifted
    <2> QED
      BY <2>1, <2>2, <2>3
  <1>12. CASE DeleteOrphans
    BY <1>6, <1>8, <1>12 DEF DeleteOrphans, Continues, Idle
  <1> QED
    BY <1>4, <1>7, <1>9, <1>10, <1>11, <1>12 DEF Reconcile

LEMMA IndexedStep ==
    ASSUME IInv, [RNext]_vars, NoDeleteAll, Spared, Indexed PROVE Indexed'
  <1> SUFFICES ASSUME NEW d \in Docs, ~Owned(d)' PROVE (Progress(d) /\ (Claimed(d) => Stored(d)))'
    BY DEF Indexed
  <1>1. ~Owned(d)
    BY StepKinds, OwnedStays
  <1>2. Progress(d) /\ (Claimed(d) => Stored(d))
    BY <1>1 DEF Indexed
  <1>3. /\ files[d] => files'[d]
        /\ vectors[d] => vectors'[d]
        /\ chunks[d] => chunks'[d]
    BY <1>1, StoresKept
  <1>4. Progress(d)'
    BY <1>2, <1>3, RunAdvances DEF Progress
  <1>5. Claimed(d)' => Claimed(d) \/ run[d] = "report"
    BY EventsFromRuns, VerdictsFromEvents, RowsFromVerdicts DEF Claimed
  <1>6. run[d] = "report" => Stored(d)
    BY <1>2 DEF Progress, Stored
  <1>7. Stored(d) => Stored(d)'
    BY <1>3 DEF Stored
  <1> QED
    BY <1>2, <1>4, <1>5, <1>6, <1>7

(* A document that says COMPLETED has its file, its vectors and its chunks, *)
(* whatever redelivered, duplicated or failed runs came before the event,   *)
(* in what order events and registrations met, wherever a service restarted *)
(* and whenever the daily pass compares, hours after it has looked, what it *)
(* found with the rows it finds - unless its deletion was asked for.  The   *)
(* tenant's collection is not dropped: that happens before the rows are     *)
(* looked at.                                                               *)
THEOREM ReconciliationKeepsDocuments == ASSUME NoDeleteAll PROVE RSpec => []CompletedIsIndexed
  <1>1. Init => Indexed /\ Spared
    BY IndexedInit
  <1>2. IInv /\ Indexed /\ Spared /\ [RNext]_vars => Indexed' /\ Spared'
    BY NoDeleteAll, IndexedStep, SparedStep
  <1>3. IInv /\ Indexed => CompletedIsIndexed
    <2> SUFFICES ASSUME Indexed, NEW d \in Docs, row[d] = "COMPLETED", NeverDeleted(d)
                 PROVE  files[d] /\ vectors[d] /\ chunks[d]
      BY DEF CompletedIsIndexed
    <2>1. ~Owned(d) /\ Claimed(d)
      BY DEF Owned, NeverDeleted, Claimed
    <2> QED
      BY <2>1 DEF Indexed, Stored
  <1> QED
    BY <1>1, <1>2, <1>3, Invariance, PTL DEF RSpec

(* The same where the pass never comes.                                     *)
THEOREM CompletedDocumentsAreIndexed == ASSUME NoDeleteAll PROVE Spec => []CompletedIsIndexed
  BY NoDeleteAll, ReconciliationKeepsDocuments, WithoutPass, PTL
=============================================================================
