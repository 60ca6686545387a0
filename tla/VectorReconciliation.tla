------------------------ MODULE VectorReconciliation ------------------------
(***************************************************************************)
(* DocumentLifecycle with the daily ReconciliationSweeper: it lists the     *)
(* document ids found in a tenant's Qdrant collection, then the ids of the  *)
(* tenant's active rows, and deletes the points of the difference.  It runs *)
(* on the scheduler thread the deletion worker and the pending sweeper use, *)
(* so its locals are that thread's: tx["sweeper"].docs holds the ids found, *)
(* then the orphans among them.  A call that throws ends the tenant's pass  *)
(* until the next day, a batch that fails is skipped: HandlerFails.         *)
(***************************************************************************)
EXTENDS DocumentLifecycle

Pass == tx["sweeper"]

Active(d) == row[d] \notin {"ABSENT", "DELETING"}

(* findDistinctActiveTenantIds: only tenants with an active row are visited. *)
(* others says whether the tenant owns one besides Docs.                    *)
TenantVisited(others) == others \/ \E d \in Docs : Active(d)

(* The pass goes on with the ids ds, or ends when none are left.            *)
Continues(pc, ds, ends) ==
    /\ tx' = [tx EXCEPT !["sweeper"] = IF ends THEN Idle ELSE At(pc, "reconcile", ds, "ABSENT")]
    /\ UNCHANGED <<tables, files, streams, workers, history>>

(* The tenant's other documents come and go at any time.                    *)
Discover ==
    /\ Pass = Idle /\ wpc = "idle"
    /\ \E others \in BOOLEAN : TenantVisited(others)
    /\ Continues("scroll", {}, FALSE)
    /\ UNCHANGED vectors

(* A missing or empty collection ends the tenant's pass.  Points of the      *)
(* tenant's other documents only make it go on with nothing to delete here. *)
Scroll ==
    /\ Pass.pc = "scroll"
    /\ LET found == {d \in Docs : vectors[d]}
       IN  Continues("compare", found, found = {})
    /\ UNCHANGED vectors

(* Mutant of Orphans: only documents marked DELETING count as orphans.       *)
OrphansDeleting(found) == {d \in found : row[d] = "DELETING"}

Orphans(found) == {d \in found : ~Active(d)}

Compare ==
    /\ Pass.pc = "compare"
    /\ Continues("purge", Orphans(Pass.docs), Orphans(Pass.docs) = {})
    /\ UNCHANGED vectors

DeleteOrphans ==
    /\ Pass.pc = "purge"
    /\ vectors' = [d \in Docs |-> vectors[d] /\ d \notin Pass.docs]
    /\ Continues("idle", {}, TRUE)

Reconcile == Scroll \/ Compare \/ DeleteOrphans

RNext == Next \/ Discover \/ Reconcile

RSpec == Init /\ [][RNext]_vars

(* A pass that began runs on.  That one ever begins is not assumed.         *)
RFairness == Fairness /\ WF_vars(Reconcile)

RFairSpec == RSpec /\ RFairness

(* "Any ID that has no matching ACTIVE PG document is an orphan ... Those   *)
(* points are bulk-deleted from Qdrant": vectors that a pipeline run wrote  *)
(* after their document was purged do not stay while the pass keeps         *)
(* visiting the tenant.  A tenant whose last active document is gone is not *)
(* visited (DocumentRepository.kt:62), and its orphans stay.                *)
Orphaned(d) == vectors[d] /\ row[d] = "ABSENT"
VisitedForever == []<>(Pass.kind = "reconcile")
OrphansRemoved == VisitedForever => \A d \in Docs : Orphaned(d) ~> ~Orphaned(d)
=============================================================================
