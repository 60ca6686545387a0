---------------------------- MODULE StreamWorker ----------------------------
(***************************************************************************)
(* ingestion-service's consumer of documents.ready (stream_worker.py over   *)
(* RedisStreamBus): one asyncio process reads entries into per-tenant       *)
(* queues, dispatches them as tasks that share a semaphore, and reclaims    *)
(* pending entries that have been idle for five minutes.  An entry leaves   *)
(* the pending-entry list (PEL) only by XACK; everything in memory is lost  *)
(* when the process stops.                                                  *)
(***************************************************************************)
EXTENDS Naturals, Sequences, FiniteSets, SequencesExt

CONSTANTS
    NumMsgs,       \* bound: entries published, numbered in stream order
    Tenants,
    TenantOf,      \* the tenant of each entry
    Missing,       \* entries whose object is not in the object store
    Malformed,     \* entries whose payload is not JSON
    Permits,       \* semaphore permits: docling_max_workers of them
    BatchSize,     \* count of XREADGROUP
    ClaimSize,     \* count of XAUTOCLAIM
    MaxDelivery,   \* _MAX_DELIVERY_COUNT
    MaxCopies,     \* bound: copies of an entry queued in memory that are told apart
    MaxFaults      \* bound: failed calls, lost replies, crashes and shutdowns

Msgs == 1 .. NumMsgs

ASSUME TenantAssumption == IsFiniteSet(Tenants) /\ TenantOf \in [Msgs -> Tenants]
ASSUME PayloadAssumption == Missing \subseteq Msgs /\ Malformed \subseteq Msgs
ASSUME SizesAssumption == /\ NumMsgs \in Nat /\ MaxFaults \in Nat
                          /\ BatchSize \in Nat \ {0}
                          /\ ClaimSize \in Nat \ {0}
                          /\ MaxDelivery \in Nat \ {0}
                          /\ MaxCopies \in Nat \ {0}

VARIABLES
    sent,      \* entries 1..sent are in the stream
    read,      \* entries 1..read have been delivered to the group once
    times,     \* PEL: times_delivered of a pending entry, 0 when not pending
    idle,      \* PEL: the entry has been idle for _CLAIM_IDLE_MS
    acked,     \* entries acknowledged
    buffer,    \* entries of the last XREADGROUP reply not yet queued
    queues,    \* tenant_queues
    waiting,   \* tasks created and waiting for the semaphore, in order
    active,    \* the task that holds each permit
    mode,      \* the process: up, draining after a cancel, stopped or crashed;
               \*   overrun: draining with tasks dispatched after the cancel;
               \*   dead: the worker ended on an exception, the process runs on
    outcomes,  \* history: statuses published per entry on ingestion.complete
    faults

memory == <<buffer, queues, waiting, active, mode>>
pel    == <<times, idle, acked>>
vars   == <<sent, read, pel, memory, outcomes, faults>>

Free == [pc |-> "free", msg |-> 0]

Running == {"up", "draining", "overrun"}

Pcs == {"free", "check", "fetch", "run", "doneReport", "failReport",
        "missReport", "dlqReport", "doneAck", "missAck", "dlqAck"}

TypeOK ==
    /\ sent \in 0 .. NumMsgs
    /\ read \in 0 .. sent
    /\ times \in [Msgs -> 0 .. MaxDelivery + 1]
    /\ idle \in [Msgs -> BOOLEAN]
    /\ acked \in SUBSET Msgs
    /\ buffer \in Seq(Msgs)
    /\ queues \in [Tenants -> Seq(Msgs)]
    /\ waiting \in Seq(Msgs)
    /\ active \in [Permits -> [pc : Pcs, msg : 0 .. NumMsgs]]
    /\ mode \in Running \cup {"dead", "stopped", "crashed"}
    /\ outcomes \in [Msgs -> SUBSET {"COMPLETED", "FAILED"}]
    /\ faults \in 0 .. MaxFaults

EmptyQueues == [t \in Tenants |-> <<>>]

Init ==
    /\ sent = 0 /\ read = 0
    /\ times = [m \in Msgs |-> 0]
    /\ idle = [m \in Msgs |-> FALSE]
    /\ acked = {}
    /\ buffer = <<>> /\ queues = EmptyQueues /\ waiting = <<>>
    /\ active = [p \in Permits |-> Free]
    /\ mode = "up"
    /\ outcomes = [m \in Msgs |-> {}]
    /\ faults = 0

Fault == faults < MaxFaults /\ faults' = faults + 1

Pending == {m \in Msgs : times[m] > 0}

(* A counter above MaxDelivery is only ever compared with it.               *)
Deliver(n) == IF n > MaxDelivery THEN n ELSE n + 1

-----------------------------------------------------------------------------
(* Reading and dispatching.                                                 *)

(* document-service publishes the next entry.                               *)
Publish ==
    /\ sent < NumMsgs
    /\ sent' = sent + 1
    /\ UNCHANGED <<read, pel, memory, outcomes, faults>>

(* Mutant of Read: the batch is not cut at the end of the stream.            *)
ReadPast ==
    /\ mode = "up" /\ buffer = <<>> /\ read < sent
    /\ read' = read + BatchSize
    /\ times' = [m \in Msgs |-> IF m \in read + 1 .. read' THEN 1 ELSE times[m]]
    /\ buffer' = [i \in 1 .. BatchSize |-> read + i]
    /\ UNCHANGED <<sent, idle, acked, queues, waiting, active, mode, outcomes, faults>>

(* XREADGROUP ">" puts a batch in the PEL and hands it over, unless its     *)
(* reply is lost: the loop then pauses and asks for new entries.            *)
Read ==
    /\ mode = "up" /\ buffer = <<>> /\ read < sent
    /\ LET last == IF read + BatchSize < sent THEN read + BatchSize ELSE sent
       IN /\ read' = last
          /\ times' = [m \in Msgs |-> IF m \in read + 1 .. last THEN 1 ELSE times[m]]
          /\ \/ buffer' = [i \in 1 .. last - read |-> read + i] /\ UNCHANGED faults
             \/ buffer' = <<>> /\ Fault
    /\ UNCHANGED <<sent, idle, acked, queues, waiting, active, mode, outcomes>>

(* _dispatch_queued: the head of every non-empty tenant queue becomes a     *)
(* task; the order among tenants is the dictionary's.                       *)
Dispatch(q) ==
    LET ready == {t \in Tenants : q[t] # <<>>}
    IN /\ queues' = [t \in Tenants |-> IF t \in ready THEN Tail(q[t]) ELSE q[t]]
       /\ \E order \in SetToSeqs(ready) :
             waiting' = waiting \o [i \in DOMAIN order |-> Head(q[order[i]])]

Enqueue ==
    /\ mode = "up" /\ buffer # <<>> /\ Head(buffer) \notin Malformed
    /\ Dispatch([queues EXCEPT ![TenantOf[Head(buffer)]] = Append(@, Head(buffer))])
    /\ buffer' = Tail(buffer)
    /\ UNCHANGED <<sent, read, pel, active, mode, outcomes, faults>>

(* XACK.                                                                    *)
Acknowledge(ms) ==
    /\ times' = [m \in Msgs |-> IF m \in ms THEN 0 ELSE times[m]]
    /\ idle' = [m \in Msgs |-> idle[m] /\ m \notin ms]
    /\ acked' = acked \cup ms

(* consume() acknowledges an entry it cannot parse and goes on.             *)
Discard ==
    /\ mode = "up" /\ buffer # <<>> /\ Head(buffer) \in Malformed
    /\ Acknowledge({Head(buffer)})
    /\ buffer' = Tail(buffer)
    /\ UNCHANGED <<sent, read, queues, waiting, active, mode, outcomes, faults>>

(* That XACK fails, carried out or not, outside of any try: the worker ends *)
(* and cancels its claim loop; what is queued is never dispatched, the      *)
(* tasks in flight go on.                                                   *)
DiscardFails ==
    /\ mode = "up" /\ buffer # <<>> /\ Head(buffer) \in Malformed /\ Fault
    /\ Acknowledge({Head(buffer)}) \/ UNCHANGED pel
    /\ buffer' = <<>> /\ mode' = "dead"
    /\ UNCHANGED <<sent, read, queues, waiting, active, outcomes>>

(* An entry has not been delivered for five minutes.  The event loop does   *)
(* not leave a reply unread, or a permit free beside a waiting task, so     *)
(* long; every other step may be that slow.                                 *)
Elapse(m) ==
    /\ times[m] > 0 /\ ~idle[m]
    /\ buffer = <<>>
    /\ waiting = <<>> \/ \A p \in Permits : active[p] # Free
    /\ idle' = [idle EXCEPT ![m] = TRUE]
    /\ UNCHANGED <<sent, read, times, acked, memory, outcomes, faults>>

Count(s, m) == Cardinality({i \in DOMAIN s : s[i] = m})

Copies(m) == Count(queues[TenantOf[m]], m) + Count(waiting, m)

(* XAUTOCLAIM takes the oldest idle entries, also one that is still queued  *)
(* or being processed.  Those that cannot be parsed are acknowledged one by *)
(* one, the others queued in stream order and one task per tenant is        *)
(* dispatched.  Copies beyond MaxCopies are not told apart.                 *)
Idle == {m \in Msgs : idle[m]}

Claimed == {m \in Idle : Cardinality({k \in Idle : k <= m}) <= ClaimSize}

Requeued(t) ==
    {m \in Claimed \ Malformed : TenantOf[m] = t /\ Copies(m) < MaxCopies}

(* The claimed entries, appended to the queues of their tenants in order.   *)
Listings(S) == [1 .. Cardinality(S) -> S]
InOrder(s, S) == Range(s) = S /\ \A i, j \in DOMAIN s : i < j => s[i] < s[j]

Requeues ==
    {[t \in Tenants |-> queues[t] \o c[t]] :
        c \in {d \in [Tenants -> UNION {Listings(Requeued(t)) : t \in Tenants}] :
                 \A t \in Tenants : InOrder(d[t], Requeued(t))}}

(* The claimed entries were delivered once more, those in ms acknowledged.  *)
Reclaim(ms) ==
    /\ times' = [m \in Msgs |-> IF m \in ms THEN 0
                                ELSE IF m \in Claimed THEN Deliver(times[m]) ELSE times[m]]
    /\ idle' = [m \in Msgs |-> idle[m] /\ m \notin Claimed]
    /\ acked' = acked \cup ms

(* Mutant of Claim: the claimed entries wait for the next one to be read.    *)
ClaimUndispatched ==
    /\ mode \in Running /\ Claimed # {}
    /\ Reclaim(Claimed \cap Malformed)
    /\ queues' \in Requeues
    /\ mode' = IF mode = "draining" THEN "overrun" ELSE mode
    /\ UNCHANGED <<sent, read, buffer, waiting, active, outcomes, faults>>

Claim ==
    /\ mode \in Running /\ Claimed # {}
    /\ Reclaim(Claimed \cap Malformed)
    /\ IF Claimed \subseteq Malformed
       THEN UNCHANGED <<queues, waiting, mode>>
       ELSE /\ \E q \in Requeues : Dispatch(q)
            /\ mode' = IF mode = "draining" THEN "overrun" ELSE mode
    /\ UNCHANGED <<sent, read, buffer, active, outcomes, faults>>

(* The reply of XAUTOCLAIM is lost, or an XACK of a malformed entry fails:  *)
(* claim_idle returns nothing, and what it claimed waits to be idle again.  *)
ClaimFails ==
    /\ mode \in Running /\ Claimed # {} /\ Fault
    /\ \E n \in 0 .. NumMsgs : Reclaim({m \in Claimed \cap Malformed : m <= n})
    /\ UNCHANGED <<sent, read, memory, outcomes>>

-----------------------------------------------------------------------------
(* _handle_message, once the semaphore is acquired.                         *)

Acquire(p) ==
    /\ mode \in Running \cup {"dead"}
    /\ active[p] = Free /\ waiting # <<>>
    /\ active' = [active EXCEPT ![p] = [pc |-> "check", msg |-> Head(waiting)]]
    /\ waiting' = Tail(waiting)
    /\ UNCHANGED <<sent, read, pel, buffer, queues, mode, outcomes, faults>>

GoTo(p, pc) == active' = [active EXCEPT ![p].pc = pc]
Release(p) == active' = [active EXCEPT ![p] = Free]

(* XPENDING: an entry acknowledged meanwhile, or a failing call, counts as  *)
(* delivered once.                                                          *)
Check(p) ==
    /\ active[p].pc = "check"
    /\ \/ /\ GoTo(p, IF times[active[p].msg] > MaxDelivery THEN "dlqReport" ELSE "fetch")
          /\ UNCHANGED faults
       \/ Fault /\ GoTo(p, "fetch")
    /\ UNCHANGED <<sent, read, pel, buffer, queues, waiting, mode, outcomes>>

(* Mutant of Fetch: a missing object is acknowledged without an event.       *)
FetchSilently(p) ==
    /\ active[p].pc = "fetch"
    /\ \/ /\ GoTo(p, IF active[p].msg \in Missing THEN "missAck" ELSE "run")
          /\ UNCHANGED faults
       \/ Fault /\ GoTo(p, "failReport")
    /\ UNCHANGED <<sent, read, pel, buffer, queues, waiting, mode, outcomes>>

Fetch(p) ==
    /\ active[p].pc = "fetch"
    /\ \/ /\ GoTo(p, IF active[p].msg \in Missing THEN "missReport" ELSE "run")
          /\ UNCHANGED faults
       \/ Fault /\ GoTo(p, "failReport")
    /\ UNCHANGED <<sent, read, pel, buffer, queues, waiting, mode, outcomes>>

(* run_ingestion in the thread pool, then the chunks of a text document.  A *)
(* worker that ended has shut the pool down.                                *)
Run(p) ==
    /\ active[p].pc = "run"
    /\ \/ GoTo(p, "doneReport") /\ UNCHANGED faults
       \/ Fault /\ GoTo(p, "failReport")
       \/ mode = "dead" /\ GoTo(p, "failReport") /\ UNCHANGED faults
    /\ UNCHANGED <<sent, read, pel, buffer, queues, waiting, mode, outcomes>>

Publishes(p, s) == outcomes' = [outcomes EXCEPT ![active[p].msg] = @ \cup {s}]

(* _publish_complete.  A failed run is not acknowledged.                    *)
Report(p) ==
    /\ \/ active[p].pc = "doneReport" /\ Publishes(p, "COMPLETED") /\ GoTo(p, "doneAck")
       \/ active[p].pc = "missReport" /\ Publishes(p, "FAILED") /\ GoTo(p, "missAck")
       \/ active[p].pc = "dlqReport" /\ Publishes(p, "FAILED") /\ GoTo(p, "dlqAck")
       \/ active[p].pc = "failReport" /\ Publishes(p, "FAILED") /\ Release(p)
    /\ UNCHANGED <<sent, read, pel, buffer, queues, waiting, mode, faults>>

Ack(p) ==
    /\ active[p].pc \in {"doneAck", "missAck", "dlqAck"}
    /\ Acknowledge({active[p].msg})
    /\ Release(p)
    /\ UNCHANGED <<sent, read, buffer, queues, waiting, mode, outcomes, faults>>

(* A Redis error while publishing or acknowledging: inside the try block it *)
(* is answered with a FAILED event, even after COMPLETED; in the DLQ branch *)
(* and in the handler itself it ends the task.                              *)
RedisFails(p) ==
    /\ Fault
    /\ \/ active[p].pc \in {"doneReport", "missReport", "doneAck", "missAck"}
          /\ GoTo(p, "failReport")
       \/ active[p].pc \in {"failReport", "dlqReport", "dlqAck"} /\ Release(p)
    /\ UNCHANGED <<sent, read, pel, buffer, queues, waiting, mode, outcomes>>

-----------------------------------------------------------------------------
(* Stopping and starting.                                                   *)

Forget == /\ buffer' = <<>> /\ queues' = EmptyQueues /\ waiting' = <<>>
          /\ active' = [p \in Permits |-> Free]

Quiet == waiting = <<>> /\ \A p \in Permits : active[p] = Free

Crash ==
    /\ mode \in Running \cup {"dead"} /\ Fault
    /\ Forget /\ mode' = "crashed"
    /\ UNCHANGED <<sent, read, pel, outcomes>>

(* Shutdown cancels the worker.  Suspended in XREADGROUP, consume() returns *)
(* on the cancellation and the loop ends without an exception: the process  *)
(* goes down at once, as it does when the worker had already ended.         *)
(* Suspended in the pause after a Redis error, or in the XACK of a          *)
(* malformed entry, the cancellation reaches the handler that gathers the   *)
(* tasks in flight.                                                         *)
Shutdown ==
    /\ mode \in {"up", "dead"} /\ Fault
    /\ \/ buffer = <<>> /\ Forget /\ mode' = "stopped" /\ UNCHANGED pel
       \/ /\ mode = "up" /\ buffer = <<>> /\ mode' = "draining"
          /\ UNCHANGED <<pel, buffer, queues, waiting, active>>
       \/ /\ mode = "up" /\ buffer # <<>> /\ Head(buffer) \in Malformed
          /\ Acknowledge({Head(buffer)}) \/ UNCHANGED pel
          /\ buffer' = <<>> /\ mode' = "draining"
          /\ UNCHANGED <<queues, waiting, active>>
    /\ UNCHANGED <<sent, read, outcomes>>

(* The tasks in flight at the cancellation are gathered; tasks the claim    *)
(* loop dispatches afterwards are not, and which those are is not told      *)
(* apart: after such a claim the process may go down at any point.          *)
Drained ==
    /\ mode = "overrun" \/ (mode = "draining" /\ Quiet)
    /\ Forget /\ mode' = "stopped"
    /\ UNCHANGED <<sent, read, pel, outcomes, faults>>

Restart ==
    /\ mode \in {"stopped", "crashed"}
    /\ mode' = "up"
    /\ UNCHANGED <<sent, read, pel, buffer, queues, waiting, active, outcomes, faults>>

-----------------------------------------------------------------------------
Handle(p) == Check(p) \/ Fetch(p) \/ Run(p) \/ Report(p) \/ Ack(p)

Next ==
    \/ Publish \/ Read \/ Enqueue \/ Discard \/ DiscardFails \/ Claim \/ ClaimFails
    \/ \E m \in Msgs : Elapse(m)
    \/ \E p \in Permits : Acquire(p) \/ Handle(p) \/ RedisFails(p)
    \/ Crash \/ Shutdown \/ Drained \/ Restart

Spec == Init /\ [][Next]_vars

(* The event loop runs every coroutine, the claim loop wakes every minute,  *)
(* permits go to waiting tasks in order.  That a stopped service is started *)
(* again is an assumption about its operator: docker-compose.yml gives it   *)
(* no restart policy.                                                       *)
Fairness ==
    /\ WF_vars(Read) /\ WF_vars(Enqueue) /\ WF_vars(Discard)
    /\ WF_vars(Restart) /\ WF_vars(Drained)
    /\ SF_vars(Claim)
    /\ \A m \in Msgs : WF_vars(Elapse(m))
    /\ \A p \in Permits : WF_vars(Handle(p)) /\ SF_vars(Acquire(p))

FairSpec == Spec /\ Fairness

-----------------------------------------------------------------------------
(* Properties.                                                              *)

(* The worker implements the at-least-once contract: through crashes,       *)
(* duplicate deliveries, lost replies and failed calls, no entry that can   *)
(* be parsed leaves the PEL before a terminal event for it was published,   *)
(* and no event is published for one that cannot.                           *)
Contract == INSTANCE AtLeastOnce WITH
    Entries <- Msgs, Unreadable <- Malformed, sent <- 1 .. sent,
    reported <- {m \in Msgs : outcomes[m] # {}}, settled <- acked
ContractSpec == Contract!Spec

(* ... and, under fairness, no published entry is forgotten: reclaiming     *)
(* brings back what a crash, a failed run or a lost acknowledgement left.   *)
(* The exception is a worker that ended on the XACK of a malformed entry:   *)
(* nothing in the process starts it again.                                  *)
NoneForgotten == \A m \in Msgs : m <= sent ~> m \in acked \/ mode = "dead"
=============================================================================
