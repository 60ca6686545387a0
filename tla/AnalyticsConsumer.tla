------------------------- MODULE AnalyticsConsumer -------------------------
(***************************************************************************)
(* Query telemetry: rag-service adds events to the analytics.query stream,  *)
(* AnalyticsStreamConsumer of analytics-service buffers them and inserts    *)
(* them into ClickHouse in batches.  Three tasks share the buffer: the      *)
(* consume loop flushes it when it is full, a timer flushes it every few    *)
(* seconds, and a third task reclaims entries that were not acknowledged.   *)
(* The swap of the buffer is atomic; the insert and the acks are not.       *)
(***************************************************************************)
EXTENDS Naturals, Sequences, SequencesExt, FiniteSets, FiniteSetsExt

CONSTANTS
    NumEvents,
    Malformed,      \* events whose payload is not JSON
    Unconvertible,  \* events whose payload does not convert to a row
    BatchSize,      \* analytics_consumer_batch_size
    ClaimBatch,     \* batch_size of claim_idle
    MaxLen,         \* _ANALYTICS_STREAM_MAXLEN: older entries are trimmed
    MaxCount,       \* bound: deliveries and rows are counted up to this
    MaxMishaps      \* bound: failed calls, lost replies and stops

ASSUME ConsumerAssumption ==
    /\ NumEvents \in Nat /\ MaxLen \in Nat
    /\ BatchSize \in Nat \ {0} /\ ClaimBatch \in Nat \ {0} /\ MaxCount \in Nat \ {0}

Events == 1 .. NumEvents

ASSUME PayloadAssumption ==
    Malformed \subseteq Events /\ Unconvertible \subseteq Events \ Malformed

Tasks == {"consume", "periodic", "claim"}

VARIABLES
    sent,       \* events 1 .. sent were added to the stream
    from,       \* the group was created after this entry
    last,       \* last entry delivered to the group
    pending,    \* the group's pending entries
    idle,       \* those that were not delivered for the claim's idle time
    times,      \* deliveries of each entry
    inhand,     \* read by XREADGROUP and not yet yielded to the loop
    buffer,
    flush,      \* per task, the _flush() it is in
    mode,       \* "new", "up", "closing", "dead" (run() raised) or "down"
    rows,       \* rows of each event in query_events
    acked,
    mishaps

pel == <<pending, idle, times>>
memory == <<inhand, buffer, flush>>
vars == <<sent, from, last, pel, memory, mode, rows, acked, mishaps>>

NoFlush == [pc |-> "idle", batch |-> <<>>]
AllIdle == [t \in Tasks |-> NoFlush]

\* The variables have their types, only delivered entries are pending and no
\* acknowledged one is.
CTypeOK ==
    /\ from \in 0 .. sent /\ last \in from .. sent /\ sent \in 0 .. NumEvents
    /\ pending \subseteq from + 1 .. last /\ idle \subseteq pending
    /\ pending \cap acked = {}
    /\ times \in [Events -> 0 .. MaxCount] /\ rows \in [Events -> 0 .. MaxCount]
    /\ inhand \in Seq(Events) /\ buffer \in Seq(Events)
    /\ flush \in [Tasks -> [pc : {"idle", "flush", "insert", "ack"}, batch : Seq(Events)]]
    /\ mode \in {"new", "up", "closing", "dead", "down"}

Init ==
    /\ sent = 0 /\ from = 0 /\ last = 0
    /\ pending = {} /\ idle = {} /\ times = [e \in Events |-> 0]
    /\ inhand = <<>> /\ buffer = <<>> /\ flush = AllIdle
    /\ mode = "new"
    /\ rows = [e \in Events |-> 0]
    /\ acked = {}
    /\ mishaps = 0

Running == mode \in {"up", "closing"}
Capped(n) == IF n < MaxCount THEN n + 1 ELSE n
Trimmed(e) == e + MaxLen <= sent
Count(seq, e) == Cardinality({i \in DOMAIN seq : seq[i] = e})
Mishap == mishaps < MaxMishaps /\ mishaps' = mishaps + 1
Set(t, f) == flush' = [flush EXCEPT ![t] = f]
DropMemory == inhand' = <<>> /\ buffer' = <<>> /\ flush' = AllIdle

\* run() ends.  An insert that its thread still completes counts as one that came
\* before.
Ends(m) == mode' = m /\ DropMemory /\ UNCHANGED rows

\* Mutant of Settle: the entry is acknowledged in the consumer's memory only.
SettleLocally(e) == acked' = acked \cup {e} /\ UNCHANGED <<pending, idle>>

\* XACK
Settle(e) ==
    /\ pending' = pending \ {e} /\ idle' = idle \ {e}
    /\ acked' = acked \cup {e}

-----------------------------------------------------------------------------
\* _publish_query_event: XADD with an approximate MAXLEN.
Publish ==
    /\ sent < NumEvents
    /\ sent' = sent + 1
    /\ UNCHANGED <<from, last, pel, memory, mode, rows, acked, mishaps>>

\* lifespan and run(): the group is created at "$" by the first start.
Start ==
    /\ mode \in {"new", "down"}
    /\ mode' = "up"
    /\ IF mode = "new" THEN from' = sent /\ last' = sent ELSE UNCHANGED <<from, last>>
    /\ UNCHANGED <<sent, pel, memory, rows, acked, mishaps>>

\* XREADGROUP ">" hands out a batch of what the stream still holds.  When its
\* reply is lost, the loop pauses and asks for new entries.
Read ==
    /\ mode = "up" /\ inhand = <<>> /\ flush["consume"] = NoFlush
    /\ LET first == Max({last, sent - MaxLen} \cap Nat) + 1
           to    == Min({first + BatchSize - 1, sent})
       IN  /\ first <= sent
           /\ last' = to
           /\ \/ inhand' = [i \in 1 .. to - first + 1 |-> first + i - 1] /\ UNCHANGED mishaps
              \/ UNCHANGED inhand /\ Mishap
           /\ pending' = pending \cup first .. to
           /\ times' = [e \in Events |-> IF e \in first .. to THEN Capped(times[e]) ELSE times[e]]
    /\ UNCHANGED <<sent, from, idle, buffer, flush, mode, rows, acked>>

\* Entries taken into the buffer, which is flushed when it is full.
Extend(t, entries) ==
    /\ buffer' = buffer \o entries
    /\ Set(t, [NoFlush EXCEPT !.pc = IF Len(buffer') >= BatchSize THEN "flush" ELSE "idle"])

\* The consume loop's body.
Buffer ==
    /\ mode = "up" /\ inhand # <<>> /\ flush["consume"] = NoFlush
    /\ Head(inhand) \notin Malformed
    /\ Extend("consume", <<Head(inhand)>>)
    /\ inhand' = Tail(inhand)
    /\ UNCHANGED <<sent, from, last, pel, mode, rows, acked, mishaps>>

\* consume() acknowledges an event it cannot parse and goes on.
AtMalformed ==
    /\ mode = "up" /\ inhand # <<>> /\ flush["consume"] = NoFlush
    /\ Head(inhand) \in Malformed

Discard ==
    /\ AtMalformed
    /\ Settle(Head(inhand))
    /\ inhand' = Tail(inhand)
    /\ UNCHANGED <<sent, from, last, times, buffer, flush, mode, rows, mishaps>>

\* That XACK fails, carried out or not, outside of any try: run() ends.
DiscardFails ==
    /\ AtMalformed /\ Mishap
    /\ Settle(Head(inhand)) \/ UNCHANGED <<pending, idle, acked>>
    /\ Ends("dead")
    /\ UNCHANGED <<sent, from, last, times>>

\* _periodic_flush_loop
Tick ==
    /\ Running /\ flush["periodic"] = NoFlush /\ buffer # <<>>
    /\ Set("periodic", [NoFlush EXCEPT !.pc = "flush"])
    /\ UNCHANGED <<sent, from, last, pel, inhand, buffer, mode, rows, acked, mishaps>>

Held(e) ==
    \/ Count(inhand \o buffer, e) > 0
    \/ \E t \in Tasks : Count(flush[t].batch, e) > 0

\* Mutant of Elapse: an entry is reclaimed once.
ElapseOnce(e) ==
    /\ e \in pending \ idle /\ times[e] < 2
    /\ idle' = idle \cup {e}
    /\ UNCHANGED <<sent, from, last, pending, times, memory, mode, rows, acked, mishaps>>

\* A pending entry has not been delivered for analytics_consumer_claim_idle_ms.
\* Bound: while this consumer still holds it, only after its first delivery.
Elapse(e) ==
    /\ e \in pending \ idle
    /\ Held(e) => times[e] = 1
    /\ idle' = idle \cup {e}
    /\ UNCHANGED <<sent, from, last, pending, times, memory, mode, rows, acked, mishaps>>

\* _claim_idle_loop: XAUTOCLAIM takes the oldest idle entries, also those that
\* this consumer still holds; entries that were trimmed leave the pending list.
Taken == {e \in idle : Cardinality({f \in idle : f < e}) < ClaimBatch}
Kept  == {e \in Taken : ~Trimmed(e)}

Reclaim(discarded) ==
    /\ pending' = pending \ ((Taken \ Kept) \cup discarded)
    /\ idle' = idle \ Taken
    /\ times' = [e \in Events |-> IF e \in Kept THEN Capped(times[e]) ELSE times[e]]
    /\ acked' = acked \cup discarded

\* Those that cannot be parsed are acknowledged one by one, the others buffered.
Claim ==
    /\ Running /\ flush["claim"] = NoFlush /\ idle # {}
    /\ Reclaim(Kept \cap Malformed)
    /\ LET good == Kept \ Malformed IN
       IF good = {} THEN UNCHANGED <<buffer, flush>>
       ELSE \E entries \in [1 .. Cardinality(good) -> good] :
               IsSorted(entries, <) /\ Extend("claim", entries)
    /\ UNCHANGED <<sent, from, last, inhand, mode, rows, mishaps>>

\* The reply is lost or one of those acknowledgements fails: claim_idle returns
\* nothing, and what was claimed waits to be idle again.
ClaimFails ==
    /\ Running /\ flush["claim"] = NoFlush /\ idle # {} /\ Mishap
    /\ \E n \in 0 .. NumEvents : Reclaim({e \in Kept \cap Malformed : e <= n})
    /\ UNCHANGED <<sent, from, last, memory, mode, rows>>

-----------------------------------------------------------------------------
(* _flush                                                                   *)

\* Mutant of Swap: the buffer is not emptied.
SwapCopying(t) ==
    /\ Set(t, IF buffer = <<>> THEN NoFlush ELSE [pc |-> "insert", batch |-> buffer])
    /\ UNCHANGED buffer

\* Under the lock the buffer is taken and replaced by an empty one.
Swap(t) ==
    /\ Set(t, IF buffer = <<>> THEN NoFlush ELSE [pc |-> "insert", batch |-> buffer])
    /\ buffer' = <<>>

Poisoned == \E i \in DOMAIN buffer : buffer[i] \in Unconvertible

Grab(t) ==
    /\ Running /\ flush[t].pc = "flush" /\ ~Poisoned
    /\ Swap(t)
    /\ UNCHANGED <<sent, from, last, pel, inhand, mode, rows, acked, mishaps>>

\* _row_from_payload raises for one event of the batch, before the try: the batch
\* is dropped and stays pending.  The two loops log it and go on, the consume
\* loop ends run().
Choke(t) ==
    /\ Running /\ flush[t].pc = "flush" /\ Poisoned
    /\ IF t = "consume" THEN Ends(IF mode = "up" THEN "dead" ELSE "down")
       ELSE buffer' = <<>> /\ Set(t, NoFlush) /\ UNCHANGED <<inhand, mode, rows>>
    /\ UNCHANGED <<sent, from, last, pel, acked, mishaps>>

\* One row for each entry of the batch, in a thread.
Insert(t) ==
    /\ flush[t].pc = "insert"
    /\ rows' = [e \in Events |-> Min({MaxCount, rows[e] + Count(flush[t].batch, e)})]
    /\ Set(t, [flush[t] EXCEPT !.pc = "ack"])
    /\ UNCHANGED <<sent, from, last, pel, inhand, buffer, mode, acked, mishaps>>

\* Mutant of AfterFailure: the batch is acknowledged all the same.
AckAnyway(t) == [flush[t] EXCEPT !.pc = "ack"]

\* A batch that was not inserted is dropped and stays pending.
AfterFailure(t) == NoFlush

InsertFails(t) ==
    /\ flush[t].pc = "insert"
    /\ Mishap
    /\ Set(t, AfterFailure(t))
    /\ UNCHANGED <<sent, from, last, pel, inhand, buffer, mode, rows, acked>>

Ack(t) ==
    /\ flush[t].pc = "ack"
    /\ LET e == Head(flush[t].batch)  rest == Tail(flush[t].batch) IN
       /\ Settle(e)
       /\ Set(t, IF rest = <<>> THEN NoFlush ELSE [pc |-> "ack", batch |-> rest])
    /\ UNCHANGED <<sent, from, last, times, inhand, buffer, mode, rows, mishaps>>

\* XACK raises: the two loops log it and go on, the consume loop ends run().
AckFails(t) ==
    /\ flush[t].pc = "ack"
    /\ Mishap
    /\ IF t = "consume" THEN Ends(IF mode = "up" THEN "dead" ELSE "down")
       ELSE Set(t, NoFlush) /\ UNCHANGED <<mode, rows, inhand, buffer>>
    /\ UNCHANGED <<sent, from, last, pel, acked>>

-----------------------------------------------------------------------------
(* Stopping.                                                                *)

\* The process is killed, or stopped while the consume loop waits in XREADGROUP:
\* consume() swallows the cancellation and run() ends without a last flush.
Kill ==
    /\ mode \in {"up", "dead", "closing"}
    /\ Mishap
    /\ Ends("down")
    /\ UNCHANGED <<sent, from, last, pel, acked>>

\* Cancelled in the middle of a flush, whose batch is given up, or of the XACK of
\* an event that cannot be parsed: what is in the buffer is flushed once more.
Shutdown ==
    /\ mode = "up"
    /\ Mishap
    /\ \/ flush["consume"].pc \in {"insert", "ack"} /\ UNCHANGED <<pending, idle, acked>>
       \/ AtMalformed /\ (Settle(Head(inhand)) \/ UNCHANGED <<pending, idle, acked>>)
    /\ mode' = "closing"
    /\ Set("consume", [NoFlush EXCEPT !.pc = "flush"])
    /\ inhand' = <<>>
    /\ UNCHANGED <<sent, from, last, times, buffer, rows>>

Closed ==
    /\ mode = "closing" /\ flush["consume"] = NoFlush
    /\ Ends("down")
    /\ UNCHANGED <<sent, from, last, pel, acked, mishaps>>

Flushing(t) == Grab(t) \/ Choke(t) \/ Insert(t) \/ Ack(t)

Next ==
    \/ Publish \/ Start \/ Read \/ Buffer \/ Discard \/ DiscardFails
    \/ Tick \/ Claim \/ ClaimFails
    \/ \E e \in Events : Elapse(e)
    \/ \E t \in Tasks : Flushing(t) \/ InsertFails(t) \/ AckFails(t)
    \/ Kill \/ Shutdown \/ Closed

Spec == Init /\ [][Next]_vars

\* The container is restarted, the timers of the loops fire, Redis and ClickHouse
\* answer again.
Fairness ==
    /\ WF_vars(Start) /\ WF_vars(Read) /\ WF_vars(Buffer) /\ WF_vars(Discard)
    /\ WF_vars(Tick) /\ WF_vars(Claim)
    /\ \A e \in Events : WF_vars(Elapse(e))
    /\ \A t \in Tasks : WF_vars(Flushing(t))
    /\ WF_vars(Closed)

FairSpec == Spec /\ Fairness

-----------------------------------------------------------------------------
\* "at-least-once": an event that can be parsed is acknowledged only when it is in
\* ClickHouse, whichever of the three tasks flushed it and whatever failed.  The
\* contract is the ingestion worker's, with rows for reports: batches are inserted
\* whole, no failure or stop takes a row back, and entries are acknowledged one by
\* one, each after its row, but for those that cannot be parsed, which are
\* acknowledged and never stored.
Contract == INSTANCE AtLeastOnce WITH
    Entries <- Events, Unreadable <- Malformed, sent <- 1 .. sent,
    reported <- {e \in Events : rows[e] > 0}, settled <- acked
ContractSpec == Contract!Spec

\* "duplicate rows possible" only by redelivery: an event has no more rows than
\* it had deliveries, though three tasks flush one buffer.
RowsWithinDeliveries == \A e \in Events : rows[e] <= times[e]

\* An event delivered to the group gets its row in the end, or is acknowledged when
\* it cannot be parsed, through outages of ClickHouse and restarts.  The exceptions:
\* it was trimmed from the stream; an XACK error or an event that does not convert
\* has ended the consume loop, which nothing starts again; or such an event is
\* pending too, since whatever shares a batch with it is dropped with it, at every
\* redelivery.
StoredInTheEnd ==
    \A e \in Events :
        e \in pending ~> \/ rows[e] > 0
                        \/ e \in Malformed \cap acked
                        \/ Trimmed(e)
                        \/ mode = "dead"
                        \/ Unconvertible \cap pending # {}
=============================================================================
