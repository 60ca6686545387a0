-------------------------- MODULE StreamWorker_proofs --------------------------
(***************************************************************************)
(* StreamWorker keeps its types and implements AtLeastOnce for any number   *)
(* of entries, tenants and permits and every bound: no entry that can be    *)
(* parsed is settled before a terminal event for it was published.          *)
(***************************************************************************)
EXTENDS StreamWorker, FiniteSetTheorems, SequenceTheorems, TLAPS

-----------------------------------------------------------------------------
(* The inductive invariant.                                                 *)

(* Whatever the process holds in memory was delivered to it, and what it    *)
(* queues or handles was parsed.                                            *)
Parsed(n) == (1 .. n) \ Malformed
InMemory ==
    /\ buffer \in Seq(1 .. read)
    /\ queues \in [Tenants -> Seq(Parsed(read))]
    /\ waiting \in Seq(Parsed(read))
    /\ \A p \in Permits : active[p].pc # "free" => active[p].msg \in Parsed(read)

(* So is whatever the PEL holds; an idle entry is pending.                  *)
PendingRead == \A m \in Msgs : /\ times[m] > 0 => m <= read
                               /\ idle[m] => times[m] > 0

(* A handler acknowledges after it has reported.                            *)
AckPcs == {"doneAck", "missAck", "dlqAck"}
AckReported ==
    \A p \in Permits : active[p].pc \in AckPcs => outcomes[active[p].msg] # {}

IInv == TypeOK /\ InMemory /\ PendingRead /\ AckReported

LEMMA Sizes == /\ NumMsgs \in Nat /\ MaxFaults \in Nat /\ MaxDelivery \in Nat
               /\ BatchSize \in Nat /\ BatchSize > 0 /\ MaxDelivery > 0
  BY SizesAssumption

LEMMA InitInv == Init => IInv
  BY Sizes, EmptySeq
  DEF Init, IInv, Parsed, TypeOK, InMemory, PendingRead, AckReported, AckPcs, Free, EmptyQueues, Pcs, Msgs,
      Running

-----------------------------------------------------------------------------
(* Dispatching moves queue heads to the tasks and invents nothing.          *)

LEMMA FunctionIsSeq == ASSUME NEW S, NEW n \in Nat, NEW f \in [1 .. n -> S] PROVE f \in Seq(S)
  OBVIOUS

LEMMA DispatchType ==
    ASSUME NEW S, NEW q \in [Tenants -> Seq(S)], waiting \in Seq(S), Dispatch(q)
    PROVE  queues' \in [Tenants -> Seq(S)] /\ waiting' \in Seq(S)
  <1> DEFINE ready == {t \in Tenants : q[t] # <<>>}
  <1>1. \A t \in ready : Head(q[t]) \in S /\ Tail(q[t]) \in Seq(S)
    BY HeadTailProperties
  <1>2. queues' \in [Tenants -> Seq(S)]
    BY <1>1 DEF Dispatch
  <1>3. Cardinality(ready) \in Nat
    <2>1. IsFiniteSet(ready)
      BY TenantAssumption, FS_Subset
    <2> QED
      BY <2>1, FS_CardinalityType
  <1>4. PICK order \in [1 .. Cardinality(ready) -> ready] :
           waiting' = waiting \o [i \in DOMAIN order |-> Head(q[order[i]])]
    BY DEF Dispatch, SetToSeqs
  <1> DEFINE heads == [i \in DOMAIN order |-> Head(q[order[i]])]
  <1>5. heads \in Seq(S)
    <2>1. DOMAIN order = 1 .. Cardinality(ready) /\ \A i \in DOMAIN order : order[i] \in ready
      BY <1>4
    <2>2. heads \in [1 .. Cardinality(ready) -> S]
      BY <2>1, <1>1
    <2> QED
      BY <2>2, <1>3, FunctionIsSeq
  <1> QED
    BY <1>2, <1>4, <1>5, ConcatProperties

(* Reclaiming queues only idle entries.                                     *)
LEMMA RequeuesType ==
    ASSUME NEW S, queues \in [Tenants -> Seq(S)], Claimed \ Malformed \subseteq S, NumMsgs \in Nat,
           NEW q \in Requeues
    PROVE  q \in [Tenants -> Seq(S)]
  <1>1. PICK c \in [Tenants -> UNION {Listings(Requeued(t)) : t \in Tenants}] :
           q = [t \in Tenants |-> queues[t] \o c[t]]
    BY DEF Requeues
  <1>2. ASSUME NEW t \in Tenants PROVE Listings(Requeued(t)) \subseteq Seq(S)
    <2>1. Requeued(t) \subseteq 1 .. NumMsgs /\ Requeued(t) \subseteq S
      BY DEF Requeued, Claimed, Idle, Msgs
    <2>2. IsFiniteSet(1 .. NumMsgs)
      BY FS_Interval
    <2>3. Cardinality(Requeued(t)) \in Nat
      BY <2>1, <2>2, FS_Subset, FS_CardinalityType
    <2> QED
      <3>1. ASSUME NEW f \in [1 .. Cardinality(Requeued(t)) -> Requeued(t)] PROVE f \in Seq(S)
        <4>1. f \in [1 .. Cardinality(Requeued(t)) -> S]
          BY <2>1
        <4> QED
          BY <2>3, <4>1, FunctionIsSeq
      <3> QED
        BY <3>1 DEF Listings
  <1>3. \A t \in Tenants : c[t] \in Seq(S)
    BY <1>1, <1>2
  <1> QED
    BY <1>1, <1>3, ConcatProperties

-----------------------------------------------------------------------------
(* Every step preserves the invariant.                                      *)

LEMMA FaultType ==
    ASSUME faults \in 0 .. MaxFaults, Fault PROVE faults' \in 0 .. MaxFaults
  BY Sizes DEF Fault

(* An acknowledged entry leaves the PEL; the others keep their places.      *)
LEMMA AcknowledgeType ==
    ASSUME TypeOK, PendingRead, NEW ms \in SUBSET Msgs, Acknowledge(ms), UNCHANGED read
    PROVE  /\ times' \in [Msgs -> 0 .. MaxDelivery + 1] /\ idle' \in [Msgs -> BOOLEAN]
           /\ acked' \in SUBSET Msgs /\ PendingRead'
  <1>1. /\ times \in [Msgs -> 0 .. MaxDelivery + 1] /\ idle \in [Msgs -> BOOLEAN]
        /\ acked \in SUBSET Msgs
    BY DEF TypeOK
  <1>2. /\ times' = [m \in Msgs |-> IF m \in ms THEN 0 ELSE times[m]]
        /\ idle' = [m \in Msgs |-> idle[m] /\ m \notin ms]
        /\ acked' = acked \cup ms
    BY DEF Acknowledge
  <1>3. times' \in [Msgs -> 0 .. MaxDelivery + 1]
    BY <1>1, <1>2, Sizes
  <1>4. idle' \in [Msgs -> BOOLEAN] /\ acked' \in SUBSET Msgs
    BY <1>1, <1>2
  <1>5. ASSUME NEW m \in Msgs
        PROVE  (times'[m] > 0 => m <= read) /\ (idle'[m] => times'[m] > 0)
    <2>1. (times[m] > 0 => m <= read) /\ (idle[m] => times[m] > 0)
      BY DEF PendingRead
    <2>2. CASE m \in ms
      <3>1. times'[m] = 0
        BY <1>2, <2>2
      <3>2. ~idle'[m]
        BY <1>2, <2>2, Zenon
      <3> QED
        BY <3>1, <3>2
    <2>3. CASE m \notin ms
      BY <1>2, <2>1, <2>3
    <2> QED
      BY <2>2, <2>3
  <1> QED
    BY <1>3, <1>4, <1>5 DEF PendingRead

LEMMA ReclaimType ==
    ASSUME TypeOK, PendingRead, NEW ms \in SUBSET Claimed, Reclaim(ms), UNCHANGED read
    PROVE  /\ times' \in [Msgs -> 0 .. MaxDelivery + 1] /\ idle' \in [Msgs -> BOOLEAN]
           /\ acked' \in SUBSET Msgs /\ PendingRead'
  <1>0. Claimed \subseteq Msgs /\ \A m \in Claimed : idle[m]
    BY DEF Claimed, Idle
  <1>1. /\ times \in [Msgs -> 0 .. MaxDelivery + 1] /\ idle \in [Msgs -> BOOLEAN]
        /\ acked \in SUBSET Msgs
    BY DEF TypeOK
  <1>2. /\ times' = [m \in Msgs |-> IF m \in ms THEN 0
                                  ELSE IF m \in Claimed THEN Deliver(times[m]) ELSE times[m]]
        /\ idle' = [m \in Msgs |-> idle[m] /\ m \notin Claimed]
        /\ acked' = acked \cup ms
    BY DEF Reclaim
  <1>3. \A n \in 0 .. MaxDelivery + 1 : Deliver(n) \in 0 .. MaxDelivery + 1
    BY Sizes DEF Deliver
  <1>4. times' \in [Msgs -> 0 .. MaxDelivery + 1]
    BY <1>1, <1>2, <1>3, Sizes
  <1>5. idle' \in [Msgs -> BOOLEAN] /\ acked' \in SUBSET Msgs
    BY <1>0, <1>1, <1>2
  <1>6. PendingRead'
    BY <1>0, <1>1, <1>2 DEF PendingRead
  <1> QED
    BY <1>4, <1>5, <1>6

LEMMA GoToType ==
    ASSUME active \in [Permits -> [pc : Pcs, msg : 0 .. NumMsgs]],
           NEW p \in Permits, NEW pc \in Pcs, GoTo(p, pc)
    PROVE  /\ active' \in [Permits -> [pc : Pcs, msg : 0 .. NumMsgs]]
           /\ active'[p].pc = pc /\ active'[p].msg = active[p].msg
           /\ \A r \in Permits \ {p} : active'[r] = active[r]
  <1>1. /\ [active[p] EXCEPT !.pc = pc] \in [pc : Pcs, msg : 0 .. NumMsgs]
        /\ [active[p] EXCEPT !.pc = pc].pc = pc
        /\ [active[p] EXCEPT !.pc = pc].msg = active[p].msg
    OBVIOUS
  <1> QED
    BY <1>1 DEF GoTo

LEMMA ReleaseType ==
    ASSUME active \in [Permits -> [pc : Pcs, msg : 0 .. NumMsgs]],
           NEW p \in Permits, Release(p)
    PROVE  /\ active' \in [Permits -> [pc : Pcs, msg : 0 .. NumMsgs]]
           /\ active'[p].pc = "free"
           /\ \A r \in Permits \ {p} : active'[r] = active[r]
  BY Sizes DEF Release, Free, Pcs

LEMMA ForgetType ==
    ASSUME Forget
    PROVE  /\ \A S : buffer' \in Seq(S) /\ queues' \in [Tenants -> Seq(S)] /\ waiting' \in Seq(S)
           /\ active' \in [Permits -> [pc : Pcs, msg : 0 .. NumMsgs]]
           /\ \A p \in Permits : active'[p].pc = "free"
  BY EmptySeq, Sizes DEF Forget, EmptyQueues, Free, Pcs

LEMMA Step == IInv /\ [Next]_vars => IInv'
  <1> SUFFICES ASSUME IInv, [Next]_vars PROVE IInv'
    OBVIOUS
  <1>0. /\ TypeOK /\ InMemory /\ PendingRead /\ AckReported
        /\ read \in 0 .. sent /\ sent \in 0 .. NumMsgs
    BY DEF IInv, TypeOK
  <1>m. /\ Seq(Parsed(read)) \subseteq Seq(Msgs)
        /\ Seq(1 .. read) \subseteq Seq(Msgs) /\ Parsed(read) \subseteq 1 .. read
        /\ 1 .. read \subseteq Msgs
    BY <1>0, Sizes, SeqMonotonic DEF Msgs, Parsed
  <1>f. Fault => faults' \in 0 .. MaxFaults
    BY <1>0, FaultType DEF TypeOK
  <1> USE <1>0, Sizes DEF IInv, TypeOK, InMemory, PendingRead, AckReported, AckPcs, Msgs, memory, pel
  <1>1. CASE Publish
    <2>1. /\ sent' = sent + 1 /\ sent < NumMsgs
          /\ UNCHANGED <<read, times, idle, acked, buffer, queues, waiting, active, mode>>
          /\ UNCHANGED <<outcomes, faults>>
      BY <1>1 DEF Publish
    <2>2. sent' \in 0 .. NumMsgs /\ read' \in 0 .. sent'
      BY <2>1
    <2> QED
      BY <2>1, <2>2
  <1>2. CASE Read
    <2>1. PICK last \in read + 1 .. sent :
             /\ read' = last
             /\ times' = [m \in Msgs |-> IF m \in read + 1 .. last THEN 1 ELSE times[m]]
             /\ buffer' = [i \in 1 .. last - read |-> read + i] \/ buffer' = <<>>
      BY <1>2 DEF Read
    <2>2. buffer' \in Seq(1 .. last)
      <3>1. CASE buffer' = [i \in 1 .. last - read |-> read + i]
        BY <2>1, <3>1
      <3>2. CASE buffer' = <<>>
        BY <3>2, EmptySeq
      <3> QED
        BY <2>1, <3>1, <3>2
    <2>3. Parsed(read) \subseteq Parsed(last) /\ Seq(Parsed(read)) \subseteq Seq(Parsed(last))
      BY <2>1, SeqMonotonic DEF Parsed
    <2>4. /\ queues' \in [Tenants -> Seq(Parsed(last))] /\ waiting' \in Seq(Parsed(last))
          /\ UNCHANGED <<sent, idle, acked, queues, waiting, active, mode, outcomes>>
          /\ faults' \in 0 .. MaxFaults
      BY <1>2, <1>f, <2>3 DEF Read
    <2>5. buffer' \in Seq(Msgs)
      BY <2>1, <2>2, SeqMonotonic
    <2>6. times' \in [Msgs -> 0 .. MaxDelivery + 1]
      BY <2>1
    <2>7. UNCHANGED <<sent, idle, acked, queues, waiting, active, mode, outcomes>>
      BY <2>4
    <2>8. TypeOK'
      <3>1. read' \in 0 .. sent' /\ sent' \in 0 .. NumMsgs
        BY <2>1, <2>7
      <3>2. faults' \in 0 .. MaxFaults
        BY <2>4
      <3> QED
        BY <2>5, <2>6, <2>7, <3>1, <3>2
    <2>9. InMemory'
      BY <2>1, <2>2, <2>3, <2>4, <2>7
    <2>10. PendingRead'
      BY <2>1, <2>7
    <2>11. AckReported'
      BY <2>7
    <2> QED
      BY <2>8, <2>9, <2>10, <2>11
  <1>3. CASE Enqueue
    <2>1. Head(buffer) \in Parsed(read) /\ Head(buffer) \in Msgs /\ Tail(buffer) \in Seq(1 .. read)
      BY <1>3, <1>m, HeadTailProperties DEF Enqueue, Parsed
    <2>2. TenantOf[Head(buffer)] \in Tenants
      BY <2>1, TenantAssumption
    <2>3. [queues EXCEPT ![TenantOf[Head(buffer)]] = Append(@, Head(buffer))]
            \in [Tenants -> Seq(Parsed(read))]
      BY <2>1, <2>2, AppendProperties
    <2>4. queues' \in [Tenants -> Seq(Parsed(read))] /\ waiting' \in Seq(Parsed(read))
      BY <1>3, <2>3, DispatchType DEF Enqueue
    <2>5. queues' \in [Tenants -> Seq(Msgs)] /\ waiting' \in Seq(Msgs) /\ Tail(buffer) \in Seq(Msgs)
      BY <2>1, <2>4, <1>m
    <2> QED
      BY <1>3, <2>1, <2>4, <2>5 DEF Enqueue
  <1>19. CASE Discard \/ DiscardFails
    <2>0. buffer # <<>> /\ (buffer' = Tail(buffer) \/ buffer' = <<>>)
      BY <1>19 DEF Discard, DiscardFails
    <2>1. Head(buffer) \in Msgs /\ buffer' \in Seq(1 .. read) /\ buffer' \in Seq(Msgs)
      <3>1. Head(buffer) \in 1 .. read /\ Tail(buffer) \in Seq(1 .. read)
        BY <2>0, HeadTailProperties
      <3>2. buffer' \in Seq(1 .. read)
        BY <2>0, <3>1, EmptySeq
      <3> QED
        BY <1>m, <3>1, <3>2
    <2>2. /\ Acknowledge({Head(buffer)}) \/ UNCHANGED <<times, idle, acked>>
          /\ UNCHANGED <<sent, read, queues, waiting, active, outcomes>>
          /\ mode' \in Running \cup {"dead"} /\ faults' \in 0 .. MaxFaults
      BY <1>19, <1>f DEF Discard, DiscardFails, Running
    <2>3. /\ times' \in [Msgs -> 0 .. MaxDelivery + 1] /\ idle' \in [Msgs -> BOOLEAN]
          /\ acked' \in SUBSET Msgs /\ PendingRead'
      BY <2>1, <2>2, AcknowledgeType
    <2> QED
      BY <2>1, <2>2, <2>3
  <1>4. CASE Claim
    <2>1. Claimed \subseteq 1 .. read /\ \A m \in Claimed \ Malformed : m \in Parsed(read)
      BY DEF Claimed, Idle, Parsed
    <2>2. queues' \in [Tenants -> Seq(Parsed(read))] /\ waiting' \in Seq(Parsed(read))
      BY <1>4, <2>1, RequeuesType, DispatchType DEF Claim
    <2>3. queues' \in [Tenants -> Seq(Msgs)] /\ waiting' \in Seq(Msgs)
      BY <2>2, <1>m
    <2>4. Reclaim(Claimed \cap Malformed) /\ UNCHANGED <<sent, read, buffer, active, outcomes, faults>>
      BY <1>4 DEF Claim
    <2>5. /\ times' \in [Msgs -> 0 .. MaxDelivery + 1] /\ idle' \in [Msgs -> BOOLEAN]
          /\ acked' \in SUBSET Msgs /\ PendingRead'
      BY <2>4, ReclaimType
    <2>6. mode' \in Running \cup {"stopped", "crashed"}
      BY <1>4 DEF Claim, Running
    <2> QED
      BY <2>2, <2>3, <2>4, <2>5, <2>6
  <1>20. CASE ClaimFails
    <2>1. PICK n \in 0 .. NumMsgs : Reclaim({m \in Claimed \cap Malformed : m <= n})
      BY <1>20 DEF ClaimFails
    <2>2. UNCHANGED <<sent, read, buffer, queues, waiting, active, mode, outcomes>>
          /\ faults' \in 0 .. MaxFaults
      BY <1>20, <1>f DEF ClaimFails
    <2>3. /\ times' \in [Msgs -> 0 .. MaxDelivery + 1] /\ idle' \in [Msgs -> BOOLEAN]
          /\ acked' \in SUBSET Msgs /\ PendingRead'
      BY <2>1, <2>2, ReclaimType
    <2> QED
      BY <2>2, <2>3
  <1>5. ASSUME NEW m \in Msgs, Elapse(m) PROVE IInv'
    BY <1>5 DEF Elapse
  <1>6. ASSUME NEW p \in Permits, Acquire(p) PROVE IInv'
    <2>1. /\ Head(waiting) \in Parsed(read) /\ Head(waiting) \in 1 .. read
          /\ Tail(waiting) \in Seq(Parsed(read))
      BY <1>6, <1>m, HeadTailProperties DEF Acquire
    <2>2. Tail(waiting) \in Seq(Msgs)
      BY <2>1, <1>m
    <2>3. /\ active' \in [Permits -> [pc : Pcs, msg : 0 .. NumMsgs]]
          /\ active'[p] = [pc |-> "check", msg |-> Head(waiting)]
          /\ \A r \in Permits \ {p} : active'[r] = active[r]
      BY <1>6, <2>1 DEF Acquire, Pcs
    <2> QED
      BY <1>6, <2>1, <2>2, <2>3 DEF Acquire
  <1>7. ASSUME NEW p \in Permits, Check(p) PROVE IInv'
    <2>1. PICK pc \in {"dlqReport", "fetch"} : GoTo(p, pc)
      BY <1>7 DEF Check
    <2>2. /\ active' \in [Permits -> [pc : Pcs, msg : 0 .. NumMsgs]]
          /\ active'[p].pc = pc /\ active'[p].msg = active[p].msg
          /\ \A r \in Permits \ {p} : active'[r] = active[r]
      BY <2>1, GoToType DEF Pcs
    <2>3. /\ active[p].pc = "check" /\ faults' \in 0 .. MaxFaults
          /\ UNCHANGED <<sent, read, pel, buffer, queues, waiting, mode, outcomes>>
      BY <1>7, <1>f DEF Check
    <2> QED
      BY <2>2, <2>3
  <1>8. ASSUME NEW p \in Permits, Fetch(p) PROVE IInv'
    <2>1. PICK pc \in {"missReport", "run", "failReport"} : GoTo(p, pc)
      BY <1>8 DEF Fetch
    <2>2. /\ active' \in [Permits -> [pc : Pcs, msg : 0 .. NumMsgs]]
          /\ active'[p].pc = pc /\ active'[p].msg = active[p].msg
          /\ \A r \in Permits \ {p} : active'[r] = active[r]
      BY <2>1, GoToType DEF Pcs
    <2>3. /\ active[p].pc = "fetch" /\ faults' \in 0 .. MaxFaults
          /\ UNCHANGED <<sent, read, pel, buffer, queues, waiting, mode, outcomes>>
      BY <1>8, <1>f DEF Fetch
    <2>4. active[p].msg \in Msgs
      BY <1>m, <2>3
    <2>5. TypeOK'
      BY <2>2, <2>3, <2>4
    <2>6. InMemory' /\ PendingRead'
      BY <2>2, <2>3
    <2>7. AckReported'
      BY <2>2, <2>3
    <2> QED
      BY <2>5, <2>6, <2>7
  <1>9. ASSUME NEW p \in Permits, Run(p) PROVE IInv'
    <2>1. PICK pc \in {"doneReport", "failReport"} : GoTo(p, pc)
      BY <1>9 DEF Run
    <2>2. /\ active' \in [Permits -> [pc : Pcs, msg : 0 .. NumMsgs]]
          /\ active'[p].pc = pc /\ active'[p].msg = active[p].msg
          /\ \A r \in Permits \ {p} : active'[r] = active[r]
      BY <2>1, GoToType DEF Pcs
    <2>3. /\ active[p].pc = "run" /\ faults' \in 0 .. MaxFaults
          /\ UNCHANGED <<sent, read, pel, buffer, queues, waiting, mode, outcomes>>
      BY <1>9, <1>f DEF Run
    <2> QED
      BY <2>2, <2>3
  <1>10. ASSUME NEW p \in Permits, Report(p) PROVE IInv'
    <2>1. /\ active[p].pc \in {"doneReport", "missReport", "dlqReport", "failReport"}
          /\ \E st \in {"COMPLETED", "FAILED"} : Publishes(p, st)
          /\ UNCHANGED <<sent, read, pel, buffer, queues, waiting, mode, faults>>
      BY <1>10 DEF Report
    <2>2. /\ outcomes' \in [Msgs -> SUBSET {"COMPLETED", "FAILED"}]
          /\ outcomes'[active[p].msg] # {}
          /\ \A m \in Msgs : outcomes[m] \subseteq outcomes'[m]
      <3>1. PICK st \in {"COMPLETED", "FAILED"} : Publishes(p, st)
        BY <2>1
      <3>2. active[p].msg \in Msgs
        BY <1>m, <2>1
      <3>3. outcomes' = [outcomes EXCEPT ![active[p].msg] = @ \cup {st}]
        BY <3>1 DEF Publishes
      <3> HIDE <1>0 DEF InMemory, PendingRead, AckReported
      <3>4. outcomes \in [Msgs -> SUBSET {"COMPLETED", "FAILED"}]
        BY <1>0
      <3> QED
        BY <3>2, <3>3, <3>4
    <2>3. /\ active' \in [Permits -> [pc : Pcs, msg : 0 .. NumMsgs]]
          /\ active'[p].pc # "free" => active'[p].msg = active[p].msg
          /\ \A r \in Permits \ {p} : active'[r] = active[r]
      <3>1. CASE Release(p)
        BY <3>1, ReleaseType
      <3>2. CASE \E pc \in AckPcs : GoTo(p, pc)
        BY <3>2, GoToType DEF Pcs
      <3> QED
        BY <1>10, <3>1, <3>2 DEF Report
    <2>4. \A r \in Permits \ {p} : active[r].pc \in AckPcs => active[r].msg \in Msgs
      BY <1>m
    <2>5. AckReported'
      BY <2>2, <2>3, <2>4
    <2> QED
      BY <2>1, <2>2, <2>3, <2>5
  <1>11. ASSUME NEW p \in Permits, Ack(p) PROVE IInv'
    <2>1. /\ active' \in [Permits -> [pc : Pcs, msg : 0 .. NumMsgs]]
          /\ active'[p].pc = "free"
          /\ \A r \in Permits \ {p} : active'[r] = active[r]
      BY <1>11, ReleaseType DEF Ack
    <2>2. active[p].msg \in Msgs
      BY <1>11, <1>m DEF Ack
    <2>3. /\ Acknowledge({active[p].msg})
          /\ UNCHANGED <<sent, read, buffer, queues, waiting, mode, outcomes, faults>>
      BY <1>11 DEF Ack
    <2>4. /\ times' \in [Msgs -> 0 .. MaxDelivery + 1] /\ idle' \in [Msgs -> BOOLEAN]
          /\ acked' \in SUBSET Msgs /\ PendingRead'
      BY <2>2, <2>3, AcknowledgeType
    <2> QED
      BY <2>1, <2>3, <2>4
  <1>12. ASSUME NEW p \in Permits, RedisFails(p) PROVE IInv'
    <2>1. /\ active' \in [Permits -> [pc : Pcs, msg : 0 .. NumMsgs]]
          /\ active[p].pc # "free" /\ active'[p].pc \notin AckPcs
          /\ active'[p].pc # "free" => active'[p].msg = active[p].msg
          /\ \A r \in Permits \ {p} : active'[r] = active[r]
      <3>1. CASE GoTo(p, "failReport")
        BY <1>12, <3>1, GoToType DEF RedisFails, Pcs
      <3>2. CASE Release(p)
        BY <1>12, <3>2, ReleaseType DEF RedisFails
      <3> QED
        BY <1>12, <3>1, <3>2 DEF RedisFails
    <2>2. /\ faults' \in 0 .. MaxFaults
          /\ UNCHANGED <<sent, read, pel, buffer, queues, waiting, mode, outcomes>>
      BY <1>12, <1>f DEF RedisFails
    <2> QED
      BY <2>1, <2>2
  <1>13. CASE Crash
    BY <1>13, <1>f, ForgetType DEF Crash
  <1>14. CASE Shutdown
    <2>0. UNCHANGED <<sent, read, outcomes>> /\ faults' \in 0 .. MaxFaults
      BY <1>14, <1>f DEF Shutdown
    <2>1. CASE Forget /\ mode' = "stopped" /\ UNCHANGED <<times, idle, acked>>
      BY <2>0, <2>1, ForgetType
    <2>2. CASE /\ mode' = "draining" /\ UNCHANGED <<queues, waiting, active>>
               /\ \/ UNCHANGED <<times, idle, acked, buffer>>
                  \/ /\ buffer # <<>> /\ buffer' = <<>>
                     /\ Acknowledge({Head(buffer)}) \/ UNCHANGED <<times, idle, acked>>
      <3>1. buffer' \in Seq(1 .. read) /\ buffer' \in Seq(Msgs)
        BY <2>2, EmptySeq
      <3>2. Acknowledge({Head(buffer)}) /\ buffer # <<>> => Head(buffer) \in Msgs
        BY <1>m, HeadTailProperties
      <3>3. /\ times' \in [Msgs -> 0 .. MaxDelivery + 1] /\ idle' \in [Msgs -> BOOLEAN]
            /\ acked' \in SUBSET Msgs /\ PendingRead'
        BY <2>0, <2>2, <3>2, AcknowledgeType
      <3> QED
        BY <2>0, <2>2, <3>1, <3>3 DEF Running
    <2> QED
      BY <1>14, <2>1, <2>2 DEF Shutdown
  <1>15. CASE Drained
    BY <1>15, ForgetType DEF Drained
  <1>16. CASE Restart
    BY <1>16 DEF Restart, Running
  <1>17. CASE UNCHANGED vars
    BY <1>17 DEF vars
  <1> QED
    BY <1>1, <1>2, <1>3, <1>4, <1>5, <1>6, <1>7, <1>8, <1>9, <1>10, <1>11, <1>12, <1>13, <1>14,
       <1>15, <1>16, <1>17, <1>19, <1>20
    DEF Next, Handle

-----------------------------------------------------------------------------
(* The theorems.                                                            *)

THEOREM Invariance == Spec => []IInv
  BY InitInv, Step, PTL DEF Spec

(* The stream, the PEL and the worker's memory keep their types.            *)
THEOREM TypeCorrect == Spec => []TypeOK
  <1>1. IInv => TypeOK
    BY DEF IInv
  <1> QED
    BY Invariance, <1>1, PTL

(* Each step of the worker is a step of the contract or leaves it alone.    *)
LEMMA ContractStep == IInv /\ [Next]_vars => [Contract!Next]_(Contract!avars)
  <1> SUFFICES ASSUME IInv, [Next]_vars
               PROVE  Contract!Next \/ UNCHANGED Contract!avars
    OBVIOUS
  <1> DEFINE reported == {m \in Msgs : outcomes[m] # {}}
  <1>0. /\ TypeOK /\ InMemory /\ PendingRead /\ AckReported
        /\ read \in 0 .. sent /\ sent \in 0 .. NumMsgs
    BY DEF IInv, TypeOK
  <1> USE <1>0, Sizes DEF Msgs, pel
  <1>1. CASE Publish
    <2>1. sent + 1 \in Msgs \ (1 .. sent) /\ 1 .. sent' = (1 .. sent) \cup {sent + 1}
      BY <1>1 DEF Publish
    <2>2. UNCHANGED <<outcomes, acked>>
      BY <1>1 DEF Publish
    <2>3. Contract!Send(sent + 1)
      BY <2>1, <2>2 DEF Contract!Send
    <2> QED
      BY <2>1, <2>3 DEF Contract!Next
  <1>2. ASSUME NEW p \in Permits, Report(p) PROVE Contract!Next
    <2>i. active[p].msg \in (1 .. sent) \ Malformed /\ active[p].msg \in Msgs
      BY <1>2 DEF Report, InMemory, Parsed
    <2>0. PICK m \in Msgs : m = active[p].msg /\ m \in (1 .. sent) \ Malformed
      BY <2>i
    <2>1. m = active[p].msg /\ m \in (1 .. sent) \ Malformed /\ m \in Msgs
      BY <2>0
    <2>2. /\ \E st \in {"COMPLETED", "FAILED"} : Publishes(p, st)
          /\ UNCHANGED <<sent, acked>>
      BY <1>2 DEF Report
    <2>3. reported' = reported \cup {m}
      <3>1. PICK st \in {"COMPLETED", "FAILED"} : Publishes(p, st)
        BY <2>2
      <3>2. outcomes' = [outcomes EXCEPT ![m] = @ \cup {st}] /\ DOMAIN outcomes = Msgs
        BY <2>1, <3>1, <1>0 DEF Publishes, TypeOK
      <3>3. outcomes'[m] # {} /\ \A k \in Msgs \ {m} : outcomes'[k] = outcomes[k]
        BY <2>1, <3>2
      <3> QED
        BY <2>1, <3>3
    <2>4. Contract!Report({m})
      BY <2>1, <2>2, <2>3 DEF Contract!Report
    <2> QED
      BY <2>1, <2>4 DEF Contract!Next
  <1>3. ASSUME NEW p \in Permits, Ack(p) PROVE Contract!Next
    <2> DEFINE m == active[p].msg
    <2>1. m \in Msgs /\ m \in reported
      <3>1. active[p].pc \in AckPcs
        BY <1>3 DEF Ack, AckPcs
      <3>2. active[p].msg \in Parsed(read) /\ outcomes[m] # {}
        BY <3>1 DEF InMemory, AckReported, AckPcs
      <3> QED
        BY <3>2 DEF Parsed
    <2>2. acked' = acked \cup {m} /\ UNCHANGED <<sent, outcomes>>
      BY <1>3 DEF Ack, Acknowledge
    <2>3. Contract!Settle(m)
      BY <2>1, <2>2 DEF Contract!Settle
    <2> QED
      BY <2>1, <2>3 DEF Contract!Next
  <1>d. ASSUME NEW ms \in SUBSET Msgs, ms \subseteq (1 .. sent) \cap Malformed,
               acked' = acked \cup ms, UNCHANGED <<sent, outcomes>>
        PROVE  Contract!Next
    <2>1. Contract!Discard(ms)
      BY <1>d DEF Contract!Discard
    <2> QED
      BY <2>1 DEF Contract!Next
  <1>5. UNCHANGED <<sent, outcomes, acked>> => UNCHANGED Contract!avars
    BY DEF Contract!avars
  <1>6. CASE Discard \/ DiscardFails \/ Shutdown
    <2>1. UNCHANGED <<sent, outcomes>>
      BY <1>6 DEF Discard, DiscardFails, Shutdown
    <2>2. CASE UNCHANGED acked
      BY <1>5, <2>1, <2>2
    <2>3. CASE buffer # <<>> /\ Head(buffer) \in Malformed /\ Acknowledge({Head(buffer)})
      <3>1. Head(buffer) \in 1 .. read
        BY <2>3, HeadTailProperties DEF InMemory
      <3>2. PICK ms \in SUBSET Msgs : ms = {Head(buffer)}
        <4>1. Head(buffer) \in Msgs
          BY <3>1
        <4> QED
          BY <4>1
      <3>3. ms \subseteq (1 .. sent) \cap Malformed /\ acked' = acked \cup ms
        BY <2>3, <3>1, <3>2 DEF Acknowledge
      <3> QED
        BY <1>d, <2>1, <3>3
    <2> QED
      BY <1>6, <2>2, <2>3 DEF Discard, DiscardFails, Shutdown
  <1>7. CASE Claim \/ ClaimFails
    <2>1. PICK ms \in SUBSET (Claimed \cap Malformed) : Reclaim(ms)
      <3>1. CASE Claim
        BY <3>1 DEF Claim
      <3>2. CASE ClaimFails
        <4>1. PICK n \in 0 .. NumMsgs : Reclaim({m \in Claimed \cap Malformed : m <= n})
          BY <3>2 DEF ClaimFails
        <4> QED
          BY <4>1
      <3> QED
        BY <1>7, <3>1, <3>2
    <2>2. Claimed \subseteq 1 .. sent
      BY DEF Claimed, Idle, PendingRead
    <2>3. acked' = acked \cup ms /\ UNCHANGED <<sent, outcomes>>
      BY <1>7, <2>1 DEF Claim, ClaimFails, Reclaim
    <2>4. ms \in SUBSET Msgs /\ ms \subseteq (1 .. sent) \cap Malformed
      BY <2>1, <2>2
    <2> QED
      BY <1>d, <2>3, <2>4
  <1>4. \/ UNCHANGED <<sent, outcomes, acked>>
        \/ Publish \/ Discard \/ DiscardFails \/ Shutdown \/ Claim \/ ClaimFails
        \/ \E p \in Permits : Report(p) \/ Ack(p)
    BY DEF Next, Read, Enqueue, Elapse, Acquire, Handle, Check, Fetch, Run, RedisFails,
           Crash, Drained, Restart, vars
  <1> QED
    BY <1>1, <1>2, <1>3, <1>4, <1>5, <1>6, <1>7

(* The worker implements the at-least-once contract.                        *)
THEOREM Refinement == Spec => ContractSpec
  <1>1. Init => Contract!Init
    BY Sizes DEF Init, Contract!Init, Msgs
  <1> QED
    BY <1>1, Invariance, ContractStep, PTL DEF Spec, ContractSpec, Contract!Spec
=============================================================================
