----------------------- MODULE AnalyticsConsumer_proofs -----------------------
(***************************************************************************)
(* An event that can be parsed is acknowledged only when it has a row, and  *)
(* no event has more rows than deliveries: for any number of events and of  *)
(* failures and any size of the batches and of the stream.  The consumer    *)
(* implements AtLeastOnce.                                                  *)
(***************************************************************************)
EXTENDS AnalyticsConsumer, FiniteSetTheorems, SequenceTheorems, TLAPS

Steps == {"idle", "flush", "insert", "ack"}
Modes == {"new", "up", "closing", "dead", "down"}
(* What is buffered and inserted was parsed. *)
Parsed(n) == (1 .. n) \ Malformed
Flushes(n) == [Tasks -> [pc : Steps, batch : Seq(Parsed(n))]]

-----------------------------------------------------------------------------
(* Occurrences of an event in a sequence.                                   *)

LEMMA CountType ==
    ASSUME NEW S, NEW seq \in Seq(S), NEW e
    PROVE  /\ IsFiniteSet({i \in DOMAIN seq : seq[i] = e})
           /\ Count(seq, e) \in Nat
           /\ Count(seq, e) > 0 <=> \E i \in DOMAIN seq : seq[i] = e
  <1> DEFINE at == {i \in DOMAIN seq : seq[i] = e}
  <1>1. DOMAIN seq = 1 .. Len(seq) /\ Len(seq) \in Nat
    BY LenProperties
  <1>2. IsFiniteSet(DOMAIN seq)
    BY <1>1, FS_Interval
  <1>3. IsFiniteSet(at)
    BY <1>2, FS_Subset
  <1>4. Cardinality(at) \in Nat /\ (Cardinality(at) = 0 <=> at = {})
    BY <1>3, FS_CardinalityType, FS_EmptySet
  <1> QED
    BY <1>3, <1>4 DEF Count

LEMMA SeqElements == ASSUME NEW S, NEW seq \in Seq(S) PROVE \A i \in DOMAIN seq : seq[i] \in S
  <1> QED
    BY LenProperties, ElementOfSeq

LEMMA CountEmpty == \A e : Count(<<>>, e) = 0
  <1> TAKE e
  <1>1. {i \in DOMAIN <<>> : <<>>[i] = e} = {}
    OBVIOUS
  <1> QED
    BY <1>1, FS_EmptySet DEF Count

LEMMA CountConcat ==
    ASSUME NEW S, NEW s \in Seq(S), NEW t \in Seq(S), NEW e
    PROVE  Count(s \o t, e) = Count(s, e) + Count(t, e)
  <1> DEFINE at(seq) == {i \in DOMAIN seq : seq[i] = e}
             moved == {i \in DOMAIN (s \o t) : i > Len(s) /\ (s \o t)[i] = e}
             f == [i \in at(t) |-> i + Len(s)]
  <1>1. /\ DOMAIN s = 1 .. Len(s) /\ Len(s) \in Nat
        /\ DOMAIN t = 1 .. Len(t) /\ Len(t) \in Nat
        /\ DOMAIN (s \o t) = 1 .. Len(s) + Len(t)
        /\ \A i \in 1 .. Len(s) + Len(t) :
              (s \o t)[i] = IF i <= Len(s) THEN s[i] ELSE t[i - Len(s)]
    BY LenProperties, ConcatProperties
  <1>2. IsFiniteSet(at(s)) /\ IsFiniteSet(at(t))
    BY CountType
  <1>3. f \in Bijection(at(t), moved)
    <2>1. \A i \in at(t) : f[i] \in moved
      BY <1>1
    <2>2. \A i, j \in at(t) : f[i] = f[j] => i = j
      BY <1>1
    <2>3. \A k \in moved : k - Len(s) \in at(t) /\ f[k - Len(s)] = k
      BY <1>1
    <2> QED
      BY <2>1, <2>2, <2>3 DEF Bijection, Injection, Surjection, IsInjective
  <1>4. IsFiniteSet(moved) /\ Cardinality(moved) = Cardinality(at(t))
    BY <1>2, <1>3, FS_Bijection DEF ExistsBijection
  <1>5. at(s \o t) = at(s) \cup moved /\ at(s) \cap moved = {}
    BY <1>1
  <1>6. Cardinality(at(s \o t)) = Cardinality(at(s)) + Cardinality(moved) - Cardinality({})
    <2> HIDE DEF at, moved
    <2> QED
      BY <1>2, <1>4, <1>5, FS_Union
  <1>7. Cardinality({}) = 0 /\ Cardinality(at(s)) \in Nat /\ Cardinality(at(t)) \in Nat
    BY <1>2, FS_EmptySet, FS_CardinalityType
  <1>8. Count(s, e) = Cardinality(at(s)) /\ Count(t, e) = Cardinality(at(t))
        /\ Count(s \o t, e) = Cardinality(at(s \o t))
    BY DEF Count
  <1> HIDE DEF at, moved
  <1> QED
    BY <1>4, <1>6, <1>7, <1>8

(* Where no two positions agree, an event occurs once at most.              *)
LEMMA CountOnce ==
    ASSUME NEW S, NEW seq \in Seq(S), NEW e,
           \A i, j \in DOMAIN seq : seq[i] = seq[j] => i = j
    PROVE  Count(seq, e) \in {0, 1}
  <1> DEFINE at == {i \in DOMAIN seq : seq[i] = e}
  <1>1. at = {} \/ \E i : at = {i}
    OBVIOUS
  <1> QED
    BY <1>1, FS_EmptySet, FS_Singleton DEF Count

LEMMA CountHeadTail ==
    ASSUME NEW S, NEW seq \in Seq(S), seq # <<>>, NEW e
    PROVE  Count(seq, e) = Count(<<Head(seq)>>, e) + Count(Tail(seq), e)
  <1>1. Head(seq) \in S /\ <<Head(seq)>> \in Seq(S) /\ Tail(seq) \in Seq(S)
    BY HeadTailProperties
  <1>2. seq = <<Head(seq)>> \o Tail(seq)
    BY <1>1
  <1> QED
    BY <1>1, <1>2, CountConcat

-----------------------------------------------------------------------------
(* Entries of the batches of several tasks, and of the inserts under way.   *)

Parts(fl, ts, e) ==
    UNION {{t} \X {i \in DOMAIN fl[t].batch : fl[t].batch[i] = e} : t \in ts}
Under(fl) == {t \in Tasks : fl[t].pc = "insert"}
Flight(fl, e) == Cardinality(Parts(fl, Under(fl), e))
Share(f, e) == IF f.pc = "insert" THEN Count(f.batch, e) ELSE 0

LEMMA TasksFinite == IsFiniteSet(Tasks)
  <1>1. Tasks = {"consume"} \cup {"periodic"} \cup {"claim"}
    BY DEF Tasks
  <1> QED
    BY <1>1, FS_Singleton, FS_Union

LEMMA PartsType ==
    ASSUME NEW n, NEW fl \in Flushes(n), NEW ts \in SUBSET Tasks, NEW e
    PROVE  IsFiniteSet(Parts(fl, ts, e)) /\ Cardinality(Parts(fl, ts, e)) \in Nat
  <1> DEFINE at(t) == {i \in DOMAIN fl[t].batch : fl[t].batch[i] = e}
             ats == {at("consume")} \cup {at("periodic")} \cup {at("claim")}
  <1>1. \A t \in Tasks : fl[t].batch \in Seq(Parsed(n))
    BY DEF Flushes
  <1>2. \A t \in Tasks : IsFiniteSet(at(t))
    BY <1>1, CountType
  <1>3. IsFiniteSet(ats) /\ \A T \in ats : IsFiniteSet(T)
    BY <1>2, FS_Singleton, FS_Union DEF Tasks
  <1>4. IsFiniteSet(UNION ats)
    BY <1>3, FS_UNION
  <1>5. IsFiniteSet(Tasks \X UNION ats)
    BY <1>4, TasksFinite, FS_Product
  <1>6. Parts(fl, ts, e) \subseteq Tasks \X UNION ats
    BY DEF Parts, Tasks
  <1> QED
    BY <1>5, <1>6, FS_Subset, FS_CardinalityType

LEMMA PartsOfOne ==
    ASSUME NEW n, NEW fl \in Flushes(n), NEW t \in Tasks, NEW e
    PROVE  Cardinality(Parts(fl, {t}, e)) = Count(fl[t].batch, e)
  <1> DEFINE at == {i \in DOMAIN fl[t].batch : fl[t].batch[i] = e}
  <1>1. fl[t].batch \in Seq(Parsed(n))
    BY DEF Flushes
  <1>2. IsFiniteSet(at) /\ Count(fl[t].batch, e) = Cardinality(at) /\ Cardinality(at) \in Nat
    BY <1>1, CountType DEF Count
  <1>3. Parts(fl, {t}, e) = {t} \X at
    BY DEF Parts
  <1>4. IsFiniteSet({t}) /\ Cardinality({t}) = 1
    BY FS_Singleton
  <1> HIDE DEF at
  <1>5. Cardinality({t} \X at) = 1 * Cardinality(at)
    BY <1>2, <1>4, FS_Product
  <1>6. \A c \in Nat : 1 * c = c
    OBVIOUS
  <1> QED
    BY <1>2, <1>3, <1>5, <1>6, Zenon

LEMMA PartsSplit ==
    ASSUME NEW n, NEW fl \in Flushes(n), NEW ts \in SUBSET Tasks, NEW t \in ts, NEW e
    PROVE  Cardinality(Parts(fl, ts, e)) =
              Cardinality(Parts(fl, ts \ {t}, e)) + Count(fl[t].batch, e)
  <1> DEFINE A == Parts(fl, ts \ {t}, e)
             B == Parts(fl, {t}, e)
  <1>1. Parts(fl, ts, e) = A \cup B /\ A \cap B = {}
    BY DEF Parts
  <1>2. /\ IsFiniteSet(A) /\ Cardinality(A) \in Nat
        /\ IsFiniteSet(B) /\ Cardinality(B) \in Nat
    BY PartsType
  <1>3. Cardinality(B) = Count(fl[t].batch, e)
    BY PartsOfOne
  <1> HIDE DEF A, B
  <1>4. Cardinality(A \cup B) = Cardinality(A) + Cardinality(B) - Cardinality({})
    BY <1>1, <1>2, FS_Union
  <1> QED
    BY <1>1, <1>2, <1>3, <1>4, FS_EmptySet DEF A

LEMMA FlightType ==
    ASSUME NEW n, NEW fl \in Flushes(n), NEW e
    PROVE  Flight(fl, e) \in Nat
  <1>1. Under(fl) \in SUBSET Tasks
    BY DEF Under
  <1> QED
    BY <1>1, PartsType DEF Flight

(* One task goes on: its share of what is being inserted changes.           *)
LEMMA FlightStep ==
    ASSUME NEW n, NEW fl \in Flushes(n), NEW m, NEW gl \in Flushes(m), NEW t \in Tasks,
           \A u \in Tasks \ {t} : gl[u] = fl[u], NEW e
    PROVE  /\ Flight(fl, e) \in Nat /\ Flight(gl, e) \in Nat
           /\ Share(fl[t], e) \in Nat /\ Share(gl[t], e) \in Nat
           /\ Flight(gl, e) + Share(fl[t], e) = Flight(fl, e) + Share(gl[t], e)
  <1> DEFINE ts == Under(fl) \ {t}
             rest == Cardinality(Parts(fl, ts, e))
  <1>1. Under(gl) \ {t} = ts /\ ts \in SUBSET Tasks /\ Under(fl) \in SUBSET Tasks
        /\ Under(gl) \in SUBSET Tasks
    BY DEF Under
  <1>2. Parts(gl, ts, e) = Parts(fl, ts, e)
    BY <1>1 DEF Parts
  <1>3. ASSUME NEW k, NEW hl \in Flushes(k), Under(hl) \ {t} = ts, Parts(hl, ts, e) = Parts(fl, ts, e)
        PROVE  Flight(hl, e) = rest + Share(hl[t], e) /\ Share(hl[t], e) \in Nat
    <2>1. hl[t].batch \in Seq(Parsed(k)) /\ Under(hl) \in SUBSET Tasks
      BY DEF Flushes, Under
    <2>2. Count(hl[t].batch, e) \in Nat /\ rest \in Nat
      BY <1>1, <2>1, CountType, PartsType
    <2>3. CASE hl[t].pc = "insert"
      <3>1. t \in Under(hl)
        BY <2>3 DEF Under
      <3>2. Cardinality(Parts(hl, Under(hl), e)) =
               Cardinality(Parts(hl, Under(hl) \ {t}, e)) + Count(hl[t].batch, e)
        BY <2>1, <3>1, PartsSplit
      <3> QED
        BY <1>3, <2>2, <2>3, <3>2 DEF Flight, Share
    <2>4. CASE hl[t].pc # "insert"
      <3>1. Under(hl) = ts
        BY <1>3, <2>4 DEF Under
      <3> QED
        BY <1>3, <2>2, <2>4, <3>1 DEF Flight, Share
    <2> QED
      BY <2>3, <2>4
  <1>4. Flight(fl, e) = rest + Share(fl[t], e) /\ Share(fl[t], e) \in Nat
    BY <1>3
  <1>5. Flight(gl, e) = rest + Share(gl[t], e) /\ Share(gl[t], e) \in Nat
    BY <1>1, <1>2, <1>3
  <1>6. rest \in Nat
    BY <1>1, PartsType
  <1> HIDE DEF rest
  <1> QED
    BY <1>4, <1>5, <1>6

-----------------------------------------------------------------------------
(* The inductive invariant.                                                 *)

Queue ==
    /\ from \in Nat /\ last \in Nat /\ sent \in Nat
    /\ from <= last /\ last <= sent /\ sent <= NumEvents
    /\ pending \subseteq from + 1 .. last /\ idle \subseteq pending
    /\ acked \subseteq 1 .. last /\ pending \cap acked = {}
    /\ mode \in Modes /\ (mode = "new" => pending = {})

Counters == times \in [Events -> 0 .. MaxCount] /\ rows \in [Events -> 0 .. MaxCount]

Memory == inhand \in Seq(1 .. last) /\ buffer \in Seq(Parsed(last)) /\ flush \in Flushes(last)

(* A batch is acknowledged only after it was inserted.                      *)
Inserts(f, table) ==
    /\ f.pc \in {"insert", "ack"} => f.batch # <<>>
    /\ f.pc = "ack" => \A i \in DOMAIN f.batch : table[f.batch[i]] > 0
Batches == \A t \in Tasks : Inserts(flush[t], rows)

(* What the consumer may still insert was delivered and has no row yet: the *)
(* deliveries of an event pay for its rows and for its copies in memory.    *)
Copies(e) == Count(inhand, e) + Count(buffer, e) + Flight(flush, e)
Accounted == \A e \in Events : times[e] < MaxCount => rows[e] + Copies(e) <= times[e]

(* What is acknowledged is in ClickHouse, unless it could not be parsed.    *)
AckedIsStored == \A e \in acked \ Malformed : rows[e] > 0

IInv == Queue /\ Counters /\ Memory /\ Batches /\ AckedIsStored /\ Accounted

LEMMA Widen ==
    ASSUME NEW n \in Nat, NEW m \in Nat, n <= m
    PROVE  /\ Seq(1 .. n) \subseteq Seq(1 .. m) /\ Seq(Parsed(n)) \subseteq Seq(Parsed(m))
           /\ Flushes(n) \subseteq Flushes(m)
  <1>1. Seq(1 .. n) \subseteq Seq(1 .. m)
    BY SeqMonotonic
  <1>2. Parsed(n) \subseteq Parsed(m)
    BY DEF Parsed
  <1>3. Seq(Parsed(n)) \subseteq Seq(Parsed(m))
    BY <1>2, SeqMonotonic
  <1> QED
    BY <1>1, <1>3 DEF Flushes

LEMMA CopiesType ==
    ASSUME Memory, NEW e
    PROVE  /\ Count(inhand, e) \in Nat /\ Count(buffer, e) \in Nat /\ Flight(flush, e) \in Nat
           /\ Copies(e) \in Nat
  <1>1. Count(inhand, e) \in Nat /\ Count(buffer, e) \in Nat /\ Flight(flush, e) \in Nat
    BY CountType, FlightType DEF Memory
  <1> QED
    BY <1>1 DEF Copies

LEMMA NoFlushCounts ==
    /\ \A n : AllIdle \in Flushes(n) /\ NoFlush \in [pc : Steps, batch : Seq(Parsed(n))]
    /\ \A e : Share(NoFlush, e) = 0 /\ Flight(AllIdle, e) = 0
  <1>1. \A n : <<>> \in Seq(Parsed(n))
    BY EmptySeq
  <1>2. Under(AllIdle) = {}
    BY DEF Under, AllIdle, NoFlush
  <1>3. \A e : Parts(AllIdle, {}, e) = {}
    BY DEF Parts
  <1> QED
    BY <1>1, <1>2, <1>3, FS_EmptySet DEF Flushes, AllIdle, NoFlush, Steps, Share, Flight

LEMMA InitInv == Init => IInv
  <1> SUFFICES ASSUME Init PROVE IInv
    OBVIOUS
  <1>1. Queue /\ Counters /\ Batches /\ AckedIsStored
    BY ConsumerAssumption
    DEF Init, Queue, Modes, Counters, Batches, Inserts, AllIdle, NoFlush, AckedIsStored
  <1>2. Memory
    BY NoFlushCounts, EmptySeq DEF Init, Memory
  <1>3. \A e : Copies(e) = 0
    BY NoFlushCounts, CountEmpty DEF Init, Copies
  <1>4. Accounted
    BY <1>3 DEF Init, Accounted
  <1> QED
    BY <1>1, <1>2, <1>4 DEF IInv

-----------------------------------------------------------------------------
(* Steps on the memory of the consumer.                                     *)

(* One task or the buffer goes on with what it had, or drops it.            *)
LEMMA MemoryMoves ==
    ASSUME IInv, Queue', AckedIsStored', UNCHANGED <<last, times, rows>>,
           inhand' \in Seq(1 .. last), buffer' \in Seq(Parsed(last)), flush' \in Flushes(last),
           NEW t \in Tasks, \A u \in Tasks \ {t} : flush'[u] = flush[u], Inserts(flush'[t], rows'),
           \A e \in Events : Count(inhand', e) + Count(buffer', e) + Share(flush'[t], e)
                                <= Count(inhand, e) + Count(buffer, e) + Share(flush[t], e)
    PROVE  IInv'
  <1>1. Counters' /\ Memory'
    BY DEF IInv, Counters, Memory
  <1>2. Batches'
    BY DEF IInv, Batches, Inserts
  <1>3. ASSUME NEW e \in Events, times[e] < MaxCount PROVE rows[e] + Copies(e)' <= times[e]
    <2>1. /\ Count(inhand, e) \in Nat /\ Count(buffer, e) \in Nat
          /\ Count(inhand', e) \in Nat /\ Count(buffer', e) \in Nat
      BY CountType DEF IInv, Memory
    <2>2. /\ Flight(flush, e) \in Nat /\ Flight(flush', e) \in Nat
          /\ Share(flush[t], e) \in Nat /\ Share(flush'[t], e) \in Nat
          /\ Flight(flush', e) + Share(flush[t], e) = Flight(flush, e) + Share(flush'[t], e)
      BY FlightStep DEF IInv, Memory
    <2>3. rows[e] \in Nat /\ times[e] \in Nat /\ rows[e] + Copies(e) <= times[e]
      BY <1>3, ConsumerAssumption DEF IInv, Counters, Accounted
    <2>4. /\ Copies(e) = Count(inhand, e) + Count(buffer, e) + Flight(flush, e)
          /\ Copies(e)' = Count(inhand', e) + Count(buffer', e) + Flight(flush', e)
      BY DEF Copies
    <2>5. Copies(e)' <= Copies(e) /\ Copies(e)' \in Nat /\ Copies(e) \in Nat
      BY <2>1, <2>2, <2>4
    <2> QED
      BY <2>3, <2>5
  <1>4. Accounted'
    BY <1>3 DEF Accounted
  <1> QED
    BY <1>1, <1>2, <1>4 DEF IInv

(* The stream and the pending list stay as they are.                        *)
LEMMA QueueStays ==
    ASSUME IInv, UNCHANGED <<sent, from, last, pel, rows, acked>>,
           mode' \in Modes, mode' = "new" => mode = "new"
    PROVE  Queue' /\ AckedIsStored' /\ UNCHANGED <<last, times, rows>>
  <1> QED
    BY DEF IInv, Queue, AckedIsStored, pel

(* An entry is acknowledged that has its row or cannot be parsed.           *)
LEMMA QueueSettles ==
    ASSUME IInv, UNCHANGED <<sent, from, last, rows>>, mode' \in Modes, mode' = "new" => mode = "new",
           NEW e \in 1 .. last, e \in Malformed \/ rows[e] > 0, Settle(e)
    PROVE  Queue' /\ AckedIsStored'
  <1>1. pending' = pending \ {e} /\ idle' = idle \ {e} /\ acked' = acked \cup {e}
    BY DEF Settle
  <1>2. Queue'
    BY <1>1 DEF IInv, Queue
  <1>3. AckedIsStored'
    BY <1>1 DEF IInv, AckedIsStored
  <1> QED
    BY <1>2, <1>3

LEMMA MemoryStep ==
    ASSUME IInv, UNCHANGED <<sent, from, last, pel, rows, acked>>,
           mode' \in Modes, mode' = "new" => mode = "new",
           inhand' \in Seq(1 .. last), buffer' \in Seq(Parsed(last)), flush' \in Flushes(last),
           NEW t \in Tasks, \A u \in Tasks \ {t} : flush'[u] = flush[u], Inserts(flush'[t], rows'),
           \A e \in Events : Count(inhand', e) + Count(buffer', e) + Share(flush'[t], e)
                                <= Count(inhand, e) + Count(buffer, e) + Share(flush[t], e)
    PROVE  IInv'
  <1> QED
    BY QueueStays, MemoryMoves

LEMMA MinOf ==
    ASSUME NEW a \in Int, NEW b \in Int
    PROVE  Min({a, b}) = IF a <= b THEN a ELSE b
  <1> DEFINE m == IF a <= b THEN a ELSE b
  <1>1. m \in {a, b} /\ \A y \in {a, b} : m <= y
    OBVIOUS
  <1>2. \A x \in {a, b} : (\A y \in {a, b} : x <= y) => x = m
    OBVIOUS
  <1> HIDE DEF m
  <1> QED
    BY <1>1, <1>2 DEF Min

(* The process ends: what it held is gone.                                  *)
LEMMA DropStep ==
    ASSUME IInv, Queue', AckedIsStored', UNCHANGED <<last, times, rows>>, DropMemory
    PROVE  IInv'
  <1>1. Counters' /\ Batches'
    BY DEF IInv, Counters, DropMemory, Batches, Inserts, AllIdle, NoFlush
  <1>2. Memory'
    BY NoFlushCounts, EmptySeq DEF Memory, DropMemory
  <1>3. \A e : Copies(e)' = 0
    BY NoFlushCounts, CountEmpty DEF DropMemory, Copies
  <1>4. ASSUME NEW e \in Events, times[e] < MaxCount PROVE rows[e] <= times[e]
    <2>1. rows[e] \in Nat /\ times[e] \in Nat /\ rows[e] + Copies(e) <= times[e]
      BY <1>4, ConsumerAssumption DEF IInv, Counters, Accounted
    <2>2. Copies(e) \in Nat
      BY CopiesType DEF IInv
    <2> QED
      BY <2>1, <2>2
  <1>5. ASSUME NEW e \in Events, times'[e] < MaxCount PROVE rows'[e] + Copies(e)' <= times'[e]
    <2>1. rows[e] \in Nat /\ rows[e] <= times[e]
      BY <1>4, <1>5, ConsumerAssumption DEF IInv, Counters
    <2> QED
      BY <1>3, <2>1
  <1>6. Accounted'
    BY <1>5 DEF Accounted
  <1> QED
    BY <1>1, <1>2, <1>6 DEF IInv

LEMMA EndsStep ==
    ASSUME IInv, UNCHANGED <<sent, from, last, pel, acked>>, NEW m \in {"dead", "down"}, Ends(m)
    PROVE  IInv'
  <1>1. Queue' /\ AckedIsStored' /\ UNCHANGED <<last, times, rows>>
    BY QueueStays DEF Ends, Modes
  <1> QED
    BY <1>1, DropStep DEF Ends

(* A task that is not inserting nor acknowledging.                          *)
Resting == {"idle", "flush"}

LEMMA RestingIs ==
    ASSUME NEW pc \in Resting
    PROVE  LET f == [NoFlush EXCEPT !.pc = pc] IN
           /\ \A n : f \in [pc : Steps, batch : Seq(Parsed(n))]
           /\ \A table : Inserts(f, table)
           /\ \A e : Share(f, e) = 0
  <1>1. \A n : <<>> \in Seq(Parsed(n))
    BY EmptySeq
  <1> QED
    BY <1>1 DEF NoFlush, Steps, Resting, Inserts, Share

LEMMA SetIs ==
    ASSUME NEW n, flush \in Flushes(n), NEW t \in Tasks, NEW f \in [pc : Steps, batch : Seq(Parsed(n))],
           Set(t, f)
    PROVE  flush' \in Flushes(n) /\ flush'[t] = f /\ \A u \in Tasks \ {t} : flush'[u] = flush[u]
  <1> QED
    BY DEF Flushes, Set

LEMMA PublishStep == ASSUME IInv, Publish PROVE IInv'
  <1>1. UNCHANGED <<from, last, pel, memory, mode, rows, acked>> /\ sent' = sent + 1 /\ sent < NumEvents
    BY DEF Publish
  <1>2. Queue' /\ Counters' /\ Memory' /\ AckedIsStored'
    BY <1>1, ConsumerAssumption DEF IInv, Queue, Counters, Memory, AckedIsStored, pel, memory
  <1>3. Batches' /\ Accounted'
    BY <1>1 DEF IInv, Batches, Inserts, Accounted, Copies, pel, memory
  <1> QED
    BY <1>2, <1>3 DEF IInv

LEMMA StartStep == ASSUME IInv, Start PROVE IInv'
  <1>1. /\ UNCHANGED <<sent, pel, memory, rows, acked>> /\ mode' = "up"
        /\ (mode = "new" /\ from' = sent /\ last' = sent) \/ UNCHANGED <<from, last>>
    BY DEF Start
  <1>2. Queue' /\ last <= last' /\ last \in Nat /\ last' \in Nat
    BY <1>1 DEF IInv, Queue, Modes, pel
  <1>3. Memory'
    BY <1>1, <1>2, Widen DEF IInv, Memory, memory
  <1>4. Counters' /\ Batches' /\ AckedIsStored' /\ Accounted'
    BY <1>1 DEF IInv, Counters, Batches, Inserts, AckedIsStored, Accounted, Copies, pel, memory
  <1> QED
    BY <1>2, <1>3, <1>4 DEF IInv

LEMMA BufferStep == ASSUME IInv, Buffer PROVE IInv'
  <1> DEFINE pc == IF Len(buffer') >= BatchSize THEN "flush" ELSE "idle"
             f == [NoFlush EXCEPT !.pc = pc]
             h == <<Head(inhand)>>
  <1>1. /\ inhand # <<>> /\ flush["consume"] = NoFlush /\ mode = "up"
        /\ Head(inhand) \notin Malformed
        /\ buffer' = buffer \o h /\ Set("consume", f) /\ inhand' = Tail(inhand)
        /\ UNCHANGED <<sent, from, last, pel, mode, rows, acked>>
    BY DEF Buffer, Extend
  <1>2. inhand \in Seq(1 .. last) /\ buffer \in Seq(Parsed(last)) /\ flush \in Flushes(last)
        /\ mode \in Modes /\ "consume" \in Tasks
    BY DEF IInv, Memory, Queue, Tasks
  <1>3. pc \in Resting
    BY DEF Resting
  <1>4. /\ \A n : f \in [pc : Steps, batch : Seq(Parsed(n))]
        /\ Inserts(f, rows') /\ \A e : Share(f, e) = 0 /\ Share(flush["consume"], e) = 0
    BY <1>1, <1>3, RestingIs, NoFlushCounts
  <1> HIDE DEF f, pc
  <1>5. /\ flush' \in Flushes(last) /\ flush'["consume"] = f
        /\ \A u \in Tasks \ {"consume"} : flush'[u] = flush[u]
    BY <1>1, <1>2, <1>4, SetIs
  <1>6. /\ h \in Seq(Parsed(last)) /\ Tail(inhand) \in Seq(1 .. last)
        /\ buffer \o h \in Seq(Parsed(last))
    <2>1. Head(inhand) \in Parsed(last) /\ Tail(inhand) \in Seq(1 .. last)
      BY <1>1, <1>2, HeadTailProperties DEF Parsed
    <2>2. h \in Seq(Parsed(last))
      BY <2>1
    <2> HIDE DEF h
    <2> QED
      BY <1>2, <2>1, <2>2, ConcatProperties
  <1>7. ASSUME NEW e \in Events
        PROVE  Count(inhand', e) + Count(buffer', e) + Share(flush'["consume"], e)
                  <= Count(inhand, e) + Count(buffer, e) + Share(flush["consume"], e)
    <2>1. Count(inhand, e) = Count(h, e) + Count(inhand', e)
      BY <1>1, <1>2, CountHeadTail
    <2>2. Count(buffer', e) = Count(buffer, e) + Count(h, e)
      BY <1>1, <1>2, <1>6, CountConcat
    <2>3. Count(h, e) \in Nat /\ Count(inhand', e) \in Nat /\ Count(buffer, e) \in Nat
      BY <1>1, <1>2, <1>6, CountType
    <2>4. Share(flush'["consume"], e) = 0 /\ Share(flush["consume"], e) = 0
      BY <1>4, <1>5
    <2> QED
      BY <2>1, <2>2, <2>3, <2>4
  <1>8. Inserts(flush'["consume"], rows')
    BY <1>4, <1>5
  <1> QED
    BY <1>1, <1>2, <1>5, <1>6, <1>7, <1>8, MemoryStep

(* A task goes on with nothing of its own, the buffer as it is.             *)
LEMMA RestStep ==
    ASSUME IInv, NEW t \in Tasks, NEW pc \in Resting, Set(t, [NoFlush EXCEPT !.pc = pc]),
           UNCHANGED <<sent, from, last, pel, inhand, buffer, mode, rows, acked>>
    PROVE  IInv'
  <1> DEFINE f == [NoFlush EXCEPT !.pc = pc]
  <1>1. f \in [pc : Steps, batch : Seq(Parsed(last))] /\ Inserts(f, rows') /\ \A e : Share(f, e) = 0
    BY RestingIs
  <1>2. Set(t, f) /\ mode \in Modes /\ flush \in Flushes(last)
        /\ inhand \in Seq(1 .. last) /\ buffer \in Seq(Parsed(last))
    BY DEF IInv, Memory, Queue
  <1> HIDE DEF f
  <1>3. flush' \in Flushes(last) /\ flush'[t] = f /\ \A u \in Tasks \ {t} : flush'[u] = flush[u]
    BY <1>1, <1>2, SetIs
  <1>4. ASSUME NEW e \in Events
        PROVE  Count(inhand', e) + Count(buffer', e) + Share(flush'[t], e)
                  <= Count(inhand, e) + Count(buffer, e) + Share(flush[t], e)
    <2>1. Count(inhand, e) \in Nat /\ Count(buffer, e) \in Nat
      BY <1>2, CountType
    <2>2. Share(flush[t], e) \in Nat
      BY <1>2, <1>3, FlightStep
    <2> QED
      BY <1>1, <1>3, <2>1, <2>2
  <1>5. Inserts(flush'[t], rows')
    BY <1>1, <1>3
  <1> QED
    BY <1>2, <1>3, <1>4, <1>5, MemoryStep

LEMMA TickStep == ASSUME IInv, Tick PROVE IInv'
  <1> QED
    BY RestStep DEF Tick, Tasks, Resting

LEMMA InsertFailsStep == ASSUME IInv, NEW t \in Tasks, InsertFails(t) PROVE IInv'
  <1>1. NoFlush = [NoFlush EXCEPT !.pc = "idle"]
    BY DEF NoFlush
  <1> QED
    BY <1>1, RestStep DEF InsertFails, AfterFailure, Resting

LEMMA AckFailsStep == ASSUME IInv, NEW t \in Tasks, AckFails(t) PROVE IInv'
  <1>1. NoFlush = [NoFlush EXCEPT !.pc = "idle"]
    BY DEF NoFlush
  <1>2. CASE t = "consume"
    BY <1>2, EndsStep DEF AckFails
  <1>3. CASE t # "consume"
    BY <1>1, <1>3, RestStep DEF AckFails, Resting
  <1> QED
    BY <1>2, <1>3

LEMMA StopStep == ASSUME IInv, Kill \/ Closed PROVE IInv'
  <1> QED
    BY EndsStep DEF Kill, Closed

(* A batch that does not convert is dropped.                                *)
LEMMA ChokeStep == ASSUME IInv, NEW t \in Tasks, Choke(t) PROVE IInv'
  <1>1. CASE t = "consume"
    BY <1>1, EndsStep DEF Choke
  <1>2. CASE t # "consume"
    <2>1. /\ Set(t, NoFlush) /\ buffer' = <<>>
          /\ UNCHANGED <<sent, from, last, pel, inhand, mode, rows, acked>>
      BY <1>2 DEF Choke
    <2>2. /\ mode \in Modes /\ flush \in Flushes(last)
          /\ inhand \in Seq(1 .. last) /\ buffer \in Seq(Parsed(last)) /\ <<>> \in Seq(Parsed(last))
      BY EmptySeq DEF IInv, Memory, Queue
    <2>3. /\ NoFlush \in [pc : Steps, batch : Seq(Parsed(last))] /\ Inserts(NoFlush, rows')
          /\ \A e : Share(NoFlush, e) = 0
      BY NoFlushCounts DEF Inserts, NoFlush
    <2>4. /\ flush' \in Flushes(last) /\ flush'[t] = NoFlush
          /\ \A u \in Tasks \ {t} : flush'[u] = flush[u]
      BY <2>1, <2>2, <2>3, SetIs
    <2>5. ASSUME NEW e \in Events
          PROVE  Count(inhand', e) + Count(buffer', e) + Share(flush'[t], e)
                    <= Count(inhand, e) + Count(buffer, e) + Share(flush[t], e)
      <3>1. Count(inhand, e) \in Nat /\ Count(buffer, e) \in Nat /\ Count(buffer', e) = 0
        BY <2>1, <2>2, CountType, CountEmpty
      <3>2. Share(flush[t], e) \in Nat
        BY <2>2, <2>4, FlightStep
      <3> QED
        BY <2>1, <2>3, <2>4, <3>1, <3>2
    <2>6. Inserts(flush'[t], rows')
      BY <2>3, <2>4
    <2> QED
      BY <2>1, <2>2, <2>4, <2>5, <2>6, MemoryStep
  <1> QED
    BY <1>1, <1>2

(* An event that cannot be parsed is acknowledged.                          *)
LEMMA DiscardSettles ==
    ASSUME IInv, AtMalformed, UNCHANGED <<sent, from, last, rows>>,
           mode' \in Modes \ {"new"},
           Settle(Head(inhand)) \/ UNCHANGED <<pending, idle, acked>>
    PROVE  Queue' /\ AckedIsStored'
  <1>1. Head(inhand) \in 1 .. last /\ Head(inhand) \in Malformed
    BY HeadTailProperties DEF IInv, Memory, AtMalformed
  <1>2. CASE Settle(Head(inhand))
    BY <1>1, <1>2, QueueSettles
  <1>3. CASE UNCHANGED <<pending, idle, acked>>
    BY <1>3 DEF IInv, Queue, AckedIsStored
  <1> QED
    BY <1>2, <1>3

LEMMA DiscardStep == ASSUME IInv, Discard PROVE IInv'
  <1>1. /\ inhand # <<>> /\ inhand' = Tail(inhand) /\ mode = "up"
        /\ UNCHANGED <<sent, from, last, times, buffer, flush, mode, rows>>
    BY DEF Discard, AtMalformed
  <1>2. Queue' /\ AckedIsStored'
    BY <1>1, DiscardSettles DEF Discard, Modes
  <1>3. /\ inhand \in Seq(1 .. last) /\ inhand' \in Seq(1 .. last) /\ "consume" \in Tasks
        /\ buffer' \in Seq(Parsed(last)) /\ flush' \in Flushes(last) /\ flush \in Flushes(last)
        /\ buffer \in Seq(Parsed(last))
    BY <1>1, HeadTailProperties DEF IInv, Memory, Tasks
  <1>4. ASSUME NEW e \in Events
        PROVE  Count(inhand', e) + Count(buffer', e) + Share(flush'["consume"], e)
                  <= Count(inhand, e) + Count(buffer, e) + Share(flush["consume"], e)
    <2>1. Count(inhand, e) = Count(<<Head(inhand)>>, e) + Count(inhand', e)
      BY <1>1, <1>3, CountHeadTail
    <2>2. <<Head(inhand)>> \in Seq(1 .. last)
      <3>1. Head(inhand) \in 1 .. last
        BY <1>1, <1>3, HeadTailProperties
      <3> QED
        BY <3>1
    <2>3. /\ Count(<<Head(inhand)>>, e) \in Nat /\ Count(inhand', e) \in Nat
          /\ Count(buffer, e) \in Nat
      BY <1>3, <2>2, CountType
    <2>4. Share(flush["consume"], e) \in Nat
      BY <1>3, FlightStep
    <2> QED
      BY <1>1, <2>1, <2>3, <2>4
  <1>5. Inserts(flush'["consume"], rows')
    BY <1>1, <1>3 DEF IInv, Batches
  <1> QED
    BY <1>1, <1>2, <1>3, <1>4, <1>5, MemoryMoves

LEMMA DiscardFailsStep == ASSUME IInv, DiscardFails PROVE IInv'
  <1>1. Queue' /\ AckedIsStored'
    BY DiscardSettles DEF DiscardFails, Ends, Modes
  <1> QED
    BY <1>1, DropStep DEF DiscardFails, Ends

LEMMA ShutdownStep == ASSUME IInv, Shutdown PROVE IInv'
  <1> DEFINE f == [NoFlush EXCEPT !.pc = "flush"]
  <1>1. /\ mode' = "closing" /\ Set("consume", f) /\ inhand' = <<>>
        /\ UNCHANGED <<sent, from, last, times, buffer, rows>>
    BY DEF Shutdown
  <1>2. Queue' /\ AckedIsStored'
    <2>1. mode' \in Modes \ {"new"}
      BY <1>1 DEF Modes
    <2>2. CASE UNCHANGED <<pending, idle, acked>>
      BY <1>1, <2>1, <2>2 DEF IInv, Queue, AckedIsStored
    <2>3. CASE AtMalformed /\ Settle(Head(inhand))
      BY <1>1, <2>1, <2>3, DiscardSettles
    <2> QED
      BY <2>2, <2>3 DEF Shutdown
  <1>3. /\ "consume" \in Tasks /\ flush \in Flushes(last) /\ inhand \in Seq(1 .. last)
        /\ buffer \in Seq(Parsed(last)) /\ <<>> \in Seq(1 .. last)
    BY EmptySeq DEF Tasks, IInv, Memory
  <1>4. /\ f \in [pc : Steps, batch : Seq(Parsed(last))] /\ Inserts(f, rows')
        /\ \A e : Share(f, e) = 0
    BY RestingIs DEF Resting
  <1> HIDE DEF f
  <1>5. /\ flush' \in Flushes(last) /\ flush'["consume"] = f
        /\ \A u \in Tasks \ {"consume"} : flush'[u] = flush[u]
    BY <1>1, <1>3, <1>4, SetIs
  <1>6. ASSUME NEW e \in Events
        PROVE  Count(inhand', e) + Count(buffer', e) + Share(flush'["consume"], e)
                  <= Count(inhand, e) + Count(buffer, e) + Share(flush["consume"], e)
    <2>1. /\ Count(inhand, e) \in Nat /\ Count(buffer, e) \in Nat /\ Count(inhand', e) = 0
      BY <1>1, <1>3, CountType, CountEmpty
    <2>2. Share(flush["consume"], e) \in Nat
      BY <1>3, <1>5, FlightStep
    <2> QED
      BY <1>1, <1>4, <1>5, <2>1, <2>2
  <1>7. Inserts(flush'["consume"], rows')
    BY <1>4, <1>5
  <1> QED
    BY <1>1, <1>2, <1>3, <1>5, <1>6, <1>7, MemoryMoves

(* The buffer becomes the batch of one task.                                *)
LEMMA GrabStep == ASSUME IInv, NEW t \in Tasks, Grab(t) PROVE IInv'
  <1> DEFINE f == IF buffer = <<>> THEN NoFlush ELSE [pc |-> "insert", batch |-> buffer]
  <1>1. /\ flush[t].pc = "flush" /\ Set(t, f) /\ buffer' = <<>>
        /\ UNCHANGED <<sent, from, last, pel, inhand, mode, rows, acked>>
    BY DEF Grab, Swap
  <1>2. /\ mode \in Modes /\ flush \in Flushes(last)
        /\ inhand \in Seq(1 .. last) /\ buffer \in Seq(Parsed(last)) /\ <<>> \in Seq(1 .. last)
    BY EmptySeq DEF IInv, Memory, Queue
  <1>3. f \in [pc : Steps, batch : Seq(Parsed(last))]
    BY <1>2, NoFlushCounts DEF Steps
  <1>4. Inserts(f, rows') /\ \A e : Share(f, e) = Count(buffer, e)
    BY CountEmpty DEF Inserts, NoFlush, Share
  <1> HIDE DEF f
  <1>5. flush' \in Flushes(last) /\ flush'[t] = f /\ \A u \in Tasks \ {t} : flush'[u] = flush[u]
    BY <1>1, <1>2, <1>3, SetIs
  <1>6. ASSUME NEW e \in Events
        PROVE  Count(inhand', e) + Count(buffer', e) + Share(flush'[t], e)
                  <= Count(inhand, e) + Count(buffer, e) + Share(flush[t], e)
    <2>1. Count(inhand, e) \in Nat /\ Count(buffer, e) \in Nat /\ Count(buffer', e) = 0
      BY <1>1, <1>2, CountType, CountEmpty
    <2>2. Share(flush[t], e) = 0
      BY <1>1 DEF Share
    <2> QED
      BY <1>1, <1>4, <1>5, <2>1, <2>2
  <1>7. Inserts(flush'[t], rows')
    BY <1>4, <1>5
  <1> QED
    BY <1>1, <1>2, <1>5, <1>6, <1>7, MemoryStep

-----------------------------------------------------------------------------
(* Steps on the rows and the acknowledgements.                              *)

(* The insert adds a row for each entry of the batch.                       *)
LEMMA InsertedIs ==
    ASSUME IInv, NEW t \in Tasks, Insert(t)
    PROVE  /\ rows' \in [Events -> 0 .. MaxCount]
           /\ \A e \in Events :
                 /\ Count(flush[t].batch, e) \in Nat
                 /\ rows[e] <= rows'[e] /\ rows'[e] <= rows[e] + Count(flush[t].batch, e)
                 /\ rows[e] > 0 => rows'[e] > 0
                 /\ Count(flush[t].batch, e) > 0 => rows'[e] > 0
                 /\ rows'[e] > 0 => rows[e] > 0 \/ Count(flush[t].batch, e) > 0
  <1>1. ASSUME NEW e \in Events
        PROVE  /\ Count(flush[t].batch, e) \in Nat /\ rows'[e] \in 0 .. MaxCount
               /\ rows[e] <= rows'[e] /\ rows'[e] <= rows[e] + Count(flush[t].batch, e)
               /\ rows[e] > 0 => rows'[e] > 0
               /\ Count(flush[t].batch, e) > 0 => rows'[e] > 0
               /\ rows'[e] > 0 => rows[e] > 0 \/ Count(flush[t].batch, e) > 0
    <2>1. flush[t].batch \in Seq(Parsed(last))
      BY DEF IInv, Memory, Flushes
    <2>2. PICK n \in Nat : n = Count(flush[t].batch, e)
      BY <2>1, CountType
    <2>3. rows'[e] = Min({MaxCount, rows[e] + n})
      BY <2>2 DEF Insert
    <2>4. rows[e] \in 0 .. MaxCount /\ MaxCount \in Nat \ {0}
      BY ConsumerAssumption DEF IInv, Counters
    <2>5. rows'[e] = IF MaxCount <= rows[e] + n THEN MaxCount ELSE rows[e] + n
      BY <2>2, <2>3, <2>4, MinOf
    <2> QED
      BY <2>2, <2>4, <2>5
  <1>2. rows' = [e \in Events |-> rows'[e]]
    BY DEF Insert
  <1> QED
    BY <1>1, <1>2

LEMMA InsertStep == ASSUME IInv, NEW t \in Tasks, Insert(t) PROVE IInv'
  <1> DEFINE f == [flush[t] EXCEPT !.pc = "ack"]
  <1>1. /\ flush[t].pc = "insert" /\ Set(t, f)
        /\ UNCHANGED <<sent, from, last, pel, inhand, buffer, mode, acked>>
    BY DEF Insert
  <1>2. /\ flush \in Flushes(last) /\ flush[t] \in [pc : Steps, batch : Seq(Parsed(last))]
        /\ flush[t].batch \in Seq(Parsed(last))
        /\ inhand \in Seq(1 .. last) /\ buffer \in Seq(Parsed(last))
        /\ mode \in Modes /\ Parsed(last) \subseteq Events /\ 1 .. last \subseteq Events
    BY ConsumerAssumption DEF IInv, Memory, Flushes, Queue, Events, Parsed
  <1>3. /\ f \in [pc : Steps, batch : Seq(Parsed(last))] /\ f.pc = "ack" /\ f.batch = flush[t].batch
        /\ \A e : Share(f, e) = 0
    BY <1>2 DEF Steps, Share
  <1> HIDE DEF f
  <1>4. flush' \in Flushes(last) /\ flush'[t] = f /\ \A u \in Tasks \ {t} : flush'[u] = flush[u]
    BY <1>1, <1>2, <1>3, SetIs
  <1>5. ASSUME NEW i \in DOMAIN f.batch PROVE rows'[f.batch[i]] > 0
    <2>1. f.batch[i] \in Events
      BY <1>2, <1>3, SeqElements
    <2>2. PICK e \in Events : e = f.batch[i]
      BY <2>1
    <2>3. Count(flush[t].batch, e) > 0
      BY <1>2, <1>3, <2>2, CountType
    <2>4. rows'[e] > 0
      BY <2>3, InsertedIs
    <2> QED
      BY <2>2, <2>4
  <1>6. Inserts(f, rows')
    BY <1>1, <1>3, <1>5 DEF IInv, Batches, Inserts
  <1>7. /\ rows \in [Events -> Nat] /\ times \in [Events -> Nat]
        /\ rows' \in [Events -> 0 .. MaxCount] /\ rows' \in [Events -> Nat]
        /\ \A e \in Events : rows[e] > 0 => rows'[e] > 0
    <2>1. rows' \in [Events -> 0 .. MaxCount]
      BY InsertedIs
    <2>2. \A e \in Events : rows[e] > 0 => rows'[e] > 0
      BY InsertedIs
    <2> QED
      BY <2>1, <2>2, ConsumerAssumption DEF IInv, Counters
  <1>8. Queue' /\ Counters' /\ Memory'
    BY <1>1, <1>2, <1>4, <1>7 DEF IInv, Queue, Counters, Memory, pel
  <1>9. AckedIsStored'
    BY <1>1, <1>2, <1>7 DEF IInv, Queue, AckedIsStored
  <1>10. Batches'
    <2>1. ASSUME NEW u \in Tasks, u # t PROVE Inserts(flush[u], rows')
      <3>1. flush[u].batch \in Seq(Parsed(last)) /\ Inserts(flush[u], rows)
        BY DEF IInv, Memory, Flushes, Batches
      <3>2. \A i \in DOMAIN flush[u].batch : flush[u].batch[i] \in Events
        BY <1>2, <3>1, SeqElements
      <3> QED
        BY <1>7, <3>1, <3>2 DEF Inserts
    <2> QED
      BY <1>4, <1>6, <2>1 DEF Batches
  <1>11. ASSUME NEW e \in Events, times[e] < MaxCount PROVE rows'[e] + Copies(e)' <= times[e]
    <2>1. Count(inhand, e) \in Nat /\ Count(buffer, e) \in Nat
      BY <1>2, CountType
    <2>2. /\ Flight(flush, e) \in Nat /\ Flight(flush', e) \in Nat /\ Share(flush[t], e) \in Nat
          /\ Flight(flush', e) + Share(flush[t], e) = Flight(flush, e) + Share(flush'[t], e)
      BY <1>2, <1>4, FlightStep
    <2>3. Share(flush[t], e) = Count(flush[t].batch, e) /\ Share(flush'[t], e) = 0
      BY <1>1, <1>3, <1>4 DEF Share
    <2>4. /\ rows[e] \in Nat /\ rows'[e] \in Nat /\ times[e] \in Nat
          /\ rows[e] + Copies(e) <= times[e] /\ rows'[e] <= rows[e] + Share(flush[t], e)
      BY <1>7, <1>11, <2>3, InsertedIs DEF IInv, Accounted
    <2>5. /\ Copies(e) = Count(inhand, e) + Count(buffer, e) + Flight(flush, e)
          /\ Copies(e)' = Count(inhand, e) + Count(buffer, e) + Flight(flush', e)
      BY <1>1 DEF Copies
    <2>6. Copies(e)' + Share(flush[t], e) = Copies(e) /\ Copies(e) \in Nat /\ Copies(e)' \in Nat
      BY <2>1, <2>2, <2>3, <2>5
    <2> QED
      BY <2>2, <2>4, <2>6
  <1>12. Accounted'
    BY <1>1, <1>11 DEF Accounted, pel
  <1> QED
    BY <1>8, <1>9, <1>10, <1>12 DEF IInv

LEMMA AckStep == ASSUME IInv, NEW t \in Tasks, Ack(t) PROVE IInv'
  <1> DEFINE batch == flush[t].batch
             e == Head(batch)
             f == IF Tail(batch) = <<>> THEN NoFlush ELSE [pc |-> "ack", batch |-> Tail(batch)]
  <1>1. /\ flush[t].pc = "ack" /\ Set(t, f)
        /\ pending' = pending \ {e} /\ idle' = idle \ {e} /\ acked' = acked \cup {e}
        /\ UNCHANGED <<sent, from, last, times, inhand, buffer, mode, rows>>
    BY DEF Ack, Settle
  <1>2. /\ flush \in Flushes(last) /\ batch \in Seq(Parsed(last)) /\ batch # <<>>
        /\ \A i \in DOMAIN batch : rows[batch[i]] > 0
    BY <1>1 DEF IInv, Memory, Flushes, Batches, Inserts
  <1> HIDE DEF batch
  <1>3. /\ e \in 1 .. last /\ rows[e] > 0 /\ Tail(batch) \in Seq(Parsed(last))
        /\ \A i \in DOMAIN Tail(batch) : rows[Tail(batch)[i]] > 0
    <2>1. /\ Tail(batch) \in Seq(Parsed(last)) /\ Len(Tail(batch)) = Len(batch) - 1
          /\ \A i \in 1 .. Len(Tail(batch)) : Tail(batch)[i] = batch[i + 1]
      BY <1>2, HeadTailProperties
    <2>2. /\ Len(batch) \in Nat \ {0} /\ DOMAIN batch = 1 .. Len(batch) /\ e = batch[1]
          /\ DOMAIN Tail(batch) = 1 .. Len(Tail(batch))
      BY <1>2, <2>1, LenProperties, EmptySeq
    <2>3. \A i \in 1 .. Len(Tail(batch)) : i + 1 \in DOMAIN batch /\ Tail(batch)[i] = batch[i + 1]
      BY <2>1, <2>2
    <2>4. 1 \in DOMAIN batch
      BY <2>2
    <2>5. batch[1] \in 1 .. last
      BY <1>2, <2>4, SeqElements DEF Parsed
    <2> QED
      BY <1>2, <2>1, <2>2, <2>3, <2>4, <2>5
  <1>4. /\ f \in [pc : Steps, batch : Seq(Parsed(last))] /\ Inserts(f, rows)
        /\ \A x : Share(f, x) = 0 /\ Share(flush[t], x) = 0
    BY <1>1, <1>3, NoFlushCounts DEF Steps, Inserts, NoFlush, Share
  <1> HIDE DEF f, e
  <1>5. flush' \in Flushes(last) /\ flush'[t] = f /\ \A u \in Tasks \ {t} : flush'[u] = flush[u]
    BY <1>1, <1>2, <1>4, SetIs
  <1>6. Queue' /\ Counters' /\ Memory' /\ AckedIsStored'
    BY <1>1, <1>3, <1>5 DEF IInv, Queue, Counters, Memory, AckedIsStored
  <1>7. Batches'
    BY <1>1, <1>4, <1>5 DEF IInv, Batches
  <1>8. ASSUME NEW x \in Events PROVE Copies(x)' = Copies(x)
    <2>1. /\ Flight(flush, x) \in Nat /\ Flight(flush', x) \in Nat
          /\ Flight(flush', x) + Share(flush[t], x) = Flight(flush, x) + Share(flush'[t], x)
      BY <1>2, <1>5, FlightStep
    <2>2. Flight(flush', x) = Flight(flush, x)
      BY <1>4, <1>5, <2>1
    <2> QED
      BY <1>1, <2>2 DEF Copies
  <1>9. Accounted'
    BY <1>1, <1>8 DEF IInv, Accounted
  <1> QED
    BY <1>6, <1>7, <1>9 DEF IInv

-----------------------------------------------------------------------------
(* Deliveries.                                                              *)

LEMMA ElapseStep == ASSUME IInv, NEW e \in Events, Elapse(e) PROVE IInv'
  <1>1. /\ idle' = idle \cup {e} /\ e \in pending
        /\ UNCHANGED <<sent, from, last, pending, times, memory, mode, rows, acked>>
    BY DEF Elapse
  <1>2. Queue' /\ Counters' /\ Memory' /\ AckedIsStored'
    BY <1>1 DEF IInv, Queue, Counters, Memory, AckedIsStored, memory
  <1>3. Batches' /\ Accounted'
    BY <1>1 DEF IInv, Batches, Inserts, Accounted, Copies, memory
  <1> QED
    BY <1>2, <1>3 DEF IInv

(* What XREADGROUP hands out comes after what it handed out before.         *)
LEMMA ReadRange ==
    ASSUME IInv,
           NEW first, first = Max({last, sent - MaxLen} \cap Nat) + 1, first <= sent,
           NEW to, to = Min({first + BatchSize - 1, sent})
    PROVE  first \in Nat /\ to \in Nat /\ last < first /\ first <= to /\ to <= sent
  <1> DEFINE m == IF sent - MaxLen > last THEN sent - MaxLen ELSE last
             T == {last, sent - MaxLen} \cap Nat
  <1>1. last \in Nat /\ sent \in Nat /\ last <= sent /\ MaxLen \in Nat /\ BatchSize \in Nat \ {0}
    BY ConsumerAssumption DEF IInv, Queue
  <1>2. m \in T /\ \A y \in T : m >= y
    BY <1>1
  <1>3. \A x \in T : (\A y \in T : x >= y) => x = m
    <2> SUFFICES ASSUME NEW x \in T, x >= m PROVE x = m
      BY <1>2
    <2>1. m >= x /\ x \in Nat /\ m \in Nat
      BY <1>2
    <2> HIDE DEF m, T
    <2> QED
      BY <2>1
  <1>4. m \in Nat /\ m >= last
    BY <1>1
  <1> HIDE DEF m
  <1>5. Max(T) = m
    <2> HIDE DEF T
    <2> QED
      BY <1>2, <1>3 DEF Max
  <1>6. first \in Nat /\ last < first
    BY <1>1, <1>4, <1>5
  <1>7. to = IF first + BatchSize - 1 <= sent THEN first + BatchSize - 1 ELSE sent
    <2> DEFINE b == first + BatchSize - 1
    <2>1. b \in Int /\ to = Min({b, sent})
      BY <1>1, <1>6
    <2> HIDE DEF b
    <2>2. to = IF b <= sent THEN b ELSE sent
      BY <1>1, <2>1, MinOf
    <2> QED
      BY <2>2 DEF b
  <1> QED
    BY <1>1, <1>6, <1>7

(* Each entry of a batch that is handed out is paid for by its delivery.    *)
LEMMA Delivered ==
    ASSUME IInv, NEW given \in SUBSET Events,
           times' = [e \in Events |-> IF e \in given THEN Capped(times[e]) ELSE times[e]],
           \A e \in Events : Copies(e)' <= Copies(e) + IF e \in given THEN 1 ELSE 0,
           \A e \in Events : Copies(e)' \in Nat,
           rows' = rows
    PROVE  Counters' /\ Accounted'
  <1>1. /\ times \in [Events -> 0 .. MaxCount] /\ rows \in [Events -> 0 .. MaxCount]
        /\ MaxCount \in Nat
    BY ConsumerAssumption DEF IInv, Counters
  <1>2. Counters'
    BY <1>1 DEF Counters, Capped
  <1>3. ASSUME NEW e \in Events, times'[e] < MaxCount PROVE rows[e] + Copies(e)' <= times'[e]
    <2>1. times[e] \in Nat /\ rows[e] \in Nat /\ Copies(e) \in Nat /\ Copies(e)' \in Nat
      BY <1>1, CopiesType DEF IInv
    <2>2. times'[e] = IF e \in given THEN Capped(times[e]) ELSE times[e]
      OBVIOUS
    <2>3. times[e] < MaxCount /\ times'[e] = times[e] + IF e \in given THEN 1 ELSE 0
      BY <1>1, <1>3, <2>1, <2>2 DEF Capped
    <2>4. rows[e] + Copies(e) <= times[e]
      BY <2>3 DEF IInv, Accounted
    <2>5. Copies(e)' <= Copies(e) + IF e \in given THEN 1 ELSE 0
      OBVIOUS
    <2> QED
      BY <2>1, <2>3, <2>4, <2>5
  <1> QED
    BY <1>2, <1>3 DEF Accounted

LEMMA ReadStep == ASSUME IInv, Read PROVE IInv'
  <1>1. PICK first : first = Max({last, sent - MaxLen} \cap Nat) + 1
    OBVIOUS
  <1>2. PICK to : to = Min({first + BatchSize - 1, sent})
    OBVIOUS
  <1> DEFINE given == first .. to
             n == to - first + 1
             entries == [i \in 1 .. n |-> first + i - 1]
  <1>3. /\ mode = "up" /\ inhand = <<>> /\ first <= sent
        /\ last' = to /\ inhand' \in {entries, <<>>} /\ pending' = pending \cup given
        /\ times' = [e \in Events |-> IF e \in given THEN Capped(times[e]) ELSE times[e]]
        /\ UNCHANGED <<sent, from, idle, buffer, flush, mode, rows, acked>>
    BY <1>1, <1>2 DEF Read
  <1>4. first \in Nat /\ to \in Nat /\ last < first /\ first <= to /\ to <= sent
    BY <1>1, <1>2, <1>3, ReadRange
  <1>5. /\ last \in Nat /\ sent \in Nat /\ sent <= NumEvents /\ NumEvents \in Nat
        /\ given \in SUBSET Events /\ from <= last /\ from \in Nat
    BY <1>4, ConsumerAssumption DEF IInv, Queue, Events
  <1>6. entries \in Seq(1 .. to)
    <2>1. n \in Nat
      BY <1>4
    <2>2. ASSUME NEW i \in 1 .. n PROVE first + i - 1 \in 1 .. to
      BY <1>4, <1>5
    <2>3. entries \in [1 .. n -> 1 .. to]
      BY <2>2
    <2> HIDE DEF entries, n
    <2> QED
      BY <2>1, <2>3, SeqDef
  <1>7. Memory'
    <2>1. Seq(Parsed(last)) \subseteq Seq(Parsed(to)) /\ Flushes(last) \subseteq Flushes(to)
      BY <1>4, <1>5, Widen
    <2>2. inhand' \in Seq(1 .. to)
      BY <1>3, <1>6, EmptySeq
    <2> QED
      BY <1>3, <2>1, <2>2 DEF IInv, Memory
  <1>8. Queue'
    BY <1>3, <1>4, <1>5 DEF IInv, Queue
  <1>9. ASSUME NEW e \in Events PROVE Copies(e)' <= Copies(e) + IF e \in given THEN 1 ELSE 0
    <2>1. Count(entries, e) \in {0, 1} /\ (e \notin given => Count(entries, e) = 0)
      <3>1. /\ Count(entries, e) \in Nat
            /\ Count(entries, e) > 0 <=> \E i \in DOMAIN entries : entries[i] = e
        BY <1>6, CountType
      <3>2. \A i \in 1 .. n : entries[i] = first + i - 1 /\ entries[i] \in given
        BY <1>4
      <3>3. DOMAIN entries = 1 .. n
        OBVIOUS
      <3> HIDE DEF entries, n
      <3>4. \A i, j \in DOMAIN entries : entries[i] = entries[j] => i = j
        BY <1>4, <3>2, <3>3
      <3>5. Count(entries, e) \in {0, 1}
        BY <1>6, <3>4, CountOnce
      <3> QED
        BY <3>1, <3>2, <3>3, <3>5
    <2> HIDE DEF entries
    <2>2. Count(inhand, e) = 0 /\ Count(buffer, e) \in Nat /\ Flight(flush, e) \in Nat
      BY <1>3, CountEmpty, CopiesType DEF IInv
    <2>3. Copies(e)' = Count(inhand', e) + Count(buffer, e) + Flight(flush, e)
          /\ Copies(e) = Count(inhand, e) + Count(buffer, e) + Flight(flush, e)
      BY <1>3 DEF Copies
    <2>4. Count(inhand', e) \in {0, 1} /\ (e \notin given => Count(inhand', e) = 0)
      BY <1>3, <2>1, CountEmpty
    <2> QED
      BY <2>2, <2>3, <2>4
  <1>10. ASSUME NEW e \in Events PROVE Copies(e)' \in Nat
    <2>1. Count(inhand', e) \in Nat /\ Count(buffer', e) \in Nat /\ Flight(flush', e) \in Nat
      BY <1>7, CountType, FlightType DEF Memory
    <2> QED
      BY <2>1 DEF Copies
  <1>11. Counters' /\ Accounted'
    <2> HIDE DEF given, entries
    <2> QED
      BY <1>3, <1>5, <1>9, <1>10, Delivered
  <1>12. Batches' /\ AckedIsStored'
    BY <1>3 DEF IInv, Batches, AckedIsStored
  <1> QED
    BY <1>7, <1>8, <1>11, <1>12 DEF IInv

(* Reclaimed entries leave the pending list when they were trimmed or are    *)
(* acknowledged because they cannot be parsed.                              *)
LEMMA ReclaimIs ==
    ASSUME IInv, NEW done \in SUBSET (Kept \cap Malformed), Reclaim(done),
           UNCHANGED <<sent, from, last, mode, rows>>
    PROVE  Queue' /\ AckedIsStored' /\ Kept \subseteq 1 .. last /\ Kept \in SUBSET Events
  <1>1. /\ pending' = pending \ ((Taken \ Kept) \cup done) /\ idle' = idle \ Taken
        /\ acked' = acked \cup done
    BY DEF Reclaim
  <1>2. Kept \subseteq Taken /\ Taken \subseteq idle /\ idle \subseteq pending
    BY DEF Kept, Taken, IInv, Queue
  <1>3. pending \subseteq 1 .. last /\ 1 .. last \subseteq Events
    BY ConsumerAssumption DEF IInv, Queue, Events
  <1>4. Queue'
    BY <1>1, <1>2, <1>3 DEF IInv, Queue
  <1>5. AckedIsStored'
    BY <1>1 DEF IInv, AckedIsStored
  <1> QED
    BY <1>2, <1>3, <1>4, <1>5

(* Entries taken into the buffer leave the rest of the memory alone.        *)
LEMMA ExtendIs ==
    ASSUME IInv, flush["claim"] = NoFlush, NEW S \in SUBSET Parsed(last),
           NEW entries \in [1 .. Cardinality(S) -> S], Extend("claim", entries),
           \A i, j \in 1 .. Cardinality(S) : i < j => entries[i] < entries[j],
           UNCHANGED <<last, inhand, rows>>
    PROVE  /\ Memory' /\ Batches'
           /\ \A e \in Events : Copies(e)' <= Copies(e) + IF e \in S THEN 1 ELSE 0
  <1> DEFINE n == Cardinality(S)
             pc == IF Len(buffer') >= BatchSize THEN "flush" ELSE "idle"
             f == [NoFlush EXCEPT !.pc = pc]
  <1>1. /\ last \in Nat /\ Parsed(last) \subseteq 1 .. last
        /\ flush \in Flushes(last) /\ inhand \in Seq(1 .. last) /\ buffer \in Seq(Parsed(last))
        /\ "claim" \in Tasks
    BY DEF IInv, Memory, Queue, Tasks, Parsed
  <1>2. n \in Nat
    <2>1. IsFiniteSet(1 .. last)
      BY <1>1, FS_Interval
    <2> QED
      BY <1>1, <2>1, FS_Subset, FS_CardinalityType
  <1> HIDE DEF n
  <1>3. /\ entries \in Seq(S) /\ entries \in Seq(Parsed(last)) /\ Len(entries) = n
        /\ DOMAIN entries = 1 .. n
    <2>1. entries \in [1 .. n -> S] /\ entries \in [1 .. n -> Parsed(last)]
      BY DEF n
    <2>2. entries \in Seq(S) /\ entries \in Seq(Parsed(last))
      BY <1>2, <2>1, SeqDef
    <2> QED
      BY <1>2, <2>1, <2>2, LenProperties
  <1>4. \A i, j \in DOMAIN entries : entries[i] = entries[j] => i = j
    <2>1. \A i, j \in 1 .. n : i < j => entries[i] < entries[j]
      BY DEF n
    <2>2. \A i \in 1 .. n : entries[i] \in Nat
      <3>1. \A i \in 1 .. n : entries[i] \in Parsed(last)
        BY <1>3, SeqElements
      <3> QED
        BY <1>1, <3>1
    <2> QED
      BY <1>2, <1>3, <2>1, <2>2
  <1>5. buffer' = buffer \o entries /\ Set("claim", f)
    BY DEF Extend
  <1>6. /\ f \in [pc : Steps, batch : Seq(Parsed(last))] /\ Inserts(f, rows')
        /\ \A e : Share(f, e) = 0 /\ Share(flush["claim"], e) = 0
    <2>1. pc \in Resting
      BY DEF Resting
    <2> HIDE DEF pc
    <2> QED
      BY <2>1, RestingIs, NoFlushCounts
  <1> HIDE DEF f
  <1>7. /\ flush' \in Flushes(last) /\ flush'["claim"] = f
        /\ \A u \in Tasks \ {"claim"} : flush'[u] = flush[u]
    BY <1>1, <1>5, <1>6, SetIs
  <1>8. Memory'
    BY <1>1, <1>3, <1>5, <1>7, ConcatProperties DEF Memory
  <1>9. Batches'
    BY <1>6, <1>7 DEF IInv, Batches
  <1>10. ASSUME NEW e \in Events PROVE Copies(e)' <= Copies(e) + IF e \in S THEN 1 ELSE 0
    <2>1. Count(entries, e) \in {0, 1} /\ (e \notin S => Count(entries, e) = 0)
      <3>1. Count(entries, e) \in {0, 1}
        BY <1>3, <1>4, CountOnce
      <3>2. Count(entries, e) > 0 => \E i \in DOMAIN entries : entries[i] = e
        BY <1>3, CountType
      <3>3. \A i \in DOMAIN entries : entries[i] \in S
        BY <1>3, SeqElements
      <3> QED
        BY <3>1, <3>2, <3>3
    <2>2. Count(buffer', e) = Count(buffer, e) + Count(entries, e)
      BY <1>1, <1>3, <1>5, CountConcat
    <2>3. /\ Flight(flush, e) \in Nat /\ Flight(flush', e) \in Nat
          /\ Flight(flush', e) + Share(flush["claim"], e)
                = Flight(flush, e) + Share(flush'["claim"], e)
      <3>1. /\ flush \in Flushes(last) /\ flush' \in Flushes(last) /\ "claim" \in Tasks
            /\ \A u \in Tasks \ {"claim"} : flush'[u] = flush[u]
        BY <1>1, <1>7
      <3> QED
        BY <3>1, FlightStep
    <2>4. Flight(flush', e) = Flight(flush, e)
      BY <1>6, <1>7, <2>3
    <2>5. Count(inhand, e) \in Nat /\ Count(buffer, e) \in Nat
      BY <1>1, CountType
    <2>6. /\ Copies(e) = Count(inhand, e) + Count(buffer, e) + Flight(flush, e)
          /\ Copies(e)' = Count(inhand, e) + Count(buffer', e) + Flight(flush', e)
      BY DEF Copies
    <2> QED
      BY <2>1, <2>2, <2>3, <2>4, <2>5, <2>6
  <1> QED
    BY <1>8, <1>9, <1>10

(* Each reclaimed entry is paid for by its delivery.                        *)
LEMMA ReclaimPaid ==
    ASSUME IInv, NEW done \in SUBSET (Kept \cap Malformed), Reclaim(done),
           UNCHANGED <<sent, from, last, mode, rows>>, Memory', Batches',
           \A e \in Events : Copies(e)' <= Copies(e) + IF e \in Kept THEN 1 ELSE 0
    PROVE  IInv'
  <1>1. Queue' /\ AckedIsStored' /\ Kept \in SUBSET Events
    BY ReclaimIs
  <1>2. times' = [e \in Events |-> IF e \in Kept THEN Capped(times[e]) ELSE times[e]]
    BY DEF Reclaim
  <1>3. ASSUME NEW e \in Events PROVE Copies(e)' \in Nat
    <2>1. Count(inhand', e) \in Nat /\ Count(buffer', e) \in Nat /\ Flight(flush', e) \in Nat
      BY CountType, FlightType DEF Memory
    <2> QED
      BY <2>1 DEF Copies
  <1>4. Counters' /\ Accounted'
    BY <1>1, <1>2, <1>3, Delivered
  <1> QED
    BY <1>1, <1>4 DEF IInv

LEMMA MemoryStays ==
    ASSUME IInv, UNCHANGED <<last, inhand, buffer, flush, rows>>
    PROVE  /\ Memory' /\ Batches'
           /\ \A e \in Events : Copies(e)' <= Copies(e) + IF e \in Kept THEN 1 ELSE 0
  <1>1. Memory' /\ Batches'
    BY DEF IInv, Memory, Batches
  <1>2. \A e \in Events : Copies(e)' = Copies(e) /\ Copies(e) \in Nat
    BY CopiesType DEF Copies, IInv
  <1> QED
    BY <1>1, <1>2

LEMMA ClaimStep == ASSUME IInv, Claim PROVE IInv'
  <1> DEFINE done == Kept \cap Malformed
             good == Kept \ Malformed
  <1>1. /\ flush["claim"] = NoFlush /\ done \in SUBSET (Kept \cap Malformed) /\ Reclaim(done)
        /\ UNCHANGED <<sent, from, last, inhand, mode, rows>>
    BY DEF Claim
  <1>2. good \in SUBSET Parsed(last) /\ good \subseteq Kept
    BY <1>1, ReclaimIs DEF Parsed
  <1>3. \/ UNCHANGED <<buffer, flush>>
        \/ \E entries \in [1 .. Cardinality(good) -> good] :
              IsSorted(entries, <) /\ Extend("claim", entries)
    BY DEF Claim
  <1> HIDE DEF good, done
  <1>4. CASE UNCHANGED <<buffer, flush>>
    BY <1>1, <1>4, MemoryStays, ReclaimPaid
  <1>5. CASE \E entries \in [1 .. Cardinality(good) -> good] :
                IsSorted(entries, <) /\ Extend("claim", entries)
    <2>1. PICK entries \in [1 .. Cardinality(good) -> good] :
             IsSorted(entries, <) /\ Extend("claim", entries)
      BY <1>5
    <2>s. entries \in [1 .. Cardinality(good) -> good] /\ Extend("claim", entries)
      BY <2>1
    <2>o. \A i, j \in 1 .. Cardinality(good) : i < j => entries[i] < entries[j]
      <3>1. entries \in [1 .. Cardinality(good) -> Nat]
        <4>1. last \in Nat /\ good \subseteq 1 .. last
          BY <1>2 DEF Parsed, IInv, Queue
        <4>2. good \subseteq Nat
          BY <4>1
        <4> QED
          BY <2>s, <4>2
      <3>2. Len(entries) = Cardinality(good)
        <4>1. IsFiniteSet(1 .. last)
          BY FS_Interval DEF IInv, Queue
        <4>2. Cardinality(good) \in Nat
          BY <1>2, <4>1, FS_Subset, FS_CardinalityType DEF Parsed
        <4> QED
          BY <3>1, <4>2, SeqDef, LenProperties
      <3> QED
        BY <2>1, <3>1, <3>2 DEF IsSorted
    <2>2. /\ Memory' /\ Batches'
          /\ \A e \in Events : Copies(e)' <= Copies(e) + IF e \in good THEN 1 ELSE 0
      BY <1>1, <1>2, <2>s, <2>o, ExtendIs
    <2>3. ASSUME NEW e \in Events PROVE Copies(e)' <= Copies(e) + IF e \in Kept THEN 1 ELSE 0
      <3>1. Copies(e)' <= Copies(e) + IF e \in good THEN 1 ELSE 0
        BY <2>2
      <3>2. Count(inhand', e) \in Nat /\ Count(buffer', e) \in Nat /\ Flight(flush', e) \in Nat
        BY <2>2, CountType, FlightType DEF Memory
      <3>3. Copies(e) \in Nat /\ Copies(e)' \in Nat
        BY <3>2, CopiesType DEF IInv, Copies
      <3> QED
        BY <1>2, <3>1, <3>3
    <2> QED
      BY <1>1, <2>2, <2>3, ReclaimPaid
  <1> QED
    BY <1>3, <1>4, <1>5

LEMMA ClaimFailsStep == ASSUME IInv, ClaimFails PROVE IInv'
  <1>1. PICK n \in 0 .. NumEvents : Reclaim({e \in Kept \cap Malformed : e <= n})
    BY DEF ClaimFails
  <1>2. PICK done \in SUBSET (Kept \cap Malformed) : done = {e \in Kept \cap Malformed : e <= n}
    OBVIOUS
  <1>3. Reclaim(done) /\ UNCHANGED <<sent, from, last, inhand, buffer, flush, mode, rows>>
    BY <1>1, <1>2 DEF ClaimFails, memory
  <1> QED
    BY <1>3, MemoryStays, ReclaimPaid

-----------------------------------------------------------------------------
LEMMA StepInv == ASSUME IInv, [Next]_vars PROVE IInv'
  <1>1. CASE UNCHANGED vars
    <2>1. /\ UNCHANGED <<sent, from, last, pending, idle, times, inhand, buffer, flush>>
          /\ UNCHANGED <<mode, rows, acked>>
      BY <1>1 DEF vars, pel, memory
    <2>2. Queue' /\ Counters' /\ Memory' /\ Batches' /\ AckedIsStored'
      BY <2>1 DEF IInv, Queue, Counters, Memory, Batches, AckedIsStored
    <2>3. Accounted'
      BY <2>1 DEF IInv, Accounted, Copies
    <2> QED
      BY <2>2, <2>3 DEF IInv
  <1> QED
    BY <1>1, PublishStep, StartStep, ReadStep, BufferStep, TickStep, ClaimStep, ElapseStep, GrabStep,
       InsertStep, AckStep, InsertFailsStep, AckFailsStep, StopStep, ShutdownStep, ChokeStep,
       DiscardStep, DiscardFailsStep, ClaimFailsStep
    DEF Next, Flushing

LEMMA Invariance == Spec => []IInv
  <1> QED
    BY InitInv, StepInv, PTL DEF Spec

(* At least once: an event that can be parsed is acknowledged only when it  *)
(* is in ClickHouse, whichever task flushed it, whatever call failed and    *)
(* whenever the process was stopped or killed.                              *)
THEOREM StoredBeforeAcked == Spec => []AckedIsStored
  <1>1. IInv => AckedIsStored
    BY DEF IInv
  <1> QED
    BY <1>1, Invariance, PTL

(* An event has no more rows than it had deliveries: the three tasks that   *)
(* flush one buffer never insert an entry twice.                            *)
THEOREM DuplicatesAreRedeliveries == Spec => []RowsWithinDeliveries
  <1>1. IInv => RowsWithinDeliveries
    <2> SUFFICES ASSUME IInv, NEW e \in Events PROVE rows[e] <= times[e]
      BY DEF RowsWithinDeliveries
    <2>1. rows[e] \in 0 .. MaxCount /\ times[e] \in 0 .. MaxCount /\ MaxCount \in Nat
      BY ConsumerAssumption DEF IInv, Counters
    <2>2. times[e] < MaxCount => rows[e] + Copies(e) <= times[e] /\ Copies(e) \in Nat
      BY CopiesType DEF IInv, Accounted
    <2> QED
      BY <2>1, <2>2
  <1> QED
    BY <1>1, Invariance, PTL

(* Each step of the consumer is a step of the contract or leaves it alone.  *)
Stored == {e \in Events : rows[e] > 0}

LEMMA InsertReports == ASSUME IInv, NEW t \in Tasks, Insert(t) PROVE Contract!Next
  <1> DEFINE ms == {e \in Events : Count(flush[t].batch, e) > 0}
  <1>1. /\ last \in Nat /\ sent \in Nat /\ last <= sent /\ flush[t].batch \in Seq(Parsed(last))
        /\ UNCHANGED <<sent, acked>>
    BY DEF IInv, Queue, Memory, Flushes, Insert
  <1>2. ASSUME NEW e \in ms PROVE e \in (1 .. sent) \ Malformed
    <2>1. \E i \in DOMAIN flush[t].batch : flush[t].batch[i] = e
      BY <1>1, CountType
    <2>2. e \in Parsed(last)
      BY <1>1, <2>1, SeqElements
    <2> QED
      BY <1>1, <2>2 DEF Parsed
  <1>3. Stored' = Stored \cup ms
    BY InsertedIs DEF Stored
  <1>4. PICK new \in SUBSET Events : new \subseteq (1 .. sent) \ Malformed /\ Stored' = Stored \cup new
    BY <1>2, <1>3
  <1>5. Contract!Report(new)
    BY <1>1, <1>4 DEF Contract!Report, Stored
  <1> QED
    BY <1>5 DEF Contract!Next

(* What is acknowledged without a row could not be parsed.                  *)
LEMMA DiscardOfContract ==
    ASSUME IInv, NEW ms, ms \subseteq (1 .. last) \cap Malformed,
           acked' = acked \cup ms, UNCHANGED <<sent, rows>>
    PROVE  Contract!Next
  <1>1. last \in Nat /\ sent \in Nat /\ last <= sent /\ 1 .. last \subseteq Events
    BY ConsumerAssumption DEF IInv, Queue, Events
  <1>2. ms \subseteq 1 .. sent /\ ms \in SUBSET Events
    BY <1>1
  <1>3. Contract!Discard(ms)
    BY <1>2 DEF Contract!Discard
  <1> QED
    BY <1>2, <1>3 DEF Contract!Next

LEMMA ContractStep == IInv /\ [Next]_vars => [Contract!Next]_(Contract!avars)
  <1> SUFFICES ASSUME IInv, [Next]_vars PROVE Contract!Next \/ UNCHANGED Contract!avars
    OBVIOUS
  <1>1. UNCHANGED <<sent, rows, acked>> => UNCHANGED Contract!avars
    BY DEF Contract!avars
  <1>2. CASE Publish
    <2>1. sent < NumEvents /\ sent' = sent + 1 /\ sent \in Nat /\ NumEvents \in Nat /\ UNCHANGED <<rows, acked>>
      BY <1>2, ConsumerAssumption DEF Publish, IInv, Queue
    <2>2. sent + 1 \in Events \ (1 .. sent) /\ 1 .. sent' = (1 .. sent) \cup {sent + 1}
      BY <2>1 DEF Events
    <2>3. Contract!Send(sent + 1)
      BY <2>1, <2>2 DEF Contract!Send
    <2> QED
      BY <2>2, <2>3 DEF Contract!Next
  <1>3. CASE Discard \/ DiscardFails \/ Shutdown
    <2>1. UNCHANGED <<sent, rows>>
      BY <1>3 DEF Discard, DiscardFails, Shutdown, Ends
    <2>2. CASE UNCHANGED acked
      BY <1>1, <2>1, <2>2
    <2>3. CASE AtMalformed /\ Settle(Head(inhand))
      <3>1. Head(inhand) \in (1 .. last) \cap Malformed
        BY <2>3, HeadTailProperties DEF IInv, Memory, AtMalformed
      <3>2. acked' = acked \cup {Head(inhand)}
        BY <2>3 DEF Settle
      <3> QED
        BY <2>1, <3>1, <3>2, DiscardOfContract
    <2> QED
      BY <1>3, <2>2, <2>3 DEF Discard, DiscardFails, Shutdown
  <1>4. CASE Claim \/ ClaimFails
    <2>1. PICK done \in SUBSET (Kept \cap Malformed) : Reclaim(done)
      <3>1. CASE Claim
        BY <3>1 DEF Claim
      <3>2. CASE ClaimFails
        <4>1. PICK n \in 0 .. NumEvents : Reclaim({e \in Kept \cap Malformed : e <= n})
          BY <3>2 DEF ClaimFails
        <4> QED
          BY <4>1
      <3> QED
        BY <1>4, <3>1, <3>2
    <2>2. UNCHANGED <<sent, from, last, mode, rows>> /\ acked' = acked \cup done
      BY <1>4, <2>1 DEF Claim, ClaimFails, Reclaim
    <2>3. done \subseteq (1 .. last) \cap Malformed
      BY <2>1, <2>2, ReclaimIs
    <2> QED
      BY <2>2, <2>3, DiscardOfContract
  <1>5. ASSUME NEW t \in Tasks, Ack(t) PROVE Contract!Next
    <2> DEFINE batch == flush[t].batch
    <2>1. /\ flush[t].pc = "ack" /\ acked' = acked \cup {Head(batch)} /\ UNCHANGED <<sent, rows>>
      BY <1>5 DEF Ack, Settle
    <2>2. /\ batch \in Seq(Parsed(last)) /\ batch # <<>>
          /\ \A i \in DOMAIN batch : rows[batch[i]] > 0
      BY <2>1 DEF IInv, Memory, Flushes, Batches, Inserts
    <2> HIDE DEF batch
    <2>3. 1 \in DOMAIN batch /\ Head(batch) = batch[1]
      BY <2>2, LenProperties, EmptySeq
    <2>4. Head(batch) \in Events /\ rows[Head(batch)] > 0
      <3>1. batch[1] \in 1 .. last
        BY <2>2, <2>3, SeqElements DEF Parsed
      <3>2. last \in Nat /\ last <= NumEvents
        BY ConsumerAssumption DEF IInv, Queue
      <3> QED
        BY <2>2, <2>3, <3>1, <3>2, ConsumerAssumption DEF Events
    <2>5. Contract!Settle(Head(batch))
      BY <2>1, <2>4 DEF Contract!Settle
    <2> QED
      BY <2>4, <2>5 DEF Contract!Next
  <1>6. ASSUME NEW t \in Tasks, Choke(t) \/ InsertFails(t) \/ AckFails(t)
        PROVE  UNCHANGED <<sent, rows, acked>>
    BY <1>6 DEF Choke, InsertFails, AckFails, Ends
  <1>7. CASE Kill \/ Closed
    BY <1>1, <1>7 DEF Kill, Closed, Ends
  <1>8. \/ UNCHANGED <<sent, rows, acked>>
        \/ Publish \/ Discard \/ DiscardFails \/ Shutdown \/ Claim \/ ClaimFails \/ Kill \/ Closed
        \/ \E t \in Tasks : \/ Insert(t) \/ Ack(t)
                           \/ Choke(t) \/ InsertFails(t) \/ AckFails(t)
    BY DEF Next, Flushing, Start, Read, Buffer, Tick, Elapse, Grab, vars
  <1> QED
    BY <1>1, <1>2, <1>3, <1>4, <1>5, <1>6, <1>7, <1>8, InsertReports

(* The consumer implements the at-least-once contract: through failed       *)
(* inserts and acknowledgements, kills and shutdowns in the middle of a     *)
(* flush, an entry that has its row keeps it, and only such an entry is     *)
(* settled.                                                                 *)
THEOREM Refinement == Spec => ContractSpec
  <1>1. Init => Contract!Init
    BY ConsumerAssumption DEF Init, Contract!Init, Events
  <1> QED
    BY <1>1, Invariance, ContractStep, PTL DEF Spec, ContractSpec, Contract!Spec

(* Type correctness: only delivered entries are pending, no acknowledged    *)
(* entry is pending, and everything in memory is an event.                  *)
THEOREM TypeCorrect == Spec => []CTypeOK
  <1>1. IInv => CTypeOK
    <2> SUFFICES ASSUME IInv PROVE CTypeOK
      OBVIOUS
    <2>1. /\ from \in 0 .. sent /\ last \in from .. sent /\ sent \in 0 .. NumEvents
          /\ pending \subseteq from + 1 .. last /\ idle \subseteq pending
          /\ pending \cap acked = {} /\ mode \in Modes /\ last <= NumEvents
      BY ConsumerAssumption DEF IInv, Queue
    <2>2. Seq(1 .. last) \subseteq Seq(Events) /\ Seq(Parsed(last)) \subseteq Seq(Events)
      <3>1. 1 .. last \subseteq Events /\ Parsed(last) \subseteq Events
        BY <2>1, ConsumerAssumption DEF Events, Parsed, IInv, Queue
      <3> QED
        BY <3>1, SeqMonotonic
    <2>3. /\ inhand \in Seq(Events) /\ buffer \in Seq(Events)
          /\ flush \in [Tasks -> [pc : Steps, batch : Seq(Events)]]
      BY <2>2 DEF IInv, Memory, Flushes
    <2> QED
      BY <2>1, <2>3 DEF CTypeOK, IInv, Counters, Modes, Steps
  <1> QED
    BY <1>1, Invariance, PTL
=============================================================================
