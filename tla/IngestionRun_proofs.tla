-------------------------- MODULE IngestionRun_proofs --------------------------
(***************************************************************************)
(* A document whose ingestion completed has the rows and the vectors of all *)
(* its text, in order and once: for any documents, shard size and number of *)
(* threads, of failures, restarts and deletions, as long as the readings of *)
(* its pages are what is printed on them.                                   *)
(***************************************************************************)
EXTENDS IngestionRun, FiniteSetTheorems, SequenceTheorems, TLAPS

-----------------------------------------------------------------------------
(* Places.  The place of a page in a set is the number of pages up to it.   *)

Place(S, p) == Cardinality({q \in S : q <= p})

LEMMA PlacesDiffer ==
    ASSUME NEW S \in SUBSET Nat, IsFiniteSet(S), NEW p \in S, NEW q \in S, Place(S, p) = Place(S, q)
    PROVE  p = q
  <1>1. ASSUME NEW x \in S, NEW y \in S, x < y PROVE Place(S, x) # Place(S, y)
    <2> DEFINE X == {z \in S : z <= x}
               Y == {z \in S : z <= y}
    <2>1. IsFiniteSet(Y) /\ X \in SUBSET Y /\ y \in Y /\ y \notin X
      <3>1. \A z \in S : z \in Nat /\ (z <= x => z <= y) /\ y <= y /\ ~(y <= x)
        BY <1>1
      <3>2. Y \in SUBSET S
        OBVIOUS
      <3> QED
        BY <3>1, <3>2, FS_Subset
    <2> HIDE DEF X, Y
    <2>2. Cardinality(Y) # Cardinality(X)
      BY <2>1, FS_Subset
    <2> QED
      BY <2>2 DEF Place, X, Y
  <1> QED
    BY <1>1

LEMMA PlaceInRange ==
    ASSUME NEW S \in SUBSET Nat, IsFiniteSet(S), NEW p \in S
    PROVE  Place(S, p) \in 1 .. Cardinality(S)
  <1> DEFINE X == {q \in S : q <= p}
  <1>1. X \in SUBSET S /\ p \in X /\ Cardinality(S) \in Nat
    BY FS_CardinalityType
  <1> HIDE DEF X
  <1>2. IsFiniteSet(X) /\ Cardinality(X) <= Cardinality(S) /\ Cardinality(X) \in Nat /\ Cardinality(X) # 0
    BY <1>1, FS_Subset, FS_CardinalityType, FS_EmptySet
  <1> QED
    BY <1>1, <1>2 DEF Place, X

(* There is a page at every place.                                          *)
LEMMA NthIs ==
    ASSUME NEW S \in SUBSET Nat, IsFiniteSet(S), NEW n \in 1 .. Cardinality(S)
    PROVE  NthPage(S, n) \in S /\ Place(S, NthPage(S, n)) = n
  <1> DEFINE f == [p \in S |-> Place(S, p)]
             T == 1 .. Cardinality(S)
  <1>1. IsFiniteSet(T) /\ Cardinality(T) = Cardinality(S)
    BY FS_CardinalityType, FS_Interval
  <1>2. f \in Injection(S, T)
    <2>1. f \in [S -> T]
      BY PlaceInRange
    <2> QED
      BY <2>1, PlacesDiffer DEF Injection, IsInjective
  <1> HIDE DEF f
  <1>3. f \in Surjection(S, T)
    BY <1>1, <1>2, FS_Injection
  <1>4. \E p \in S : Place(S, p) = n
    BY <1>3 DEF Surjection, f
  <1> QED
    BY <1>4 DEF NthPage, Place

(* The page at a place is the one whose place it is.                        *)
LEMMA NthUnique ==
    ASSUME NEW S \in SUBSET Nat, IsFiniteSet(S), NEW p \in S
    PROVE  NthPage(S, Place(S, p)) = p
  <1> DEFINE n == Place(S, p)
  <1>1. n \in 1 .. Cardinality(S)
    BY PlaceInRange
  <1> HIDE DEF n
  <1>2. NthPage(S, n) \in S /\ Place(S, NthPage(S, n)) = n
    BY <1>1, NthIs
  <1>3. PICK q \in S : q = NthPage(S, n) /\ Place(S, q) = Place(S, p)
    BY <1>2 DEF n
  <1>4. q = p
    BY <1>3, PlacesDiffer
  <1> QED
    BY <1>3, <1>4 DEF n

-----------------------------------------------------------------------------
(* Chunks.                                                                  *)

Chunk == [page : Nat, text : Texts]
Said(pages, text) == {p \in pages : text[p] # Blank}

LEMMA ChunksAre ==
    ASSUME NEW pages \in SUBSET Nat, IsFiniteSet(pages), NEW text, \A p \in pages : text[p] \in Texts
    PROVE  /\ IsFiniteSet(Said(pages, text)) /\ Cardinality(Said(pages, text)) \in Nat
           /\ Chunks(pages, text) \in Seq(Chunk)
           /\ Len(Chunks(pages, text)) = Cardinality(Said(pages, text))
           /\ DOMAIN Chunks(pages, text) = 1 .. Cardinality(Said(pages, text))
           /\ \A n \in DOMAIN Chunks(pages, text) :
                /\ Chunks(pages, text)[n].page \in Said(pages, text)
                /\ Chunks(pages, text)[n].text = text[Chunks(pages, text)[n].page]
                /\ Place(Said(pages, text), Chunks(pages, text)[n].page) = n
  <1> DEFINE said == Said(pages, text)
             c == Chunks(pages, text)
             m == Cardinality(said)
  <1>1. IsFiniteSet(said) /\ m \in Nat /\ said \in SUBSET Nat
    BY FS_Subset, FS_CardinalityType DEF Said
  <1>2. \A p \in said : p \in Nat /\ text[p] \in Texts
    BY DEF Said
  <1>3. c = [n \in 1 .. m |-> [page |-> NthPage(said, n), text |-> text[NthPage(said, n)]]]
    BY DEF Chunks, Said
  <1> HIDE DEF said, c
  <1>4. ASSUME NEW n \in 1 .. m
        PROVE  /\ c[n] \in Chunk /\ c[n].page \in said /\ c[n].text = text[c[n].page]
               /\ Place(said, c[n].page) = n
    <2>1. NthPage(said, n) \in said /\ Place(said, NthPage(said, n)) = n
      BY <1>1, NthIs
    <2>2. c[n] = [page |-> NthPage(said, n), text |-> text[NthPage(said, n)]]
      BY <1>3
    <2> QED
      BY <1>2, <2>1, <2>2 DEF Chunk
  <1> HIDE DEF m
  <1>5. c \in [1 .. m -> Chunk]
    <2>1. c = [n \in 1 .. m |-> c[n]]
      BY <1>3
    <2> QED
      BY <1>4, <2>1
  <1>6. c \in Seq(Chunk) /\ Len(c) = m /\ DOMAIN c = 1 .. m
    <2>1. c \in Seq(Chunk)
      BY <1>1, <1>5, SeqDef
    <2> QED
      BY <1>1, <1>5, <2>1, LenProperties
  <1> QED
    BY <1>1, <1>4, <1>6 DEF said, c, m

-----------------------------------------------------------------------------
(* What a document should end up with.                                      *)

Printed(d) == {i \in DOMAIN Content[d] : Content[d][i].printed # Blank}
Upto(d, p) == Cardinality({q \in Printed(d) : q <= p})
Size(d) == IF Kind[d] = "text" THEN Len(Content[d]) ELSE Cardinality(Printed(d))

LEMMA ContentIs ==
    ASSUME NEW d \in Docs
    PROVE  /\ Len(Content[d]) \in Nat /\ DOMAIN Content[d] = 1 .. Len(Content[d])
           /\ IsFiniteSet(Printed(d)) /\ Printed(d) \in SUBSET Nat /\ Cardinality(Printed(d)) \in Nat
           /\ Size(d) \in Nat
           /\ \A p : IsFiniteSet({q \in Printed(d) : q <= p}) /\ Upto(d, p) \in Nat
  <1>1. Len(Content[d]) \in Nat /\ DOMAIN Content[d] = 1 .. Len(Content[d])
    BY IngestionAssumption, LenProperties
  <1>2. IsFiniteSet(1 .. Len(Content[d])) /\ Printed(d) \in SUBSET (1 .. Len(Content[d]))
    BY <1>1, FS_Interval DEF Printed
  <1>3. IsFiniteSet(Printed(d)) /\ Cardinality(Printed(d)) \in Nat
    BY <1>2, FS_Subset, FS_CardinalityType
  <1>4. \A p : IsFiniteSet({q \in Printed(d) : q <= p}) /\ Upto(d, p) \in Nat
    BY <1>3, FS_Subset, FS_CardinalityType DEF Upto
  <1>5. Printed(d) \in SUBSET Nat
    BY <1>1, <1>2
  <1>6. Size(d) \in Nat
    BY <1>1, <1>3 DEF Size
  <1> QED
    BY <1>1, <1>3, <1>4, <1>5, <1>6

LEMMA ExpectedIs ==
    ASSUME NEW d \in Docs
    PROVE  /\ DOMAIN Expected[d] = 1 .. Size(d) /\ DOMAIN Key[d] = 1 .. Size(d)
           /\ Kind[d] = "text" => \A i \in 1 .. Size(d) : Expected[d][i].text = Content[d][i]
           /\ Kind[d] = "pdf" => \A i \in 1 .. Size(d) :
                /\ Expected[d][i].page \in Printed(d) /\ Place(Printed(d), Expected[d][i].page) = i
                /\ Expected[d][i] = [page |-> NthPage(Printed(d), i),
                                     text |-> Content[d][NthPage(Printed(d), i)].printed]
  <1>1. CASE Kind[d] = "text"
    BY <1>1, ContentIs DEF Expected, Key, Size
  <1>2. CASE Kind[d] = "pdf"
    <2> DEFINE printed == [i \in DOMAIN Content[d] |-> Content[d][i].printed]
               c == Chunks(DOMAIN Content[d], printed)
    <2>1. Expected[d] = c /\ Size(d) = Cardinality(Printed(d))
      BY <1>2 DEF Expected, Size
    <2>2. Printed(d) = {p \in DOMAIN Content[d] : printed[p] # Blank}
      BY DEF Printed
    <2>3. \A p \in Printed(d) : printed[p] = Content[d][p].printed
      BY <2>2
    <2>4. \A n \in 1 .. Cardinality(Printed(d)) :
              NthPage(Printed(d), n) \in Printed(d) /\ Place(Printed(d), NthPage(Printed(d), n)) = n
      BY ContentIs, NthIs
    <2>5. c = [n \in 1 .. Cardinality(Printed(d)) |->
                  [page |-> NthPage(Printed(d), n), text |-> printed[NthPage(Printed(d), n)]]]
      BY <2>2 DEF Chunks
    <2> HIDE DEF printed
    <2>6. /\ DOMAIN Expected[d] = 1 .. Size(d)
          /\ \A i \in 1 .. Size(d) : Expected[d][i] = [page |-> NthPage(Printed(d), i),
                                                    text |-> Content[d][NthPage(Printed(d), i)].printed]
      BY <2>1, <2>3, <2>4, <2>5
    <2>7. DOMAIN Key[d] = 1 .. Size(d)
      BY <2>6 DEF Key
    <2>8. \A i \in 1 .. Size(d) :
              Expected[d][i].page \in Printed(d) /\ Place(Printed(d), Expected[d][i].page) = i
      <3> SUFFICES ASSUME NEW i \in 1 .. Size(d)
                   PROVE  Expected[d][i].page \in Printed(d) /\ Place(Printed(d), Expected[d][i].page) = i
        OBVIOUS
      <3> DEFINE x == Content[d][NthPage(Printed(d), i)].printed
      <3>0. Expected[d][i] = [page |-> NthPage(Printed(d), i), text |-> x]
        BY <2>6
      <3> HIDE DEF x
      <3>1. Expected[d][i].page = NthPage(Printed(d), i)
        BY <3>0
      <3> QED
        BY <2>1, <2>4, <3>1
    <2> QED
      BY <1>2, <2>6, <2>7, <2>8
  <1> QED
    BY <1>1, <1>2, IngestionAssumption

Span(P, a, b) == {p \in P : a <= p /\ p <= b}

(* A page of a set that follows k of a larger one is k places further on    *)
(* there.                                                                   *)
LEMMA PlacesShift ==
    ASSUME NEW P \in SUBSET Nat, IsFiniteSet(P), NEW a \in Nat, NEW b \in Nat, a > 0, a - 1 <= b
    PROVE  /\ \A p \in Span(P, a, b) : Place(P, p) = Place(P, a - 1) + Place(Span(P, a, b), p)
           /\ Place(P, b) = Place(P, a - 1) + Cardinality(Span(P, a, b))
  <1> DEFINE S == {p \in P : a <= p /\ p <= b}
             A == {q \in P : q <= a - 1}
  <1>1. \A X \in SUBSET P : IsFiniteSet(X) /\ Cardinality(X) \in Nat
    BY FS_Subset, FS_CardinalityType
  <1>2. ASSUME NEW x \in Nat, a - 1 <= x, x <= b
        PROVE  Place(P, x) = Place(P, a - 1) + Cardinality({q \in S : q <= x})
    <2> DEFINE B == {q \in S : q <= x}
    <2>1. {q \in P : q <= x} = A \cup B /\ A \cap B = {}
      <3>1. \A q \in P : /\ q \in Nat
                         /\ q <= x <=> (q <= a - 1 \/ (a <= q /\ q <= b /\ q <= x))
                         /\ ~(q <= a - 1 /\ a <= q)
        BY <1>2
      <3> QED
        BY <3>1
    <2>2. IsFiniteSet(A) /\ IsFiniteSet(B) /\ Cardinality(A) \in Nat /\ Cardinality(B) \in Nat
      BY <1>1
    <2> HIDE DEF A, B
    <2>3. Cardinality(A \cup B) = Cardinality(A) + Cardinality(B) - Cardinality({})
      BY <2>1, <2>2, FS_Union
    <2>4. Cardinality(A \cup B) = Cardinality(A) + Cardinality(B)
      BY <2>2, <2>3, FS_EmptySet
    <2> QED
      BY <2>1, <2>4 DEF Place, A, B
  <1>3. \A p \in S : p \in Nat /\ a - 1 <= p /\ p <= b
    OBVIOUS
  <1>4. S = {q \in S : q <= b}
    OBVIOUS
  <1> QED
    BY <1>2, <1>3, <1>4 DEF Place, Span

(* What the pages from a to b say, if they are read as printed, is the part *)
(* of the document that follows the pages before a.                         *)
LEMMA OutputsAre ==
    ASSUME NEW d \in Docs, Kind[d] = "pdf", NEW a \in Nat, NEW b \in Nat, a > 0, b <= Len(Content[d]),
           NEW out \in Outputs(d, a, b), NEW pages \in SUBSET (a .. b),
           NEW c, c = Chunks(pages, out)
    PROVE  /\ pages \in SUBSET Nat /\ IsFiniteSet(pages)
           /\ c \in Seq(Chunk)
           /\ \A n \in DOMAIN c : c[n].page \in DOMAIN Content[d] /\ c[n].text \in Readings[d][c[n].page]
  <1>1. a .. b \subseteq DOMAIN Content[d] /\ a .. b \subseteq Nat
    BY ContentIs
  <1>2. \A i \in a .. b : out[i] \in Readings[d][i] /\ Readings[d][i] \subseteq Texts
    BY <1>1, IngestionAssumption DEF Outputs, Readings
  <1>3. pages \in SUBSET Nat /\ IsFiniteSet(pages) /\ \A p \in pages : out[p] \in Texts
    <2>1. IsFiniteSet(a .. b)
      BY FS_Interval
    <2>2. IsFiniteSet(pages)
      BY <2>1, FS_Subset
    <2> QED
      BY <1>1, <1>2, <2>2
  <1>4. /\ c \in Seq(Chunk)
        /\ \A n \in DOMAIN c : c[n].page \in pages /\ c[n].text = out[c[n].page]
    BY <1>3, ChunksAre DEF Said
  <1>5. \A n \in DOMAIN c : c[n].page \in DOMAIN Content[d] /\ c[n].text \in Readings[d][c[n].page]
    BY <1>1, <1>2, <1>4
  <1> QED
    BY <1>3, <1>4, <1>5

LEMMA ShardIsPart ==
    ASSUME NEW d \in Docs, Kind[d] = "pdf", Legible(d),
           NEW a \in Nat, NEW b \in Nat, a > 0, a <= b, b <= Len(Content[d]),
           NEW out \in Outputs(d, a, b), NEW c, c = Chunks(a .. b, out)
    PROVE  /\ Len(c) \in Nat /\ DOMAIN c = 1 .. Len(c)
           /\ Upto(d, b) = Upto(d, a - 1) + Len(c)
           /\ \A n \in 1 .. Len(c) : /\ Upto(d, a - 1) + n \in 1 .. Size(d)
                                     /\ c[n] = Expected[d][Upto(d, a - 1) + n]
  <1> DEFINE P == Printed(d)
             S == Span(P, a, b)
             k == Upto(d, a - 1)
  <1>1. /\ P \in SUBSET Nat /\ IsFiniteSet(P) /\ k \in Nat /\ DOMAIN Content[d] = 1 .. Len(Content[d])
        /\ Cardinality(P) \in Nat /\ Size(d) = Cardinality(P)
    BY ContentIs DEF Size
  <1>2. \A i \in a .. b : i \in DOMAIN Content[d] /\ out[i] = Content[d][i].printed
    <2>1. \A i \in a .. b : i \in DOMAIN Content[d] /\ out[i] \in Readings[d][i]
      BY <1>1 DEF Outputs
    <2> QED
      BY <2>1 DEF Legible
  <1>3. S = Said(a .. b, out)
    BY <1>1, <1>2 DEF Printed, Span, Said
  <1>4. a .. b \in SUBSET Nat /\ IsFiniteSet(a .. b) /\ c \in Seq(Chunk)
    BY OutputsAre
  <1>5. /\ \A p \in S : Place(P, p) = k + Place(S, p)
        /\ Upto(d, b) = k + Cardinality(S)
    <2> HIDE DEF P, S
    <2>0. a - 1 <= b
      OBVIOUS
    <2>1. /\ \A p \in S : Place(P, p) = Place(P, a - 1) + Place(S, p)
          /\ Place(P, b) = Place(P, a - 1) + Cardinality(S)
      BY <1>1, <2>0, PlacesShift DEF S
    <2> QED
      BY <2>1 DEF Upto, Place, P
  <1>6. /\ Len(c) = Cardinality(S) /\ Cardinality(S) \in Nat /\ DOMAIN c = 1 .. Cardinality(S)
        /\ \A n \in DOMAIN c : /\ c[n] \in Chunk
                               /\ c[n].text = out[c[n].page] /\ c[n].page \in S /\ Place(S, c[n].page) = n
    <2>1. \A p \in a .. b : out[p] \in Texts
      <3>1. \A i \in a .. b : i \in DOMAIN Content[d] /\ out[i] \in Readings[d][i]
        BY <1>1 DEF Outputs
      <3> QED
        BY <3>1, IngestionAssumption DEF Readings
    <2> HIDE DEF S
    <2>2. \A n \in DOMAIN c : c[n] \in Chunk
      BY <1>4
    <2> QED
      BY <1>3, <1>4, <2>1, <2>2, ChunksAre
  <1>7. ASSUME NEW n \in 1 .. Cardinality(S)
        PROVE  k + n \in 1 .. Size(d) /\ c[n] = Expected[d][k + n]
    <2> DEFINE p == c[n].page
    <2>0. p \in S /\ Place(S, p) = n /\ c[n].text = out[p]
      BY <1>6
    <2>1. p \in S /\ p \in P /\ p \in a .. b /\ Place(S, p) = n /\ c[n].text = Content[d][p].printed
      BY <1>1, <1>2, <2>0 DEF Span
    <2>2. Place(P, p) = k + n
      BY <1>5, <2>1
    <2> HIDE DEF p, P, S, k
    <2>3. k + n \in 1 .. Cardinality(P) /\ NthPage(P, k + n) = p
      <3>1. Place(P, p) \in 1 .. Cardinality(P) /\ NthPage(P, Place(P, p)) = p
        BY <1>1, <2>1, PlaceInRange, NthUnique
      <3> QED
        BY <2>2, <3>1
    <2>4. c[n] = [page |-> p, text |-> Content[d][p].printed]
      BY <1>6, <2>1 DEF Chunk, p
    <2>5. Expected[d][k + n] = [page |-> NthPage(P, k + n), text |-> Content[d][NthPage(P, k + n)].printed]
      BY <1>1, <2>3, ExpectedIs DEF P
    <2> QED
      BY <1>1, <2>3, <2>4, <2>5
  <1> HIDE DEF S, k, P
  <1> QED
    BY <1>5, <1>6, <1>7 DEF k

-----------------------------------------------------------------------------
(* The invariant.                                                           *)

Stages ==
    {"idle", "load", "text", "store", "shard", "write", "append", "save", "finish", "report", "ack"}
Decided == {"general"} \cup {Domain[d] : d \in Docs}
Entries == [doc : Docs, deliveries : 0 .. MaxDeliveries + 1, acked : BOOLEAN]
Locals ==
    [pc : Stages, entry : Nat, start : Nat, offset : Nat, resumed : BOOLEAN, first : BOOLEAN,
     domain : Decided \cup {"auto"}, shard : Seq(Chunk)]
RowSets == UNION {[I -> Texts] : I \in SUBSET Nat}

Typed ==
    /\ entry \in Seq(Entries)
    /\ run \in [Threads -> Locals]
    /\ checkpoint \in [Docs -> {None} \cup [page : Nat, chunks : Nat]]
    /\ vectors \subseteq [key : Keys, doc : Docs, domain : Decided]
    /\ \A v, w \in vectors : v.key = w.key => v = w
    /\ rows \in [Docs -> RowSets]
    /\ status \in [Docs -> {"NONE", "COMPLETED", "FAILED"}]
    /\ marred \subseteq Docs

(* The locals v of a run are about an entry that was delivered, and the     *)
(* chunks in hand are readings of pages of its document.                    *)
RunIs(v) ==
    v.pc # "idle" =>
        /\ v.entry \in DOMAIN entry /\ entry[v.entry].deliveries > 0
        /\ LET d == entry[v.entry].doc IN
           /\ v.pc \in {"text", "store"} => Kind[d] = "text"
           /\ v.pc \in {"shard", "write", "append", "save", "finish"} => Kind[d] = "pdf" /\ v.start > 0
           /\ v.pc \in {"write", "append", "save"} => v.start <= Len(Content[d])
           /\ v.pc \in {"write", "append"} => \A n \in DOMAIN v.shard :
                v.shard[n].page \in DOMAIN Content[d] /\ v.shard[n].text \in Readings[d][v.shard[n].page]
           /\ v.pc = "write" => v.domain \in Decided

Searchable(d, i) == Found(d, i) \/ Shared(d, i)
Covered(d, n) == \A i \in 1 .. n : i \in DOMAIN rows[d] /\ Searchable(d, i)

(* Rows are never anything but parts of the document at their places.       *)
RowsRight(d) == \A i \in DOMAIN rows[d] : i \in 1 .. Size(d) /\ rows[d][i] = Expected[d][i].text

(* A checkpoint counts the chunks up to its page, and they are stored.      *)
CheckpointRight(d) ==
    checkpoint[d] # None =>
        /\ Kind[d] = "pdf" /\ checkpoint[d].page <= Len(Content[d])
        /\ checkpoint[d].chunks = Upto(d, checkpoint[d].page)
        /\ Covered(d, checkpoint[d].chunks)

DoneRight(d) == Settled(d) => Covered(d, Size(d))

LastOf(v, d) == Min({v.start + ShardPages - 1, Len(Content[d])})

(* What a run of the document has done up to where it is.                   *)
RunRight(v, d) ==
    /\ entry[v.entry].acked => status[d] # "COMPLETED" \/ v.pc = "ack"
    /\ v.pc \in {"shard", "write", "append"} /\ v.first /\ ~v.resumed => v.offset = 0 /\ checkpoint[d] = None
    /\ v.pc \in {"shard", "write", "append"} => v.offset = Upto(d, v.start - 1) /\ Covered(d, v.offset)
    /\ v.pc \in {"write", "append"} =>
        /\ v.offset + Len(v.shard) = Upto(d, LastOf(v, d))
        /\ \A n \in 1 .. Len(v.shard) :
            v.offset + n \in 1 .. Size(d) /\ v.shard[n] = Expected[d][v.offset + n]
    /\ v.pc = "append" => \A n \in 1 .. Len(v.shard) : Searchable(d, v.offset + n)
    /\ v.pc = "save" => v.offset = Upto(d, LastOf(v, d)) /\ Covered(d, v.offset)
    /\ v.pc = "store" => \A i \in 1 .. Size(d) : Searchable(d, i)
    /\ v.pc \in {"finish", "report", "ack"} => Covered(d, Size(d))

Of(t, d) == run[t].pc # "idle" /\ Doc(t) = d

DocRight(d) ==
    /\ RowsRight(d) /\ CheckpointRight(d) /\ DoneRight(d)
    /\ \A t \in Threads : Of(t, d) => RunRight(run[t], d)
    /\ \A t, u \in Threads : Of(t, d) /\ Of(u, d) => t = u

Spoilt == marred \cup {d \in Docs : ~Legible(d)}

IInv ==
    /\ Typed
    /\ \A t \in Threads : RunIs(run[t])
    /\ \A d \in Docs \ Spoilt : DocRight(d)

-----------------------------------------------------------------------------
(* Locals of a run that is under way.                                       *)

LEMMA EntriesAre ==
    ASSUME Typed
    PROVE  /\ \A e \in DOMAIN entry : entry[e] \in Entries
           /\ DOMAIN entry = 1 .. Len(entry) /\ Len(entry) \in Nat
  BY SeqDef, LenProperties DEF Typed

LEMMA RunningIs ==
    ASSUME IInv, NEW t \in Threads, run[t].pc # "idle"
    PROVE  /\ run[t] \in Locals /\ RunIs(run[t]) /\ Doc(t) \in Docs
           /\ run[t].entry \in DOMAIN entry /\ entry[run[t].entry] \in Entries
           /\ entry[run[t].entry].doc = Doc(t)
  <1>1. Typed /\ run[t] \in Locals /\ RunIs(run[t])
    BY DEF IInv, Typed
  <1>2. run[t].entry \in DOMAIN entry
    BY <1>1 DEF RunIs
  <1> QED
    BY <1>1, <1>2, EntriesAre DEF Entries, Doc

LEMMA IdleIs == IdleRun \in Locals /\ IdleRun.pc = "idle" /\ IdleRun.shard = <<>>
  <1>1. <<>> \in Seq(Chunk)
    BY EmptySeq
  <1> QED
    BY <1>1 DEF IdleRun, Locals, Stages

(* What an action does not touch stays right.                               *)
LEMMA Elsewhere ==
    ASSUME NEW d \in Docs, DocRight(d),
           rows'[d] = rows[d], checkpoint'[d] = checkpoint[d], status'[d] = status[d],
           \A i \in 1 .. Size(d) : Searchable(d, i) => Searchable(d, i)',
           Owed(d) => Owed(d)',
           \A t \in Threads : Of(t, d)' =>
               Of(t, d) /\ run'[t] = run[t] /\ entry'[run[t].entry].acked = entry[run[t].entry].acked
    PROVE  DocRight(d)'
  <1>1. RowsRight(d)' /\ RowsRight(d)
    BY DEF DocRight, RowsRight
  <1>2. ASSUME NEW n, Covered(d, n) PROVE Covered(d, n)'
    BY <1>1, <1>2 DEF Covered, RowsRight
  <1>3. CheckpointRight(d)'
    <2> SUFFICES ASSUME checkpoint[d] # None PROVE CheckpointRight(d)'
      BY DEF CheckpointRight
    <2>1. PICK n : n = checkpoint[d].chunks
      OBVIOUS
    <2>2. Covered(d, n)'
      BY <1>2, <2>1 DEF DocRight, CheckpointRight
    <2> QED
      BY <2>1, <2>2 DEF DocRight, CheckpointRight, Covered
  <1>4. DoneRight(d)'
    BY <1>2 DEF DocRight, DoneRight, Settled
  <1>5. ASSUME NEW t \in Threads, Of(t, d)' PROVE RunRight(run[t], d)'
    <2>1. PICK v : v = run[t]
      OBVIOUS
    <2>2. RunRight(v, d) /\ run'[t] = v /\ entry'[v.entry].acked = entry[v.entry].acked
      BY <1>5, <2>1 DEF DocRight
    <2>3. RunRight(v, d)'
      <3>1. Covered(d, v.offset) => Covered(d, v.offset)'
        BY <1>2
      <3>2. Covered(d, Size(d)) => Covered(d, Size(d))'
        BY <1>2
      <3> QED
        BY <2>2, <3>1, <3>2 DEF RunRight
    <2> QED
      BY <2>2, <2>3 DEF RunRight, Covered
  <1>6. \A t, u \in Threads : Of(t, d)' /\ Of(u, d)' => t = u
    BY DEF DocRight
  <1> QED
    BY <1>1, <1>3, <1>4, <1>5, <1>6 DEF DocRight

(* A run moves on; only its own document is touched.                        *)
LEMMA ThreadMoves ==
    ASSUME IInv, NEW t \in Threads, run[t].pc # "idle", NEW d0, d0 = Doc(t),
           NEW v \in Locals, v.pc # "idle", v.entry = run[t].entry, run' = [run EXCEPT ![t] = v],
           UNCHANGED entry, Typed', RunIs(v)', marred \subseteq marred',
           \A d \in Docs \ {d0} : rows'[d] = rows[d] /\ checkpoint'[d] = checkpoint[d] /\ status'[d] = status[d],
           \A d \in Docs : \A i \in 1 .. Size(d) : Searchable(d, i) => Searchable(d, i)',
           d0 \notin Spoilt' => /\ RowsRight(d0)' /\ CheckpointRight(d0)' /\ DoneRight(d0)'
                                /\ RunRight(v, d0)'
    PROVE  IInv'
  <1>1. run'[t] = v /\ \A u \in Threads \ {t} : run'[u] = run[u]
    BY DEF IInv, Typed
  <1>2. \A u \in Threads : RunIs(run[u])'
    <2> SUFFICES ASSUME NEW u \in Threads PROVE RunIs(run[u])'
      OBVIOUS
    <2>1. CASE u = t
      BY <1>1, <2>1 DEF RunIs
    <2>2. CASE u # t
      BY <1>1, <2>2 DEF IInv, RunIs
    <2> QED
      BY <2>1, <2>2
  <1>3. \A u \in Threads : \A d : Of(u, d)' <=> Of(u, d)
    BY <1>1 DEF Of, Doc
  <1>4. ASSUME NEW d \in Docs \ Spoilt', d # d0 PROVE DocRight(d)'
    <2>1. ASSUME NEW u \in Threads, Of(u, d)' PROVE Of(u, d) /\ run'[u] = run[u]
      <3>1. Of(u, d)
        BY <1>3, <2>1
      <3>2. u # t
        BY <1>4, <3>1 DEF Of
      <3> QED
        BY <1>1, <3>1, <3>2
    <2>2. Owed(d) => Owed(d)'
      BY DEF Owed
    <2> QED
      BY <1>4, <2>1, <2>2, Elsewhere DEF IInv, Spoilt
  <1>5. ASSUME d0 \notin Spoilt', d0 \in Docs PROVE DocRight(d0)'
    <2>1. DocRight(d0) /\ Of(t, d0)
      BY <1>5 DEF IInv, Spoilt, Of
    <2>2. \A u \in Threads : Of(u, d0)' => u = t
      BY <1>3, <2>1 DEF DocRight
    <2>3. RunRight(run[t], d0)'
      BY <1>1, <1>5 DEF RunRight
    <2> QED
      BY <1>5, <2>2, <2>3 DEF DocRight
  <1> QED
    BY <1>2, <1>4, <1>5 DEF IInv, Spoilt

(* The same when nothing but the locals of the run changes.                 *)
LEMMA LocalsMove ==
    ASSUME IInv, NEW t \in Threads, run[t].pc # "idle", NEW d0, d0 = Doc(t),
           NEW v \in Locals, v.pc # "idle", v.entry = run[t].entry, run' = [run EXCEPT ![t] = v],
           UNCHANGED <<entry, data, status>>, RunIs(v), marred \subseteq marred', marred' \subseteq Docs,
           d0 \notin Spoilt' => RunRight(v, d0)
    PROVE  IInv'
  <1>1. Typed'
    BY DEF IInv, Typed, data
  <1>2. RunIs(v)' /\ \A d \in Docs : \A i \in 1 .. Size(d) : Searchable(d, i) => Searchable(d, i)'
    BY DEF RunIs, data, Searchable, Found, Shared
  <1>3. ASSUME d0 \notin Spoilt'
        PROVE  RowsRight(d0)' /\ CheckpointRight(d0)' /\ DoneRight(d0)' /\ RunRight(v, d0)'
    <2>1. DocRight(d0) /\ RunRight(v, d0)
      BY <1>3, RunningIs DEF IInv, Spoilt
    <2> QED
      BY <2>1 DEF DocRight, RowsRight, CheckpointRight, DoneRight, RunRight, Covered, Searchable, Found,
         Shared, Settled, Owed, data
  <1> QED
    BY <1>1, <1>2, <1>3, ThreadMoves DEF data

-----------------------------------------------------------------------------
(* Reading.                                                                 *)

LEMMA LastIs ==
    ASSUME NEW d \in Docs, NEW v, v.start \in Nat, v.start > 0, v.start <= Len(Content[d])
    PROVE  LastOf(v, d) \in v.start .. Len(Content[d])
  <1> DEFINE x == v.start + ShardPages - 1
             y == Len(Content[d])
  <1>1. x \in Nat /\ y \in Nat /\ v.start <= x
    BY ContentIs, IngestionAssumption
  <1> HIDE DEF x, y
  <1>2. \E m \in {x, y} : \A z \in {x, y} : m <= z
    BY <1>1
  <1>3. Min({x, y}) \in {x, y} /\ Min({x, y}) <= y
    BY <1>2 DEF Min
  <1> QED
    BY <1>1, <1>3 DEF LastOf, x, y

LEMMA UptoEnds ==
    ASSUME NEW d \in Docs, Kind[d] = "pdf"
    PROVE  /\ Upto(d, 0) = 0
           /\ \A p \in Nat : p >= Len(Content[d]) => Upto(d, p) = Size(d)
  <1>0. \A q \in Printed(d) : q \in Nat /\ q > 0 /\ q <= Len(Content[d])
    <2>1. Len(Content[d]) \in Nat /\ DOMAIN Content[d] = 1 .. Len(Content[d])
      BY ContentIs
    <2>2. \A q \in Printed(d) : q \in 1 .. Len(Content[d])
      BY <2>1 DEF Printed
    <2> QED
      BY <2>1, <2>2
  <1>1. {q \in Printed(d) : q <= 0} = {}
    BY <1>0
  <1>2. ASSUME NEW p \in Nat, p >= Len(Content[d]) PROVE {q \in Printed(d) : q <= p} = Printed(d)
    <2>1. \A q \in Printed(d) : q <= p
      BY <1>0, <1>2, ContentIs
    <2> QED
      BY <2>1
  <1> QED
    BY <1>1, <1>2, FS_EmptySet DEF Upto, Size

LEMMA LoadStep == ASSUME IInv, NEW t \in Threads, Load(t) PROVE IInv'
  <1>1. PICK d : d = Doc(t)
    OBVIOUS
  <1>2. /\ run[t].pc = "load" /\ d \in Docs /\ run[t] \in Locals /\ RunIs(run[t])
        /\ d = entry[run[t].entry].doc /\ UNCHANGED <<entry, data, status, marred>>
    BY <1>1, RunningIs DEF Load
  <1>3. d \notin Spoilt => DocRight(d) /\ RunRight(run[t], d)
    BY <1>1, <1>2 DEF IInv, Spoilt, DocRight, Of
  <1>4. CASE Kind[d] = "text"
    <2>1. PICK v : v = [run[t] EXCEPT !.pc = "text"]
      OBVIOUS
    <2>2. v \in Locals /\ v.pc = "text" /\ v.entry = run[t].entry
      BY <1>2, <2>1 DEF Locals, Stages
    <2>3. run' = [run EXCEPT ![t] = v]
      BY <1>1, <1>4, <2>1 DEF Load, Goto
    <2>4. RunIs(v)
      BY <1>2, <1>4, <2>2 DEF RunIs
    <2>5. d \notin Spoilt => RunRight(v, d)
      BY <1>2, <1>3, <2>2 DEF RunRight
    <2> QED
      BY <1>1, <1>2, <2>2, <2>3, <2>4, <2>5, LocalsMove DEF IInv, Spoilt, Typed
  <1>5. CASE Kind[d] # "text"
    <2>1. Kind[d] = "pdf"
      BY <1>2, <1>5, IngestionAssumption
    <2>2. checkpoint[d] \in {None} \cup [page : Nat, chunks : Nat]
      BY <1>2 DEF IInv, Typed
    <2>3. PICK a, o, b, x :
              /\ a = IF checkpoint[d] = None THEN 1 ELSE ResumeAt(checkpoint[d])
              /\ o = IF checkpoint[d] = None THEN 0 ELSE checkpoint[d].chunks
              /\ b = (checkpoint[d] # None)
              /\ x = IF checkpoint[d] = None THEN "auto" ELSE "general"
      OBVIOUS
    <2>4. /\ a \in Nat /\ a > 0 /\ o \in Nat /\ b \in BOOLEAN /\ x \in Decided \cup {"auto"}
          /\ b <=> checkpoint[d] # None
          /\ checkpoint[d] = None => a = 1 /\ o = 0
          /\ checkpoint[d] # None => a - 1 = checkpoint[d].page /\ o = checkpoint[d].chunks
      <3>1. b \in BOOLEAN /\ (b <=> checkpoint[d] # None)
        BY <2>3, Zenon
      <3>2. ASSUME checkpoint[d] = None PROVE a = 1 /\ o = 0 /\ x = "auto"
        BY <2>3, <3>2
      <3>3. ASSUME checkpoint[d] # None
            PROVE  /\ checkpoint[d].page \in Nat /\ checkpoint[d].chunks \in Nat
                   /\ a = checkpoint[d].page + 1 /\ o = checkpoint[d].chunks /\ x = "general"
        <4>1. checkpoint[d].page \in Nat /\ checkpoint[d].chunks \in Nat
          BY <2>2, <3>3
        <4>2. a = ResumeAt(checkpoint[d]) /\ o = checkpoint[d].chunks /\ x = "general"
          BY <2>3, <3>3, Zenon
        <4> QED
          BY <4>1, <4>2 DEF ResumeAt
      <3>4. /\ a \in Nat /\ a > 0 /\ o \in Nat /\ x \in Decided \cup {"auto"}
            /\ checkpoint[d] # None => a - 1 = checkpoint[d].page
        <4>1. CASE checkpoint[d] = None
          BY <3>2, <4>1
        <4>2. CASE checkpoint[d] # None
          BY <3>3, <4>2 DEF Decided
        <4> QED
          BY <4>1, <4>2
      <3> QED
        BY <3>1, <3>2, <3>3, <3>4
    <2>5. PICK v : v = [run[t] EXCEPT !.pc = "shard", !.start = a, !.offset = o, !.resumed = b, !.domain = x]
      OBVIOUS
    <2>6. run' = [run EXCEPT ![t] = v]
      <3>1. run' = [run EXCEPT ![t].pc = "shard",
                        ![t].start = IF checkpoint[d] = None THEN 1 ELSE ResumeAt(checkpoint[d]),
                        ![t].offset = IF checkpoint[d] = None THEN 0 ELSE checkpoint[d].chunks,
                        ![t].resumed = (checkpoint[d] # None),
                        ![t].domain = IF checkpoint[d] = None THEN "auto" ELSE "general"]
        BY <1>1, <1>5 DEF Load
      <3>2. run' = [run EXCEPT ![t].pc = "shard", ![t].start = a, ![t].offset = o, ![t].resumed = b,
                               ![t].domain = x]
        BY <2>3, <3>1, Zenon
      <3> QED
        BY <2>5, <3>2 DEF IInv, Typed, Locals
    <2>7. /\ v \in Locals /\ v.pc = "shard" /\ v.entry = run[t].entry /\ v.start = a /\ v.offset = o
          /\ v.resumed = b
      BY <1>2, <2>4, <2>5 DEF Locals, Stages
    <2>8. RunIs(v)
      BY <1>2, <2>1, <2>4, <2>7 DEF RunIs
    <2>9. ASSUME d \notin Spoilt PROVE RunRight(v, d)
      <3>1. ~v.resumed => checkpoint[d] = None
        BY <2>4, <2>7, Zenon
      <3>2. v.offset = Upto(d, v.start - 1) /\ Covered(d, v.offset)
        <4>1. CASE checkpoint[d] = None
          BY <1>2, <2>1, <2>4, <2>7, <4>1, UptoEnds DEF Covered
        <4>2. CASE checkpoint[d] # None
          BY <1>3, <2>4, <2>7, <2>9, <4>2 DEF DocRight, CheckpointRight
        <4> QED
          BY <4>1, <4>2
      <3>3. ~v.resumed => v.offset = 0
        BY <2>4, <2>7, <3>1
      <3>4. entry[v.entry].acked => status[d] # "COMPLETED"
        BY <1>2, <1>3, <2>7, <2>9 DEF RunRight
      <3> QED
        BY <2>7, <3>1, <3>2, <3>3, <3>4 DEF RunRight
    <2> QED
      BY <1>1, <1>2, <2>6, <2>7, <2>8, <2>9, LocalsMove DEF IInv, Spoilt, Typed
  <1> QED
    BY <1>4, <1>5

LEMMA ConvertedIs ==
    ASSUME IInv, NEW t \in Threads, run[t].pc = "shard", NEW d, d = Doc(t), run[t].start <= Len(Content[d]),
           NEW out \in Outputs(d, run[t].start, LastPage(t)),
           NEW pages \in SUBSET ThisShard(t), NEW c, c = Chunks(pages, out), Converted(t, c)
    PROVE  \E v \in Locals :
              /\ run' = [run EXCEPT ![t] = v] /\ RunIs(v)
              /\ v.pc = (IF c = <<>> THEN "save" ELSE "write") /\ v.shard = c
              /\ v.entry = run[t].entry /\ v.start = run[t].start /\ v.offset = run[t].offset
              /\ v.first = run[t].first /\ v.resumed = run[t].resumed
  <1>1. /\ d \in Docs /\ Kind[d] = "pdf" /\ d = entry[run[t].entry].doc
        /\ run[t] \in Locals /\ RunIs(run[t]) /\ run[t].start \in Nat /\ run[t].start > 0
    BY RunningIs DEF RunIs, Locals
  <1>2. LastPage(t) = LastOf(run[t], d) /\ LastOf(run[t], d) \in run[t].start .. Len(Content[d])
    BY <1>1, LastIs DEF LastPage, LastOf
  <1>3. c \in Seq(Chunk) /\ \A n \in DOMAIN c : c[n].page \in DOMAIN Content[d] /\ c[n].text \in Readings[d][c[n].page]
    <2>1. PICK a, b : a = run[t].start /\ b = LastPage(t)
      OBVIOUS
    <2>2. a \in Nat /\ b \in Nat /\ a > 0 /\ b <= Len(Content[d]) /\ pages \in SUBSET (a .. b) /\ out \in Outputs(d, a, b)
      BY <1>1, <1>2, <2>1, ContentIs DEF ThisShard
    <2> QED
      BY <1>1, <2>2, OutputsAre
  <1>4. PICK x, y : /\ x = (IF c = <<>> THEN "save" ELSE "write")
                    /\ y = (IF run[t].domain = "auto" /\ c # <<>> THEN Domain[d] ELSE run[t].domain)
    OBVIOUS
  <1>5. x \in Stages /\ y \in Decided \cup {"auto"} /\ (c # <<>> => y \in Decided)
    BY <1>1, <1>4 DEF Stages, Decided, Locals
  <1>6. PICK v : v = [run[t] EXCEPT !.pc = x, !.shard = c, !.domain = y]
    OBVIOUS
  <1>7. /\ v \in Locals /\ v.pc = x /\ v.shard = c /\ v.domain = y
        /\ v.entry = run[t].entry /\ v.start = run[t].start /\ v.offset = run[t].offset
        /\ v.first = run[t].first /\ v.resumed = run[t].resumed
    <2>1. v \in Locals /\ v.pc = x /\ v.shard = c /\ v.domain = y
      BY <1>1, <1>3, <1>5, <1>6 DEF Locals
    <2>2. v.entry = run[t].entry /\ v.start = run[t].start /\ v.offset = run[t].offset
      BY <1>1, <1>6 DEF Locals
    <2>3. v.first = run[t].first /\ v.resumed = run[t].resumed
      BY <1>1, <1>6 DEF Locals
    <2> QED
      BY <2>1, <2>2, <2>3
  <1>8. run' = [run EXCEPT ![t] = v]
    BY <1>1, <1>4, <1>6 DEF Converted, IInv, Typed, Locals
  <1>9. RunIs(v)
    BY <1>1, <1>3, <1>4, <1>5, <1>7 DEF RunIs
  <1> QED
    BY <1>4, <1>7, <1>8, <1>9

LEMMA ConvertStep == ASSUME IInv, NEW t \in Threads, Convert(t) PROVE IInv'
  <1>1. PICK d : d = Doc(t)
    OBVIOUS
  <1>2. /\ run[t].pc = "shard" /\ d \in Docs /\ run[t] \in Locals /\ RunIs(run[t]) /\ Kind[d] = "pdf"
        /\ d = entry[run[t].entry].doc /\ UNCHANGED <<entry, data, status, marred>>
        /\ run[t].start \in Nat /\ run[t].start > 0
    BY <1>1, RunningIs DEF Convert, RunIs, Locals
  <1>3. d \notin Spoilt => DocRight(d) /\ RunRight(run[t], d)
    BY <1>1, <1>2 DEF IInv, Spoilt, DocRight, Of
  <1>4. CASE run[t].start > Len(Content[d])
    <2>1. PICK v : v = [run[t] EXCEPT !.pc = "finish"]
      OBVIOUS
    <2>2. v \in Locals /\ v.pc = "finish" /\ v.entry = run[t].entry /\ v.start = run[t].start
      BY <1>2, <2>1 DEF Locals, Stages
    <2>3. run' = [run EXCEPT ![t] = v]
      BY <1>1, <1>4, <2>1 DEF Convert, Goto
    <2>4. RunIs(v)
      BY <1>2, <2>2 DEF RunIs
    <2>5. ASSUME d \notin Spoilt PROVE RunRight(v, d)
      <3>1. run[t].offset = Upto(d, run[t].start - 1) /\ Covered(d, run[t].offset)
        BY <1>2, <1>3, <2>5 DEF RunRight
      <3>2. run[t].start - 1 \in Nat /\ run[t].start - 1 >= Len(Content[d])
        BY <1>2, <1>4, ContentIs
      <3>3. Covered(d, Size(d))
        BY <1>2, <3>1, <3>2, UptoEnds
      <3> QED
        BY <1>2, <1>3, <2>2, <2>5, <3>3 DEF RunRight
    <2> QED
      BY <1>1, <1>2, <2>2, <2>3, <2>4, <2>5, LocalsMove DEF IInv, Spoilt, Typed
  <1>5. CASE ~(run[t].start > Len(Content[d]))
    <2>1. run[t].start <= Len(Content[d])
      BY <1>2, <1>5, ContentIs
    <2>2. PICK out \in Outputs(d, run[t].start, LastPage(t)) : Converted(t, Chunks(ThisShard(t), out))
      BY <1>1, <1>5 DEF Convert
    <2>3. PICK c : c = Chunks(ThisShard(t), out)
      OBVIOUS
    <2>4. PICK v \in Locals :
              /\ run' = [run EXCEPT ![t] = v] /\ RunIs(v)
              /\ v.pc = (IF c = <<>> THEN "save" ELSE "write") /\ v.shard = c
              /\ v.entry = run[t].entry /\ v.start = run[t].start /\ v.offset = run[t].offset
              /\ v.first = run[t].first /\ v.resumed = run[t].resumed
      <3>1. PICK pages : pages = ThisShard(t)
        OBVIOUS
      <3>2. pages \in SUBSET ThisShard(t) /\ Converted(t, c) /\ c = Chunks(pages, out)
        BY <2>2, <2>3, <3>1
      <3>3. run[t].pc = "shard"
        BY <1>2
      <3> QED
        BY <1>1, <2>1, <3>2, <3>3, ConvertedIs
    <2>5. ASSUME d \notin Spoilt PROVE RunRight(v, d)
      <3>1. LastPage(t) = LastOf(v, d) /\ LastOf(v, d) \in run[t].start .. Len(Content[d])
        BY <1>1, <1>2, <2>1, <2>4, LastIs DEF LastPage, LastOf
      <3>2. PICK a, b : a = run[t].start /\ b = LastPage(t)
        OBVIOUS
      <3>3. /\ a \in Nat /\ b \in Nat /\ a > 0 /\ a <= b /\ b <= Len(Content[d])
            /\ out \in Outputs(d, a, b) /\ c = Chunks(a .. b, out)
        BY <1>2, <2>3, <3>1, <3>2, ContentIs DEF ThisShard
      <3>4. /\ Len(c) \in Nat /\ Upto(d, b) = Upto(d, a - 1) + Len(c)
            /\ \A n \in 1 .. Len(c) : /\ Upto(d, a - 1) + n \in 1 .. Size(d)
                                      /\ c[n] = Expected[d][Upto(d, a - 1) + n]
        BY <1>2, <2>5, <3>3, ShardIsPart DEF Spoilt
      <3>5. /\ v.offset = Upto(d, a - 1) /\ Covered(d, v.offset) /\ Upto(d, LastOf(v, d)) = Upto(d, b)
            /\ entry[v.entry].acked => status[d] # "COMPLETED"
            /\ v.first /\ ~v.resumed => v.offset = 0 /\ checkpoint[d] = None
        BY <1>2, <1>3, <2>4, <2>5, <3>1, <3>2 DEF RunRight
      <3>6. CASE c = <<>>
        <4>1. Len(c) = 0 /\ Upto(d, a - 1) \in Nat /\ v.pc = "save"
          BY <1>2, <2>4, <3>6, ContentIs
        <4>2. v.offset = Upto(d, LastOf(v, d))
          BY <3>4, <3>5, <4>1
        <4> QED
          BY <3>5, <4>1, <4>2 DEF RunRight
      <3>7. CASE c # <<>>
        BY <2>4, <3>2, <3>4, <3>5, <3>7 DEF RunRight
      <3> QED
        BY <3>6, <3>7
    <2>6. v.pc # "idle"
      BY <2>4
    <2> QED
      BY <1>1, <1>2, <2>4, <2>5, <2>6, LocalsMove DEF IInv, Spoilt, Typed
  <1> QED
    BY <1>4, <1>5

LEMMA ConvertBlindStep == ASSUME IInv, NEW t \in Threads, ConvertBlind(t) PROVE IInv'
  <1>1. PICK d : d = Doc(t)
    OBVIOUS
  <1>2. /\ run[t].pc = "shard" /\ d \in Docs /\ UNCHANGED <<entry, data, status>>
        /\ marred' = marred \cup {d} /\ run[t].start <= Len(Content[d])
    BY <1>1, RunningIs DEF ConvertBlind
  <1>3. PICK out \in Outputs(d, run[t].start, LastPage(t)), lost \in LostPages(t) :
            Converted(t, Chunks(ThisShard(t) \ lost, out))
    BY <1>1 DEF ConvertBlind
  <1>4. PICK c, pages : pages = ThisShard(t) \ lost /\ c = Chunks(pages, out)
    OBVIOUS
  <1>5. PICK v \in Locals :
            /\ run' = [run EXCEPT ![t] = v] /\ RunIs(v)
            /\ v.pc = (IF c = <<>> THEN "save" ELSE "write") /\ v.entry = run[t].entry
    <2>1. pages \in SUBSET ThisShard(t) /\ Converted(t, c)
      BY <1>3, <1>4
    <2> QED
      BY <1>1, <1>2, <1>4, <2>1, ConvertedIs
  <1>6. v.pc # "idle" /\ marred \subseteq marred' /\ marred' \subseteq Docs
    BY <1>2, <1>5 DEF IInv, Typed
  <1> QED
    BY <1>1, <1>2, <1>5, <1>6, LocalsMove DEF Spoilt


-----------------------------------------------------------------------------
(* Writing and storing.                                                     *)

LEMMA KeysAre ==
    ASSUME NEW d \in Docs, NEW i \in 1 .. Size(d)
    PROVE  /\ Kind[d] = "text" => Key[d][i] = TextKey(d, i, Content[d][i])
           /\ Kind[d] = "pdf" => Key[d][i] = PdfKey(i, Expected[d][i])
           /\ Kind[d] = "text" => Key[d][i].of = d
           /\ Kind[d] = "pdf" => /\ Key[d][i].of = None /\ Key[d][i].page = Expected[d][i].page
                                 /\ Key[d][i].text = Expected[d][i].text
  <1>1. CASE Kind[d] = "text"
    <2>1. Key[d][i] = TextKey(d, i, Content[d][i])
      BY <1>1, ExpectedIs DEF Key
    <2>2. TextKey(d, i, Content[d][i]).of = d
      BY DEF TextKey
    <2> QED
      BY <1>1, <2>1, <2>2
  <1>2. CASE Kind[d] = "pdf"
    <2>1. Key[d][i] = PdfKey(i, Expected[d][i])
      BY <1>2, ExpectedIs DEF Key
    <2>2. /\ PdfKey(i, Expected[d][i]).of = None /\ PdfKey(i, Expected[d][i]).page = Expected[d][i].page
          /\ PdfKey(i, Expected[d][i]).text = Expected[d][i].text
      BY DEF PdfKey
    <2> QED
      BY <1>2, <2>1, <2>2
  <1> QED
    BY <1>1, <1>2, IngestionAssumption

(* Points of one document are written without taking one of another away,   *)
(* save for those two PDFs read alike.                                      *)
LEMMA WriteKeeps ==
    ASSUME Typed, NEW o \in Docs, NEW points, Write(points),
           \A p \in points : p \in [key : Keys, doc : Docs, domain : Decided] /\ p.doc = o,
           \A p \in points :
              \/ p.key.of = o
              \/ /\ Kind[o] = "pdf" /\ p.key.of = None
                 /\ p.key.page \in DOMAIN Content[o] /\ p.key.text \in Readings[o][p.key.page],
           \A p, q \in points : p.key = q.key => p = q
    PROVE  /\ vectors' \subseteq [key : Keys, doc : Docs, domain : Decided]
           /\ \A v, w \in vectors' : v.key = w.key => v = w
           /\ points \subseteq vectors'
           /\ \A d \in Docs : \A i \in 1 .. Size(d) : Searchable(d, i) => Searchable(d, i)'
  <1>1. /\ vectors' \subseteq [key : Keys, doc : Docs, domain : Decided]
        /\ \A v, w \in vectors' : v.key = w.key => v = w
        /\ points \subseteq vectors'
    BY DEF Typed, Write
  <1>2. ASSUME NEW d \in Docs, NEW i \in 1 .. Size(d), Searchable(d, i) PROVE Searchable(d, i)'
    <2>1. CASE Shared(d, i)
      BY <2>1 DEF Searchable, Shared
    <2>2. CASE Found(d, i)
      <3>1. PICK v \in vectors : v.key = Key[d][i] /\ v.doc = d
        BY <2>2 DEF Found
      <3>2. CASE \A p \in points : p.key # v.key
        <4>1. v \in vectors'
          BY <3>2 DEF Write
        <4> QED
          BY <3>1, <4>1 DEF Searchable, Found
      <3>3. CASE \E p \in points : p.key = v.key
        <4>1. PICK p \in points : p.key = Key[d][i]
          BY <3>1, <3>3
        <4>2. CASE o = d
          BY <1>1, <4>1, <4>2 DEF Searchable, Found
        <4>3. CASE o # d
          <5>1. Kind[d] = "pdf" /\ Kind[o] = "pdf"
            <6>1. Key[d][i].of = d \/ (Kind[d] = "pdf" /\ Key[d][i].of = None)
              BY KeysAre, IngestionAssumption
            <6> QED
              BY <4>1, <4>3, <6>1, IngestionAssumption
          <5>2. Key[d][i].page = Expected[d][i].page /\ Key[d][i].text = Expected[d][i].text
            BY <5>1, KeysAre
          <5>3. Key[d][i].of = None
            BY <5>1, KeysAre
          <5>4. p.key.page \in DOMAIN Content[o] /\ p.key.text \in Readings[o][p.key.page]
            BY <4>1, <5>3, IngestionAssumption
          <5> QED
            BY <4>1, <4>3, <5>1, <5>2, <5>4 DEF Searchable, Shared
        <4> QED
          BY <4>2, <4>3
      <3> QED
        BY <3>2, <3>3
    <2> QED
      BY <1>2, <2>1, <2>2 DEF Searchable
  <1> QED
    BY <1>1, <1>2

LEMMA WriteShardStep == ASSUME IInv, NEW t \in Threads, WriteShard(t) PROVE IInv'
  <1>1. PICK d : d = Doc(t)
    OBVIOUS
  <1>2. /\ run[t].pc = "write" /\ d \in Docs /\ run[t] \in Locals /\ RunIs(run[t])
        /\ d = entry[run[t].entry].doc /\ UNCHANGED <<entry, checkpoint, rows, status, marred, mishaps>>
        /\ run[t].entry \in DOMAIN entry /\ entry[run[t].entry].deliveries > 0
    BY <1>1, RunningIs DEF WriteShard, RunIs
  <1>3. PICK n, shard, x : n = run[t].offset /\ shard = run[t].shard /\ x = run[t].domain
    OBVIOUS
  <1>4. /\ Kind[d] = "pdf" /\ run[t].start > 0 /\ run[t].start <= Len(Content[d])
        /\ n \in Nat /\ shard \in Seq(Chunk) /\ x \in Decided
        /\ \A i \in DOMAIN shard :
              shard[i].page \in DOMAIN Content[d] /\ shard[i].text \in Readings[d][shard[i].page]
    BY <1>2, <1>3 DEF RunIs, Locals
  <1>5. DOMAIN shard = 1 .. Len(shard) /\ Len(shard) \in Nat /\ \A i \in DOMAIN shard : shard[i] \in Chunk
    BY <1>4, LenProperties, SeqDef
  <1>6. PICK points : points = {[key |-> PdfKey(n + i, shard[i]), doc |-> d, domain |-> x] : i \in DOMAIN shard}
    OBVIOUS
  <1>7. Write(points)
    BY <1>1, <1>3, <1>6 DEF WriteShard
  <1>8. ASSUME NEW p \in points
        PROVE  \E i \in DOMAIN shard :
                  /\ p.key = PdfKey(n + i, shard[i]) /\ p.doc = d /\ p \in [key : Keys, doc : Docs, domain : Decided]
                  /\ p.key.index = n + i /\ p.key.of = None
                  /\ p.key.page = shard[i].page /\ p.key.text = shard[i].text
                  /\ p = [key |-> PdfKey(n + i, shard[i]), doc |-> d, domain |-> x]
    <2>1. PICK i \in DOMAIN shard : p = [key |-> PdfKey(n + i, shard[i]), doc |-> d, domain |-> x]
      BY <1>6
    <2>2. n + i \in Nat /\ shard[i] \in Chunk
      BY <1>4, <1>5
    <2>3. PdfKey(n + i, shard[i]) \in Keys
      BY <2>2 DEF PdfKey, Keys, Chunk
    <2>4. PICK k : k = PdfKey(n + i, shard[i])
      OBVIOUS
    <2>5. k.index = n + i /\ k.of = None /\ k.page = shard[i].page /\ k.text = shard[i].text
      BY <2>4 DEF PdfKey
    <2>6. p = [key |-> k, doc |-> d, domain |-> x] /\ k \in Keys
      BY <2>1, <2>3, <2>4
    <2>7. p.key = k /\ p.doc = d /\ p \in [key : Keys, doc : Docs, domain : Decided]
      BY <1>2, <1>4, <2>6
    <2> QED
      BY <2>1, <2>4, <2>5, <2>7
  <1>9. ASSUME NEW p \in points, NEW q \in points, p.key = q.key PROVE p = q
    <2>1. PICK i \in DOMAIN shard : p = [key |-> PdfKey(n + i, shard[i]), doc |-> d, domain |-> x] /\ p.key.index = n + i
      BY <1>8
    <2>2. PICK j \in DOMAIN shard : q = [key |-> PdfKey(n + j, shard[j]), doc |-> d, domain |-> x] /\ q.key.index = n + j
      BY <1>8
    <2>3. i = j
      BY <1>4, <1>5, <1>9, <2>1, <2>2
    <2> QED
      BY <2>1, <2>2, <2>3
  <1>10. /\ \A p \in points : p \in [key : Keys, doc : Docs, domain : Decided] /\ p.doc = d
         /\ \A p \in points : /\ Kind[d] = "pdf" /\ p.key.of = None
                              /\ p.key.page \in DOMAIN Content[d] /\ p.key.text \in Readings[d][p.key.page]
    BY <1>4, <1>8
  <1>11. Typed
    BY DEF IInv
  <1>12. /\ vectors' \subseteq [key : Keys, doc : Docs, domain : Decided]
         /\ \A v, w \in vectors' : v.key = w.key => v = w
         /\ points \subseteq vectors'
         /\ \A c \in Docs : \A i \in 1 .. Size(c) : Searchable(c, i) => Searchable(c, i)'
    BY <1>2, <1>7, <1>9, <1>10, <1>11, WriteKeeps
  <1>13. PICK v : v = [run[t] EXCEPT !.pc = "append"]
    OBVIOUS
  <1>14. /\ v \in Locals /\ v.pc = "append" /\ v.entry = run[t].entry /\ v.start = run[t].start /\ v.offset = n
         /\ v.first = run[t].first /\ v.resumed = run[t].resumed /\ v.shard = shard
    BY <1>2, <1>3, <1>13 DEF Locals, Stages
  <1>15. run' = [run EXCEPT ![t] = v]
    BY <1>13 DEF WriteShard, Goto
  <1>16. Typed'
    BY <1>2, <1>11, <1>12, <1>14, <1>15 DEF Typed
  <1>17. RunIs(v)'
    BY <1>2, <1>4, <1>14 DEF RunIs
  <1>18. ASSUME d \notin Spoilt'
         PROVE  RowsRight(d)' /\ CheckpointRight(d)' /\ DoneRight(d)' /\ RunRight(v, d)'
    <2>1. DocRight(d) /\ RunRight(run[t], d)
      BY <1>1, <1>2, <1>18 DEF IInv, Spoilt, DocRight, Of
    <2>2. RowsRight(d)
      BY <2>1 DEF DocRight
    <2>3. RowsRight(d)'
      BY <1>2, <2>2 DEF RowsRight
    <2>4. ASSUME NEW m, Covered(d, m) PROVE Covered(d, m)'
      BY <1>2, <1>12, <2>2, <2>4 DEF Covered, RowsRight
    <2>5. CheckpointRight(d)'
      <3>1. PICK m : m = checkpoint[d].chunks
        OBVIOUS
      <3>2. checkpoint[d] # None => Covered(d, m)'
        BY <2>1, <2>4, <3>1 DEF DocRight, CheckpointRight
      <3> QED
        BY <1>2, <2>1, <3>1, <3>2 DEF DocRight, CheckpointRight, Covered
    <2>6. DoneRight(d)'
      BY <1>2, <2>1, <2>4 DEF DocRight, DoneRight, Settled, Owed
    <2>7. /\ n + Len(shard) = Upto(d, LastOf(v, d))
          /\ \A i \in 1 .. Len(shard) : n + i \in 1 .. Size(d) /\ shard[i] = Expected[d][n + i]
          /\ n = Upto(d, v.start - 1) /\ Covered(d, n)
          /\ v.first /\ ~v.resumed => n = 0 /\ checkpoint[d] = None
          /\ entry[v.entry].acked => status[d] # "COMPLETED"
      BY <1>2, <1>3, <1>14, <2>1 DEF RunRight, LastOf
    <2>8. ASSUME NEW i \in 1 .. Len(shard) PROVE Searchable(d, n + i)'
      <3>1. PICK p : p = [key |-> PdfKey(n + i, shard[i]), doc |-> d, domain |-> x]
        OBVIOUS
      <3>2. p \in points
        BY <1>5, <1>6, <3>1
      <3>3. p \in vectors' /\ p.doc = d /\ p.key = PdfKey(n + i, shard[i])
        BY <1>12, <3>1, <3>2
      <3>4. Key[d][n + i] = PdfKey(n + i, Expected[d][n + i])
        BY <1>2, <1>4, <2>7, KeysAre
      <3> QED
        BY <2>7, <3>3, <3>4 DEF Searchable, Found
    <2>9. Covered(d, n)'
      BY <2>4, <2>7
    <2>10. RunRight(v, d)'
      BY <1>2, <1>14, <2>7, <2>8, <2>9 DEF RunRight
    <2> QED
      BY <2>3, <2>5, <2>6, <2>10
  <1>19. /\ v.pc # "idle" /\ marred \subseteq marred'
         /\ \A c \in Docs \ {d} : rows'[c] = rows[c] /\ checkpoint'[c] = checkpoint[c] /\ status'[c] = status[c]
    BY <1>2, <1>14
  <1> QED
    BY <1>1, <1>2, <1>12, <1>14, <1>15, <1>16, <1>17, <1>18, <1>19, ThreadMoves

LEMMA AppendRowsStep == ASSUME IInv, NEW t \in Threads, AppendRows(t) PROVE IInv'
  <1>1. PICK d : d = Doc(t)
    OBVIOUS
  <1>2. /\ run[t].pc = "append" /\ d \in Docs /\ run[t] \in Locals /\ RunIs(run[t])
        /\ d = entry[run[t].entry].doc /\ UNCHANGED <<entry, checkpoint, vectors, status, marred, mishaps>>
        /\ run[t].entry \in DOMAIN entry /\ entry[run[t].entry].deliveries > 0
    BY <1>1, RunningIs DEF AppendRows, RunIs
  <1>3. PICK n, shard : n = run[t].offset /\ shard = run[t].shard
    OBVIOUS
  <1>4. /\ Kind[d] = "pdf" /\ run[t].start \in Nat /\ run[t].start > 0 /\ run[t].start <= Len(Content[d])
        /\ n \in Nat /\ shard \in Seq(Chunk)
    BY <1>2, <1>3 DEF RunIs, Locals
  <1>5. DOMAIN shard = 1 .. Len(shard) /\ Len(shard) \in Nat /\ \A i \in DOMAIN shard : shard[i] \in Chunk
    BY <1>4, LenProperties, SeqDef
  <1>6. PICK clear : clear = Clears(t)
    OBVIOUS
  <1>7. clear \in BOOLEAN /\ (clear <=> run[t].first /\ ~run[t].resumed)
    BY <1>2, <1>6, Zenon DEF Clears, Locals
  <1>8. PICK new : new = Appended(rows[d], n, shard, clear)
    OBVIOUS
  <1>9. rows' = [rows EXCEPT ![d] = new]
    BY <1>1, <1>3, <1>6, <1>8 DEF AppendRows
  <1>10. /\ DOMAIN new = (n + 1 .. n + Len(shard)) \cup (IF clear THEN {} ELSE DOMAIN rows[d])
         /\ \A i \in n + 1 .. n + Len(shard) : new[i] = shard[i - n].text
         /\ \A i \in DOMAIN new \ (n + 1 .. n + Len(shard)) : ~clear /\ i \in DOMAIN rows[d] /\ new[i] = rows[d][i]
         /\ new = [i \in DOMAIN new |-> new[i]]
    BY <1>4, <1>8 DEF Appended
  <1>11. Typed /\ rows[d] \in RowSets
    BY <1>2 DEF IInv, Typed
  <1>12. PICK I \in SUBSET Nat : rows[d] \in [I -> Texts]
    BY <1>11 DEF RowSets
  <1>13. \A i \in n + 1 .. n + Len(shard) : i \in Nat /\ i - n \in 1 .. Len(shard) /\ i = n + (i - n)
    BY <1>4, <1>5
  <1>14. \A i \in DOMAIN new : i \in Nat /\ new[i] \in Texts
    <2>1. \A j \in 1 .. Len(shard) : shard[j].text \in Texts
      BY <1>5 DEF Chunk
    <2>2. \A i \in n + 1 .. n + Len(shard) : i \in Nat /\ new[i] \in Texts
      BY <1>10, <1>13, <2>1
    <2>3. \A i \in DOMAIN new \ (n + 1 .. n + Len(shard)) : i \in Nat /\ new[i] \in Texts
      BY <1>10, <1>12
    <2> QED
      BY <2>2, <2>3
  <1>15. new \in RowSets
    <2>1. PICK J : J = DOMAIN new
      OBVIOUS
    <2>2. J \in SUBSET Nat /\ new \in [J -> Texts]
      BY <1>10, <1>14, <2>1
    <2> QED
      BY <2>2 DEF RowSets
  <1>16. PICK m : m = n + Len(shard)
    OBVIOUS
  <1>17. PICK v : v = [run[t] EXCEPT !.pc = "save", !.offset = m, !.shard = <<>>]
    OBVIOUS
  <1>18. /\ v \in Locals /\ v.pc = "save" /\ v.entry = run[t].entry /\ v.start = run[t].start /\ v.offset = m
    <2>1. m \in Nat /\ <<>> \in Seq(Chunk)
      BY <1>4, <1>5, <1>16, EmptySeq
    <2> QED
      BY <1>2, <1>17, <2>1 DEF Locals, Stages
  <1>19. run' = [run EXCEPT ![t] = v]
    <2>1. run' = [run EXCEPT ![t].pc = "save", ![t].offset = m, ![t].shard = <<>>]
      BY <1>3, <1>16 DEF AppendRows
    <2> QED
      BY <1>17, <2>1, <1>11 DEF Typed, Locals
  <1>20. Typed'
    BY <1>2, <1>9, <1>11, <1>15, <1>18, <1>19 DEF Typed
  <1>21. RunIs(v)'
    BY <1>2, <1>4, <1>18 DEF RunIs
  <1>22. \A c \in Docs : \A i : Searchable(c, i)' <=> Searchable(c, i)
    BY <1>2 DEF Searchable, Found, Shared
  <1>23. rows'[d] = new /\ \A c \in Docs \ {d} : rows'[c] = rows[c]
    BY <1>2, <1>9, <1>11 DEF Typed
  <1>24. ASSUME d \notin Spoilt'
         PROVE  RowsRight(d)' /\ CheckpointRight(d)' /\ DoneRight(d)' /\ RunRight(v, d)'
    <2>1. DocRight(d) /\ RunRight(run[t], d)
      BY <1>1, <1>2, <1>24 DEF IInv, Spoilt, DocRight, Of
    <2>2. /\ m = Upto(d, LastOf(v, d))
          /\ \A i \in 1 .. Len(shard) : n + i \in 1 .. Size(d) /\ shard[i] = Expected[d][n + i]
          /\ \A i \in 1 .. Len(shard) : Searchable(d, n + i)
          /\ Covered(d, n)
          /\ run[t].first /\ ~run[t].resumed => n = 0 /\ checkpoint[d] = None
          /\ entry[v.entry].acked => status[d] # "COMPLETED"
      BY <1>2, <1>3, <1>16, <1>18, <2>1 DEF RunRight, LastOf
    <2>3. clear => n = 0 /\ checkpoint[d] = None
      BY <1>7, <2>2, Zenon
    <2>4. RowsRight(d)'
      <3>1. \A i \in n + 1 .. n + Len(shard) : i \in 1 .. Size(d) /\ new[i] = Expected[d][i].text
        <4> SUFFICES ASSUME NEW i \in n + 1 .. n + Len(shard)
                     PROVE  i \in 1 .. Size(d) /\ new[i] = Expected[d][i].text
          OBVIOUS
        <4>1. PICK j \in 1 .. Len(shard) : j = i - n /\ i = n + j
          BY <1>13
        <4>2. new[i] = shard[j].text
          BY <1>10, <4>1
        <4> QED
          BY <2>2, <4>1, <4>2
      <3>2. \A i \in DOMAIN new \ (n + 1 .. n + Len(shard)) : i \in 1 .. Size(d) /\ new[i] = Expected[d][i].text
        BY <1>10, <2>1 DEF DocRight, RowsRight
      <3> QED
        BY <1>23, <3>1, <3>2 DEF RowsRight
    <2>5. ASSUME NEW k, ~clear, Covered(d, k) PROVE Covered(d, k)'
      BY <1>10, <1>22, <1>23, <1>2, <2>5 DEF Covered
    <2>6. CheckpointRight(d)'
      <3>1. PICK k : k = checkpoint[d].chunks
        OBVIOUS
      <3>2. checkpoint[d] # None => Covered(d, k)'
        BY <2>1, <2>3, <2>5, <3>1 DEF DocRight, CheckpointRight
      <3> QED
        BY <1>2, <2>1, <3>1, <3>2 DEF DocRight, CheckpointRight, Covered
    <2>7. DoneRight(d)'
      <3>1. entry[run[t].entry].acked => status[d] # "COMPLETED"
        BY <1>18, <2>2
      <3> QED
        BY <1>2, <3>1 DEF DoneRight, Settled, Owed
    <2>8. Covered(d, m)'
      <3> SUFFICES ASSUME NEW i \in 1 .. m PROVE i \in DOMAIN new /\ Searchable(d, i)
        BY <1>2, <1>22, <1>23 DEF Covered
      <3>1. CASE i \in 1 .. n
        <4>1. ~clear
          BY <1>4, <2>3, <3>1
        <4> QED
          BY <1>10, <2>2, <3>1, <4>1 DEF Covered
      <3>2. CASE i \notin 1 .. n
        <4>1. i \in n + 1 .. n + Len(shard)
          BY <1>4, <1>5, <1>16, <3>2
        <4>2. PICK j \in 1 .. Len(shard) : i = n + j
          BY <1>13, <4>1
        <4> QED
          BY <1>10, <2>2, <4>1, <4>2
      <3> QED
        BY <3>1, <3>2
    <2>9. RunRight(v, d)'
      BY <1>2, <1>18, <2>2, <2>8 DEF RunRight
    <2> QED
      BY <2>4, <2>6, <2>7, <2>9
  <1>25. /\ v.pc # "idle" /\ marred \subseteq marred'
         /\ \A c \in Docs \ {d} : rows'[c] = rows[c] /\ checkpoint'[c] = checkpoint[c] /\ status'[c] = status[c]
         /\ \A c \in Docs : \A i \in 1 .. Size(c) : Searchable(c, i) => Searchable(c, i)'
    BY <1>2, <1>18, <1>22, <1>23
  <1> QED
    BY <1>1, <1>2, <1>18, <1>19, <1>20, <1>21, <1>24, <1>25, ThreadMoves


(* What a step that keeps the stores leaves of a document.                  *)
LEMMA StoresStay ==
    ASSUME NEW d \in Docs, RowsRight(d), CheckpointRight(d), DoneRight(d),
           rows'[d] = rows[d], vectors' = vectors, checkpoint'[d] = checkpoint[d], status'[d] = status[d],
           Owed(d) => Owed(d)'
    PROVE  /\ RowsRight(d)' /\ CheckpointRight(d)' /\ DoneRight(d)'
           /\ \A n : Covered(d, n) => Covered(d, n)'
  <1>1. \A i : Searchable(d, i)' <=> Searchable(d, i)
    BY DEF Searchable, Found, Shared
  <1>2. \A n : Covered(d, n) => Covered(d, n)'
    BY <1>1 DEF Covered
  <1>3. RowsRight(d)'
    BY DEF RowsRight
  <1>4. CheckpointRight(d)'
    <2>1. PICK n : n = checkpoint[d].chunks
      OBVIOUS
    <2>2. Covered(d, n) => Covered(d, n)'
      BY <1>2
    <2> QED
      BY <2>1, <2>2 DEF CheckpointRight, Covered
  <1>5. DoneRight(d)'
    BY <1>2 DEF DoneRight, Settled
  <1> QED
    BY <1>2, <1>3, <1>4, <1>5

LEMMA SaveCheckpointStep == ASSUME IInv, NEW t \in Threads, SaveCheckpoint(t) PROVE IInv'
  <1>1. PICK d : d = Doc(t)
    OBVIOUS
  <1>2. /\ run[t].pc = "save" /\ d \in Docs /\ run[t] \in Locals /\ RunIs(run[t])
        /\ d = entry[run[t].entry].doc /\ UNCHANGED <<entry, vectors, rows, status, marred, mishaps>>
        /\ run[t].entry \in DOMAIN entry /\ entry[run[t].entry].deliveries > 0
    BY <1>1, RunningIs DEF SaveCheckpoint, RunIs
  <1>3. /\ Kind[d] = "pdf" /\ run[t].start \in Nat /\ run[t].start > 0 /\ run[t].start <= Len(Content[d])
        /\ run[t].offset \in Nat
    BY <1>2 DEF RunIs, Locals
  <1>4. PICK b : b = LastPage(t)
    OBVIOUS
  <1>5. b = LastOf(run[t], d) /\ b \in Nat /\ b <= Len(Content[d]) /\ b + 1 \in Nat /\ b + 1 > 0
    <2>1. LastPage(t) = LastOf(run[t], d) /\ LastOf(run[t], d) \in run[t].start .. Len(Content[d])
      BY <1>1, <1>2, <1>3, LastIs DEF LastPage, LastOf
    <2> QED
      BY <1>2, <1>3, <1>4, <2>1, ContentIs
  <1>6. PICK cp : cp = [page |-> b, chunks |-> run[t].offset]
    OBVIOUS
  <1>7. /\ cp \in [page : Nat, chunks : Nat] /\ cp.page = b /\ cp.chunks = run[t].offset
    BY <1>3, <1>5, <1>6
  <1>8. checkpoint' = [checkpoint EXCEPT ![d] = cp]
    BY <1>1, <1>4, <1>6 DEF SaveCheckpoint
  <1>9. Typed
    BY DEF IInv
  <1>10. checkpoint'[d] = cp /\ \A c \in Docs \ {d} : checkpoint'[c] = checkpoint[c]
    BY <1>2, <1>8, <1>9 DEF Typed
  <1>11. PICK k : k = b + 1
    OBVIOUS
  <1>12. PICK v : v = [run[t] EXCEPT !.pc = "shard", !.first = FALSE, !.start = k]
    OBVIOUS
  <1>13. /\ v \in Locals /\ v.pc = "shard" /\ v.entry = run[t].entry /\ v.start = k
         /\ v.offset = run[t].offset /\ v.first = FALSE
    BY <1>2, <1>5, <1>11, <1>12 DEF Locals, Stages
  <1>14. run' = [run EXCEPT ![t] = v]
    <2>1. run' = [run EXCEPT ![t].pc = "shard", ![t].first = FALSE, ![t].start = k]
      BY <1>4, <1>11 DEF SaveCheckpoint
    <2> QED
      BY <1>9, <1>12, <2>1 DEF Typed, Locals
  <1>15. Typed'
    BY <1>2, <1>7, <1>8, <1>9, <1>13, <1>14 DEF Typed
  <1>16. RunIs(v)'
    BY <1>2, <1>3, <1>5, <1>11, <1>13 DEF RunIs
  <1>17. \A c \in Docs : \A i : Searchable(c, i)' <=> Searchable(c, i)
    BY <1>2 DEF Searchable, Found, Shared
  <1>18. ASSUME d \notin Spoilt'
         PROVE  RowsRight(d)' /\ CheckpointRight(d)' /\ DoneRight(d)' /\ RunRight(v, d)'
    <2>1. DocRight(d) /\ RunRight(run[t], d)
      BY <1>1, <1>2, <1>18 DEF IInv, Spoilt, DocRight, Of
    <2>2. /\ run[t].offset = Upto(d, b) /\ Covered(d, run[t].offset)
          /\ entry[v.entry].acked => status[d] # "COMPLETED"
      BY <1>2, <1>5, <1>13, <2>1 DEF RunRight
    <2>3. \A n : Covered(d, n) => Covered(d, n)'
      BY <1>2, <1>17 DEF Covered
    <2>4. RowsRight(d)' /\ DoneRight(d)'
      BY <1>2, <2>1, <2>3 DEF DocRight, RowsRight, DoneRight, Settled, Owed
    <2>5. PICK o : o = run[t].offset
      OBVIOUS
    <2>6. Covered(d, o)'
      BY <2>2, <2>3, <2>5
    <2>7. CheckpointRight(d)'
      BY <1>3, <1>5, <1>7, <1>10, <2>2, <2>5, <2>6 DEF CheckpointRight, Covered
    <2>8. RunRight(v, d)'
      <3>1. v.start - 1 = b
        BY <1>5, <1>11, <1>13
      <3> QED
        BY <1>2, <1>13, <2>2, <2>5, <2>6, <3>1 DEF RunRight
    <2> QED
      BY <2>4, <2>7, <2>8
  <1>19. /\ v.pc # "idle" /\ marred \subseteq marred'
         /\ \A c \in Docs \ {d} : rows'[c] = rows[c] /\ checkpoint'[c] = checkpoint[c] /\ status'[c] = status[c]
         /\ \A c \in Docs : \A i \in 1 .. Size(c) : Searchable(c, i) => Searchable(c, i)'
    BY <1>2, <1>10, <1>13, <1>17
  <1> QED
    BY <1>1, <1>2, <1>13, <1>14, <1>15, <1>16, <1>18, <1>19, ThreadMoves

LEMMA DeleteCheckpointStep == ASSUME IInv, NEW t \in Threads, DeleteCheckpoint(t) PROVE IInv'
  <1>1. PICK d : d = Doc(t)
    OBVIOUS
  <1>2. /\ run[t].pc = "finish" /\ d \in Docs /\ run[t] \in Locals /\ RunIs(run[t])
        /\ d = entry[run[t].entry].doc /\ UNCHANGED <<entry, vectors, rows, status, marred, mishaps>>
        /\ run[t].entry \in DOMAIN entry /\ entry[run[t].entry].deliveries > 0
        /\ checkpoint' = [checkpoint EXCEPT ![d] = None]
    BY <1>1, RunningIs DEF DeleteCheckpoint, RunIs
  <1>3. Typed
    BY DEF IInv
  <1>4. checkpoint'[d] = None /\ \A c \in Docs \ {d} : checkpoint'[c] = checkpoint[c]
    BY <1>2, <1>3 DEF Typed
  <1>5. PICK v : v = [run[t] EXCEPT !.pc = "report"]
    OBVIOUS
  <1>6. v \in Locals /\ v.pc = "report" /\ v.entry = run[t].entry
    BY <1>2, <1>5 DEF Locals, Stages
  <1>7. run' = [run EXCEPT ![t] = v]
    BY <1>5 DEF DeleteCheckpoint, Goto
  <1>8. Typed'
    BY <1>2, <1>3, <1>6, <1>7 DEF Typed
  <1>9. RunIs(v)'
    BY <1>2, <1>6 DEF RunIs
  <1>10. \A c \in Docs : \A i : Searchable(c, i)' <=> Searchable(c, i)
    BY <1>2 DEF Searchable, Found, Shared
  <1>11. ASSUME d \notin Spoilt'
         PROVE  RowsRight(d)' /\ CheckpointRight(d)' /\ DoneRight(d)' /\ RunRight(v, d)'
    <2>1. DocRight(d) /\ RunRight(run[t], d)
      BY <1>1, <1>2, <1>11 DEF IInv, Spoilt, DocRight, Of
    <2>2. Covered(d, Size(d)) /\ (entry[v.entry].acked => status[d] # "COMPLETED")
      BY <1>2, <1>6, <2>1 DEF RunRight
    <2>3. \A n : Covered(d, n) => Covered(d, n)'
      BY <1>2, <1>10 DEF Covered
    <2>4. RowsRight(d)' /\ DoneRight(d)'
      BY <1>2, <2>1, <2>3 DEF DocRight, RowsRight, DoneRight, Settled, Owed
    <2>5. CheckpointRight(d)'
      BY <1>4 DEF CheckpointRight
    <2>6. RunRight(v, d)'
      BY <1>2, <1>6, <2>2, <2>3 DEF RunRight
    <2> QED
      BY <2>4, <2>5, <2>6
  <1>12. /\ v.pc # "idle" /\ marred \subseteq marred'
         /\ \A c \in Docs \ {d} : rows'[c] = rows[c] /\ checkpoint'[c] = checkpoint[c] /\ status'[c] = status[c]
         /\ \A c \in Docs : \A i \in 1 .. Size(c) : Searchable(c, i) => Searchable(c, i)'
    BY <1>2, <1>4, <1>6, <1>10
  <1> QED
    BY <1>1, <1>2, <1>6, <1>7, <1>8, <1>9, <1>11, <1>12, ThreadMoves

LEMMA WriteTextStep == ASSUME IInv, NEW t \in Threads, WriteText(t) PROVE IInv'
  <1>1. PICK d : d = Doc(t)
    OBVIOUS
  <1>2. /\ run[t].pc = "text" /\ d \in Docs /\ run[t] \in Locals /\ RunIs(run[t])
        /\ d = entry[run[t].entry].doc /\ UNCHANGED <<entry, checkpoint, rows, status, marred, mishaps>>
        /\ run[t].entry \in DOMAIN entry /\ entry[run[t].entry].deliveries > 0
    BY <1>1, RunningIs DEF WriteText, RunIs
  <1>3. Kind[d] = "text"
    BY <1>2 DEF RunIs
  <1>4. PICK points, I :
            /\ I = DOMAIN Content[d]
            /\ points = {[key |-> TextKey(d, i, Content[d][i]), doc |-> d, domain |-> Domain[d]] : i \in I}
    OBVIOUS
  <1>5. Write(points)
    BY <1>1, <1>4 DEF WriteText
  <1>6. I = 1 .. Size(d) /\ Size(d) \in Nat /\ \A i \in I : i \in Nat /\ Content[d][i] \in Texts
    <2>1. I = 1 .. Len(Content[d]) /\ Size(d) = Len(Content[d]) /\ Size(d) \in Nat
      BY <1>2, <1>3, <1>4, ContentIs DEF Size
    <2>2. Content[d] \in Seq(Range(Content[d])) /\ Range(Content[d]) \subseteq Texts
      BY <1>2, <1>3, IngestionAssumption
    <2>3. \A i \in 1 .. Len(Content[d]) : Content[d][i] \in Range(Content[d])
      BY <2>2, ElementOfSeq
    <2> QED
      BY <2>1, <2>2, <2>3
  <1>7. ASSUME NEW p \in points
        PROVE  \E i \in I :
                  /\ p.doc = d /\ p \in [key : Keys, doc : Docs, domain : Decided]
                  /\ p.key.index = i /\ p.key.of = d /\ p.key = TextKey(d, i, Content[d][i])
                  /\ p = [key |-> TextKey(d, i, Content[d][i]), doc |-> d, domain |-> Domain[d]]
    <2>1. PICK i \in I : p = [key |-> TextKey(d, i, Content[d][i]), doc |-> d, domain |-> Domain[d]]
      BY <1>4
    <2>2. PICK k : k = TextKey(d, i, Content[d][i])
      OBVIOUS
    <2>3. k.index = i /\ k.of = d /\ k \in Keys
      BY <1>2, <1>6, <2>2 DEF TextKey, Keys
    <2>4. p = [key |-> k, doc |-> d, domain |-> Domain[d]] /\ Domain[d] \in Decided
      BY <1>2, <2>1, <2>2 DEF Decided
    <2>5. p.key = k /\ p.doc = d /\ p \in [key : Keys, doc : Docs, domain : Decided]
      BY <1>2, <2>3, <2>4
    <2> QED
      BY <2>1, <2>2, <2>3, <2>5
  <1>8. ASSUME NEW p \in points, NEW q \in points, p.key = q.key PROVE p = q
    <2>1. PICK i \in I : p = [key |-> TextKey(d, i, Content[d][i]), doc |-> d, domain |-> Domain[d]] /\ p.key.index = i
      BY <1>7
    <2>2. PICK j \in I : q = [key |-> TextKey(d, j, Content[d][j]), doc |-> d, domain |-> Domain[d]] /\ q.key.index = j
      BY <1>7
    <2>3. i = j
      BY <1>8, <2>1, <2>2
    <2> QED
      BY <2>1, <2>2, <2>3
  <1>9. /\ \A p \in points : p \in [key : Keys, doc : Docs, domain : Decided] /\ p.doc = d
        /\ \A p \in points : p.key.of = d
    BY <1>7
  <1>10. Typed
    BY DEF IInv
  <1>11. /\ vectors' \subseteq [key : Keys, doc : Docs, domain : Decided]
         /\ \A v, w \in vectors' : v.key = w.key => v = w
         /\ points \subseteq vectors'
         /\ \A c \in Docs : \A i \in 1 .. Size(c) : Searchable(c, i) => Searchable(c, i)'
    BY <1>2, <1>5, <1>8, <1>9, <1>10, WriteKeeps
  <1>12. PICK v : v = [run[t] EXCEPT !.pc = "store"]
    OBVIOUS
  <1>13. v \in Locals /\ v.pc = "store" /\ v.entry = run[t].entry
    BY <1>2, <1>12 DEF Locals, Stages
  <1>14. run' = [run EXCEPT ![t] = v]
    BY <1>12 DEF WriteText, Goto
  <1>15. Typed'
    BY <1>2, <1>10, <1>11, <1>13, <1>14 DEF Typed
  <1>16. RunIs(v)'
    BY <1>2, <1>3, <1>13 DEF RunIs
  <1>17. ASSUME d \notin Spoilt'
         PROVE  RowsRight(d)' /\ CheckpointRight(d)' /\ DoneRight(d)' /\ RunRight(v, d)'
    <2>1. DocRight(d) /\ RunRight(run[t], d)
      BY <1>1, <1>2, <1>17 DEF IInv, Spoilt, DocRight, Of
    <2>2. RowsRight(d)
      BY <2>1 DEF DocRight
    <2>3. RowsRight(d)'
      BY <1>2, <2>2 DEF RowsRight
    <2>4. ASSUME NEW m, Covered(d, m) PROVE Covered(d, m)'
      BY <1>2, <1>11, <2>2, <2>4 DEF Covered, RowsRight
    <2>5. CheckpointRight(d)'
      <3>1. checkpoint[d] = None
        BY <1>3, <2>1 DEF DocRight, CheckpointRight
      <3> QED
        BY <1>2, <3>1 DEF CheckpointRight
    <2>6. DoneRight(d)'
      BY <1>2, <2>1, <2>4 DEF DocRight, DoneRight, Settled, Owed
    <2>7. entry[v.entry].acked => status[d] # "COMPLETED"
      BY <1>2, <1>13, <2>1 DEF RunRight
    <2>8. ASSUME NEW i \in 1 .. Size(d) PROVE Searchable(d, i)'
      <3>1. PICK p : p = [key |-> TextKey(d, i, Content[d][i]), doc |-> d, domain |-> Domain[d]]
        OBVIOUS
      <3>2. p \in points
        BY <1>4, <1>6, <3>1
      <3>3. p \in vectors' /\ p.doc = d /\ p.key = TextKey(d, i, Content[d][i])
        BY <1>11, <3>1, <3>2
      <3>4. Key[d][i] = TextKey(d, i, Content[d][i])
        BY <1>2, <1>3, KeysAre
      <3> QED
        BY <3>3, <3>4 DEF Searchable, Found
    <2>9. RunRight(v, d)'
      BY <1>2, <1>13, <2>7, <2>8 DEF RunRight
    <2> QED
      BY <2>3, <2>5, <2>6, <2>9
  <1>18. /\ v.pc # "idle" /\ marred \subseteq marred'
         /\ \A c \in Docs \ {d} : rows'[c] = rows[c] /\ checkpoint'[c] = checkpoint[c] /\ status'[c] = status[c]
    BY <1>2, <1>13
  <1> QED
    BY <1>1, <1>2, <1>11, <1>13, <1>14, <1>15, <1>16, <1>17, <1>18, ThreadMoves

LEMMA StoreTextStep == ASSUME IInv, NEW t \in Threads, StoreText(t) PROVE IInv'
  <1>1. PICK d : d = Doc(t)
    OBVIOUS
  <1>2. /\ run[t].pc = "store" /\ d \in Docs /\ run[t] \in Locals /\ RunIs(run[t])
        /\ d = entry[run[t].entry].doc /\ UNCHANGED <<entry, checkpoint, vectors, status, marred, mishaps>>
        /\ run[t].entry \in DOMAIN entry /\ entry[run[t].entry].deliveries > 0
    BY <1>1, RunningIs DEF StoreText, RunIs
  <1>3. Kind[d] = "text"
    BY <1>2 DEF RunIs
  <1>4. /\ DOMAIN Content[d] = 1 .. Size(d) /\ Size(d) \in Nat /\ Size(d) = Len(Content[d])
        /\ \A i \in 1 .. Size(d) : i \in Nat /\ Content[d][i] \in Texts /\ Expected[d][i].text = Content[d][i]
    <2>1. DOMAIN Content[d] = 1 .. Size(d) /\ Size(d) = Len(Content[d]) /\ Size(d) \in Nat
      BY <1>2, <1>3, ContentIs DEF Size
    <2>2. Content[d] \in Seq(Range(Content[d])) /\ Range(Content[d]) \subseteq Texts
      BY <1>2, <1>3, IngestionAssumption
    <2>3. \A i \in 1 .. Len(Content[d]) : Content[d][i] \in Range(Content[d])
      BY <2>2, ElementOfSeq
    <2>4. \A i \in 1 .. Size(d) : Expected[d][i].text = Content[d][i]
      BY <1>2, <1>3, ExpectedIs
    <2> QED
      BY <2>1, <2>2, <2>3, <2>4
  <1>5. Typed
    BY DEF IInv
  <1>6. /\ rows' \in [Docs -> RowSets] /\ \A c \in Docs \ {d} : rows'[c] = rows[c]
        /\ (Content[d] = <<>> /\ rows' = rows) \/ rows'[d] = TextRows(d)
    <2>1. CASE Content[d] = <<>>
      BY <1>1, <1>5, <2>1 DEF StoreText, Typed
    <2>2. CASE Content[d] # <<>>
      <3>1. rows' = [rows EXCEPT ![d] = TextRows(d)]
        BY <1>1, <2>2 DEF StoreText
      <3>2. TextRows(d) \in [1 .. Size(d) -> Texts] /\ 1 .. Size(d) \in SUBSET Nat
        BY <1>4 DEF TextRows
      <3>3. TextRows(d) \in RowSets
        BY <3>2 DEF RowSets
      <3> QED
        BY <1>2, <1>5, <3>1, <3>3 DEF Typed
    <2> QED
      BY <2>1, <2>2
  <1>7. PICK v : v = [run[t] EXCEPT !.pc = "report"]
    OBVIOUS
  <1>8. v \in Locals /\ v.pc = "report" /\ v.entry = run[t].entry
    BY <1>2, <1>7 DEF Locals, Stages
  <1>9. run' = [run EXCEPT ![t] = v]
    BY <1>7 DEF StoreText, Goto
  <1>10. Typed'
    BY <1>2, <1>5, <1>6, <1>8, <1>9 DEF Typed
  <1>11. RunIs(v)'
    BY <1>2, <1>8 DEF RunIs
  <1>12. \A c \in Docs : \A i : Searchable(c, i)' <=> Searchable(c, i)
    BY <1>2 DEF Searchable, Found, Shared
  <1>13. ASSUME d \notin Spoilt'
         PROVE  RowsRight(d)' /\ CheckpointRight(d)' /\ DoneRight(d)' /\ RunRight(v, d)'
    <2>1. DocRight(d) /\ RunRight(run[t], d)
      BY <1>1, <1>2, <1>13 DEF IInv, Spoilt, DocRight, Of
    <2>2. /\ \A i \in 1 .. Size(d) : Searchable(d, i)
          /\ entry[v.entry].acked => status[d] # "COMPLETED"
      BY <1>2, <1>8, <2>1 DEF RunRight
    <2>3. RowsRight(d)' /\ Covered(d, Size(d))'
      <3>1. CASE Content[d] = <<>> /\ rows' = rows
        <4>1. Size(d) = 0
          BY <1>4, <3>1
        <4>2. RowsRight(d)'
          BY <2>1, <3>1 DEF DocRight, RowsRight
        <4>3. Covered(d, Size(d))'
          BY <4>1 DEF Covered
        <4> QED
          BY <4>2, <4>3
      <3>2. CASE rows'[d] = TextRows(d)
        <4>1. DOMAIN rows'[d] = 1 .. Size(d) /\ \A i \in 1 .. Size(d) : rows'[d][i] = Content[d][i]
          BY <1>4, <3>2 DEF TextRows
        <4> QED
          BY <1>4, <1>12, <2>2, <4>1, <1>2 DEF RowsRight, Covered
      <3> QED
        BY <1>6, <3>1, <3>2
    <2>4. CheckpointRight(d)'
      <3>1. checkpoint[d] = None
        BY <1>3, <2>1 DEF DocRight, CheckpointRight
      <3> QED
        BY <1>2, <3>1 DEF CheckpointRight
    <2>5. DoneRight(d)'
      BY <2>3 DEF DoneRight
    <2>6. RunRight(v, d)'
      BY <1>2, <1>8, <2>2, <2>3 DEF RunRight
    <2> QED
      BY <2>3, <2>4, <2>5, <2>6
  <1>14. /\ v.pc # "idle" /\ marred \subseteq marred'
         /\ \A c \in Docs \ {d} : rows'[c] = rows[c] /\ checkpoint'[c] = checkpoint[c] /\ status'[c] = status[c]
         /\ \A c \in Docs : \A i \in 1 .. Size(c) : Searchable(c, i) => Searchable(c, i)'
    BY <1>2, <1>6, <1>8, <1>12
  <1> QED
    BY <1>1, <1>2, <1>8, <1>9, <1>10, <1>11, <1>13, <1>14, ThreadMoves

LEMMA ReportStep == ASSUME IInv, NEW t \in Threads, Report(t) PROVE IInv'
  <1>1. PICK d : d = Doc(t)
    OBVIOUS
  <1>2. /\ run[t].pc = "report" /\ d \in Docs /\ run[t] \in Locals /\ RunIs(run[t])
        /\ d = entry[run[t].entry].doc /\ UNCHANGED <<entry, checkpoint, vectors, rows, marred, mishaps>>
        /\ run[t].entry \in DOMAIN entry /\ entry[run[t].entry].deliveries > 0
        /\ status' = [status EXCEPT ![d] = "COMPLETED"]
    BY <1>1, RunningIs DEF Report, RunIs, data
  <1>3. Typed
    BY DEF IInv
  <1>4. PICK v : v = [run[t] EXCEPT !.pc = "ack"]
    OBVIOUS
  <1>5. v \in Locals /\ v.pc = "ack" /\ v.entry = run[t].entry
    BY <1>2, <1>4 DEF Locals, Stages
  <1>6. run' = [run EXCEPT ![t] = v]
    BY <1>4 DEF Report, Goto
  <1>7. Typed' /\ \A c \in Docs \ {d} : status'[c] = status[c]
    BY <1>2, <1>3, <1>5, <1>6 DEF Typed
  <1>8. RunIs(v)'
    BY <1>2, <1>5 DEF RunIs
  <1>9. \A c \in Docs : \A i : Searchable(c, i)' <=> Searchable(c, i)
    BY <1>2 DEF Searchable, Found, Shared
  <1>10. ASSUME d \notin Spoilt'
         PROVE  RowsRight(d)' /\ CheckpointRight(d)' /\ DoneRight(d)' /\ RunRight(v, d)'
    <2>1. DocRight(d) /\ RunRight(run[t], d)
      BY <1>1, <1>2, <1>10 DEF IInv, Spoilt, DocRight, Of
    <2>2. Covered(d, Size(d))
      BY <1>2, <2>1 DEF RunRight
    <2>3. \A n : Covered(d, n) => Covered(d, n)'
      BY <1>2, <1>9 DEF Covered
    <2>4. RowsRight(d)'
      BY <1>2, <2>1 DEF DocRight, RowsRight
    <2>5. CheckpointRight(d)'
      <3>1. PICK m : m = checkpoint[d].chunks
        OBVIOUS
      <3>2. checkpoint[d] # None => Covered(d, m)'
        BY <2>1, <2>3, <3>1 DEF DocRight, CheckpointRight
      <3> QED
        BY <1>2, <2>1, <3>1, <3>2 DEF DocRight, CheckpointRight, Covered
    <2>6. DoneRight(d)'
      BY <2>2, <2>3 DEF DoneRight
    <2>7. RunRight(v, d)'
      BY <1>2, <1>5, <2>2, <2>3 DEF RunRight
    <2> QED
      BY <2>4, <2>5, <2>6, <2>7
  <1>11. /\ v.pc # "idle" /\ marred \subseteq marred'
         /\ \A c \in Docs \ {d} : rows'[c] = rows[c] /\ checkpoint'[c] = checkpoint[c] /\ status'[c] = status[c]
         /\ \A c \in Docs : \A i \in 1 .. Size(c) : Searchable(c, i) => Searchable(c, i)'
    BY <1>2, <1>5, <1>7, <1>9
  <1> QED
    BY <1>1, <1>2, <1>5, <1>6, <1>7, <1>8, <1>10, <1>11, ThreadMoves

-----------------------------------------------------------------------------
(* Entries, failures, restarts and deletions.                               *)

(* A run stays what it is when entries are added, delivered and settled.    *)
LEMMA RunStays ==
    ASSUME NEW v, RunIs(v),
           \A e \in DOMAIN entry : /\ e \in DOMAIN entry' /\ entry'[e].doc = entry[e].doc
                                   /\ entry[e].deliveries > 0 => entry'[e].deliveries > 0
    PROVE  RunIs(v)'
  <1> SUFFICES ASSUME v.pc # "idle" PROVE RunIs(v)'
    BY DEF RunIs
  <1>1. PICK e : e = v.entry
    OBVIOUS
  <1>2. /\ e \in DOMAIN entry /\ e \in DOMAIN entry' /\ entry'[e].doc = entry[e].doc
        /\ entry'[e].deliveries > 0
    BY <1>1 DEF RunIs
  <1> QED
    BY <1>1, <1>2 DEF RunIs

LEMMA SearchStays ==
    ASSUME vectors' = vectors
    PROVE  \A d \in Docs : \A i : Searchable(d, i)' <=> Searchable(d, i)
  BY DEF Searchable, Found, Shared

LEMMA PublishStep == ASSUME IInv, NEW d0 \in Docs, Publish(d0) PROVE IInv'
  <1>1. /\ UNCHANGED <<run, checkpoint, vectors, rows, status, marred>>
        /\ entry' = Append(entry, [doc |-> d0, deliveries |-> 0, acked |-> FALSE])
    BY DEF Publish, data
  <1>2. PICK x : x = [doc |-> d0, deliveries |-> 0, acked |-> FALSE]
    OBVIOUS
  <1>3. x \in Entries
    BY <1>2, IngestionAssumption DEF Entries
  <1>4. Typed
    BY DEF IInv
  <1>5. entry' \in Seq(Entries) /\ \A e \in DOMAIN entry : e \in DOMAIN entry' /\ entry'[e] = entry[e]
    BY <1>1, <1>2, <1>3, <1>4, AppendProperties, LenProperties DEF Typed
  <1>6. Typed'
    BY <1>1, <1>4, <1>5 DEF Typed
  <1>7. ASSUME NEW t \in Threads PROVE RunIs(run[t])'
    <2>1. PICK v : v = run[t]
      OBVIOUS
    <2>2. RunIs(v)'
      BY <1>5, <2>1, RunStays DEF IInv
    <2> QED
      BY <1>1, <2>1, <2>2 DEF RunIs
  <1>8. ASSUME NEW d \in Docs \ Spoilt' PROVE DocRight(d)'
    <2>1. \A t \in Threads : Of(t, d)' =>
              Of(t, d) /\ run'[t] = run[t] /\ entry'[run[t].entry].acked = entry[run[t].entry].acked
      <3> SUFFICES ASSUME NEW t \in Threads, Of(t, d)'
                   PROVE  Of(t, d) /\ entry'[run[t].entry].acked = entry[run[t].entry].acked
        BY <1>1
      <3>1. run[t].pc # "idle"
        BY <1>1 DEF Of
      <3>2. run[t].entry \in DOMAIN entry
        BY <3>1, RunningIs
      <3> QED
        BY <1>1, <1>5, <3>1, <3>2 DEF Of, Doc
    <2>2. Owed(d) => Owed(d)'
      BY <1>5 DEF Owed
    <2>3. DocRight(d)
      BY <1>1 DEF IInv, Spoilt
    <2> QED
      BY <1>1, <2>1, <2>2, <2>3, SearchStays, Elsewhere
  <1> QED
    BY <1>6, <1>7, <1>8 DEF IInv, Spoilt

LEMMA TakeStep == ASSUME IInv, NEW e \in DOMAIN entry, NEW t \in Threads, Take(t, e) PROVE IInv'
  <1>1. /\ run[t].pc = "idle" /\ ~entry[e].acked /\ entry[e].deliveries < MaxDeliveries
        /\ UNCHANGED <<checkpoint, vectors, rows, status>>
    BY DEF Take, data
  <1>2. Typed
    BY DEF IInv
  <1>3. entry[e] \in Entries /\ DOMAIN entry = 1 .. Len(entry) /\ Len(entry) \in Nat
    BY <1>2, EntriesAre
  <1>4. PICK d0, k : d0 = entry[e].doc /\ k = entry[e].deliveries + 1
    OBVIOUS
  <1>5. d0 \in Docs /\ k \in 0 .. MaxDeliveries + 1 /\ k > 0
    BY <1>1, <1>3, <1>4, IngestionAssumption DEF Entries
  <1>6. PICK x : x = [entry[e] EXCEPT !.deliveries = k]
    OBVIOUS
  <1>7. x \in Entries /\ x.doc = d0 /\ x.acked = entry[e].acked /\ x.deliveries > 0
    BY <1>3, <1>4, <1>5, <1>6 DEF Entries
  <1>8. entry' = [entry EXCEPT ![e] = x]
    BY <1>4, <1>6 DEF Take
  <1>9. /\ entry' \in Seq(Entries) /\ DOMAIN entry' = DOMAIN entry /\ entry'[e] = x
        /\ \A f \in DOMAIN entry \ {e} : entry'[f] = entry[f]
    <2>1. entry' \in Seq(Entries)
      BY <1>2, <1>7, <1>8, ExceptSeq DEF Typed
    <2> QED
      BY <1>8, <2>1
  <1>10. /\ \A f \in DOMAIN entry : /\ f \in DOMAIN entry' /\ entry'[f].doc = entry[f].doc
                                    /\ entry'[f].acked = entry[f].acked
                                    /\ entry[f].deliveries > 0 => entry'[f].deliveries > 0
    BY <1>4, <1>7, <1>9
  <1>11. PICK v : v = [IdleRun EXCEPT !.pc = "load", !.entry = e]
    OBVIOUS
  <1>12. v \in Locals /\ v.pc = "load" /\ v.entry = e
    <2>1. e \in Nat
      BY <1>3
    <2>2. IdleRun \in Locals
      BY IdleIs
    <2> QED
      BY <1>11, <2>1, <2>2 DEF Locals, Stages
  <1>13. run' = [run EXCEPT ![t] = v] /\ run'[t] = v /\ \A u \in Threads \ {t} : run'[u] = run[u]
    BY <1>2, <1>11 DEF Take, Typed
  <1>14. marred' = (IF Busy(d0) THEN marred \cup {d0} ELSE marred) /\ marred \subseteq marred' /\ marred' \subseteq Docs
    BY <1>2, <1>4, <1>5 DEF Take, Typed
  <1>15. Typed'
    BY <1>1, <1>2, <1>9, <1>12, <1>13, <1>14 DEF Typed
  <1>16. ASSUME NEW u \in Threads PROVE RunIs(run[u])'
    <2>1. PICK w : w = run'[u]
      OBVIOUS
    <2>2. RunIs(w)'
      <3>1. CASE u = t
        BY <1>3, <1>7, <1>9, <1>12, <1>13, <2>1, <3>1 DEF RunIs
      <3>2. CASE u # t
        BY <1>10, <1>13, <2>1, <3>2, RunStays DEF IInv
      <3> QED
        BY <3>1, <3>2
    <2> QED
      BY <2>1, <2>2 DEF RunIs
  <1>17. ASSUME NEW u \in Threads, u # t, NEW d, Of(u, d)'
         PROVE  Of(u, d) /\ run'[u] = run[u] /\ entry'[run[u].entry].acked = entry[run[u].entry].acked
    <2>1. run'[u] = run[u] /\ run[u].pc # "idle"
      BY <1>13, <1>17 DEF Of
    <2>2. run[u].entry \in DOMAIN entry
      BY <2>1, RunningIs
    <2> QED
      BY <1>10, <1>17, <2>1, <2>2 DEF Of, Doc
  <1>18. ASSUME NEW d, Of(t, d)' PROVE d = d0
    BY <1>7, <1>9, <1>12, <1>13, <1>18 DEF Of, Doc
  <1>19. \A d : Owed(d) => Owed(d)'
    BY <1>10 DEF Owed
  <1>20. ASSUME NEW d \in Docs \ Spoilt' PROVE DocRight(d)'
    <2>1. DocRight(d)
      BY <1>14, <1>20 DEF IInv, Spoilt
    <2>2. CASE d # d0
      <3>1. \A u \in Threads : Of(u, d)' =>
                Of(u, d) /\ run'[u] = run[u] /\ entry'[run[u].entry].acked = entry[run[u].entry].acked
        BY <1>17, <1>18, <2>2
      <3> QED
        BY <1>1, <1>19, <2>1, <3>1, SearchStays, Elsewhere
    <2>3. CASE d = d0
      <3>1. ~Busy(d0)
        BY <1>14, <1>20, <2>3 DEF Spoilt
      <3>2. \A u \in Threads : Of(u, d)' => u = t
        BY <1>17, <2>3, <3>1 DEF Busy, Of
      <3>3. RowsRight(d)' /\ CheckpointRight(d)' /\ DoneRight(d)'
        BY <1>1, <1>19, <2>1, StoresStay DEF DocRight
      <3>4. RunRight(v, d)'
        BY <1>1, <1>7, <1>9, <1>12 DEF RunRight
      <3>5. RunRight(run[t], d)'
        BY <1>13, <3>4 DEF RunRight
      <3> QED
        BY <3>2, <3>3, <3>5 DEF DocRight
    <2> QED
      BY <2>2, <2>3
  <1> QED
    BY <1>15, <1>16, <1>20 DEF IInv, Spoilt

(* An entry is settled: the status of its document is what it was or FAILED *)
(* and no other run is about the entry, or the verdict was FAILED.          *)
LEMMA DeadLetterStep == ASSUME IInv, NEW e \in DOMAIN entry, DeadLetter(e) PROVE IInv'
  <1>1. /\ ~entry[e].acked /\ entry[e].deliveries = MaxDeliveries
        /\ UNCHANGED <<run, checkpoint, vectors, rows, marred>>
    BY DEF DeadLetter, data
  <1>2. Typed
    BY DEF IInv
  <1>3. entry[e] \in Entries /\ DOMAIN entry = 1 .. Len(entry) /\ Len(entry) \in Nat
    BY <1>2, EntriesAre
  <1>4. PICK d0, k : d0 = entry[e].doc /\ k = entry[e].deliveries + 1
    OBVIOUS
  <1>5. d0 \in Docs /\ k \in 0 .. MaxDeliveries + 1 /\ k > 0
    BY <1>1, <1>3, <1>4, IngestionAssumption DEF Entries
  <1>6. PICK x : x = [entry[e] EXCEPT !.deliveries = k, !.acked = TRUE]
    OBVIOUS
  <1>7. x \in Entries /\ x.doc = d0 /\ x.deliveries > 0
    BY <1>3, <1>4, <1>5, <1>6 DEF Entries
  <1>8. entry' = [entry EXCEPT ![e] = x]
    <2>1. entry' = [entry EXCEPT ![e].deliveries = k, ![e].acked = TRUE]
      BY <1>4 DEF DeadLetter
    <2> QED
      BY <1>2, <1>3, <1>6, <2>1 DEF Typed, Entries
  <1>9. /\ entry' \in Seq(Entries) /\ DOMAIN entry' = DOMAIN entry /\ entry'[e] = x
        /\ \A f \in DOMAIN entry \ {e} : entry'[f] = entry[f]
    <2>1. entry' \in Seq(Entries)
      BY <1>2, <1>7, <1>8, ExceptSeq DEF Typed
    <2> QED
      BY <1>8, <2>1
  <1>10. \A f \in DOMAIN entry : /\ f \in DOMAIN entry' /\ entry'[f].doc = entry[f].doc
                                 /\ entry[f].deliveries > 0 => entry'[f].deliveries > 0
    BY <1>4, <1>7, <1>9
  <1>11. /\ status' = [status EXCEPT ![d0] = "FAILED"] /\ status'[d0] = "FAILED"
         /\ \A d \in Docs \ {d0} : status'[d] = status[d]
    BY <1>2, <1>4, <1>5 DEF DeadLetter, Typed
  <1>12. Typed'
    BY <1>1, <1>2, <1>9, <1>11 DEF Typed
  <1>13. ASSUME NEW u \in Threads PROVE RunIs(run[u])'
    <2>1. PICK w : w = run[u]
      OBVIOUS
    <2>2. RunIs(w)'
      BY <1>10, <2>1, RunStays DEF IInv
    <2> QED
      BY <1>1, <2>1, <2>2 DEF RunIs
  <1>14. ASSUME NEW u \in Threads, NEW d, Of(u, d)' PROVE Of(u, d) /\ run[u].entry \in DOMAIN entry /\ d = entry[run[u].entry].doc
    <2>1. run[u].pc # "idle"
      BY <1>1, <1>14 DEF Of
    <2>2. run[u].entry \in DOMAIN entry
      BY <2>1, RunningIs
    <2> QED
      BY <1>1, <1>10, <1>14, <2>1, <2>2 DEF Of, Doc
  <1>15. ASSUME NEW d \in Docs \ Spoilt' PROVE DocRight(d)'
    <2>1. DocRight(d)
      BY <1>1, <1>15 DEF IInv, Spoilt
    <2>2. CASE d # d0
      <3>1. \A u \in Threads : Of(u, d)' =>
                Of(u, d) /\ run'[u] = run[u] /\ entry'[run[u].entry].acked = entry[run[u].entry].acked
        BY <1>1, <1>4, <1>9, <1>14, <2>2
      <3>2. Owed(d) => Owed(d)'
        BY <1>4, <1>9, <2>2 DEF Owed
      <3> QED
        BY <1>1, <1>11, <2>1, <2>2, <3>1, <3>2, SearchStays, Elsewhere
    <2>3. CASE d = d0
      <3>1. \A n : Covered(d, n) <=> Covered(d, n)'
        BY <1>1, SearchStays DEF Covered
      <3>2. RowsRight(d)' /\ DoneRight(d)'
        BY <1>1, <1>11, <2>1, <2>3 DEF DocRight, RowsRight, DoneRight, Settled
      <3>3. CheckpointRight(d)'
        <4>1. PICK m : m = checkpoint[d].chunks
          OBVIOUS
        <4>2. checkpoint[d] # None => Covered(d, m)'
          BY <2>1, <3>1, <4>1 DEF DocRight, CheckpointRight
        <4> QED
          BY <1>1, <2>1, <4>1, <4>2 DEF DocRight, CheckpointRight, Covered
      <3>4. ASSUME NEW u \in Threads, Of(u, d)' PROVE RunRight(run[u], d)'
        <4>1. PICK w : w = run[u]
          OBVIOUS
        <4>2. RunRight(w, d)
          BY <1>14, <2>1, <3>4, <4>1 DEF DocRight
        <4>3. Covered(d, w.offset) <=> Covered(d, w.offset)'
          BY <3>1
        <4>4. Covered(d, Size(d)) <=> Covered(d, Size(d))'
          BY <3>1
        <4>5. \A i : Searchable(d, i)' <=> Searchable(d, i)
          BY <1>1, SearchStays
        <4>6. status'[d] # "COMPLETED"
          BY <1>11, <2>3
        <4>7. RunRight(w, d)'
          BY <1>1, <4>2, <4>3, <4>4, <4>5, <4>6 DEF RunRight
        <4> QED
          BY <1>1, <4>1, <4>7 DEF RunRight, Covered
      <3>5. \A t, u \in Threads : Of(t, d)' /\ Of(u, d)' => t = u
        BY <1>14, <2>1 DEF DocRight
      <3> QED
        BY <3>2, <3>3, <3>4, <3>5 DEF DocRight
    <2> QED
      BY <2>2, <2>3
  <1> QED
    BY <1>12, <1>13, <1>15 DEF IInv, Spoilt

(* A run that ends, with the entry settled or the failure reported.         *)
LEMMA RunEnds ==
    ASSUME IInv, NEW t \in Threads, run[t].pc # "idle", NEW d0, d0 = Doc(t),
           run' = [run EXCEPT ![t] = IdleRun], UNCHANGED <<checkpoint, vectors, rows, marred>>,
           entry' \in Seq(Entries),
           \A e \in DOMAIN entry :
              /\ e \in DOMAIN entry' /\ entry'[e].doc = entry[e].doc /\ entry'[e].deliveries = entry[e].deliveries
              /\ e # run[t].entry => entry'[e] = entry[e],
           status' \in [Docs -> {"NONE", "COMPLETED", "FAILED"}],
           \A d \in Docs \ {d0} : status'[d] = status[d],
           d0 \notin Spoilt => DoneRight(d0)'
    PROVE  IInv'
  <1>1. Typed
    BY DEF IInv
  <1>2. run'[t] = IdleRun /\ IdleRun.pc = "idle" /\ IdleRun \in Locals /\ \A u \in Threads \ {t} : run'[u] = run[u]
    BY <1>1, IdleIs DEF Typed
  <1>3. Typed'
    BY <1>1, <1>2 DEF Typed
  <1>4. ASSUME NEW u \in Threads PROVE RunIs(run[u])'
    <2>1. PICK w : w = run'[u]
      OBVIOUS
    <2>2. RunIs(w)'
      <3>1. CASE u = t
        BY <1>2, <2>1, <3>1 DEF RunIs
      <3>2. CASE u # t
        BY <1>2, <2>1, <3>2, RunStays DEF IInv
      <3> QED
        BY <3>1, <3>2
    <2> QED
      BY <2>1, <2>2 DEF RunIs
  <1>5. ASSUME NEW u \in Threads, NEW d, Of(u, d)'
        PROVE  /\ u # t /\ Of(u, d) /\ run'[u] = run[u] /\ run[u].entry \in DOMAIN entry
               /\ entry[run[u].entry].doc = d
    <2>1. u # t
      BY <1>2, <1>5 DEF Of
    <2>2. run'[u] = run[u] /\ run[u].pc # "idle"
      BY <1>2, <1>5, <2>1 DEF Of
    <2>3. run[u].entry \in DOMAIN entry
      BY <2>2, RunningIs
    <2> QED
      BY <1>5, <2>1, <2>2, <2>3 DEF Of, Doc
  <1>6. run[t].entry \in DOMAIN entry /\ entry[run[t].entry].doc = d0 /\ d0 \in Docs
    BY RunningIs
  <1>7. ASSUME NEW d \in Docs \ Spoilt' PROVE DocRight(d)'
    <2>1. DocRight(d)
      BY <1>7 DEF IInv, Spoilt
    <2>2. CASE d # d0
      <3>1. \A u \in Threads : Of(u, d)' =>
                Of(u, d) /\ run'[u] = run[u] /\ entry'[run[u].entry].acked = entry[run[u].entry].acked
        BY <1>5, <1>6, <2>2
      <3>2. Owed(d) => Owed(d)'
        BY <1>6, <2>2 DEF Owed
      <3> QED
        BY <2>1, <2>2, <3>1, <3>2, SearchStays, Elsewhere
    <2>3. CASE d = d0
      <3>1. \A u \in Threads : ~Of(u, d)'
        <4>1. Of(t, d)
          BY <2>3 DEF Of
        <4> QED
          BY <1>5, <2>1, <4>1 DEF DocRight
      <3>2. \A n : Covered(d, n) <=> Covered(d, n)'
        BY SearchStays DEF Covered
      <3>3. RowsRight(d)'
        BY <2>1 DEF DocRight, RowsRight
      <3>4. CheckpointRight(d)'
        <4>1. PICK m : m = checkpoint[d].chunks
          OBVIOUS
        <4>2. checkpoint[d] # None => Covered(d, m)'
          BY <2>1, <3>2, <4>1 DEF DocRight, CheckpointRight
        <4> QED
          BY <2>1, <4>1, <4>2 DEF DocRight, CheckpointRight, Covered
      <3> QED
        BY <1>7, <2>3, <3>1, <3>3, <3>4 DEF DocRight, Spoilt
    <2> QED
      BY <2>2, <2>3
  <1> QED
    BY <1>3, <1>4, <1>7 DEF IInv, Spoilt

LEMMA AckStep == ASSUME IInv, NEW t \in Threads, Ack(t) PROVE IInv'
  <1>1. PICK d0 : d0 = Doc(t)
    OBVIOUS
  <1>2. PICK e : e = run[t].entry
    OBVIOUS
  <1>3. /\ run[t].pc = "ack" /\ run' = [run EXCEPT ![t] = IdleRun]
        /\ UNCHANGED <<checkpoint, vectors, rows, status, marred>>
        /\ e \in DOMAIN entry /\ entry[e] \in Entries /\ d0 \in Docs
    BY <1>1, <1>2, RunningIs DEF Ack, data
  <1>4. Typed
    BY DEF IInv
  <1>5. PICK x : x = [entry[e] EXCEPT !.acked = TRUE]
    OBVIOUS
  <1>6. x \in Entries /\ x.doc = entry[e].doc /\ x.deliveries = entry[e].deliveries
    BY <1>3, <1>5 DEF Entries
  <1>7. entry' = [entry EXCEPT ![e] = x]
    BY <1>2, <1>5 DEF Ack
  <1>8. entry' \in Seq(Entries)
    BY <1>3, <1>4, <1>6, <1>7, ExceptSeq DEF Typed
  <1>9. \A f \in DOMAIN entry :
            /\ f \in DOMAIN entry' /\ entry'[f].doc = entry[f].doc /\ entry'[f].deliveries = entry[f].deliveries
            /\ f # run[t].entry => entry'[f] = entry[f]
    BY <1>2, <1>6, <1>7
  <1>10. ASSUME d0 \notin Spoilt PROVE DoneRight(d0)'
    <2>1. RunRight(run[t], d0)
      BY <1>1, <1>3, <1>10 DEF IInv, Spoilt, DocRight, Of
    <2>2. Covered(d0, Size(d0))
      BY <1>3, <2>1 DEF RunRight
    <2>3. Covered(d0, Size(d0))'
      BY <1>3, <2>2, SearchStays DEF Covered
    <2> QED
      BY <2>3 DEF DoneRight
  <1>11. /\ run[t].pc # "idle" /\ \A d \in Docs \ {d0} : status'[d] = status[d]
         /\ status' \in [Docs -> {"NONE", "COMPLETED", "FAILED"}]
    BY <1>3, <1>4 DEF Typed
  <1> QED
    BY <1>1, <1>3, <1>8, <1>9, <1>10, <1>11, RunEnds

LEMMA FailStep == ASSUME IInv, NEW t \in Threads, Fail(t) PROVE IInv'
  <1>1. PICK d0 : d0 = Doc(t)
    OBVIOUS
  <1>2. /\ run[t].pc # "idle" /\ run' = [run EXCEPT ![t] = IdleRun] /\ d0 \in Docs
        /\ UNCHANGED <<entry, checkpoint, vectors, rows, marred>>
        /\ status' = [status EXCEPT ![d0] = "FAILED"]
    BY <1>1, RunningIs DEF Fail, data
  <1>3. Typed
    BY DEF IInv
  <1>4. /\ \A d \in Docs \ {d0} : status'[d] = status[d]
        /\ status' \in [Docs -> {"NONE", "COMPLETED", "FAILED"}] /\ status'[d0] = "FAILED"
        /\ entry' \in Seq(Entries)
    BY <1>2, <1>3 DEF Typed
  <1>5. DoneRight(d0)'
    BY <1>4 DEF DoneRight, Settled
  <1>6. \A f \in DOMAIN entry :
            /\ f \in DOMAIN entry' /\ entry'[f].doc = entry[f].doc /\ entry'[f].deliveries = entry[f].deliveries
            /\ f # run[t].entry => entry'[f] = entry[f]
    BY <1>2
  <1> QED
    BY <1>1, <1>2, <1>4, <1>5, <1>6, RunEnds

LEMMA RestartStep == ASSUME IInv, Restart PROVE IInv'
  <1>1. /\ UNCHANGED <<entry, vectors, rows, status, marred>>
        /\ run' = [t \in Threads |-> IdleRun] /\ checkpoint' = [d \in Docs |-> None]
    BY DEF Restart
  <1>2. IdleRun \in Locals /\ IdleRun.pc = "idle" /\ Typed
    BY IdleIs DEF IInv, Spoilt
  <1>3. run' \in [Threads -> Locals] /\ checkpoint' \in [Docs -> {None} \cup [page : Nat, chunks : Nat]]
    BY <1>1, <1>2
  <1>4. Typed'
    BY <1>1, <1>2, <1>3 DEF Typed
  <1>5. \A t \in Threads : run'[t].pc = "idle"
    BY <1>1, <1>2
  <1>6. \A t \in Threads : RunIs(run[t])'
    BY <1>5 DEF RunIs
  <1>7. ASSUME NEW d \in Docs \ Spoilt' PROVE DocRight(d)'
    <2>1. DocRight(d) /\ checkpoint'[d] = None
      BY <1>1, <1>7 DEF IInv, Spoilt
    <2>2. \A t \in Threads : ~Of(t, d)'
      BY <1>5 DEF Of
    <2>3. \A n : Covered(d, n) <=> Covered(d, n)'
      BY <1>1, SearchStays DEF Covered
    <2>4. RowsRight(d)' /\ DoneRight(d)'
      BY <1>1, <2>1, <2>3 DEF DocRight, RowsRight, DoneRight, Settled, Owed
    <2>5. CheckpointRight(d)'
      BY <2>1 DEF CheckpointRight
    <2> QED
      BY <2>2, <2>4, <2>5 DEF DocRight
  <1> QED
    BY <1>4, <1>6, <1>7 DEF IInv, Spoilt

LEMMA DeleteStep == ASSUME IInv, NEW d0 \in Docs, Delete(d0) PROVE IInv'
  <1>1. /\ UNCHANGED <<entry, run, checkpoint>> /\ vectors' = {v \in vectors : v.doc # d0}
        /\ rows' = [rows EXCEPT ![d0] = <<>>] /\ status' = [status EXCEPT ![d0] = "NONE"]
        /\ marred' = IF Busy(d0) \/ Owed(d0) \/ checkpoint[d0] # None THEN marred \cup {d0} ELSE marred \ {d0}
    BY DEF Delete
  <1>2. Typed
    BY DEF IInv
  <1>3. <<>> \in RowSets
    <2>1. <<>> \in [{} -> Texts]
      OBVIOUS
    <2> QED
      BY <2>1 DEF RowSets
  <1>4. /\ rows'[d0] = <<>> /\ status'[d0] = "NONE"
        /\ \A d \in Docs \ {d0} : rows'[d] = rows[d] /\ status'[d] = status[d]
    BY <1>1, <1>2 DEF Typed
  <1>5. Typed'
    <2>1. vectors' \subseteq vectors /\ marred' \subseteq Docs
      BY <1>1, <1>2 DEF Typed
    <2> QED
      BY <1>1, <1>2, <1>3, <2>1 DEF Typed
  <1>6. \A t \in Threads : RunIs(run[t])'
    BY <1>1 DEF IInv, RunIs
  <1>7. ASSUME NEW d \in Docs \ Spoilt' PROVE DocRight(d)'
    <2>1. CASE d # d0
      <3>1. d \notin Spoilt
        BY <1>1, <1>7, <2>1 DEF Spoilt
      <3>2. DocRight(d)
        BY <1>7, <3>1 DEF IInv, Spoilt
      <3>3. \A i \in 1 .. Size(d) : Searchable(d, i) => Searchable(d, i)'
        BY <1>1, <2>1 DEF Searchable, Found, Shared
      <3>4. \A t \in Threads : Of(t, d)' =>
                Of(t, d) /\ run'[t] = run[t] /\ entry'[run[t].entry].acked = entry[run[t].entry].acked
        BY <1>1 DEF Of, Doc
      <3>5. Owed(d) => Owed(d)'
        BY <1>1 DEF Owed
      <3> QED
        BY <1>1, <1>4, <2>1, <3>2, <3>3, <3>4, <3>5, Elsewhere
    <2>2. CASE d = d0
      <3>1. ~Busy(d0) /\ checkpoint[d0] = None
        BY <1>1, <1>7, <2>2 DEF Spoilt
      <3>2. \A t \in Threads : ~Of(t, d)'
        BY <1>1, <2>2, <3>1 DEF Busy, Of, Doc
      <3>3. DoneRight(d)' /\ RowsRight(d)' /\ CheckpointRight(d)'
        BY <1>1, <1>4, <2>2, <3>1 DEF DoneRight, Settled, RowsRight, CheckpointRight
      <3> QED
        BY <3>2, <3>3 DEF DocRight
    <2> QED
      BY <2>1, <2>2
  <1> QED
    BY <1>5, <1>6, <1>7 DEF IInv, Spoilt

LEMMA InitInv == Init => IInv
  <1> SUFFICES ASSUME Init PROVE IInv
    OBVIOUS
  <1>1. <<>> \in RowSets /\ <<>> \in Seq(Entries) /\ IdleRun \in Locals /\ IdleRun.pc = "idle"
    <2>1. <<>> \in [{} -> Texts]
      OBVIOUS
    <2> QED
      BY <2>1, IdleIs, EmptySeq DEF RowSets
  <1>2. Typed
    BY <1>1 DEF Init, Typed
  <1>3. \A t \in Threads : run[t].pc = "idle"
    BY <1>1 DEF Init
  <1>4. \A t \in Threads : RunIs(run[t])
    BY <1>3 DEF RunIs
  <1>5. ASSUME NEW d \in Docs PROVE DocRight(d)
    <2>1. rows[d] = <<>> /\ status[d] = "NONE" /\ checkpoint[d] = None
      BY DEF Init
    <2>2. RowsRight(d) /\ CheckpointRight(d) /\ DoneRight(d)
      BY <2>1 DEF RowsRight, CheckpointRight, DoneRight, Settled
    <2>3. \A t \in Threads : ~Of(t, d)
      BY <1>3 DEF Of
    <2> QED
      BY <2>2, <2>3 DEF DocRight
  <1> QED
    BY <1>2, <1>4, <1>5 DEF IInv, Spoilt

LEMMA StutterInv == IInv /\ UNCHANGED vars => IInv'
  <1> SUFFICES ASSUME IInv, UNCHANGED vars PROVE IInv'
    OBVIOUS
  <1>1. UNCHANGED <<entry, run, checkpoint, vectors, rows, status, marred>>
    BY DEF vars, data
  <1>2. Typed'
    BY <1>1 DEF IInv, Typed
  <1>3. \A t \in Threads : RunIs(run[t])'
    BY <1>1 DEF IInv, RunIs
  <1>4. ASSUME NEW d \in Docs \ Spoilt' PROVE DocRight(d)'
    <2>1. DocRight(d)
      BY <1>1, <1>4 DEF IInv, Spoilt
    <2>2. \A t \in Threads : Of(t, d)' =>
              Of(t, d) /\ run'[t] = run[t] /\ entry'[run[t].entry].acked = entry[run[t].entry].acked
      BY <1>1 DEF Of, Doc
    <2>3. Owed(d) => Owed(d)'
      BY <1>1 DEF Owed
    <2> QED
      BY <1>1, <2>1, <2>2, <2>3, SearchStays, Elsewhere
  <1> QED
    BY <1>2, <1>3, <1>4 DEF IInv, Spoilt

LEMMA StepInv == ASSUME IInv, [Next]_vars PROVE IInv'
  <1>1. ASSUME NEW t \in Threads, Step(t) PROVE IInv'
    BY <1>1, LoadStep, ConvertStep, ConvertBlindStep, WriteShardStep, AppendRowsStep, SaveCheckpointStep,
       DeleteCheckpointStep, WriteTextStep, StoreTextStep, ReportStep, AckStep DEF Step
  <1>2. ASSUME Next PROVE IInv'
    BY <1>1, <1>2, PublishStep, DeleteStep, DeadLetterStep, TakeStep, FailStep, RestartStep DEF Next
  <1> QED
    BY <1>2, StutterInv

-----------------------------------------------------------------------------
(* What a clean document has when it is completed.                          *)

LEMMA Invariance == Spec => []IInv
  <1>1. IInv /\ [Next]_vars => IInv'
    BY StepInv
  <1> QED
    BY <1>1, InitInv, PTL DEF Spec

LEMMA DocumentsRight == Spec => [](\A d \in Docs \ marred : Legible(d) => DocRight(d))
  <1>1. IInv => \A d \in Docs \ marred : Legible(d) => DocRight(d)
    BY DEF IInv, Spoilt
  <1> QED
    BY <1>1, Invariance, PTL

(* The entries, the locals of the runs, the checkpoints, the points and the *)
(* rows have their types, and a point id names one point, whatever the      *)
(* pages of the documents read like.                                        *)
THEOREM TypeCorrect == Spec => []RunTypeOK
  <1>1. ASSUME IInv PROVE RunTypeOK
    <2>1. Typed /\ \A t \in Threads : RunIs(run[t])
      BY <1>1 DEF IInv
    <2>2. \A e \in DOMAIN entry : entry[e] \in [doc : Docs, deliveries : 0 .. MaxDeliveries + 1, acked : BOOLEAN]
      BY <2>1, EntriesAre DEF Entries
    <2>3. \A t \in Threads : run[t].pc # "idle" => entry[run[t].entry].deliveries > 0
      BY <2>1 DEF RunIs
    <2>4. \A d \in Docs : checkpoint[d] # None => checkpoint[d] \in [page : Nat, chunks : Nat]
      BY <2>1 DEF Typed
    <2>5. ASSUME NEW d \in Docs PROVE \A i \in DOMAIN rows[d] : rows[d][i] \in Texts
      <3>1. PICK I \in SUBSET Nat : rows[d] \in [I -> Texts]
        BY <2>1 DEF Typed, RowSets
      <3> QED
        BY <3>1
    <2> QED
      BY <2>1, <2>2, <2>3, <2>4, <2>5 DEF RunTypeOK, Typed, Decided
  <1> QED
    BY <1>1, Invariance, PTL

(* A checkpoint of a clean document promises only what is stored: the run   *)
(* that resumes after it finds the rows and vectors of every page before.   *)
THEOREM CheckpointsAreCovered ==
    ASSUME \A d \in Docs : Legible(d) PROVE Spec => []CheckpointCovered
  <1>1. ASSUME \A d \in Docs \ marred : Legible(d) => DocRight(d) PROVE CheckpointCovered
    BY <1>1 DEF DocRight, CheckpointRight, Covered, Searchable, CheckpointCovered
  <1> QED
    BY <1>1, DocumentsRight, PTL

(* A clean document that is completed and settled has the text of all its   *)
(* parts in its rows, in order, each once: however many runs failed, were   *)
(* resumed from a checkpoint, or lost it.                                   *)
THEOREM CompletedAreWhole ==
    ASSUME \A d \in Docs : Legible(d) PROVE Spec => []CompletedIsWhole
  <1>1. ASSUME IInv PROVE CompletedIsWhole
    <2> SUFFICES ASSUME NEW d \in Docs \ marred, Settled(d) PROVE Whole(d)
      BY DEF CompletedIsWhole
    <2>1. DocRight(d) /\ Typed
      BY <1>1 DEF IInv, Spoilt
    <2>2. \A i \in DOMAIN rows[d] : i \in 1 .. Size(d) /\ rows[d][i] = Expected[d][i].text
      BY <2>1 DEF DocRight, RowsRight
    <2>3. \A i \in 1 .. Size(d) : i \in DOMAIN rows[d]
      BY <2>1 DEF DocRight, DoneRight, Covered
    <2>4. DOMAIN rows[d] = 1 .. Size(d) /\ DOMAIN Expected[d] = 1 .. Size(d)
      BY <2>2, <2>3, ExpectedIs
    <2>5. PICK I \in SUBSET Nat : rows[d] \in [I -> Texts]
      BY <2>1 DEF Typed, RowSets
    <2>6. rows[d] = [i \in DOMAIN rows[d] |-> rows[d][i]]
      BY <2>5
    <2>7. rows[d] = [i \in 1 .. Size(d) |-> Expected[d][i].text]
      BY <2>2, <2>4, <2>6
    <2> QED
      BY <2>4, <2>7 DEF Whole
  <1> QED
    BY <1>1, Invariance, PTL

(* ... and a point in the collection for each of those rows, under its own  *)
(* id, save for pages that another PDF reads the same at the same number.   *)
THEOREM CompletedAreSearchable ==
    ASSUME \A d \in Docs : Legible(d) PROVE Spec => []CompletedIsSearchable
  <1>1. ASSUME \A d \in Docs \ marred : Legible(d) => DocRight(d) PROVE CompletedIsSearchable
    <2> SUFFICES ASSUME NEW d \in Docs \ marred, Settled(d), NEW i \in DOMAIN Key[d]
                 PROVE  Found(d, i) \/ Shared(d, i)
      BY DEF CompletedIsSearchable
    <2>1. Covered(d, Size(d)) /\ i \in 1 .. Size(d)
      BY <1>1, ExpectedIs DEF DocRight, DoneRight
    <2> QED
      BY <2>1 DEF Covered, Searchable
  <1> QED
    BY <1>1, DocumentsRight, PTL

(* When a PDF is legible: every page either has a text layer that says what *)
(* is printed and is not sent to Tesseract, or is read right by Tesseract   *)
(* or handed to a VLM that answers.                                         *)
LEMMA LegibleWhen ==
    ASSUME NEW d \in Docs, VlmReplies # {},
           \A i \in DOMAIN Content[d] : LET p == Content[d][i]  f == Profile(p) IN
              IF InitialPath(f) # "tesseract" THEN p.layer = p.printed
              ELSE \A r \in Recognised(p) :
                      IF ShouldEscalate(r, f) THEN \A s \in VlmReplies : VlmText(s, p.printed) = p.printed
                      ELSE r.text = p.printed
    PROVE  Legible(d)
  <1> SUFFICES ASSUME Kind[d] = "pdf", NEW i \in DOMAIN Content[d]
               PROVE  Readings[d][i] = {Content[d][i].printed}
    BY DEF Legible
  <1>1. PICK p, f : p = Content[d][i] /\ f = Profile(p)
    OBVIOUS
  <1>2. Readings[d][i] = PageTexts(p, VlmReplies)
    BY <1>1 DEF Readings
  <1>3. CASE InitialPath(f) # "tesseract"
    BY <1>1, <1>2, <1>3 DEF PageTexts
  <1>4. CASE InitialPath(f) = "tesseract"
    <2> DEFINE Read(r) == IF ShouldEscalate(r, f) THEN {VlmText(s, p.printed) : s \in VlmReplies} ELSE {r.text}
    <2>1. ASSUME NEW r \in Recognised(p) PROVE Read(r) = {p.printed}
      <3>1. CASE ShouldEscalate(r, f)
        <4>1. \A s \in VlmReplies : VlmText(s, p.printed) = p.printed
          BY <1>1, <1>4, <2>1, <3>1
        <4> QED
          BY <3>1, <4>1
      <3>2. CASE ~ShouldEscalate(r, f)
        <4>1. r.text = p.printed
          BY <1>1, <1>4, <2>1, <3>2
        <4> QED
          BY <3>2, <4>1
      <3> QED
        BY <3>1, <3>2
    <2>2. Unreadable \in Recognised(p)
      BY DEF Recognised
    <2>3. PageTexts(p, VlmReplies) = UNION {Read(r) : r \in Recognised(p)}
      BY <1>1, <1>4 DEF PageTexts
    <2> HIDE DEF Read
    <2>4. UNION {Read(r) : r \in Recognised(p)} = {p.printed}
      BY <2>1, <2>2
    <2> QED
      BY <1>1, <1>2, <2>3, <2>4
  <1> QED
    BY <1>3, <1>4
=============================================================================
