---------------------------- MODULE RagQuery_proofs ----------------------------
(***************************************************************************)
(* What a query answers from was allowed, an outage of the reranker never    *)
(* empties its candidates, what it reads from the cache is stale only by an  *)
(* overlap, the LLM's permits are bounded, and the client gets the answer    *)
(* the LLM gave: for any number of requests, documents, policies, chunks and *)
(* permits, and any refusal sentence.                                       *)
(***************************************************************************)
EXTENDS RagQuery, FiniteSetTheorems, SequenceTheorems, WellFoundedInduction, TLAPS

-----------------------------------------------------------------------------
(* The inductive invariant.                                                 *)

Verdicts == {"none", "skipped", "probability", "degraded"}

(* The locals of a generator; what the guard and the text range over does   *)
(* not matter here.                                                         *)
Locals(G, O) ==
    [sparse : BOOLEAN, widened : BOOLEAN, docs : SUBSET Docs, replayed : SUBSET Docs,
     verdict : Verdicts, guard : G, out : O, thought : BOOLEAN]

Shape ==
    /\ pc \in [Queries -> Stages]
    /\ \E G, O : gen \in [Queries -> Locals(G, O)]
    /\ corpus \subseteq Docs

(* From the policy check until the answer is in the cache, a query answers   *)
(* from its candidate documents.                                            *)
Guarded == {"rerank", "gate", "generate", "stream", "account"}

CacheAllowed ==
    \A e \in cache \cup writing : e.by \in Queries /\ e.from \subseteq Permitted[e.by]

AnswersAllowed ==
    /\ \A q \in Queries : pc[q] \in Guarded => gen[q].docs \subseteq Permitted[q]
    /\ CacheAllowed

IInv == Shape /\ AnswersAllowed

LEMMA InitInv == Init => IInv
  <1> SUFFICES ASSUME Init PROVE IInv
    OBVIOUS
  <1>1. NewGen \in Locals({NewGuard}, {<<>>})
    BY DEF NewGen, Locals, Verdicts
  <1>2. gen \in [Queries -> Locals({NewGuard}, {<<>>})]
    BY <1>1 DEF Init
  <1>3. pc \in [Queries -> Stages] /\ corpus \subseteq Docs
    BY DEF Init, Stages
  <1>4. AnswersAllowed
    BY DEF Init, AnswersAllowed, CacheAllowed, Guarded
  <1> QED
    BY <1>2, <1>3, <1>4 DEF IInv, Shape

-----------------------------------------------------------------------------
(* Documents come from the collection only.                                 *)
Collects == \A p \in Queries : gen'[p].docs \subseteq gen[p].docs \cup corpus

(* One request moves: it may take other locals, and it may enter a stage    *)
(* that answers from documents only with allowed ones.                      *)
LEMMA OneMoves ==
    ASSUME IInv, NEW q \in Queries, NEW stage \in Stages,
           NEW G, NEW O, gen \in [Queries -> Locals(G, O)], NEW g \in Locals(G, O),
           Goto(q, stage),
           gen' = [gen EXCEPT ![q] = g],
           g.docs \subseteq gen[q].docs \cup corpus,
           stage \in Guarded => g.docs \subseteq Permitted[q],
           CacheAllowed', corpus' \subseteq Docs
    PROVE  IInv' /\ Collects
  <1>1. pc' \in [Queries -> Stages] /\ pc'[q] = stage /\ \A p \in Queries \ {q} : pc'[p] = pc[p]
    BY DEF Goto, IInv, Shape
  <1>2. gen' \in [Queries -> Locals(G, O)] /\ gen'[q] = g /\ \A p \in Queries \ {q} : gen'[p] = gen[p]
    OBVIOUS
  <1>3. Shape'
    BY <1>1, <1>2 DEF Shape
  <1>4. \A p \in Queries : pc'[p] \in Guarded => gen'[p].docs \subseteq Permitted[p]
    BY <1>1, <1>2 DEF IInv, AnswersAllowed, Guarded
  <1>5. Collects
    BY <1>2 DEF Collects
  <1> QED
    BY <1>3, <1>4, <1>5 DEF IInv, AnswersAllowed, CacheAllowed, Guarded

(* The request only moves on.                                               *)
LEMMA Moves ==
    ASSUME IInv, NEW q \in Queries, NEW stage \in Stages, Goto(q, stage), gen' = gen,
           stage \in Guarded => gen[q].docs \subseteq Permitted[q],
           CacheAllowed', corpus' \subseteq Docs
    PROVE  IInv' /\ Collects
  <1>1. PICK G, O : gen \in [Queries -> Locals(G, O)]
    BY DEF IInv, Shape
  <1>2. gen[q] \in Locals(G, O) /\ gen' = [gen EXCEPT ![q] = gen[q]]
    BY <1>1
  <1> QED
    BY <1>1, <1>2, OneMoves

(* Nothing the policy is about changes but the cache and the collection.    *)
LEMMA Elsewhere ==
    ASSUME IInv, pc' = pc, gen' = gen, CacheAllowed', corpus' \subseteq Docs
    PROVE  IInv' /\ Collects
  BY DEF IInv, Shape, AnswersAllowed, CacheAllowed, Collects

LEMMA StoreKept ==
    ASSUME IInv, UNCHANGED <<store, writing>>
    PROVE  CacheAllowed' /\ corpus' \subseteq Docs
  BY DEF IInv, Shape, AnswersAllowed, CacheAllowed, store

(* A request that ends drops its locals.                                    *)
LEMMA Ends ==
    ASSUME IInv, NEW q \in Queries, NEW stage \in Ended, Goto(q, stage), Drop(q),
           UNCHANGED <<store, writing>>
    PROVE  IInv' /\ Collects
  <1>1. PICK G, O : gen \in [Queries -> Locals(G, O)]
    BY DEF IInv, Shape
  <1> DEFINE G2 == G \cup {NewGuard}
             O2 == O \cup {<<>>}
  <1>2. gen \in [Queries -> Locals(G2, O2)]
    BY <1>1 DEF Locals
  <1>3. NewGen \in Locals(G2, O2) /\ NewGen.docs = {}
    BY DEF NewGen, Locals, Verdicts
  <1>4. stage \in Stages /\ stage \notin Guarded
    BY DEF Stages, Ended, Guarded
  <1>5. gen' = [gen EXCEPT ![q] = NewGen]
    BY DEF Drop
  <1> HIDE DEF G2, O2
  <1> QED
    BY <1>2, <1>3, <1>4, <1>5, OneMoves, StoreKept

-----------------------------------------------------------------------------
(* The steps before the policy check only collect candidates.               *)

LEMMA BeginInv == ASSUME IInv, NEW q \in Queries, Begin(q) PROVE IInv' /\ Collects
  <1>1. Goto(q, "embed") /\ gen' = gen /\ UNCHANGED <<store, writing>>
    BY DEF Begin
  <1> QED
    BY <1>1, Moves, StoreKept DEF Stages, Guarded

LEMMA EmbedInv == ASSUME IInv, NEW q \in Queries, Embed(q) PROVE IInv' /\ Collects
  <1>1. UNCHANGED <<store, writing>>
    BY DEF Embed
  <1>2. CASE Goto(q, "error") /\ gen' = gen
    BY <1>1, <1>2, Moves, StoreKept DEF Stages, Guarded
  <1>3. ASSUME NEW s \in BOOLEAN, gen' = [gen EXCEPT ![q].sparse = s],
               NEW stage \in {"lookup", "expand"}, Goto(q, stage)
        PROVE  IInv' /\ Collects
    <2>1. PICK G, O : gen \in [Queries -> Locals(G, O)]
      BY DEF IInv, Shape
    <2> DEFINE g == [gen[q] EXCEPT !.sparse = s]
    <2>2. g \in Locals(G, O) /\ g.docs = gen[q].docs
      BY <2>1 DEF Locals
    <2>3. stage \in Stages /\ stage \notin Guarded
      BY DEF Stages, Guarded
    <2>4. gen' = [gen EXCEPT ![q] = g]
      BY <1>3
    <2> HIDE DEF g
    <2> QED
      BY <1>1, <1>3, <2>1, <2>2, <2>3, <2>4, OneMoves, StoreKept
  <1> QED
    BY <1>2, <1>3 DEF Embed, HasSparse

LEMMA LookupInv == ASSUME IInv, NEW q \in Queries, Lookup(q) PROVE IInv' /\ Collects
  <1>1. UNCHANGED <<store, writing>>
    BY DEF Lookup
  <1>2. CASE Goto(q, "expand") /\ gen' = gen
    BY <1>1, <1>2, Moves, StoreKept DEF Stages, Guarded
  <1>3. ASSUME NEW e \in cache, gen' = [gen EXCEPT ![q].replayed = e.from], Goto(q, "publish")
        PROVE  IInv' /\ Collects
    <2>1. PICK G, O : gen \in [Queries -> Locals(G, O)]
      BY DEF IInv, Shape
    <2> DEFINE g == [gen[q] EXCEPT !.replayed = e.from]
    <2>2. e.from \subseteq Docs
      BY DocsAssumption DEF IInv, AnswersAllowed, CacheAllowed
    <2>3. g \in Locals(G, O) /\ g.docs = gen[q].docs
      BY <2>1, <2>2 DEF Locals
    <2>4. gen' = [gen EXCEPT ![q] = g]
      BY <1>3
    <2> HIDE DEF g
    <2> QED
      BY <1>1, <1>3, <2>1, <2>3, <2>4, OneMoves, StoreKept DEF Stages, Guarded
  <1> QED
    BY <1>2, <1>3 DEF Lookup

LEMMA ExpandInv == ASSUME IInv, NEW q \in Queries, Expand(q) PROVE IInv' /\ Collects
  <1>1. PICK w \in BOOLEAN : gen' = [gen EXCEPT ![q].widened = w]
    BY DEF Expand, Widens
  <1>2. PICK G, O : gen \in [Queries -> Locals(G, O)]
    BY DEF IInv, Shape
  <1> DEFINE g == [gen[q] EXCEPT !.widened = w]
  <1>3. g \in Locals(G, O) /\ g.docs = gen[q].docs
    BY <1>2 DEF Locals
  <1>4. gen' = [gen EXCEPT ![q] = g]
    BY <1>1
  <1>5. Goto(q, "retrieve") /\ UNCHANGED <<store, writing>>
    BY DEF Expand
  <1> HIDE DEF g
  <1> QED
    BY <1>2, <1>3, <1>4, <1>5, OneMoves, StoreKept DEF Stages, Guarded

LEMMA RetrieveInv == ASSUME IInv, NEW q \in Queries, Retrieve(q) PROVE IInv' /\ Collects
  <1>1. UNCHANGED <<store, writing>>
    BY DEF Retrieve
  <1>2. CASE Goto(q, "error") /\ gen' = gen
    BY <1>1, <1>2, Moves, StoreKept DEF Stages, Guarded
  <1>3. ASSUME NEW found \in SUBSET corpus,
               gen' = [gen EXCEPT ![q].docs = found, ![q].sparse = FALSE],
               NEW stage \in {"widen", "gate", "validate"}, Goto(q, stage),
               stage = "gate" => found = {}
        PROVE  IInv' /\ Collects
    <2>1. PICK G, O : gen \in [Queries -> Locals(G, O)]
      BY DEF IInv, Shape
    <2> DEFINE g == [gen[q] EXCEPT !.docs = found, !.sparse = FALSE]
    <2>2. g \in Locals(G, O) /\ g.docs = found
      BY <2>1 DEF Locals, IInv, Shape
    <2>3. stage \in Stages /\ (stage \in Guarded => g.docs \subseteq Permitted[q])
      BY <1>3, <2>2 DEF Stages, Guarded
    <2>4. gen' = [gen EXCEPT ![q] = g]
      BY <1>3, <2>1 DEF Locals
    <2> HIDE DEF g
    <2> QED
      BY <1>1, <1>3, <2>1, <2>2, <2>3, <2>4, OneMoves, StoreKept
  <1> QED
    BY <1>2, <1>3 DEF Retrieve, Search, Candidates

LEMMA RetrieveExpandedInv == ASSUME IInv, NEW q \in Queries, RetrieveExpanded(q) PROVE IInv' /\ Collects
  <1>1. PICK more \in SUBSET corpus :
           /\ gen' = [gen EXCEPT ![q].docs = @ \cup more, ![q].widened = FALSE]
           /\ Candidates(q, gen[q].docs \cup more)
    BY DEF RetrieveExpanded, Search
  <1>2. PICK G, O : gen \in [Queries -> Locals(G, O)]
    BY DEF IInv, Shape
  <1> DEFINE g == [gen[q] EXCEPT !.docs = gen[q].docs \cup more, !.widened = FALSE]
  <1>3. g \in Locals(G, O) /\ g.docs = gen[q].docs \cup more
    BY <1>2 DEF Locals, IInv, Shape
  <1>4. gen' = [gen EXCEPT ![q] = g]
    BY <1>1, <1>2 DEF Locals
  <1>5. PICK stage \in {"gate", "validate"} : Goto(q, stage) /\ (stage = "gate" => g.docs = {})
    BY <1>1, <1>3 DEF Candidates
  <1>6. UNCHANGED <<store, writing>>
    BY DEF RetrieveExpanded
  <1> HIDE DEF g
  <1> QED
    BY <1>2, <1>3, <1>4, <1>5, <1>6, OneMoves, StoreKept DEF Stages, Guarded

-----------------------------------------------------------------------------
(* The policy check and the steps that choose among what it kept.           *)

LEMMA ValidateInv == ASSUME IInv, NEW q \in Queries, Validate(q) PROVE IInv' /\ Collects
  <1>1. UNCHANGED <<store, writing>>
    BY DEF Validate
  <1>2. CASE Goto(q, "error") /\ gen' = gen
    BY <1>1, <1>2, Moves, StoreKept DEF Stages, Guarded
  <1>3. ASSUME NEW checked \in SUBSET gen[q].docs,
               gen' = [gen EXCEPT ![q].docs = Allowed(q, checked)],
               NEW stage \in {"rerank", "gate"}, Goto(q, stage)
        PROVE  IInv' /\ Collects
    <2>1. PICK G, O : gen \in [Queries -> Locals(G, O)]
      BY DEF IInv, Shape
    <2> DEFINE g == [gen[q] EXCEPT !.docs = Allowed(q, checked)]
    <2>2. g \in Locals(G, O) /\ g.docs \subseteq gen[q].docs /\ g.docs \subseteq Permitted[q]
      BY <2>1 DEF Locals, Allowed
    <2>3. stage \in Stages
      BY DEF Stages
    <2>4. gen' = [gen EXCEPT ![q] = g]
      BY <1>3
    <2> HIDE DEF g
    <2> QED
      BY <1>1, <1>3, <2>1, <2>2, <2>3, <2>4, OneMoves, StoreKept
  <1> QED
    BY <1>2, <1>3 DEF Validate

LEMMA CutShrinks == ASSUME NEW S, NEW k, NEW T \in Cut(S, k) \cup CutBest(S, k) PROVE T \subseteq S
  BY DEF Cut, CutBest

(* A step that keeps some of the documents of a request past the check.     *)
LEMMA Narrows ==
    ASSUME IInv, NEW q \in Queries, pc[q] \in Guarded, NEW stage \in Stages, Goto(q, stage),
           NEW kept \in SUBSET gen[q].docs, NEW verdict \in Verdicts,
           gen' = [gen EXCEPT ![q].docs = kept, ![q].verdict = verdict],
           UNCHANGED <<store, writing>>
    PROVE  IInv' /\ Collects
  <1>1. PICK G, O : gen \in [Queries -> Locals(G, O)]
    BY DEF IInv, Shape
  <1> DEFINE g == [gen[q] EXCEPT !.docs = kept, !.verdict = verdict]
  <1>2. g \in Locals(G, O) /\ g.docs = kept
    BY <1>1 DEF Locals
  <1>3. gen' = [gen EXCEPT ![q] = g]
    BY <1>1 DEF Locals
  <1>4. g.docs \subseteq Permitted[q]
    BY <1>2 DEF IInv, AnswersAllowed, Guarded
  <1> HIDE DEF g
  <1> QED
    BY <1>1, <1>2, <1>3, <1>4, OneMoves, StoreKept

LEMMA RerankInv == ASSUME IInv, NEW q \in Queries, Rerank(q) PROVE IInv' /\ Collects
  <1>1. PICK verdict \in {"skipped", "probability", "degraded"},
             kept \in Cut(gen[q].docs, RerankTopK) \cup CutBest(gen[q].docs, RerankTopK) :
           gen' = [gen EXCEPT ![q].docs = kept, ![q].verdict = verdict]
    BY DEF Rerank
  <1>2. kept \subseteq gen[q].docs /\ verdict \in Verdicts
    BY <1>1, CutShrinks DEF Verdicts
  <1>3. pc[q] \in Guarded /\ Goto(q, "gate") /\ UNCHANGED <<store, writing>>
    BY DEF Rerank, Guarded
  <1> QED
    BY <1>1, <1>2, <1>3, Narrows DEF Stages

LEMMA AboveShrinks == ASSUME NEW q \in Queries, NEW above \in Above(q) PROVE above \subseteq gen[q].docs
  BY CutShrinks DEF Above

LEMMA GateInv == ASSUME IInv, NEW q \in Queries, Gate(q) PROVE IInv' /\ Collects
  <1>0. PICK above \in Above(q) :
           \E kept \in Cut(above, TopK) \cup CutBest(above, TopK) :
               gen' = [gen EXCEPT ![q].docs = kept, ![q].verdict = "none"]
    BY DEF Gate
  <1>1. PICK kept \in Cut(above, TopK) \cup CutBest(above, TopK) :
           gen' = [gen EXCEPT ![q].docs = kept, ![q].verdict = "none"]
    BY <1>0
  <1>2. kept \subseteq gen[q].docs
    BY <1>1, CutShrinks, AboveShrinks
  <1>3. \E stage \in {"publish", "generate", "error"} : Goto(q, stage)
    BY DEF Gate
  <1>4. pc[q] \in Guarded /\ UNCHANGED <<store, writing>>
    BY DEF Gate, Guarded
  <1> QED
    BY <1>1, <1>2, <1>3, <1>4, Narrows DEF Stages, Verdicts

-----------------------------------------------------------------------------
(* Generating and streaming leave the documents alone.                      *)

LEMMA GenerateInv == ASSUME IInv, NEW q \in Queries, Generate(q) PROVE IInv' /\ Collects
  <1>1. Goto(q, "stream") /\ gen' = gen /\ UNCHANGED <<store, writing>> /\ pc[q] = "generate"
    BY DEF Generate
  <1>2. gen[q].docs \subseteq Permitted[q]
    BY <1>1 DEF IInv, AnswersAllowed, Guarded
  <1> QED
    BY <1>1, <1>2, Moves, StoreKept DEF Stages

LEMMA ConsumeInv == ASSUME IInv, NEW q \in Queries, Consume(q) PROVE IInv' /\ Collects
  <1>1. UNCHANGED <<store, writing>> /\ pc[q] = "stream"
    BY DEF Consume
  <1>2. PICK G, O : gen \in [Queries -> Locals(G, O)]
    BY DEF IInv, Shape
  <1>3. gen[q].docs \subseteq Permitted[q]
    BY <1>1 DEF IInv, AnswersAllowed, Guarded
  <1>4. pc' = pc => Goto(q, "stream")
    BY <1>1 DEF Goto, IInv, Shape
  <1>5. ASSUME NEW text, gen' = [gen EXCEPT ![q].out = text], Goto(q, "account")
        PROVE  IInv' /\ Collects
    <2> DEFINE g  == [gen[q] EXCEPT !.out = text]
               O2 == O \cup {text}
    <2>1. gen \in [Queries -> Locals(G, O2)]
      BY <1>2 DEF Locals
    <2>2. g \in Locals(G, O2) /\ g.docs = gen[q].docs
      BY <1>2 DEF Locals
    <2>3. gen' = [gen EXCEPT ![q] = g]
      BY <1>5
    <2> HIDE DEF g, O2
    <2> QED
      BY <1>1, <1>3, <1>5, <2>1, <2>2, <2>3, OneMoves, StoreKept DEF Stages
  <1>6. ASSUME NEW thought \in BOOLEAN, gen' = [gen EXCEPT ![q].thought = thought], pc' = pc
        PROVE  IInv' /\ Collects
    <2> DEFINE g == [gen[q] EXCEPT !.thought = thought]
    <2>1. g \in Locals(G, O) /\ g.docs = gen[q].docs
      BY <1>2 DEF Locals
    <2>2. gen' = [gen EXCEPT ![q] = g]
      BY <1>6
    <2> HIDE DEF g
    <2> QED
      BY <1>1, <1>2, <1>3, <1>4, <1>6, <2>1, <2>2, OneMoves, StoreKept DEF Stages
  <1>7. ASSUME NEW guard, NEW text, pc' = pc,
               gen' = [gen EXCEPT ![q].guard = guard, ![q].out = text]
        PROVE  IInv' /\ Collects
    <2> DEFINE g  == [gen[q] EXCEPT !.guard = guard, !.out = text]
               G2 == G \cup {guard}
               O2 == O \cup {text}
    <2>1. gen \in [Queries -> Locals(G2, O2)]
      BY <1>2 DEF Locals
    <2>2. g \in Locals(G2, O2) /\ g.docs = gen[q].docs
      BY <1>2 DEF Locals
    <2>3. gen' = [gen EXCEPT ![q] = g]
      BY <1>2, <1>7 DEF Locals
    <2> HIDE DEF g, G2, O2
    <2> QED
      BY <1>1, <1>3, <1>4, <1>7, <2>1, <2>2, <2>3, OneMoves, StoreKept DEF Stages
  <1> DEFINE item == Head(queue[q])
             fed  == Feed(gen[q].guard, item.text)
  <1>9. CASE gen' = [gen EXCEPT ![q].out = @ \o Finish(gen[q].guard)] /\ Goto(q, "account")
    <2>1. gen' = [gen EXCEPT ![q].out = gen[q].out \o Finish(gen[q].guard)]
      BY <1>9
    <2> QED
      BY <1>5, <1>9, <2>1
  <1>10. CASE gen' = [gen EXCEPT ![q].thought = @ \/ item.kind = "thinking"] /\ pc' = pc
    <2>1. gen' = [gen EXCEPT ![q].thought = gen[q].thought \/ item.kind = "thinking"]
      BY <1>10
    <2>2. (gen[q].thought \/ item.kind = "thinking") \in BOOLEAN
      OBVIOUS
    <2> HIDE DEF item
    <2> QED
      BY <1>6, <1>10, <2>1, <2>2
  <1>11. CASE gen' = [gen EXCEPT ![q].guard = fed.guard, ![q].out = @ \o fed.out] /\ pc' = pc
    <2>1. gen' = [gen EXCEPT ![q].guard = fed.guard, ![q].out = gen[q].out \o fed.out]
      BY <1>2, <1>11 DEF Locals
    <2> HIDE DEF fed
    <2> QED
      BY <1>7, <1>11, <2>1
  <1> QED
    BY <1>9, <1>10, <1>11 DEF Consume

(* What a request puts into the cache it was allowed to read.               *)
LEMMA AccountInv == ASSUME IInv, NEW q \in Queries, Account(q) PROVE IInv' /\ Collects
  <1>1. PICK stage \in {"error", "publish"} : Goto(q, stage)
    BY DEF Account
  <1>2. gen' = gen /\ corpus' = corpus /\ cache' = cache /\ pc[q] = "account"
    BY DEF Account, store
  <1>3. writing' = writing \/ writing' = writing \cup {Entry(q)}
    BY DEF Account
  <1>4. Entry(q).by = q /\ Entry(q).from \subseteq Permitted[q]
    BY <1>2 DEF Entry, IInv, AnswersAllowed, Guarded
  <1>5. CacheAllowed'
    BY <1>2, <1>3, <1>4 DEF CacheAllowed, IInv, AnswersAllowed
  <1>6. corpus' \subseteq Docs
    BY <1>2 DEF IInv, Shape
  <1> QED
    BY <1>1, <1>2, <1>5, <1>6, Moves DEF Stages, Guarded

LEMMA DisconnectInv == ASSUME IInv, NEW q \in Queries, Disconnect(q) PROVE IInv' /\ Collects
  BY Ends DEF Disconnect, Ended

LEMMA PublishInv == ASSUME IInv, NEW q \in Queries, Publish(q) PROVE IInv' /\ Collects
  BY Ends DEF Publish, Ended

-----------------------------------------------------------------------------
(* The LLM task, the cache and the delete endpoint.                         *)

LEMMA TaskInv ==
    ASSUME IInv, NEW q \in Queries, Resume(q) \/ Acquire(q) \/ Emit(q) \/ ThreadEnds(q)
    PROVE  IInv' /\ Collects
  <1>1. pc' = pc /\ gen' = gen /\ UNCHANGED <<store, writing>>
    BY DEF Resume, Acquire, Emit, ThreadEnds
  <1> QED
    BY <1>1, Elsewhere, StoreKept

LEMMA CacheInv ==
    ASSUME IInv, \/ \E answer \in writing : WriteCache(answer)
                 \/ \E call \in dirty : Invalidate(call)
    PROVE  IInv' /\ Collects
  <1>1. pc' = pc /\ gen' = gen /\ corpus' = corpus
    BY DEF WriteCache, Invalidate
  <1>2. cache' \cup writing' \subseteq cache \cup writing
    BY DEF WriteCache, Invalidate
  <1>3. CacheAllowed' /\ corpus' \subseteq Docs
    BY <1>1, <1>2 DEF CacheAllowed, IInv, Shape, AnswersAllowed
  <1> QED
    BY <1>1, <1>3, Elsewhere

LEMMA RemovalInv ==
    ASSUME IInv, (\E d \in Deletable : DeleteVectors(d)) \/ DeleteTenant
    PROVE  IInv' /\ Collects
  <1>1. PICK gone, calls : Removed(gone, calls)
    BY DEF DeleteVectors, DeleteTenant
  <1>2. pc' = pc /\ gen' = gen /\ cache' = cache /\ writing' = writing /\ corpus' \subseteq corpus
    BY <1>1 DEF Removed
  <1>3. CacheAllowed' /\ corpus' \subseteq Docs
    BY <1>2 DEF CacheAllowed, IInv, Shape, AnswersAllowed
  <1> QED
    BY <1>2, <1>3, Elsewhere

LEMMA StepInv == ASSUME IInv, [Next]_vars PROVE IInv' /\ Collects
  <1>1. CASE UNCHANGED vars
    <2>1. pc' = pc /\ gen' = gen /\ UNCHANGED <<store, writing>>
      BY <1>1 DEF vars
    <2> QED
      BY <2>1, Elsewhere, StoreKept
  <1>2. ASSUME NEW q \in Queries, Step(q) PROVE IInv' /\ Collects
    BY <1>2, EmbedInv, LookupInv, ExpandInv, RetrieveInv, RetrieveExpandedInv, ValidateInv,
       RerankInv, GateInv, GenerateInv, ConsumeInv, AccountInv, PublishInv DEF Step
  <1>3. ASSUME NEW q \in Queries, Begin(q) \/ Disconnect(q) PROVE IInv' /\ Collects
    BY <1>3, BeginInv, DisconnectInv
  <1> QED
    BY <1>1, <1>2, <1>3, TaskInv, CacheInv, RemovalInv DEF Next

LEMMA Invariant == Spec => []IInv
  BY InitInv, StepInv, PTL DEF Spec

-----------------------------------------------------------------------------
(* What a request replays, it looked up, and it was cleared for the level    *)
(* every entry gets.                                                        *)
ReplaysHold ==
    /\ req \in [Queries -> Ask]
    /\ \A q \in Queries : pc[q] = "lookup" => req[q].useCache
    /\ \A q \in Queries : gen[q].replayed # {} => Replays(q)
    /\ \A e \in cache \cup writing : e.level = Internal

(* A step that looks nothing up keeps what is replayed, or drops it.         *)
ReplaysNothing ==
    \A p \in Queries : gen'[p].replayed = gen[p].replayed \/ gen'[p].replayed = {}

LEMMA OneReplaysNothing ==
    ASSUME IInv, NEW q \in Queries, NEW g, gen' = [gen EXCEPT ![q] = g],
           g.replayed = gen[q].replayed \/ g.replayed = {}
    PROVE  ReplaysNothing
  BY DEF ReplaysNothing, IInv, Shape

LEMMA QuietReplays == ASSUME gen' = gen PROVE ReplaysNothing
  BY DEF ReplaysNothing

LEMMA StepReplaysNothing ==
    ASSUME IInv, NEW q \in Queries, Step(q) \/ Begin(q) \/ Disconnect(q), ~Lookup(q)
    PROVE  ReplaysNothing
  <1>0. PICK G, O : gen \in [Queries -> Locals(G, O)]
    BY DEF IInv, Shape
  <1>1. CASE Begin(q) \/ Generate(q) \/ Account(q)
    BY <1>1, QuietReplays DEF Begin, Generate, Account
  <1>2. CASE Disconnect(q) \/ Publish(q)
    <2>1. gen' = [gen EXCEPT ![q] = NewGen]
      BY <1>2 DEF Disconnect, Publish, Drop
    <2> QED
      BY <2>1, OneReplaysNothing DEF NewGen
  <1>3. CASE Embed(q)
    <2>1. ASSUME NEW s, gen' = [gen EXCEPT ![q].sparse = s] PROVE ReplaysNothing
      <3> DEFINE g == [gen[q] EXCEPT !.sparse = s]
      <3>1. g.replayed = gen[q].replayed /\ gen' = [gen EXCEPT ![q] = g]
        BY <1>0, <2>1 DEF Locals
      <3> HIDE DEF g
      <3> QED
        BY <3>1, OneReplaysNothing
    <2> QED
      BY <1>3, <2>1, QuietReplays DEF Embed
  <1>4. CASE Expand(q)
    <2>1. PICK w : gen' = [gen EXCEPT ![q].widened = w]
      BY <1>4 DEF Expand
    <2> DEFINE g == [gen[q] EXCEPT !.widened = w]
    <2>2. g.replayed = gen[q].replayed /\ gen' = [gen EXCEPT ![q] = g]
      BY <1>0, <2>1 DEF Locals
    <2> HIDE DEF g
    <2> QED
      BY <2>2, OneReplaysNothing
  <1>5. CASE Retrieve(q)
    <2>1. ASSUME NEW found, gen' = [gen EXCEPT ![q].docs = found, ![q].sparse = FALSE]
          PROVE  ReplaysNothing
      <3> DEFINE g == [gen[q] EXCEPT !.docs = found, !.sparse = FALSE]
      <3>1. g.replayed = gen[q].replayed /\ gen' = [gen EXCEPT ![q] = g]
        BY <1>0, <2>1 DEF Locals
      <3> HIDE DEF g
      <3> QED
        BY <3>1, OneReplaysNothing
    <2> QED
      BY <1>5, <2>1, QuietReplays DEF Retrieve
  <1>6. CASE RetrieveExpanded(q)
    <2>1. PICK more : gen' = [gen EXCEPT ![q].docs = @ \cup more, ![q].widened = FALSE]
      BY <1>6 DEF RetrieveExpanded
    <2> DEFINE g == [gen[q] EXCEPT !.docs = gen[q].docs \cup more, !.widened = FALSE]
    <2>2. g.replayed = gen[q].replayed /\ gen' = [gen EXCEPT ![q] = g]
      BY <1>0, <2>1 DEF Locals
    <2> HIDE DEF g
    <2> QED
      BY <2>2, OneReplaysNothing
  <1>7. CASE Validate(q)
    <2>1. ASSUME NEW kept, gen' = [gen EXCEPT ![q].docs = kept] PROVE ReplaysNothing
      <3> DEFINE g == [gen[q] EXCEPT !.docs = kept]
      <3>1. g.replayed = gen[q].replayed /\ gen' = [gen EXCEPT ![q] = g]
        BY <1>0, <2>1 DEF Locals
      <3> HIDE DEF g
      <3> QED
        BY <3>1, OneReplaysNothing
    <2> QED
      BY <1>7, <2>1, QuietReplays DEF Validate
  <1>8. CASE Rerank(q) \/ Gate(q)
    <2>1. PICK kept, verdict : gen' = [gen EXCEPT ![q].docs = kept, ![q].verdict = verdict]
      <3>1. CASE Rerank(q)
        BY <3>1 DEF Rerank
      <3>2. CASE Gate(q)
        BY <3>2 DEF Gate
      <3> QED
        BY <1>8, <3>1, <3>2
    <2> DEFINE g == [gen[q] EXCEPT !.docs = kept, !.verdict = verdict]
    <2>2. g.replayed = gen[q].replayed /\ gen' = [gen EXCEPT ![q] = g]
      BY <1>0, <2>1 DEF Locals
    <2> HIDE DEF g
    <2> QED
      BY <2>2, OneReplaysNothing
  <1>9. CASE Consume(q)
    <2>1. \E g : gen' = [gen EXCEPT ![q] = g] /\ g.replayed = gen[q].replayed
      <3> DEFINE item == Head(queue[q])
                 fed  == Feed(gen[q].guard, item.text)
                 text == gen[q].out \o Finish(gen[q].guard)
                 more == gen[q].out \o fed.out
                 yes  == gen[q].thought \/ item.kind = "thinking"
      <3>1. \/ gen' = [gen EXCEPT ![q].out = text]
            \/ gen' = [gen EXCEPT ![q].thought = yes]
            \/ gen' = [gen EXCEPT ![q].guard = fed.guard, ![q].out = more]
        BY <1>0, <1>9 DEF Consume, Locals
      <3> HIDE DEF item, fed, text, more, yes
      <3>2. CASE gen' = [gen EXCEPT ![q].out = text]
        <4> WITNESS [gen[q] EXCEPT !.out = text]
        <4> QED
          BY <1>0, <3>2 DEF Locals
      <3>3. CASE gen' = [gen EXCEPT ![q].thought = yes]
        <4> WITNESS [gen[q] EXCEPT !.thought = yes]
        <4> QED
          BY <1>0, <3>3 DEF Locals
      <3>4. CASE gen' = [gen EXCEPT ![q].guard = fed.guard, ![q].out = more]
        <4> WITNESS [gen[q] EXCEPT !.guard = fed.guard, !.out = more]
        <4> QED
          BY <1>0, <3>4 DEF Locals
      <3> QED
        BY <3>1, <3>2, <3>3, <3>4
    <2> QED
      BY <2>1, OneReplaysNothing
  <1> QED
    BY <1>1, <1>2, <1>3, <1>4, <1>5, <1>6, <1>7, <1>8, <1>9 DEF Step

LEMMA OnlyLookupReplays ==
    ASSUME IInv, [Next]_vars, ~\E q \in Queries : Lookup(q)
    PROVE  ReplaysNothing
  <1>1. CASE UNCHANGED vars
    BY <1>1, QuietReplays DEF vars
  <1>2. ASSUME NEW q \in Queries, Resume(q) \/ Acquire(q) \/ Emit(q) \/ ThreadEnds(q)
        PROVE  ReplaysNothing
    BY <1>2, QuietReplays DEF Resume, Acquire, Emit, ThreadEnds
  <1>3. CASE \/ \E answer \in writing : WriteCache(answer)
             \/ \E call \in dirty : Invalidate(call)
             \/ \E d \in Deletable : DeleteVectors(d)
             \/ DeleteTenant
    BY <1>3, QuietReplays DEF WriteCache, Invalidate, DeleteVectors, DeleteTenant, Removed
  <1> QED
    BY <1>1, <1>2, <1>3, StepReplaysNothing DEF Next

LEMMA EntriesStayInternal ==
    ASSUME ReplaysHold, [Next]_vars
    PROVE  \A e \in cache' \cup writing' : e.level = Internal
  <1>1. cache' \cup writing' \subseteq cache \cup writing \cup {Entry(q) : q \in Queries}
    <2>1. ASSUME NEW q \in Queries, Account(q)
          PROVE  cache' = cache /\ writing' \subseteq writing \cup {Entry(q)}
      BY <2>1 DEF Account, store
    <2>2. CASE \/ \E answer \in writing : WriteCache(answer)
               \/ \E call \in dirty : Invalidate(call)
               \/ \E d \in Deletable : DeleteVectors(d)
               \/ DeleteTenant
      BY <2>2 DEF WriteCache, Invalidate, DeleteVectors, DeleteTenant, Removed
    <2>3. CASE UNCHANGED <<store, writing>>
      BY <2>3 DEF store
    <2>4. ASSUME NEW q \in Queries,
                 \/ Step(q) /\ ~Account(q)
                 \/ Begin(q) \/ Resume(q) \/ Disconnect(q) \/ Acquire(q) \/ Emit(q) \/ ThreadEnds(q)
          PROVE  UNCHANGED <<store, writing>>
      BY <2>4 DEF Step, Begin, Embed, Lookup, Expand, Retrieve, RetrieveExpanded, Validate, Rerank,
         Gate, Generate, Consume, Publish, Resume, Disconnect, Acquire, Emit, ThreadEnds
    <2>5. CASE UNCHANGED vars
      BY <2>5 DEF vars, store
    <2> QED
      BY <2>1, <2>2, <2>3, <2>4, <2>5 DEF Next
  <1> QED
    BY <1>1 DEF ReplaysHold, Entry

(* A request reaches the lookup only when it asked for the cache.            *)
LEMMA LookupAsks ==
    ASSUME IInv, ReplaysHold, [Next]_vars, req' = req
    PROVE  \A q \in Queries : pc'[q] = "lookup" => req[q].useCache
  <1> SUFFICES ASSUME NEW q \in Queries, pc'[q] = "lookup", pc[q] # "lookup"
               PROVE  req[q].useCache
    BY DEF ReplaysHold
  <1>0. pc \in [Queries -> Stages]
    BY DEF IInv, Shape
  <1>1. ASSUME NEW p \in Queries, Step(p) \/ Begin(p) \/ Disconnect(p), ~Embed(p)
        PROVE  pc' = pc \/ \E stage \in Stages \ {"lookup"} : Goto(p, stage)
    <2> DEFINE Others == Stages \ {"lookup"}
    <2>1. /\ "embed" \in Others /\ "expand" \in Others /\ "retrieve" \in Others /\ "widen" \in Others
          /\ "gate" \in Others /\ "validate" \in Others /\ "rerank" \in Others /\ "generate" \in Others
          /\ "stream" \in Others /\ "account" \in Others /\ "publish" \in Others /\ "error" \in Others
          /\ "done" \in Others /\ "gone" \in Others
      BY DEF Stages, Ended
    <2> HIDE DEF Others
    <2>2. Begin(p) => pc' = pc \/ \E stage \in Others : Goto(p, stage)
      BY <2>1 DEF Begin
    <2>3. Lookup(p) => pc' = pc \/ \E stage \in Others : Goto(p, stage)
      BY <2>1 DEF Lookup
    <2>4. Expand(p) => pc' = pc \/ \E stage \in Others : Goto(p, stage)
      BY <2>1 DEF Expand
    <2>5. Retrieve(p) => pc' = pc \/ \E stage \in Others : Goto(p, stage)
      BY <2>1 DEF Retrieve, Candidates
    <2>6. RetrieveExpanded(p) => pc' = pc \/ \E stage \in Others : Goto(p, stage)
      BY <2>1 DEF RetrieveExpanded, Candidates
    <2>7. Validate(p) => pc' = pc \/ \E stage \in Others : Goto(p, stage)
      BY <2>1 DEF Validate
    <2>8. Rerank(p) => pc' = pc \/ \E stage \in Others : Goto(p, stage)
      BY <2>1 DEF Rerank
    <2>9. Gate(p) => pc' = pc \/ \E stage \in Others : Goto(p, stage)
      BY <2>1 DEF Gate
    <2>10. Generate(p) => pc' = pc \/ \E stage \in Others : Goto(p, stage)
      BY <2>1 DEF Generate
    <2>11. Consume(p) => pc' = pc \/ \E stage \in Others : Goto(p, stage)
      BY <2>1 DEF Consume
    <2>12. Account(p) => pc' = pc \/ \E stage \in Others : Goto(p, stage)
      BY <2>1 DEF Account
    <2>13. Publish(p) => pc' = pc \/ \E stage \in Others : Goto(p, stage)
      BY <2>1 DEF Publish
    <2>14. Disconnect(p) => pc' = pc \/ \E stage \in Others : Goto(p, stage)
      BY <2>1 DEF Disconnect
    <2> QED
      BY <1>1, <2>2, <2>3, <2>4, <2>5, <2>6, <2>7, <2>8, <2>9, <2>10, <2>11, <2>12, <2>13, <2>14 DEF Step, Others
  <1>2. ASSUME NEW p \in Queries, NEW stage \in Stages \ {"lookup"}, Goto(p, stage)
        PROVE  FALSE
    BY <1>0, <1>2 DEF Goto
  <1>3. pc' # pc
    OBVIOUS
  <1>4. \E p \in Queries : Step(p) \/ Begin(p) \/ Disconnect(p)
    BY <1>3 DEF Next, vars, Resume, Acquire, Emit, ThreadEnds, WriteCache, DeleteVectors, DeleteTenant,
       Removed, Invalidate
  <1>5. PICK p \in Queries : Embed(p)
    BY <1>1, <1>2, <1>3, <1>4
  <1> QED
    BY <1>0, <1>5 DEF Embed, Goto

LEMMA AsksKept == ASSUME [Next]_vars PROVE req' = req
  BY DEF Next, Step, vars, Begin, Embed, Lookup, Expand, Retrieve, RetrieveExpanded, Validate, Rerank,
     Gate, Generate, Consume, Account, Publish, Resume, Disconnect, Acquire, Emit, ThreadEnds,
     WriteCache, DeleteVectors, DeleteTenant, Removed, Invalidate

LEMMA ReplaysStep == ASSUME IInv, ReplaysHold, [Next]_vars PROVE ReplaysHold'
  <1>1. req' = req
    BY AsksKept
  <1>2. \A e \in cache' \cup writing' : e.level = Internal
    BY EntriesStayInternal
  <1>3. \A q \in Queries : pc'[q] = "lookup" => req[q].useCache
    BY <1>1, LookupAsks
  <1>4. ASSUME NEW q \in Queries, gen'[q].replayed # {} PROVE Replays(q)'
    <2>1. CASE gen'[q].replayed = gen[q].replayed
      BY <1>1, <1>4, <2>1 DEF ReplaysHold, Replays
    <2>2. CASE ~ReplaysNothing
      <3>1. PICK p \in Queries : Lookup(p)
        BY <2>2, OnlyLookupReplays
      <3>2. CASE gen' = gen
        BY <2>2, <3>2, QuietReplays
      <3>3. ASSUME NEW e \in cache, CanHit(p, e), gen' = [gen EXCEPT ![p].replayed = e.from]
            PROVE  Replays(q)'
        <4>1. PICK G, O : gen \in [Queries -> Locals(G, O)]
          BY DEF IInv, Shape
        <4>2. CASE q # p
          BY <2>1, <3>3, <4>1, <4>2
        <4>3. CASE q = p
          <5>1. gen'[q].replayed = e.from
            BY <3>3, <4>1, <4>3 DEF Locals
          <5>2. e.by \in Queries /\ e.from \subseteq Permitted[e.by] /\ e.level = Internal
            BY DEF IInv, AnswersAllowed, CacheAllowed, ReplaysHold
          <5>3. req[q].useCache
            BY <3>1, <4>3 DEF Lookup, ReplaysHold
          <5>4. Clearance[q] >= Internal
            BY <3>3, <4>3, <5>2, UsersAssumption DEF CanHit, Internal, Levels
          <5> QED
            BY <1>1, <5>1, <5>2, <5>3, <5>4 DEF Replays
        <4> QED
          BY <4>2, <4>3
      <3> QED
        BY <3>1, <3>2, <3>3 DEF Lookup
    <2> QED
      BY <1>4, <2>1, <2>2 DEF ReplaysNothing
  <1> QED
    BY <1>1, <1>2, <1>3, <1>4 DEF ReplaysHold

LEMMA ReplaysInit == Init => ReplaysHold
  <1> SUFFICES ASSUME Init PROVE ReplaysHold
    OBVIOUS
  <1>1. req \in [Queries -> Ask]
    BY RequestsAssumption DEF Init
  <1>2. \A q \in Queries : gen[q].replayed = {} /\ pc[q] # "lookup"
    BY DEF Init, NewGen
  <1>3. cache \cup writing = {}
    BY DEF Init
  <1> QED
    BY <1>1, <1>2, <1>3 DEF ReplaysHold

LEMMA PolicyFollows == IInv /\ ReplaysHold => PolicyHolds
  BY DEF IInv, AnswersAllowed, CacheAllowed, ReplaysHold, PolicyHolds, Guarded

(* Whatever branch a query takes after the policy check, no document it was *)
(* denied is in its prompt, its sources or the answer it caches (steps 6 to  *)
(* 14 of RAGService.stream, whatever is deleted, fails or disconnects).  The *)
(* documents of an answer replayed from the cache were allowed to the        *)
(* request that wrote it, and the one that reads it asked for the cache and  *)
(* is cleared for internal documents: more the writer does not provide for.  *)
THEOREM PolicyIsKept == Spec => []PolicyHolds
  <1>1. IInv /\ ReplaysHold /\ [Next]_vars => ReplaysHold'
    BY ReplaysStep
  <1> QED
    BY <1>1, Invariant, ReplaysInit, PolicyFollows, PTL DEF Spec

-----------------------------------------------------------------------------
(* An outage of the reranker never empties the candidates.                  *)

LEMMA CutEmpty ==
    ASSUME NEW S, IsFiniteSet(S), NEW k \in Nat \ {0}, {} \in Cut(S, k) \cup CutBest(S, k)
    PROVE  S = {}
  <1>1. {} \in Cut(S, k)
    BY DEF CutBest
  <1>2. Cardinality({}) = IF Cardinality(S) < k THEN Cardinality(S) ELSE k
    BY <1>1 DEF Cut
  <1>3. Cardinality({}) = 0 /\ Cardinality(S) \in Nat
    BY FS_EmptySet, FS_CardinalityType
  <1>4. Cardinality(S) = 0
    BY <1>2, <1>3
  <1> QED
    BY <1>4, FS_EmptySet

(* No other step turns a request away after the gate.                       *)
LEMMA OnlyGate ==
    ASSUME IInv, [Next]_vars, NEW q \in Queries, pc[q] = "gate", pc'[q] = "publish"
    PROVE  Gate(q)
  <1>1. CASE pc' = pc
    BY <1>1
  <1>2. ASSUME NEW p \in Queries, p # q, NEW stage, Goto(p, stage) PROVE FALSE
    BY <1>2 DEF Goto, IInv, Shape
  <1>3. ASSUME NEW stage \in Stages \ {"publish"}, Goto(q, stage) PROVE FALSE
    BY <1>3 DEF Goto, IInv, Shape
  <1>4. ASSUME NEW p \in Queries, Step(p) PROVE Gate(q)
    <2>1. CASE p = q
      BY <1>4, <2>1 DEF Step, Embed, Lookup, Expand, Retrieve, RetrieveExpanded, Validate, Rerank,
                        Generate, Consume, Account, Publish
    <2>2. CASE p # q
      <3>1. pc' = pc \/ \E stage : Goto(p, stage)
        BY <1>4 DEF Step, Embed, Lookup, Expand, Retrieve, RetrieveExpanded, Candidates, Validate,
                    Rerank, Gate, Generate, Consume, Account, Publish
      <3> QED
        BY <1>1, <1>2, <2>2, <3>1
    <2> QED
      BY <2>1, <2>2
  <1>5. ASSUME NEW p \in Queries, Begin(p) \/ Disconnect(p) PROVE FALSE
    <2>1. \E stage \in {"embed", "gone"} : Goto(p, stage)
      BY <1>5 DEF Begin, Disconnect
    <2> QED
      BY <1>2, <1>3, <2>1 DEF Stages, Ended
  <1>6. CASE \E p \in Queries : Resume(p) \/ Acquire(p) \/ Emit(p) \/ ThreadEnds(p)
    BY <1>1, <1>6 DEF Resume, Acquire, Emit, ThreadEnds
  <1>7. CASE \/ \E answer \in writing : WriteCache(answer)
             \/ \E call \in dirty : Invalidate(call)
             \/ \E d \in Deletable : DeleteVectors(d)
             \/ DeleteTenant
    BY <1>1, <1>7 DEF WriteCache, Invalidate, DeleteVectors, DeleteTenant, Removed
  <1>8. CASE UNCHANGED vars
    BY <1>1, <1>8 DEF vars
  <1> QED
    BY <1>4, <1>5, <1>6, <1>7, <1>8 DEF Next

LEMMA AbstainsBelowTau ==
    ASSUME TopK \in Nat \ {0}, IInv, NEW q \in Queries, Gate(q), gen[q].docs # {}, gen'[q].docs = {}
    PROVE  gen[q].verdict = "probability" /\ gen[q].docs \cap Relevant = {}
  <1>1. PICK G, O : gen \in [Queries -> Locals(G, O)]
    BY DEF IInv, Shape
  <1>2. PICK above \in Above(q) :
           \E kept \in Cut(above, TopK) \cup CutBest(above, TopK) :
               gen' = [gen EXCEPT ![q].docs = kept, ![q].verdict = "none"]
    BY DEF Gate
  <1>3. {} \in Cut(above, TopK) \cup CutBest(above, TopK)
    BY <1>1, <1>2 DEF Locals
  <1>4. above \subseteq Docs
    BY <1>1, AboveShrinks DEF Locals
  <1>5. IsFiniteSet(above)
    BY <1>4, DocsAssumption, FS_Subset
  <1>6. above = {}
    BY <1>3, <1>5, CutEmpty
  <1>7. Scores(gen[q].verdict)
    BY <1>2, <1>6 DEF Above
  <1>8. gen[q].docs \cap Relevant = {}
    <2>1. SUFFICES ASSUME gen[q].docs \cap Relevant # {} PROVE FALSE
      OBVIOUS
    <2>2. above = gen[q].docs \cap Context
      BY <1>7, <2>1 DEF Above
    <2> QED
      BY <1>6, <2>1, <2>2, DocsAssumption
  <1> QED
    BY <1>7, <1>8 DEF Scores

(* "No relevant documents" with candidates that passed the policy takes a    *)
(* probability below tau, in any outage of the reranker (steps 7 and 8).     *)
(* A request may ask for zero documents; then it gets none.                  *)
THEOREM OutageKeepsCandidates == ASSUME TopK \in Nat \ {0} PROVE Spec => OutageNeverAbstains
  <1>1. ASSUME IInv, [Next]_vars
        PROVE  [\A q \in Queries :
                  pc[q] = "gate" /\ pc'[q] = "publish" /\ gen[q].docs # {} /\ gen'[q].docs = {}
                     => gen[q].verdict = "probability" /\ gen[q].docs \cap Relevant = {}]_vars
    BY <1>1, OnlyGate, AbstainsBelowTau
  <1> QED
    BY <1>1, Invariant, PTL DEF Spec, OutageNeverAbstains

-----------------------------------------------------------------------------
(* Which stale answers the cache may hold.                                  *)

(* A document that is gone was held by whoever still answers from it, or by  *)
(* a cache write that has not run, when it went.                            *)
Remembered ==
    /\ overlap \in [Docs -> SUBSET Queries]
    /\ \A a \in cache \cup writing : a.by \in Queries /\ a.from \subseteq Docs
    /\ \A q \in Queries : \A d \in gen[q].docs : d \notin corpus => q \in overlap[d]
    /\ \A w \in writing : \A d \in w.from : d \notin corpus => w.by \in overlap[d]

SInv == IInv /\ Remembered /\ StaleOnlyByOverlap

LEMMA SInvInit == Init => SInv
  <1> SUFFICES ASSUME Init PROVE SInv
    OBVIOUS
  <1>1. \A q \in Queries : gen[q].docs = {}
    BY DEF Init, NewGen
  <1> QED
    BY <1>1, InitInv DEF SInv, Init, Remembered, StaleOnlyByOverlap

LEMMA HeldInDocs == ASSUME IInv, NEW q \in Queries PROVE gen[q].docs \subseteq Docs
  <1>1. PICK G, O : gen \in [Queries -> Locals(G, O)]
    BY DEF IInv, Shape
  <1> QED
    BY <1>1 DEF Locals

(* Steps that leave the cache and the collection alone.                     *)
LEMMA StaleKept ==
    ASSUME SInv, IInv', Collects, UNCHANGED <<store, writing>>
    PROVE  SInv'
  BY DEF SInv, Remembered, StaleOnlyByOverlap, Collects, store

LEMMA StaleAccount == ASSUME SInv, NEW q \in Queries, Account(q) PROVE SInv'
  <1>1. IInv'
    BY AccountInv DEF SInv
  <1>2. gen' = gen /\ UNCHANGED store
    BY DEF Account
  <1>3. writing' = writing \/ writing' = writing \cup {Entry(q)}
    BY DEF Account
  <1>4. Entry(q).by = q /\ Entry(q).from = gen[q].docs /\ gen[q].docs \subseteq Docs
    BY HeldInDocs DEF Entry, SInv
  <1> QED
    BY <1>1, <1>2, <1>3, <1>4 DEF SInv, Remembered, StaleOnlyByOverlap, store

LEMMA StaleWrite == ASSUME SInv, NEW answer \in writing, WriteCache(answer) PROVE SInv'
  <1>1. IInv'
    BY CacheInv DEF SInv
  <1>2. gen' = gen /\ corpus' = corpus /\ dirty' = dirty /\ overlap' = overlap
    BY DEF WriteCache
  <1>3. writing' \subseteq writing /\ cache' \subseteq cache \cup {answer}
    BY DEF WriteCache
  <1> QED
    BY <1>1, <1>2, <1>3 DEF SInv, Remembered, StaleOnlyByOverlap

LEMMA StaleInvalidate == ASSUME SInv, NEW call \in dirty, Invalidate(call) PROVE SInv'
  <1>1. IInv'
    BY CacheInv DEF SInv
  <1>2. gen' = gen /\ corpus' = corpus /\ overlap' = overlap /\ writing' = writing /\ cache' = {}
    BY DEF Invalidate
  <1> QED
    BY <1>1, <1>2 DEF SInv, Remembered, StaleOnlyByOverlap

(* The call that removes documents is dirty until it has invalidated.       *)
LEMMA StaleRemoved ==
    ASSUME SInv, NEW gone \in SUBSET corpus, Removed(gone, dirty \cup {gone}), IInv'
    PROVE  SInv'
  <1>1. /\ gen' = gen /\ writing' = writing /\ cache' = cache
        /\ corpus' = corpus \ gone /\ dirty' = dirty \cup {gone}
        /\ overlap' = [d \in Docs |-> IF d \in gone THEN Holding(d) ELSE overlap[d]]
    BY DEF Removed
  <1>2. \A d \in Docs : Holding(d) \subseteq Queries
    BY DEF Holding, SInv, Remembered
  <1>3. overlap' \in [Docs -> SUBSET Queries]
    BY <1>1, <1>2 DEF SInv, Remembered
  <1>4. \A q \in Queries : \A d \in gen[q].docs : d \in Docs /\ (d \in gone => q \in Holding(d))
    BY HeldInDocs DEF Holding, SInv
  <1>5. \A w \in writing : \A d \in w.from : d \in Docs /\ (d \in gone => w.by \in Holding(d))
    BY DEF Holding, SInv, Remembered
  <1>6. Remembered'
    BY <1>1, <1>3, <1>4, <1>5 DEF SInv, Remembered
  <1>7. StaleOnlyByOverlap'
    <2> SUFFICES ASSUME NEW e \in cache, NEW d \in e.from, d \notin corpus' \cup UNION dirty'
                 PROVE  e.by \in overlap'[d]
      BY <1>1 DEF StaleOnlyByOverlap
    <2>1. d \notin gone /\ d \notin corpus \cup UNION dirty /\ d \in Docs
      BY <1>1 DEF SInv, Remembered
    <2> QED
      BY <1>1, <2>1 DEF SInv, StaleOnlyByOverlap
  <1> QED
    BY <1>6, <1>7 DEF SInv

(* The steps that touch the cache or the collection.                        *)
LEMMA StoreSteps ==
    ASSUME [Next]_vars
    PROVE  \/ UNCHANGED <<store, writing>>
           \/ \E q \in Queries : Account(q)
           \/ \E answer \in writing : WriteCache(answer)
           \/ \E call \in dirty : Invalidate(call)
           \/ \E gone \in SUBSET corpus : Removed(gone, dirty \cup {gone})
  <1>1. ASSUME NEW q \in Queries, Step(q) PROVE UNCHANGED <<store, writing>> \/ Account(q)
    BY <1>1 DEF Step, Embed, Lookup, Expand, Retrieve, RetrieveExpanded, Validate, Rerank, Gate, Generate,
                Consume, Publish
  <1>2. ASSUME NEW q \in Queries,
               Begin(q) \/ Resume(q) \/ Disconnect(q) \/ Acquire(q) \/ Emit(q) \/ ThreadEnds(q)
        PROVE  UNCHANGED <<store, writing>>
    BY <1>2 DEF Begin, Resume, Disconnect, Acquire, Emit, ThreadEnds
  <1>3. ASSUME NEW d \in Deletable, DeleteVectors(d)
        PROVE  {d} \in SUBSET corpus /\ Removed({d}, dirty \cup {{d}})
    BY <1>3 DEF DeleteVectors
  <1>4. CASE DeleteTenant
    BY <1>4 DEF DeleteTenant, Dropped
  <1>5. CASE UNCHANGED vars
    BY <1>5 DEF vars
  <1> QED
    BY <1>1, <1>2, <1>3, <1>4, <1>5 DEF Next

LEMMA SInvStep == ASSUME SInv, [Next]_vars PROVE SInv'
  <1>1. IInv' /\ Collects
    BY StepInv DEF SInv
  <1> QED
    BY <1>1, StoreSteps, StaleKept, StaleAccount, StaleWrite, StaleInvalidate, StaleRemoved

(* A cached answer citing a document whose deletion is complete was written  *)
(* by a request that held the document when it was deleted: the delete      *)
(* endpoint's invalidation after the vectors leaves no other stale entry.    *)
THEOREM StaleAnswersOverlapped == Spec => []StaleOnlyByOverlap
  <1>1. SInv => StaleOnlyByOverlap
    BY DEF SInv
  <1> QED
    BY SInvInit, SInvStep, <1>1, PTL DEF Spec

-----------------------------------------------------------------------------
(* The semaphore and the types.                                             *)

(* Before its LLM task is created a request has none.                       *)
Early == {"idle", "embed", "lookup", "expand", "retrieve", "widen", "validate", "rerank",
          "gate", "generate"}

(* A call that has no permit yet has no thread, and nothing was posted for   *)
(* its request to be parked at.                                             *)
Unstarted(q) == llm[q] \in {"none", "waiting"}

Line ==
    /\ llm \in [Queries -> {"none", "waiting", "running", "done"}]
    /\ thread \in [Queries -> {"none", "busy", "finished"}]
    /\ parked \in [Queries -> BOOLEAN]
    /\ \E S : queue \in [Queries -> S]
    /\ waiters \in Seq(Queries) /\ IsInjective(waiters)
    /\ ToSet(waiters) = {q \in Queries : llm[q] = "waiting"}
    /\ \A q \in Queries : pc[q] \in Early => llm[q] = "none"
    /\ \A q \in Queries : Unstarted(q) => thread[q] = "none" /\ queue[q] = <<>> /\ ~parked[q]
    /\ \A q \in Running : thread[q] = "busy"
    /\ Cardinality(Running) <= Limit

Contents ==
    /\ req \in [Queries -> Ask]
    /\ lastMode \in {"", "hybrid", "dense"}
    /\ lastTrace \in Queries \cup {None}
    /\ dirty \subseteq SUBSET Docs
    /\ cache \subseteq Answer /\ writing \subseteq Answer

TInv == IInv /\ Line /\ Contents

LEMMA TInvTypeOK == TInv => TypeOK
  <1> SUFFICES ASSUME TInv PROVE TypeOK
    OBVIOUS
  <1>1. PICK G, O : gen \in [Queries -> Locals(G, O)]
    BY DEF TInv, IInv, Shape
  <1>2. \A q \in Queries : /\ gen[q].docs \subseteq Docs /\ gen[q].replayed \subseteq Docs
                         /\ gen[q].verdict \in Verdicts
    BY <1>1 DEF Locals
  <1> QED
    BY <1>2 DEF TInv, IInv, Shape, Line, Contents, TypeOK, Verdicts

LEMMA SeqElements ==
    ASSUME NEW s \in Seq(Queries)
    PROVE  /\ ToSet(s) = {s[i] : i \in 1 .. Len(s)}
           /\ IsInjective(s) <=> \A i, j \in 1 .. Len(s) : s[i] = s[j] => i = j
  <1>1. DOMAIN s = 1 .. Len(s)
    OBVIOUS
  <1> QED
    BY <1>1, Zenon DEF ToSet, IsInjective

LEMMA RunningFinite == IsFiniteSet(Running) /\ Cardinality(Running) \in Nat
  <1>1. IsFiniteSet(Running)
    BY LimitAssumption, FS_Subset DEF Running
  <1> QED
    BY <1>1, FS_CardinalityType

LEMMA TInvInit == Init => TInv
  <1> SUFFICES ASSUME Init PROVE TInv
    OBVIOUS
  <1>1. Running = {}
    BY DEF Init, Running
  <1>2. Cardinality(Running) <= Limit
    BY <1>1, FS_EmptySet, LimitAssumption
  <1>3. queue \in [Queries -> {<<>>}]
    BY DEF Init
  <1>4. waiters \in Seq(Queries) /\ IsInjective(waiters) /\ ToSet(waiters) = {}
    <2>1. waiters \in Seq(Queries) /\ Len(waiters) = 0
      BY EmptySeq DEF Init
    <2>2. 1 .. Len(waiters) = {}
      BY <2>1
    <2> QED
      BY <2>1, <2>2, SeqElements, Zenon
  <1>5. Line
    BY <1>1, <1>2, <1>3, <1>4 DEF Init, Line, Unstarted
  <1>6. Contents
    BY RequestsAssumption DEF Init, Contents
  <1> QED
    BY <1>5, <1>6, InitInv DEF TInv

(* Steps outside the task: queues and marks change for started calls only.  *)
LEMMA LineQuiet ==
    ASSUME Line, UNCHANGED task, parked' \in [Queries -> BOOLEAN], \E S : queue' \in [Queries -> S],
           \A q \in Queries : pc'[q] \in Early => pc[q] \in Early,
           \A q \in Queries : Unstarted(q) => queue'[q] = <<>> /\ ~parked'[q]
    PROVE  Line'
  BY DEF Line, Unstarted, Running, task

(* A request moves on, never back before its call.                          *)
LEMMA LineMoves ==
    ASSUME IInv, Line, NEW q \in Queries, NEW stage \in Stages, Goto(q, stage),
           stage \in Early => pc[q] \in Early, UNCHANGED <<task, queue, parked>>
    PROVE  Line'
  <1>1. \A p \in Queries : pc'[p] \in Early => pc[p] \in Early
    BY DEF Goto, IInv, Shape
  <1>2. UNCHANGED task /\ queue' = queue /\ parked' = parked
    OBVIOUS
  <1>3. parked' \in [Queries -> BOOLEAN] /\ \E S : queue' \in [Queries -> S]
    BY <1>2 DEF Line
  <1>4. \A p \in Queries : Unstarted(p) => queue'[p] = <<>> /\ ~parked'[p]
    BY <1>2 DEF Line
  <1> QED
    BY <1>1, <1>2, <1>3, <1>4, LineQuiet

LEMMA EarlyStages == Early \subseteq Stages /\ Ended \cap Early = {}
  BY DEF Early, Stages, Ended

LEMMA LineStep ==
    ASSUME IInv, Line, NEW q \in Queries,
           \/ Begin(q) \/ Embed(q) \/ Lookup(q) \/ Expand(q) \/ Retrieve(q) \/ RetrieveExpanded(q)
           \/ Validate(q) \/ Rerank(q) \/ Gate(q) \/ Account(q)
    PROVE  Line'
  <1>1. UNCHANGED <<task, queue, parked>>
    BY DEF Begin, Embed, Lookup, Expand, Retrieve, RetrieveExpanded, Validate, Rerank, Gate, Account,
           posts
  <1>2. CASE pc[q] \in Early
    <2>1. \E stage \in Stages : Goto(q, stage)
      BY DEF Begin, Embed, Lookup, Expand, Retrieve, RetrieveExpanded, Candidates, Validate, Rerank,
             Gate, Account, Stages
    <2> QED
      BY <1>1, <1>2, <2>1, LineMoves
  <1>3. CASE Account(q)
    <2>1. \E stage \in {"error", "publish"} : Goto(q, stage)
      BY <1>3 DEF Account
    <2> QED
      BY <1>1, <2>1, LineMoves DEF Stages, Early
  <1>4. pc[q] \in Early \/ Account(q)
    BY DEF Begin, Embed, Lookup, Expand, Retrieve, RetrieveExpanded, Validate, Rerank, Gate, Early
  <1> QED
    BY <1>2, <1>3, <1>4

LEMMA LineGenerate == ASSUME IInv, Line, NEW q \in Queries, Generate(q) PROVE Line'
  <1>1. /\ pc[q] = "generate" /\ llm' = [llm EXCEPT ![q] = "waiting"] /\ waiters' = Append(waiters, q)
        /\ thread' = thread /\ queue' = queue /\ parked' = parked
    BY DEF Generate, posts
  <1>2. \A p \in Queries : pc'[p] \in Early => p # q /\ pc[p] \in Early
    BY DEF Generate, Goto, IInv, Shape, Early
  <1>3. llm[q] = "none" /\ q \notin ToSet(waiters)
    BY <1>1 DEF Line, Early
  <1>4. waiters' \in Seq(Queries)
    BY <1>1 DEF Line
  <1>5. /\ Len(waiters') = Len(waiters) + 1 /\ waiters'[Len(waiters) + 1] = q
        /\ \A i \in 1 .. Len(waiters) : waiters'[i] = waiters[i]
    BY <1>1 DEF Line
  <1>6. IsInjective(waiters')
    BY <1>3, <1>4, <1>5 DEF Line, IsInjective, ToSet
  <1>7. ToSet(waiters') = ToSet(waiters) \cup {q}
    <2>1. waiters \in Seq(Queries) /\ Len(waiters) \in Nat
      BY DEF Line
    <2>2. 1 .. Len(waiters') = (1 .. Len(waiters)) \cup {Len(waiters) + 1}
      BY <1>5, <2>1
    <2>3. {waiters'[i] : i \in 1 .. Len(waiters')} = {waiters[i] : i \in 1 .. Len(waiters)} \cup {q}
      BY <1>5, <2>2
    <2> QED
      BY <1>4, <2>1, <2>3, SeqElements
  <1>8. Running' = Running
    BY <1>1, <1>3 DEF Running, Line
  <1>9. ToSet(waiters') = {p \in Queries : llm'[p] = "waiting"}
    BY <1>1, <1>7 DEF Line
  <1> QED
    BY <1>1, <1>2, <1>3, <1>4, <1>6, <1>8, <1>9 DEF Line, Unstarted

LEMMA LineAcquire == ASSUME IInv, Line, NEW q \in Queries, Acquire(q) PROVE Line'
  <1>1. /\ waiters # <<>> /\ Head(waiters) = q /\ waiters' = Tail(waiters)
        /\ llm' = [llm EXCEPT ![q] = "running"] /\ thread' = [thread EXCEPT ![q] = "busy"]
        /\ pc' = pc /\ queue' = queue /\ parked' = parked /\ Cardinality(Running) < Limit
    BY DEF Acquire, posts
  <1>2. waiters \in Seq(Queries) /\ Len(waiters) >= 1 /\ waiters[1] = q
    BY <1>1 DEF Line
  <1>3. llm[q] = "waiting"
    BY <1>2 DEF Line, ToSet
  <1>4. /\ waiters' \in Seq(Queries) /\ Len(waiters') = Len(waiters) - 1
        /\ \A i \in 1 .. Len(waiters) - 1 : waiters'[i] = waiters[i + 1]
    BY <1>1, <1>2
  <1>5. IsInjective(waiters')
    <2>1. \A i, j \in 1 .. Len(waiters) : waiters[i] = waiters[j] => i = j
      BY <1>2, SeqElements DEF Line
    <2>2. ASSUME NEW i \in 1 .. Len(waiters'), NEW j \in 1 .. Len(waiters'), waiters'[i] = waiters'[j]
          PROVE  i = j
      <3>1. /\ i + 1 \in 1 .. Len(waiters) /\ j + 1 \in 1 .. Len(waiters)
            /\ waiters[i + 1] = waiters[j + 1]
        BY <1>2, <1>4, <2>2
      <3>2. i + 1 = j + 1
        BY <2>1, <3>1
      <3> QED
        BY <3>2
    <2> QED
      BY <1>4, <2>2, SeqElements
  <1>6. ToSet(waiters') = ToSet(waiters) \ {q}
    <2>1. \A i \in 1 .. Len(waiters) : waiters[i] = q => i = 1
      BY <1>2 DEF Line, IsInjective
    <2>2. ToSet(waiters') \subseteq ToSet(waiters) \ {q}
      BY <1>2, <1>4, <2>1 DEF ToSet
    <2>3. ASSUME NEW p \in ToSet(waiters) \ {q} PROVE p \in ToSet(waiters')
      <3>1. PICK i \in 1 .. Len(waiters) : waiters[i] = p
        BY <1>2, <2>3 DEF ToSet
      <3>2. i # 1 /\ i - 1 \in 1 .. Len(waiters') /\ waiters'[i - 1] = p
        BY <1>2, <1>4, <2>3, <3>1
      <3> QED
        BY <1>4, <3>2 DEF ToSet
    <2> QED
      BY <2>2, <2>3
  <1>7. ToSet(waiters') = {p \in Queries : llm'[p] = "waiting"}
    BY <1>1, <1>6 DEF Line
  <1>8. Running' = Running \cup {q}
    BY <1>1 DEF Running, Line
  <1>9. Cardinality(Running') <= Limit
    <2>1. q \notin Running
      BY <1>3 DEF Running
    <2>2. Cardinality(Running') = Cardinality(Running) + 1
      BY <1>8, <2>1, RunningFinite, FS_AddElement
    <2> QED
      BY <1>1, <2>2, RunningFinite, LimitAssumption
  <1>10. \A p \in Running' : thread'[p] = "busy"
    BY <1>1, <1>8 DEF Line, Running
  <1>11. \A p \in Queries : pc'[p] \in Early => llm'[p] = "none"
    BY <1>1, <1>3 DEF Line
  <1> QED
    BY <1>1, <1>4, <1>5, <1>7, <1>9, <1>10, <1>11 DEF Line, Unstarted

LEMMA RunningShrinks == ASSUME Cardinality(Running) <= Limit, Running' \subseteq Running
                        PROVE  Cardinality(Running') <= Limit
  <1>1. IsFiniteSet(Running') /\ Cardinality(Running') <= Cardinality(Running)
    BY RunningFinite, FS_Subset
  <1>2. Cardinality(Running') \in Nat
    BY <1>1, FS_CardinalityType
  <1> QED
    BY <1>1, <1>2, RunningFinite, LimitAssumption

(* A call that has a permit, or had one, returns or is cancelled.           *)
LEMMA LineReleases ==
    ASSUME Line, NEW q \in Queries, ~Unstarted(q), NEW t \in {"none", "busy", "finished"},
           NEW l \in {"running", "done"}, l = "running" => t = "busy" /\ llm[q] = "running",
           llm' = [llm EXCEPT ![q] = l], thread' = [thread EXCEPT ![q] = t], waiters' = waiters,
           parked' \in [Queries -> BOOLEAN], \E S : queue' \in [Queries -> S],
           \A p \in Queries : pc'[p] \in Early => pc[p] \in Early,
           \A p \in Queries : Unstarted(p) => queue'[p] = <<>> /\ ~parked'[p]
    PROVE  Line'
  <1>1. /\ llm' \in [Queries -> {"none", "waiting", "running", "done"}]
        /\ thread' \in [Queries -> {"none", "busy", "finished"}]
    BY DEF Line
  <1>2. Running' \subseteq Running
    BY DEF Line, Running
  <1>3. Cardinality(Running') <= Limit
    BY <1>2, RunningShrinks DEF Line
  <1>4. \A p \in Running' : thread'[p] = "busy"
    BY DEF Line, Running
  <1>5. {p \in Queries : llm'[p] = "waiting"} = {p \in Queries : llm[p] = "waiting"}
    BY DEF Line, Unstarted
  <1>6. \A p \in Queries : Unstarted(p)' => Unstarted(p) /\ p # q
    BY DEF Line, Unstarted
  <1>7. \A p \in Queries : pc'[p] \in Early => llm'[p] = "none"
    BY DEF Line, Unstarted
  <1>8. \A p \in Queries : Unstarted(p)' => thread'[p] = "none" /\ queue'[p] = <<>> /\ ~parked'[p]
    BY <1>6 DEF Line
  <1> QED
    BY <1>1, <1>3, <1>4, <1>5, <1>7, <1>8 DEF Line

LEMMA LineTask ==
    ASSUME IInv, Line, Contents, NEW q \in Queries,
           Consume(q) \/ Resume(q) \/ Emit(q) \/ ThreadEnds(q) \/ Publish(q) \/ Disconnect(q)
    PROVE  Line'
  <1>1. PICK S : queue \in [Queries -> S]
    BY DEF Line
  <1>2. ASSUME NEW stage \in Stages \ Early, Goto(q, stage)
        PROVE  \A p \in Queries : pc'[p] \in Early => pc[p] \in Early
    BY <1>2 DEF Goto, IInv, Shape
  <1>3. ASSUME NEW items, queue' = [queue EXCEPT ![q] = items], ~Unstarted(q) \/ items = <<>>
        PROVE  /\ \E T : queue' \in [Queries -> T]
               /\ \A p \in Queries : Unstarted(p) => queue'[p] = <<>>
    <2>1. queue' \in [Queries -> S \cup {items}]
      BY <1>1, <1>3
    <2>2. \A p \in Queries : Unstarted(p) => queue'[p] = <<>>
      BY <1>1, <1>3 DEF Line
    <2> QED
      BY <2>1, <2>2
  <1>4. ASSUME NEW yes \in BOOLEAN, Park(q, yes), ~Unstarted(q) \/ ~yes
        PROVE  parked' \in [Queries -> BOOLEAN] /\ \A p \in Queries : Unstarted(p) => ~parked'[p]
    BY <1>4 DEF Park, Line
  <1>5. parked' = parked => /\ parked' \in [Queries -> BOOLEAN]
                            /\ \A p \in Queries : Unstarted(p) => ~parked'[p]
    BY DEF Line
  <1>6. queue' = queue => /\ \E T : queue' \in [Queries -> T]
                          /\ \A p \in Queries : Unstarted(p) => queue'[p] = <<>>
    BY DEF Line
  <1>7. pc' = pc => \A p \in Queries : pc'[p] \in Early => pc[p] \in Early
    OBVIOUS
  <1>8. "account" \in Stages \ Early /\ "done" \in Stages \ Early /\ "gone" \in Stages \ Early
    BY DEF Stages, Ended, Early
  <1>9. CASE Consume(q)
    <2>1. ~Unstarted(q)
      BY <1>9 DEF Consume, Line
    <2>2. UNCHANGED task /\ queue' = [queue EXCEPT ![q] = Tail(queue[q])]
      BY <1>9, <1>1 DEF Consume
    <2>3. pc' = pc \/ Goto(q, "account")
      BY <1>9 DEF Consume
    <2>4. parked' = parked \/ \E yes \in BOOLEAN : Park(q, yes)
      <3>1. \/ parked' = parked
            \/ Park(q, req[q].sse)
            \/ Park(q, req[q].sse /\ Feed(gen[q].guard, Head(queue[q]).text).out # <<>>)
        BY <1>9 DEF Consume
      <3>2. req[q].sse \in BOOLEAN
        BY DEF Contents, Ask
      <3> QED
        BY <3>1, <3>2
    <2> QED
      BY <1>2, <1>3, <1>4, <1>5, <1>7, <1>8, <2>1, <2>2, <2>3, <2>4, LineQuiet
  <1>10. CASE Resume(q)
    <2>1. UNCHANGED task /\ queue' = queue /\ pc' = pc /\ Park(q, FALSE)
      BY <1>10 DEF Resume, posts
    <2> QED
      BY <1>4, <1>6, <1>7, <2>1, LineQuiet
  <1>11. CASE Emit(q)
    <2>1. ~Unstarted(q) /\ UNCHANGED task /\ pc' = pc /\ parked' = parked
      BY <1>11 DEF Emit, Line
    <2>2. PICK items : queue' = [queue EXCEPT ![q] = items]
      BY <1>11 DEF Emit
    <2> QED
      BY <1>3, <1>5, <1>7, <2>1, <2>2, LineQuiet
  <1>12. CASE Publish(q)
    <2>1. UNCHANGED task /\ Goto(q, "done") /\ parked' = parked /\ queue' = [queue EXCEPT ![q] = <<>>]
      BY <1>12 DEF Publish, Drop
    <2> QED
      BY <1>2, <1>3, <1>5, <1>8, <2>1, LineQuiet
  <1>13. CASE ThreadEnds(q)
    <2>1. /\ thread[q] = "busy" /\ thread' = [thread EXCEPT ![q] = "finished"]
          /\ pc' = pc /\ parked' = parked /\ waiters' = waiters
          /\ queue' = queue \/ \E items : queue' = [queue EXCEPT ![q] = items]
      BY <1>13 DEF ThreadEnds
    <2>2. ~Unstarted(q)
      BY <2>1 DEF Line
    <2>3. llm' = [llm EXCEPT ![q] = "done"]
      <3>1. llm[q] \in {"running", "done"}
        BY <2>2 DEF Unstarted, Line
      <3> QED
        BY <1>13, <3>1 DEF ThreadEnds, Finished
    <2> QED
      BY <1>3, <1>5, <1>6, <1>7, <2>1, <2>2, <2>3, LineReleases
  <1>14. CASE Disconnect(q)
    <2>1. Goto(q, "gone") /\ Park(q, FALSE) /\ queue' = [queue EXCEPT ![q] = <<>>]
      BY <1>14 DEF Disconnect, Drop
    <2>2. CASE UNCHANGED task
      BY <1>2, <1>3, <1>4, <1>8, <2>1, <2>2, LineQuiet
    <2>3. CASE parked[q] /\ Cancel(q)
      <3>1. ~Unstarted(q) /\ thread[q] \in {"none", "busy", "finished"}
        BY <2>3 DEF Line
      <3>2. /\ llm' = [llm EXCEPT ![q] = "done"] /\ waiters' = waiters
            /\ thread' = [thread EXCEPT ![q] = thread[q]]
        BY <2>3 DEF Cancel, Line
      <3>3. \A p \in Queries : pc'[p] \in Early => pc[p] \in Early
        BY <1>2, <1>8, <2>1
      <3>4. parked' \in [Queries -> BOOLEAN] /\ \A p \in Queries : Unstarted(p) => ~parked'[p]
        BY <1>4, <2>1
      <3>5. /\ \E T : queue' \in [Queries -> T]
            /\ \A p \in Queries : Unstarted(p) => queue'[p] = <<>>
        BY <1>3, <2>1
      <3> QED
        BY <3>1, <3>2, <3>3, <3>4, <3>5, LineReleases
    <2> QED
      BY <1>14, <2>2, <2>3 DEF Disconnect
  <1> QED
    BY <1>9, <1>10, <1>11, <1>12, <1>13, <1>14

LEMMA ContentsKept == ASSUME Contents, [Next]_vars, IInv PROVE Contents'
  <1>1. req' = req
    BY DEF Next, Step, vars, Begin, Embed, Lookup, Expand, Retrieve, RetrieveExpanded, Validate, Rerank,
           Gate, Generate, Consume, Account, Publish, Resume, Disconnect, Acquire, Emit, ThreadEnds,
           WriteCache, DeleteVectors, DeleteTenant, Removed, Invalidate
  <1>2. lastMode' = lastMode \/ lastMode' \in {"", "hybrid", "dense"}
    BY DEF Next, Step, vars, Begin, Embed, Lookup, Expand, Retrieve, RetrieveExpanded, Validate, Rerank,
           Gate, Generate, Consume, Account, Publish, Resume, Disconnect, Acquire, Emit, ThreadEnds,
           WriteCache, DeleteVectors, DeleteTenant, Removed, Invalidate, shared
  <1>3. lastTrace' = lastTrace \/ lastTrace' \in Queries \cup {None}
    BY DEF Next, Step, vars, Begin, Embed, Lookup, Expand, Retrieve, RetrieveExpanded, Validate, Rerank,
           Gate, Generate, Consume, Account, Publish, Resume, Disconnect, Acquire, Emit, ThreadEnds,
           WriteCache, DeleteVectors, DeleteTenant, Removed, Invalidate, shared, TraceOf
  <1>4. /\ dirty' \subseteq SUBSET Docs
        /\ cache' \cup writing' \subseteq cache \cup writing \cup {Entry(q) : q \in Queries}
    <2>1. CASE UNCHANGED <<store, writing>>
      BY <2>1 DEF store, Contents
    <2>2. ASSUME NEW q \in Queries, Account(q)
          PROVE  /\ dirty' = dirty /\ cache' = cache
                 /\ writing' \subseteq writing \cup {Entry(q)}
      BY <2>2 DEF Account, store
    <2>3. ASSUME NEW answer \in writing, WriteCache(answer)
          PROVE  dirty' = dirty /\ cache' \cup writing' \subseteq cache \cup writing
      BY <2>3 DEF WriteCache
    <2>4. ASSUME NEW call \in dirty, Invalidate(call)
          PROVE  dirty' \subseteq dirty /\ cache' \cup writing' \subseteq cache \cup writing
      BY <2>4 DEF Invalidate
    <2>5. ASSUME NEW gone \in SUBSET corpus, Removed(gone, dirty \cup {gone})
          PROVE  dirty' \subseteq SUBSET Docs /\ cache' = cache /\ writing' = writing
      BY <2>5 DEF Removed, Contents, IInv, Shape
    <2> QED
      BY <2>1, <2>2, <2>3, <2>4, <2>5, StoreSteps DEF Contents
  <1>5. \A q \in Queries : Entry(q) \in Answer
    BY HeldInDocs DEF Entry, Answer, Levels, Internal
  <1> QED
    BY <1>1, <1>2, <1>3, <1>4, <1>5 DEF Contents

LEMMA TInvStep == ASSUME TInv, [Next]_vars PROVE TInv'
  <1>1. IInv' /\ Contents'
    BY StepInv, ContentsKept DEF TInv
  <1>2. ASSUME NEW q \in Queries, Step(q) PROVE Line'
    BY <1>2, LineStep, LineTask, LineGenerate DEF Step, TInv
  <1>3. ASSUME NEW q \in Queries,
               Begin(q) \/ Resume(q) \/ Disconnect(q) \/ Acquire(q) \/ Emit(q) \/ ThreadEnds(q)
        PROVE  Line'
    BY <1>3, LineStep, LineTask, LineAcquire DEF TInv
  <1>4. ASSUME pc' = pc, queue' = queue, parked' = parked, UNCHANGED task PROVE Line'
    <2>1. parked' \in [Queries -> BOOLEAN] /\ \E S : queue' \in [Queries -> S]
      BY <1>4 DEF TInv, Line
    <2>2. \A q \in Queries : Unstarted(q) => queue'[q] = <<>> /\ ~parked'[q]
      BY <1>4 DEF TInv, Line
    <2>3. Line /\ \A q \in Queries : pc'[q] \in Early => pc[q] \in Early
      BY <1>4 DEF TInv
    <2>4. UNCHANGED task
      BY <1>4
    <2> QED
      BY <2>1, <2>2, <2>3, <2>4, LineQuiet
  <1>5. ASSUME \/ \E answer \in writing : WriteCache(answer)
               \/ \E call \in dirty : Invalidate(call)
               \/ \E d \in Deletable : DeleteVectors(d)
               \/ DeleteTenant
        PROVE  Line'
    BY <1>4, <1>5 DEF WriteCache, Invalidate, DeleteVectors, DeleteTenant, Removed, posts
  <1>6. ASSUME UNCHANGED vars PROVE Line'
    BY <1>4, <1>6 DEF vars, posts
  <1> QED
    BY <1>1, <1>2, <1>3, <1>5, <1>6 DEF Next, TInv

(* Type correctness, with the semaphore of the LLM: its line holds exactly   *)
(* the calls that wait, each once, a permit is held by a call at work, and   *)
(* no more than llm_concurrency_limit are out, though calls fail, clients    *)
(* leave and cancelled calls go on in their threads.                        *)
THEOREM TypeCorrect == Spec => []TypeOK
  BY TInvInit, TInvStep, TInvTypeOK, PTL DEF Spec

-----------------------------------------------------------------------------
(* The trailing-refusal guard, whatever the engine's chunks.                *)

Text == Seq(STRING)

(* Positions a + 1 to n are whitespace.                                     *)
Gap(s, a, n) == \A i \in a + 1 .. n : s[i] = Space

(* Positions n + 1 to x begin the refusal sentence.                         *)
Opens(s, n, x) == /\ x - n <= Len(Sentence)
                  /\ \A i \in 1 .. x - n : s[n + i] = Sentence[i]

LEMMA Least == ASSUME NEW S \in SUBSET Nat, S # {} PROVE \E k \in S : \A j \in S : k <= j
  <1> DEFINE R == OpToRel(<, Nat)
  <1>1. \A x, y \in Nat : x < y => <<x, y>> \in R
    BY DEF OpToRel
  <1>2. IsWellFoundedOn(R, Nat)
    BY NatLessThanWellFounded
  <1> HIDE DEF R
  <1>3. PICK k \in S : \A j \in S : ~(<<j, k>> \in R)
    BY <1>2, WFMin
  <1>4. \A j \in S : ~(j < k)
    BY <1>1, <1>3
  <1> QED
    BY <1>4

LEMMA Greatest == ASSUME NEW N \in Nat, NEW S \in SUBSET (0 .. N), S # {}
                  PROVE  \E k \in S : \A j \in S : k >= j
  <1> DEFINE M == {m \in 0 .. N : N - m \in S}
  <1>1. M \in SUBSET Nat /\ M # {}
    <2>1. PICK k \in S : TRUE
      OBVIOUS
    <2>2. N - k \in 0 .. N /\ N - (N - k) = k
      OBVIOUS
    <2> QED
      BY <2>2
  <1>2. PICK m \in M : \A j \in M : m <= j
    BY <1>1, Least
  <1>3. \A j \in S : N - j \in M
    OBVIOUS
  <1>4. \A j \in S : N - m >= j
    BY <1>2, <1>3
  <1> QED
    BY <1>4

LEMMA PrefixMeans ==
    ASSUME NEW s \in Text, NEW t \in Text
    PROVE  IsPrefix(s, t) <=> Len(s) <= Len(t) /\ \A i \in 1 .. Len(s) : s[i] = t[i]
  <1> SUFFICES ASSUME Len(s) <= Len(t)
               PROVE  SubSeq(s, 1, Len(s)) = SubSeq(t, 1, Len(s)) <=> \A i \in 1 .. Len(s) : s[i] = t[i]
    BY DEF IsPrefix, Text
  <1> DEFINE u == SubSeq(t, 1, Len(s))
  <1>1. u \in Text /\ Len(u) = Len(s) /\ \A i \in 1 .. Len(s) : u[i] = t[i]
    BY DEF Text
  <1>2. SubSeq(s, 1, Len(s)) = s
    BY SubSeqFull DEF Text
  <1> HIDE DEF u
  <1>3. s = u <=> \A i \in 1 .. Len(s) : s[i] = u[i]
    BY <1>1, SeqEqual DEF Text
  <1> QED
    BY <1>1, <1>2, <1>3 DEF u

LEMMA SuffixMeans ==
    ASSUME NEW s \in Text, NEW t \in Text
    PROVE  IsSuffix(s, t) <=> /\ Len(s) <= Len(t)
                              /\ \A i \in 1 .. Len(s) : s[i] = t[Len(t) - Len(s) + i]
  <1> DEFINE rs == Reverse(s)
             rt == Reverse(t)
  <1>1. /\ rs \in Text /\ Len(rs) = Len(s) /\ \A i \in 1 .. Len(s) : rs[i] = s[Len(s) - i + 1]
        /\ rt \in Text /\ Len(rt) = Len(t) /\ \A i \in 1 .. Len(t) : rt[i] = t[Len(t) - i + 1]
    BY DEF Reverse, Text
  <1> HIDE DEF rs, rt
  <1>2. IsSuffix(s, t) <=> Len(s) <= Len(t) /\ \A i \in 1 .. Len(s) : rs[i] = rt[i]
    BY <1>1, PrefixMeans DEF IsSuffix, rs, rt
  <1>3. Len(s) \in Nat /\ Len(t) \in Nat
    BY DEF Text
  <1> SUFFICES ASSUME Len(s) <= Len(t)
               PROVE  (\A i \in 1 .. Len(s) : rs[i] = rt[i])
                         <=> \A i \in 1 .. Len(s) : s[i] = t[Len(t) - Len(s) + i]
    BY <1>2
  <1>4. ASSUME \A i \in 1 .. Len(s) : rs[i] = rt[i], NEW i \in 1 .. Len(s)
        PROVE  s[i] = t[Len(t) - Len(s) + i]
    <2>1. Len(s) - i + 1 \in 1 .. Len(s) /\ Len(s) - i + 1 \in 1 .. Len(t)
      BY <1>3
    <2>2. rs[Len(s) - i + 1] = s[Len(s) - (Len(s) - i + 1) + 1]
      BY <1>1, <2>1
    <2>3. rt[Len(s) - i + 1] = t[Len(t) - (Len(s) - i + 1) + 1]
      BY <1>1, <2>1
    <2>4. Len(s) - (Len(s) - i + 1) + 1 = i /\ Len(t) - (Len(s) - i + 1) + 1 = Len(t) - Len(s) + i
      BY <1>3
    <2> QED
      BY <1>4, <2>1, <2>2, <2>3, <2>4
  <1>5. ASSUME \A i \in 1 .. Len(s) : s[i] = t[Len(t) - Len(s) + i], NEW i \in 1 .. Len(s)
        PROVE  rs[i] = rt[i]
    <2>1. Len(s) - i + 1 \in 1 .. Len(s) /\ i \in 1 .. Len(t)
      BY <1>3
    <2>2. rs[i] = s[Len(s) - i + 1] /\ rt[i] = t[Len(t) - i + 1]
      BY <1>1, <2>1
    <2>3. s[Len(s) - i + 1] = t[Len(t) - Len(s) + (Len(s) - i + 1)]
      BY <1>5, <2>1
    <2>4. Len(t) - Len(s) + (Len(s) - i + 1) = Len(t) - i + 1
      BY <1>3
    <2> QED
      BY <2>2, <2>3, <2>4
  <1> QED
    BY <1>4, <1>5

LEMMA GapStart ==
    ASSUME NEW s \in Text, NEW j \in 0 .. Len(s)
    PROVE  /\ WhitespaceStart(s, j) \in 0 .. j
           /\ Gap(s, WhitespaceStart(s, j), j)
           /\ WhitespaceStart(s, j) = 0 \/ s[WhitespaceStart(s, j)] # Space
  <1>0. j \in Nat /\ Len(s) \in Nat
    BY DEF Text
  <1> DEFINE K == {k \in 0 .. j : Gap(s, k, j)}
  <1>1. j \in K
    BY <1>0 DEF Gap
  <1>2. PICK k \in K : \A i \in K : k <= i
    <2>1. K \in SUBSET Nat /\ K # {}
      BY <1>0, <1>1
    <2> HIDE DEF K
    <2> QED
      BY <2>1, Least
  <1>3. k = 0 \/ s[k] # Space
    <2> SUFFICES ASSUME k # 0, s[k] = Space PROVE FALSE
      OBVIOUS
    <2>1. k - 1 \in 0 .. j /\ ~(k <= k - 1)
      BY <1>0
    <2>2. Gap(s, k - 1, j)
      <3>1. \A i \in (k - 1) + 1 .. j : i = k \/ i \in k + 1 .. j
        BY <1>0
      <3> QED
        BY <3>1 DEF Gap
    <2> QED
      BY <1>2, <2>1, <2>2
  <1>4. \E i \in 0 .. j : /\ \A l \in i + 1 .. j : s[l] = Space
                          /\ (i = 0 \/ s[i] # Space)
    BY <1>3 DEF Gap
  <1> HIDE DEF K
  <1> QED
    BY <1>4 DEF WhitespaceStart, Gap

(* A piece of a text.                                                       *)
LEMMA PieceIs ==
    ASSUME NEW s \in Text, NEW a \in Nat, NEW b \in Nat, a <= b, b <= Len(s)
    PROVE  /\ SubSeq(s, a + 1, b) \in Text /\ Len(SubSeq(s, a + 1, b)) = b - a
           /\ \A i \in 1 .. b - a : SubSeq(s, a + 1, b)[i] = s[a + i]
  <1> DEFINE v == SubSeq(s, a + 1, b)
  <1>0. Len(s) \in Nat
    BY DEF Text
  <1>1. \A i \in a + 1 .. b : s[i] \in STRING
    <2>1. \A i \in a + 1 .. b : i \in 1 .. Len(s)
      BY <1>0
    <2> QED
      BY <2>1, ElementOfSeq DEF Text
  <1>2. a + 1 \in Int /\ b \in Int
    OBVIOUS
  <1>3. /\ v \in Seq(STRING) /\ Len(v) = (IF a + 1 <= b THEN b - (a + 1) + 1 ELSE 0)
        /\ \A i \in 1 .. b - (a + 1) + 1 : v[i] = s[(a + 1) + i - 1]
    BY <1>1, <1>2, SubSeqProperties
  <1>4. b - (a + 1) + 1 = b - a /\ (~(a + 1 <= b) => b - a = 0)
    OBVIOUS
  <1>5. \A i \in 1 .. b - a : (a + 1) + i - 1 = a + i
    OBVIOUS
  <1> HIDE DEF v
  <1>6. Len(v) = b - a /\ \A i \in 1 .. b - a : v[i] = s[a + i]
    BY <1>3, <1>4, <1>5
  <1> QED
    BY <1>3, <1>6 DEF v, Text

LEMMA SentenceShape ==
    /\ Len(Sentence) \in Nat /\ Len(Sentence) >= 1 /\ Sentence \in Text
    /\ Sentence[1] # Space /\ Sentence[Len(Sentence)] # Space
  <1>1. Sentence \in Seq(STRING) /\ Sentence # <<>> /\ Sentence[1] # Space
    BY SentenceAssumption
  <1>2. Len(Sentence) \in Nat /\ Len(Sentence) >= 1
    BY <1>1, EmptySeq
  <1>3. Sentence[Len(Sentence)] # Space
    BY SentenceAssumption DEF Last
  <1> QED
    BY <1>1, <1>2, <1>3 DEF Text

(* What feed() may release: all but whitespace and the beginning of the     *)
(* sentence, from the earliest place the sentence may start at.             *)
LEMMA HoldFromIs ==
    ASSUME NEW s \in Text
    PROVE  \E m \in 0 .. Len(s) :
              /\ HoldFrom(s) \in 0 .. m
              /\ Gap(s, HoldFrom(s), m)
              /\ HoldFrom(s) = 0 \/ s[HoldFrom(s)] # Space
              /\ Opens(s, m, Len(s))
              /\ \A j \in 0 .. Len(s) : (j = 0 \/ s[j] = Space) /\ Opens(s, j, Len(s)) => m <= j
  <1>0. Len(s) \in Nat /\ Len(Sentence) \in Nat
    BY SentenceShape DEF Text
  <1> DEFINE first  == IF Len(s) > Len(Sentence) THEN Len(s) - Len(Sentence) ELSE 0
             starts == {j \in first .. Len(s) - 1 : /\ (j = 0 \/ s[j] = Space)
                                                    /\ IsPrefix(SubSeq(s, j + 1, Len(s)), Sentence)}
             m      == IF starts = {} THEN Len(s)
                       ELSE CHOOSE i \in starts : \A j \in starts : i <= j
  <1>1. \A j \in 0 .. Len(s) - 1 : IsPrefix(SubSeq(s, j + 1, Len(s)), Sentence) <=> Opens(s, j, Len(s))
    <2> SUFFICES ASSUME NEW j \in 0 .. Len(s) - 1
                 PROVE  IsPrefix(SubSeq(s, j + 1, Len(s)), Sentence) <=> Opens(s, j, Len(s))
      OBVIOUS
    <2> DEFINE u == SubSeq(s, j + 1, Len(s))
    <2>1. u \in Text /\ Len(u) = Len(s) - j /\ \A i \in 1 .. Len(s) - j : u[i] = s[j + i]
      BY <1>0 DEF Text
    <2> HIDE DEF u
    <2>2. IsPrefix(u, Sentence) <=> Len(u) <= Len(Sentence) /\ \A i \in 1 .. Len(u) : u[i] = Sentence[i]
      BY <2>1, SentenceShape, PrefixMeans
    <2> QED
      BY <2>1, <2>2 DEF Opens, u
  <1>2. \A j \in 0 .. Len(s) - 1 : (j = 0 \/ s[j] = Space) /\ Opens(s, j, Len(s)) => j \in starts
    <2> SUFFICES ASSUME NEW j \in 0 .. Len(s) - 1, j = 0 \/ s[j] = Space, Opens(s, j, Len(s))
                 PROVE  j \in starts
      OBVIOUS
    <2>1. Len(s) - j <= Len(Sentence)
      BY DEF Opens
    <2>2. j \in first .. Len(s) - 1
      BY <1>0, <2>1
    <2>3. IsPrefix(SubSeq(s, j + 1, Len(s)), Sentence)
      BY <1>1
    <2> QED
      BY <2>2, <2>3
  <1>3. \A j \in starts : j \in 0 .. Len(s) - 1 /\ Opens(s, j, Len(s))
    BY <1>0, <1>1
  <1>4. starts \in SUBSET Nat
    BY <1>3, <1>0
  <1>5. HoldFrom(s) = WhitespaceStart(s, m)
    BY DEF HoldFrom
  <1> HIDE DEF starts, first
  <1>6. CASE starts = {}
    <2>1. m = Len(s)
      BY <1>6
    <2> HIDE DEF m
    <2>2. Opens(s, m, Len(s))
      BY <2>1, <1>0 DEF Opens
    <2>3. \A j \in 0 .. Len(s) : (j = 0 \/ s[j] = Space) /\ Opens(s, j, Len(s)) => m <= j
      BY <1>0, <1>2, <1>6, <2>1
    <2>4. m \in 0 .. Len(s)
      BY <1>0, <2>1
    <2> QED
      BY <1>5, <2>2, <2>3, <2>4, GapStart
  <1>7. CASE starts # {}
    <2>1. \E i \in starts : \A j \in starts : i <= j
      BY <1>4, <1>7, Least
    <2>2. m \in starts /\ \A j \in starts : m <= j
      BY <1>7, <2>1
    <2> HIDE DEF m
    <2>3. Opens(s, m, Len(s)) /\ m \in 0 .. Len(s) /\ m <= Len(s)
      BY <1>0, <1>3, <2>2
    <2>4. \A j \in 0 .. Len(s) : (j = 0 \/ s[j] = Space) /\ Opens(s, j, Len(s)) => m <= j
      BY <1>0, <1>2, <2>2, <2>3
    <2> QED
      BY <1>5, <2>3, <2>4, GapStart
  <1> QED
    BY <1>6, <1>7

(* strip() of what is held is the sentence exactly when all of it came.     *)
LEMMA StripIs ==
    ASSUME NEW h \in Text, NEW m \in 0 .. Len(h), Gap(h, 0, m), Opens(h, m, Len(h))
    PROVE  Strip(h) = Sentence <=> Len(h) - m = Len(Sentence)
  <1>0. Len(h) \in Nat /\ Len(Sentence) \in Nat /\ Len(Sentence) >= 1 /\ m \in Nat /\ m <= Len(h)
    BY SentenceShape DEF Text
  <1>d. DOMAIN h = 1 .. Len(h)
    BY DEF Text
  <1> DEFINE ink == {i \in DOMAIN h : h[i] # Space}
             lo  == CHOOSE i \in ink : \A j \in ink : i <= j
             hi  == CHOOSE i \in ink : \A j \in ink : i >= j
  <1>1. \A i \in ink : i \in 1 .. Len(h) /\ i > m /\ h[i] # Space
    BY <1>0, <1>d DEF Gap
  <1>2. Strip(h) = IF ink = {} THEN <<>> ELSE SubSeq(h, lo, hi)
    BY DEF Strip
  <1>3. ink # {} => lo \in ink /\ hi \in ink /\ (\A j \in ink : lo <= j) /\ (\A j \in ink : hi >= j)
    <2> SUFFICES ASSUME ink # {}
                 PROVE  lo \in ink /\ hi \in ink /\ (\A j \in ink : lo <= j) /\ (\A j \in ink : hi >= j)
      OBVIOUS
    <2>1. ink \in SUBSET Nat /\ ink \in SUBSET (0 .. Len(h))
      BY <1>0, <1>d, <1>1
    <2> HIDE DEF ink
    <2>2. \E i \in ink : \A j \in ink : i <= j
      BY <2>1, Least
    <2>3. \E i \in ink : \A j \in ink : i >= j
      BY <2>1, <1>0, Greatest
    <2> QED
      BY <2>2, <2>3
  <1>4. ASSUME Strip(h) = Sentence PROVE Len(h) - m = Len(Sentence)
    <2>1. ink # {}
      BY <1>2, <1>4, SentenceAssumption
    <2>2. lo \in 1 .. Len(h) /\ hi \in 1 .. Len(h) /\ lo > m /\ lo <= hi
      BY <1>1, <1>3, <2>1
    <2> HIDE DEF lo, hi, ink
    <2>3. Len(SubSeq(h, lo, hi)) = hi - lo + 1
      BY <2>2, <1>0 DEF Text
    <2>4. hi - lo + 1 = Len(Sentence)
      BY <1>2, <1>4, <2>1, <2>3
    <2>5. Len(h) - m <= Len(Sentence)
      BY <1>0 DEF Opens
    <2> QED
      BY <1>0, <2>2, <2>4, <2>5
  <1>5. ASSUME Len(h) - m = Len(Sentence) PROVE Strip(h) = Sentence
    <2>1. \A i \in 1 .. Len(Sentence) : h[m + i] = Sentence[i]
      BY <1>5 DEF Opens
    <2>2. h[m + 1] # Space /\ h[Len(h)] # Space
      <3>1. Len(h) = m + Len(Sentence)
        BY <1>0, <1>5
      <3> QED
        BY <1>0, <2>1, <3>1, SentenceShape
    <2>3. m + 1 \in ink /\ Len(h) \in ink
      BY <1>0, <1>d, <1>5, <2>2
    <2>4. lo = m + 1 /\ hi = Len(h)
      <3>1. lo \in ink /\ hi \in ink /\ lo <= m + 1 /\ hi >= Len(h)
        BY <1>3, <2>3
      <3>2. lo \in Nat /\ lo > m /\ hi \in Nat /\ hi <= Len(h)
        BY <1>1, <3>1, <1>0
      <3> HIDE DEF lo, hi, ink
      <3> QED
        BY <1>0, <3>1, <3>2
    <2>5. SubSeq(h, m + 1, Len(h)) = Sentence
      <3> DEFINE u == SubSeq(h, m + 1, Len(h))
      <3>1. u \in Text /\ Len(u) = Len(Sentence) /\ \A i \in 1 .. Len(Sentence) : u[i] = h[m + i]
        BY <1>0, <1>5 DEF Text
      <3> HIDE DEF u
      <3>2. u = Sentence
        BY <2>1, <3>1, SentenceShape, SeqEqual DEF Text
      <3> QED
        BY <3>2 DEF u
    <2> HIDE DEF lo, hi, ink
    <2> QED
      BY <1>2, <2>3, <2>4, <2>5
  <1> QED
    BY <1>4, <1>5

(* Of the first x symbols of an answer s the guard has let c go: the rest is *)
(* whitespace and a beginning of the sentence, and no later text can make    *)
(* whitespace before c the gap in front of a refusal.                        *)
HeldFrom(s, c, x) ==
    /\ c \in 0 .. x
    /\ c = 0 \/ s[c] # Space
    /\ \E m \in c .. x : Gap(s, c, m) /\ Opens(s, m, x)
    /\ \A a, n \in 0 .. x : a < n /\ Gap(s, a, n) /\ Opens(s, n, x) => c <= a

GuardAt(s, c, x) == [held |-> SubSeq(s, c + 1, x), content |-> ~Gap(s, 0, c)]

Reads(guard, out, s, x) ==
    \E c \in 0 .. x : HeldFrom(s, c, x) /\ guard = GuardAt(s, c, x) /\ out = SubSeq(s, 1, c)

LEMMA ReadsNothing == ASSUME NEW s \in Text PROVE Reads(NewGuard, <<>>, s, 0)
  <1>1. HeldFrom(s, 0, 0)
    BY SentenceShape DEF HeldFrom, Gap, Opens
  <1>2. SubSeq(s, 1, 0) = <<>> /\ Gap(s, 0, 0)
    BY DEF Gap, Text
  <1>3. GuardAt(s, 0, 0) = NewGuard
    <2>1. SubSeq(s, 0 + 1, 0) = <<>>
      BY DEF Text
    <2>2. (~Gap(s, 0, 0)) = FALSE
      BY <1>2
    <2> QED
      BY <2>1, <2>2, Zenon DEF GuardAt, NewGuard
  <1> QED
    BY <1>1, <1>2, <1>3 DEF Reads

(* More text behind an answer does not change what its beginning was read as. *)
LEMMA ReadsLonger ==
    ASSUME NEW s \in Text, NEW more \in Text, NEW x \in 0 .. Len(s), NEW guard, NEW out,
           Reads(guard, out, s, x)
    PROVE  Reads(guard, out, s \o more, x)
  <1> DEFINE t == s \o more
  <1>1. t \in Text /\ Len(t) = Len(s) + Len(more) /\ \A i \in 1 .. Len(s) : t[i] = s[i]
    BY DEF Text
  <1>0. Len(s) \in Nat /\ Len(more) \in Nat /\ x \in Nat /\ x <= Len(s)
    BY DEF Text
  <1> HIDE DEF t
  <1>2. PICK c \in 0 .. x : HeldFrom(s, c, x) /\ guard = GuardAt(s, c, x) /\ out = SubSeq(s, 1, c)
    BY DEF Reads
  <1>3. \A a, n \in 0 .. x : Gap(t, a, n) <=> Gap(s, a, n)
    BY <1>0, <1>1 DEF Gap
  <1>4. \A n \in 0 .. x : Opens(t, n, x) <=> Opens(s, n, x)
    <2> SUFFICES ASSUME NEW n \in 0 .. x PROVE Opens(t, n, x) <=> Opens(s, n, x)
      OBVIOUS
    <2>1. \A i \in 1 .. x - n : t[n + i] = s[n + i]
      BY <1>0, <1>1
    <2> QED
      BY <2>1 DEF Opens
  <1>5. HeldFrom(t, c, x)
    <2>1. c \in 0 .. x /\ (c = 0 \/ t[c] # Space)
      BY <1>0, <1>1, <1>2 DEF HeldFrom
    <2>2. \E m \in c .. x : Gap(t, c, m) /\ Opens(t, m, x)
      <3>1. PICK m \in c .. x : Gap(s, c, m) /\ Opens(s, m, x)
        BY <1>2 DEF HeldFrom
      <3>2. m \in 0 .. x
        BY <1>0, <2>1
      <3> QED
        BY <1>3, <1>4, <2>1, <3>1, <3>2
    <2> QED
      BY <1>2, <1>3, <1>4, <2>1, <2>2 DEF HeldFrom
  <1>6. SubSeq(t, c + 1, x) = SubSeq(s, c + 1, x)
    BY <1>0, <1>1 DEF Text
  <1>7. SubSeq(t, 1, c) = SubSeq(s, 1, c)
    BY <1>0, <1>1 DEF Text
  <1>8. Gap(t, 0, c) <=> Gap(s, 0, c)
    BY <1>0, <1>3
  <1>9. GuardAt(t, c, x) = GuardAt(s, c, x)
    BY <1>6, <1>8 DEF GuardAt
  <1> QED
    BY <1>2, <1>5, <1>7, <1>9 DEF Reads, t

LEMMA HeldMoves ==
    ASSUME NEW s \in Text, NEW c \in Nat, NEW x \in Nat, NEW y \in Nat, x <= y, y <= Len(s),
           HeldFrom(s, c, x),
           NEW buf \in Text, Len(buf) = y - c, \A i \in 1 .. y - c : buf[i] = s[c + i]
    PROVE  HoldFrom(buf) \in 0 .. y - c /\ HeldFrom(s, c + HoldFrom(buf), y)
  <1>0. c <= x /\ c <= y /\ Len(s) \in Nat
    BY DEF HeldFrom, Text
  <1>1. PICK m \in 0 .. y - c :
           /\ HoldFrom(buf) \in 0 .. m
           /\ Gap(buf, HoldFrom(buf), m)
           /\ HoldFrom(buf) = 0 \/ buf[HoldFrom(buf)] # Space
           /\ Opens(buf, m, y - c)
           /\ \A j \in 0 .. y - c : (j = 0 \/ buf[j] = Space) /\ Opens(buf, j, y - c) => m <= j
    BY HoldFromIs
  <1>2. PICK k \in Nat : k = HoldFrom(buf)
    BY <1>1
  <1>3. k <= m /\ m \in Nat /\ m <= y - c /\ y - c \in Nat
    BY <1>0, <1>1, <1>2
  <1>4. \A a, n \in 0 .. y - c : Gap(buf, a, n) <=> Gap(s, c + a, c + n)
    <2> SUFFICES ASSUME NEW a \in 0 .. y - c, NEW n \in 0 .. y - c
                 PROVE  Gap(buf, a, n) <=> Gap(s, c + a, c + n)
      OBVIOUS
    <2>1. ASSUME Gap(buf, a, n), NEW i \in c + a + 1 .. c + n PROVE s[i] = Space
      <3>1. i - c \in a + 1 .. n /\ i - c \in 1 .. y - c /\ c + (i - c) = i
        BY <1>0, <1>3
      <3> QED
        BY <2>1, <3>1 DEF Gap
    <2>2. ASSUME Gap(s, c + a, c + n), NEW i \in a + 1 .. n PROVE buf[i] = Space
      <3>1. c + i \in c + a + 1 .. c + n /\ i \in 1 .. y - c
        BY <1>0, <1>3
      <3> QED
        BY <2>2, <3>1 DEF Gap
    <2> QED
      BY <2>1, <2>2 DEF Gap
  <1>5. \A n \in 0 .. y - c : Opens(buf, n, y - c) <=> Opens(s, c + n, y)
    <2> SUFFICES ASSUME NEW n \in 0 .. y - c PROVE Opens(buf, n, y - c) <=> Opens(s, c + n, y)
      OBVIOUS
    <2>1. y - (c + n) = (y - c) - n
      BY <1>0
    <2>2. \A i \in 1 .. (y - c) - n : buf[n + i] = s[c + n + i]
      <3> SUFFICES ASSUME NEW i \in 1 .. (y - c) - n PROVE buf[n + i] = s[c + n + i]
        OBVIOUS
      <3>1. n + i \in 1 .. y - c /\ c + (n + i) = c + n + i
        BY <1>0, <1>3
      <3> QED
        BY <3>1
    <2> QED
      BY <2>1, <2>2 DEF Opens
  <1>6. c + k = 0 \/ s[c + k] # Space
    <2>1. CASE k = 0
      BY <2>1, <1>0 DEF HeldFrom
    <2>2. CASE k # 0
      <3>1. k \in 1 .. y - c /\ buf[k] # Space
        BY <1>1, <1>2, <1>3, <2>2
      <3> QED
        BY <3>1
    <2> QED
      BY <2>1, <2>2
  <1>7. \E n \in c + k .. y : Gap(s, c + k, n) /\ Opens(s, n, y)
    <2>1. c + m \in c + k .. y /\ k \in 0 .. y - c /\ m \in 0 .. y - c
      BY <1>0, <1>3
    <2>2. Gap(s, c + k, c + m) /\ Opens(s, c + m, y)
      BY <1>1, <1>2, <1>4, <1>5, <2>1
    <2> QED
      BY <2>1, <2>2
  <1>8. ASSUME NEW a \in 0 .. y, NEW n \in 0 .. y, a < n, Gap(s, a, n), Opens(s, n, y)
        PROVE  c + k <= a
    (* The gap begins no earlier than what was let go.                      *)
    <2>1. c <= a
      <3>1. CASE n <= x
        <4>1. x - n <= y - n
          BY <3>1
        <4>2. Opens(s, n, x)
          BY <1>8, <4>1, SentenceShape DEF Opens
        <4> QED
          BY <1>8, <3>1, <4>2 DEF HeldFrom
      <3>2. CASE x < n /\ a < x
        <4>1. Gap(s, a, x) /\ Opens(s, x, x)
          BY <1>8, <3>2, SentenceShape DEF Gap, Opens
        <4> QED
          BY <3>2, <4>1 DEF HeldFrom
      <3>3. CASE x < n /\ x <= a
        BY <3>3, <1>0
      <3> QED
        BY <3>1, <3>2, <3>3
    <2>2. PICK b \in 0 .. y - c, j \in 0 .. y - c : a = c + b /\ n = c + j
      <3>1. a - c \in 0 .. y - c /\ n - c \in 0 .. y - c /\ a = c + (a - c) /\ n = c + (n - c)
        BY <1>0, <1>8, <2>1
      <3> QED
        BY <3>1
    <2>3. Gap(buf, b, j) /\ Opens(buf, j, y - c) /\ b < j
      BY <1>4, <1>5, <1>8, <2>2
    <2>4. buf[j] = Space
      BY <2>3 DEF Gap
    <2>5. m <= j
      BY <1>1, <2>3, <2>4
    <2>6. k <= b
      <3> SUFFICES ASSUME b < k PROVE FALSE
        BY <1>3
      <3>1. k \in b + 1 .. j /\ k # 0
        BY <1>3, <2>5
      <3>2. buf[k] = Space
        BY <2>3, <3>1 DEF Gap
      <3> QED
        BY <1>1, <1>2, <3>1, <3>2
    <2> QED
      BY <2>2, <2>6
  <1>9. c + k \in 0 .. y
    BY <1>0, <1>3
  <1>10. HeldFrom(s, c + k, y)
    BY <1>6, <1>7, <1>8, <1>9 DEF HeldFrom
  <1> QED
    BY <1>2, <1>3, <1>10

(* feed() with the next piece of the answer.                                *)
LEMMA FeedReads ==
    ASSUME NEW s \in Text, NEW x \in 0 .. Len(s), NEW y \in x .. Len(s), NEW guard, NEW out,
           Reads(guard, out, s, x)
    PROVE  LET fed == Feed(guard, SubSeq(s, x + 1, y))
           IN  Reads(fed.guard, out \o fed.out, s, y)
  <1>0. Len(s) \in Nat /\ x \in Nat /\ y \in Nat /\ x <= y /\ y <= Len(s)
    BY DEF Text
  <1>1. PICK c \in 0 .. x : HeldFrom(s, c, x) /\ guard = GuardAt(s, c, x) /\ out = SubSeq(s, 1, c)
    BY DEF Reads
  <1>c. c \in Nat /\ c <= x
    BY <1>0
  <1> DEFINE text == SubSeq(s, x + 1, y)
             buf  == guard.held \o text
  <1>2. buf = SubSeq(s, c + 1, y)
    <2>1. guard.held = SubSeq(s, c + 1, x)
      BY <1>1 DEF GuardAt
    <2>2. SubSeq(s, c + 1, x) \o SubSeq(s, x + 1, y) = SubSeq(s, c + 1, y)
      <3>1. c + 1 \in 1 .. Len(s) + 1 /\ x \in (c + 1) - 1 .. Len(s) /\ y \in x .. Len(s)
        BY <1>0, <1>c
      <3> QED
        BY <3>1, ConcatAdjacentSubSeq DEF Text
    <2> QED
      BY <2>1, <2>2
  <1>3. buf \in Text /\ Len(buf) = y - c /\ \A i \in 1 .. y - c : buf[i] = s[c + i]
    <2> HIDE DEF buf
    <2> QED
      BY <1>0, <1>c, <1>2 DEF Text
  <1> HIDE DEF buf, text
  <1>4. PICK k \in 0 .. y - c : k = HoldFrom(buf) /\ HeldFrom(s, c + k, y)
    BY <1>0, <1>1, <1>c, <1>3, HeldMoves
  <1>5. k \in Nat /\ c + k <= y /\ c + k \in Nat
    BY <1>0, <1>c, <1>4
  <1> DEFINE fed == Feed(guard, text)
  <1>6. /\ fed.out = SubSeq(buf, 1, k)
        /\ fed.guard = [held |-> SubSeq(buf, k + 1, y - c),
                        content |-> guard.content \/ ~Blank(SubSeq(buf, 1, k))]
    BY <1>3, <1>4 DEF Feed, buf
  <1>7. SubSeq(buf, 1, k) = SubSeq(s, c + 1, c + k)
    <2> DEFINE u == SubSeq(buf, 1, k)
               v == SubSeq(s, c + 1, c + k)
    <2>1. u \in Text /\ Len(u) = k /\ \A i \in 1 .. k : u[i] = buf[i] /\ i \in 1 .. y - c
      <3>0. PICK o \in Nat : o = 0
        OBVIOUS
      <3>1. u = SubSeq(buf, o + 1, k) /\ o <= k /\ k <= Len(buf) /\ k - o = k
        BY <1>3, <1>5, <1>4, <3>0
      <3>2. /\ SubSeq(buf, o + 1, k) \in Text /\ Len(SubSeq(buf, o + 1, k)) = k - o
            /\ \A i \in 1 .. k - o : SubSeq(buf, o + 1, k)[i] = buf[o + i]
        BY <1>3, <1>5, <3>1, PieceIs
      <3>3. \A i \in 1 .. k : o + i = i /\ i \in 1 .. y - c
        BY <1>0, <1>c, <1>5, <1>4, <3>0
      <3> HIDE DEF u
      <3> QED
        BY <3>1, <3>2, <3>3
    <2>2. v \in Text /\ Len(v) = k /\ \A i \in 1 .. k : v[i] = s[c + i]
      <3>1. c + k <= Len(s) /\ c <= c + k /\ (c + k) - c = k
        BY <1>0, <1>c, <1>5
      <3> QED
        BY <1>c, <1>5, <3>1, PieceIs
    <2> HIDE DEF u, v
    <2>3. u = v
      BY <1>3, <2>1, <2>2, SeqEqual DEF Text
    <2> QED
      BY <2>3 DEF u, v
  <1>8. SubSeq(buf, k + 1, y - c) = SubSeq(s, c + k + 1, y)
    <2> DEFINE u == SubSeq(buf, k + 1, y - c)
               v == SubSeq(s, c + k + 1, y)
    <2>1. /\ u \in Text /\ Len(u) = y - c - k
          /\ \A i \in 1 .. y - c - k : u[i] = buf[k + i]
      <3>1. PICK n \in Nat : n = y - c /\ k <= n /\ n <= Len(buf) /\ n - k = y - c - k
        BY <1>0, <1>c, <1>3, <1>5
      <3> QED
        BY <1>3, <1>5, <3>1, PieceIs
    <2>2. /\ v \in Text /\ Len(v) = y - c - k
          /\ \A i \in 1 .. y - c - k : v[i] = s[c + k + i]
      <3>1. PICK n \in Nat : n = c + k /\ n <= y /\ y \in Nat /\ y <= Len(s) /\ y - n = y - c - k
        BY <1>0, <1>c, <1>5
      <3>2. /\ SubSeq(s, n + 1, y) \in Text /\ Len(SubSeq(s, n + 1, y)) = y - n
            /\ \A i \in 1 .. y - n : SubSeq(s, n + 1, y)[i] = s[n + i]
        BY <3>1, PieceIs
      <3>3. v = SubSeq(s, n + 1, y) /\ \A i \in 1 .. y - n : n + i = c + k + i
        BY <3>1
      <3> HIDE DEF v
      <3> QED
        BY <3>1, <3>2, <3>3
    <2>3. \A i \in 1 .. y - c - k : buf[k + i] = s[c + k + i]
      <3>1. \A i \in 1 .. y - c - k : k + i \in 1 .. y - c /\ c + (k + i) = c + k + i
        BY <1>0, <1>c, <1>5
      <3> QED
        BY <1>3, <3>1
    <2> HIDE DEF u, v
    <2>4. u = v
      BY <2>1, <2>2, <2>3, SeqEqual DEF Text
    <2> QED
      BY <2>4 DEF u, v
  <1>9. out \o fed.out = SubSeq(s, 1, c + k)
    <2>1. 1 \in 1 .. Len(s) + 1 /\ c \in 1 - 1 .. Len(s) /\ c + k \in c .. Len(s)
      BY <1>0, <1>c, <1>5
    <2>2. SubSeq(s, 1, c) \o SubSeq(s, c + 1, c + k) = SubSeq(s, 1, c + k)
      BY <2>1, ConcatAdjacentSubSeq DEF Text
    <2> QED
      BY <1>1, <1>6, <1>7, <2>2
  <1>10. Gap(s, 0, c + k) <=> Gap(s, 0, c) /\ Blank(SubSeq(s, c + 1, c + k))
    <2> DEFINE u == SubSeq(s, c + 1, c + k)
    <2>1. DOMAIN u = 1 .. k /\ \A i \in 1 .. k : u[i] = s[c + i]
      BY <1>0, <1>c, <1>5 DEF Text
    <2> HIDE DEF u
    <2>2. Blank(u) <=> \A i \in 1 .. k : s[c + i] = Space
      BY <2>1 DEF Blank
    <2>3. ASSUME \A i \in 1 .. k : s[c + i] = Space, Gap(s, 0, c), NEW i \in 0 + 1 .. c + k
          PROVE  s[i] = Space
      <3>1. CASE i <= c
        BY <2>3, <3>1 DEF Gap
      <3>2. CASE i > c
        <4>1. i - c \in 1 .. k /\ c + (i - c) = i
          BY <1>5, <1>c, <3>2
        <4> QED
          BY <2>3, <4>1
      <3> QED
        BY <3>1, <3>2, <1>c
    <2>4. ASSUME Gap(s, 0, c + k) PROVE Gap(s, 0, c) /\ \A i \in 1 .. k : s[c + i] = Space
      <3>1. \A i \in 0 + 1 .. c : i \in 0 + 1 .. c + k
        BY <1>5, <1>c
      <3>2. \A i \in 1 .. k : c + i \in 0 + 1 .. c + k
        BY <1>5, <1>c
      <3> QED
        BY <2>4, <3>1, <3>2 DEF Gap
    <2>5. Gap(s, 0, c) /\ (\A i \in 1 .. k : s[c + i] = Space) => Gap(s, 0, c + k)
      BY <2>3 DEF Gap
    <2> QED
      BY <2>2, <2>4, <2>5 DEF u
  <1>11. guard.content = ~Gap(s, 0, c)
    BY <1>1, Zenon DEF GuardAt
  <1>12. (guard.content \/ ~Blank(SubSeq(buf, 1, k))) = ~Gap(s, 0, c + k)
    BY <1>7, <1>10, <1>11, Zenon
  <1>13. fed.guard = GuardAt(s, c + k, y)
    BY <1>6, <1>8, <1>12, Zenon DEF GuardAt
  <1>14. c + k \in 0 .. y
    BY <1>5, <1>0
  <1> HIDE DEF fed
  <1>15. Reads(fed.guard, out \o fed.out, s, y)
    BY <1>4, <1>9, <1>13, <1>14 DEF Reads
  <1> QED
    BY <1>15 DEF fed, text

LEMMA RefusedMeans ==
    ASSUME NEW s \in Text
    PROVE  /\ Refused(s) <=> /\ Len(s) - Len(Sentence) >= 1
                             /\ Opens(s, Len(s) - Len(Sentence), Len(s))
                             /\ ~Gap(s, 0, Len(s) - Len(Sentence))
           /\ Refused(s) => /\ Len(Before(s)) = Len(s) - Len(Sentence)
                            /\ Last(Before(s)) = s[Len(s) - Len(Sentence)]
  <1>0. Len(s) \in Nat /\ Len(Sentence) \in Nat
    BY SentenceShape DEF Text
  <1> DEFINE A == Len(s) - Len(Sentence)
  <1>1. IsSuffix(Sentence, s) <=> A >= 0 /\ Opens(s, A, Len(s))
    <2>1. IsSuffix(Sentence, s) <=> /\ Len(Sentence) <= Len(s)
                                    /\ \A i \in 1 .. Len(Sentence) : Sentence[i] = s[A + i]
      BY SentenceShape, SuffixMeans
    <2>2. Len(s) - A = Len(Sentence) /\ (Len(Sentence) <= Len(s) <=> A >= 0)
      BY <1>0
    <2> HIDE DEF A
    <2> QED
      BY <1>0, <2>1, <2>2 DEF Opens
  <1>2. A \in Int /\ A <= Len(s)
    BY <1>0
  <1>3. A >= 1 => Len(Before(s)) = A /\ Last(Before(s)) = s[A] /\ DOMAIN Before(s) = 1 .. A
                  /\ \A i \in 1 .. A : Before(s)[i] = s[i]
    <2> SUFFICES ASSUME A >= 1
                 PROVE  Len(Before(s)) = A /\ Last(Before(s)) = s[A] /\ DOMAIN Before(s) = 1 .. A
                        /\ \A i \in 1 .. A : Before(s)[i] = s[i]
      OBVIOUS
    <2>1. Before(s) = SubSeq(s, 1, A)
      BY DEF Before
    <2> HIDE DEF A
    <2>2. Len(Before(s)) = A /\ DOMAIN Before(s) = 1 .. A /\ \A i \in 1 .. A : Before(s)[i] = s[i]
      BY <1>0, <1>2, <2>1 DEF Text
    <2>3. Last(Before(s)) = s[A]
      BY <1>2, <2>2 DEF Last
    <2> QED
      BY <2>2, <2>3
  <1>4. A < 1 => Before(s) = <<>>
    BY <1>0, SubSeqEmpty DEF Before
  <1>5. A < 1 => Blank(Before(s))
    BY <1>4 DEF Blank
  <1>6. A >= 1 => (Blank(Before(s)) <=> Gap(s, 0, A))
    <2> HIDE DEF A
    <2> QED
      BY <1>2, <1>3 DEF Blank, Gap
  <1> HIDE DEF A
  <1>7. Refused(s) <=> A >= 1 /\ Opens(s, A, Len(s)) /\ ~Gap(s, 0, A)
    BY <1>1, <1>2, <1>5, <1>6 DEF Refused
  <1> QED
    BY <1>3, <1>7 DEF A

(* What was sent so far begins the cleaned answer.                          *)
LEMMA ReadsPrefix ==
    ASSUME NEW s \in Text, NEW x \in 0 .. Len(s), NEW guard, NEW out, Reads(guard, out, s, x)
    PROVE  IsPrefix(out, Cleaned(s))
  <1>0. Len(s) \in Nat /\ x \in Nat /\ x <= Len(s)
    BY DEF Text
  <1>1. PICK c \in 0 .. x : HeldFrom(s, c, x) /\ out = SubSeq(s, 1, c)
    BY DEF Reads
  <1>c. c \in Nat /\ c <= Len(s) /\ c <= x
    BY <1>0
  <1>2. ASSUME NEW w \in c .. Len(s) PROVE IsPrefix(out, SubSeq(s, 1, w))
    <2> DEFINE t == SubSeq(s, 1, w)
    <2>1. t \in Text /\ Len(t) = w /\ \A i \in 1 .. w : t[i] = s[i]
      BY <1>c DEF Text
    <2>2. out \in Text /\ Len(out) = c /\ \A i \in 1 .. c : out[i] = s[i]
      BY <1>1, <1>c DEF Text
    <2>3. w \in Nat /\ c <= w
      BY <1>c
    <2> HIDE DEF t
    <2>4. IsPrefix(out, t)
      BY <1>c, <2>1, <2>2, <2>3, PrefixMeans
    <2> QED
      BY <2>4 DEF t
  <1>3. CASE Refused(s) /\ ~Glued(s)
    <2> DEFINE A == Len(s) - Len(Sentence)
               w == WhitespaceStart(s, A)
    <2>0. A >= 1 /\ Opens(s, A, Len(s)) /\ s[A] = Space /\ Cleaned(s) = SubSeq(s, 1, w)
      BY <1>3, RefusedMeans DEF Glued, Cleaned
    <2>1. /\ A >= 1 /\ A \in Nat /\ A <= Len(s) /\ Opens(s, A, Len(s))
          /\ s[A] = Space /\ Cleaned(s) = SubSeq(s, 1, w)
      BY <2>0, <1>0, SentenceShape
    <2> HIDE DEF A
    <2>2. w \in 0 .. A /\ Gap(s, w, A) /\ (w = 0 \/ s[w] # Space)
      BY <1>0, <2>1, GapStart
    <2> HIDE DEF w
    <2>3. w \in Nat /\ w < A
      BY <2>1, <2>2
    <2>4. c <= w
      <3>1. CASE A <= x
        <4>1. Opens(s, A, x)
          BY <1>0, <2>1, SentenceShape DEF Opens
        <4> QED
          BY <1>1, <2>1, <2>2, <2>3, <3>1, <4>1 DEF HeldFrom
      <3>2. CASE x < A /\ w < x
        <4>1. Gap(s, w, x) /\ Opens(s, x, x)
          BY <1>0, <2>1, <2>2, <2>3, <3>2, SentenceShape DEF Gap, Opens
        <4> QED
          BY <1>0, <1>1, <2>3, <3>2, <4>1 DEF HeldFrom
      <3>3. CASE x <= w
        BY <1>c, <2>3, <3>3, <1>0
      <3> QED
        BY <1>0, <2>1, <2>3, <3>1, <3>2, <3>3
    <2>5. w \in c .. Len(s)
      BY <1>0, <1>c, <2>1, <2>3, <2>4
    <2> QED
      BY <1>2, <2>1, <2>5
  <1>4. CASE ~(Refused(s) /\ ~Glued(s))
    <2>1. Cleaned(s) = s /\ SubSeq(s, 1, Len(s)) = s /\ Len(s) \in c .. Len(s)
      BY <1>4, <1>0, <1>c, SubSeqFull DEF Cleaned, Text
    <2> QED
      BY <1>2, <2>1
  <1> QED
    BY <1>3, <1>4

(* finish() at the end of the answer.                                       *)
LEMMA FinishReads ==
    ASSUME NEW s \in Text, NEW guard, NEW out, Reads(guard, out, s, Len(s))
    PROVE  \/ out \o Finish(guard) = Cleaned(s)
           \/ Glued(s) /\ out \o Finish(guard) = Before(s)
  <1>0. Len(s) \in Nat /\ Len(Sentence) \in Nat /\ Len(Sentence) >= 1
    BY SentenceShape DEF Text
  <1>1. PICK c \in 0 .. Len(s) :
           HeldFrom(s, c, Len(s)) /\ guard = GuardAt(s, c, Len(s)) /\ out = SubSeq(s, 1, c)
    BY DEF Reads
  <1>c. c \in Nat /\ c <= Len(s)
    BY <1>0
  <1> DEFINE A == Len(s) - Len(Sentence)
             h == SubSeq(s, c + 1, Len(s))
  <1>A. A \in Int /\ A < Len(s) /\ Len(s) - A = Len(Sentence)
    BY <1>0
  <1>2. h \in Text /\ Len(h) = Len(s) - c /\ \A i \in 1 .. Len(s) - c : h[i] = s[c + i]
    BY <1>0, <1>c DEF Text
  <1>3. out \o h = s
    <2>1. 1 \in 1 .. Len(s) + 1 /\ c \in 1 - 1 .. Len(s) /\ Len(s) \in c .. Len(s)
      BY <1>0, <1>c
    <2>2. SubSeq(s, 1, c) \o SubSeq(s, c + 1, Len(s)) = SubSeq(s, 1, Len(s))
      BY <2>1, ConcatAdjacentSubSeq DEF Text
    <2> QED
      BY <1>1, <2>2, SubSeqFull DEF Text
  <1>4. guard.held = h /\ guard.content = ~Gap(s, 0, c)
    BY <1>1, Zenon DEF GuardAt
  <1>5. PICK m \in c .. Len(s) : Gap(s, c, m) /\ Opens(s, m, Len(s))
    BY <1>1 DEF HeldFrom
  <1>m. m \in Nat /\ c <= m /\ m <= Len(s)
    BY <1>c, <1>0
  <1>6. Strip(h) = Sentence <=> m = A
    <2>1. m - c \in 0 .. Len(h)
      BY <1>c, <1>m, <1>2, <1>0
    <2>2. Gap(h, 0, m - c)
      <3>1. \A i \in 0 + 1 .. m - c : i \in 1 .. Len(s) - c /\ c + i \in c + 1 .. m
        BY <1>c, <1>m, <1>0
      <3> HIDE DEF h
      <3> QED
        BY <1>2, <1>5, <3>1 DEF Gap
    <2>3. Opens(h, m - c, Len(h))
      <3>1. Len(h) - (m - c) = Len(s) - m
        BY <1>c, <1>m, <1>2, <1>0
      <3>2. \A i \in 1 .. Len(s) - m : (m - c) + i \in 1 .. Len(s) - c /\ c + ((m - c) + i) = m + i
        BY <1>c, <1>m, <1>0
      <3> HIDE DEF h
      <3>3. \A i \in 1 .. Len(s) - m : h[(m - c) + i] = s[m + i]
        BY <1>2, <3>2
      <3> QED
        BY <1>5, <3>1, <3>3 DEF Opens
    <2> HIDE DEF h
    <2>4. Strip(h) = Sentence <=> Len(h) - (m - c) = Len(Sentence)
      BY <1>2, <2>1, <2>2, <2>3, StripIs
    <2>5. Len(h) - (m - c) = Len(s) - m
      BY <1>c, <1>m, <1>2, <1>0
    <2>6. Len(s) - m = Len(Sentence) <=> m = A
      BY <1>m, <1>0
    <2> QED
      BY <2>4, <2>5, <2>6
  <1> HIDE DEF h
  <1>7. CASE Refused(s) /\ ~Glued(s)
    <2> DEFINE w == WhitespaceStart(s, A)
    <2>1. /\ A >= 1 /\ Opens(s, A, Len(s)) /\ ~Gap(s, 0, A)
          /\ s[A] = Space /\ Cleaned(s) = SubSeq(s, 1, w)
      BY <1>7, RefusedMeans DEF Glued, Cleaned
    <2> HIDE DEF A
    <2>2. w \in 0 .. A /\ Gap(s, w, A) /\ (w = 0 \/ s[w] # Space)
      BY <1>0, <1>A, <2>1, GapStart
    <2> HIDE DEF w
    <2>3. w \in Nat /\ w < A
      BY <1>A, <2>1, <2>2
    <2>4. c <= w
      BY <1>0, <1>A, <1>1, <2>1, <2>2, <2>3 DEF HeldFrom
    <2>5. m = A /\ c = w
      <3>1. m <= A
        (* The sentence starts at A + 1, so no more than its beginning is held. *)
        <4> SUFFICES ASSUME m > A PROVE FALSE
          BY <1>m, <1>A
        <4>1. A + 1 \in c + 1 .. m
          BY <1>m, <1>A, <1>c, <2>3, <2>4
        <4>2. s[A + 1] = Space
          BY <1>5, <4>1 DEF Gap
        <4>3. s[A + 1] = Sentence[1]
          <5>1. 1 \in 1 .. Len(s) - A
            BY <1>0, <1>A
          <5> QED
            BY <2>1, <5>1 DEF Opens
        <4> QED
          BY <4>2, <4>3, SentenceShape
      <3>2. Len(s) - m <= Len(Sentence)
        BY <1>5 DEF Opens
      <3>3. m = A
        BY <1>0, <1>m, <1>A, <3>1, <3>2
      <3>4. c = w
        <4> SUFFICES ASSUME c < w PROVE FALSE
          BY <1>c, <2>3, <2>4
        <4>1. w \in c + 1 .. m /\ w # 0
          BY <1>c, <2>3, <3>3, <1>m
        <4>2. s[w] = Space
          BY <1>5, <4>1 DEF Gap
        <4> QED
          BY <2>2, <4>1, <4>2
      <3> QED
        BY <3>3, <3>4
    <2>6. ~Gap(s, 0, c)
      <3> SUFFICES ASSUME Gap(s, 0, c) PROVE FALSE
        OBVIOUS
      <3>1. \A i \in 0 + 1 .. A : i \in 0 + 1 .. c \/ i \in w + 1 .. A
        BY <1>A, <1>c, <2>3, <2>5
      <3> QED
        BY <2>1, <2>2, <3>1 DEF Gap
    <2>7. Finish(guard) = <<>>
      BY <1>4, <1>6, <2>5, <2>6, Zenon DEF Finish
    <2>8. out \o <<>> = out
      BY <1>1, <1>c DEF Text
    <2> QED
      BY <1>1, <2>1, <2>5, <2>7, <2>8
  <1>8. CASE ~(Refused(s) /\ ~Glued(s))
    <2>1. Cleaned(s) = s
      BY <1>8 DEF Cleaned
    <2>2. CASE Finish(guard) = h
      BY <1>3, <2>1, <2>2
    <2>3. CASE Finish(guard) # h
      <3>1. Finish(guard) = <<>> /\ ~Gap(s, 0, c) /\ m = A
        BY <1>4, <1>6, <2>3, Zenon DEF Finish
      <3>2. ~Gap(s, 0, A) /\ A >= 1
        <4>1. \A i \in 0 + 1 .. c : i \in 0 + 1 .. A
          BY <1>c, <1>m, <3>1
        <4> HIDE DEF A
        <4>2. ~Gap(s, 0, A)
          BY <3>1, <4>1 DEF Gap
        <4>3. c # 0
          BY <3>1 DEF Gap
        <4> QED
          BY <4>2, <4>3, <1>c, <1>m, <3>1
      <3>3. Refused(s)
        BY <1>5, <3>1, <3>2, RefusedMeans
      <3>4. Glued(s)
        BY <1>8, <3>3
      <3>5. s[A] # Space
        BY <3>3, <3>4, RefusedMeans DEF Glued
      <3>6. c = A
        <4> SUFFICES ASSUME c < m PROVE FALSE
          BY <1>m, <3>1
        <4>1. m \in c + 1 .. m
          BY <1>c, <1>m
        <4> QED
          BY <1>5, <3>1, <3>5, <4>1 DEF Gap
      <3>7. out = Before(s)
        BY <1>1, <3>6 DEF Before
      <3>8. out \o <<>> = out
        BY <1>1, <1>c DEF Text
      <3> QED
        BY <3>1, <3>4, <3>7, <3>8
    <2> QED
      BY <2>2, <2>3
  <1> QED
    BY <1>7, <1>8

-----------------------------------------------------------------------------
(* The answer on its way to the client.                                     *)

Items == [kind : {"status", "thinking", "answer", "end"}, text : Text]

(* The items, in order, spell the answer s from position x + 1 to its end.  *)
Spells(items, s, x) ==
    /\ items \in Seq(Items)
    /\ \E ends \in [0 .. Len(items) -> 0 .. Len(s)] :
         /\ ends[0] = x /\ ends[Len(items)] = Len(s)
         /\ \A i \in 1 .. Len(items) :
              /\ ends[i - 1] <= ends[i]
              /\ items[i].text = SubSeq(s, ends[i - 1] + 1, ends[i])
              /\ items[i].kind # "answer" => ends[i] = ends[i - 1]

LEMMA SpellsNothing == Spells(<<>>, <<>>, 0)
  <1> DEFINE ends == [i \in 0 .. 0 |-> 0]
  <1>1. <<>> \in Seq(Items) /\ Len(<<>>) = 0
    BY EmptySeq
  <1>2. ends \in [0 .. 0 -> 0 .. 0] /\ ends[0] = 0
    OBVIOUS
  <1> HIDE DEF ends
  <1> QED
    BY <1>1, <1>2 DEF Spells

(* The thread posts one more item, with the text the answer grows by.       *)
LEMMA SpellsMore ==
    ASSUME NEW items, NEW s \in Text, NEW x \in 0 .. Len(s), Spells(items, s, x),
           NEW item \in Items, item.kind # "answer" => item.text = <<>>
    PROVE  Spells(items \o <<item>>, s \o item.text, x)
  <1> DEFINE t   == s \o item.text
             all == items \o <<item>>
             n   == Len(items)
  <1>1. items \in Seq(Items) /\ n \in Nat /\ item.text \in Text
    BY DEF Spells, Items
  <1>2. /\ t \in Text /\ Len(t) = Len(s) + Len(item.text) /\ Len(s) \in Nat /\ Len(item.text) \in Nat
        /\ \A i \in 1 .. Len(s) : t[i] = s[i]
        /\ \A i \in 1 .. Len(item.text) : t[Len(s) + i] = item.text[i]
    BY <1>1 DEF Text
  <1>3. all \in Seq(Items) /\ Len(all) = n + 1 /\ all[n + 1] = item /\ \A i \in 1 .. n : all[i] = items[i]
    BY <1>1
  <1>4. PICK ends \in [0 .. n -> 0 .. Len(s)] :
           /\ ends[0] = x /\ ends[n] = Len(s)
           /\ \A i \in 1 .. n : /\ ends[i - 1] <= ends[i]
                                /\ items[i].text = SubSeq(s, ends[i - 1] + 1, ends[i])
                                /\ items[i].kind # "answer" => ends[i] = ends[i - 1]
    BY DEF Spells
  <1> HIDE DEF t, all, n
  <1> DEFINE more == [i \in 0 .. n + 1 |-> IF i <= n THEN ends[i] ELSE Len(t)]
  <1>5. more \in [0 .. n + 1 -> 0 .. Len(t)]
    <2> SUFFICES ASSUME NEW i \in 0 .. n + 1 PROVE (IF i <= n THEN ends[i] ELSE Len(t)) \in 0 .. Len(t)
      OBVIOUS
    <2>1. CASE i <= n
      <3>1. i \in 0 .. n
        BY <1>1, <2>1
      <3>2. ends[i] \in 0 .. Len(s)
        BY <1>4, <3>1
      <3> QED
        BY <1>2, <2>1, <3>2
    <2>2. CASE ~(i <= n)
      BY <1>2, <2>2
    <2> QED
      BY <2>1, <2>2
  <1>6. (\A i \in 0 .. n : more[i] = ends[i]) /\ more[n + 1] = Len(t)
    BY <1>1
  <1> HIDE DEF more
  <1>7. ASSUME NEW i \in 1 .. n + 1
        PROVE  /\ more[i - 1] <= more[i]
               /\ all[i].text = SubSeq(t, more[i - 1] + 1, more[i])
               /\ all[i].kind # "answer" => more[i] = more[i - 1]
    <2>1. CASE i \in 1 .. n
      <3>1. i \in 0 .. n /\ i - 1 \in 0 .. n
        BY <1>1, <2>1
      <3>2. more[i] = ends[i] /\ more[i - 1] = ends[i - 1] /\ all[i] = items[i]
        BY <1>3, <1>6, <2>1, <3>1
      <3>3. PICK a \in 0 .. Len(s), b \in 0 .. Len(s) : a = ends[i - 1] /\ b = ends[i]
        BY <1>4, <3>1
      <3>4. SubSeq(t, a + 1, b) = SubSeq(s, a + 1, b)
        BY <1>2 DEF Text
      <3> QED
        BY <1>4, <2>1, <3>2, <3>3, <3>4
    <2>2. CASE i = n + 1
      <3>1. n \in 0 .. n /\ i - 1 = n
        BY <1>1, <2>2
      <3>2. more[i - 1] = Len(s) /\ more[i] = Len(t) /\ all[i] = item
        BY <1>3, <1>4, <1>6, <2>2, <3>1
      <3> DEFINE u == SubSeq(t, Len(s) + 1, Len(t))
      <3>3. /\ u \in Text /\ Len(u) = Len(item.text)
            /\ \A j \in 1 .. Len(item.text) : u[j] = t[Len(s) + j]
        BY <1>2 DEF Text
      <3> HIDE DEF u
      <3>4. u = item.text
        <4>1. \A j \in 1 .. Len(u) : u[j] = item.text[j]
          BY <1>2, <3>3
        <4>2. u \in Seq(STRING) /\ item.text \in Seq(STRING)
          BY <1>1, <3>3 DEF Text
        <4> QED
          BY <3>3, <4>1, <4>2, SeqEqual
      <3>5. item.text = <<>> => Len(item.text) = 0
        OBVIOUS
      <3> QED
        BY <1>2, <3>2, <3>4, <3>5 DEF u
    <2> QED
      BY <1>1, <2>1, <2>2
  <1>8. more[0] = x /\ Len(all) = n + 1 /\ more[n + 1] = Len(t)
    BY <1>1, <1>3, <1>4, <1>6
  <1>9. Spells(all, t, x)
    BY <1>3, <1>5, <1>7, <1>8 DEF Spells
  <1> QED
    BY <1>9 DEF all, t

(* The generator takes the first item.                                      *)
LEMMA SpellsHead ==
    ASSUME NEW items, NEW s \in Text, NEW x \in 0 .. Len(s), Spells(items, s, x), items # <<>>
    PROVE  \E y \in x .. Len(s) : /\ Head(items).text = SubSeq(s, x + 1, y)
                                  /\ Head(items).kind # "answer" => y = x
                                  /\ Len(items) = 1 => y = Len(s)
                                  /\ Spells(Tail(items), s, y)
  <1> DEFINE n    == Len(items)
             rest == Tail(items)
  <1>1. items \in Seq(Items) /\ n \in Nat /\ n >= 1 /\ Head(items) = items[1]
    BY EmptySeq DEF Spells
  <1>2. rest \in Seq(Items) /\ Len(rest) = n - 1 /\ \A i \in 1 .. n - 1 : rest[i] = items[i + 1]
    BY <1>1
  <1>3. PICK ends \in [0 .. n -> 0 .. Len(s)] :
           /\ ends[0] = x /\ ends[n] = Len(s)
           /\ \A i \in 1 .. n : /\ ends[i - 1] <= ends[i]
                                /\ items[i].text = SubSeq(s, ends[i - 1] + 1, ends[i])
                                /\ items[i].kind # "answer" => ends[i] = ends[i - 1]
    BY DEF Spells
  <1> HIDE DEF n, rest
  <1>4. PICK y \in 0 .. Len(s) : y = ends[1]
    BY <1>1, <1>3
  <1>5. 1 \in 1 .. n /\ 1 - 1 = 0
    BY <1>1
  <1>6. /\ x <= y /\ items[1].text = SubSeq(s, x + 1, y)
        /\ items[1].kind # "answer" => y = x
    BY <1>3, <1>4, <1>5
  <1> DEFINE less == [i \in 0 .. n - 1 |-> ends[i + 1]]
  <1>7. less \in [0 .. n - 1 -> 0 .. Len(s)] /\ \A i \in 0 .. n - 1 : less[i] = ends[i + 1]
    <2>1. \A i \in 0 .. n - 1 : i + 1 \in 0 .. n
      BY <1>1
    <2> QED
      BY <1>3, <2>1
  <1> HIDE DEF less
  <1>8. less[0] = y /\ less[n - 1] = Len(s)
    <2>1. 0 \in 0 .. n - 1 /\ n - 1 \in 0 .. n - 1 /\ 0 + 1 = 1 /\ (n - 1) + 1 = n
      BY <1>1
    <2> QED
      BY <1>3, <1>4, <1>7, <2>1
  <1>9. \A i \in 1 .. n - 1 : /\ less[i - 1] <= less[i]
                              /\ rest[i].text = SubSeq(s, less[i - 1] + 1, less[i])
                              /\ rest[i].kind # "answer" => less[i] = less[i - 1]
    <2> SUFFICES ASSUME NEW i \in 1 .. n - 1
                 PROVE  /\ less[i - 1] <= less[i]
                        /\ rest[i].text = SubSeq(s, less[i - 1] + 1, less[i])
                        /\ rest[i].kind # "answer" => less[i] = less[i - 1]
      OBVIOUS
    <2>1. /\ i \in 0 .. n - 1 /\ i - 1 \in 0 .. n - 1 /\ i + 1 \in 1 .. n
          /\ (i - 1) + 1 = i /\ (i + 1) - 1 = i
      BY <1>1
    <2>2. less[i] = ends[i + 1] /\ less[i - 1] = ends[i] /\ rest[i] = items[i + 1]
      BY <1>2, <1>7, <2>1
    <2>3. /\ ends[i] <= ends[i + 1]
          /\ items[i + 1].text = SubSeq(s, ends[i] + 1, ends[i + 1])
          /\ items[i + 1].kind # "answer" => ends[i + 1] = ends[i]
      BY <1>3, <2>1
    <2> QED
      BY <2>2, <2>3
  <1>10. Spells(rest, s, y)
    BY <1>2, <1>7, <1>8, <1>9 DEF Spells
  <1>11. n = 1 => y = Len(s)
    BY <1>3, <1>4
  <1>12. y \in x .. Len(s)
    BY <1>4, <1>6
  <1>13. /\ items[1].text = SubSeq(s, x + 1, y) /\ (items[1].kind # "answer" => y = x)
         /\ (Len(items) = 1 => y = Len(s)) /\ Spells(Tail(items), s, y)
    BY <1>6, <1>10, <1>11 DEF n, rest
  <1> QED
    BY <1>1, <1>12, <1>13, Zenon

-----------------------------------------------------------------------------
(* The inductive invariant of an answer.                                    *)

Rest == Stages \ (Early \cup {"stream", "account", "publish"})

Whole(q) == \/ gen[q].out = Cleaned(said[q].text)
            \/ Glued(said[q].text) /\ gen[q].out = Before(said[q].text)

(* What was read is what is sent and held; what was posted is the rest, and  *)
(* the sentinel comes last, from a call that has ended.                     *)
Streaming(q) ==
    /\ \E x \in 0 .. Len(said[q].text) : /\ Reads(gen[q].guard, gen[q].out, said[q].text, x)
                                         /\ Spells(queue[q], said[q].text, x)
    /\ \A i \in 1 .. Len(queue[q]) : queue[q][i].kind = "end" => i = Len(queue[q]) /\ llm[q] = "done"
    /\ llm[q] = "done" => thread[q] # "busy"

Fresh(q) == /\ gen[q].out = <<>> /\ gen[q].guard = NewGuard
            /\ queue[q] = <<>> /\ said[q].text = <<>>

Right(q) ==
    /\ pc[q] \in Early => Fresh(q)
    /\ pc[q] = "stream" => Streaming(q)
    /\ pc[q] \in {"account", "publish"} => Whole(q)
    /\ pc[q] \in Rest => gen[q].out = <<>>

AInv ==
    /\ TInv
    /\ said \in [Queries -> [chunks : Nat, text : Text]]
    /\ \A q \in Queries : Right(q)

LEMMA CleanedNothing == Cleaned(<<>>) = <<>>
  <1>1. <<>> \in Text /\ Len(<<>>) = 0
    BY DEF Text
  <1>2. ~Refused(<<>>)
    <2>1. ~(Len(<<>>) - Len(Sentence) >= 1)
      BY <1>1, SentenceShape
    <2> QED
      BY <1>1, <2>1, RefusedMeans
  <1> QED
    BY <1>2 DEF Cleaned

LEMMA NothingSent == ASSUME NEW s \in Text PROVE IsPrefix(<<>>, Cleaned(s))
  <1>1. 0 \in 0 .. Len(s)
    BY DEF Text
  <1> QED
    BY <1>1, ReadsNothing, ReadsPrefix

LEMMA AInvIntact == AInv => AnswerIntact
  <1> SUFFICES ASSUME AInv, NEW q \in Queries
               PROVE  IF pc[q] \in {"account", "publish"}
                      THEN Whole(q) ELSE IsPrefix(gen[q].out, Cleaned(said[q].text))
    BY DEF AnswerIntact, Whole
  <1>1. Right(q) /\ said[q].text \in Text /\ pc[q] \in Stages
    BY DEF AInv, TInv, IInv, Shape
  <1>2. CASE pc[q] \in {"account", "publish"}
    BY <1>1, <1>2 DEF Right
  <1>3. CASE pc[q] = "stream"
    <2>1. PICK x \in 0 .. Len(said[q].text) : Reads(gen[q].guard, gen[q].out, said[q].text, x)
      BY <1>1, <1>3 DEF Right, Streaming
    <2> QED
      BY <1>1, <1>3, <2>1, ReadsPrefix
  <1>4. CASE pc[q] \in Early \cup Rest
    <2>1. gen[q].out = <<>> /\ pc[q] \notin {"account", "publish"}
      BY <1>1, <1>4 DEF Right, Fresh, Early, Rest
    <2> QED
      BY <1>1, <2>1, NothingSent
  <1> QED
    BY <1>1, <1>2, <1>3, <1>4 DEF Rest

LEMMA AInvInit == Init => AInv
  <1> SUFFICES ASSUME Init PROVE AInv
    OBVIOUS
  <1>1. said \in [Queries -> [chunks : Nat, text : Text]]
    <2>1. NewSaid \in [chunks : Nat, text : Text]
      BY DEF NewSaid, Text
    <2> QED
      BY <2>1 DEF Init
  <1>2. ASSUME NEW q \in Queries PROVE Right(q)
    <2>1. pc[q] = "idle" /\ gen[q] = NewGen /\ queue[q] = <<>> /\ said[q] = NewSaid
      BY DEF Init
    <2> QED
      BY <2>1 DEF Right, Fresh, NewGen, NewSaid, Rest, Early
  <1> QED
    BY <1>1, <1>2, TInvInit DEF AInv

(* A step is about one request.                                             *)
Same(p) == /\ pc'[p] = pc[p] /\ gen'[p] = gen[p] /\ queue'[p] = queue[p] /\ said'[p] = said[p]
           /\ llm'[p] = llm[p] /\ thread'[p] = thread[p]

LEMMA SameRight == ASSUME NEW p \in Queries, Right(p), Same(p) PROVE Right(p)'
  BY DEF Right, Same, Fresh, Streaming, Whole

Typed == /\ pc \in [Queries -> Stages] /\ (\E G, O : gen \in [Queries -> Locals(G, O)])
         /\ (\E S : queue \in [Queries -> S])
         /\ said \in [Queries -> [chunks : Nat, text : Text]]
         /\ llm \in [Queries -> {"none", "waiting", "running", "done"}]
         /\ thread \in [Queries -> {"none", "busy", "finished"}]

LEMMA AInvTyped == AInv => Typed
  BY DEF AInv, TInv, IInv, Shape, Line, Typed

OnlyThis(q) == /\ said' \in [Queries -> [chunks : Nat, text : Text]]
               /\ \A p \in Queries \ {q} : Same(p)

(* Before the stream.                                                       *)
LEMMA RightEarly ==
    ASSUME AInv, NEW q \in Queries,
           \/ Begin(q) \/ Embed(q) \/ Lookup(q) \/ Expand(q) \/ Retrieve(q) \/ RetrieveExpanded(q)
           \/ Validate(q) \/ Rerank(q) \/ Gate(q)
    PROVE  Right(q)' /\ OnlyThis(q)
  <1>1. UNCHANGED <<queue, said, llm, thread>> /\ pc[q] \in Early
    BY DEF Begin, Embed, Lookup, Expand, Retrieve, RetrieveExpanded, Validate, Rerank, Gate, posts, task,
           Early
  <1>2. \E stage \in Early \cup {"publish", "error"} : Goto(q, stage)
    BY DEF Begin, Embed, Lookup, Expand, Retrieve, RetrieveExpanded, Candidates, Validate, Rerank,
           Gate, Early
  <1>3. PICK G, O : gen \in [Queries -> Locals(G, O)]
    BY AInvTyped DEF Typed
  <1>4. /\ gen'[q].out = gen[q].out /\ gen'[q].guard = gen[q].guard
        /\ \A p \in Queries \ {q} : gen'[p] = gen[p]
    <2>1. CASE gen' = gen
      BY <2>1
    <2>2. CASE \E s : gen' = [gen EXCEPT ![q].sparse = s]
      BY <1>3, <2>2 DEF Locals
    <2>3. CASE \E w : gen' = [gen EXCEPT ![q].widened = w]
      BY <1>3, <2>3 DEF Locals
    <2>4. CASE \E d : gen' = [gen EXCEPT ![q].docs = d]
      BY <1>3, <2>4 DEF Locals
    <2>5. CASE \E d, s : gen' = [gen EXCEPT ![q].docs = d, ![q].sparse = s]
      BY <1>3, <2>5 DEF Locals
    <2>6. CASE \E d, w : gen' = [gen EXCEPT ![q].docs = d, ![q].widened = w]
      BY <1>3, <2>6 DEF Locals
    <2>7. CASE \E d, v : gen' = [gen EXCEPT ![q].docs = d, ![q].verdict = v]
      BY <1>3, <2>7 DEF Locals
    <2>8. CASE RetrieveExpanded(q)
      <3>1. PICK more : gen' = [gen EXCEPT ![q].docs = gen[q].docs \cup more, ![q].widened = FALSE]
        BY <2>8, <1>3 DEF RetrieveExpanded, Locals
      <3> QED
        BY <2>6, <3>1
    <2>9. CASE \E d : gen' = [gen EXCEPT ![q].replayed = d]
      BY <1>3, <2>9 DEF Locals
    <2>15. Begin(q) => gen' = gen
      BY DEF Begin
    <2>16. Lookup(q) => gen' = gen \/ \E d : gen' = [gen EXCEPT ![q].replayed = d]
      BY DEF Lookup
    <2>10. Embed(q) => gen' = gen \/ \E s : gen' = [gen EXCEPT ![q].sparse = s]
      BY DEF Embed
    <2>11. Expand(q) => \E w : gen' = [gen EXCEPT ![q].widened = w]
      BY DEF Expand
    <2>12. Retrieve(q) => gen' = gen \/ \E d, s : gen' = [gen EXCEPT ![q].docs = d, ![q].sparse = s]
      BY DEF Retrieve
    <2>13. Validate(q) => gen' = gen \/ \E d : gen' = [gen EXCEPT ![q].docs = d]
      BY DEF Validate
    <2>14. Rerank(q) \/ Gate(q) => \E d, v : gen' = [gen EXCEPT ![q].docs = d, ![q].verdict = v]
      BY DEF Rerank, Gate
    <2> QED
      BY <2>1, <2>2, <2>3, <2>4, <2>5, <2>6, <2>7, <2>8, <2>9, <2>10, <2>11, <2>12, <2>13, <2>14, <2>15,
         <2>16
  <1>5. Fresh(q)
    BY <1>1 DEF AInv, Right
  <1>6. PICK stage \in Early \cup {"publish", "error"} :
           pc'[q] = stage /\ \A p \in Queries \ {q} : pc'[p] = pc[p]
    BY <1>2, AInvTyped DEF Goto, Typed
  <1>7. Right(q)'
    <2>1. Fresh(q)'
      BY <1>1, <1>4, <1>5 DEF Fresh
    <2>2. Whole(q)'
      BY <2>1, CleanedNothing DEF Fresh, Whole
    <2>3. pc'[q] # "stream"
      BY <1>6 DEF Early
    <2> QED
      BY <2>1, <2>2, <2>3 DEF Right, Fresh
  <1>8. OnlyThis(q)
    BY <1>1, <1>4, <1>6 DEF OnlyThis, Same, AInv
  <1> QED
    BY <1>7, <1>8

LEMMA RightGenerate == ASSUME AInv, NEW q \in Queries, Generate(q) PROVE Right(q)' /\ OnlyThis(q)
  <1>1. /\ UNCHANGED <<gen, queue, said, thread>> /\ pc[q] = "generate" /\ Goto(q, "stream")
        /\ llm' = [llm EXCEPT ![q] = "waiting"]
    BY DEF Generate, posts
  <1>2. /\ pc'[q] = "stream" /\ llm'[q] = "waiting"
        /\ \A p \in Queries \ {q} : pc'[p] = pc[p] /\ llm'[p] = llm[p]
    BY <1>1, AInvTyped DEF Goto, Typed
  <1>3. Fresh(q)
    BY <1>1 DEF AInv, Right, Early
  <1>4. /\ gen'[q].out = <<>> /\ gen'[q].guard = NewGuard
        /\ queue'[q] = <<>> /\ said'[q].text = <<>>
    BY <1>1, <1>3 DEF Fresh
  <1>5. Streaming(q)'
    <2>1. <<>> \in Text /\ Len(<<>>) = 0
      BY DEF Text
    <2>2. Reads(NewGuard, <<>>, <<>>, 0) /\ Spells(<<>>, <<>>, 0)
      BY <2>1, ReadsNothing, SpellsNothing
    <2>3. \E x \in 0 .. Len(said'[q].text) : /\ Reads(gen'[q].guard, gen'[q].out, said'[q].text, x)
                                            /\ Spells(queue'[q], said'[q].text, x)
      BY <1>4, <2>1, <2>2
    <2>4. \A i \in 1 .. Len(queue'[q]) :
             queue'[q][i].kind = "end" => i = Len(queue'[q]) /\ llm'[q] = "done"
      BY <1>4, <2>1
    <2> QED
      BY <1>2, <2>3, <2>4 DEF Streaming
  <1>6. Right(q)'
    BY <1>2, <1>5 DEF Right, Early, Rest
  <1> QED
    BY <1>1, <1>2, <1>6 DEF OnlyThis, Same, AInv

(* The LLM task gets its permit.                                            *)
LEMMA RightAcquire == ASSUME AInv, NEW q \in Queries, Acquire(q) PROVE Right(q)' /\ OnlyThis(q)
  <1>1. /\ UNCHANGED <<pc, gen, queue, said>> /\ waiters # <<>> /\ Head(waiters) = q
        /\ llm' = [llm EXCEPT ![q] = "running"] /\ thread' = [thread EXCEPT ![q] = "busy"]
    BY DEF Acquire, posts
  <1>2. /\ llm'[q] = "running"
        /\ \A p \in Queries \ {q} : llm'[p] = llm[p] /\ thread'[p] = thread[p]
    BY <1>1, AInvTyped DEF Typed
  <1>3. llm[q] = "waiting"
    <2>1. waiters \in Seq(Queries) /\ Len(waiters) >= 1 /\ waiters[1] = q
      BY <1>1 DEF AInv, TInv, Line
    <2>2. q \in ToSet(waiters)
      BY <2>1 DEF ToSet
    <2> QED
      BY <2>2 DEF AInv, TInv, Line
  <1>4. \A i \in 1 .. Len(queue[q]) : FALSE
    <2>1. queue[q] = <<>>
      BY <1>3 DEF AInv, TInv, Line, Unstarted
    <2> QED
      BY <2>1
  <1>5. Streaming(q) => Streaming(q)'
    BY <1>1, <1>2, <1>4 DEF Streaming
  <1>6. Right(q)
    BY DEF AInv
  <1>7. Right(q)'
    BY <1>1, <1>5, <1>6 DEF Right, Fresh, Whole
  <1> QED
    BY <1>1, <1>2, <1>7 DEF OnlyThis, Same, AInv

(* What a chunk posts is the answer text it carries, if any.                *)
LEMMA PostedIs ==
    ASSUME NEW chunk \in RawChunk
    PROVE  \/ Posted(chunk) = <<>> /\ Answered(chunk) = <<>>
           \/ \E item \in Items : /\ Posted(chunk) = <<item>> /\ item.text = Answered(chunk)
                                  /\ item.kind # "end" /\ (item.kind # "answer" => item.text = <<>>)
  <1>1. chunk.content \in Text /\ <<>> \in Text
    BY DEF RawChunk, Text
  <1>2. ASSUME NEW k \in {"status", "thinking", "answer"}, NEW t \in Text
        PROVE  Item(k, t) \in Items /\ Item(k, t).kind = k /\ Item(k, t).text = t
    BY <1>2 DEF Item, Items
  <1>3. CASE Thinking /\ chunk.reasoning
    <2>1. Posted(chunk) = <<Item("thinking", <<>>)>> /\ Answered(chunk) = <<>>
      BY <1>3, Zenon DEF Posted, Answered
    <2> QED
      BY <1>1, <1>2, <2>1
  <1>4. CASE ~(Thinking /\ chunk.reasoning)
    <2>1. Answered(chunk) = chunk.content
      BY <1>4, Zenon DEF Answered
    <2>2. \/ Posted(chunk) = <<Item("status", <<>>)>> /\ chunk.content = <<>>
          \/ Posted(chunk) = <<Item("answer", chunk.content)>>
          \/ Posted(chunk) = <<>> /\ chunk.content = <<>>
      BY <1>4, Zenon DEF Posted
    <2> QED
      BY <1>1, <1>2, <2>1, <2>2
  <1> QED
    BY <1>3, <1>4

LEMMA RightEmit == ASSUME AInv, NEW q \in Queries, Emit(q) PROVE Right(q)' /\ OnlyThis(q)
  <1>1. PICK chunk \in Chunks :
           /\ queue' = [queue EXCEPT ![q] = @ \o Posted(chunk)]
           /\ said' = [said EXCEPT ![q] = [chunks |-> @.chunks + 1, text |-> @.text \o Answered(chunk)]]
    BY DEF Emit
  <1>2. /\ UNCHANGED <<pc, gen, llm, thread>> /\ thread[q] = "busy" /\ pc[q] = "stream"
    BY DEF Emit, task
  <1>3. /\ queue'[q] = queue[q] \o Posted(chunk)
        /\ \A p \in Queries \ {q} : queue'[p] = queue[p]
    BY <1>1, AInvTyped DEF Typed
  <1>4. chunk \in RawChunk
    BY ChunksAssumption
  <1>5. Answered(chunk) \in Text
    <2>1. chunk.content \in Text /\ <<>> \in Text
      BY <1>4 DEF RawChunk, Text
    <2> QED
      BY <2>1 DEF Answered
  <1>6. said[q] \in [chunks : Nat, text : Text]
    BY DEF AInv
  <1> DEFINE s == said[q].text
  <1>7. /\ said' \in [Queries -> [chunks : Nat, text : Text]]
        /\ said'[q].text = s \o Answered(chunk)
        /\ \A p \in Queries \ {q} : said'[p] = said[p]
    <2>1. s \o Answered(chunk) \in Text /\ said[q].chunks + 1 \in Nat
      BY <1>5, <1>6 DEF Text
    <2> DEFINE v == [chunks |-> said[q].chunks + 1, text |-> s \o Answered(chunk)]
    <2>2. v \in [chunks : Nat, text : Text] /\ v.text = s \o Answered(chunk)
      BY <2>1
    <2>3. said' = [said EXCEPT ![q] = v]
      BY <1>1
    <2> HIDE DEF v, s
    <2> QED
      BY <2>2, <2>3 DEF AInv
  <1>8. Streaming(q) /\ s \in Text
    BY <1>2, <1>6 DEF AInv, Right
  <1>9. PICK x \in 0 .. Len(s) : Reads(gen[q].guard, gen[q].out, s, x) /\ Spells(queue[q], s, x)
    BY <1>8 DEF Streaming
  <1>10. \A i \in 1 .. Len(queue[q]) : queue[q][i].kind # "end"
    BY <1>2, <1>8 DEF Streaming
  <1> DEFINE t == s \o Answered(chunk)
  <1>11. t \in Text /\ Reads(gen[q].guard, gen[q].out, t, x) /\ x \in 0 .. Len(t)
    <2>1. Len(t) = Len(s) + Len(Answered(chunk)) /\ Len(s) \in Nat /\ Len(Answered(chunk)) \in Nat /\ t \in Text
      BY <1>5, <1>8 DEF Text
    <2>2. x \in 0 .. Len(t)
      BY <2>1
    <2> QED
      BY <1>5, <1>8, <1>9, <2>1, <2>2, ReadsLonger
  <1>12. queue[q] \in Seq(Items)
    BY <1>9 DEF Spells
  <1>13. Spells(queue'[q], t, x) /\ \A i \in 1 .. Len(queue'[q]) : queue'[q][i].kind # "end"
    <2>1. CASE Posted(chunk) = <<>> /\ Answered(chunk) = <<>>
      <3>1. queue'[q] = queue[q]
        BY <1>3, <1>12, <2>1
      <3>2. t = s
        BY <1>8, <2>1 DEF Text
      <3> HIDE DEF t, s
      <3> QED
        BY <1>9, <1>10, <3>1, <3>2
    <2>2. ASSUME NEW item \in Items, Posted(chunk) = <<item>>, item.text = Answered(chunk),
                 item.kind # "end", item.kind # "answer" => item.text = <<>>
          PROVE  Spells(queue'[q], t, x) /\ \A i \in 1 .. Len(queue'[q]) : queue'[q][i].kind # "end"
      <3> HIDE DEF s
      <3>1. Spells(queue[q] \o <<item>>, s \o item.text, x)
        BY <1>8, <1>9, <2>2, SpellsMore
      <3>2. /\ Len(queue[q] \o <<item>>) = Len(queue[q]) + 1
            /\ (queue[q] \o <<item>>)[Len(queue[q]) + 1] = item
            /\ \A i \in 1 .. Len(queue[q]) : (queue[q] \o <<item>>)[i] = queue[q][i]
            /\ Len(queue[q]) \in Nat
        BY <1>12
      <3>3. \A i \in 1 .. Len(queue[q]) + 1 : i \in 1 .. Len(queue[q]) \/ i = Len(queue[q]) + 1
        BY <3>2
      <3>4. queue'[q] = queue[q] \o <<item>>
        BY <1>3, <2>2
      <3> QED
        BY <1>10, <2>2, <3>1, <3>2, <3>3, <3>4
    <2> QED
      BY <1>4, <2>1, <2>2, PostedIs
  <1>14. Streaming(q)'
    <2>1. said'[q].text = t
      BY <1>7
    <2> HIDE DEF t
    <2> QED
      BY <1>2, <1>8, <1>11, <1>13, <2>1 DEF Streaming
  <1>15. Right(q)'
    BY <1>2, <1>14 DEF Right, Early, Rest
  <1> QED
    BY <1>2, <1>3, <1>7, <1>15 DEF OnlyThis, Same

(* The call returns or raises.                                              *)
LEMMA RightEnds == ASSUME AInv, NEW q \in Queries, ThreadEnds(q) PROVE Right(q)' /\ OnlyThis(q)
  <1>1. /\ UNCHANGED <<pc, gen, said>> /\ thread[q] = "busy"
        /\ thread' = [thread EXCEPT ![q] = "finished"]
    BY DEF ThreadEnds
  <1>2. PICK ok \in BOOLEAN :
           /\ llm' = [llm EXCEPT ![q] = IF @ = "running" THEN Finished(q, ok) ELSE @]
           /\ IF llm[q] = "running" /\ pc[q] = "stream"
              THEN queue' = [queue EXCEPT ![q] = @ \o Sentinel(ok)]
              ELSE queue' = queue
    BY DEF ThreadEnds
  <1>3. /\ thread'[q] = "finished" /\ (llm[q] = "running" => llm'[q] = "done")
        /\ \A p \in Queries \ {q} : thread'[p] = thread[p] /\ llm'[p] = llm[p] /\ queue'[p] = queue[p]
        /\ llm[q] = "running" /\ pc[q] = "stream" => queue'[q] = queue[q] \o <<End>>
    BY <1>1, <1>2, AInvTyped DEF Typed, Finished, Sentinel
  <1>4. OnlyThis(q)
    BY <1>1, <1>3 DEF OnlyThis, Same, AInv
  <1>5. Right(q)
    BY DEF AInv
  <1>6. CASE pc[q] = "stream"
    <2> DEFINE s == said[q].text
    <2>1. Streaming(q) /\ s \in Text
      BY <1>5, <1>6 DEF Right, AInv
    <2>2. llm[q] = "running"
      <3>1. ~Unstarted(q)
        BY <1>1 DEF AInv, TInv, Line
      <3> QED
        BY <1>1, <2>1, <3>1, AInvTyped DEF Typed, Unstarted, Streaming
    <2>3. queue'[q] = queue[q] \o <<End>> /\ llm'[q] = "done"
      BY <1>3, <1>6, <2>2
    <2>4. PICK x \in 0 .. Len(s) : Reads(gen[q].guard, gen[q].out, s, x) /\ Spells(queue[q], s, x)
      BY <2>1 DEF Streaming
    <2>5. End \in Items /\ End.kind = "end" /\ End.text = <<>>
      BY DEF End, Item, Items, Text
    <2>6. Spells(queue[q] \o <<End>>, s, x)
      <3>1. s \o End.text = s
        BY <2>1, <2>5 DEF Text
      <3>2. Spells(queue[q] \o <<End>>, s \o End.text, x)
        <4> HIDE DEF s
        <4> QED
          BY <2>1, <2>4, <2>5, SpellsMore
      <3> QED
        BY <3>1, <3>2
    <2>7. \A i \in 1 .. Len(queue'[q]) : queue'[q][i].kind = "end" => i = Len(queue'[q])
      <3>1. queue[q] \in Seq(Items)
        BY <2>4 DEF Spells
      <3>2. /\ Len(queue'[q]) = Len(queue[q]) + 1 /\ Len(queue[q]) \in Nat
            /\ \A i \in 1 .. Len(queue[q]) : queue'[q][i] = queue[q][i]
        BY <2>3, <3>1
      <3>3. \A i \in 1 .. Len(queue[q]) : queue[q][i].kind # "end"
        BY <2>1, <2>2 DEF Streaming
      <3>4. \A i \in 1 .. Len(queue[q]) + 1 : i \in 1 .. Len(queue[q]) \/ i = Len(queue[q]) + 1
        BY <3>2
      <3> QED
        BY <3>2, <3>3, <3>4
    <2>8. Streaming(q)'
      BY <1>1, <1>3, <2>3, <2>4, <2>6, <2>7 DEF Streaming
    <2>9. Right(q)'
      BY <1>1, <1>6, <2>8 DEF Right, Early, Rest
    <2> QED
      BY <1>4, <2>9
  <1>7. CASE pc[q] # "stream"
    <2>1. queue' = queue
      BY <1>2, <1>7
    <2>2. Right(q)'
      BY <1>1, <1>5, <1>7, <2>1 DEF Right, Fresh, Whole
    <2> QED
      BY <1>4, <2>2
  <1> QED
    BY <1>6, <1>7

(* The generator takes an item.                                             *)
LEMMA RightConsume == ASSUME AInv, NEW q \in Queries, Consume(q) PROVE Right(q)' /\ OnlyThis(q)
  <1> DEFINE item == Head(queue[q])
             fed  == Feed(gen[q].guard, item.text)
             s    == said[q].text
  <1>1. /\ UNCHANGED <<said, llm, thread>> /\ pc[q] = "stream" /\ queue[q] # <<>>
        /\ queue' = [queue EXCEPT ![q] = Tail(queue[q])]
    BY AInvTyped DEF Consume, task, Typed
  <1>2. \/ /\ item.kind = "end" /\ Goto(q, "account")
           /\ gen' = [gen EXCEPT ![q].out = @ \o Finish(gen[q].guard)]
        \/ /\ item.kind \in {"thinking", "status"} /\ pc' = pc
           /\ gen' = [gen EXCEPT ![q].thought = @ \/ item.kind = "thinking"]
        \/ /\ item.kind = "answer" /\ pc' = pc
           /\ gen' = [gen EXCEPT ![q].guard = fed.guard, ![q].out = @ \o fed.out]
    BY DEF Consume
  <1>3. PICK G, O : gen \in [Queries -> Locals(G, O)]
    BY AInvTyped DEF Typed
  <1>4. \A p \in Queries \ {q} : pc'[p] = pc[p] /\ gen'[p] = gen[p] /\ queue'[p] = queue[p]
    BY <1>1, <1>2, <1>3, AInvTyped DEF Typed, Goto
  <1>5. OnlyThis(q)
    BY <1>1, <1>4 DEF OnlyThis, Same, AInv
  <1>6. queue'[q] = Tail(queue[q])
    BY <1>1, AInvTyped DEF Typed
  <1>7. Streaming(q) /\ s \in Text
    BY <1>1 DEF AInv, Right
  <1>8. PICK x \in 0 .. Len(s) : Reads(gen[q].guard, gen[q].out, s, x) /\ Spells(queue[q], s, x)
    BY <1>7 DEF Streaming
  <1>9. PICK y \in x .. Len(s) : /\ item.text = SubSeq(s, x + 1, y)
                                 /\ item.kind # "answer" => y = x
                                 /\ Len(queue[q]) = 1 => y = Len(s)
                                 /\ Spells(Tail(queue[q]), s, y)
    <2> HIDE DEF s
    <2> QED
      BY <1>1, <1>7, <1>8, SpellsHead
  <1>10. /\ queue[q] \in Seq(Items) /\ Len(queue[q]) \in Nat /\ Len(queue[q]) >= 1 /\ item = queue[q][1]
         /\ Len(Tail(queue[q])) = Len(queue[q]) - 1
         /\ \A i \in 1 .. Len(queue[q]) - 1 : Tail(queue[q])[i] = queue[q][i + 1]
    <2>1. queue[q] \in Seq(Items)
      BY <1>8 DEF Spells
    <2> QED
      BY <1>1, <2>1, EmptySeq
  <1>11. y \in 0 .. Len(s)
    BY <1>7 DEF Text
  <1>12. ASSUME pc' = pc, Reads(gen'[q].guard, gen'[q].out, s, y) PROVE Right(q)'
    <2>1. \A i \in 1 .. Len(queue'[q]) :
             queue'[q][i].kind = "end" => i = Len(queue'[q]) /\ llm'[q] = "done"
      <3> SUFFICES ASSUME NEW i \in 1 .. Len(queue[q]) - 1, queue[q][i + 1].kind = "end"
                   PROVE  i = Len(queue[q]) - 1 /\ llm[q] = "done"
        BY <1>1, <1>6, <1>10
      <3>1. i + 1 \in 1 .. Len(queue[q])
        BY <1>10
      <3>2. i + 1 = Len(queue[q]) /\ llm[q] = "done"
        BY <1>7, <3>1 DEF Streaming
      <3> QED
        BY <3>2, <1>10
    <2>2. Streaming(q)'
      BY <1>1, <1>6, <1>7, <1>9, <1>11, <1>12, <2>1 DEF Streaming
    <2> QED
      BY <1>1, <1>12, <2>2 DEF Right, Early, Rest
  <1>13. CASE item.kind = "end"
    <2>1. pc'[q] = "account" /\ gen'[q].out = gen[q].out \o Finish(gen[q].guard)
      <3>1. Goto(q, "account") /\ gen' = [gen EXCEPT ![q].out = @ \o Finish(gen[q].guard)]
        BY <1>2, <1>13
      <3>2. pc'[q] = "account"
        BY <3>1, AInvTyped DEF Goto, Typed
      <3>3. gen'[q].out = gen[q].out \o Finish(gen[q].guard)
        BY <1>3, <3>1 DEF Locals
      <3> QED
        BY <3>2, <3>3
    <2>2. x = Len(s)
      <3>1. 1 = Len(queue[q])
        <4>1. 1 \in 1 .. Len(queue[q])
          BY <1>10
        <4> QED
          BY <1>7, <1>10, <1>13, <4>1 DEF Streaming
      <3> QED
        BY <1>9, <1>13, <3>1
    <2>3. Reads(gen[q].guard, gen[q].out, s, Len(s))
      BY <1>8, <2>2
    <2>4. \/ gen[q].out \o Finish(gen[q].guard) = Cleaned(s)
          \/ Glued(s) /\ gen[q].out \o Finish(gen[q].guard) = Before(s)
      <3> HIDE DEF s
      <3> QED
        BY <1>7, <2>3, FinishReads
    <2>5. Whole(q)'
      BY <1>1, <2>1, <2>4 DEF Whole
    <2>6. Right(q)'
      BY <2>1, <2>5 DEF Right, Early, Rest
    <2> QED
      BY <1>5, <2>6
  <1>14. CASE item.kind \in {"thinking", "status"}
    <2>1. pc' = pc /\ gen'[q].out = gen[q].out /\ gen'[q].guard = gen[q].guard
      BY <1>2, <1>3, <1>14 DEF Locals
    <2>2. Reads(gen'[q].guard, gen'[q].out, s, y)
      BY <1>8, <1>9, <1>14, <2>1
    <2> QED
      BY <1>5, <1>12, <2>1, <2>2
  <1>15. CASE item.kind = "answer"
    <2>1. pc' = pc /\ gen' = [gen EXCEPT ![q].guard = fed.guard, ![q].out = @ \o fed.out]
      BY <1>2, <1>15
    <2>2. gen'[q].guard = fed.guard /\ gen'[q].out = gen[q].out \o fed.out
      <3> HIDE DEF fed
      <3> QED
        BY <1>3, <2>1 DEF Locals
    <2>3. Reads(fed.guard, gen[q].out \o fed.out, s, y)
      <3>1. fed = Feed(gen[q].guard, SubSeq(s, x + 1, y))
        BY <1>9
      <3> HIDE DEF fed, s
      <3>2. LET f == Feed(gen[q].guard, SubSeq(s, x + 1, y)) IN Reads(f.guard, gen[q].out \o f.out, s, y)
        BY <1>7, <1>8, FeedReads
      <3> QED
        BY <3>1, <3>2
    <2> QED
      BY <1>5, <1>12, <2>1, <2>2, <2>3
  <1> QED
    BY <1>2, <1>13, <1>14, <1>15

(* After the stream.                                                        *)
LEMMA RightAccount == ASSUME AInv, NEW q \in Queries, Account(q) PROVE Right(q)' /\ OnlyThis(q)
  <1>1. UNCHANGED <<gen, queue, said, llm, thread>> /\ pc[q] = "account"
    BY DEF Account, posts, task
  <1>2. \/ Goto(q, "error") /\ gen[q].out = <<>>
        \/ Goto(q, "publish")
    BY DEF Account
  <1>3. /\ pc'[q] = "publish" \/ (pc'[q] = "error" /\ gen[q].out = <<>>)
        /\ \A p \in Queries \ {q} : pc'[p] = pc[p]
    BY <1>2, AInvTyped DEF Goto, Typed
  <1>4. Whole(q)
    BY <1>1 DEF AInv, Right
  <1>5. Right(q)'
    BY <1>1, <1>3, <1>4 DEF Right, Whole, Early, Rest
  <1> QED
    BY <1>1, <1>3, <1>5 DEF OnlyThis, Same, AInv

LEMMA RightOver ==
    ASSUME AInv, NEW q \in Queries, Disconnect(q) \/ Publish(q)
    PROVE  Right(q)' /\ OnlyThis(q)
  <1>1. Drop(q) /\ (Goto(q, "gone") \/ Goto(q, "done"))
    BY DEF Disconnect, Publish
  <1>2. /\ gen' = [gen EXCEPT ![q] = NewGen] /\ queue' = [queue EXCEPT ![q] = <<>>]
        /\ said' = [said EXCEPT ![q] = NewSaid]
    BY <1>1 DEF Drop
  <1>3. PICK G, O : gen \in [Queries -> Locals(G, O)]
    BY AInvTyped DEF Typed
  <1>4. /\ gen'[q].out = <<>> /\ pc'[q] \in Ended
        /\ \A p \in Queries \ {q} : /\ pc'[p] = pc[p] /\ gen'[p] = gen[p]
                                    /\ queue'[p] = queue[p] /\ said'[p] = said[p]
    BY <1>1, <1>2, <1>3, AInvTyped DEF Goto, Typed, NewGen, Ended
  <1>5. said' \in [Queries -> [chunks : Nat, text : Text]]
    <2>1. NewSaid \in [chunks : Nat, text : Text]
      BY DEF NewSaid, Text
    <2> QED
      BY <1>2, <2>1 DEF AInv
  <1>6. UNCHANGED task \/ Cancel(q)
    BY DEF Disconnect, Publish
  <1>7. \A p \in Queries \ {q} : llm'[p] = llm[p] /\ thread'[p] = thread[p]
    BY <1>6, AInvTyped DEF Cancel, task, Typed
  <1>8. Right(q)'
    BY <1>4 DEF Right, Early, Ended
  <1> QED
    BY <1>4, <1>5, <1>7, <1>8 DEF OnlyThis, Same

LEMMA AInvStep == ASSUME AInv, [Next]_vars PROVE AInv'
  <1>1. TInv'
    BY TInvStep DEF AInv
  <1>2. ASSUME NEW q \in Queries, Right(q)', OnlyThis(q) PROVE AInv'
    BY <1>1, <1>2, SameRight DEF AInv, OnlyThis
  <1>3. ASSUME UNCHANGED <<pc, gen, queue, said, llm, thread>> PROVE AInv'
    <2>1. \A p \in Queries : Same(p)
      BY <1>3 DEF Same
    <2> QED
      BY <1>1, <1>3, <2>1, SameRight DEF AInv
  <1>4. ASSUME NEW q \in Queries, Step(q) \/ Begin(q) PROVE AInv'
    <2>1. Right(q)' /\ OnlyThis(q)
      BY <1>4, RightEarly, RightGenerate, RightConsume, RightAccount, RightOver DEF Step
    <2> QED
      BY <1>2, <2>1
  <1>5. ASSUME NEW q \in Queries, Disconnect(q) \/ Acquire(q) \/ Emit(q) \/ ThreadEnds(q) PROVE AInv'
    <2>1. Right(q)' /\ OnlyThis(q)
      BY <1>5, RightOver, RightAcquire, RightEmit, RightEnds
    <2> QED
      BY <1>2, <2>1
  <1>6. ASSUME NEW q \in Queries, Resume(q) PROVE AInv'
    BY <1>3, <1>6 DEF Resume, task, posts
  <1>7. ASSUME \/ \E answer \in writing : WriteCache(answer)
               \/ \E d \in Deletable : DeleteVectors(d)
               \/ DeleteTenant
               \/ \E call \in dirty : Invalidate(call)
        PROVE  AInv'
    BY <1>3, <1>7 DEF WriteCache, DeleteVectors, DeleteTenant, Removed, Invalidate, task, posts
  <1>8. ASSUME UNCHANGED vars PROVE AInv'
    BY <1>3, <1>8 DEF vars, task, posts
  <1> QED
    BY <1>4, <1>5, <1>6, <1>7, <1>8 DEF Next

(* The client gets the text the LLM produced, in order and complete, however *)
(* the engine cuts it into chunks, whatever thinking and status items come   *)
(* between them and whenever the loop, the thread, other requests and the    *)
(* clients move; only a refusal that follows an answer is missing.           *)
THEOREM AnswersArriveIntact == Spec => []AnswerIntact
  BY AInvInit, AInvStep, AInvIntact, PTL DEF Spec

=============================================================================
