------------------------------ MODULE RagQuery ------------------------------
(***************************************************************************)
(* rag-service's question answering: RAGService.stream() behind /query and  *)
(* /query/stream, the semantic cache it reads and fills, the semaphore that *)
(* gates the LLM, the executor thread the LLM runs in, and the heartbeat    *)
(* wrapper that prefetches the next event and ends a stream its client has  *)
(* left.  Every await of the generator separates two actions, so the steps  *)
(* of concurrent requests interleave as they do on the event loop.  One     *)
(* tenant, one question: the answers of all requests share one cache slot.  *)
(***************************************************************************)
EXTENDS Naturals, FiniteSets, FiniteSetsExt, AnswerGuard

CONSTANTS
    Queries,        \* requests; each arrives once
    Docs,           \* documents of the tenant (a document stands for its chunks)
    Permitted,      \* per request, the documents the chunk policy allows
    Clearance,      \* per request, the level of its user's clearance
    UserRoles,      \* per request, its user's roles
    Relevant,       \* documents whose reranker probability is at least tau
    Context,        \* documents at or above rag_min_context_score
    Confident,      \* documents whose fused score clears rag_rerank_skip_min_score
    Requests,       \* [sse, useCache, useReranking, retrieveOnly] that may arrive
    RerankTopK, TopK, FallbackTopK,
    SkipEnabled, ExpansionEnabled,
    Limit,          \* llm_concurrency_limit
    Chunks,         \* raw LLM chunks: [reasoning : BOOLEAN, status : BOOLEAN, content]
    MaxChunks,      \* bound: chunks an LLM call emits
    Thinking,       \* effective_thinking
    TracerEnabled,
    Deletable,      \* bound: documents that may be deleted
    None

\* What the adapter's accessors read off a chunk: whether it carries reasoning or
\* a lifecycle status, and its content.
RawChunk == [reasoning : BOOLEAN, status : BOOLEAN, content : Seq(STRING)]

\* CLASSIFICATION_ORDER: public, internal, confidential and restricted.
Levels == 0 .. 3
Internal == 1

ASSUME DocsAssumption ==
    /\ IsFiniteSet(Docs)
    /\ Permitted \in [Queries -> SUBSET Docs]
    /\ Relevant \subseteq Context /\ Context \subseteq Docs
    /\ Deletable \subseteq Docs
ASSUME UsersAssumption ==
    Clearance \in [Queries -> Levels] /\ UserRoles \in [Queries -> SUBSET STRING]
ASSUME ChunksAssumption == Chunks \subseteq RawChunk
ASSUME LimitAssumption == Limit \in Nat \ {0} /\ IsFiniteSet(Queries)
ASSUME NoneAssumption == None \notin Queries

VARIABLES
    pc,         \* where each request is
    req,        \* what it asked for
    gen,        \* the locals of its generator, dropped when the generator is closed
                \* (and reset here once they are not read again):
                \*   sparse: it has a sparse embedding; widened: an expanded query;
                \*   docs: candidate documents; verdict: what the rerank step did;
                \*   replayed: the documents of the cached answer it replays;
                \*   guard, out: the refusal guard and the answer text sent;
                \*   thought: thinking tokens were sent
    parked,     \* the generator is suspended at a yield
    lastMode,   \* RAGService._last_retrieval_mode, shared by all requests
    lastTrace,  \* _last_trace_id; the other _last_* fields are shared the same way
    llm,        \* the LLM task
    waiters,    \* requests waiting for the semaphore, first come first served
    thread,     \* the executor thread of the LLM call
    queue,      \* items the thread posted, and the final sentinel
    said,       \* history: how many chunks the LLM produced, and the answer text in them
    failed,     \* the LLM call raised
    corpus,     \* documents whose vectors are in the tenant's collection
    dirty,      \* delete calls that have not invalidated the cache yet, each the
                \* set of documents it removed
    cache,      \* cached answers: who wrote them, from which documents, and whom
                \* they are for
    writing,    \* answers whose cache write has not run yet
    events,     \* telemetry published per request
    overlap     \* history: per deleted document, the requests that held it then

shared  == <<lastMode, lastTrace>>
task    == <<llm, waiters, thread>>
posts   == <<queue, said, failed>>
store   == <<corpus, dirty, cache, overlap>>
vars    == <<pc, req, gen, parked, shared, task, posts, store, writing, events>>

Ended == {"done", "gone"}
Stages == {"idle", "embed", "lookup", "expand", "retrieve", "widen", "validate", "rerank",
           "gate", "generate", "stream", "account", "publish", "error"} \cup Ended

Ask == [sse : BOOLEAN, useCache : BOOLEAN, useReranking : BOOLEAN, retrieveOnly : BOOLEAN]
ASSUME RequestsAssumption == Requests \subseteq Ask

Answer == [by : Queries, from : SUBSET Docs, level : Levels, roles : SUBSET STRING]

\* The LLM tasks that hold a permit.
Running == {q \in Queries : llm[q] = "running"}

Item(k, t) == [kind |-> k, text |-> t]
End == Item("end", <<>>)

\* The variables have their types; the semaphore's line is exactly the LLM tasks
\* that wait, a permit is held by a call whose thread is at work, and no more
\* than Limit are out.
TypeOK ==
    /\ pc \in [Queries -> Stages]
    /\ req \in [Queries -> Ask]
    /\ \A q \in Queries :
         /\ gen[q].docs \subseteq Docs /\ gen[q].replayed \subseteq Docs
         /\ gen[q].verdict \in {"none", "skipped", "probability", "degraded"}
    /\ llm \in [Queries -> {"none", "waiting", "running", "done"}]
    /\ thread \in [Queries -> {"none", "busy", "finished"}]
    /\ IsInjective(waiters) /\ ToSet(waiters) = {q \in Queries : llm[q] = "waiting"}
    /\ \A q \in Running : thread[q] = "busy"
    /\ Cardinality(Running) <= Limit
    /\ lastMode \in {"", "hybrid", "dense"}
    /\ lastTrace \in Queries \cup {None}
    /\ corpus \subseteq Docs /\ dirty \subseteq SUBSET Docs
    /\ cache \subseteq Answer /\ writing \subseteq Answer

NewGen == [sparse |-> FALSE, widened |-> FALSE, docs |-> {}, replayed |-> {},
           verdict |-> "none", guard |-> NewGuard, out |-> <<>>, thought |-> FALSE]

NewSaid == [chunks |-> 0, text |-> <<>>]

Init ==
    /\ pc = [q \in Queries |-> "idle"]
    /\ req \in [Queries -> Requests]
    /\ gen = [q \in Queries |-> NewGen]
    /\ parked = [q \in Queries |-> FALSE]
    /\ lastMode = "" /\ lastTrace = None
    /\ llm = [q \in Queries |-> "none"]
    /\ waiters = <<>>
    /\ thread = [q \in Queries |-> "none"]
    /\ queue = [q \in Queries |-> <<>>]
    /\ said = [q \in Queries |-> NewSaid]
    /\ failed = [q \in Queries |-> FALSE]
    /\ corpus = Docs /\ dirty = {}
    /\ cache = {} /\ writing = {}
    /\ events = [q \in Queries |-> None]
    /\ overlap = [d \in Docs |-> {}]

-----------------------------------------------------------------------------
Goto(q, stage) == pc' = [pc EXCEPT ![q] = stage]

\* The generator and everything only it can reach are gone.
Drop(q) ==
    /\ gen' = [gen EXCEPT ![q] = NewGen]
    /\ queue' = [queue EXCEPT ![q] = <<>>]
    /\ said' = [said EXCEPT ![q] = NewSaid]
    /\ failed' = [failed EXCEPT ![q] = FALSE]

\* start_trace: without a client there is no trace to name.
TraceOf(q) == IF TracerEnabled THEN q ELSE None

\* stream() starts: the fields shared through the singleton are reset.
Begin(q) ==
    /\ pc[q] = "idle"
    /\ Goto(q, "embed")
    /\ lastMode' = ""
    /\ lastTrace' = TraceOf(q)
    /\ UNCHANGED <<req, gen, parked, task, posts, store, writing, events>>

\* The sparse embedder catches its failures and answers None.
HasSparse == BOOLEAN

\* Step 2: the dense embedding may fail; without a sparse one retrieval is dense.
Embed(q) ==
    /\ pc[q] = "embed"
    /\ \/ /\ \E s \in HasSparse : gen' = [gen EXCEPT ![q].sparse = s]
          /\ Goto(q, IF req[q].useCache THEN "lookup" ELSE "expand")
       \/ Goto(q, "error") /\ UNCHANGED gen
    /\ UNCHANGED <<req, parked, shared, task, posts, store, writing, events>>

\* SemanticCacheChecker: the user's clearance covers the entry's level, and the
\* entry names no roles or one of the user's.
CanHit(q, e) ==
    /\ e.level <= Clearance[q]
    /\ e.roles = {} \/ e.roles \cap UserRoles[q] # {}

\* Step 3: a hit replays a cached answer and its sources; a miss and a failed
\* lookup go on without the cache.
Lookup(q) ==
    /\ pc[q] = "lookup"
    /\ \/ \E e \in cache : CanHit(q, e) /\ gen' = [gen EXCEPT ![q].replayed = e.from]
          /\ Goto(q, "publish")
       \/ Goto(q, "expand") /\ UNCHANGED gen
    /\ UNCHANGED <<req, parked, shared, task, posts, store, writing, events>>

\* The query expander: switched off, failing or without a term to add, it hands
\* the query back.
Widens == IF ExpansionEnabled THEN BOOLEAN ELSE {FALSE}

\* Steps 3b and 4: a rewrite that times out or changes nothing is not used; nor is
\* a domain that cannot be told.
Expand(q) ==
    /\ pc[q] = "expand"
    /\ \E widened \in Widens : gen' = [gen EXCEPT ![q].widened = widened]
    /\ Goto(q, "retrieve")
    /\ UNCHANGED <<req, parked, shared, task, posts, store, writing, events>>

\* Where candidates go next: OPA is not asked about an empty list.
Candidates(q, found) == Goto(q, IF found = {} THEN "gate" ELSE "validate")

\* What a search may return: the domain and role filters and the similarity leave
\* any part of what the collection holds now.
Search == SUBSET corpus

\* Step 5: a failed search ends the query.
Retrieve(q) ==
    /\ pc[q] = "retrieve"
    /\ \/ \E found \in Search :
            /\ gen' = [gen EXCEPT ![q].docs = found, ![q].sparse = FALSE]
            /\ lastMode' = IF gen[q].sparse THEN "hybrid" ELSE "dense"
            /\ IF gen[q].widened THEN Goto(q, "widen") ELSE Candidates(q, found)
       \/ Goto(q, "error") /\ UNCHANGED <<gen, lastMode>>
    /\ UNCHANGED <<req, parked, lastTrace, task, posts, store, writing, events>>

\* The candidates of the expanded query are united in; a failure is not fatal.
RetrieveExpanded(q) ==
    /\ pc[q] = "widen"
    /\ \E more \in Search :
         /\ gen' = [gen EXCEPT ![q].docs = @ \cup more, ![q].widened = FALSE]
         /\ Candidates(q, gen[q].docs \cup more)
    /\ UNCHANGED <<req, parked, shared, task, posts, store, writing, events>>

\* Mutant of Allowed: a chunk OPA could not be asked about is kept.
AllowedOpen(q, checked) == gen[q].docs \cap (Permitted[q] \cup (Docs \ checked))

\* The chunks OPA allows: one it cannot be asked about is denied.
Allowed(q, checked) == gen[q].docs \cap Permitted[q] \cap checked

\* Step 6: OPA is asked for every candidate; an error of the step ends the query.
Validate(q) ==
    /\ pc[q] = "validate"
    /\ \/ \E checked \in SUBSET gen[q].docs :
            LET kept == Allowed(q, checked)
            IN  /\ gen' = [gen EXCEPT ![q].docs = kept]
                /\ Goto(q, IF req[q].useReranking /\ kept # {} THEN "rerank" ELSE "gate")
       \/ Goto(q, "error") /\ UNCHANGED gen
    /\ UNCHANGED <<req, parked, shared, task, posts, store, writing, events>>

\* The first k of a list in some order, and of a list sorted by probability.
Cut(S, k) == {T \in SUBSET S : Cardinality(T) = IF Cardinality(S) < k THEN Cardinality(S) ELSE k}
CutBest(S, k) == {T \in Cut(S, k) : /\ S \cap Relevant \subseteq T \/ T \subseteq Relevant
                                    /\ S \cap Context \subseteq T \/ T \subseteq Context}

\* Mutant of Scores: a degraded reranker counts as having scored.
ScoresUnlessSkipped(answer) == answer \in {"probability", "degraded"}

\* Only an answer with probability scores puts documents on tau's scale.
Scores(answer) == answer = "probability"

\* Step 7.  The reranker is skipped on the mode that is in the shared field and
\* the top fused score; an unreachable reranker, an error status or an unknown
\* score scale leave the retrieval order.
Rerank(q) ==
    /\ pc[q] = "rerank"
    /\ \E top \in gen[q].docs :
         LET skip == SkipEnabled /\ lastMode = "hybrid" /\ top \in Confident
         IN  \E verdict \in IF skip THEN {"skipped"} ELSE {"probability", "degraded"} :
             \E kept \in IF Scores(verdict) THEN CutBest(gen[q].docs, RerankTopK)
                         ELSE Cut(gen[q].docs, RerankTopK) :
               gen' = [gen EXCEPT ![q].docs = kept, ![q].verdict = verdict]
    /\ Goto(q, "gate")
    /\ UNCHANGED <<req, parked, shared, task, posts, store, writing, events>>

\* Step 8: tau on the best probability, then the context floor; the fallback
\* keeps some documents when nothing clears tau.
Above(q) ==
    IF ~Scores(gen[q].verdict) THEN {gen[q].docs}
    ELSE IF gen[q].docs \cap Relevant # {} THEN {gen[q].docs \cap Context}
    ELSE Cut(gen[q].docs, FallbackTopK)

\* Steps 8 to 10: the top_k cut, then the short ends (retrieve_only, and no
\* documents, answered with a fixed text) or the prompt, which may fail to build.
Gate(q) ==
    /\ pc[q] = "gate"
    /\ \E above \in Above(q) :
       \E kept \in IF Scores(gen[q].verdict) THEN CutBest(above, TopK) ELSE Cut(above, TopK) :
         /\ gen' = [gen EXCEPT ![q].docs = kept, ![q].verdict = "none"]
         /\ \/ (req[q].retrieveOnly \/ kept = {}) /\ Goto(q, "publish")
            \/ ~req[q].retrieveOnly /\ kept # {} /\ (Goto(q, "generate") \/ Goto(q, "error"))
    /\ UNCHANGED <<req, parked, shared, task, posts, store, writing, events>>

\* Steps 11 and 12: the LLM task is created and asks for a permit.
Generate(q) ==
    /\ pc[q] = "generate"
    /\ Goto(q, "stream")
    /\ llm' = [llm EXCEPT ![q] = "waiting"]
    /\ waiters' = Append(waiters, q)
    /\ UNCHANGED <<req, gen, parked, shared, thread, posts, store, writing, events>>

-----------------------------------------------------------------------------
\* The LLM task and its thread.
Acquire(q) ==
    /\ waiters # <<>> /\ Head(waiters) = q
    /\ Cardinality(Running) < Limit
    /\ waiters' = Tail(waiters)
    /\ llm' = [llm EXCEPT ![q] = "running"]
    /\ thread' = [thread EXCEPT ![q] = "busy"]
    /\ UNCHANGED <<pc, req, gen, parked, shared, posts, store, writing, events>>

\* streaming_callback: what a raw chunk puts on the queue.  A pure status chunk
\* is a status item; reasoning goes first when thinking is on and is dropped
\* when it is off.
Posted(chunk) ==
    LET reasons == Thinking /\ chunk.reasoning
    IN  IF chunk.status /\ ~reasons /\ chunk.content = <<>> THEN <<Item("status", <<>>)>>
        ELSE IF reasons THEN <<Item("thinking", <<>>)>>
        ELSE IF chunk.content # <<>> THEN <<Item("answer", chunk.content)>>
        ELSE <<>>

\* The answer text of a chunk: its content, unless it is taken for reasoning.
Answered(chunk) == IF Thinking /\ chunk.reasoning THEN <<>> ELSE chunk.content

\* call_soon_threadsafe keeps the order in which the thread posted.  What a
\* thread posts for a generator that is gone reaches nobody.
Emit(q) ==
    /\ thread[q] = "busy" /\ pc[q] = "stream"
    /\ said[q].chunks < MaxChunks
    /\ \E chunk \in Chunks :
         /\ queue' = [queue EXCEPT ![q] = @ \o Posted(chunk)]
         /\ said' = [said EXCEPT ![q] = [chunks |-> @.chunks + 1, text |-> @.text \o Answered(chunk)]]
    /\ UNCHANGED <<pc, req, gen, parked, shared, task, failed, store, writing, events>>

\* Mutant of Finished: the error path does not leave the semaphore block.
FinishedOnlyIfOk(q, ok) == IF ok THEN "done" ELSE llm[q]

Finished(q, ok) == "done"

\* Mutant of Sentinel: only a call that succeeds ends the queue.
SentinelIfOk(ok) == IF ok THEN <<End>> ELSE <<>>

Sentinel(ok) == <<End>>

\* The call returns or raises: a task that still waits for it frees its permit
\* and puts the sentinel behind every item; a cancelled task is long gone.
ThreadEnds(q) ==
    /\ thread[q] = "busy"
    /\ thread' = [thread EXCEPT ![q] = "finished"]
    /\ \E ok \in BOOLEAN :
         /\ llm' = [llm EXCEPT ![q] = IF @ = "running" THEN Finished(q, ok) ELSE @]
         /\ IF llm[q] = "running" /\ pc[q] = "stream"
            THEN /\ failed' = [failed EXCEPT ![q] = ~ok]
                 /\ queue' = [queue EXCEPT ![q] = @ \o Sentinel(ok)]
            ELSE UNCHANGED <<failed, queue>>
    /\ UNCHANGED <<pc, req, gen, parked, shared, waiters, said, store, writing, events>>

-----------------------------------------------------------------------------
\* The consuming loop of stream().
Park(q, yes) == parked' = [parked EXCEPT ![q] = yes]

\* One item of the queue; the sentinel flushes the guard and ends the loop.
Consume(q) ==
    /\ pc[q] = "stream" /\ ~parked[q] /\ queue[q] # <<>>
    /\ LET item == Head(queue[q])
           fed  == Feed(gen[q].guard, item.text)
       IN  \/ /\ item.kind = "end"
              /\ gen' = [gen EXCEPT ![q].out = @ \o Finish(gen[q].guard)]
              /\ Goto(q, "account")
              /\ UNCHANGED parked
           \/ /\ item.kind \in {"thinking", "status"}
              /\ gen' = [gen EXCEPT ![q].thought = @ \/ item.kind = "thinking"]
              /\ Park(q, req[q].sse)
              /\ UNCHANGED pc
           \/ /\ item.kind = "answer"
              /\ gen' = [gen EXCEPT ![q].guard = fed.guard, ![q].out = @ \o fed.out]
              /\ Park(q, req[q].sse /\ fed.out # <<>>)
              /\ UNCHANGED pc
    /\ queue' = [queue EXCEPT ![q] = Tail(@)]
    /\ UNCHANGED <<req, shared, task, said, failed, store, writing, events>>

\* The heartbeat wrapper hands the item over and asks for the next one.
Resume(q) ==
    /\ parked[q]
    /\ Park(q, FALSE)
    /\ UNCHANGED <<pc, req, gen, shared, task, posts, store, writing, events>>

\* What goes into the cache: the answer with one source per document.  stream()
\* names neither max_classification nor required_roles, whatever the documents
\* say: the entry is internal and for every role.
Entry(q) == [by |-> q, from |-> gen[q].docs, level |-> Internal, roles |-> {}]

\* After the loop: an error with nothing produced is reported; otherwise an
\* answer is scheduled for the cache, with what the closure captured.
Account(q) ==
    /\ pc[q] = "account"
    /\ IF failed[q] /\ gen[q].out = <<>> /\ ~gen[q].thought
       THEN Goto(q, "error") /\ UNCHANGED writing
       ELSE /\ Goto(q, "publish")
            /\ writing' = IF req[q].useCache /\ Strip(gen[q].out) # <<>>
                          THEN writing \cup {Entry(q)} ELSE writing
    /\ UNCHANGED <<req, gen, parked, shared, task, posts, store, events>>

\* task.cancel(): a running task frees its permit while its thread goes on.
Cancel(q) == llm' = [llm EXCEPT ![q] = "done"] /\ UNCHANGED <<waiters, thread>>

\* An SSE client goes away.  Suspended at a yield, the generator is closed and
\* cancels the LLM task; inside queue.get() it is itself cancelled, which the
\* GeneratorExit handler does not see, and the task runs on.
Disconnect(q) ==
    /\ req[q].sse
    /\ pc[q] \notin {"idle"} \cup Ended
    /\ Goto(q, "gone")
    /\ Drop(q)
    /\ Park(q, FALSE)
    /\ IF pc[q] = "stream" /\ parked[q] THEN Cancel(q) ELSE UNCHANGED task
    /\ UNCHANGED <<req, shared, store, writing, events>>

\* /query: an ErrorEvent has become an exception, and nothing is reported.
AnswerReported(q) == ~req[q].sse /\ pc[q] = "publish"

\* /query/stream: after its loop, whatever ended it, the handler reports.
StreamReported(q) == req[q].sse

\* The handler publishes one analytics.query event, with what the shared fields
\* hold by now; a publication that fails is only logged.
Publish(q) ==
    /\ pc[q] \in {"publish", "error"}
    /\ Goto(q, "done")
    /\ Drop(q)
    /\ \/ (AnswerReported(q) \/ StreamReported(q)) /\ events' = [events EXCEPT ![q] = lastTrace]
       \/ UNCHANGED events
    /\ UNCHANGED <<req, parked, shared, task, store, writing>>

-----------------------------------------------------------------------------
\* The semantic cache and ingestion-service's delete endpoint.
WriteCache(answer) ==
    /\ writing' = writing \ {answer}
    /\ cache' = cache \cup {answer} \/ cache' = cache
    /\ UNCHANGED <<pc, req, gen, parked, shared, task, posts, corpus, dirty, overlap, events>>

Holding(d) == {q \in Queries : d \in gen[q].docs} \cup {w.by : w \in {a \in writing : d \in a.from}}

\* The vectors of some documents go; the call has yet to invalidate the cache.
Removed(gone, calls) ==
    /\ corpus' = corpus \ gone
    /\ dirty' = calls
    /\ overlap' = [d \in Docs |-> IF d \in gone THEN Holding(d) ELSE overlap[d]]
    /\ UNCHANGED <<pc, req, gen, parked, shared, task, posts, cache, writing, events>>

\* Mutant of DeleteVectors: the cache is invalidated before the vectors go.
DeleteAfterInvalidating(d) == d \in corpus /\ Removed({d}, dirty)

\* DELETE of one document's vectors.
DeleteVectors(d) == d \in corpus /\ Removed({d}, dirty \cup {{d}})

\* delete_tenant_from_store swallows a failure to drop the collection.
Dropped == {corpus, {}}

\* DELETE of all the tenant's vectors.
DeleteTenant == \E gone \in Dropped : Removed(gone, dirty \cup {gone})

Invalidate(call) ==
    /\ call \in dirty
    /\ dirty' = dirty \ {call}
    /\ cache' = {}
    /\ UNCHANGED <<pc, req, gen, parked, shared, task, posts, corpus, overlap, writing, events>>

-----------------------------------------------------------------------------
Step(q) ==
    \/ Embed(q) \/ Lookup(q) \/ Expand(q) \/ Retrieve(q) \/ RetrieveExpanded(q)
    \/ Validate(q) \/ Rerank(q) \/ Gate(q) \/ Generate(q) \/ Consume(q) \/ Account(q) \/ Publish(q)

Next ==
    \/ \E q \in Queries : \/ Begin(q) \/ Step(q) \/ Resume(q) \/ Disconnect(q)
                          \/ Acquire(q) \/ Emit(q) \/ ThreadEnds(q)
    \/ \E answer \in writing : WriteCache(answer)
    \/ \E d \in Deletable : DeleteVectors(d)
    \/ corpus # {} /\ corpus \subseteq Deletable /\ DeleteTenant
    \/ \E call \in dirty : Invalidate(call)

Spec == Init /\ [][Next]_vars

\* The event loop runs what is ready, the LLM call ends (it has a timeout), and a
\* connected client reads; one condition per request is enough.
Run(q) == Step(q) \/ Acquire(q) \/ ThreadEnds(q) \/ Resume(q)

Fairness == \A q \in Queries : WF_vars(Run(q))

FairSpec == Spec /\ Fairness

-----------------------------------------------------------------------------
\* The client gets the text the LLM produced, in order and complete, however it
\* was cut into chunks and whatever the loop and the thread did meanwhile; only a
\* refusal that follows an answer is missing (streaming_callback, the sentinel of
\* run_llm, TrailingRefusalGuard) - where no space parts the two, it may be missing
\* or not.
AnswerIntact ==
    \A q \in Queries :
        LET text == said[q].text
        IN  IF pc[q] \in {"account", "publish"}
            THEN gen[q].out = Cleaned(text) \/ (Glued(text) /\ gen[q].out = Before(text))
            ELSE IsPrefix(gen[q].out, Cleaned(text))

\* Whatever branch a query takes after the policy check (expanded candidates, a
\* skipped or degraded reranker, the fallback), no document it was denied is in
\* its prompt, its sources or the answer it caches.  Of an answer replayed from the
\* cache less is true: its documents were allowed to the request that wrote it, and
\* whoever gets it is cleared for internal documents, if not for these.
Replays(q) ==
    /\ req[q].useCache /\ Clearance[q] >= Internal
    /\ \E w \in Queries : gen[q].replayed \subseteq Permitted[w]
PolicyHolds ==
    /\ \A q \in Queries :
         /\ pc[q] \in {"rerank", "gate", "generate", "stream", "account"} => gen[q].docs \subseteq Permitted[q]
         /\ gen[q].replayed # {} => Replays(q)
    /\ \A e \in cache \cup writing : e.from \subseteq Permitted[e.by]

\* A cached answer citing a document whose deletion is complete was written by a
\* request that already held the document when it was deleted: invalidation
\* leaves no other stale entry behind.
StaleOnlyByOverlap ==
    \A e \in cache : \A d \in e.from : d \notin corpus \cup UNION dirty => e.by \in overlap[d]

\* Answering "no relevant documents" although candidates passed the policy takes
\* a probability below tau: an outage of the reranker, or a skipped one, never
\* empties the candidates (the scale guard of steps 7 and 8).
OutageNeverAbstains ==
    [][\A q \in Queries :
         pc[q] = "gate" /\ pc'[q] = "publish" /\ gen[q].docs # {} /\ gen'[q].docs = {}
            => gen[q].verdict = "probability" /\ gen[q].docs \cap Relevant = {}]_vars

\* A call that asks for a permit of the LLM semaphore gets one and gives it back,
\* though calls fail and clients leave.
PermitsCirculate == \A q \in Queries : llm[q] = "waiting" ~> llm[q] = "done"

\* Every request ends: with an answer, an error or a client that has gone.
AnswersEnd == \A q \in Queries : pc[q] # "idle" ~> pc[q] \in Ended

\* "a single id that both identifies the query and deep-links to its trace": the
\* event of a query carries the trace of that query.
TelemetryIsOwn == \A q \in Queries : events[q] # None => events[q] = q
=============================================================================
