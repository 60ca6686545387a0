---------------------------- MODULE Conversation ----------------------------
(***************************************************************************)
(* A conversation of rag-service: what a turn reads before it is answered   *)
(* (the rolling summary and the last messages), what it stores afterwards   *)
(* in background tasks, and the compression that moves older messages into  *)
(* the summary.  Every call of db.py is one transaction and one action; the *)
(* calls run in executor threads, so those of several turns interleave, and *)
(* the summarizer's LLM call separates the read of a compression from its   *)
(* writes.  A message is the turn it belongs to and its role.               *)
(***************************************************************************)
EXTENDS Naturals, Sequences, SequencesExt

CONSTANTS
    Turns,          \* requests that carry the conversation's id
    Threshold,      \* conversation_summary_threshold
    Verbatim        \* conversation_verbatim_recent

ASSUME WindowAssumption == Threshold \in Nat /\ Verbatim \in Nat /\ Verbatim <= Threshold

VARIABLES
    exists,     \* the conversation row is there
    title,      \* "none" before the conversation is created, "new", "auto" or "user"
    messages,   \* user and assistant messages by created_at
    summary,    \* the messages whose content session_summary was built from
    upto,       \* summary_upto_count
    notes,      \* context_summary messages: the upto each one announces
    pc,         \* per turn
    prompt,     \* per turn, the history sent to the LLM: [summary, upto, recent]
    job         \* per turn, the locals of _maybe_compress_history

vars == <<exists, title, messages, summary, upto, notes, pc, prompt, job>>

Message == [turn : Turns, role : {"user", "assistant"}]
NoHistory == [summary |-> <<>>, upto |-> 0, recent |-> <<>>]
NoJob == [summary |-> <<>>, upto |-> 0, span |-> <<>>]

\* The variables have their types, no message is stored twice, and a deleted
\* conversation has no messages.
TypeOK ==
    /\ exists \in BOOLEAN /\ title \in {"none", "new", "auto", "user"}
    /\ messages \in Seq(Message) /\ summary \in Seq(Message)
    /\ IsInjective(messages)
    /\ upto \in Nat /\ notes \in Seq(Nat)
    /\ pc \in [Turns -> {"idle", "state", "answer", "question", "reply", "check",
                         "compress", "update", "note", "done"}]
    /\ ~exists => messages = <<>> /\ notes = <<>>

Init ==
    /\ exists = FALSE /\ title = "none"
    /\ messages = <<>> /\ summary = <<>> /\ upto = 0 /\ notes = <<>>
    /\ pc = [t \in Turns |-> "idle"]
    /\ prompt = [t \in Turns |-> NoHistory]
    /\ job = [t \in Turns |-> NoJob]

-----------------------------------------------------------------------------
Goto(t, stage) == pc' = [pc EXCEPT ![t] = stage]

conversation == <<exists, title, messages, summary, upto, notes>>

\* get_recent_messages: the last n, oldest first.
LastOf(s, n) == SubSeq(s, IF Len(s) > n THEN Len(s) - n + 1 ELSE 1, Len(s))

\* _load_conversation_history, first transaction: the summary and its count.
LoadState(t) ==
    /\ pc[t] = "idle"
    /\ prompt' = [prompt EXCEPT ![t].summary = summary, ![t].upto = upto]
    /\ Goto(t, "state")
    /\ UNCHANGED <<conversation, job>>

\* Mutant of LoadRecent: one message more than the window.
LoadRecentWide(t) ==
    /\ pc[t] = "state"
    /\ prompt' = [prompt EXCEPT ![t].recent = LastOf(messages, Verbatim + 1)]
    /\ Goto(t, "answer")
    /\ UNCHANGED <<conversation, job>>

\* Second transaction: the messages to send verbatim.
LoadRecent(t) ==
    /\ pc[t] = "state"
    /\ prompt' = [prompt EXCEPT ![t].recent = LastOf(messages, Verbatim)]
    /\ Goto(t, "answer")
    /\ UNCHANGED <<conversation, job>>

\* get_messages_slice: a stretch of the messages by position.
Slice(offset, limit) == SubSeq(messages, offset + 1, offset + limit)

\* The answer: a generated one and one without documents are stored afterwards; a
\* cached one and an error are not.
Answer(t) ==
    /\ pc[t] = "answer"
    /\ prompt' = [prompt EXCEPT ![t] = NoHistory]
    /\ Goto(t, "question") \/ Goto(t, "done")
    /\ UNCHANGED <<conversation, job>>

\* add_message of the question; without a conversation the foreign key refuses it
\* and the background task gives up.
StoreQuestion(t) ==
    /\ pc[t] = "question"
    /\ IF exists
       THEN /\ messages' = Append(messages, [turn |-> t, role |-> "user"])
            /\ title' = IF title = "new" THEN "auto" ELSE title
            /\ Goto(t, "reply")
       ELSE Goto(t, "done") /\ UNCHANGED <<messages, title>>
    /\ UNCHANGED <<exists, summary, upto, notes, prompt, job>>

\* A reply without documents is not followed by a compression.
StoreReply(t) ==
    /\ pc[t] = "reply"
    /\ IF exists
       THEN /\ messages' = Append(messages, [turn |-> t, role |-> "assistant"])
            /\ Goto(t, "check") \/ Goto(t, "done")
       ELSE Goto(t, "done") /\ UNCHANGED messages
    /\ UNCHANGED <<exists, title, summary, upto, notes, prompt, job>>

\* Mutant of Evictable: the last messages are not kept.
EvictableAll(total) == total

Evictable(total) == total - Verbatim

\* _maybe_compress_history up to the await: nothing to do, or a span to absorb.
\* Two new messages at least are worth a call.
Check(t) ==
    /\ pc[t] = "check"
    /\ IF exists /\ Len(messages) > Threshold /\ Evictable(Len(messages)) >= upto + 2
       THEN /\ Goto(t, "compress")
            /\ job' = [job EXCEPT ![t] = [summary |-> summary, upto |-> upto,
                                          span |-> Slice(upto, Evictable(Len(messages)) - upto)]]
       ELSE Goto(t, "done") /\ UNCHANGED job
    /\ UNCHANGED <<conversation, prompt>>

\* The summarizer extends the summary it was given, or fails.
Compress(t) ==
    /\ pc[t] = "compress"
    /\ \/ job' = [job EXCEPT ![t].summary = @ \o job[t].span] /\ Goto(t, "update")
       \/ job' = [job EXCEPT ![t] = NoJob] /\ Goto(t, "done")
    /\ UNCHANGED <<conversation, prompt>>

\* Mutant of NewCount: the count is advanced from what the row holds now.
NewCountFromRow(t) == upto + Len(job[t].span)

NewCount(t) == job[t].upto + Len(job[t].span)

\* update_conversation_summary, then the context_summary message.
Update(t) ==
    /\ pc[t] = "update"
    /\ IF exists THEN summary' = job[t].summary /\ upto' = NewCount(t) ELSE UNCHANGED <<summary, upto>>
    /\ Goto(t, "note")
    /\ UNCHANGED <<exists, title, messages, notes, prompt, job>>

Note(t) ==
    /\ pc[t] = "note"
    /\ notes' = IF exists THEN Append(notes, NewCount(t)) ELSE notes
    /\ job' = [job EXCEPT ![t] = NoJob]
    /\ Goto(t, "done")
    /\ UNCHANGED <<exists, title, messages, summary, upto, prompt>>

-----------------------------------------------------------------------------
\* The web UI creates the conversation, with the title that a first question
\* replaces; a request may carry its id before it exists or after it is gone.
Create ==
    /\ title = "none"
    /\ exists' = TRUE /\ title' = "new"
    /\ UNCHANGED <<messages, summary, upto, notes, pc, prompt, job>>

Rename ==
    /\ exists
    /\ title' = "user"
    /\ UNCHANGED <<exists, messages, summary, upto, notes, pc, prompt, job>>

\* Mutant of Erased: the messages do not cascade.
RowErased == exists' = FALSE /\ UNCHANGED <<messages, notes, summary, upto>>

\* The row goes; its messages cascade.
Erased ==
    /\ exists' = FALSE
    /\ messages' = <<>> /\ notes' = <<>> /\ summary' = <<>> /\ upto' = 0

Delete ==
    /\ exists /\ Erased
    /\ UNCHANGED <<title, pc, prompt, job>>

\* admin-service deletes a tenant: all its conversations in one statement.
DeleteTenant ==
    /\ Erased
    /\ UNCHANGED <<title, pc, prompt, job>>

\* rag-service restarts: requests and background tasks are gone.
Restart ==
    /\ \E t \in Turns : pc[t] \notin {"idle", "done"}
    /\ pc' = [t \in Turns |-> IF pc[t] = "idle" THEN "idle" ELSE "done"]
    /\ prompt' = [t \in Turns |-> NoHistory]
    /\ job' = [t \in Turns |-> NoJob]
    /\ UNCHANGED conversation

Step(t) ==
    \/ LoadState(t) \/ LoadRecent(t) \/ Answer(t) \/ StoreQuestion(t) \/ StoreReply(t)
    \/ Check(t) \/ Compress(t) \/ Update(t) \/ Note(t)

Next == (\E t \in Turns : Step(t)) \/ Create \/ Rename \/ Delete \/ DeleteTenant \/ Restart

Spec == Init /\ [][Next]_vars

-----------------------------------------------------------------------------
\* The stored summary and its count always belong together: the summary was made
\* from exactly the first summary_upto_count messages, each absorbed once and in
\* order, whichever compressions overlapped and finished in whichever order.
SummaryIsPrefix == exists => upto <= Len(messages) /\ summary = SubSeq(messages, 1, upto)

\* The messages kept verbatim are never absorbed.
VerbatimKept == exists => upto = 0 \/ upto + Verbatim <= Len(messages)

\* No message reaches the LLM twice, in the summary and verbatim, although the
\* two are read in separate transactions while other turns store and compress.
SentOnce ==
    \A t \in Turns : pc[t] # "idle" =>
        ToSet(prompt[t].summary) \cap ToSet(prompt[t].recent) = {}
=============================================================================
