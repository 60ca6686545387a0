------------------------- MODULE Conversation_proofs -------------------------
(***************************************************************************)
(* The rolling summary of a conversation is made from a prefix of its       *)
(* messages and no message is sent twice, for any number of turns whose     *)
(* reads, writes and compressions interleave, and for any window.           *)
(***************************************************************************)
EXTENDS Conversation, SequenceTheorems, TLAPS

Stages == {"idle", "state", "answer", "question", "reply", "check",
           "compress", "update", "note", "done"}

History == [summary : Seq(Message), upto : Nat, recent : Seq(Message)]
Jobs == [summary : Seq(Message), upto : Nat, span : Seq(Message)]

Shape ==
    /\ exists \in BOOLEAN /\ title \in {"none", "new", "auto", "user"}
    /\ messages \in Seq(Message) /\ summary \in Seq(Message)
    /\ upto \in Nat /\ notes \in Seq(Nat)
    /\ pc \in [Turns -> Stages]
    /\ prompt \in [Turns -> History]
    /\ job \in [Turns -> Jobs]

(* The text s was made from the first n messages, and the window is not     *)
(* touched.                                                                 *)
Absorbed(s, n) ==
    /\ n <= Len(messages) /\ s = SubSeq(messages, 1, n)
    /\ n = 0 \/ n + Verbatim <= Len(messages)

(* A conversation that was deleted, or not created yet, has nothing.        *)
Row ==
    /\ ~exists => messages = <<>> /\ notes = <<>> /\ summary = <<>> /\ upto = 0
    /\ exists => title # "none" /\ Absorbed(summary, upto)

(* What a turn holds would still be right to store, or to send.  Before the *)
(* conversation is created no turn has stored or compressed anything.       *)
Holds(t) ==
    /\ pc[t] = "idle" => prompt[t] = NoHistory
    /\ pc[t] = "state" => prompt[t].recent = <<>>
    /\ title = "none" =>
        /\ pc[t] \notin {"reply", "check", "compress", "update", "note"}
        /\ prompt[t].summary = <<>> /\ prompt[t].upto = 0
    /\ exists /\ pc[t] = "state" => Absorbed(prompt[t].summary, prompt[t].upto)
    /\ exists /\ pc[t] = "compress" =>
        Absorbed(job[t].summary \o job[t].span, NewCount(t))
    /\ exists /\ pc[t] = "update" => Absorbed(job[t].summary, NewCount(t))
    /\ ToSet(prompt[t].summary) \cap ToSet(prompt[t].recent) = {}

(* The stages of a turn that has stored its message of that role.           *)
After(role) ==
    {"check", "compress", "update", "note", "done"}
        \cup (IF role = "user" THEN {"reply"} ELSE {})

Distinct ==
    /\ IsInjective(messages)
    /\ \A i \in DOMAIN messages : pc[messages[i].turn] \in After(messages[i].role)

IInv == Shape /\ Row /\ Distinct /\ \A t \in Turns : Holds(t)

-----------------------------------------------------------------------------
LEMMA NothingHeld ==
    /\ NoHistory \in History /\ NoJob \in Jobs
    /\ NoHistory.summary = <<>> /\ NoHistory.recent = <<>> /\ NoHistory.upto = 0
    /\ ToSet(NoHistory.summary) \cap ToSet(NoHistory.recent) = {}
  <1>1. <<>> \in Seq(Message)
    BY EmptySeq
  <1>2. ToSet(<<>>) = {}
    BY DEF ToSet
  <1> QED
    BY <1>1, <1>2 DEF NoHistory, NoJob, History, Jobs

LEMMA InitInv == Init => IInv
  <1> SUFFICES ASSUME Init PROVE IInv
    OBVIOUS
  <1>1. Shape
    BY NothingHeld, EmptySeq DEF Init, Shape, Stages
  <1>2. Row
    BY DEF Init, Row
  <1>3. Distinct
    BY DEF Init, Distinct, IsInjective
  <1>4. ASSUME NEW t \in Turns PROVE Holds(t)
    BY NothingHeld DEF Init, Holds
  <1> QED
    BY <1>1, <1>2, <1>3, <1>4 DEF IInv

-----------------------------------------------------------------------------
(* A turn moves and the conversation stays as it is.                        *)
LEMMA TurnMoves ==
    ASSUME IInv, NEW t \in Turns, NEW stage \in Stages, Goto(t, stage),
           NEW p \in History, prompt' = [prompt EXCEPT ![t] = p],
           NEW j \in Jobs, job' = [job EXCEPT ![t] = j],
           UNCHANGED conversation,
           \A r \in {"user", "assistant"} : pc[t] \in After(r) => stage \in After(r),
           Holds(t)'
    PROVE  IInv'
  <1> USE DEF conversation
  <1>1. /\ pc' \in [Turns -> Stages] /\ pc'[t] = stage
        /\ \A s \in Turns \ {t} : pc'[s] = pc[s] /\ prompt'[s] = prompt[s] /\ job'[s] = job[s]
    BY DEF IInv, Shape, Goto
  <1>2. Shape'
    BY <1>1 DEF IInv, Shape
  <1>3. Row'
    BY DEF IInv, Row, Absorbed
  <1>4. Distinct'
    <2>1. \A i \in DOMAIN messages : messages[i] \in Message
      BY LenProperties, ElementOfSeq DEF IInv, Shape
    <2> QED
      BY <1>1, <2>1 DEF IInv, Distinct, Message
  <1>5. ASSUME NEW s \in Turns PROVE Holds(s)'
    <2>1. CASE s = t
      BY <2>1
    <2>2. CASE s # t
      BY <1>1, <2>2 DEF IInv, Holds, Absorbed, NewCount
    <2> QED
      BY <2>1, <2>2
  <1> QED
    BY <1>2, <1>3, <1>4, <1>5 DEF IInv

LEMMA LoadStateStep == ASSUME IInv, NEW t \in Turns, LoadState(t) PROVE IInv'
  <1> DEFINE p == [prompt[t] EXCEPT !.summary = summary, !.upto = upto]
  <1>1. /\ pc[t] = "idle" /\ prompt[t] = NoHistory
        /\ prompt' = [prompt EXCEPT ![t] = p] /\ Goto(t, "state")
        /\ UNCHANGED conversation /\ job' = [job EXCEPT ![t] = job[t]]
    BY DEF LoadState, IInv, Shape, Holds
  <1>2. p \in History /\ p.recent = <<>> /\ p.summary = summary /\ p.upto = upto
    BY <1>1, NothingHeld DEF IInv, Shape, History, NoHistory
  <1>3. job[t] \in Jobs /\ "state" \in Stages /\ pc'[t] = "state" /\ prompt'[t] = p
    BY <1>1 DEF IInv, Shape, Stages, Goto
  <1> HIDE DEF p
  <1>4. Holds(t)'
    <2>1. ToSet(p.recent) = {}
      BY <1>2 DEF ToSet
    <2> QED
      BY <1>1, <1>2, <1>3, <2>1 DEF Holds, IInv, Row, Absorbed, conversation, Shape
  <1> QED
    BY <1>1, <1>2, <1>3, <1>4, TurnMoves DEF After

(* What is sent verbatim comes after what the summary was made from.        *)
LEMMA LastAfterPrefix ==
    ASSUME IInv, NEW n \in Nat, Absorbed(SubSeq(messages, 1, n), n)
    PROVE  /\ LastOf(messages, Verbatim) \in Seq(Message)
           /\ ToSet(SubSeq(messages, 1, n)) \cap ToSet(LastOf(messages, Verbatim)) = {}
  <1> DEFINE from == IF Len(messages) > Verbatim THEN Len(messages) - Verbatim + 1 ELSE 1
  <1>1. messages \in Seq(Message) /\ Len(messages) \in Nat /\ Verbatim \in Nat
    BY LenProperties, WindowAssumption DEF IInv, Shape
  <1>2. from \in 1 .. Len(messages) + 1
    BY <1>1
  <1>3. \A i \in 1 .. Len(messages) : messages[i] \in Message
    BY <1>1, ElementOfSeq
  <1>4. LastOf(messages, Verbatim) = SubSeq(messages, from, Len(messages))
    BY DEF LastOf
  <1> HIDE DEF from
  <1>5. /\ SubSeq(messages, from, Len(messages)) \in Seq(Message)
        /\ Len(SubSeq(messages, from, Len(messages))) = Len(messages) - from + 1
        /\ \A i \in 1 .. Len(messages) - from + 1 :
              SubSeq(messages, from, Len(messages))[i] = messages[from + i - 1]
    <2>1. \A i \in from .. Len(messages) : messages[i] \in Message
      BY <1>1, <1>2, <1>3
    <2>2. from \in Int /\ Len(messages) \in Int
      BY <1>1, <1>2
    <2>3. (IF from <= Len(messages) THEN Len(messages) - from + 1 ELSE 0) = Len(messages) - from + 1
      BY <1>1, <1>2
    <2> HIDE <1>1, <1>2, <1>3
    <2> QED
      BY <2>1, <2>2, <2>3, SubSeqProperties
  <1>6. ASSUME n # 0
        PROVE  /\ n < from /\ Len(SubSeq(messages, 1, n)) = n
               /\ SubSeq(messages, 1, n) \in Seq(Message)
               /\ \A i \in 1 .. n : SubSeq(messages, 1, n)[i] = messages[i]
    <2>1. n + Verbatim <= Len(messages)
      BY <1>6 DEF Absorbed
    <2>2. n < from
      BY <1>1, <2>1 DEF from
    <2>3. \A i \in 1 .. n : messages[i] \in Message
      BY <1>1, <1>3, <2>1
    <2> QED
      BY <1>6, <2>2, <2>3, SubSeqProperties
  <1>7. ASSUME n = 0 PROVE ToSet(SubSeq(messages, 1, n)) = {}
    BY <1>7, SubSeqEmpty DEF ToSet
  <1>8. ASSUME n # 0, NEW i \in DOMAIN SubSeq(messages, 1, n),
               NEW k \in DOMAIN SubSeq(messages, from, Len(messages)),
               SubSeq(messages, 1, n)[i] = SubSeq(messages, from, Len(messages))[k]
        PROVE  FALSE
    <2>1. i \in 1 .. n /\ k \in 1 .. Len(messages) - from + 1
      BY <1>5, <1>6, <1>8, LenProperties
    <2>2. messages[i] = messages[from + k - 1]
      BY <1>5, <1>6, <1>8, <2>1
    <2>3. i \in DOMAIN messages /\ from + k - 1 \in DOMAIN messages /\ i < from + k - 1
      BY <1>1, <1>2, <1>6, <1>8, <2>1, LenProperties
    <2> QED
      BY <2>2, <2>3 DEF IInv, Distinct, IsInjective
  <1>9. n # 0 => ToSet(SubSeq(messages, 1, n)) \cap ToSet(SubSeq(messages, from, Len(messages))) = {}
    BY <1>8 DEF ToSet
  <1> QED
    BY <1>4, <1>5, <1>7, <1>9

LEMMA LoadRecentStep == ASSUME IInv, NEW t \in Turns, LoadRecent(t) PROVE IInv'
  <1> DEFINE p == [prompt[t] EXCEPT !.recent = LastOf(messages, Verbatim)]
  <1>1. /\ pc[t] = "state"
        /\ prompt' = [prompt EXCEPT ![t] = p] /\ Goto(t, "answer")
        /\ UNCHANGED conversation /\ job' = [job EXCEPT ![t] = job[t]]
    BY DEF LoadRecent, IInv, Shape
  <1>2. /\ prompt[t] \in History
        /\ title = "none" => prompt[t].summary = <<>> /\ prompt[t].upto = 0
        /\ exists => Absorbed(prompt[t].summary, prompt[t].upto)
    BY <1>1 DEF IInv, Shape, Holds
  <1>3. /\ LastOf(messages, Verbatim) \in Seq(Message)
        /\ ToSet(prompt[t].summary) \cap ToSet(LastOf(messages, Verbatim)) = {}
    <2>1. CASE exists
      <3>1. prompt[t].upto \in Nat /\ prompt[t].summary = SubSeq(messages, 1, prompt[t].upto)
        BY <1>2, <2>1 DEF History, Absorbed
      <3> QED
        BY <1>2, <2>1, <3>1, LastAfterPrefix
    <2>2. CASE ~exists
      <3>1. messages = <<>> /\ Len(messages) = 0 /\ Verbatim \in Nat
        BY <2>2, WindowAssumption DEF IInv, Row
      <3>2. LastOf(messages, Verbatim) = SubSeq(messages, 1, 0)
        BY <3>1 DEF LastOf
      <3>3. LastOf(messages, Verbatim) = <<>>
        BY <3>2, SubSeqEmpty
      <3> QED
        BY <3>3, EmptySeq DEF ToSet
    <2> QED
      BY <2>1, <2>2 DEF IInv, Shape
  <1>4. p \in History /\ p.summary = prompt[t].summary /\ p.upto = prompt[t].upto
        /\ p.recent = LastOf(messages, Verbatim)
    BY <1>2, <1>3 DEF History
  <1>5. job[t] \in Jobs /\ "answer" \in Stages /\ pc'[t] = "answer" /\ prompt'[t] = p
    BY <1>1 DEF IInv, Shape, Stages, Goto
  <1> HIDE DEF p
  <1>6. Holds(t)'
    BY <1>1, <1>2, <1>3, <1>4, <1>5 DEF Holds, conversation
  <1> QED
    BY <1>1, <1>4, <1>5, <1>6, TurnMoves DEF After

LEMMA AnswerStep == ASSUME IInv, NEW t \in Turns, Answer(t) PROVE IInv'
  <1>1. PICK stage \in {"question", "done"} : Goto(t, stage)
    BY DEF Answer
  <1>2. /\ pc[t] = "answer" /\ prompt' = [prompt EXCEPT ![t] = NoHistory]
        /\ UNCHANGED conversation /\ job' = [job EXCEPT ![t] = job[t]]
    BY DEF Answer, IInv, Shape
  <1>3. job[t] \in Jobs /\ stage \in Stages /\ pc'[t] = stage /\ prompt'[t] = NoHistory
    BY <1>1, <1>2 DEF IInv, Shape, Stages, Goto
  <1>4. Holds(t)'
    BY <1>1, <1>2, <1>3, NothingHeld DEF Holds
  <1> QED
    BY <1>1, <1>2, <1>3, <1>4, NothingHeld, TurnMoves DEF After

-----------------------------------------------------------------------------
(* A message is added behind those there are: what was a prefix stays one.  *)
LEMMA AppendKeeps ==
    ASSUME messages \in Seq(Message), NEW m \in Message, messages' = Append(messages, m),
           NEW s, NEW n \in Nat, Absorbed(s, n)
    PROVE  Absorbed(s, n)'
  <1>1. /\ Len(messages) \in Nat /\ messages' \in Seq(Message)
        /\ messages' = messages \o <<m>> /\ <<m>> \in Seq(Message)
    BY LenProperties
  <1>2. Len(messages') = Len(messages) + 1
    OBVIOUS
  <1>3. CASE n = 0
    <2>1. SubSeq(messages, 1, n) = <<>> /\ SubSeq(messages', 1, n) = <<>>
      BY <1>3, SubSeqEmpty
    <2> QED
      BY <1>1, <1>2, <1>3, <2>1 DEF Absorbed
  <1>4. CASE n # 0
    <2>1. 1 \in 1 .. Len(messages) /\ n \in 1 .. Len(messages)
      BY <1>1, <1>4 DEF Absorbed
    <2>2. SubSeq(messages \o <<m>>, 1, n) = SubSeq(messages, 1, n)
      BY <1>1, <2>1, SubSeqOfConcat1
    <2>3. n <= Len(messages') /\ n + Verbatim <= Len(messages')
      BY <1>1, <1>2, <1>4, WindowAssumption DEF Absorbed
    <2> QED
      BY <1>1, <2>2, <2>3 DEF Absorbed
  <1> QED
    BY <1>3, <1>4

(* The counts of a turn's locals are numbers.                               *)
LEMMA Counts ==
    ASSUME IInv, NEW t \in Turns
    PROVE  prompt[t].upto \in Nat /\ NewCount(t) \in Nat
  <1>1. prompt[t] \in History /\ job[t] \in Jobs
    BY DEF IInv, Shape
  <1>2. Len(job[t].span) \in Nat
    BY <1>1, LenProperties DEF Jobs
  <1> QED
    BY <1>1, <1>2 DEF NewCount, History, Jobs

LEMMA MessageStored ==
    ASSUME IInv, exists, NEW t \in Turns, NEW role \in {"user", "assistant"},
           messages' = Append(messages, [turn |-> t, role |-> role]),
           pc[t] \notin After(role), pc[t] \in {"question", "reply"},
           NEW stage \in After(role), stage \in {"reply", "check", "done"}, Goto(t, stage),
           pc[t] = "reply" => stage # "reply",
           title' = title \/ (title = "new" /\ title' = "auto"),
           UNCHANGED <<exists, summary, upto, notes, prompt, job>>
    PROVE  IInv'
  <1> DEFINE m == [turn |-> t, role |-> role]
  <1>1. m \in Message /\ m.turn = t /\ m.role = role
    BY DEF Message
  <1>2. messages' = Append(messages, m)
    OBVIOUS
  <1> HIDE DEF m
  <1>3. /\ stage \in Stages /\ pc' \in [Turns -> Stages] /\ pc'[t] = stage
        /\ \A s \in Turns \ {t} : pc'[s] = pc[s]
    BY DEF IInv, Shape, Goto, Stages
  <1>4. /\ messages \in Seq(Message) /\ messages' \in Seq(Message) /\ Len(messages) \in Nat
        /\ Len(messages') = Len(messages) + 1
        /\ DOMAIN messages = 1 .. Len(messages) /\ DOMAIN messages' = 1 .. Len(messages) + 1
        /\ \A i \in 1 .. Len(messages) : messages'[i] = messages[i] /\ messages[i] \in Message
        /\ messages'[Len(messages) + 1] = m
    <2>1. messages \in Seq(Message) /\ messages' \in Seq(Message) /\ Len(messages) \in Nat
      BY <1>1, <1>2, LenProperties DEF IInv, Shape
    <2>2. Len(messages') = Len(messages) + 1
      BY <1>1, <1>2, <2>1
    <2>3. /\ \A i \in 1 .. Len(messages) : messages'[i] = messages[i]
          /\ messages'[Len(messages) + 1] = m
      BY <1>1, <1>2, <2>1
    <2>4. DOMAIN messages = 1 .. Len(messages) /\ DOMAIN messages' = 1 .. Len(messages)'
      BY <2>1, LenProperties
    <2> QED
      BY <2>1, <2>2, <2>3, <2>4, ElementOfSeq
  <1>5. Shape'
    BY <1>3, <1>4 DEF IInv, Shape
  <1>6. Row'
    <2>1. Absorbed(summary, upto)'
      <3>1. Absorbed(summary, upto) /\ upto \in Nat
        BY DEF IInv, Row, Shape
      <3>2. /\ \A s : \A n \in Nat : Absorbed(s, n) => Absorbed(s, n)'
        BY <1>1, <1>2, <1>4, AppendKeeps
      <3> QED
        BY <3>1, <3>2 DEF Absorbed
    <2> QED
      BY <2>1 DEF IInv, Row
  <1>7. Distinct'
    <2>1. \A i \in 1 .. Len(messages) : messages[i] # m /\ pc'[messages[i].turn] \in After(messages[i].role)
      <3> SUFFICES ASSUME NEW i \in 1 .. Len(messages)
                   PROVE  messages[i] # m /\ pc'[messages[i].turn] \in After(messages[i].role)
        OBVIOUS
      <3>1. pc[messages[i].turn] \in After(messages[i].role)
        BY <1>4 DEF IInv, Distinct
      <3>2. messages[i] # m
        BY <1>1, <3>1
      <3>3. messages[i].turn \in Turns /\ messages[i].role \in {"user", "assistant"}
        BY <1>4 DEF Message
      <3>4. CASE messages[i].turn = t
        <4>1. stage \in After(messages[i].role)
          BY <3>1, <3>3, <3>4 DEF After
        <4> QED
          BY <1>3, <3>2, <3>4, <4>1
      <3>5. CASE messages[i].turn # t
        BY <1>3, <3>2, <3>1, <3>3, <3>5
      <3> QED
        BY <3>2, <3>4, <3>5
    <2>2. IsInjective(messages')
      BY <1>4, <2>1 DEF IInv, Distinct, IsInjective
    <2>3. pc'[m.turn] \in After(m.role)
      BY <1>1, <1>3
    <2> QED
      BY <1>4, <2>1, <2>2, <2>3 DEF Distinct
  <1>8. ASSUME NEW s \in Turns PROVE Holds(s)'
    <2>1. \A u : \A n \in Nat : Absorbed(u, n) => Absorbed(u, n)'
      BY <1>1, <1>2, <1>4, AppendKeeps
    <2>2. title' # "none" /\ Holds(s) /\ prompt[s].upto \in Nat /\ NewCount(s) \in Nat
      BY Counts DEF IInv, Row
    <2>3. pc'[s] = pc[s] \/ pc'[s] \in {"reply", "check", "done"}
      BY <1>3
    <2> QED
      BY <2>1, <2>2, <2>3 DEF Holds, Absorbed, NewCount
  <1> QED
    BY <1>5, <1>6, <1>7, <1>8 DEF IInv

LEMMA StoreQuestionStep == ASSUME IInv, NEW t \in Turns, StoreQuestion(t) PROVE IInv'
  <1>1. CASE exists
    BY <1>1, MessageStored DEF StoreQuestion, After
  <1>2. CASE ~exists
    <2>1. /\ pc[t] = "question" /\ Goto(t, "done") /\ UNCHANGED conversation
          /\ prompt' = [prompt EXCEPT ![t] = prompt[t]] /\ job' = [job EXCEPT ![t] = job[t]]
      BY <1>2 DEF StoreQuestion, conversation, IInv, Shape
    <2>2. /\ "done" \in Stages /\ prompt[t] \in History /\ job[t] \in Jobs
          /\ pc'[t] = "done" /\ prompt'[t] = prompt[t]
      BY <2>1 DEF IInv, Shape, Stages, Goto
    <2>3. Holds(t)'
      BY <2>1, <2>2 DEF IInv, Holds, conversation
    <2> QED
      BY <2>1, <2>2, <2>3, TurnMoves DEF After
  <1> QED
    BY <1>1, <1>2

LEMMA StoreReplyStep == ASSUME IInv, NEW t \in Turns, StoreReply(t) PROVE IInv'
  <1>1. CASE exists
    BY <1>1, MessageStored DEF StoreReply, After
  <1>2. CASE ~exists
    <2>1. /\ pc[t] = "reply" /\ Goto(t, "done") /\ UNCHANGED conversation
          /\ prompt' = [prompt EXCEPT ![t] = prompt[t]] /\ job' = [job EXCEPT ![t] = job[t]]
      BY <1>2 DEF StoreReply, conversation, IInv, Shape
    <2>2. /\ "done" \in Stages /\ prompt[t] \in History /\ job[t] \in Jobs
          /\ pc'[t] = "done" /\ prompt'[t] = prompt[t]
      BY <2>1 DEF IInv, Shape, Stages, Goto
    <2>3. Holds(t)'
      BY <2>1, <2>2 DEF IInv, Holds, conversation
    <2> QED
      BY <2>1, <2>2, <2>3, TurnMoves DEF After
  <1> QED
    BY <1>1, <1>2

-----------------------------------------------------------------------------
(* The compression.                                                         *)

LEMMA CheckStep == ASSUME IInv, NEW t \in Turns, Check(t) PROVE IInv'
  <1>1. /\ pc[t] = "check" /\ UNCHANGED conversation
        /\ prompt' = [prompt EXCEPT ![t] = prompt[t]] /\ prompt[t] \in History /\ job[t] \in Jobs
        /\ prompt'[t] = prompt[t]
    BY DEF Check, IInv, Shape
  <1>2. CASE Goto(t, "done") /\ UNCHANGED job
    <2>1. job' = [job EXCEPT ![t] = job[t]] /\ "done" \in Stages /\ pc'[t] = "done"
      BY <1>2 DEF IInv, Shape, Stages, Goto
    <2>2. Holds(t)'
      BY <1>1, <2>1 DEF IInv, Holds, conversation
    <2> QED
      BY <1>1, <1>2, <2>1, <2>2, TurnMoves DEF After
  <1>3. CASE /\ exists /\ Len(messages) > Threshold /\ Evictable(Len(messages)) >= upto + 2
             /\ Goto(t, "compress")
             /\ job' = [job EXCEPT ![t] = [summary |-> summary, upto |-> upto,
                            span |-> Slice(upto, Evictable(Len(messages)) - upto)]]
    <2> DEFINE last == Len(messages) - Verbatim
               span == Slice(upto, Evictable(Len(messages)) - upto)
               j == [summary |-> summary, upto |-> upto, span |-> span]
    <2>1. /\ messages \in Seq(Message) /\ Len(messages) \in Nat /\ Verbatim \in Nat
          /\ upto \in Nat /\ summary \in Seq(Message) /\ summary = SubSeq(messages, 1, upto)
          /\ upto + 2 <= last
      BY <1>3, LenProperties, WindowAssumption DEF IInv, Shape, Row, Absorbed, Evictable
    <2>2. span = SubSeq(messages, upto + 1, last)
      BY <2>1 DEF Slice, Evictable
    <2>3. span \in Seq(Message) /\ Len(span) = last - upto
      <3>1. \A i \in upto + 1 .. last : messages[i] \in Message
        BY <2>1, ElementOfSeq
      <3>2. /\ SubSeq(messages, upto + 1, last) \in Seq(Message)
            /\ Len(SubSeq(messages, upto + 1, last))
                  = IF upto + 1 <= last THEN last - (upto + 1) + 1 ELSE 0
        <4>1. upto + 1 \in Int /\ last \in Int
          BY <2>1
        <4> HIDE DEF last
        <4> QED
          BY <3>1, <4>1, SubSeqProperties
      <3> HIDE DEF last, span
      <3> QED
        BY <2>1, <2>2, <3>2
    <2>4. summary \o span = SubSeq(messages, 1, last)
      <3>1. /\ 1 \in 1 .. Len(messages) + 1 /\ upto \in 1 - 1 .. Len(messages)
            /\ last \in upto .. Len(messages)
        BY <2>1
      <3>2. SubSeq(messages, 1, upto) \o SubSeq(messages, upto + 1, last) = SubSeq(messages, 1, last)
        <4> HIDE DEF last, span
        <4> QED
          BY <2>1, <3>1, ConcatAdjacentSubSeq
      <3> QED
        BY <2>1, <2>2, <3>2
    <2>5. j \in Jobs /\ job'[t] = j
      BY <1>1, <1>3, <2>1, <2>3 DEF Jobs, IInv, Shape
    <2>6. "compress" \in Stages /\ pc'[t] = "compress"
      BY <1>3 DEF IInv, Shape, Stages, Goto
    <2>7. Holds(t)'
      <3>1. /\ NewCount(t)' = last /\ job'[t].summary \o job'[t].span = SubSeq(messages, 1, last)
        BY <2>1, <2>3, <2>4, <2>5 DEF NewCount
      <3>2. Absorbed(job[t].summary \o job[t].span, NewCount(t))'
        BY <1>1, <2>1, <3>1 DEF Absorbed, conversation
      <3> QED
        BY <1>1, <1>3, <2>6, <3>2 DEF IInv, Row, Holds, conversation
    <2> QED
      BY <1>1, <1>3, <2>5, <2>6, <2>7, TurnMoves DEF After
  <1> QED
    BY <1>2, <1>3 DEF Check

LEMMA CompressStep == ASSUME IInv, NEW t \in Turns, Compress(t) PROVE IInv'
  <1>1. /\ pc[t] = "compress" /\ UNCHANGED conversation
        /\ prompt' = [prompt EXCEPT ![t] = prompt[t]] /\ prompt[t] \in History /\ job[t] \in Jobs
        /\ prompt'[t] = prompt[t]
    BY DEF Compress, IInv, Shape
  <1>2. CASE job' = [job EXCEPT ![t].summary = @ \o job[t].span] /\ Goto(t, "update")
    <2> DEFINE j == [job[t] EXCEPT !.summary = @ \o job[t].span]
    <2>1. job' = [job EXCEPT ![t] = j]
      BY <1>2 DEF IInv, Shape
    <2>2. /\ j \in Jobs /\ j.summary = job[t].summary \o job[t].span
          /\ j.upto = job[t].upto /\ j.span = job[t].span
      BY <1>1, ConcatProperties DEF Jobs
    <2>3. "update" \in Stages /\ pc'[t] = "update" /\ job'[t] = j
      BY <1>2, <2>1 DEF IInv, Shape, Stages, Goto
    <2> HIDE DEF j
    <2>4. NewCount(t)' = NewCount(t)
      BY <2>2, <2>3 DEF NewCount
    <2>5. exists => Absorbed(job[t].summary, NewCount(t))'
      BY <1>1, <2>2, <2>3, <2>4 DEF IInv, Holds, Absorbed, conversation
    <2>6. Holds(t)'
      BY <1>1, <2>3, <2>5 DEF IInv, Holds, conversation
    <2> QED
      BY <1>1, <1>2, <2>1, <2>2, <2>3, <2>6, TurnMoves DEF After
  <1>3. CASE job' = [job EXCEPT ![t] = NoJob] /\ Goto(t, "done")
    <2>1. "done" \in Stages /\ pc'[t] = "done"
      BY <1>3 DEF IInv, Shape, Stages, Goto
    <2>2. Holds(t)'
      BY <1>1, <2>1 DEF IInv, Holds, conversation
    <2> QED
      BY <1>1, <1>3, <2>1, <2>2, NothingHeld, TurnMoves DEF After
  <1> QED
    BY <1>2, <1>3 DEF Compress

LEMMA NoteStep == ASSUME IInv, NEW t \in Turns, Note(t) PROVE IInv'
  <1>1. /\ pc[t] = "note" /\ Goto(t, "done") /\ job' = [job EXCEPT ![t] = NoJob]
        /\ UNCHANGED <<exists, title, messages, summary, upto, prompt>>
        /\ notes' = IF exists THEN Append(notes, NewCount(t)) ELSE notes
    BY DEF Note
  <1>2. /\ pc' \in [Turns -> Stages] /\ pc'[t] = "done"
        /\ \A s \in Turns \ {t} : pc'[s] = pc[s] /\ job'[s] = job[s]
        /\ job' \in [Turns -> Jobs]
    BY <1>1, NothingHeld DEF IInv, Shape, Goto, Stages
  <1>3. notes' \in Seq(Nat)
    BY <1>1, Counts DEF IInv, Shape
  <1>4. Shape'
    BY <1>1, <1>2, <1>3 DEF IInv, Shape
  <1>5. Row'
    BY <1>1 DEF IInv, Row, Absorbed
  <1>6. Distinct'
    <2>1. \A i \in DOMAIN messages : messages[i] \in Message
      BY LenProperties, ElementOfSeq DEF IInv, Shape
    <2> QED
      BY <1>1, <1>2, <2>1 DEF IInv, Distinct, Message, After
  <1>7. ASSUME NEW s \in Turns PROVE Holds(s)'
    <2>1. CASE s = t
      BY <1>1, <1>2, <2>1 DEF IInv, Holds
    <2>2. CASE s # t
      BY <1>1, <1>2, <2>2 DEF IInv, Holds, Absorbed, NewCount
    <2> QED
      BY <2>1, <2>2
  <1> QED
    BY <1>4, <1>5, <1>6, <1>7 DEF IInv

LEMMA UpdateStep == ASSUME IInv, NEW t \in Turns, Update(t) PROVE IInv'
  <1>1. /\ pc[t] = "update" /\ Goto(t, "note")
        /\ UNCHANGED <<exists, title, messages, notes, prompt, job>>
        /\ IF exists THEN summary' = job[t].summary /\ upto' = NewCount(t) ELSE UNCHANGED <<summary, upto>>
    BY DEF Update
  <1>2. /\ pc' \in [Turns -> Stages] /\ pc'[t] = "note"
        /\ \A s \in Turns \ {t} : pc'[s] = pc[s]
    BY <1>1 DEF IInv, Shape, Goto, Stages
  <1>3. exists => Absorbed(job[t].summary, NewCount(t)) /\ job[t] \in Jobs
    BY <1>1 DEF IInv, Holds, Shape
  <1>4. Shape'
    BY <1>1, <1>2, <1>3, Counts DEF IInv, Shape, Jobs
  <1>5. Row'
    BY <1>1, <1>3 DEF IInv, Row, Absorbed
  <1>6. Distinct'
    <2>1. \A i \in DOMAIN messages : messages[i] \in Message
      BY LenProperties, ElementOfSeq DEF IInv, Shape
    <2> QED
      BY <1>1, <1>2, <2>1 DEF IInv, Distinct, Message, After
  <1>7. ASSUME NEW s \in Turns PROVE Holds(s)'
    <2>1. CASE s = t
      BY <1>1, <1>2, <2>1 DEF IInv, Holds
    <2>2. CASE s # t
      BY <1>1, <1>2, <2>2 DEF IInv, Holds, Absorbed, NewCount
    <2> QED
      BY <2>1, <2>2
  <1> QED
    BY <1>4, <1>5, <1>6, <1>7 DEF IInv

-----------------------------------------------------------------------------
(* The conversation itself.                                                 *)

LEMMA CreateStep == ASSUME IInv, Create PROVE IInv'
  <1>1. /\ ~exists /\ messages = <<>> /\ summary = <<>> /\ upto = 0
        /\ title' = "new" /\ exists'
        /\ UNCHANGED <<messages, summary, upto, notes, pc, prompt, job>>
    BY DEF Create, IInv, Row
  <1>2. Absorbed(<<>>, 0)'
    <2>1. SubSeq(messages', 1, 0) = <<>> /\ Len(messages') = 0
      BY <1>1, SubSeqEmpty
    <2> QED
      BY <2>1 DEF Absorbed
  <1>3. Shape'
    BY <1>1 DEF IInv, Shape, Create
  <1>4. Row'
    BY <1>1, <1>2 DEF Row, Absorbed, Create
  <1>5. Distinct'
    BY <1>1 DEF IInv, Distinct
  <1>6. ASSUME NEW t \in Turns PROVE Holds(t)'
    BY <1>1, <1>2 DEF IInv, Holds, Create, Absorbed
  <1> QED
    BY <1>3, <1>4, <1>5, <1>6 DEF IInv

LEMMA RenameStep == ASSUME IInv, Rename PROVE IInv'
  <1>1. exists /\ title' = "user" /\ UNCHANGED <<exists, messages, summary, upto, notes, pc, prompt, job>>
    BY DEF Rename
  <1>2. Shape' /\ Row' /\ Distinct'
    BY <1>1 DEF IInv, Shape, Row, Distinct, Absorbed
  <1>3. ASSUME NEW t \in Turns PROVE Holds(t)'
    BY <1>1 DEF IInv, Holds, Absorbed, NewCount
  <1> QED
    BY <1>2, <1>3 DEF IInv

LEMMA ErasedStep == ASSUME IInv, Erased, UNCHANGED <<title, pc, prompt, job>> PROVE IInv'
  <1>1. Shape'
    BY EmptySeq DEF IInv, Shape, Erased
  <1>2. Row' /\ Distinct'
    BY DEF IInv, Row, Distinct, Erased, IsInjective
  <1>3. ASSUME NEW t \in Turns PROVE Holds(t)'
    BY DEF IInv, Holds, Erased
  <1> QED
    BY <1>1, <1>2, <1>3 DEF IInv

LEMMA RestartStep == ASSUME IInv, Restart PROVE IInv'
  <1>1. /\ pc' = [t \in Turns |-> IF pc[t] = "idle" THEN "idle" ELSE "done"]
        /\ prompt' = [t \in Turns |-> NoHistory] /\ job' = [t \in Turns |-> NoJob]
        /\ UNCHANGED <<exists, title, messages, summary, upto, notes>>
    BY DEF Restart, conversation
  <1>2. Shape'
    BY <1>1, NothingHeld DEF IInv, Shape, Stages
  <1>3. Row'
    BY <1>1 DEF IInv, Row, Absorbed
  <1>4. Distinct'
    <2>1. \A i \in DOMAIN messages : messages[i] \in Message
      BY LenProperties, ElementOfSeq DEF IInv, Shape
    <2> QED
      BY <1>1, <2>1 DEF IInv, Distinct, Message, After
  <1>5. ASSUME NEW t \in Turns PROVE Holds(t)'
    BY <1>1, NothingHeld DEF IInv, Holds
  <1> QED
    BY <1>2, <1>3, <1>4, <1>5 DEF IInv

-----------------------------------------------------------------------------
LEMMA StepInv == ASSUME IInv, [Next]_vars PROVE IInv'
  <1>1. ASSUME NEW t \in Turns, Step(t) PROVE IInv'
    BY <1>1, LoadStateStep, LoadRecentStep, AnswerStep, StoreQuestionStep, StoreReplyStep,
       CheckStep, CompressStep, UpdateStep, NoteStep DEF Step
  <1>2. CASE Delete \/ DeleteTenant
    BY <1>2, ErasedStep DEF Delete, DeleteTenant
  <1>3. CASE UNCHANGED vars
    <2>1. Shape' /\ Row' /\ Distinct'
      BY <1>3 DEF vars, IInv, Shape, Row, Distinct, Absorbed
    <2>2. \A t \in Turns : Holds(t)'
      BY <1>3 DEF vars, IInv, Holds, Absorbed, NewCount
    <2> QED
      BY <2>1, <2>2 DEF IInv
  <1> QED
    BY <1>1, <1>2, <1>3, CreateStep, RenameStep, RestartStep DEF Next

LEMMA Invariance == Spec => []IInv
  <1> QED
    BY InitInv, StepInv, PTL DEF Spec

(* However many compressions of one conversation overlap, and in whichever  *)
(* order they write: a stored summary and its count belong together, the    *)
(* summary was made from exactly that many first messages.                  *)
THEOREM SummariesArePrefixes == Spec => []SummaryIsPrefix
  <1>1. IInv => SummaryIsPrefix
    BY DEF IInv, Row, Absorbed, SummaryIsPrefix
  <1> QED
    BY <1>1, Invariance, PTL

(* The messages that are sent verbatim have never been absorbed.            *)
THEOREM WindowIsKept == Spec => []VerbatimKept
  <1>1. IInv => VerbatimKept
    BY DEF IInv, Row, Absorbed, VerbatimKept
  <1> QED
    BY <1>1, Invariance, PTL

(* No message reaches the LLM twice, though the summary and the messages    *)
(* are read in separate transactions.                                       *)
THEOREM MessagesAreSentOnce == Spec => []SentOnce
  <1>1. IInv => SentOnce
    BY DEF IInv, Holds, SentOnce
  <1> QED
    BY <1>1, Invariance, PTL

(* Type correctness, and no message is stored twice.                        *)
THEOREM TypeCorrect == Spec => []TypeOK
  <1>1. IInv => TypeOK
    BY DEF IInv, Shape, Row, Distinct, Stages, TypeOK
  <1> QED
    BY <1>1, Invariance, PTL
=============================================================================
