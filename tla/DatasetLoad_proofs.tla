-------------------------- MODULE DatasetLoad_proofs --------------------------
(***************************************************************************)
(* For any request, datasets, number of clients and of failures, and any    *)
(* replay buffer: a dataset yields the first of the wanted files and no more *)
(* than were asked for, no counter exceeds them, a completed data source    *)
(* counts no file that is not in the stream, a job that reports "done" has  *)
(* completed every source, and a progress stream that ends has told the end *)
(* of the job.                                                              *)
(* The second part, after TypeCorrect, is about another program whose       *)
(* definition is a fold too: for any text and any budget, the token splitter *)
(* of ingestion-service loses no word and makes no divisible chunk too big.  *)
(***************************************************************************)
EXTENDS DatasetLoad, TextInputs, SampleInputs, FiniteSetTheorems, SequenceTheorems, TLAPS

Statuses == {"none", "LOADING", "COMPLETED", "FAILED"}
LoadSteps == {"off", "source", "fetch", "upload", "publish", "complete", "fail"}
Types == {"total", "progress", "done", "error"}

(* The counters of a job range over some set; which one does not matter.    *)
JobOf(G) ==
    [known : BOOLEAN, total : G, processed : G, end : {"none", "done", "error"},
     registered : G, events : Seq(Types)]

Sources == [Datasets -> [status : Statuses, count : Nat]]
Loads == [pc : LoadSteps, d : Nat, i : Nat, published : Nat, total : Nat]
Generators ==
    [pc : {"off", "yield", "wait", "ended", "refused"}, pos : Nat, left : Int, signal : BOOLEAN]

Shape ==
    /\ source \in Sources
    /\ stream \subseteq Nat \X Nat /\ IsFiniteSet(stream)
    /\ load \in Loads
    /\ \E G : job \in JobOf(G)
    /\ Len(job.events) <= MaxEventsKept
    /\ reader \in [Readers -> Generators]

(* A job that has ended has no task, and a task never starts again.         *)
Once ==
    /\ load.pc # "off" => job.end = "none"
    /\ load.pc = "off" /\ job.end = "none" => stream = {}

(* The files of the dataset in work that are in the stream come before the  *)
(* one in hand, and there are none of the datasets that follow.             *)
Ahead ==
    load.pc # "off" => \A f \in stream :
        /\ f[1] <= load.d
        /\ f[1] = load.d =>
            /\ load.pc \notin {"source", "fetch"}
            /\ load.pc \in {"upload", "publish"} => f[2] < load.i

Counted == load.pc \notin {"off", "source"} => load.published <= PublishedOf(load.d)

(* Whoever reads a job that has ended finds its end among the events.       *)
Terminal ==
    /\ job.end # "none" /\ (job.known \/ \E r \in Readers : reader[r].pc \in {"yield", "wait", "ended"}) =>
        Len(job.events) = MaxEventsKept \/ job.events[Len(job.events)] = job.end
    /\ \A r \in Readers : reader[r].pc = "ended" =>
        reader[r].left = 0 /\ reader[r].pos = Len(job.events) /\ job.end # "none"

IInv == Shape /\ Once /\ Ahead /\ Counted /\ CountIsBacked /\ Terminal

-----------------------------------------------------------------------------
LEMMA Rest ==
    /\ NoRow \in [status : Statuses, count : Nat] /\ NoRow.count = 0
    /\ NoLoad \in Loads /\ NoLoad.pc = "off" /\ NoLoad.published = 0
    /\ NoReader \in Generators /\ NoReader.pc = "off"
    /\ NoJob \in JobOf(Nat) /\ NoJob.end = "none" /\ NoJob.events = <<>> /\ ~NoJob.known
  BY EmptySeq DEF NoRow, Statuses, NoLoad, Loads, LoadSteps, NoReader, Generators, NoJob, JobOf

LEMMA InitInv == Init => IInv
  <1> SUFFICES ASSUME Init PROVE IInv
    OBVIOUS
  <1>1. Shape
    <2>1. IsFiniteSet({}) /\ Len(<<>>) = 0 /\ 0 <= MaxEventsKept
      BY FS_EmptySet, LoadAssumption
    <2> QED
      BY <2>1, Rest DEF Init, Shape, Sources
  <1>2. Once /\ Ahead /\ Counted /\ Terminal
    BY Rest DEF Init, Once, Ahead, Counted, Terminal
  <1>3. CountIsBacked
    <2> SUFFICES ASSUME NEW d \in Datasets PROVE source[d].count <= PublishedOf(d)
      BY DEF CountIsBacked
    <2>1. {f \in stream : f[1] = d} = {} /\ source[d].count = 0
      BY Rest DEF Init
    <2> QED
      BY <2>1, FS_EmptySet DEF PublishedOf
  <1> QED
    BY <1>1, <1>2, <1>3 DEF IInv

-----------------------------------------------------------------------------
(* What is counted is a number, and it grows with the stream.               *)
LEMMA PublishedNat ==
    ASSUME Shape, NEW d PROVE PublishedOf(d) \in Nat
  <1>1. IsFiniteSet({f \in stream : f[1] = d})
    BY FS_Subset DEF Shape
  <1> QED
    BY <1>1, FS_CardinalityType DEF PublishedOf

LEMMA PublishedGrows ==
    ASSUME Shape, IsFiniteSet(stream'), stream \subseteq stream', NEW d
    PROVE  PublishedOf(d) <= PublishedOf(d)' /\ PublishedOf(d)' \in Nat
  <1>1. IsFiniteSet({f \in stream' : f[1] = d}) /\ {f \in stream : f[1] = d} \subseteq {f \in stream' : f[1] = d}
    BY FS_Subset
  <1> QED
    BY <1>1, FS_Subset, FS_CardinalityType DEF PublishedOf

LEMMA PublishedOneMore ==
    ASSUME Shape, NEW f, f \notin stream, stream' = stream \cup {f}
    PROVE  PublishedOf(f[1])' = PublishedOf(f[1]) + 1
  <1>1. IsFiniteSet({g \in stream : g[1] = f[1]})
    BY FS_Subset DEF Shape
  <1>2. {g \in stream' : g[1] = f[1]} = {g \in stream : g[1] = f[1]} \cup {f}
    OBVIOUS
  <1>3. f \notin {g \in stream : g[1] = f[1]}
    OBVIOUS
  <1> QED
    BY <1>1, <1>2, <1>3, FS_AddElement DEF PublishedOf

(* An event is kept while there is room, and the generators are only        *)
(* signalled.                                                               *)
LEMMA Pushed ==
    ASSUME Shape, NEW G, NEW j \in JobOf(G), j.events = job.events,
           NEW type \in Types, Push(j, type)
    PROVE  /\ job' \in JobOf(G) /\ job'.end = j.end /\ job'.known = j.known
           /\ Len(job'.events) <= MaxEventsKept
           /\ Len(job'.events) = MaxEventsKept \/ job'.events[Len(job'.events)] = type
           /\ reader' \in [Readers -> Generators]
           /\ \A r \in Readers : /\ reader'[r].pc = reader[r].pc /\ reader'[r].left = reader[r].left
                                 /\ reader'[r].pos = reader[r].pos
  <1>1. job.events \in Seq(Types) /\ Len(job.events) \in Nat /\ MaxEventsKept \in Nat
        /\ Len(job.events) <= MaxEventsKept
    BY LenProperties, LoadAssumption DEF Shape, JobOf
  <1>2. CASE Len(job.events) < MaxEventsKept
    <2>1. job' = [j EXCEPT !.events = Append(job.events, type)]
      BY <1>2 DEF Push
    <2>2. Append(job.events, type) \in Seq(Types)
          /\ Len(Append(job.events, type)) = Len(job.events) + 1
          /\ Append(job.events, type)[Len(job.events) + 1] = type
      BY <1>1
    <2>3. /\ job' \in JobOf(G) /\ job'.end = j.end /\ job'.known = j.known
          /\ job'.events = Append(job.events, type)
      BY <2>1, <2>2 DEF JobOf
    <2>4. Len(job'.events) <= MaxEventsKept
      BY <1>1, <1>2, <2>2, <2>3
    <2>5. reader' = [r \in Readers |-> [reader[r] EXCEPT !.signal = @ \/ reader[r].pc \in {"yield", "wait"}]]
      BY DEF Push
    <2> QED
      BY <2>2, <2>3, <2>4, <2>5 DEF Shape, Generators
  <1>3. CASE ~(Len(job.events) < MaxEventsKept)
    <2>1. job' = j /\ Len(job.events) = MaxEventsKept
      BY <1>1, <1>3 DEF Push
    <2>2. reader' = [r \in Readers |-> [reader[r] EXCEPT !.signal = @ \/ reader[r].pc \in {"yield", "wait"}]]
      BY DEF Push
    <2> QED
      BY <1>1, <2>1, <2>2 DEF Shape, Generators
  <1> QED
    BY <1>2, <1>3

-----------------------------------------------------------------------------
(* The registry, seen from the task: nothing happens, an event is pushed    *)
(* while the job goes on, or the job ends.                                  *)
Quiet == UNCHANGED <<job, reader>>

LEMMA RegistryStep ==
    ASSUME IInv, load.pc # "off",
           \/ Quiet
           \/ \E n : SetTotal(n)
           \/ FileDone
    PROVE  /\ \E G : job' \in JobOf(G)
           /\ Len(job'.events) <= MaxEventsKept /\ reader' \in [Readers -> Generators]
           /\ job'.end = "none" /\ Terminal'
  <1>1. job.end = "none" /\ Shape
    BY DEF IInv, Once
  <1>2. PICK G : job \in JobOf(G)
    BY <1>1 DEF Shape
  <1>3. \A r \in Readers : reader[r].pc # "ended"
    BY <1>1 DEF IInv, Terminal
  <1>4. CASE Quiet
    BY <1>1, <1>3, <1>4 DEF Quiet, Shape, Terminal
  <1>5. ASSUME NEW n, SetTotal(n)
        PROVE  /\ \E H : job' \in JobOf(H)
               /\ Len(job'.events) <= MaxEventsKept /\ reader' \in [Readers -> Generators]
               /\ job'.end = "none" /\ Terminal'
    <2> DEFINE j == [job EXCEPT !.total = n]
    <2>1. j \in JobOf(G \cup {n}) /\ j.events = job.events /\ j.end = "none"
      BY <1>1, <1>2 DEF JobOf
    <2>2. Push(j, "total") /\ "total" \in Types
      BY <1>5 DEF SetTotal, Types
    <2> HIDE DEF j
    <2>3. /\ job' \in JobOf(G \cup {n}) /\ job'.end = "none" /\ Len(job'.events) <= MaxEventsKept
          /\ reader' \in [Readers -> Generators] /\ \A r \in Readers : reader'[r].pc = reader[r].pc
      BY <1>1, <2>1, <2>2, Pushed
    <2> QED
      BY <1>3, <2>3 DEF Terminal
  <1>6. CASE FileDone
    <2> DEFINE j == [job EXCEPT !.processed = @ + 1]
    <2>1. j \in JobOf(G \cup {job.processed + 1}) /\ j.events = job.events /\ j.end = "none"
      BY <1>1, <1>2 DEF JobOf
    <2>2. Push(j, "progress") /\ "progress" \in Types
      BY <1>6 DEF FileDone, Types
    <2> HIDE DEF j
    <2>3. /\ job' \in JobOf(G \cup {job.processed + 1}) /\ job'.end = "none"
          /\ Len(job'.events) <= MaxEventsKept
          /\ reader' \in [Readers -> Generators] /\ \A r \in Readers : reader'[r].pc = reader[r].pc
      BY <1>1, <2>1, <2>2, Pushed
    <2> QED
      BY <1>3, <2>3 DEF Terminal
  <1> QED
    BY <1>4, <1>5, <1>6

LEMMA RegistryEnds ==
    ASSUME IInv, load.pc # "off", FailJob \/ \E n : FinishJob(n)
    PROVE  /\ \E G : job' \in JobOf(G)
           /\ Len(job'.events) <= MaxEventsKept /\ reader' \in [Readers -> Generators]
           /\ job'.end # "none" /\ Terminal'
  <1>1. job.end = "none" /\ Shape
    BY DEF IInv, Once
  <1>2. PICK G : job \in JobOf(G)
    BY <1>1 DEF Shape
  <1>3. \A r \in Readers : reader[r].pc # "ended"
    BY <1>1 DEF IInv, Terminal
  <1>4. CASE FailJob
    <2> DEFINE j == [job EXCEPT !.end = "error"]
    <2>1. j \in JobOf(G) /\ j.events = job.events /\ j.end = "error"
      BY <1>2 DEF JobOf
    <2>2. Push(j, "error") /\ "error" \in Types
      BY <1>4 DEF FailJob, Types
    <2> HIDE DEF j
    <2>3. /\ job' \in JobOf(G) /\ job'.end = "error" /\ Len(job'.events) <= MaxEventsKept
          /\ Len(job'.events) = MaxEventsKept \/ job'.events[Len(job'.events)] = "error"
          /\ reader' \in [Readers -> Generators] /\ \A r \in Readers : reader'[r].pc = reader[r].pc
      BY <1>1, <2>1, <2>2, Pushed
    <2> QED
      BY <1>3, <2>3 DEF Terminal
  <1>5. ASSUME NEW n, FinishJob(n)
        PROVE  /\ \E H : job' \in JobOf(H)
               /\ Len(job'.events) <= MaxEventsKept /\ reader' \in [Readers -> Generators]
               /\ job'.end # "none" /\ Terminal'
    <2> DEFINE j == [job EXCEPT !.end = "done", !.registered = n]
    <2>1. j \in JobOf(G \cup {n}) /\ j.events = job.events /\ j.end = "done"
      BY <1>2 DEF JobOf
    <2>2. Push(j, "done") /\ "done" \in Types
      BY <1>5 DEF FinishJob, Types
    <2> HIDE DEF j
    <2>3. /\ job' \in JobOf(G \cup {n}) /\ job'.end = "done" /\ Len(job'.events) <= MaxEventsKept
          /\ Len(job'.events) = MaxEventsKept \/ job'.events[Len(job'.events)] = "done"
          /\ reader' \in [Readers -> Generators] /\ \A r \in Readers : reader'[r].pc = reader[r].pc
      BY <1>1, <2>1, <2>2, Pushed
    <2> QED
      BY <1>3, <2>3 DEF Terminal
  <1> QED
    BY <1>4, <1>5

-----------------------------------------------------------------------------
(* The task.                                                                *)

LEMMA CountsStay ==
    ASSUME Shape, CountIsBacked, source' \in Sources,
           IsFiniteSet(stream'), stream \subseteq stream',
           \A d \in Datasets : source'[d].count \in {0, source[d].count}
    PROVE  CountIsBacked'
  <1> SUFFICES ASSUME NEW d \in Datasets PROVE source'[d].count <= PublishedOf(d)'
    BY DEF CountIsBacked
  <1>1. /\ PublishedOf(d) \in Nat /\ PublishedOf(d)' \in Nat /\ PublishedOf(d) <= PublishedOf(d)'
    BY PublishedNat, PublishedGrows
  <1>2. source[d].count <= PublishedOf(d) /\ source[d].count \in Nat
    BY DEF CountIsBacked, Shape, Sources
  <1> QED
    BY <1>1, <1>2

(* A row whose status is set keeps its count.                               *)
LEMMA StatusOnly ==
    ASSUME source \in Sources, NEW d, NEW x, d \in Datasets => x \in Statuses,
           source' = [source EXCEPT ![d].status = x]
    PROVE  source' \in Sources /\ \A e \in Datasets : source'[e].count \in {0, source[e].count}
  <1>1. CASE d \in Datasets
    <2> DEFINE row == [source[d] EXCEPT !.status = x]
    <2>1. row \in [status : Statuses, count : Nat] /\ row.count = source[d].count
      BY <1>1 DEF Sources
    <2>2. source' = [source EXCEPT ![d] = row]
      OBVIOUS
    <2> HIDE DEF row
    <2> QED
      BY <2>1, <2>2 DEF Sources
  <1>2. CASE d \notin Datasets
    BY <1>2 DEF Sources
  <1> QED
    BY <1>1, <1>2

(* The task moves on without ending the job.                                *)
LEMMA TaskMoves ==
    ASSUME IInv, load.pc # "off", NEW l \in Loads, load' = l, l.pc # "off",
           source' \in Sources, \A d \in Datasets : source'[d].count \in {0, source[d].count},
           stream' \subseteq Nat \X Nat, IsFiniteSet(stream'), stream \subseteq stream',
           Quiet \/ (\E n : SetTotal(n)) \/ FileDone,
           Ahead', Counted'
    PROVE  IInv'
  <1>1. /\ \E G : job' \in JobOf(G)
        /\ Len(job'.events) <= MaxEventsKept /\ reader' \in [Readers -> Generators]
        /\ job'.end = "none" /\ Terminal'
    BY RegistryStep
  <1>2. Shape' /\ Once'
    BY <1>1 DEF Shape, Once
  <1>3. CountIsBacked'
    BY CountsStay DEF IInv
  <1> QED
    BY <1>1, <1>2, <1>3 DEF IInv

(* The task ends with its job.                                              *)
LEMMA TaskEnds ==
    ASSUME IInv, load.pc # "off", load' \in Loads, load'.pc = "off",
           FailJob \/ (\E n : FinishJob(n)),
           source' \in Sources, UNCHANGED stream, CountIsBacked'
    PROVE  IInv'
  <1>1. /\ \E G : job' \in JobOf(G)
        /\ Len(job'.events) <= MaxEventsKept /\ reader' \in [Readers -> Generators]
        /\ job'.end # "none" /\ Terminal'
    BY RegistryEnds
  <1>2. Shape' /\ Once' /\ Ahead' /\ Counted'
    BY <1>1 DEF IInv, Shape, Once, Ahead, Counted
  <1> QED
    BY <1>1, <1>2 DEF IInv

LEMMA CreateSourceStep == ASSUME IInv, CreateSource PROVE IInv'
  <1> DEFINE l == [load EXCEPT !.pc = "fetch", !.published = 0]
  <1>1. /\ load.pc = "source" /\ load' = l
        /\ source' = [source EXCEPT ![load.d] = [NoRow EXCEPT !.status = "LOADING"]]
        /\ UNCHANGED <<stored, stream, job, reader, mishaps>>
    BY DEF CreateSource, Busy
  <1>2. l \in Loads /\ l.pc = "fetch" /\ l.published = 0 /\ l.d = load.d
    BY DEF IInv, Shape, Loads, LoadSteps
  <1> HIDE DEF l
  <1>3. /\ source' \in Sources /\ \A d \in Datasets : source'[d].count \in {0, source[d].count}
    BY <1>1 DEF IInv, Shape, Sources, NoRow, Statuses
  <1>4. Ahead'
    BY <1>1, <1>2 DEF IInv, Ahead
  <1>5. Counted'
    BY <1>1, <1>2, PublishedNat DEF IInv, Counted, PublishedOf
  <1> QED
    BY <1>1, <1>2, <1>3, <1>4, <1>5, TaskMoves DEF IInv, Shape, Quiet

LEMMA CreateSourceFailsStep == ASSUME IInv, CreateSourceFails PROVE IInv'
  <1>1. /\ load.pc = "source" /\ load' = [load EXCEPT !.pc = "off"] /\ FailJob
        /\ UNCHANGED stream
    BY DEF CreateSourceFails, Busy
  <1>2. load' \in Loads /\ load'.pc = "off"
    BY <1>1 DEF IInv, Shape, Loads, LoadSteps
  <1>3. /\ source' \in Sources /\ \A d \in Datasets : source'[d].count \in {0, source[d].count}
    <2>1. PICK made \in BOOLEAN :
              source' = [source EXCEPT ![load.d].status = IF made THEN "LOADING" ELSE @]
      BY DEF CreateSourceFails
    <2>2. source \in Sources
      BY DEF IInv, Shape
    <2> DEFINE x == IF made THEN "LOADING" ELSE source[load.d].status
    <2>3. load.d \in Datasets => x \in Statuses
      BY <2>2 DEF Sources, Statuses
    <2>4. source' = [source EXCEPT ![load.d].status = x]
      BY <2>1
    <2> HIDE DEF x
    <2> QED
      BY <2>2, <2>3, <2>4, StatusOnly
  <1>4. CountIsBacked'
    BY <1>1, <1>3, CountsStay DEF IInv, Shape
  <1> QED
    BY <1>1, <1>2, <1>3, <1>4, TaskEnds

LEMMA FetchStep == ASSUME IInv, Fetch PROVE IInv'
  <1> DEFINE l == [load EXCEPT !.pc = IF NumFiles[load.d] = 0 THEN "complete" ELSE "upload", !.i = 1]
  <1>1. /\ load.pc = "fetch" /\ load' = l /\ UNCHANGED <<source, stored, stream, mishaps>>
        /\ Quiet \/ \E n : SetTotal(n)
    BY DEF Fetch, Busy, Quiet
  <1>2. /\ l \in Loads /\ l.pc \in {"complete", "upload"}
        /\ l.published = load.published /\ l.d = load.d
    BY DEF IInv, Shape, Loads, LoadSteps
  <1> HIDE DEF l
  <1>3. Ahead'
    BY <1>1, <1>2 DEF IInv, Ahead
  <1>4. Counted'
    BY <1>1, <1>2 DEF IInv, Counted, PublishedOf
  <1> QED
    BY <1>1, <1>2, <1>3, <1>4, TaskMoves DEF IInv, Shape

(* A call raises and the task goes to its handler.                          *)
LEMMA GivesUp ==
    ASSUME IInv, load.pc \in {"fetch", "complete"}, load' = [load EXCEPT !.pc = "fail"],
           UNCHANGED <<stored, stream, job, reader>>,
           source' \in Sources, CountIsBacked'
    PROVE  IInv'
  <1>1. load' \in Loads /\ load'.pc = "fail" /\ load'.d = load.d /\ load'.published = load.published
    BY DEF IInv, Shape, Loads, LoadSteps
  <1>2. Shape' /\ Once' /\ Ahead' /\ Counted'
    BY <1>1 DEF IInv, Shape, Once, Ahead, Counted, PublishedOf
  <1>3. Terminal'
    BY DEF IInv, Terminal
  <1> QED
    BY <1>2, <1>3 DEF IInv

LEMMA FetchFailsStep == ASSUME IInv, FetchFails PROVE IInv'
  <1>1. CountIsBacked' /\ source' \in Sources
    BY DEF IInv, FetchFails, CountIsBacked, PublishedOf, Shape
  <1> QED
    BY <1>1, GivesUp DEF FetchFails, Busy

LEMMA UploadStep == ASSUME IInv, Upload PROVE IInv'
  <1> DEFINE l == [load EXCEPT !.pc = "publish"]
  <1>1. load.pc = "upload" /\ load' = l /\ UNCHANGED <<source, stream, job, reader, mishaps>>
    BY DEF Upload, Busy
  <1>2. /\ l \in Loads /\ l.pc = "publish" /\ l.i = load.i
        /\ l.published = load.published /\ l.d = load.d
    BY DEF IInv, Shape, Loads, LoadSteps
  <1> HIDE DEF l
  <1>3. Ahead'
    BY <1>1, <1>2 DEF IInv, Ahead
  <1>4. Counted'
    BY <1>1, <1>2 DEF IInv, Counted, PublishedOf
  <1> QED
    BY <1>1, <1>2, <1>3, <1>4, TaskMoves DEF IInv, Shape, Quiet

LEMMA NextFileMoves ==
    ASSUME NEW l \in Loads
    PROVE  /\ NextFile(l) \in Loads /\ NextFile(l).pc \in {"complete", "upload"}
           /\ NextFile(l).i = l.i + 1 /\ NextFile(l).published = l.published /\ NextFile(l).d = l.d
  <1>1. l.i + 1 \in Nat /\ l = [pc |-> l.pc, d |-> l.d, i |-> l.i, published |-> l.published, total |-> l.total]
    BY DEF Loads
  <1>2. PICK step \in {"complete", "upload"} : NextFile(l) = [l EXCEPT !.pc = step, !.i = l.i + 1]
    <2>1. CASE l.i = NumFiles[l.d]
      BY <2>1 DEF NextFile
    <2>2. CASE l.i # NumFiles[l.d]
      BY <2>2 DEF NextFile
    <2> QED
      BY <2>1, <2>2
  <1> QED
    BY <1>1, <1>2 DEF Loads, LoadSteps

LEMMA UploadFailsStep == ASSUME IInv, UploadFails PROVE IInv'
  <1>1. load.pc = "upload" /\ load' = NextFile(load) /\ UNCHANGED <<source, stored, stream, job, reader>>
    BY DEF UploadFails, Busy
  <1>2. load \in Loads /\ stream \subseteq Nat \X Nat
    BY DEF IInv, Shape
  <1>3. Ahead'
    <2> SUFFICES ASSUME NEW f \in stream, f[1] = load.d, load'.pc = "upload"
                 PROVE  f[2] < load.i + 1
      BY <1>1, <1>2, NextFileMoves DEF IInv, Ahead
    <2>1. f[2] < load.i /\ f[2] \in Nat /\ load.i \in Nat
      BY <1>1, <1>2 DEF IInv, Ahead, Loads
    <2> QED
      BY <2>1
  <1>4. Counted'
    BY <1>1, <1>2, NextFileMoves DEF IInv, Counted, PublishedOf
  <1> QED
    BY <1>1, <1>2, <1>3, <1>4, NextFileMoves, TaskMoves DEF IInv, Shape, Quiet

(* The file in hand enters the stream, or it does not, and it is counted    *)
(* only if it does.                                                         *)
LEMMA FileLeaves ==
    ASSUME IInv, load.pc = "publish", NEW l \in Loads, load' = NextFile(l),
           l.i = load.i, l.d = load.d,
           \/ stream' = stream \cup {This} /\ l.published \in {load.published, load.published + 1}
           \/ stream' = stream /\ l.published = load.published,
           UNCHANGED source, Quiet \/ FileDone
    PROVE  IInv'
  <1>1. load \in Loads /\ stream \subseteq Nat \X Nat /\ IsFiniteSet(stream) /\ Shape
    BY DEF IInv, Shape
  <1>2. /\ This \in Nat \X Nat /\ This[1] = load.d /\ This[2] = load.i
        /\ load.i \in Nat /\ load.d \in Nat /\ load.published \in Nat
    BY <1>1 DEF This, Loads
  <1>3. This \notin stream
    BY <1>2 DEF IInv, Ahead
  <1>4. stream' \subseteq Nat \X Nat /\ IsFiniteSet(stream') /\ stream \subseteq stream'
    BY <1>1, <1>2, FS_AddElement
  <1>5. /\ load' \in Loads /\ load'.pc \in {"complete", "upload"}
        /\ load'.i = load.i + 1 /\ load'.published = l.published /\ load'.d = load.d
    BY NextFileMoves
  <1>6. Ahead'
    <2> SUFFICES ASSUME NEW f \in stream'
                 PROVE  f[1] <= load.d /\ (f[1] = load.d => f[2] < load.i + 1)
      BY <1>5 DEF Ahead
    <2>1. CASE f \in stream
      <3>1. /\ f[1] <= load.d
            /\ f[1] = load.d => f[2] < load.i
            /\ f[2] \in Nat
        BY <1>1, <2>1 DEF IInv, Ahead
      <3> QED
        BY <1>2, <3>1
    <2>2. CASE f = This
      BY <1>2, <2>2
    <2> QED
      BY <2>1, <2>2
  <1>7. Counted'
    <2>1. load.published <= PublishedOf(load.d) /\ PublishedOf(load.d) \in Nat
      BY <1>1, PublishedNat DEF IInv, Counted
    <2>2. CASE stream' = stream
      BY <1>2, <1>3, <1>5, <2>1, <2>2 DEF Counted, PublishedOf
    <2>3. CASE stream' = stream \cup {This}
      <3>1. PICK g : g = This
        OBVIOUS
      <3>2. PublishedOf(g[1])' = PublishedOf(g[1]) + 1
        BY <1>1, <1>3, <2>3, <3>1, PublishedOneMore
      <3>3. load'.d = g[1] /\ load.d = g[1]
        BY <1>2, <1>5, <3>1
      <3>4. load'.published <= PublishedOf(g[1])'
        BY <1>2, <1>5, <2>1, <3>2, <3>3
      <3> QED
        BY <3>3, <3>4 DEF Counted, PublishedOf
    <2> QED
      BY <2>2, <2>3
  <1> QED
    BY <1>1, <1>4, <1>5, <1>6, <1>7, TaskMoves DEF Shape

LEMMA PublishFileStep == ASSUME IInv, PublishFile PROVE IInv'
  <1> DEFINE l == [load EXCEPT !.published = @ + 1]
  <1>1. /\ load.pc = "publish" /\ load' = NextFile(l) /\ stream' = stream \cup {This}
        /\ FileDone /\ UNCHANGED source
    BY DEF PublishFile, Busy
  <1>2. l \in Loads /\ l.i = load.i /\ l.d = load.d /\ l.published = load.published + 1
    BY DEF IInv, Shape, Loads
  <1> HIDE DEF l
  <1> QED
    BY <1>1, <1>2, FileLeaves

LEMMA PublishFileFailsStep == ASSUME IInv, PublishFileFails PROVE IInv'
  <1>1. /\ load.pc = "publish" /\ load' = NextFile(load)
        /\ stream' = stream \cup {This} \/ stream' = stream
        /\ Quiet /\ UNCHANGED source
    BY DEF PublishFileFails, Skipped, Busy, Quiet
  <1> QED
    BY <1>1, FileLeaves DEF IInv, Shape

-----------------------------------------------------------------------------
(* complete_data_source writes the count of the dataset in work.            *)
LEMMA CompletedCounts ==
    ASSUME IInv, load.pc = "complete", UNCHANGED stream,
           \/ source' = [source EXCEPT ![load.d] = [status |-> "COMPLETED", count |-> load.published]]
           \/ source' = source
    PROVE  source' \in Sources /\ CountIsBacked'
  <1>1. source' \in Sources
    BY DEF IInv, Shape, Sources, Statuses, Loads
  <1>2. load.published <= PublishedOf(load.d)
    BY DEF IInv, Counted
  <1>3. CountIsBacked'
    <2> SUFFICES ASSUME NEW d \in Datasets PROVE source'[d].count <= PublishedOf(d)
      BY DEF CountIsBacked, PublishedOf
    <2> QED
      <3>1. source[d].count <= PublishedOf(d)
        BY DEF IInv, CountIsBacked
      <3>2. source'[d].count = source[d].count \/ (d = load.d /\ source'[d].count = load.published)
        BY DEF IInv, Shape, Sources
      <3> QED
        BY <1>2, <3>1, <3>2
  <1> QED
    BY <1>1, <1>3

LEMMA CompleteStep == ASSUME IInv, Complete PROVE IInv'
  <1>1. /\ load.pc = "complete" /\ load' = NextDataset /\ UNCHANGED <<stored, stream, mishaps>>
        /\ source' = [source EXCEPT ![load.d] = [status |-> "COMPLETED", count |-> load.published]]
        /\ IF load'.pc = "off" THEN FinishJob(load'.total) ELSE UNCHANGED <<job, reader>>
    BY DEF Complete, Busy
  <1>2. /\ load' \in Loads
        /\ \/ load'.pc = "off"
           \/ load'.pc = "source" /\ load'.d = load.d + 1
    <2>1. load \in Loads /\ load.total + load.published \in Nat
      BY DEF IInv, Shape, Loads
    <2>2. CASE load.d < Len(Dataset)
      <3>1. load' = [pc |-> "source", d |-> load.d + 1, i |-> load.i, published |-> load.published,
                     total |-> load.total + load.published]
        BY <1>1, <2>1, <2>2 DEF NextDataset, Loads
      <3> QED
        BY <2>1, <3>1 DEF Loads, LoadSteps
    <2>3. CASE ~(load.d < Len(Dataset))
      <3>1. load' = [pc |-> "off", d |-> load.d, i |-> load.i, published |-> load.published,
                     total |-> load.total + load.published]
        BY <1>1, <2>1, <2>3 DEF NextDataset, Loads
      <3> QED
        BY <2>1, <3>1 DEF Loads, LoadSteps
    <2> QED
      BY <2>2, <2>3
  <1>3. source' \in Sources /\ CountIsBacked'
    BY <1>1, CompletedCounts
  <1>4. CASE load'.pc = "off"
    BY <1>1, <1>2, <1>3, <1>4, TaskEnds
  <1>5. CASE load'.pc = "source" /\ load'.d = load.d + 1
    <2>1. Ahead'
      <3>1. \A f \in stream : f[1] <= load.d /\ f[1] \in Nat /\ load.d \in Nat
        BY <1>1 DEF IInv, Ahead, Shape, Loads
      <3>2. \A f \in stream : f[1] <= load.d + 1 /\ f[1] # load.d + 1
        BY <3>1
      <3> QED
        BY <1>1, <1>5, <3>2 DEF Ahead
    <2>2. Shape' /\ Once' /\ Counted' /\ Terminal'
      BY <1>1, <1>2, <1>3, <1>5 DEF IInv, Shape, Once, Counted, Terminal
    <2> QED
      BY <1>3, <2>1, <2>2 DEF IInv
  <1> QED
    BY <1>2, <1>4, <1>5

LEMMA CompleteFailsStep == ASSUME IInv, CompleteFails PROVE IInv'
  <1>1. source' \in Sources /\ CountIsBacked'
    BY CompletedCounts DEF CompleteFails, Busy
  <1> QED
    BY <1>1, GivesUp DEF CompleteFails, Busy

LEMMA FailStep == ASSUME IInv, Fail PROVE IInv'
  <1>1. /\ load.pc = "fail" /\ load' = [load EXCEPT !.pc = "off"] /\ FailJob /\ UNCHANGED stream
        /\ source' = [source EXCEPT ![load.d].status = "FAILED"] \/ source' = source
    BY DEF Fail, FailSource, Busy
  <1>2. load' \in Loads /\ load'.pc = "off"
    BY <1>1 DEF IInv, Shape, Loads, LoadSteps
  <1>3. /\ source' \in Sources /\ \A d \in Datasets : source'[d].count \in {0, source[d].count}
    <2>1. source \in Sources /\ "FAILED" \in Statuses
      BY DEF IInv, Shape, Statuses
    <2> QED
      BY <1>1, <2>1, StatusOnly
  <1>4. CountIsBacked'
    BY <1>1, <1>3, CountsStay DEF IInv, Shape
  <1> QED
    BY <1>1, <1>2, <1>3, <1>4, TaskEnds

-----------------------------------------------------------------------------
(* The job and its readers.                                                 *)

LEMMA StartStep == ASSUME IInv, Start PROVE IInv'
  <1>1. /\ load.pc = "off" /\ job.end = "none" /\ ~job.known /\ stream = {}
        /\ job' = Create /\ load' = [NoLoad EXCEPT !.pc = "source"]
        /\ UNCHANGED <<source, stored, stream, reader, mishaps>>
    BY DEF Start, Busy, IInv, Once
  <1>2. load' \in Loads /\ load'.pc = "source"
    BY <1>1 DEF NoLoad, Loads, LoadSteps
  <1>3. job' \in JobOf(Nat) /\ job'.end = "none" /\ job'.events = <<>> /\ Len(<<>>) <= MaxEventsKept
    <2>1. /\ job' = [NoJob EXCEPT !.known = TRUE] /\ Len(<<>>) = 0 /\ MaxEventsKept \in Nat
      BY <1>1, LoadAssumption DEF Create
    <2>2. job' \in JobOf(Nat) /\ job'.end = NoJob.end /\ job'.events = NoJob.events
      BY <2>1, Rest DEF JobOf
    <2> QED
      BY <2>1, <2>2, Rest
  <1>4. Shape' /\ Once' /\ Ahead' /\ Counted'
    BY <1>1, <1>2, <1>3 DEF IInv, Shape, Once, Ahead, Counted
  <1>5. Terminal'
    BY <1>1, <1>3 DEF IInv, Terminal
  <1>6. CountIsBacked'
    BY <1>1 DEF IInv, CountIsBacked, PublishedOf
  <1> QED
    BY <1>4, <1>5, <1>6 DEF IInv

LEMMA ReaderStep ==
    ASSUME IInv, NEW r \in Readers, NEW v \in Generators, Set(r, v),
           UNCHANGED <<source, stored, stream, load, job>>,
           \/ v.pc \in {"off", "refused"}
           \/ v.pc \in {"yield", "wait"} /\ (job.known \/ reader[r].pc \in {"yield", "wait"})
           \/ /\ v.pc = "ended" /\ reader[r].pc \in {"yield", "wait"}
              /\ v.left = 0 /\ v.pos = Len(job.events) /\ job.end # "none"
    PROVE  IInv'
  <1>1. /\ reader' \in [Readers -> Generators] /\ reader'[r] = v
        /\ \A s \in Readers \ {r} : reader'[s] = reader[s]
    BY DEF Set, IInv, Shape
  <1>2. Shape' /\ Once' /\ Ahead' /\ Counted'
    BY <1>1 DEF IInv, Shape, Once, Ahead, Counted, PublishedOf
  <1>3. CountIsBacked'
    BY DEF IInv, CountIsBacked, PublishedOf
  <1>4. Terminal'
    BY <1>1 DEF IInv, Terminal
  <1> QED
    BY <1>2, <1>3, <1>4 DEF IInv

LEMMA SnapshotIs ==
    ASSUME Shape, NEW v \in Generators
    PROVE  Snapshot(v) \in Generators /\ Snapshot(v).pc = "yield"
  <1>1. Len(job.events) \in Nat /\ v.pos \in Nat /\ v.signal \in BOOLEAN
    BY LenProperties DEF Shape, JobOf, Generators
  <1> DEFINE n == Len(job.events)
             m == Len(job.events) - v.pos
  <1>2. n \in Nat /\ m \in Int
    BY <1>1
  <1>3. Snapshot(v) = [v EXCEPT !.pc = "yield", !.left = m, !.pos = n]
    BY DEF Snapshot
  <1> HIDE DEF n, m
  <1> QED
    BY <1>2, <1>3 DEF Generators

LEMMA StreamingStep ==
    ASSUME IInv, NEW r \in Readers, Subscribe(r) \/ Streaming(r) \/ Disconnect(r)
    PROVE  IInv'
  <1>1. reader[r] \in Generators /\ Shape /\ Len(job.events) \in Nat
    BY LenProperties DEF IInv, Shape, JobOf
  <1>2. CASE Subscribe(r)
    <2>1. CASE Found
      BY <1>1, <1>2, <2>1, Rest, SnapshotIs, ReaderStep DEF Subscribe, Found
    <2>2. CASE ~Found
      <3>1. [NoReader EXCEPT !.pc = "refused"] \in Generators /\ [NoReader EXCEPT !.pc = "refused"].pc = "refused"
        BY Rest DEF Generators
      <3> QED
        BY <1>2, <2>2, <3>1, ReaderStep DEF Subscribe
    <2> QED
      BY <2>1, <2>2
  <1>3. CASE Yield(r)
    <2> DEFINE v == [reader[r] EXCEPT !.left = @ - 1]
    <2>1. v \in Generators /\ v.pc = reader[r].pc /\ reader[r].pc = "yield" /\ Set(r, v)
      BY <1>1, <1>3 DEF Yield, Generators
    <2> HIDE DEF v
    <2> QED
      BY <1>3, <2>1, ReaderStep DEF Yield
  <1>4. CASE Settle(r)
    <2> DEFINE v == [reader[r] EXCEPT !.pc = IF Over(reader[r]) THEN "ended" ELSE "wait", !.signal = FALSE]
    <2>1. /\ v \in Generators /\ v.pos = reader[r].pos /\ v.left = reader[r].left
          /\ v.pc = IF Over(reader[r]) THEN "ended" ELSE "wait"
      BY <1>1 DEF Generators
    <2>2. reader[r].pc = "yield" /\ reader[r].left = 0 /\ Set(r, v)
      BY <1>4 DEF Settle
    <2> HIDE DEF v
    <2> QED
      BY <1>4, <2>1, <2>2, ReaderStep DEF Settle, Over
  <1>5. CASE Wake(r)
    BY <1>1, <1>5, SnapshotIs, ReaderStep DEF Wake
  <1>6. CASE Disconnect(r)
    BY <1>6, Rest, ReaderStep DEF Disconnect
  <1> QED
    BY <1>2, <1>3, <1>4, <1>5, <1>6 DEF Streaming

LEMMA EvictStep == ASSUME IInv, Evict PROVE IInv'
  <1>1. PICK G : job \in JobOf(G)
    BY DEF IInv, Shape
  <1>2. job' = [job EXCEPT !.known = FALSE] /\ UNCHANGED <<source, stored, stream, load, reader, mishaps>>
    BY DEF Evict
  <1>3. job' \in JobOf(G) /\ ~job'.known /\ job'.end = job.end /\ job'.events = job.events
    BY <1>1, <1>2 DEF JobOf
  <1>4. Shape' /\ Once' /\ Ahead' /\ Counted'
    BY <1>2, <1>3 DEF IInv, Shape, Once, Ahead, Counted, PublishedOf
  <1>5. CountIsBacked' /\ Terminal'
    BY <1>2, <1>3 DEF IInv, CountIsBacked, PublishedOf, Terminal
  <1> QED
    BY <1>4, <1>5 DEF IInv

LEMMA RestartStep == ASSUME IInv, Restart PROVE IInv'
  <1>1. /\ load' = NoLoad /\ job' = [NoJob EXCEPT !.end = "error"]
        /\ reader' = [r \in Readers |-> NoReader] /\ UNCHANGED <<source, stored, stream>>
    BY DEF Restart
  <1>2. /\ job' \in JobOf(Nat) /\ ~job'.known /\ job'.end = "error" /\ job'.events = <<>>
        /\ Len(<<>>) <= MaxEventsKept
    BY <1>1, Rest, LoadAssumption DEF JobOf
  <1>3. Shape' /\ Once' /\ Ahead' /\ Counted'
    BY <1>1, <1>2, Rest DEF IInv, Shape, Once, Ahead, Counted
  <1>4. CountIsBacked' /\ Terminal'
    BY <1>1, <1>2, Rest DEF IInv, CountIsBacked, PublishedOf, Terminal
  <1> QED
    BY <1>3, <1>4 DEF IInv

-----------------------------------------------------------------------------
LEMMA StepInv == ASSUME IInv, [Next]_vars PROVE IInv'
  <1>1. CASE Loading
    BY <1>1, CreateSourceStep, CreateSourceFailsStep, FetchStep, FetchFailsStep, UploadStep,
       UploadFailsStep, PublishFileStep, PublishFileFailsStep, CompleteStep, CompleteFailsStep,
       FailStep DEF Loading
  <1>2. CASE UNCHANGED vars
    <2>1. Shape' /\ Once' /\ Ahead' /\ Counted'
      BY <1>2 DEF vars, IInv, Shape, Once, Ahead, Counted, PublishedOf
    <2>2. CountIsBacked' /\ Terminal'
      BY <1>2 DEF vars, IInv, CountIsBacked, PublishedOf, Terminal
    <2> QED
      BY <2>1, <2>2 DEF IInv
  <1> QED
    BY <1>1, <1>2, StartStep, EvictStep, RestartStep, StreamingStep DEF Next

LEMMA Invariance == Spec => []IInv
  <1> QED
    BY InitInv, StepInv, PTL DEF Spec

(* A data source that document-service calls completed never counts more    *)
(* files than are in files.available, whatever calls failed.                *)
THEOREM CountsAreBacked == Spec => []CountIsBacked
  <1>1. IInv => CountIsBacked
    BY DEF IInv
  <1> QED
    BY <1>1, Invariance, PTL

(* A progress stream that ends by itself has written all that was kept, the *)
(* end of the job among it.                                                 *)
THEOREM EndedStreamsAreWhole == Spec => []EndedSawAll
  <1>1. IInv => EndedSawAll
    BY DEF IInv, Terminal, EndedSawAll
  <1> QED
    BY <1>1, Invariance, PTL

-----------------------------------------------------------------------------
(* Sums.  The fold that adds up numbers is the size of a set of blocks, one *)
(* for every unit of every summand.                                         *)

Blocks(g, S) == UNION {{x} \X (1 .. g[x]) : x \in S}
Anyone(S) == CHOOSE x \in S : TRUE
Adds(it, g, S) ==
    it = [s \in SUBSET S |-> IF s = {} THEN 0 ELSE g[Anyone(s)] + it[s \ {Anyone(s)}]]

LEMMA BlocksOne ==
    ASSUME NEW g, NEW S, NEW x \in S, g[x] \in Nat,
           IsFiniteSet(Blocks(g, S \ {x}))
    PROVE  /\ IsFiniteSet(Blocks(g, S))
           /\ Cardinality(Blocks(g, S)) = g[x] + Cardinality(Blocks(g, S \ {x}))
  <1> DEFINE A == Blocks(g, S \ {x})
             B == {x} \X (1 .. g[x])
  <1>1. Blocks(g, S) = A \cup B /\ A \cap B = {}
    BY DEF Blocks
  <1>2. IsFiniteSet({x}) /\ Cardinality({x}) = 1
    BY FS_Singleton
  <1>3. IsFiniteSet(1 .. g[x]) /\ Cardinality(1 .. g[x]) = g[x]
    BY FS_Interval
  <1>4. IsFiniteSet(B) /\ Cardinality(B) = 1 * g[x]
    <2> DEFINE I == 1 .. g[x]
    <2> HIDE DEF I
    <2>1. IsFiniteSet({x} \X I) /\ Cardinality({x} \X I) = Cardinality({x}) * Cardinality(I)
      BY <1>2, <1>3, FS_Product DEF I
    <2> QED
      BY <1>2, <1>3, <2>1 DEF I
  <1>5. IsFiniteSet(A) /\ Cardinality(A) \in Nat
    BY FS_CardinalityType
  <1> HIDE DEF A, B
  <1>6. IsFiniteSet(A \cup B) /\ Cardinality(A \cup B) = Cardinality(A) + Cardinality(B) - Cardinality({})
    BY <1>1, <1>4, <1>5, FS_Union
  <1>7. Cardinality(A \cup B) = g[x] + Cardinality(A)
    BY <1>4, <1>5, <1>6, FS_EmptySet
  <1> QED
    BY <1>1, <1>6, <1>7 DEF A

(* Finite sets by steps: what holds of {} and is kept by an element more    *)
(* holds of every subset.                                                   *)
LEMMA FiniteSteps ==
    ASSUME NEW S, IsFiniteSet(S), NEW F, {} \in F,
           \A T \in SUBSET S : \A x \in T : T \ {x} \in F => T \in F
    PROVE  SUBSET S \subseteq F
  <1> SUFFICES ASSUME NEW U \in SUBSET S, U \notin F PROVE FALSE
    OBVIOUS
  <1> DEFINE R == StrictSubsetOrdering(S)
             Bad == {T \in SUBSET S : T \notin F}
  <1>1. FiniteSubsetsOf(S) = SUBSET S /\ IsWellFoundedOn(R, FiniteSubsetsOf(S))
    BY FS_FiniteSubsetsOfFinite, FS_StrictSubsetOrderingWellFounded
  <1>2. Bad \subseteq FiniteSubsetsOf(S) /\ Bad # {}
    BY <1>1
  <1> HIDE DEF R, Bad
  <1>3. PICK T \in Bad : \A y \in Bad : ~(<<y, T>> \in R)
    BY <1>1, <1>2, WFMin
  <1>4. T \in SUBSET S /\ T \notin F /\ T # {}
    BY <1>3 DEF Bad
  <1>5. PICK x : x \in T
    BY <1>4
  <1>6. T \ {x} \notin F /\ T \ {x} \in SUBSET S
    BY <1>4, <1>5
  <1>7. T \ {x} \in Bad /\ <<T \ {x}, T>> \in R
    BY <1>4, <1>5, <1>6 DEF Bad, R, StrictSubsetOrdering
  <1> QED
    BY <1>3, <1>7

LEMMA BlocksFinite ==
    ASSUME NEW S, IsFiniteSet(S), NEW g, \A x \in S : g[x] \in Nat
    PROVE  \A T \in SUBSET S : IsFiniteSet(Blocks(g, T)) /\ Cardinality(Blocks(g, T)) \in Nat
  <1> DEFINE F == {T \in SUBSET S : IsFiniteSet(Blocks(g, T))}
  <1>1. {} \in F
    <2>1. Blocks(g, {}) = {}
      BY DEF Blocks
    <2> QED
      BY <2>1, FS_EmptySet
  <1>2. ASSUME NEW T \in SUBSET S, NEW x \in T, T \ {x} \in F PROVE T \in F
    BY <1>2, BlocksOne
  <1> HIDE DEF F
  <1>3. SUBSET S \subseteq F
    BY <1>1, <1>2, FiniteSteps
  <1> QED
    BY <1>3, FS_CardinalityType DEF F

LEMMA AddsIsSize ==
    ASSUME NEW S, IsFiniteSet(S), NEW g, \A x \in S : g[x] \in Nat, NEW it, Adds(it, g, S)
    PROVE  it[S] = Cardinality(Blocks(g, S))
  <1> DEFINE F == {T \in SUBSET S : it[T] = Cardinality(Blocks(g, T))}
             R == StrictSubsetOrdering(S)
             Bad == {T \in SUBSET S : T \notin F}
  <1>1. it[{}] = 0 /\ Cardinality(Blocks(g, {})) = 0
    <2>1. Blocks(g, {}) = {}
      BY DEF Blocks
    <2> QED
      BY <2>1, FS_EmptySet DEF Adds
  <1>2. ASSUME NEW T \in SUBSET S, T # {}, it[T \ {Anyone(T)}] = Cardinality(Blocks(g, T \ {Anyone(T)}))
        PROVE  it[T] = Cardinality(Blocks(g, T))
    <2>1. Anyone(T) \in T
      BY <1>2 DEF Anyone
    <2>2. it[T] = g[Anyone(T)] + it[T \ {Anyone(T)}]
      BY <1>2 DEF Adds
    <2>3. IsFiniteSet(Blocks(g, T \ {Anyone(T)}))
      BY BlocksFinite
    <2>5. g[Anyone(T)] \in Nat
      BY <2>1
    <2>4. Cardinality(Blocks(g, T)) = g[Anyone(T)] + Cardinality(Blocks(g, T \ {Anyone(T)}))
      BY <2>1, <2>3, <2>5, BlocksOne
    <2> QED
      BY <1>2, <2>2, <2>4
  <1>3. FiniteSubsetsOf(S) = SUBSET S /\ IsWellFoundedOn(R, FiniteSubsetsOf(S))
    BY FS_FiniteSubsetsOfFinite, FS_StrictSubsetOrderingWellFounded
  <1> SUFFICES ASSUME Bad # {} PROVE FALSE
    OBVIOUS
  <1>4. Bad \subseteq FiniteSubsetsOf(S)
    BY <1>3
  <1> HIDE DEF R, Bad
  <1>5. PICK T \in Bad : \A y \in Bad : ~(<<y, T>> \in R)
    BY <1>3, <1>4, WFMin
  <1>6. T \in SUBSET S /\ T # {} /\ it[T] # Cardinality(Blocks(g, T))
    BY <1>1, <1>5 DEF Bad
  <1>7. Anyone(T) \in T /\ T \ {Anyone(T)} \in SUBSET S
    BY <1>6 DEF Anyone
  <1>8. T \ {Anyone(T)} \in Bad
    BY <1>2, <1>6, <1>7 DEF Bad
  <1>9. <<T \ {Anyone(T)}, T>> \in R
    BY <1>6, <1>7 DEF R, StrictSubsetOrdering
  <1> QED
    BY <1>5, <1>8, <1>9

LEMMA SumIsSize ==
    ASSUME NEW S, IsFiniteSet(S), NEW g, \A x \in S : g[x] \in Nat
    PROVE  MapThenSumSet(LAMBDA x : g[x], S) = Cardinality(Blocks(g, S))
  <1> DEFINE sizes == [s \in SUBSET S |-> Cardinality(Blocks(g, s))]
             it == CHOOSE it : it = [s \in SUBSET S |->
                      IF s = {} THEN 0 ELSE g[CHOOSE x \in s : TRUE] + it[s \ {CHOOSE x \in s : TRUE}]]
  <1>1. Adds(sizes, g, S)
    <2>1. ASSUME NEW s \in SUBSET S
          PROVE  Cardinality(Blocks(g, s)) =
                    IF s = {} THEN 0 ELSE g[Anyone(s)] + sizes[s \ {Anyone(s)}]
      <3>1. CASE s = {}
        <4>1. Blocks(g, {}) = {}
          BY DEF Blocks
        <4> QED
          BY <3>1, <4>1, FS_EmptySet
      <3>2. CASE s # {}
        <4>1. Anyone(s) \in s
          BY <3>2 DEF Anyone
        <4>2. IsFiniteSet(Blocks(g, s \ {Anyone(s)}))
          BY BlocksFinite
        <4>3. g[Anyone(s)] \in Nat /\ s \ {Anyone(s)} \in SUBSET S
          BY <4>1
        <4>4. Cardinality(Blocks(g, s)) = g[Anyone(s)] + Cardinality(Blocks(g, s \ {Anyone(s)}))
          BY <4>1, <4>2, <4>3, BlocksOne
        <4> QED
          BY <3>2, <4>3, <4>4
      <3> QED
        BY <3>1, <3>2
    <2> QED
      BY <2>1 DEF Adds
  <1>2. sizes = [s \in SUBSET S |->
                    IF s = {} THEN 0 ELSE g[CHOOSE x \in s : TRUE] + sizes[s \ {CHOOSE x \in s : TRUE}]]
    BY <1>1 DEF Adds, Anyone
  <1> HIDE DEF sizes
  <1>3. it = [s \in SUBSET S |->
                 IF s = {} THEN 0 ELSE g[CHOOSE x \in s : TRUE] + it[s \ {CHOOSE x \in s : TRUE}]]
    BY <1>2
  <1>4. MapThenSumSet(LAMBDA x : g[x], S) = it[S]
    BY DEF MapThenSumSet, MapThenFoldSet
  <1> HIDE DEF it
  <1>5. Adds(it, g, S)
    BY <1>3 DEF Adds, Anyone
  <1> QED
    BY <1>4, <1>5, AddsIsSize

-----------------------------------------------------------------------------
(* What the task has added up is what the sources before the one in work    *)
(* count, and they are completed.                                           *)
Below(d) == {c \in Datasets : c < d}
TalliedOf(s, d) == Cardinality(Blocks([c \in Datasets |-> s[c].count], Below(d)))
CompletedBelow(s, d) == \A c \in Below(d) : s[c].status = "COMPLETED"
TheEnd == Len(Dataset) + 1

Tally ==
    /\ load.pc # "off" =>
        /\ load.d \in Datasets
        /\ CompletedBelow(source, load.d) /\ load.total = TalliedOf(source, load.d)
    /\ job.end = "done" =>
        CompletedBelow(source, TheEnd) /\ job.registered = TalliedOf(source, TheEnd)

LEMMA DatasetsAre ==
    /\ Datasets = 1 .. Len(Dataset) /\ Len(Dataset) \in Nat /\ 1 \in Datasets
    /\ IsFiniteSet(Datasets) /\ Below(1) = {} /\ Below(TheEnd) = Datasets
    /\ \A d \in Datasets : Below(d + 1) = Below(d) \cup {d}
  <1>1. Datasets = 1 .. Len(Dataset) /\ Len(Dataset) \in Nat /\ Dataset # <<>>
    BY LoadAssumption, LenProperties DEF Datasets
  <1>2. Len(Dataset) # 0
    BY <1>1, LoadAssumption, EmptySeq
  <1>3. IsFiniteSet(Datasets)
    BY <1>1, FS_Interval
  <1> QED
    BY <1>1, <1>2, <1>3 DEF Below, TheEnd

(* Only the sources below d matter.                                         *)
LEMMA TallyReads ==
    ASSUME NEW s, NEW t, NEW d, \A c \in Below(d) : t[c] = s[c]
    PROVE  TalliedOf(t, d) = TalliedOf(s, d) /\ (CompletedBelow(s, d) => CompletedBelow(t, d))
  <1>1. Blocks([c \in Datasets |-> t[c].count], Below(d)) = Blocks([c \in Datasets |-> s[c].count], Below(d))
    BY DEF Blocks, Below
  <1> QED
    BY <1>1 DEF TalliedOf, CompletedBelow

LEMMA TallyOne ==
    ASSUME NEW s \in Sources, NEW d \in Datasets
    PROVE  TalliedOf(s, d + 1) = TalliedOf(s, d) + s[d].count
  <1> DEFINE g == [c \in Datasets |-> s[c].count]
  <1>1. \A c \in Datasets : g[c] = s[c].count /\ g[c] \in Nat
    BY DEF Sources
  <1>2. Below(d + 1) \ {d} = Below(d) /\ d \in Below(d + 1) /\ Below(d) \in SUBSET Datasets
    BY DatasetsAre DEF Below
  <1> HIDE DEF g
  <1>3. IsFiniteSet(Blocks(g, Below(d))) /\ Cardinality(Blocks(g, Below(d))) \in Nat
    BY <1>1, <1>2, DatasetsAre, BlocksFinite
  <1>4. Cardinality(Blocks(g, Below(d + 1))) = g[d] + Cardinality(Blocks(g, Below(d)))
    <2>1. g[d] \in Nat /\ IsFiniteSet(Blocks(g, Below(d + 1) \ {d})) /\ d \in Below(d + 1)
      BY <1>1, <1>2, <1>3
    <2>2. Cardinality(Blocks(g, Below(d + 1))) = g[d] + Cardinality(Blocks(g, Below(d + 1) \ {d}))
      BY <2>1, BlocksOne
    <2> QED
      BY <1>2, <2>2
  <1> QED
    BY <1>1, <1>3, <1>4 DEF TalliedOf, g

LEMMA TallyNone == ASSUME NEW s PROVE TalliedOf(s, 1) = 0 /\ CompletedBelow(s, 1)
  <1>1. Blocks([c \in Datasets |-> s[c].count], Below(1)) = {}
    BY DatasetsAre DEF Blocks
  <1> QED
    BY <1>1, DatasetsAre, FS_EmptySet DEF TalliedOf, CompletedBelow

(* The registry, seen from the sums.                                        *)
LEMMA PushKeeps ==
    ASSUME NEW G, NEW j \in JobOf(G), NEW type, Push(j, type)
    PROVE  job'.end = j.end /\ job'.registered = j.registered
  BY DEF Push, JobOf

LEMMA NotDone ==
    ASSUME IInv, load.pc # "off", Quiet \/ (\E n : SetTotal(n)) \/ FileDone \/ FailJob
    PROVE  job'.end # "done"
  <1>1. job.end = "none"
    BY DEF IInv, Once
  <1>2. CASE FailJob
    <2>1. PICK G : job \in JobOf(G)
      BY DEF IInv, Shape
    <2> DEFINE j == [job EXCEPT !.end = "error"]
    <2>2. j \in JobOf(G) /\ j.end = "error" /\ Push(j, "error")
      BY <1>2, <2>1 DEF JobOf, FailJob
    <2> HIDE DEF j
    <2> QED
      BY <2>2, PushKeeps
  <1> QED
    BY <1>1, <1>2, RegistryStep

LEMMA Finishes ==
    ASSUME IInv, NEW n, FinishJob(n) PROVE job'.end = "done" /\ job'.registered = n
  <1>1. PICK G : job \in JobOf(G)
    BY DEF IInv, Shape
  <1> DEFINE j == [job EXCEPT !.end = "done", !.registered = n]
  <1>2. j \in JobOf(G \cup {n}) /\ j.end = "done" /\ j.registered = n /\ Push(j, "done")
    BY <1>1 DEF JobOf, FinishJob
  <1> HIDE DEF j
  <1> QED
    BY <1>2, PushKeeps

-----------------------------------------------------------------------------
(* The task stays with the dataset in work, or stops there.                 *)
LEMMA TallyKeeps ==
    ASSUME IInv, Tally, load.pc # "off", load'.d = load.d, load'.total = load.total,
           \A c \in Datasets : c # load.d => source'[c] = source[c],
           job'.end # "done"
    PROVE  Tally'
  <1>1. \A c \in Below(load.d) : source'[c] = source[c]
    BY DatasetsAre DEF Below
  <1>2. TalliedOf(source', load.d) = TalliedOf(source, load.d) /\ CompletedBelow(source', load.d)
    BY <1>1, TallyReads DEF Tally
  <1> QED
    BY <1>2 DEF Tally, TalliedOf, CompletedBelow

LEMMA TaskStays ==
    ASSUME load \in Loads,
           \/ CreateSource \/ CreateSourceFails \/ Fetch \/ FetchFails \/ Upload \/ UploadFails
           \/ PublishFile \/ PublishFileFails \/ CompleteFails \/ Fail
    PROVE  load'.d = load.d /\ load'.total = load.total
  <1>1. CASE PublishFile \/ PublishFileFails \/ UploadFails
    <2>1. PICK l \in {load, [load EXCEPT !.published = @ + 1]} : load' = NextFile(l)
      BY <1>1 DEF PublishFile, PublishFileFails, UploadFails, Skipped
    <2>2. l \in Loads /\ l.d = load.d /\ l.total = load.total
      BY <2>1 DEF Loads
    <2>3. PICK pc, i : load' = [l EXCEPT !.pc = pc, !.i = i]
      BY <2>1 DEF NextFile
    <2> QED
      BY <2>2, <2>3 DEF Loads
  <1>2. CASE \E pc, n : load' \in {[load EXCEPT !.pc = pc], [load EXCEPT !.pc = pc, !.published = n],
                                 [load EXCEPT !.pc = pc, !.i = n]}
    <2>1. PICK pc, n : load' \in {[load EXCEPT !.pc = pc], [load EXCEPT !.pc = pc, !.published = n],
                                 [load EXCEPT !.pc = pc, !.i = n]}
      BY <1>2
    <2>2. \/ load' = [load EXCEPT !.pc = pc]
          \/ load' = [load EXCEPT !.pc = pc, !.published = n]
          \/ load' = [load EXCEPT !.pc = pc, !.i = n]
      BY <2>1
    <2> QED
      BY <2>2 DEF Loads
  <1>3. CASE \/ CreateSource \/ CreateSourceFails \/ Fetch \/ FetchFails \/ Upload
             \/ CompleteFails \/ Fail
    <2>1. \E pc, n : load' \in {[load EXCEPT !.pc = pc], [load EXCEPT !.pc = pc, !.published = n],
                               [load EXCEPT !.pc = pc, !.i = n]}
      BY <1>3 DEF CreateSource, CreateSourceFails, Fetch, FetchFails, Upload, CompleteFails, Fail
    <2> QED
      BY <1>2, <2>1
  <1> QED
    BY <1>1, <1>3

LEMMA TallyTask ==
    ASSUME IInv, Tally,
           \/ CreateSource \/ CreateSourceFails \/ Fetch \/ FetchFails \/ Upload \/ UploadFails
           \/ PublishFile \/ PublishFileFails \/ CompleteFails \/ Fail
    PROVE  Tally'
  <1>1. load \in Loads /\ source \in Sources
    BY DEF IInv, Shape
  <1>2. load.pc # "off"
    BY DEF CreateSource, CreateSourceFails, Fetch, FetchFails, Upload, UploadFails, PublishFile,
       PublishFileFails, CompleteFails, Fail, Busy
  <1>3. load'.d = load.d /\ load'.total = load.total
    BY <1>1, TaskStays
  <1>4. \A c \in Datasets : c # load.d => source'[c] = source[c]
    BY <1>1 DEF CreateSource, CreateSourceFails, Fetch, FetchFails, Upload, UploadFails,
       PublishFile, PublishFileFails, CompleteFails, Fail, FailSource, Sources
  <1>5. Quiet \/ (\E n : SetTotal(n)) \/ FileDone \/ FailJob
    BY DEF CreateSource, CreateSourceFails, Fetch, FetchFails, Upload, UploadFails, PublishFile,
       PublishFileFails, CompleteFails, Fail, Quiet
  <1>6. job'.end # "done"
    BY <1>2, <1>5, NotDone
  <1> QED
    BY <1>2, <1>3, <1>4, <1>6, TallyKeeps

LEMMA TallyComplete == ASSUME IInv, Tally, Complete PROVE Tally'
  <1>1. /\ load.pc = "complete" /\ load' = NextDataset
        /\ source' = [source EXCEPT ![load.d] = [status |-> "COMPLETED", count |-> load.published]]
        /\ IF load'.pc = "off" THEN FinishJob(load'.total) ELSE UNCHANGED <<job, reader>>
    BY DEF Complete, Busy
  <1>2. load \in Loads /\ source \in Sources /\ load.d \in Datasets /\ job.end = "none"
    BY <1>1 DEF IInv, Shape, Tally, Once
  <1>3. /\ source' \in Sources /\ source'[load.d].status = "COMPLETED"
        /\ source'[load.d].count = load.published
        /\ \A c \in Datasets : c # load.d => source'[c] = source[c]
    BY <1>1, <1>2 DEF Sources, Statuses, Loads
  <1>4. /\ TalliedOf(source', load.d) = load.total /\ CompletedBelow(source', load.d)
    <2>1. \A c \in Below(load.d) : source'[c] = source[c]
      BY <1>2, <1>3, DatasetsAre DEF Below
    <2>2. load.total = TalliedOf(source, load.d) /\ CompletedBelow(source, load.d)
      BY <1>1 DEF Tally
    <2>3. /\ TalliedOf(source', load.d) = TalliedOf(source, load.d)
          /\ CompletedBelow(source, load.d) => CompletedBelow(source', load.d)
      BY <2>1, TallyReads
    <2> QED
      BY <2>2, <2>3
  <1>5. TalliedOf(source', load.d + 1) = load.total + load.published
    BY <1>2, <1>3, <1>4, TallyOne
  <1>6. CompletedBelow(source', load.d + 1)
    BY <1>2, <1>3, <1>4, DatasetsAre DEF CompletedBelow
  <1>7. load.total + load.published \in Nat /\ load.d + 1 \in Nat
    BY <1>2, DatasetsAre DEF Loads
  <1>8. CASE load.d < Len(Dataset)
    <2>1. load' = [pc |-> "source", d |-> load.d + 1, i |-> load.i, published |-> load.published,
                   total |-> load.total + load.published]
      BY <1>1, <1>2, <1>8 DEF NextDataset, Loads
    <2>2. /\ load'.pc = "source" /\ load'.d = load.d + 1
          /\ load'.total = load.total + load.published
      BY <2>1
    <2>3. load.d + 1 \in Datasets
      BY <1>2, <1>8, DatasetsAre
    <2>4. job'.end = "none"
      BY <1>1, <1>2, <2>2
    <2> QED
      BY <1>5, <1>6, <2>2, <2>3, <2>4 DEF Tally, TalliedOf, CompletedBelow
  <1>9. CASE ~(load.d < Len(Dataset))
    <2>1. load' = [pc |-> "off", d |-> load.d, i |-> load.i, published |-> load.published,
                   total |-> load.total + load.published]
      BY <1>1, <1>2, <1>9 DEF NextDataset, Loads
    <2>2. load'.pc = "off" /\ load'.total = load.total + load.published
      BY <2>1
    <2>3. load.d + 1 = TheEnd
      BY <1>2, <1>9, DatasetsAre DEF TheEnd
    <2>4. FinishJob(load.total + load.published)
      BY <1>1, <2>2
    <2>5. job'.end = "done" /\ job'.registered = load.total + load.published
      BY <2>4, Finishes
    <2> QED
      BY <1>5, <1>6, <2>2, <2>3, <2>5 DEF Tally, TalliedOf, CompletedBelow
  <1> QED
    BY <1>8, <1>9

LEMMA TallyRest ==
    ASSUME IInv, Tally,
           \/ Start \/ Evict \/ Restart
           \/ \E r \in Readers : Subscribe(r) \/ Streaming(r) \/ Disconnect(r)
           \/ UNCHANGED vars
    PROVE  Tally'
  <1>1. CASE Start
    <2>1. /\ load' = [NoLoad EXCEPT !.pc = "source"] /\ job' = [NoJob EXCEPT !.known = TRUE]
          /\ UNCHANGED source
      BY <1>1 DEF Start, Create
    <2>2. load'.d = 1 /\ load'.total = 0 /\ job'.end = "none"
      BY <2>1 DEF NoLoad, NoJob
    <2> QED
      BY <2>1, <2>2, DatasetsAre, TallyNone DEF Tally
  <1>2. CASE Evict
    <2>1. PICK G : job \in JobOf(G)
      BY DEF IInv, Shape
    <2>2. job'.end = job.end /\ job'.registered = job.registered /\ UNCHANGED <<load, source>>
      BY <1>2, <2>1 DEF Evict, JobOf
    <2> QED
      BY <2>2 DEF Tally, TalliedOf, CompletedBelow
  <1>3. CASE Restart
    <2>1. load'.pc = "off" /\ job'.end = "error"
      BY <1>3 DEF Restart, NoLoad, NoJob
    <2> QED
      BY <2>1 DEF Tally
  <1>4. CASE (\E r \in Readers : Subscribe(r) \/ Streaming(r) \/ Disconnect(r)) \/ UNCHANGED vars
    <2>1. UNCHANGED <<load, source, job>>
      BY <1>4 DEF Subscribe, Streaming, Yield, Settle, Wake, Disconnect, vars
    <2> QED
      BY <2>1 DEF Tally, TalliedOf, CompletedBelow
  <1> QED
    BY <1>1, <1>2, <1>3, <1>4

(* A job that reports "done" has completed every source of the request and  *)
(* registered the sum of what they count.                                   *)
THEOREM DoneIsWhole == Spec => []DoneMeansLoaded
  <1>1. Init => Tally
    BY Rest DEF Init, Tally
  <1>2. IInv /\ Tally /\ [Next]_vars => Tally'
    BY TallyTask, TallyComplete, TallyRest DEF Next, Loading
  <1>3. IInv /\ Tally => DoneMeansLoaded
    <2> SUFFICES ASSUME IInv, Tally, job.end = "done" PROVE DoneMeansLoaded
      BY DEF DoneMeansLoaded
    <2> DEFINE g == [d \in Datasets |-> source[d].count]
    <2>1. \A d \in Datasets : g[d] = source[d].count /\ g[d] \in Nat
      BY DEF IInv, Shape, Sources
    <2>2. job.registered = Cardinality(Blocks(g, Datasets)) /\ CompletedBelow(source, TheEnd)
      BY DatasetsAre DEF Tally, TalliedOf
    <2>3. MapThenSumSet(LAMBDA d : source[d].count, Datasets) = MapThenSumSet(LAMBDA d : g[d], Datasets)
      BY <2>1 DEF MapThenSumSet, MapThenFoldSet
    <2> HIDE DEF g
    <2>4. MapThenSumSet(LAMBDA d : g[d], Datasets) = Cardinality(Blocks(g, Datasets))
      BY <2>1, DatasetsAre, SumIsSize
    <2> QED
      BY <2>2, <2>3, <2>4, DatasetsAre DEF DoneMeansLoaded, CompletedBelow
  <1> QED
    BY <1>1, <1>2, <1>3, Invariance, PTL DEF Spec

-----------------------------------------------------------------------------
(* Numbers by steps: what holds of 0 and is kept by one more holds of all.  *)
LEMMA NumberSteps ==
    ASSUME NEW n \in Nat, NEW F, 0 \in F, \A k \in 0 .. n : k # n /\ k \in F => k + 1 \in F
    PROVE  \A k \in 0 .. n : k \in F
  <1> DEFINE R == OpToRel(<, Nat)
             Bad == {k \in Nat : k <= n /\ k \notin F}
  <1>1. \A x, y \in Nat : x < y => <<x, y>> \in R
    BY DEF OpToRel
  <1>2. IsWellFoundedOn(R, Nat)
    BY NatLessThanWellFounded
  <1> HIDE DEF R
  <1> SUFFICES ASSUME Bad # {} PROVE FALSE
    OBVIOUS
  <1>3. PICK k \in Bad : \A j \in Bad : ~(<<j, k>> \in R)
    <2>1. Bad \subseteq Nat
      OBVIOUS
    <2> HIDE DEF Bad
    <2> QED
      BY <1>2, <2>1, WFMin
  <1>4. k \in Nat /\ k <= n /\ k # 0 /\ k \notin F
    BY <1>3
  <1>5. k - 1 \in 0 .. n /\ k - 1 # n /\ (k - 1) + 1 = k
    BY <1>4
  <1>6. k - 1 \notin F
    BY <1>4, <1>5
  <1>7. k - 1 \in Bad /\ <<k - 1, k>> \in R
    BY <1>1, <1>4, <1>5, <1>6
  <1> QED
    BY <1>3, <1>7

(* A fold from left to right.  Iterates(it, ...) is what its recursive      *)
(* function is defined by.                                                  *)
HasMax(s) == \E x \in s : \A y \in s : x >= y

LEMMA MaxOf ==
    ASSUME NEW n \in Nat, NEW s \in SUBSET (1 .. n), s # {}
    PROVE  /\ Max(s) \in s /\ \A y \in s : Max(s) >= y
           /\ \A x \in s : (\A y \in s : x >= y) => Max(s) = x
  <1> DEFINE F == {k \in Nat : \A t \in SUBSET (1 .. k) : t # {} => HasMax(t)}
  <1>1. 0 \in F
    <2>1. \A t \in SUBSET (1 .. 0) : t = {}
      OBVIOUS
    <2> QED
      BY <2>1
  <1>2. ASSUME NEW k \in 0 .. n, k # n, k \in F PROVE k + 1 \in F
    <2> SUFFICES ASSUME NEW t \in SUBSET (1 .. k + 1), t # {} PROVE HasMax(t)
      BY <1>2
    <2>1. CASE k + 1 \in t
      BY <2>1 DEF HasMax
    <2>2. CASE k + 1 \notin t
      <3>1. t \in SUBSET (1 .. k)
        BY <2>2
      <3> QED
        BY <1>2, <3>1
    <2> QED
      BY <2>1, <2>2
  <1> HIDE DEF F
  <1>3. n \in F
    BY <1>1, <1>2, NumberSteps
  <1>4. HasMax(s)
    BY <1>3 DEF F
  <1>5. Max(s) \in s /\ \A y \in s : Max(s) >= y
    BY <1>4 DEF HasMax, Max
  <1>6. ASSUME NEW x \in s, \A y \in s : x >= y PROVE Max(s) = x
    <2>1. PICK m : m = Max(s)
      OBVIOUS
    <2>2. m \in s /\ m >= x /\ x >= m
      BY <1>5, <1>6, <2>1
    <2>3. m \in Nat /\ x \in Nat
      BY <2>2
    <2> QED
      BY <2>1, <2>2, <2>3
  <1> QED
    BY <1>5, <1>6

Iterates(it, h, base, n) ==
    it = [s \in SUBSET (1 .. n) |-> IF s = {} THEN base ELSE h[it[s \ {Max(s)}]][Max(s)]]

(* Such a function is there, and stays in any set closed under the step.    *)
LEMMA IterateExists ==
    ASSUME NEW n \in Nat, NEW G, NEW base \in G, NEW h \in [G -> [1 .. n -> G]]
    PROVE  \E it \in [SUBSET (1 .. n) -> G] : Iterates(it, h, base, n)
  <1> DEFINE F == {k \in 0 .. n : \E it \in [SUBSET (1 .. k) -> G] : Iterates(it, h, base, k)}
  <1>1. 0 \in F
    <2> DEFINE it == [s \in SUBSET (1 .. 0) |-> base]
    <2>1. \A s \in SUBSET (1 .. 0) : s = {}
      OBVIOUS
    <2>2. it \in [SUBSET (1 .. 0) -> G] /\ Iterates(it, h, base, 0)
      BY <2>1 DEF Iterates
    <2> QED
      BY <2>2
  <1>2. ASSUME NEW k \in 0 .. n, k # n, k \in F PROVE k + 1 \in F
    <2>1. PICK it \in [SUBSET (1 .. k) -> G] : Iterates(it, h, base, k)
      BY <1>2
    <2> DEFINE next == [s \in SUBSET (1 .. k + 1) |->
                           IF k + 1 \in s THEN h[it[s \ {k + 1}]][k + 1] ELSE it[s]]
    <2>2. k \in Nat /\ k + 1 \in 1 .. n /\ k + 1 \in Nat
      BY <1>2
    <2>3. \A s \in SUBSET (1 .. k + 1) : s \ {k + 1} \in SUBSET (1 .. k)
      BY <2>2
    <2>4. ASSUME NEW s \in SUBSET (1 .. k + 1)
          PROVE  /\ next[s] \in G
                 /\ next[s] = IF s = {} THEN base ELSE h[next[s \ {Max(s)}]][Max(s)]
      <3>1. CASE k + 1 \in s
        <4>1. Max(s) = k + 1
          <5>1. k + 1 \in s /\ \A y \in s : k + 1 >= y
            BY <2>2, <3>1
          <5> QED
            BY <2>2, <5>1, MaxOf
        <4>2. s \ {k + 1} \in SUBSET (1 .. k) /\ k + 1 \notin s \ {k + 1}
              /\ s \ {k + 1} \in SUBSET (1 .. k + 1)
          BY <2>3
        <4>3. next[s \ {k + 1}] = it[s \ {k + 1}] /\ next[s] = h[it[s \ {k + 1}]][k + 1]
          BY <3>1, <4>2
        <4>4. it[s \ {k + 1}] \in G
          BY <4>2
        <4>5. h[it[s \ {k + 1}]][k + 1] \in G
          BY <2>2, <4>4
        <4> HIDE DEF next
        <4>6. next[s] = h[next[s \ {Max(s)}]][Max(s)] /\ s # {}
          BY <3>1, <4>1, <4>3
        <4> QED
          BY <4>3, <4>5, <4>6
      <3>2. CASE k + 1 \notin s
        <4>1. s \in SUBSET (1 .. k) /\ s \ {Max(s)} \in SUBSET (1 .. k)
              /\ s \ {Max(s)} \in SUBSET (1 .. k + 1) /\ k + 1 \notin s \ {Max(s)}
          BY <3>2, <2>3
        <4>2. next[s] = it[s] /\ next[s \ {Max(s)}] = it[s \ {Max(s)}]
          BY <3>2, <4>1
        <4>3. it[s] = IF s = {} THEN base ELSE h[it[s \ {Max(s)}]][Max(s)]
          BY <2>1, <4>1 DEF Iterates
        <4> HIDE DEF next
        <4> QED
          BY <4>1, <4>2, <4>3
      <3> QED
        BY <3>1, <3>2
    <2>5. next \in [SUBSET (1 .. k + 1) -> G]
      BY <2>4
    <2>6. Iterates(next, h, base, k + 1)
      BY <2>4 DEF Iterates
    <2> HIDE DEF next
    <2> QED
      BY <2>2, <2>5, <2>6
  <1> HIDE DEF F
  <1>3. \A k \in 0 .. n : k \in F
    BY <1>1, <1>2, NumberSteps
  <1>4. n \in F
    BY <1>3
  <1> QED
    BY <1>4 DEF F

LEMMA UpTo ==
    ASSUME NEW n \in Nat, NEW k \in 0 .. n, k # n
    PROVE  /\ 1 .. k + 1 \in SUBSET (1 .. n) /\ 1 .. k + 1 # {} /\ k + 1 \in 1 .. n
           /\ Max(1 .. k + 1) = k + 1 /\ (1 .. k + 1) \ {k + 1} = 1 .. k
  <1>1. /\ 1 .. k + 1 \in SUBSET (1 .. n) /\ 1 .. k + 1 # {} /\ k + 1 \in 1 .. n
        /\ (1 .. k + 1) \ {k + 1} = 1 .. k
    OBVIOUS
  <1>2. k + 1 \in 1 .. k + 1 /\ \A y \in 1 .. k + 1 : k + 1 >= y
    OBVIOUS
  <1>3. Max(1 .. k + 1) = k + 1
    BY <1>1, <1>2, MaxOf
  <1> QED
    BY <1>1, <1>3

(* What a fold yields is in any set its steps stay in.                      *)
LEMMA FoldStays ==
    ASSUME NEW n \in Nat, NEW G, NEW it, it[{}] \in G,
           \A s \in SUBSET (1 .. n) : s # {} /\ it[s \ {Max(s)}] \in G => it[s] \in G
    PROVE  it[1 .. n] \in G
  <1> DEFINE F == {k \in 0 .. n : it[1 .. k] \in G}
  <1>1. 0 \in F
    <2>1. 1 .. 0 = {}
      OBVIOUS
    <2> QED
      BY <2>1
  <1>2. ASSUME NEW k \in 0 .. n, k # n, k \in F PROVE k + 1 \in F
    <2>1. it[1 .. k + 1] \in G
      BY <1>2, UpTo
    <2> QED
      BY <1>2, <2>1
  <1> HIDE DEF F
  <1>3. \A k \in 0 .. n : k \in F
    BY <1>1, <1>2, NumberSteps
  <1>4. n \in F
    BY <1>3
  <1> QED
    BY <1>4 DEF F

(* The values a fold takes on its way, as a function of how far it has come. *)
Stops(it, n) == [k \in 0 .. n |-> it[1 .. k]]
Reaches(st, h, base, n) ==
    st[0] = base /\ \A k \in 0 .. n : k # n => st[k + 1] = h[st[k]][k + 1]

Follows(it, h, base, n, G) ==
    /\ it[{}] = base
    /\ \A s \in SUBSET (1 .. n) : s # {} /\ it[s \ {Max(s)}] \in G => it[s] = h[it[s \ {Max(s)}]][Max(s)]

LEMMA StatesOf ==
    ASSUME NEW n \in Nat, NEW G, NEW base \in G, NEW h \in [G -> [1 .. n -> G]], NEW it,
           Follows(it, h, base, n, G)
    PROVE  Stops(it, n) \in [0 .. n -> G] /\ Reaches(Stops(it, n), h, base, n)
  <1> DEFINE st == [k \in 0 .. n |-> it[1 .. k]]
             F == {k \in 0 .. n : it[1 .. k] \in G}
  <1>1. 1 .. 0 = {} /\ it[{}] = base
    BY DEF Follows
  <1>2. ASSUME NEW k \in 0 .. n, k # n, it[1 .. k] \in G
        PROVE  it[1 .. k + 1] = h[it[1 .. k]][k + 1] /\ it[1 .. k + 1] \in G
    <2>1. it[1 .. k + 1] = h[it[1 .. k]][k + 1] /\ k + 1 \in 1 .. n
      BY <1>2, UpTo DEF Follows
    <2> QED
      BY <1>2, <2>1
  <1>3. \A k \in 0 .. n : k \in F
    <2>1. 0 \in F
      BY <1>1
    <2>2. \A k \in 0 .. n : k # n /\ k \in F => k + 1 \in F
      BY <1>2
    <2> HIDE DEF F
    <2> QED
      BY <2>1, <2>2, NumberSteps
  <1>4. st \in [0 .. n -> G]
    BY <1>3
  <1>5. st[0] = base /\ st[n] = it[1 .. n]
    BY <1>1
  <1>6. \A k \in 0 .. n : k # n => st[k + 1] = h[st[k]][k + 1]
    BY <1>2, <1>3
  <1> QED
    BY <1>4, <1>5, <1>6 DEF Reaches, Stops

-----------------------------------------------------------------------------
(* Which files a dataset gives.  First the states the folds go through,     *)
(* then what these keep, strategy by strategy.                              *)
LEMMA RowsAre ==
    ASSUME NEW rows, rows \in Seq(Range(rows))
    PROVE  /\ Len(rows) \in Nat /\ DOMAIN rows = 1 .. Len(rows) /\ DOMAIN Rows(rows) = 1 .. Len(rows)
           /\ \A i \in 1 .. Len(rows) : Rows(rows)[i] = i /\ <<i>> \in Seq(Nat)
  BY LenProperties DEF Rows

(* What the steps of the folds stay in.                                     *)
Uses(titles) == [seen : SUBSET titles, out : Seq(Seq(Nat))]
Asking(n) == [asked : 0 .. n, out : Seq(Seq(Nat))]

LEMMA OneFile == \A i \in Nat : <<i>> \in Seq(Nat)
  OBVIOUS

LEMMA RangeOf ==
    ASSUME NEW rows, rows \in Seq(Range(rows))
    PROVE  \A i \in 1 .. Len(rows) : rows[i] \in Range(rows)
  BY RowsAre DEF Range

LEMMA ScanIs ==
    ASSUME NEW rows, NEW n, NEW out \in Seq(Seq(Nat)), NEW i \in Nat
    PROVE  Scan(rows, n, out, i) \in Seq(Seq(Nat))
  BY OneFile DEF Scan

LEMMA NextTitleIs ==
    ASSUME NEW T, NEW titles \in Seq(T), NEW row, row.title \in T
    PROVE  NextTitle(titles, row) \in Seq(T)
  BY DEF NextTitle

LEMMA UsedIs ==
    ASSUME NEW rows, NEW T, NEW acc \in Uses(T), NEW i \in Nat
    PROVE  Used(rows, T, acc, i) \in Uses(T)
  <1>1. Append(acc.out, <<i>>) \in Seq(Seq(Nat))
    BY OneFile DEF Uses
  <1> DEFINE more == IF rows[i].size >= MinLength THEN Append(acc.out, <<i>>) ELSE acc.out
  <1>2. more \in Seq(Seq(Nat))
    BY <1>1 DEF Uses
  <1>3. Used(rows, T, acc, i) = IF rows[i].title \notin T \ acc.seen THEN acc
                               ELSE [seen |-> acc.seen \cup {rows[i].title}, out |-> more]
    BY DEF Used
  <1> HIDE DEF more
  <1> QED
    BY <1>2, <1>3 DEF Uses

LEMMA UseBase == ASSUME NEW T PROVE [seen |-> {}, out |-> <<>>] \in Uses(T)
  BY DEF Uses

LEMMA TurnIs ==
    ASSUME NEW messages, NEW n \in Nat, NEW i \in Nat, NEW m \in Nat, NEW acc \in Asking(m), NEW j \in 1 .. m
    PROVE  Turn(acc, messages, n, i, j) \in Asking(m)
  <1>1. <<i, acc.asked, j>> \in Seq(Nat) /\ acc.out \in Seq(Seq(Nat)) /\ acc.asked \in 0 .. m
    BY DEF Asking
  <1> DEFINE more == IF /\ PairSize(messages[acc.asked].size, messages[j].size) >= MinLength
                        /\ Len(acc.out) < n
                     THEN Append(acc.out, <<i, acc.asked, j>>) ELSE acc.out
  <1>2. more \in Seq(Seq(Nat))
    BY <1>1
  <1>3. Turn(acc, messages, n, i, j) \in {[acc EXCEPT !.asked = j], [asked |-> 0, out |-> more], acc}
    BY DEF Turn
  <1>4. [acc EXCEPT !.asked = j] = [asked |-> j, out |-> acc.out]
    BY DEF Asking
  <1>5. j \in 0 .. m
    OBVIOUS
  <1>6. {[asked |-> j, out |-> acc.out], [asked |-> 0, out |-> more]} \subseteq Asking(m)
    <2> HIDE DEF more
    <2> QED
      BY <1>1, <1>2, <1>5 DEF Asking
  <1> HIDE DEF more
  <1> QED
    BY <1>3, <1>4, <1>6

LEMMA TurnBase ==
    ASSUME NEW m \in Nat, NEW out \in Seq(Seq(Nat))
    PROVE  [asked |-> 0, out |-> out] \in Asking(m)
  BY DEF Asking

LEMMA ScanStates ==
    ASSUME NEW rows, rows \in Seq(Range(rows)), NEW n \in Nat
    PROVE  \E st \in [0 .. Len(rows) -> Seq(Seq(Nat))] :
              /\ st[0] = <<>>
              /\ Scanned(rows, n) = st[Len(rows)]
              /\ \A k \in 0 .. Len(rows) : k # Len(rows) => st[k + 1] = Scan(rows, n, st[k], k + 1)
  <1> DEFINE N == Len(rows)
             G == Seq(Seq(Nat))
             base == <<>>
             step(acc, c) == Scan(rows, n, acc, c)
             h == [acc \in G |-> [i \in 1 .. N |-> step(acc, Rows(rows)[i])]]
             it == CHOOSE it : it = [s \in SUBSET DOMAIN Rows(rows) |->
                      IF s = {} THEN base ELSE step(it[s \ {Max(s)}], Rows(rows)[Max(s)])]
  <1>1. N \in Nat /\ DOMAIN Rows(rows) = 1 .. N
    BY RowsAre
  <1>2. Len(rows) = N
    OBVIOUS
  <1>3. \A i \in 1 .. N : Rows(rows)[i] = i
    BY RowsAre
  <1>4. Scanned(rows, n) = it[DOMAIN Rows(rows)]
    BY DEF Scanned, FoldLeft, MapThenFoldSet
  <1>5. base \in G /\ \A acc \in G : \A i \in 1 .. N : step(acc, Rows(rows)[i]) \in G
    BY <1>1, <1>3, OneFile, ScanIs
  <1> HIDE DEF step, N, G, base
  <1>6. h \in [G -> [1 .. N -> G]] /\ \A acc \in G : \A i \in 1 .. N : h[acc][i] = step(acc, Rows(rows)[i])
    BY <1>5
  <1> HIDE DEF h
  <1>7. it = [s \in SUBSET DOMAIN Rows(rows) |->
                 IF s = {} THEN base ELSE step(it[s \ {Max(s)}], Rows(rows)[Max(s)])]
    <2>1. PICK jt \in [SUBSET (1 .. N) -> G] : Iterates(jt, h, base, N)
      BY <1>1, <1>5, <1>6, IterateExists
    <2>2. ASSUME NEW s \in SUBSET (1 .. N), s # {}
          PROVE  h[jt[s \ {Max(s)}]][Max(s)] = step(jt[s \ {Max(s)}], Rows(rows)[Max(s)])
      <3>1. Max(s) \in 1 .. N /\ s \ {Max(s)} \in SUBSET (1 .. N)
        BY <1>1, <2>2, MaxOf
      <3> QED
        BY <1>6, <3>1
    <2>3. jt = [s \in SUBSET DOMAIN Rows(rows) |->
                   IF s = {} THEN base ELSE step(jt[s \ {Max(s)}], Rows(rows)[Max(s)])]
      BY <1>1, <2>1, <2>2 DEF Iterates
    <2> QED
      BY <2>3
  <1> HIDE DEF it
  <1>8. Follows(it, h, base, N, G)
    <2>1. \A s \in SUBSET (1 .. N) : s # {} => Max(s) \in 1 .. N
      BY <1>1, MaxOf
    <2> QED
      BY <1>1, <1>6, <1>7, <2>1 DEF Follows
  <1>9. PICK st \in [0 .. N -> G] : Reaches(st, h, base, N) /\ st[N] = it[1 .. N]
    <2>1. Stops(it, N) \in [0 .. N -> G] /\ Reaches(Stops(it, N), h, base, N)
      BY <1>1, <1>5, <1>6, <1>8, StatesOf
    <2>2. Stops(it, N)[N] = it[1 .. N]
      BY <1>1 DEF Stops
    <2> QED
      BY <2>1, <2>2
  <1>10. \A k \in 0 .. N : k # N => st[k + 1] = step(st[k], Rows(rows)[k + 1])
    <2>1. \A k \in 0 .. N : k # N => k + 1 \in 1 .. N /\ st[k] \in G
      BY <1>1, <1>9
    <2> QED
      BY <1>6, <1>9, <2>1 DEF Reaches
  <1>11. st \in [0 .. Len(rows) -> Seq(Seq(Nat))] /\ st[0] = <<>> /\ st[N] = it[DOMAIN Rows(rows)]
    BY <1>1, <1>9 DEF G, base, N, Reaches
  <1>12. \A k \in 0 .. Len(rows) : k # Len(rows) => st[k + 1] = Scan(rows, n, st[k], k + 1)
    <2> SUFFICES ASSUME NEW k \in 0 .. Len(rows), k # Len(rows) PROVE st[k + 1] = Scan(rows, n, st[k], k + 1)
      OBVIOUS
    <2>1. k \in 0 .. N /\ k # N /\ k + 1 \in 1 .. N
      BY <1>1, <1>2
    <2> QED
      BY <1>1, <1>3, <1>10, <2>1 DEF step
  <1> QED
    BY <1>4, <1>11, <1>12 DEF N

LEMMA TitleStates ==
    ASSUME NEW rows, rows \in Seq(Range(rows))
    PROVE  \E st \in [0 .. Len(rows) -> Seq({row.title : row \in Range(rows)})] :
              /\ st[0] = <<>>
              /\ FoldLeft(NextTitle, <<>>, rows) = st[Len(rows)]
              /\ \A k \in 0 .. Len(rows) : k # Len(rows) => st[k + 1] = NextTitle(st[k], rows[k + 1])
  <1> DEFINE N == Len(rows)
             G == Seq({row.title : row \in Range(rows)})
             base == <<>>
             step(acc, c) == NextTitle(acc, c)
             h == [acc \in G |-> [i \in 1 .. N |-> step(acc, rows[i])]]
             it == CHOOSE it : it = [s \in SUBSET DOMAIN rows |->
                      IF s = {} THEN base ELSE step(it[s \ {Max(s)}], rows[Max(s)])]
  <1>1. N \in Nat /\ DOMAIN rows = 1 .. N
    BY RowsAre
  <1>2. Len(rows) = N
    OBVIOUS
  <1>3. FoldLeft(NextTitle, <<>>, rows) = it[DOMAIN rows]
    BY DEF NextTitle, FoldLeft, MapThenFoldSet
  <1>4. base \in G /\ \A acc \in G : \A i \in 1 .. N : step(acc, rows[i]) \in G
    BY <1>1, RangeOf, NextTitleIs
  <1> HIDE DEF step, N, G, base
  <1>5. h \in [G -> [1 .. N -> G]] /\ \A acc \in G : \A i \in 1 .. N : h[acc][i] = step(acc, rows[i])
    BY <1>4
  <1> HIDE DEF h
  <1>6. it = [s \in SUBSET DOMAIN rows |->
                 IF s = {} THEN base ELSE step(it[s \ {Max(s)}], rows[Max(s)])]
    <2>1. PICK jt \in [SUBSET (1 .. N) -> G] : Iterates(jt, h, base, N)
      BY <1>1, <1>4, <1>5, IterateExists
    <2>2. ASSUME NEW s \in SUBSET (1 .. N), s # {}
          PROVE  h[jt[s \ {Max(s)}]][Max(s)] = step(jt[s \ {Max(s)}], rows[Max(s)])
      <3>1. Max(s) \in 1 .. N /\ s \ {Max(s)} \in SUBSET (1 .. N)
        BY <1>1, <2>2, MaxOf
      <3> QED
        BY <1>5, <3>1
    <2>3. jt = [s \in SUBSET DOMAIN rows |->
                   IF s = {} THEN base ELSE step(jt[s \ {Max(s)}], rows[Max(s)])]
      BY <1>1, <2>1, <2>2 DEF Iterates
    <2> QED
      BY <2>3
  <1> HIDE DEF it
  <1>7. Follows(it, h, base, N, G)
    <2>1. \A s \in SUBSET (1 .. N) : s # {} => Max(s) \in 1 .. N
      BY <1>1, MaxOf
    <2> QED
      BY <1>1, <1>5, <1>6, <2>1 DEF Follows
  <1>8. PICK st \in [0 .. N -> G] : Reaches(st, h, base, N) /\ st[N] = it[1 .. N]
    <2>1. Stops(it, N) \in [0 .. N -> G] /\ Reaches(Stops(it, N), h, base, N)
      BY <1>1, <1>4, <1>5, <1>7, StatesOf
    <2>2. Stops(it, N)[N] = it[1 .. N]
      BY <1>1 DEF Stops
    <2> QED
      BY <2>1, <2>2
  <1>9. \A k \in 0 .. N : k # N => st[k + 1] = step(st[k], rows[k + 1])
    <2>1. \A k \in 0 .. N : k # N => k + 1 \in 1 .. N /\ st[k] \in G
      BY <1>1, <1>8
    <2> QED
      BY <1>5, <1>8, <2>1 DEF Reaches
  <1>10. st \in [0 .. Len(rows) -> Seq({row.title : row \in Range(rows)})] /\ st[0] = <<>> /\ st[N] = it[DOMAIN rows]
    BY <1>1, <1>8 DEF G, base, N, Reaches
  <1>11. \A k \in 0 .. Len(rows) : k # Len(rows) => st[k + 1] = NextTitle(st[k], rows[k + 1])
    <2> SUFFICES ASSUME NEW k \in 0 .. Len(rows), k # Len(rows) PROVE st[k + 1] = NextTitle(st[k], rows[k + 1])
      OBVIOUS
    <2>1. k \in 0 .. N /\ k # N /\ k + 1 \in 1 .. N
      BY <1>1, <1>2
    <2> QED
      BY <1>1, <1>9, <2>1 DEF step
  <1> QED
    BY <1>3, <1>10, <1>11 DEF N

LEMMA UseStates ==
    ASSUME NEW rows, rows \in Seq(Range(rows)), NEW n \in Nat
    PROVE  \E st \in [0 .. Len(rows) -> Uses(ToSet(Selected(rows, n)))] :
              /\ st[0] = [seen |-> {}, out |-> <<>>]
              /\ Titled(rows, n) = st[Len(rows)].out
              /\ \A k \in 0 .. Len(rows) : k # Len(rows) => st[k + 1] = Used(rows, ToSet(Selected(rows, n)), st[k], k + 1)
  <1> DEFINE N == Len(rows)
             G == Uses(ToSet(Selected(rows, n)))
             base == [seen |-> {}, out |-> <<>>]
             step(acc, c) == Used(rows, ToSet(Selected(rows, n)), acc, c)
             h == [acc \in G |-> [i \in 1 .. N |-> step(acc, Rows(rows)[i])]]
             it == CHOOSE it : it = [s \in SUBSET DOMAIN Rows(rows) |->
                      IF s = {} THEN base ELSE step(it[s \ {Max(s)}], Rows(rows)[Max(s)])]
  <1>1. N \in Nat /\ DOMAIN Rows(rows) = 1 .. N
    BY RowsAre
  <1>2. Len(rows) = N
    OBVIOUS
  <1>3. \A i \in 1 .. N : Rows(rows)[i] = i
    BY RowsAre
  <1>4. Titled(rows, n) = it[DOMAIN Rows(rows)].out
    BY DEF Titled, FoldLeft, MapThenFoldSet
  <1>5. base \in G /\ \A acc \in G : \A i \in 1 .. N : step(acc, Rows(rows)[i]) \in G
    BY <1>1, <1>3, UseBase, UsedIs
  <1> HIDE DEF step, N, G, base
  <1>6. h \in [G -> [1 .. N -> G]] /\ \A acc \in G : \A i \in 1 .. N : h[acc][i] = step(acc, Rows(rows)[i])
    BY <1>5
  <1> HIDE DEF h
  <1>7. it = [s \in SUBSET DOMAIN Rows(rows) |->
                 IF s = {} THEN base ELSE step(it[s \ {Max(s)}], Rows(rows)[Max(s)])]
    <2>1. PICK jt \in [SUBSET (1 .. N) -> G] : Iterates(jt, h, base, N)
      BY <1>1, <1>5, <1>6, IterateExists
    <2>2. ASSUME NEW s \in SUBSET (1 .. N), s # {}
          PROVE  h[jt[s \ {Max(s)}]][Max(s)] = step(jt[s \ {Max(s)}], Rows(rows)[Max(s)])
      <3>1. Max(s) \in 1 .. N /\ s \ {Max(s)} \in SUBSET (1 .. N)
        BY <1>1, <2>2, MaxOf
      <3> QED
        BY <1>6, <3>1
    <2>3. jt = [s \in SUBSET DOMAIN Rows(rows) |->
                   IF s = {} THEN base ELSE step(jt[s \ {Max(s)}], Rows(rows)[Max(s)])]
      BY <1>1, <2>1, <2>2 DEF Iterates
    <2> QED
      BY <2>3
  <1> HIDE DEF it
  <1>8. Follows(it, h, base, N, G)
    <2>1. \A s \in SUBSET (1 .. N) : s # {} => Max(s) \in 1 .. N
      BY <1>1, MaxOf
    <2> QED
      BY <1>1, <1>6, <1>7, <2>1 DEF Follows
  <1>9. PICK st \in [0 .. N -> G] : Reaches(st, h, base, N) /\ st[N] = it[1 .. N]
    <2>1. Stops(it, N) \in [0 .. N -> G] /\ Reaches(Stops(it, N), h, base, N)
      BY <1>1, <1>5, <1>6, <1>8, StatesOf
    <2>2. Stops(it, N)[N] = it[1 .. N]
      BY <1>1 DEF Stops
    <2> QED
      BY <2>1, <2>2
  <1>10. \A k \in 0 .. N : k # N => st[k + 1] = step(st[k], Rows(rows)[k + 1])
    <2>1. \A k \in 0 .. N : k # N => k + 1 \in 1 .. N /\ st[k] \in G
      BY <1>1, <1>9
    <2> QED
      BY <1>6, <1>9, <2>1 DEF Reaches
  <1>11. st \in [0 .. Len(rows) -> Uses(ToSet(Selected(rows, n)))] /\ st[0] = [seen |-> {}, out |-> <<>>] /\ st[N] = it[DOMAIN Rows(rows)]
    BY <1>1, <1>9 DEF G, base, N, Reaches
  <1>12. \A k \in 0 .. Len(rows) : k # Len(rows) => st[k + 1] = Used(rows, ToSet(Selected(rows, n)), st[k], k + 1)
    <2> SUFFICES ASSUME NEW k \in 0 .. Len(rows), k # Len(rows) PROVE st[k + 1] = Used(rows, ToSet(Selected(rows, n)), st[k], k + 1)
      OBVIOUS
    <2>1. k \in 0 .. N /\ k # N /\ k + 1 \in 1 .. N
      BY <1>1, <1>2
    <2> QED
      BY <1>1, <1>3, <1>10, <2>1 DEF step
  <1> QED
    BY <1>4, <1>11, <1>12 DEF N

TurnRun(st, rows, n, out, i, messages) ==
    /\ st[0] = [asked |-> 0, out |-> out]
    /\ Turns(rows, n, out, i) = st[Len(messages)].out
    /\ \A k \in 0 .. Len(messages) : k # Len(messages) => st[k + 1] = Turn(st[k], messages, n, i, k + 1)

LEMMA TurnStates ==
    ASSUME NEW rows, NEW n \in Nat, NEW i \in Nat, NEW out \in Seq(Seq(Nat)), NEW messages,
           messages = rows[i].messages, messages \in Seq(Range(messages))
    PROVE  \E st \in [0 .. Len(messages) -> Asking(Len(messages))] : TurnRun(st, rows, n, out, i, messages)
  <1> DEFINE N == Len(messages)
             G == Asking(Len(messages))
             base == [asked |-> 0, out |-> out]
             step(acc, c) == Turn(acc, messages, n, i, c)
             h == [acc \in G |-> [j \in 1 .. N |-> step(acc, Rows(messages)[j])]]
             it == CHOOSE it : it = [s \in SUBSET DOMAIN Rows(messages) |->
                      IF s = {} THEN base ELSE step(it[s \ {Max(s)}], Rows(messages)[Max(s)])]
  <1>1. N \in Nat /\ DOMAIN Rows(messages) = 1 .. N
    BY RowsAre
  <1>2. Len(messages) = N
    OBVIOUS
  <1>3. \A j \in 1 .. N : Rows(messages)[j] = j
    BY RowsAre
  <1>4. Turns(rows, n, out, i) = it[DOMAIN Rows(messages)].out
    BY DEF Turns, FoldLeft, MapThenFoldSet
  <1>5. base \in G /\ \A acc \in G : \A j \in 1 .. N : step(acc, Rows(messages)[j]) \in G
    BY <1>1, <1>3, TurnBase, TurnIs
  <1> HIDE DEF step, N, G, base
  <1>6. h \in [G -> [1 .. N -> G]] /\ \A acc \in G : \A j \in 1 .. N : h[acc][j] = step(acc, Rows(messages)[j])
    BY <1>5
  <1> HIDE DEF h
  <1>7. it = [s \in SUBSET DOMAIN Rows(messages) |->
                 IF s = {} THEN base ELSE step(it[s \ {Max(s)}], Rows(messages)[Max(s)])]
    <2>1. PICK jt \in [SUBSET (1 .. N) -> G] : Iterates(jt, h, base, N)
      BY <1>1, <1>5, <1>6, IterateExists
    <2>2. ASSUME NEW s \in SUBSET (1 .. N), s # {}
          PROVE  h[jt[s \ {Max(s)}]][Max(s)] = step(jt[s \ {Max(s)}], Rows(messages)[Max(s)])
      <3>1. Max(s) \in 1 .. N /\ s \ {Max(s)} \in SUBSET (1 .. N)
        BY <1>1, <2>2, MaxOf
      <3> QED
        BY <1>6, <3>1
    <2>3. jt = [s \in SUBSET DOMAIN Rows(messages) |->
                   IF s = {} THEN base ELSE step(jt[s \ {Max(s)}], Rows(messages)[Max(s)])]
      BY <1>1, <2>1, <2>2 DEF Iterates
    <2> QED
      BY <2>3
  <1> HIDE DEF it
  <1>8. Follows(it, h, base, N, G)
    <2>1. \A s \in SUBSET (1 .. N) : s # {} => Max(s) \in 1 .. N
      BY <1>1, MaxOf
    <2> QED
      BY <1>1, <1>6, <1>7, <2>1 DEF Follows
  <1>9. PICK st \in [0 .. N -> G] : Reaches(st, h, base, N) /\ st[N] = it[1 .. N]
    <2>1. Stops(it, N) \in [0 .. N -> G] /\ Reaches(Stops(it, N), h, base, N)
      BY <1>1, <1>5, <1>6, <1>8, StatesOf
    <2>2. Stops(it, N)[N] = it[1 .. N]
      BY <1>1 DEF Stops
    <2> QED
      BY <2>1, <2>2
  <1>10. \A k \in 0 .. N : k # N => st[k + 1] = step(st[k], Rows(messages)[k + 1])
    <2>1. \A k \in 0 .. N : k # N => k + 1 \in 1 .. N /\ st[k] \in G
      BY <1>1, <1>9
    <2> QED
      BY <1>6, <1>9, <2>1 DEF Reaches
  <1>11. st \in [0 .. Len(messages) -> Asking(Len(messages))] /\ st[0] = [asked |-> 0, out |-> out] /\ st[N] = it[DOMAIN Rows(messages)]
    BY <1>1, <1>9 DEF G, base, N, Reaches
  <1>12. \A k \in 0 .. Len(messages) : k # Len(messages) => st[k + 1] = Turn(st[k], messages, n, i, k + 1)
    <2> SUFFICES ASSUME NEW k \in 0 .. Len(messages), k # Len(messages) PROVE st[k + 1] = Turn(st[k], messages, n, i, k + 1)
      OBVIOUS
    <2>1. k \in 0 .. N /\ k # N /\ k + 1 \in 1 .. N
      BY <1>1, <1>2
    <2> QED
      BY <1>1, <1>3, <1>10, <2>1 DEF step
  <1> QED
    BY <1>4, <1>11, <1>12 DEF N, TurnRun

LEMMA TurnsAre ==
    ASSUME NEW rows, NEW n \in Nat, NEW out \in Seq(Seq(Nat)), NEW i \in Nat,
           rows[i].messages \in Seq(Range(rows[i].messages))
    PROVE  Turns(rows, n, out, i) \in Seq(Seq(Nat))
  <1>1. PICK messages : messages = rows[i].messages
    OBVIOUS
  <1>2. PICK st \in [0 .. Len(messages) -> Asking(Len(messages))] :
            TurnRun(st, rows, n, out, i, messages)
    <2>1. messages \in Seq(Range(messages))
      BY <1>1
    <2> QED
      BY <1>1, <2>1, TurnStates
  <1>3. Len(messages) \in 0 .. Len(messages)
    BY <1>1, LenProperties
  <1>4. st[Len(messages)] \in Asking(Len(messages))
    BY <1>3, Zenon
  <1> QED
    BY <1>2, <1>4 DEF Asking, TurnRun

LEMMA PairStates ==
    ASSUME NEW rows, rows \in Seq(Range(rows)), NEW n \in Nat,
           \A i \in 1 .. Len(rows) : rows[i].messages \in Seq(Range(rows[i].messages))
    PROVE  \E st \in [0 .. Len(rows) -> Seq(Seq(Nat))] :
              /\ st[0] = <<>>
              /\ Pairs(rows, n) = st[Len(rows)]
              /\ \A k \in 0 .. Len(rows) : k # Len(rows) => st[k + 1] = Turns(rows, n, st[k], k + 1)
  <1> DEFINE N == Len(rows)
             G == Seq(Seq(Nat))
             base == <<>>
             step(acc, c) == Turns(rows, n, acc, c)
             h == [acc \in G |-> [i \in 1 .. N |-> step(acc, Rows(rows)[i])]]
             it == CHOOSE it : it = [s \in SUBSET DOMAIN Rows(rows) |->
                      IF s = {} THEN base ELSE step(it[s \ {Max(s)}], Rows(rows)[Max(s)])]
  <1>1. N \in Nat /\ DOMAIN Rows(rows) = 1 .. N
    BY RowsAre
  <1>2. Len(rows) = N
    OBVIOUS
  <1>3. \A i \in 1 .. N : Rows(rows)[i] = i
    BY RowsAre
  <1>4. Pairs(rows, n) = it[DOMAIN Rows(rows)]
    BY DEF Pairs, FoldLeft, MapThenFoldSet
  <1>5. base \in G /\ \A acc \in G : \A i \in 1 .. N : step(acc, Rows(rows)[i]) \in G
    BY <1>1, <1>3, TurnsAre
  <1> HIDE DEF step, N, G, base
  <1>6. h \in [G -> [1 .. N -> G]] /\ \A acc \in G : \A i \in 1 .. N : h[acc][i] = step(acc, Rows(rows)[i])
    BY <1>5
  <1> HIDE DEF h
  <1>7. it = [s \in SUBSET DOMAIN Rows(rows) |->
                 IF s = {} THEN base ELSE step(it[s \ {Max(s)}], Rows(rows)[Max(s)])]
    <2>1. PICK jt \in [SUBSET (1 .. N) -> G] : Iterates(jt, h, base, N)
      BY <1>1, <1>5, <1>6, IterateExists
    <2>2. ASSUME NEW s \in SUBSET (1 .. N), s # {}
          PROVE  h[jt[s \ {Max(s)}]][Max(s)] = step(jt[s \ {Max(s)}], Rows(rows)[Max(s)])
      <3>1. Max(s) \in 1 .. N /\ s \ {Max(s)} \in SUBSET (1 .. N)
        BY <1>1, <2>2, MaxOf
      <3> QED
        BY <1>6, <3>1
    <2>3. jt = [s \in SUBSET DOMAIN Rows(rows) |->
                   IF s = {} THEN base ELSE step(jt[s \ {Max(s)}], Rows(rows)[Max(s)])]
      BY <1>1, <2>1, <2>2 DEF Iterates
    <2> QED
      BY <2>3
  <1> HIDE DEF it
  <1>8. Follows(it, h, base, N, G)
    <2>1. \A s \in SUBSET (1 .. N) : s # {} => Max(s) \in 1 .. N
      BY <1>1, MaxOf
    <2> QED
      BY <1>1, <1>6, <1>7, <2>1 DEF Follows
  <1>9. PICK st \in [0 .. N -> G] : Reaches(st, h, base, N) /\ st[N] = it[1 .. N]
    <2>1. Stops(it, N) \in [0 .. N -> G] /\ Reaches(Stops(it, N), h, base, N)
      BY <1>1, <1>5, <1>6, <1>8, StatesOf
    <2>2. Stops(it, N)[N] = it[1 .. N]
      BY <1>1 DEF Stops
    <2> QED
      BY <2>1, <2>2
  <1>10. \A k \in 0 .. N : k # N => st[k + 1] = step(st[k], Rows(rows)[k + 1])
    <2>1. \A k \in 0 .. N : k # N => k + 1 \in 1 .. N /\ st[k] \in G
      BY <1>1, <1>9
    <2> QED
      BY <1>6, <1>9, <2>1 DEF Reaches
  <1>11. st \in [0 .. Len(rows) -> Seq(Seq(Nat))] /\ st[0] = <<>> /\ st[N] = it[DOMAIN Rows(rows)]
    BY <1>1, <1>9 DEF G, base, N, Reaches
  <1>12. \A k \in 0 .. Len(rows) : k # Len(rows) => st[k + 1] = Turns(rows, n, st[k], k + 1)
    <2> SUFFICES ASSUME NEW k \in 0 .. Len(rows), k # Len(rows) PROVE st[k + 1] = Turns(rows, n, st[k], k + 1)
      OBVIOUS
    <2>1. k \in 0 .. N /\ k # N /\ k + 1 \in 1 .. N
      BY <1>1, <1>2
    <2> QED
      BY <1>1, <1>3, <1>10, <2>1 DEF step
  <1> QED
    BY <1>4, <1>11, <1>12 DEF N

(* One more file behind all that were wanted before.                        *)
AllBefore(wanted, f) == \A g \in wanted : Before(g, f)

LEMMA ToSetAppend ==
    ASSUME NEW S, NEW s \in Seq(S), NEW x \in S
    PROVE  ToSet(Append(s, x)) = ToSet(s) \cup {x}
  <1> DEFINE more == Append(s, x)
             N == Len(s)
  <1>1. /\ N \in Nat /\ DOMAIN s = 1 .. N /\ DOMAIN more = 1 .. N + 1 /\ more[N + 1] = x
        /\ \A k \in 1 .. N : more[k] = s[k]
    BY AppendProperties, LenProperties
  <1> HIDE DEF more, N
  <1>2. \A y : y \in ToSet(more) <=> \E k \in 1 .. N + 1 : more[k] = y
    BY <1>1 DEF ToSet
  <1>3. \A y : y \in ToSet(s) <=> \E k \in 1 .. N : s[k] = y
    BY <1>1 DEF ToSet
  <1>4. /\ \A k \in 1 .. N + 1 : k \in 1 .. N \/ k = N + 1
        /\ \A k \in 1 .. N : k \in 1 .. N + 1
        /\ N + 1 \in 1 .. N + 1
    BY <1>1
  <1>5. ToSet(more) = ToSet(s) \cup {x}
    BY <1>1, <1>2, <1>3, <1>4
  <1> QED
    BY <1>5 DEF more

LEMMA AppendBehind ==
    ASSUME NEW S, NEW files \in Seq(S), NEW f \in S, InOrder(files), AllBefore(ToSet(files), f)
    PROVE  /\ InOrder(Append(files, f)) /\ ToSet(Append(files, f)) = ToSet(files) \cup {f}
           /\ Len(Append(files, f)) = Len(files) + 1
  <1> DEFINE more == Append(files, f)
             N == Len(files)
  <1>1. /\ N \in Nat /\ DOMAIN files = 1 .. N /\ DOMAIN more = 1 .. N + 1 /\ Len(more) = N + 1
        /\ \A k \in 1 .. N : more[k] = files[k]
        /\ more[N + 1] = f
    BY AppendProperties, LenProperties
  <1> HIDE DEF more, N
  <1>2. \A k \in 1 .. N : files[k] \in ToSet(files)
    BY <1>1 DEF ToSet
  <1>3. ASSUME NEW k \in DOMAIN more, NEW l \in DOMAIN more, k < l PROVE Before(more[k], more[l])
    <2>1. k \in 1 .. N /\ l \in 1 .. N + 1
      BY <1>1, <1>3
    <2>2. CASE l \in 1 .. N
      <3>1. Before(files[k], files[l])
        BY <1>1, <1>3, <2>1, <2>2 DEF InOrder
      <3> QED
        BY <1>1, <2>1, <2>2, <3>1
    <2>3. CASE l = N + 1
      BY <1>1, <1>2, <2>1, <2>3 DEF AllBefore
    <2> QED
      BY <1>1, <2>1, <2>2, <2>3
  <1>4. ToSet(more) = ToSet(files) \cup {f}
    BY ToSetAppend DEF more
  <1> QED
    BY <1>1, <1>3, <1>4 DEF InOrder, more, N

LEMMA NoneFirst == ASSUME NEW n \in Nat PROVE AreFirst(<<>>, n, {})
  BY DEF AreFirst, InOrder, ToSet

LEMMA NextFirst ==
    ASSUME NEW S, NEW files \in Seq(S), NEW f \in S, NEW n \in Nat, NEW wanted,
           AreFirst(files, n, wanted), AllBefore(wanted, f)
    PROVE  AreFirst(IF Len(files) < n THEN Append(files, f) ELSE files, n, wanted \cup {f})
  <1>1. Len(files) \in Nat /\ Len(files) <= n /\ ToSet(files) \subseteq wanted /\ InOrder(files)
    BY LenProperties DEF AreFirst
  <1>2. \A k \in DOMAIN files : files[k] \in wanted
    BY <1>1 DEF ToSet
  <1>3. CASE Len(files) < n
    <2>1. wanted = ToSet(files)
      <3>1. ASSUME NEW g \in wanted, g \notin ToSet(files) PROVE FALSE
        <4>1. Len(files) = n
          BY <3>1 DEF AreFirst
        <4> QED
          BY <1>1, <1>3, <4>1
      <3> QED
        BY <1>1, <3>1
    <2>2. /\ InOrder(Append(files, f)) /\ ToSet(Append(files, f)) = ToSet(files) \cup {f}
          /\ Len(Append(files, f)) = Len(files) + 1
      BY <1>1, <2>1, AppendBehind
    <2> QED
      BY <1>1, <1>3, <2>1, <2>2 DEF AreFirst
  <1>4. CASE ~(Len(files) < n)
    <2>1. Len(files) = n
      BY <1>1, <1>4
    <2>2. \A k \in DOMAIN files : Before(files[k], f)
      BY <1>2 DEF AllBefore
    <2>3. \A g \in wanted \ ToSet(files) : \A k \in DOMAIN files : Before(files[k], g)
      BY DEF AreFirst
    <2> QED
      BY <1>1, <1>4, <2>1, <2>2, <2>3 DEF AreFirst
  <1> QED
    BY <1>3, <1>4

(* The sequential scan: after k rows, the first n long ones of these.       *)
LongTo(rows, k) == {<<i>> : i \in {j \in 1 .. k : rows[j].size >= MinLength}}

LEMMA LongNext ==
    ASSUME NEW rows, NEW k \in Nat
    PROVE  /\ rows[k + 1].size >= MinLength => LongTo(rows, k + 1) = LongTo(rows, k) \cup {<<k + 1>>}
           /\ ~(rows[k + 1].size >= MinLength) => LongTo(rows, k + 1) = LongTo(rows, k)
           /\ AllBefore(LongTo(rows, k), <<k + 1>>)
  <1>1. 1 .. k + 1 = (1 .. k) \cup {k + 1}
    OBVIOUS
  <1>2. \A i \in 1 .. k : i < k + 1
    OBVIOUS
  <1>3. \A i : <<i>>[1] = i
    OBVIOUS
  <1> DEFINE P(j) == rows[j].size >= MinLength
  <1>4. \A m : LongTo(rows, m) = {<<i>> : i \in {j \in 1 .. m : P(j)}}
    BY DEF LongTo
  <1> HIDE DEF P
  <1>5. P(k + 1) => LongTo(rows, k + 1) = LongTo(rows, k) \cup {<<k + 1>>}
    BY <1>1, <1>4
  <1>6. ~P(k + 1) => LongTo(rows, k + 1) = LongTo(rows, k)
    BY <1>1, <1>4
  <1>7. AllBefore(LongTo(rows, k), <<k + 1>>)
    BY <1>2, <1>3, <1>4 DEF AllBefore, Before
  <1> QED
    BY <1>5, <1>6, <1>7 DEF P

LEMMA ScanWhole ==
    ASSUME NEW rows, rows \in Seq(Range(rows)), NEW n \in Nat
    PROVE  AreFirst(Scanned(rows, n), n, {<<i>> : i \in Long(rows)})
  <1>1. PICK st \in [0 .. Len(rows) -> Seq(Seq(Nat))] :
            /\ st[0] = <<>>
            /\ Scanned(rows, n) = st[Len(rows)]
            /\ \A k \in 0 .. Len(rows) : k # Len(rows) => st[k + 1] = Scan(rows, n, st[k], k + 1)
    BY ScanStates
  <1>2. PICK N : N = Len(rows)
    OBVIOUS
  <1>3. N \in Nat /\ DOMAIN rows = 1 .. N
    BY <1>2, RowsAre
  <1> DEFINE F == {k \in 0 .. N : AreFirst(st[k], n, LongTo(rows, k))}
  <1>4. 0 \in F
    <2>1. LongTo(rows, 0) = {}
      BY DEF LongTo
    <2>2. AreFirst(<<>>, n, {})
      BY NoneFirst
    <2>3. AreFirst(st[0], n, LongTo(rows, 0))
      BY <1>1, <2>1, <2>2
    <2> QED
      BY <1>3, <2>3
  <1>5. ASSUME NEW k \in 0 .. N, k # N, k \in F PROVE k + 1 \in F
    <2>1. k \in Nat /\ k + 1 \in 0 .. N
      BY <1>3, <1>5
    <2>2. PICK out : out = st[k]
      OBVIOUS
    <2>3. out \in Seq(Seq(Nat)) /\ AreFirst(out, n, LongTo(rows, k))
      BY <1>1, <1>2, <1>5, <2>2
    <2>4. st[k + 1] = Scan(rows, n, out, k + 1)
      BY <1>1, <1>2, <1>5, <2>2
    <2>5. AreFirst(Scan(rows, n, out, k + 1), n, LongTo(rows, k + 1))
      <3>1. <<k + 1>> \in Seq(Nat)
        BY <2>1, OneFile
      <3>2. AllBefore(LongTo(rows, k), <<k + 1>>)
        BY <2>1, LongNext
      <3>3. AreFirst(IF Len(out) < n THEN Append(out, <<k + 1>>) ELSE out, n, LongTo(rows, k) \cup {<<k + 1>>})
        BY <2>3, <3>1, <3>2, NextFirst
      <3>4. CASE rows[k + 1].size >= MinLength
        <4>1. LongTo(rows, k + 1) = LongTo(rows, k) \cup {<<k + 1>>}
          BY <2>1, <3>4, LongNext
        <4>2. Scan(rows, n, out, k + 1) = IF Len(out) < n THEN Append(out, <<k + 1>>) ELSE out
          BY <3>4 DEF Scan
        <4> QED
          BY <3>3, <4>1, <4>2
      <3>5. CASE ~(rows[k + 1].size >= MinLength)
        <4>1. LongTo(rows, k + 1) = LongTo(rows, k)
          BY <2>1, <3>5, LongNext
        <4>2. Scan(rows, n, out, k + 1) = out
          BY <3>5 DEF Scan
        <4> QED
          BY <2>3, <4>1, <4>2
      <3> QED
        BY <3>4, <3>5
    <2> QED
      BY <2>1, <2>4, <2>5
  <1> HIDE DEF F
  <1>6. N \in F
    BY <1>3, <1>4, <1>5, NumberSteps
  <1>7. LongTo(rows, N) = {<<i>> : i \in Long(rows)}
    BY <1>3 DEF LongTo, Long
  <1>8. AreFirst(st[N], n, LongTo(rows, N))
    BY <1>6 DEF F
  <1> QED
    BY <1>1, <1>2, <1>7, <1>8

(* The exchanges of a conversation in row i up to message j, and the        *)
(* question that waits after it.                                            *)
ExchangesTo(messages, i, j) ==
    {<<i, x[1], x[2]>> : x \in {y \in (1 .. j) \X (1 .. j) : IsExchange(messages, y[1], y[2])}}
Waits(messages, asked, j) ==
    /\ asked \in 0 .. j
    /\ asked # 0 => messages[asked].role = "user" /\ \A k \in asked + 1 .. j : ~Speaks(messages[k])
    /\ asked = 0 => \A q \in 1 .. j :
                       messages[q].role = "user" => \E k \in q + 1 .. j : Speaks(messages[k])
Fits3(messages, q, a) ==
    messages[a].role = "assistant" /\ PairSize(messages[q].size, messages[a].size) >= MinLength

(* An exchange that message j + 1 completes is that of the waiting question. *)
LEMMA ExchangeIs ==
    ASSUME NEW messages, NEW j \in Nat, NEW asked, Waits(messages, asked, j), NEW q \in 1 .. j
    PROVE  IsExchange(messages, q, j + 1) <=> q = asked /\ Fits3(messages, q, j + 1)
  <1>1. asked \in 0 .. j
    BY DEF Waits
  <1>2. ASSUME IsExchange(messages, q, j + 1) PROVE q = asked /\ Fits3(messages, q, j + 1)
    <2>1. /\ messages[q].role = "user" /\ Speaks(messages[q])
          /\ \A k \in q + 1 .. j : ~Speaks(messages[k])
          /\ Fits3(messages, q, j + 1)
      <3>1. (j + 1) - 1 = j
        OBVIOUS
      <3> QED
        BY <1>2, <3>1 DEF IsExchange, Fits3, Speaks
    <2>2. asked # 0
      BY <2>1 DEF Waits
    <2>3. Speaks(messages[asked]) /\ \A k \in asked + 1 .. j : ~Speaks(messages[k])
      BY <2>2 DEF Waits, Speaks
    <2>4. ~(q < asked)
      <3>1. q < asked => asked \in q + 1 .. j
        BY <1>1
      <3> QED
        BY <2>1, <2>3, <3>1
    <2>5. ~(asked < q)
      <3>1. asked < q => q \in asked + 1 .. j
        BY <1>1
      <3> QED
        BY <2>1, <2>3, <3>1
    <2> QED
      BY <1>1, <2>1, <2>4, <2>5
  <1>3. ASSUME q = asked, Fits3(messages, q, j + 1) PROVE IsExchange(messages, q, j + 1)
    <2>1. q < j + 1 /\ (j + 1) - 1 = j /\ asked # 0
      BY <1>3
    <2>2. messages[q].role = "user" /\ \A k \in q + 1 .. j : ~Speaks(messages[k])
      BY <1>3, <2>1 DEF Waits
    <2> QED
      BY <1>3, <2>1, <2>2 DEF IsExchange, Fits3
  <1> QED
    BY <1>2, <1>3

LEMMA ExchangesAre ==
    ASSUME NEW messages, NEW i, NEW j, NEW f
    PROVE  f \in ExchangesTo(messages, i, j)
             <=> \E q, a \in 1 .. j : f = <<i, q, a>> /\ IsExchange(messages, q, a)
  <1>1. ASSUME f \in ExchangesTo(messages, i, j)
        PROVE  \E q, a \in 1 .. j : f = <<i, q, a>> /\ IsExchange(messages, q, a)
    <2>1. PICK x \in (1 .. j) \X (1 .. j) : f = <<i, x[1], x[2]>> /\ IsExchange(messages, x[1], x[2])
      BY <1>1, Zenon DEF ExchangesTo
    <2>2. x[1] \in 1 .. j /\ x[2] \in 1 .. j
      OBVIOUS
    <2> QED
      BY <2>1, <2>2
  <1>2. ASSUME NEW q \in 1 .. j, NEW a \in 1 .. j, f = <<i, q, a>>, IsExchange(messages, q, a)
        PROVE  f \in ExchangesTo(messages, i, j)
    <2>1. PICK x : x = <<q, a>>
      OBVIOUS
    <2>2. x \in (1 .. j) \X (1 .. j) /\ x[1] = q /\ x[2] = a
      BY <2>1
    <2>3. f = <<i, x[1], x[2]>> /\ IsExchange(messages, x[1], x[2])
      BY <1>2, <2>2
    <2> QED
      BY <2>2, <2>3, Zenon DEF ExchangesTo
  <1> QED
    BY <1>1, <1>2

LEMMA ExchangesNext ==
    ASSUME NEW messages, NEW j \in Nat, NEW asked, Waits(messages, asked, j), NEW i
    PROVE  ExchangesTo(messages, i, j + 1) =
               IF asked # 0 /\ Fits3(messages, asked, j + 1)
               THEN ExchangesTo(messages, i, j) \cup {<<i, asked, j + 1>>}
               ELSE ExchangesTo(messages, i, j)
  <1> DEFINE new == {<<i, q, j + 1>> : q \in {r \in 1 .. j : IsExchange(messages, r, j + 1)}}
  <1>1. asked \in 0 .. j
    BY DEF Waits
  <1>2. \A q, a : IsExchange(messages, q, a) => q < a
    BY DEF IsExchange
  <1>3. ExchangesTo(messages, i, j + 1) = ExchangesTo(messages, i, j) \cup new
    <2>1. \A f : f \in ExchangesTo(messages, i, j + 1)
                   <=> \E q, a \in 1 .. j + 1 : f = <<i, q, a>> /\ IsExchange(messages, q, a)
      BY ExchangesAre
    <2>2. \A f : f \in ExchangesTo(messages, i, j)
                   <=> \E q, a \in 1 .. j : f = <<i, q, a>> /\ IsExchange(messages, q, a)
      BY ExchangesAre
    <2>3. \A q, a \in 1 .. j + 1 : q < a => q \in 1 .. j /\ (a \in 1 .. j \/ a = j + 1)
      OBVIOUS
    <2>4. \A q \in 1 .. j : q \in 1 .. j + 1
      OBVIOUS
    <2>5. j + 1 \in 1 .. j + 1
      OBVIOUS
    <2>6. \A f : f \in new <=> \E q \in 1 .. j : f = <<i, q, j + 1>> /\ IsExchange(messages, q, j + 1)
      OBVIOUS
    <2> HIDE DEF new
    <2>7. ASSUME NEW f \in ExchangesTo(messages, i, j + 1) PROVE f \in ExchangesTo(messages, i, j) \cup new
      <3>1. PICK q, a \in 1 .. j + 1 : f = <<i, q, a>> /\ IsExchange(messages, q, a)
        BY <2>1
      <3>2. q \in 1 .. j /\ (a \in 1 .. j \/ a = j + 1)
        BY <1>2, <2>3, <3>1
      <3>3. CASE a \in 1 .. j
        BY <2>2, <3>1, <3>2, <3>3, Zenon
      <3>4. CASE a = j + 1
        BY <2>6, <3>1, <3>2, <3>4, Zenon
      <3> QED
        BY <3>2, <3>3, <3>4
    <2>8. ASSUME NEW f \in ExchangesTo(messages, i, j) PROVE f \in ExchangesTo(messages, i, j + 1)
      <3>1. PICK q, a \in 1 .. j : f = <<i, q, a>> /\ IsExchange(messages, q, a)
        BY <2>2
      <3> QED
        BY <2>1, <2>4, <3>1, Zenon
    <2>9. ASSUME NEW f \in new PROVE f \in ExchangesTo(messages, i, j + 1)
      <3>1. PICK q \in 1 .. j : f = <<i, q, j + 1>> /\ IsExchange(messages, q, j + 1)
        BY <2>6
      <3> QED
        BY <2>1, <2>4, <2>5, <3>1, Zenon
    <2> QED
      BY <2>7, <2>8, <2>9
  <1>4. \A q \in 1 .. j : IsExchange(messages, q, j + 1) <=> q = asked /\ Fits3(messages, q, j + 1)
    BY ExchangeIs
  <1>5. CASE asked # 0 /\ Fits3(messages, asked, j + 1)
    <2>1. asked \in 1 .. j
      BY <1>1, <1>5
    <2>2. new = {<<i, asked, j + 1>>}
      BY <1>4, <1>5, <2>1
    <2> QED
      BY <1>3, <1>5, <2>2
  <1>6. CASE ~(asked # 0 /\ Fits3(messages, asked, j + 1))
    <2>1. \A q \in 1 .. j : q # 0
      OBVIOUS
    <2>2. new = {}
      BY <1>4, <1>6, <2>1
    <2> HIDE DEF new
    <2> QED
      BY <1>3, <1>6, <2>2
  <1> QED
    BY <1>5, <1>6

LEMMA NoneWaits ==
    ASSUME NEW messages, NEW i PROVE Waits(messages, 0, 0) /\ ExchangesTo(messages, i, 0) = {}
  <1>1. 1 .. 0 = {} /\ 0 \in 0 .. 0
    OBVIOUS
  <1> QED
    BY <1>1 DEF Waits, ExchangesTo

LEMMA WaitsNext ==
    ASSUME NEW messages, NEW j \in Nat, NEW asked, Waits(messages, asked, j)
    PROVE  /\ messages[j + 1].role = "user" => Waits(messages, j + 1, j + 1)
           /\ messages[j + 1].role = "assistant" => Waits(messages, 0, j + 1)
           /\ ~Speaks(messages[j + 1]) => Waits(messages, asked, j + 1)
  <1>1. asked \in 0 .. j /\ j + 1 \in 0 .. j + 1 /\ 0 \in 0 .. j + 1 /\ j + 1 # 0 /\ asked \in 0 .. j + 1
    BY DEF Waits
  <1>2. /\ (j + 1) + 1 .. j + 1 = {}
        /\ \A q : \A k : k \in q + 1 .. j => k \in q + 1 .. j + 1
    OBVIOUS
  <1>3. messages[j + 1].role = "user" => Waits(messages, j + 1, j + 1)
    BY <1>1, <1>2 DEF Waits
  <1>4. ASSUME messages[j + 1].role = "assistant" PROVE Waits(messages, 0, j + 1)
    <2> SUFFICES ASSUME NEW q \in 1 .. j + 1, messages[q].role = "user"
                 PROVE  \E k \in q + 1 .. j + 1 : Speaks(messages[k])
      BY <1>1 DEF Waits
    <2>1. q # j + 1
      BY <1>4
    <2>2. j + 1 \in q + 1 .. j + 1
      BY <2>1
    <2> QED
      BY <1>4, <2>2 DEF Speaks
  <1>5. ASSUME ~Speaks(messages[j + 1]) PROVE Waits(messages, asked, j + 1)
    <2>1. ASSUME asked # 0
          PROVE  messages[asked].role = "user" /\ \A k \in asked + 1 .. j + 1 : ~Speaks(messages[k])
      <3>1. messages[asked].role = "user" /\ \A k \in asked + 1 .. j : ~Speaks(messages[k])
        BY <2>1 DEF Waits
      <3>2. \A k \in asked + 1 .. j + 1 : k \in asked + 1 .. j \/ k = j + 1
        BY <1>1
      <3> QED
        BY <1>5, <3>1, <3>2
    <2>2. ASSUME asked = 0, NEW q \in 1 .. j + 1, messages[q].role = "user"
          PROVE  \E k \in q + 1 .. j + 1 : Speaks(messages[k])
      <3>1. q \in 1 .. j
        <4>1. q # j + 1
          BY <1>5, <2>2 DEF Speaks
        <4> QED
          BY <4>1
      <3>2. PICK k \in q + 1 .. j : Speaks(messages[k])
        BY <2>2, <3>1 DEF Waits
      <3>3. k \in q + 1 .. j + 1
        BY <3>1
      <3> QED
        BY <3>2, <3>3
    <2> QED
      BY <1>1, <2>1, <2>2 DEF Waits
  <1> QED
    BY <1>3, <1>4, <1>5

(* A conversation: after j of its messages, the first n of the exchanges of *)
(* the rows before it (past) and of its own so far.                         *)
Took(acc, messages, n, i, j, past) ==
    Waits(messages, acc.asked, j) /\ AreFirst(acc.out, n, past \cup ExchangesTo(messages, i, j))
RowsBefore(past, i) == \A g \in past : g[1] < i

LEMMA ExchangeBehind ==
    ASSUME NEW messages, NEW i \in Nat, NEW j \in Nat, NEW past, RowsBefore(past, i), NEW q
    PROVE  AllBefore(past \cup ExchangesTo(messages, i, j), <<i, q, j + 1>>)
  <1>1. ASSUME NEW g \in past PROVE Before(g, <<i, q, j + 1>>)
    BY <1>1 DEF RowsBefore, Before
  <1>2. ASSUME NEW g \in ExchangesTo(messages, i, j) PROVE Before(g, <<i, q, j + 1>>)
    <2>1. PICK r, a \in 1 .. j : g = <<i, r, a>>
      BY ExchangesAre
    <2>2. g[1] = i /\ Len(g) = 3 /\ g[3] = a /\ a < j + 1
      BY <2>1
    <2>3. <<i, q, j + 1>>[1] = i /\ <<i, q, j + 1>>[3] = j + 1
      OBVIOUS
    <2> QED
      BY <2>2, <2>3 DEF Before
  <1> QED
    BY <1>1, <1>2 DEF AllBefore

LEMMA TurnStep ==
    ASSUME NEW messages, NEW n \in Nat, NEW i \in Nat, NEW m \in Nat, NEW j \in 0 .. m, j # m,
           NEW acc \in Asking(m), NEW past, RowsBefore(past, i), Took(acc, messages, n, i, j, past)
    PROVE  Took(Turn(acc, messages, n, i, j + 1), messages, n, i, j + 1, past)
  <1> DEFINE say == messages[j + 1]
             f == <<i, acc.asked, j + 1>>
             then == Turn(acc, messages, n, i, j + 1)
             wanted == past \cup ExchangesTo(messages, i, j)
             more == past \cup ExchangesTo(messages, i, j + 1)
  <1>1. /\ j \in Nat /\ acc.asked \in Nat /\ acc.out \in Seq(Seq(Nat)) /\ f \in Seq(Nat)
        /\ acc = [asked |-> acc.asked, out |-> acc.out]
    BY DEF Asking
  <1>2. Waits(messages, acc.asked, j) /\ AreFirst(acc.out, n, wanted)
    BY DEF Took
  <1>3. more = IF acc.asked # 0 /\ Fits3(messages, acc.asked, j + 1) THEN wanted \cup {f} ELSE wanted
    <2>1. ExchangesTo(messages, i, j + 1) =
              IF acc.asked # 0 /\ Fits3(messages, acc.asked, j + 1)
              THEN ExchangesTo(messages, i, j) \cup {f} ELSE ExchangesTo(messages, i, j)
      BY <1>1, <1>2, ExchangesNext
    <2> QED
      BY <2>1
  <1>4. AllBefore(wanted, f)
    BY <1>1, ExchangeBehind
  <1>5. /\ say.role = "user" => Waits(messages, j + 1, j + 1)
        /\ say.role = "assistant" => Waits(messages, 0, j + 1)
        /\ ~Speaks(say) => Waits(messages, acc.asked, j + 1)
    BY <1>1, <1>2, WaitsNext
  <1>6. AreFirst(IF Len(acc.out) < n THEN Append(acc.out, f) ELSE acc.out, n, wanted \cup {f})
    BY <1>1, <1>2, <1>4, NextFirst
  <1> SUFFICES Waits(messages, then.asked, j + 1) /\ AreFirst(then.out, n, more)
    BY DEF Took
  <1> HIDE DEF wanted, more, f
  <1>7. CASE say.role = "user"
    <2>1. then = [asked |-> j + 1, out |-> acc.out]
      BY <1>1, <1>7 DEF Turn
    <2>2. more = wanted
      BY <1>3, <1>7 DEF Fits3
    <2> QED
      BY <1>2, <1>5, <1>7, <2>1, <2>2
  <1>8. CASE say.role = "assistant" /\ acc.asked # 0
    <2>1. then = [asked |-> 0,
                  out |-> IF /\ PairSize(messages[acc.asked].size, say.size) >= MinLength
                             /\ Len(acc.out) < n
                          THEN Append(acc.out, f) ELSE acc.out]
      BY <1>8 DEF Turn, f
    <2>2. CASE Fits3(messages, acc.asked, j + 1)
      <3>1. more = wanted \cup {f}
        BY <1>3, <1>8, <2>2
      <3>2. then = [asked |-> 0, out |-> IF Len(acc.out) < n THEN Append(acc.out, f) ELSE acc.out]
        BY <2>1, <2>2 DEF Fits3
      <3> HIDE DEF then
      <3>3. then.asked = 0 /\ then.out = IF Len(acc.out) < n THEN Append(acc.out, f) ELSE acc.out
        BY <3>2
      <3>4. AreFirst(then.out, n, more)
        BY <1>6, <3>1, <3>3
      <3>5. Waits(messages, then.asked, j + 1)
        BY <1>5, <1>8, <3>3
      <3> QED
        BY <3>4, <3>5
    <2>3. CASE ~Fits3(messages, acc.asked, j + 1)
      <3>1. more = wanted
        BY <1>3, <2>3
      <3>2. then = [asked |-> 0, out |-> acc.out]
        BY <1>8, <2>1, <2>3 DEF Fits3
      <3> QED
        BY <1>2, <1>5, <1>8, <3>1, <3>2
    <2> QED
      BY <2>2, <2>3
  <1>9. CASE say.role = "assistant" /\ acc.asked = 0
    <2>1. then = acc
      BY <1>9 DEF Turn
    <2>2. more = wanted
      BY <1>3, <1>9
    <2> QED
      BY <1>2, <1>5, <1>9, <2>1, <2>2
  <1>10. CASE ~Speaks(say)
    <2>1. say.role # "user" /\ say.role # "assistant"
      BY <1>10 DEF Speaks
    <2>2. then = acc
      BY <2>1 DEF Turn
    <2>3. more = wanted
      BY <1>3, <2>1 DEF Fits3
    <2> QED
      BY <1>2, <1>5, <1>10, <2>2, <2>3
  <1> QED
    BY <1>7, <1>8, <1>9, <1>10 DEF Speaks

LEMMA TurnsWhole ==
    ASSUME NEW rows, NEW n \in Nat, NEW out \in Seq(Seq(Nat)), NEW i \in Nat, NEW messages,
           messages = rows[i].messages, messages \in Seq(Range(messages)),
           NEW past, RowsBefore(past, i), AreFirst(out, n, past)
    PROVE  AreFirst(Turns(rows, n, out, i), n, past \cup ExchangesTo(messages, i, Len(messages)))
  <1>1. PICK st \in [0 .. Len(messages) -> Asking(Len(messages))] : TurnRun(st, rows, n, out, i, messages)
    BY TurnStates
  <1>2. PICK N : N = Len(messages)
    OBVIOUS
  <1>3. N \in Nat
    BY <1>2, LenProperties
  <1> DEFINE F == {k \in 0 .. N : Took(st[k], messages, n, i, k, past)}
  <1>4. 0 \in F
    <2>1. st[0] = [asked |-> 0, out |-> out]
      BY <1>1 DEF TurnRun
    <2>2. st[0].asked = 0 /\ st[0].out = out
      BY <2>1
    <2>3. Waits(messages, 0, 0) /\ past \cup ExchangesTo(messages, i, 0) = past
      BY NoneWaits
    <2>4. Took(st[0], messages, n, i, 0, past)
      BY <2>2, <2>3 DEF Took
    <2> QED
      BY <1>3, <2>4
  <1>5. ASSUME NEW k \in 0 .. N, k # N, k \in F PROVE k + 1 \in F
    <2>1. k + 1 \in 0 .. N
      BY <1>3, <1>5
    <2>2. st[k] \in Asking(N) /\ Took(st[k], messages, n, i, k, past)
      BY <1>2, <1>5
    <2>3. st[k + 1] = Turn(st[k], messages, n, i, k + 1)
      BY <1>1, <1>2, <1>5 DEF TurnRun
    <2>4. Took(Turn(st[k], messages, n, i, k + 1), messages, n, i, k + 1, past)
      BY <1>3, <1>5, <2>2, TurnStep
    <2> QED
      BY <2>1, <2>3, <2>4
  <1> HIDE DEF F
  <1>6. N \in F
    <2>1. \A k \in 0 .. N : k # N /\ k \in F => k + 1 \in F
      BY <1>5
    <2>2. \A k \in 0 .. N : k \in F
      BY <1>3, <1>4, <2>1, NumberSteps
    <2> QED
      BY <1>3, <2>2
  <1>7. Took(st[N], messages, n, i, N, past)
    BY <1>6 DEF F
  <1>8. Turns(rows, n, out, i) = st[N].out
    BY <1>1, <1>2 DEF TurnRun
  <1> QED
    BY <1>2, <1>7, <1>8 DEF Took

(* All conversations: after k rows, the first n exchanges of these.         *)
TalkTo(rows, k) == UNION {ExchangesTo(rows[i].messages, i, Len(rows[i].messages)) : i \in 1 .. k}

LEMMA TalkNext ==
    ASSUME NEW rows, NEW k \in Nat
    PROVE  /\ TalkTo(rows, 0) = {} /\ RowsBefore(TalkTo(rows, k), k + 1)
           /\ TalkTo(rows, k + 1) = TalkTo(rows, k)
                  \cup ExchangesTo(rows[k + 1].messages, k + 1, Len(rows[k + 1].messages))
  <1>1. 1 .. 0 = {} /\ 1 .. k + 1 = (1 .. k) \cup {k + 1}
    OBVIOUS
  <1>2. ASSUME NEW g \in TalkTo(rows, k) PROVE g[1] < k + 1
    <2>1. PICK i \in 1 .. k : g \in ExchangesTo(rows[i].messages, i, Len(rows[i].messages))
      BY DEF TalkTo
    <2>2. g[1] = i
      BY <2>1, ExchangesAre
    <2> QED
      BY <2>2
  <1> DEFINE E(i) == ExchangesTo(rows[i].messages, i, Len(rows[i].messages))
  <1>3. \A l : TalkTo(rows, l) = UNION {E(i) : i \in 1 .. l}
    BY DEF TalkTo
  <1> HIDE DEF E
  <1>4. TalkTo(rows, k + 1) = TalkTo(rows, k) \cup E(k + 1)
    BY <1>1, <1>3
  <1>5. TalkTo(rows, 0) = {}
    BY <1>1, <1>3
  <1> QED
    BY <1>2, <1>4, <1>5 DEF E, RowsBefore

LEMMA PairsWhole ==
    ASSUME NEW rows, rows \in Seq(Range(rows)), NEW n \in Nat,
           \A i \in 1 .. Len(rows) : rows[i].messages \in Seq(Range(rows[i].messages))
    PROVE  AreFirst(Pairs(rows, n), n, Exchanges(rows))
  <1>1. PICK st \in [0 .. Len(rows) -> Seq(Seq(Nat))] :
            /\ st[0] = <<>>
            /\ Pairs(rows, n) = st[Len(rows)]
            /\ \A k \in 0 .. Len(rows) : k # Len(rows) => st[k + 1] = Turns(rows, n, st[k], k + 1)
    BY PairStates
  <1>2. PICK N : N = Len(rows)
    OBVIOUS
  <1>3. N \in Nat /\ DOMAIN rows = 1 .. N
    BY <1>2, RowsAre
  <1> DEFINE F == {k \in 0 .. N : AreFirst(st[k], n, TalkTo(rows, k))}
  <1>4. 0 \in F
    <2>1. TalkTo(rows, 0) = {}
      BY TalkNext
    <2>2. AreFirst(st[0], n, TalkTo(rows, 0))
      BY <1>1, <2>1, NoneFirst
    <2> QED
      BY <1>3, <2>2
  <1>5. ASSUME NEW k \in 0 .. N, k # N, k \in F PROVE k + 1 \in F
    <2>1. k \in Nat /\ k + 1 \in 0 .. N /\ k + 1 \in 1 .. N /\ k + 1 \in Nat
      BY <1>3, <1>5
    <2>2. st[k] \in Seq(Seq(Nat)) /\ AreFirst(st[k], n, TalkTo(rows, k))
      BY <1>2, <1>5
    <2>3. PICK messages : messages = rows[k + 1].messages
      OBVIOUS
    <2>4. messages \in Seq(Range(messages))
      BY <1>2, <2>1, <2>3
    <2>5. RowsBefore(TalkTo(rows, k), k + 1)
      BY <2>1, TalkNext
    <2>6. AreFirst(Turns(rows, n, st[k], k + 1), n,
                   TalkTo(rows, k) \cup ExchangesTo(messages, k + 1, Len(messages)))
      BY <2>1, <2>2, <2>3, <2>4, <2>5, TurnsWhole
    <2>7. TalkTo(rows, k + 1) = TalkTo(rows, k) \cup ExchangesTo(messages, k + 1, Len(messages))
      BY <2>1, <2>3, TalkNext
    <2>8. st[k + 1] = Turns(rows, n, st[k], k + 1)
      BY <1>1, <1>2, <1>5
    <2> QED
      BY <2>1, <2>6, <2>7, <2>8
  <1> HIDE DEF F
  <1>6. N \in F
    <2>1. \A k \in 0 .. N : k # N /\ k \in F => k + 1 \in F
      BY <1>5
    <2>2. \A k \in 0 .. N : k \in F
      BY <1>3, <1>4, <2>1, NumberSteps
    <2> QED
      BY <1>3, <2>2
  <1>7. AreFirst(st[N], n, TalkTo(rows, N))
    BY <1>6 DEF F
  <1>8. TalkTo(rows, N) = Exchanges(rows)
    <2>1. ASSUME NEW i \in 1 .. N
          PROVE  ExchangesTo(rows[i].messages, i, Len(rows[i].messages)) =
                     {<<i, x[1], x[2]>> : x \in {y \in (DOMAIN rows[i].messages) \X (DOMAIN rows[i].messages) :
                                                     IsExchange(rows[i].messages, y[1], y[2])}}
      <3>1. PICK messages : messages = rows[i].messages
        OBVIOUS
      <3>2. DOMAIN messages = 1 .. Len(messages)
        <4>1. messages \in Seq(Range(messages))
          BY <1>2, <3>1
        <4> QED
          BY <4>1, LenProperties
      <3> QED
        BY <3>1, <3>2 DEF ExchangesTo
    <2>2. Exchanges(rows) =
              UNION {{<<i, x[1], x[2]>> : x \in {y \in (DOMAIN rows[i].messages) \X (DOMAIN rows[i].messages) :
                                                     IsExchange(rows[i].messages, y[1], y[2])}} : i \in 1 .. N}
      BY <1>3 DEF Exchanges
    <2> DEFINE E(i) == ExchangesTo(rows[i].messages, i, Len(rows[i].messages))
               D(i) == {<<i, x[1], x[2]>> : x \in {y \in (DOMAIN rows[i].messages) \X (DOMAIN rows[i].messages) :
                                                     IsExchange(rows[i].messages, y[1], y[2])}}
    <2>3. (\A i \in 1 .. N : E(i) = D(i)) /\ TalkTo(rows, N) = UNION {E(i) : i \in 1 .. N}
          /\ Exchanges(rows) = UNION {D(i) : i \in 1 .. N}
      BY <2>1, <2>2 DEF TalkTo
    <2> HIDE DEF E, D
    <2> QED
      BY <2>3
  <1> QED
    BY <1>1, <1>2, <1>7, <1>8

(* The titles of the first k rows, and the place a title has among them.    *)
TitlesTo(rows, k) == {rows[l].title : l \in 1 .. k}
Opens(rows, i) == \A k \in 1 .. i - 1 : rows[k].title # rows[i].title
Place(rows, i) == Cardinality(TitlesTo(rows, i))

LEMMA TitlesNext ==
    ASSUME NEW rows, NEW k \in Nat
    PROVE  /\ TitlesTo(rows, 0) = {}
           /\ TitlesTo(rows, k + 1) = TitlesTo(rows, k) \cup {rows[k + 1].title}
           /\ Opens(rows, k + 1) <=> rows[k + 1].title \notin TitlesTo(rows, k)
  <1>1. 1 .. 0 = {} /\ 1 .. k + 1 = (1 .. k) \cup {k + 1} /\ (k + 1) - 1 = k
    OBVIOUS
  <1>2. TitlesTo(rows, 0) = {}
    BY <1>1 DEF TitlesTo
  <1>3. TitlesTo(rows, k + 1) = TitlesTo(rows, k) \cup {rows[k + 1].title}
    BY <1>1 DEF TitlesTo
  <1>4. Opens(rows, k + 1) <=> rows[k + 1].title \notin TitlesTo(rows, k)
    BY <1>1 DEF TitlesTo, Opens
  <1> QED
    BY <1>2, <1>3, <1>4

(* ds.unique: a title's place in the list is how many there were when its   *)
(* first row was read.                                                      *)
Listed(rows, titles, k) ==
    /\ IsFiniteSet(TitlesTo(rows, k)) /\ Place(rows, k) = Len(titles) /\ ToSet(titles) = TitlesTo(rows, k)
    /\ \A i \in 1 .. k : Opens(rows, i) => /\ Place(rows, i) \in 1 .. Len(titles)
                                           /\ titles[Place(rows, i)] = rows[i].title
    /\ \A p \in 1 .. Len(titles) : \E i \in 1 .. k : Opens(rows, i) /\ Place(rows, i) = p

LEMMA NoneListed == ASSUME NEW rows PROVE Listed(rows, <<>>, 0)
  <1>1. 1 .. 0 = {} /\ Len(<<>>) = 0 /\ ToSet(<<>>) = {}
    BY DEF ToSet
  <1>2. TitlesTo(rows, 0) = {}
    BY TitlesNext
  <1>3. IsFiniteSet({}) /\ Cardinality({}) = 0
    BY FS_EmptySet
  <1> QED
    BY <1>1, <1>2, <1>3 DEF Listed, Place

LEMMA NextListed ==
    ASSUME NEW rows, NEW T, NEW titles \in Seq(T), NEW k \in Nat, rows[k + 1].title \in T,
           Listed(rows, titles, k)
    PROVE  Listed(rows, NextTitle(titles, rows[k + 1]), k + 1)
  <1> DEFINE t == rows[k + 1].title
             L == Len(titles)
  <1>1. L \in Nat /\ 1 .. k + 1 = (1 .. k) \cup {k + 1}
    BY LenProperties
  <1>2. /\ IsFiniteSet(TitlesTo(rows, k)) /\ Cardinality(TitlesTo(rows, k)) = L
        /\ ToSet(titles) = TitlesTo(rows, k)
    BY DEF Listed, Place
  <1>3. /\ TitlesTo(rows, k + 1) = TitlesTo(rows, k) \cup {t}
        /\ Opens(rows, k + 1) <=> t \notin TitlesTo(rows, k)
    BY TitlesNext
  <1>4. CASE t \in TitlesTo(rows, k)
    <2>1. NextTitle(titles, rows[k + 1]) = titles
      BY <1>2, <1>4 DEF NextTitle
    <2>2. TitlesTo(rows, k + 1) = TitlesTo(rows, k) /\ ~Opens(rows, k + 1)
      BY <1>3, <1>4
    <2>3. Place(rows, k + 1) = L
      BY <1>2, <2>2 DEF Place
    <2>4. \A i \in 1 .. k + 1 : Opens(rows, i) => Place(rows, i) \in 1 .. L /\ titles[Place(rows, i)] = rows[i].title
      BY <1>1, <2>2 DEF Listed
    <2>5. \A p \in 1 .. L : \E i \in 1 .. k + 1 : Opens(rows, i) /\ Place(rows, i) = p
      BY <1>1 DEF Listed
    <2> QED
      BY <1>2, <2>1, <2>2, <2>3, <2>4, <2>5 DEF Listed
  <1>5. CASE t \notin TitlesTo(rows, k)
    <2> DEFINE more == Append(titles, t)
    <2>1. NextTitle(titles, rows[k + 1]) = more
      BY <1>2, <1>5 DEF NextTitle
    <2>2. /\ Len(more) = L + 1 /\ more[L + 1] = t /\ \A p \in 1 .. L : more[p] = titles[p]
      BY AppendProperties, LenProperties
    <2>3. ToSet(more) = TitlesTo(rows, k + 1)
      <3>1. t \in T
        OBVIOUS
      <3>2. ToSet(more) = ToSet(titles) \cup {t}
        BY <3>1, ToSetAppend
      <3> QED
        BY <1>2, <1>3, <3>2
    <2> HIDE DEF more
    <2>4. IsFiniteSet(TitlesTo(rows, k + 1)) /\ Place(rows, k + 1) = L + 1
      <3>1. PICK A : A = TitlesTo(rows, k)
        OBVIOUS
      <3>2. IsFiniteSet(A \cup {t}) /\ Cardinality(A \cup {t}) = Cardinality(A) + 1
        BY <1>2, <1>5, <3>1, FS_AddElement
      <3> QED
        BY <1>2, <1>3, <3>1, <3>2 DEF Place
    <2>5. ASSUME NEW i \in 1 .. k + 1, Opens(rows, i)
          PROVE  Place(rows, i) \in 1 .. L + 1 /\ more[Place(rows, i)] = rows[i].title
      <3>1. CASE i \in 1 .. k
        <4>1. Place(rows, i) \in 1 .. L /\ titles[Place(rows, i)] = rows[i].title
          BY <2>5, <3>1 DEF Listed
        <4>2. Place(rows, i) \in 1 .. L + 1
          BY <1>1, <4>1
        <4> QED
          BY <2>2, <4>1, <4>2
      <3>2. CASE i = k + 1
        <4>1. L + 1 \in 1 .. L + 1
          BY <1>1
        <4> QED
          BY <2>2, <2>4, <3>2, <4>1
      <3> QED
        BY <1>1, <3>1, <3>2
    <2>6. ASSUME NEW p \in 1 .. L + 1
          PROVE  \E i \in 1 .. k + 1 : Opens(rows, i) /\ Place(rows, i) = p
      <3>1. CASE p \in 1 .. L
        <4>1. PICK i \in 1 .. k : Opens(rows, i) /\ Place(rows, i) = p
          BY <3>1 DEF Listed
        <4> QED
          BY <1>1, <4>1
      <3>2. CASE p = L + 1
        <4>1. k + 1 \in 1 .. k + 1 /\ Opens(rows, k + 1) /\ Place(rows, k + 1) = p
          BY <1>1, <1>3, <1>5, <2>4, <3>2
        <4> QED
          BY <4>1
      <3>3. p \in 1 .. L \/ p = L + 1
        BY <1>1
      <3> QED
        BY <3>1, <3>2, <3>3
    <2> QED
      BY <2>1, <2>2, <2>3, <2>4, <2>5, <2>6 DEF Listed
  <1> QED
    BY <1>4, <1>5

(* The selected titles are those whose place is among the first n.          *)
LEMMA FirstIs ==
    ASSUME NEW T, NEW s \in Seq(T), NEW n \in Nat
    PROVE  /\ \A x : x \in ToSet(First(s, n)) <=> \E p \in 1 .. Len(s) : p <= n /\ s[p] = x
           /\ IsFiniteSet(ToSet(First(s, n))) /\ Cardinality(ToSet(First(s, n))) <= n
  <1> DEFINE k == IF Len(s) < n THEN Len(s) ELSE n
             q == SubSeq(s, 1, k)
  <1>1. k \in Nat /\ k <= n /\ k <= Len(s) /\ Len(s) \in Nat
    BY LenProperties
  <1>2. First(s, n) = q
    BY DEF First
  <1>3. \A p : p \in 1 .. k <=> p \in 1 .. Len(s) /\ p <= n
    BY <1>1
  <1> HIDE DEF k
  <1>4. \A p \in 1 .. k : s[p] \in T
    <2>1. \A p \in 1 .. Len(s) : s[p] \in T
      BY LenProperties
    <2> QED
      BY <1>3, <2>1
  <1>5. q \in Seq(T) /\ Len(q) = k /\ \A p \in 1 .. k : q[p] = s[p]
    BY <1>1, <1>4, SubSeqProperties
  <1>6. DOMAIN q = 1 .. k
    BY <1>5, LenProperties
  <1> HIDE DEF q
  <1>7. \A x : x \in ToSet(q) <=> \E p \in 1 .. k : s[p] = x
    BY <1>5, <1>6 DEF ToSet
  <1>8. IsFiniteSet(ToSet(q)) /\ Cardinality(ToSet(q)) <= n
    <2>1. IsFiniteSet(1 .. k) /\ Cardinality(1 .. k) = k
      BY <1>1, FS_Interval
    <2> DEFINE f == [p \in 1 .. k |-> q[p]]
    <2>2. f \in Surjection(1 .. k, ToSet(q))
      BY <1>6 DEF Surjection, ToSet
    <2> HIDE DEF f
    <2>3. IsFiniteSet(ToSet(q)) /\ Cardinality(ToSet(q)) <= Cardinality(1 .. k)
      BY <2>1, <2>2, FS_Surjection
    <2>4. Cardinality(ToSet(q)) \in Nat
      BY <2>3, FS_CardinalityType
    <2> QED
      BY <1>1, <2>1, <2>3, <2>4
  <1> QED
    BY <1>2, <1>3, <1>7, <1>8

LEMMA SelectedAre ==
    ASSUME NEW rows, rows \in Seq(Range(rows)), NEW n \in Nat
    PROVE  /\ IsFiniteSet(ToSet(Selected(rows, n))) /\ Cardinality(ToSet(Selected(rows, n))) <= n
           /\ \A i \in 1 .. Len(rows) :
                 Opens(rows, i) => (rows[i].title \in ToSet(Selected(rows, n)) <=> Place(rows, i) <= n)
  <1>1. PICK T : T = {row.title : row \in Range(rows)}
    OBVIOUS
  <1>2. PICK N : N = Len(rows)
    OBVIOUS
  <1>3. PICK st \in [0 .. N -> Seq(T)] :
            /\ st[0] = <<>>
            /\ FoldLeft(NextTitle, <<>>, rows) = st[N]
            /\ \A k \in 0 .. N : k # N => st[k + 1] = NextTitle(st[k], rows[k + 1])
    BY <1>1, <1>2, TitleStates
  <1>4. N \in Nat /\ \A i \in 1 .. N : rows[i].title \in T
    BY <1>1, <1>2, RowsAre, RangeOf
  <1> DEFINE F == {k \in 0 .. N : Listed(rows, st[k], k)}
  <1>5. 0 \in F
    BY <1>3, <1>4, NoneListed
  <1>6. ASSUME NEW k \in 0 .. N, k # N, k \in F PROVE k + 1 \in F
    <2>1. k \in Nat /\ k + 1 \in 0 .. N /\ k + 1 \in 1 .. N
      BY <1>4, <1>6
    <2>2. st[k] \in Seq(T) /\ Listed(rows, st[k], k)
      BY <1>6
    <2>3. Listed(rows, NextTitle(st[k], rows[k + 1]), k + 1)
      BY <1>4, <2>1, <2>2, NextListed
    <2> QED
      BY <1>3, <1>6, <2>1, <2>3
  <1> HIDE DEF F
  <1>7. N \in F
    <2>1. \A k \in 0 .. N : k # N /\ k \in F => k + 1 \in F
      BY <1>6
    <2>2. \A k \in 0 .. N : k \in F
      BY <1>4, <1>5, <2>1, NumberSteps
    <2> QED
      BY <1>4, <2>2
  <1>8. PICK all \in Seq(T) : all = st[N] /\ Listed(rows, all, N) /\ Selected(rows, n) = First(all, n)
    <2>1. st[N] \in Seq(T) /\ Listed(rows, st[N], N)
      BY <1>4, <1>7 DEF F
    <2> QED
      BY <1>3, <2>1 DEF Selected
  <1>9. ASSUME NEW i \in 1 .. N, Opens(rows, i)
        PROVE  rows[i].title \in ToSet(Selected(rows, n)) <=> Place(rows, i) <= n
    <2>1. Place(rows, i) \in 1 .. Len(all) /\ all[Place(rows, i)] = rows[i].title
      BY <1>8, <1>9 DEF Listed
    <2>2. ASSUME NEW p \in 1 .. Len(all), p <= n, all[p] = rows[i].title PROVE Place(rows, i) = p
      <3>1. PICK j \in 1 .. N : Opens(rows, j) /\ Place(rows, j) = p
        BY <1>8 DEF Listed
      <3>2. all[Place(rows, j)] = rows[j].title
        BY <1>8, <3>1 DEF Listed
      <3>3. rows[j].title = rows[i].title
        BY <2>2, <3>1, <3>2
      <3>4. ~(j < i) /\ ~(i < j)
        <4>1. j < i => j \in 1 .. i - 1
          BY <1>4
        <4>2. i < j => i \in 1 .. j - 1
          BY <1>4
        <4> QED
          BY <1>9, <3>1, <3>3, <4>1, <4>2 DEF Opens
      <3>5. i = j
        BY <1>4, <3>4
      <3> QED
        BY <3>1, <3>5
    <2> QED
      BY <1>8, <2>1, <2>2, FirstIs
  <1> QED
    BY <1>2, <1>8, <1>9, FirstIs

(* The rows of the selected titles: after k rows, the files of those that   *)
(* open one and are long enough.                                            *)
FirstsTo(rows, T, k) ==
    {<<i>> : i \in {j \in 1 .. k : Opens(rows, j) /\ rows[j].title \in T /\ rows[j].size >= MinLength}}
UsedUp(rows, T, acc, k) ==
    /\ acc.seen = TitlesTo(rows, k) \cap T
    /\ InOrder(acc.out) /\ ToSet(acc.out) = FirstsTo(rows, T, k) /\ Len(acc.out) <= Cardinality(acc.seen)

LEMMA FirstsNext ==
    ASSUME NEW rows, NEW T, NEW k \in Nat
    PROVE  /\ FirstsTo(rows, T, 0) = {} /\ AllBefore(FirstsTo(rows, T, k), <<k + 1>>)
           /\ FirstsTo(rows, T, k + 1) =
                  IF Opens(rows, k + 1) /\ rows[k + 1].title \in T /\ rows[k + 1].size >= MinLength
                  THEN FirstsTo(rows, T, k) \cup {<<k + 1>>} ELSE FirstsTo(rows, T, k)
  <1> DEFINE P(j) == Opens(rows, j) /\ rows[j].title \in T /\ rows[j].size >= MinLength
  <1>1. \A l : FirstsTo(rows, T, l) = {<<i>> : i \in {j \in 1 .. l : P(j)}}
    BY DEF FirstsTo
  <1>2. /\ 1 .. 0 = {} /\ 1 .. k + 1 = (1 .. k) \cup {k + 1}
        /\ \A i \in 1 .. k : i < k + 1
    OBVIOUS
  <1>3. \A i : <<i>>[1] = i
    OBVIOUS
  <1> HIDE DEF P
  <1>4. FirstsTo(rows, T, 0) = {}
    BY <1>1, <1>2
  <1>5. AllBefore(FirstsTo(rows, T, k), <<k + 1>>)
    BY <1>1, <1>2, <1>3 DEF AllBefore, Before
  <1>6. P(k + 1) => FirstsTo(rows, T, k + 1) = FirstsTo(rows, T, k) \cup {<<k + 1>>}
    BY <1>1, <1>2
  <1>7. ~P(k + 1) => FirstsTo(rows, T, k + 1) = FirstsTo(rows, T, k)
    BY <1>1, <1>2
  <1> QED
    BY <1>4, <1>5, <1>6, <1>7 DEF P

LEMMA UsedNext ==
    ASSUME NEW rows, NEW T, IsFiniteSet(T), NEW k \in Nat, NEW acc \in Uses(T), UsedUp(rows, T, acc, k)
    PROVE  UsedUp(rows, T, Used(rows, T, acc, k + 1), k + 1)
  <1> DEFINE t == rows[k + 1].title
             out == acc.out
             seen == acc.seen
  <1>1. /\ out \in Seq(Seq(Nat)) /\ seen \subseteq T /\ Len(out) \in Nat
        /\ seen = TitlesTo(rows, k) \cap T /\ InOrder(out) /\ ToSet(out) = FirstsTo(rows, T, k)
        /\ Len(out) <= Cardinality(seen)
    BY LenProperties DEF Uses, UsedUp
  <1>2. /\ TitlesTo(rows, k + 1) = TitlesTo(rows, k) \cup {t}
        /\ Opens(rows, k + 1) <=> t \notin TitlesTo(rows, k)
    BY TitlesNext
  <1>3. /\ AllBefore(FirstsTo(rows, T, k), <<k + 1>>)
        /\ FirstsTo(rows, T, k + 1) =
               IF Opens(rows, k + 1) /\ t \in T /\ rows[k + 1].size >= MinLength
               THEN FirstsTo(rows, T, k) \cup {<<k + 1>>} ELSE FirstsTo(rows, T, k)
    BY FirstsNext
  <1>4. CASE t \notin T \ seen
    <2>1. Used(rows, T, acc, k + 1) = acc
      BY <1>4 DEF Used
    <2>2. TitlesTo(rows, k + 1) \cap T = seen /\ FirstsTo(rows, T, k + 1) = FirstsTo(rows, T, k)
      BY <1>1, <1>2, <1>3, <1>4
    <2> QED
      BY <1>1, <2>1, <2>2 DEF UsedUp
  <1>5. CASE t \in T \ seen
    <2> DEFINE more == IF rows[k + 1].size >= MinLength THEN Append(out, <<k + 1>>) ELSE out
               full == seen \cup {t}
    <2>1. Used(rows, T, acc, k + 1) = [seen |-> full, out |-> more]
      BY <1>5 DEF Used
    <2>2. Opens(rows, k + 1) /\ TitlesTo(rows, k + 1) \cap T = full
      BY <1>1, <1>2, <1>5
    <2>3. IsFiniteSet(seen) /\ Cardinality(full) = Cardinality(seen) + 1 /\ Cardinality(seen) \in Nat
      BY <1>1, <1>5, FS_Subset, FS_AddElement, FS_CardinalityType
    <2>4. /\ InOrder(Append(out, <<k + 1>>))
          /\ ToSet(Append(out, <<k + 1>>)) = FirstsTo(rows, T, k) \cup {<<k + 1>>}
          /\ Len(Append(out, <<k + 1>>)) = Len(out) + 1
      <3>1. <<k + 1>> \in Seq(Nat)
        BY OneFile
      <3>2. AllBefore(ToSet(out), <<k + 1>>)
        BY <1>1, <1>3
      <3>3. PICK f \in Seq(Nat) : f = <<k + 1>>
        BY <3>1
      <3>4. InOrder(Append(out, f)) /\ ToSet(Append(out, f)) = ToSet(out) \cup {f} /\ Len(Append(out, f)) = Len(out) + 1
        <4>1. out \in Seq(Seq(Nat)) /\ InOrder(out) /\ AllBefore(ToSet(out), f)
          BY <1>1, <3>2, <3>3
        <4> HIDE DEF out
        <4> QED
          BY <4>1, AppendBehind
      <3> QED
        BY <1>1, <3>3, <3>4
    <2> HIDE DEF full
    <2>5. InOrder(more) /\ ToSet(more) = FirstsTo(rows, T, k + 1) /\ Len(more) <= Cardinality(full)
      <3>1. CASE rows[k + 1].size >= MinLength
        <4>1. more = Append(out, <<k + 1>>)
          BY <3>1
        <4>2. FirstsTo(rows, T, k + 1) = FirstsTo(rows, T, k) \cup {<<k + 1>>}
          BY <1>3, <1>5, <2>2, <3>1
        <4> HIDE DEF more
        <4>3. Len(more) <= Cardinality(full)
          BY <1>1, <2>3, <2>4, <4>1
        <4> QED
          BY <2>4, <4>1, <4>2, <4>3
      <3>2. CASE ~(rows[k + 1].size >= MinLength)
        <4>1. more = out
          BY <3>2
        <4>2. FirstsTo(rows, T, k + 1) = FirstsTo(rows, T, k)
          BY <1>3, <3>2
        <4> HIDE DEF more
        <4> QED
          BY <1>1, <2>3, <4>1, <4>2
      <3> QED
        BY <3>1, <3>2
    <2> HIDE DEF more
    <2> QED
      BY <2>1, <2>2, <2>5 DEF UsedUp
  <1> QED
    BY <1>4, <1>5

LEMMA TitledWhole ==
    ASSUME NEW rows, rows \in Seq(Range(rows)), NEW n \in Nat
    PROVE  /\ InOrder(Titled(rows, n)) /\ Len(Titled(rows, n)) \in 0 .. n
           /\ ToSet(Titled(rows, n)) = {<<i>> : i \in Openings(rows, n) \cap Long(rows)}
  <1>1. PICK T : T = ToSet(Selected(rows, n))
    OBVIOUS
  <1>2. PICK N : N = Len(rows)
    OBVIOUS
  <1>3. PICK st \in [0 .. N -> Uses(T)] :
            /\ st[0] = [seen |-> {}, out |-> <<>>]
            /\ Titled(rows, n) = st[N].out
            /\ \A k \in 0 .. N : k # N => st[k + 1] = Used(rows, T, st[k], k + 1)
    BY <1>1, <1>2, UseStates
  <1>4. N \in Nat /\ DOMAIN rows = 1 .. N
    BY <1>2, RowsAre
  <1>5. /\ IsFiniteSet(T) /\ Cardinality(T) <= n
        /\ \A i \in 1 .. N : Opens(rows, i) => (rows[i].title \in T <=> Place(rows, i) <= n)
    BY <1>1, <1>2, SelectedAre
  <1> DEFINE F == {k \in 0 .. N : UsedUp(rows, T, st[k], k)}
  <1>6. 0 \in F
    <2>1. st[0].seen = {} /\ st[0].out = <<>>
      BY <1>3
    <2>2. TitlesTo(rows, 0) = {} /\ FirstsTo(rows, T, 0) = {}
      BY TitlesNext, FirstsNext
    <2>3. InOrder(<<>>) /\ ToSet(<<>>) = {} /\ Len(<<>>) = 0
      BY DEF InOrder, ToSet
    <2>4. Cardinality({}) = 0
      BY FS_EmptySet
    <2>5. UsedUp(rows, T, st[0], 0)
      <3>1. PICK acc : acc = st[0]
        OBVIOUS
      <3>2. acc.seen = {} /\ acc.out = <<>>
        BY <2>1, <3>1
      <3>4. Len(acc.out) = 0 /\ Cardinality(acc.seen) = 0
        BY <2>3, <2>4, <3>2
      <3>3. UsedUp(rows, T, acc, 0)
        <4>1. acc.seen = TitlesTo(rows, 0) \cap T
          BY <2>2, <3>2
        <4>2. InOrder(acc.out) /\ ToSet(acc.out) = FirstsTo(rows, T, 0)
          BY <2>2, <2>3, <3>2
        <4>3. Len(acc.out) <= Cardinality(acc.seen)
          BY <3>4
        <4> QED
          BY <4>1, <4>2, <4>3 DEF UsedUp
      <3> QED
        BY <3>1, <3>3
    <2> QED
      BY <1>4, <2>5
  <1>7. ASSUME NEW k \in 0 .. N, k # N, k \in F PROVE k + 1 \in F
    <2>1. k \in Nat /\ k + 1 \in 0 .. N
      BY <1>4, <1>7
    <2>2. st[k] \in Uses(T) /\ UsedUp(rows, T, st[k], k)
      BY <1>7
    <2>3. UsedUp(rows, T, Used(rows, T, st[k], k + 1), k + 1)
      BY <1>5, <2>1, <2>2, UsedNext
    <2> QED
      BY <1>3, <1>7, <2>1, <2>3
  <1> HIDE DEF F
  <1>8. N \in F
    <2>1. \A k \in 0 .. N : k # N /\ k \in F => k + 1 \in F
      BY <1>7
    <2>2. \A k \in 0 .. N : k \in F
      BY <1>4, <1>6, <2>1, NumberSteps
    <2> QED
      BY <1>4, <2>2
  <1>9. PICK acc \in Uses(T) : acc = st[N] /\ UsedUp(rows, T, acc, N) /\ Titled(rows, n) = acc.out
    BY <1>3, <1>4, <1>8 DEF F
  <1>10. Len(acc.out) \in 0 .. n
    <2>1. acc.seen \subseteq T /\ Len(acc.out) \in Nat /\ Len(acc.out) <= Cardinality(acc.seen)
      BY <1>9, LenProperties DEF Uses, UsedUp
    <2>2. Cardinality(acc.seen) <= Cardinality(T) /\ Cardinality(acc.seen) \in Nat /\ Cardinality(T) \in Nat
      BY <1>5, <2>1, FS_Subset, FS_CardinalityType
    <2> QED
      BY <1>5, <2>1, <2>2
  <1>11. FirstsTo(rows, T, N) = {<<i>> : i \in Openings(rows, n) \cap Long(rows)}
    <2>1. \A i \in 1 .. N : i \in Openings(rows, n) <=> Opens(rows, i) /\ Place(rows, i) <= n
      BY <1>4 DEF Openings, Opens, Place, TitlesTo
    <2>2. \A i : i \in Openings(rows, n) \cap Long(rows)
                  <=> i \in 1 .. N /\ Opens(rows, i) /\ rows[i].title \in T /\ rows[i].size >= MinLength
      BY <1>4, <1>5, <2>1 DEF Openings, Long
    <2>3. Openings(rows, n) \cap Long(rows) =
              {j \in 1 .. N : Opens(rows, j) /\ rows[j].title \in T /\ rows[j].size >= MinLength}
      BY <2>2
    <2> QED
      BY <2>3 DEF FirstsTo
  <1> QED
    BY <1>9, <1>10, <1>11 DEF UsedUp

(* Whatever the strategy of the dataset, its files are the wanted ones.     *)
LEMMA LoadsAllWhole ==
    ASSUME NEW dataset, WellFormed(dataset), NEW n \in Nat
    PROVE  LoadsWhole(dataset, n) /\ Len(Loaded(dataset, n)) \in 0 .. n
  <1>1. PICK rows : rows = dataset.rows
    OBVIOUS
  <1>2. rows \in Seq(Range(rows)) /\ dataset.kind \in {"titled", "pairs", "scan"}
    BY <1>1 DEF WellFormed
  <1>3. CASE dataset.kind = "pairs"
    <2>1. \A i \in 1 .. Len(rows) : rows[i].messages \in Seq(Range(rows[i].messages))
      BY <1>1, <1>2, <1>3, RangeOf DEF WellFormed
    <2>2. AreFirst(Pairs(rows, n), n, Exchanges(rows))
      BY <1>2, <2>1, PairsWhole
    <2>3. Pairs(rows, n) \in Seq(Seq(Nat))
      <3>1. PICK st \in [0 .. Len(rows) -> Seq(Seq(Nat))] : Pairs(rows, n) = st[Len(rows)]
        BY <1>2, <2>1, PairStates
      <3> QED
        BY <1>2, <3>1, LenProperties
    <2>4. Loaded(dataset, n) = Pairs(rows, n)
      BY <1>1, <1>3 DEF Loaded
    <2>5. Len(Pairs(rows, n)) \in 0 .. n
      BY <2>2, <2>3, LenProperties DEF AreFirst
    <2> QED
      BY <1>1, <1>3, <2>2, <2>4, <2>5 DEF LoadsWhole
  <1>4. CASE dataset.kind = "titled"
    <2>1. Loaded(dataset, n) = Titled(rows, n)
      BY <1>1, <1>4 DEF Loaded
    <2> QED
      BY <1>1, <1>2, <1>4, <2>1, TitledWhole DEF LoadsWhole
  <1>5. CASE dataset.kind = "scan"
    <2>1. AreFirst(Scanned(rows, n), n, {<<i>> : i \in Long(rows)})
      BY <1>2, ScanWhole
    <2>2. Scanned(rows, n) \in Seq(Seq(Nat))
      <3>1. PICK st \in [0 .. Len(rows) -> Seq(Seq(Nat))] : Scanned(rows, n) = st[Len(rows)]
        BY <1>2, ScanStates
      <3> QED
        BY <1>2, <3>1, LenProperties
    <2>3. Loaded(dataset, n) = Scanned(rows, n)
      BY <1>1, <1>5 DEF Loaded
    <2>4. Len(Scanned(rows, n)) \in 0 .. n
      BY <2>1, <2>2, LenProperties DEF AreFirst
    <2> QED
      BY <1>1, <1>5, <2>1, <2>3, <2>4 DEF LoadsWhole
  <1> QED
    BY <1>2, <1>3, <1>4, <1>5

(* The adapter gives no more files than were asked for, whichever strategy  *)
(* the dataset has.                                                         *)
THEOREM AtMostSamples == \A d \in Datasets : NumFiles[d] \in 0 .. Samples
  <1> SUFFICES ASSUME NEW d \in Datasets PROVE Len(Loaded(Dataset[d], Samples)) \in 0 .. Samples
    BY DEF NumFiles
  <1>1. WellFormed(Dataset[d]) /\ Samples \in Nat
    BY LoadAssumption DEF Datasets
  <1> QED
    BY <1>1, LoadsAllWhole

LEMMA RangeIn == ASSUME NEW S, NEW s \in Seq(S) PROVE \A x \in Range(s) : x \in S
  BY LenProperties DEF Range

(* Every dataset that can be built, of any number of rows and messages, for *)
(* any titles and any number of samples: the files are the first exchanges  *)
(* of the conversations, the first rows of the first titles, or the first   *)
(* rows, without the short ones.                                            *)
THEOREM SamplesStayWhole == AnyDataset => []SamplesAreWhole
  <1> DEFINE Built == table \in Seq(Row) /\ talk \in Seq(Conversation)
             Grow == (\E row \in Row : AddRow(row)) \/ Begin \/ (\E m \in Message : Say(m))
  <1>1. table = <<>> /\ talk = <<>> => Built
    OBVIOUS
  <1>2. Built /\ [Grow]_<<table, talk>> => Built'
    <2> SUFFICES ASSUME Built, [Grow]_<<table, talk>> PROVE Built'
      OBVIOUS
    <2>1. ASSUME NEW row \in Row, AddRow(row) PROVE Built'
      BY <2>1 DEF AddRow
    <2>2. CASE Begin
      <3>1. <<>> \in Seq(Message)
        OBVIOUS
      <3>2. [messages |-> <<>>] \in Conversation
        BY <3>1 DEF Conversation
      <3> QED
        BY <2>2, <3>2 DEF Begin
    <2>3. ASSUME NEW m \in Message, Say(m) PROVE Built'
      <3> DEFINE last == Len(talk)
      <3>1. last \in Nat /\ DOMAIN talk = 1 .. last /\ last # 0
        BY <2>3, LenProperties, EmptySeq DEF Say
      <3>2. last \in 1 .. last
        BY <3>1
      <3>3. talk[last] \in Conversation
        BY <3>1, <3>2
      <3>4. Append(talk[last].messages, m) \in Seq(Message)
        BY <3>3 DEF Conversation
      <3>5. [talk[last] EXCEPT !.messages = Append(talk[last].messages, m)] \in Conversation
        BY <3>3, <3>4 DEF Conversation
      <3>6. talk' = [talk EXCEPT ![last] = [talk[last] EXCEPT !.messages = Append(talk[last].messages, m)]]
        BY <2>3 DEF Say
      <3>7. PICK new \in Conversation : talk' = [talk EXCEPT ![last] = new]
        BY <3>5, <3>6
      <3>8. talk' \in Seq(Conversation)
        BY <3>2, <3>7, ExceptSeq
      <3> QED
        BY <2>3, <3>8 DEF Say
    <2>4. CASE UNCHANGED <<table, talk>>
      BY <2>4
    <2> QED
      BY <2>1, <2>2, <2>3, <2>4
  <1>3. Built => SamplesAreWhole
    <2> SUFFICES ASSUME Built PROVE SamplesAreWhole
      OBVIOUS
    <2>1. PerDataset \in Nat
      BY PerDatasetAssumption
    <2>2. table \in Seq(Range(table)) /\ talk \in Seq(Range(talk)) /\ \A row \in Range(talk) : row \in Conversation
      <3>1. table \in Seq(Range(table))
        BY SeqOfRange
      <3>2. talk \in Seq(Range(talk))
        BY SeqOfRange
      <3>3. \A row \in Range(talk) : row \in Conversation
        BY RangeIn
      <3> QED
        BY <3>1, <3>2, <3>3
    <2>3. \A row \in Range(talk) : row.messages \in Seq(Range(row.messages))
      BY <2>2, SeqOfRange DEF Conversation
    <2>4. ASSUME NEW kind \in {"titled", "scan"}
          PROVE  LoadsWhole([kind |-> kind, rows |-> table], PerDataset)
      <3>1. WellFormed([kind |-> kind, rows |-> table])
        BY <2>2 DEF WellFormed
      <3> QED
        BY <2>1, <3>1, LoadsAllWhole
    <2>5. LoadsWhole([kind |-> "pairs", rows |-> talk], PerDataset)
      <3>1. WellFormed([kind |-> "pairs", rows |-> talk])
        BY <2>2, <2>3 DEF WellFormed
      <3> QED
        BY <2>1, <3>1, LoadsAllWhole
    <2> QED
      BY <2>4, <2>5 DEF SamplesAreWhole
  <1> QED
    BY <1>1, <1>2, <1>3, PTL DEF AnyDataset

-----------------------------------------------------------------------------
(* The counters: every one is the size of a set of files.                   *)

LEMMA FilesOfOne ==
    ASSUME NEW d, NEW n \in Nat
    PROVE  IsFiniteSet({d} \X (1 .. n)) /\ Cardinality({d} \X (1 .. n)) = n
  <1> DEFINE I == 1 .. n
  <1>1. IsFiniteSet({d}) /\ Cardinality({d}) = 1
    BY FS_Singleton
  <1>2. IsFiniteSet(I) /\ Cardinality(I) = n
    BY FS_Interval
  <1> HIDE DEF I
  <1>3. IsFiniteSet({d} \X I) /\ Cardinality({d} \X I) = Cardinality({d}) * Cardinality(I)
    BY <1>1, <1>2, FS_Product
  <1>4. Cardinality({d} \X I) = n
    BY <1>1, <1>2, <1>3
  <1> QED
    BY <1>3, <1>4 DEF I

LEMMA FilesAre ==
    /\ Files = Blocks(NumFiles, Datasets) /\ IsFiniteSet(Files) /\ NumTotal \in Nat
    /\ \A S \in SUBSET Files : IsFiniteSet(S) /\ Cardinality(S) \in 0 .. NumTotal
    /\ \A d \in Datasets : NumFiles[d] \in 0 .. NumTotal
  <1>1. \A d \in Datasets : NumFiles[d] \in Nat
    BY AtMostSamples, LoadAssumption
  <1>2. Files = Blocks(NumFiles, Datasets)
    BY DEF Files, Blocks
  <1>3. IsFiniteSet(Files) /\ NumTotal \in Nat
    BY <1>1, <1>2, DatasetsAre, BlocksFinite DEF NumTotal
  <1>4. ASSUME NEW S \in SUBSET Files PROVE IsFiniteSet(S) /\ Cardinality(S) \in 0 .. NumTotal
    <2>1. IsFiniteSet(S) /\ Cardinality(S) <= NumTotal /\ Cardinality(S) \in Nat
      BY <1>3, FS_Subset, FS_CardinalityType DEF NumTotal
    <2> QED
      BY <1>3, <2>1
  <1>5. ASSUME NEW d \in Datasets PROVE NumFiles[d] \in 0 .. NumTotal
    <2> DEFINE n == NumFiles[d]
    <2>1. n \in Nat
      BY <1>1
    <2>2. {d} \X (1 .. n) \subseteq Files
      BY DEF Files
    <2> HIDE DEF n
    <2>3. Cardinality({d} \X (1 .. n)) = n
      BY <2>1, FilesOfOne
    <2> QED
      BY <1>4, <2>2, <2>3 DEF n
  <1> QED
    BY <1>2, <1>3, <1>4, <1>5

LEMMA TallyFits ==
    ASSUME NEW s \in Sources, NEW st \in SUBSET Files,
           \A c \in Datasets : s[c].count <= Cardinality({f \in st : f[1] = c}), NEW d
    PROVE  TalliedOf(s, d) \in 0 .. NumTotal
  <1> DEFINE g == [c \in Datasets |-> s[c].count]
  <1>1. ASSUME NEW c \in Datasets PROVE g[c] <= NumFiles[c] /\ g[c] \in Nat /\ NumFiles[c] \in Nat
    <2> DEFINE n == NumFiles[c]
               mine == {f \in st : f[1] = c}
    <2>1. n \in Nat /\ s[c].count \in Nat /\ s[c].count <= Cardinality(mine)
      BY AtMostSamples, LoadAssumption DEF Sources
    <2>2. mine \subseteq {c} \X (1 .. n)
      BY DEF Files
    <2> HIDE DEF n, mine
    <2>3. IsFiniteSet({c} \X (1 .. n)) /\ Cardinality({c} \X (1 .. n)) = n
      BY <2>1, FilesOfOne
    <2>4. Cardinality(mine) <= Cardinality({c} \X (1 .. n)) /\ Cardinality(mine) \in Nat
      BY <2>2, <2>3, FS_Subset, FS_CardinalityType
    <2>5. s[c].count <= n
      BY <2>1, <2>3, <2>4
    <2> QED
      BY <2>1, <2>5 DEF n
  <1>2. Blocks(g, Below(d)) \subseteq Files
    <2> HIDE DEF g
    <2> SUFFICES ASSUME NEW c \in Below(d), NEW f \in {c} \X (1 .. g[c]) PROVE f \in Files
      BY DEF Blocks
    <2>1. c \in Datasets
      BY DEF Below
    <2>2. 1 .. g[c] \subseteq 1 .. NumFiles[c]
      BY <1>1, <2>1
    <2>3. f \in {c} \X (1 .. NumFiles[c])
      BY <2>2
    <2> QED
      BY <2>1, <2>3 DEF Files
  <1> HIDE DEF g
  <1> QED
    BY <1>2, FilesAre DEF TalliedOf, g

(* The files of the task are those of its request, and a file is in the     *)
(* stream only if it is in the store.                                       *)
Kept ==
    /\ stored \subseteq Files /\ stream \subseteq stored
    /\ load.d \in Datasets
    /\ load.pc \in {"upload", "publish"} => load.i \in 1 .. NumFiles[load.d]
    /\ load.pc = "publish" => This \in stored

(* The counters of the task.                                                *)
Measured ==
    load.i \in 1 .. NumTotal + 1 /\ load.published \in 0 .. NumTotal /\ load.total \in 0 .. NumTotal

(* Those of the job.                                                        *)
Reported ==
    /\ job \in JobOf(0 .. NumTotal) /\ job.processed <= Cardinality(stream)
    /\ ~job.known /\ job.end = "none" => job.events = <<>>
    /\ load.pc # "off" => job.known

(* A reader never is past the events of its job.                            *)
Behind == \A r \in Readers : reader[r].left \in 0 .. reader[r].pos /\ reader[r].pos <= Len(job.events)

LEMMA ThisIsFile ==
    ASSUME Kept, load.pc \in {"upload", "publish"} PROVE This \in Files
  BY DEF Kept, This, Files

LEMMA TypesInit == Init => Kept /\ Measured /\ Reported /\ Behind
  <1> SUFFICES ASSUME Init PROVE Kept /\ Measured /\ Reported /\ Behind
    OBVIOUS
  <1>1. Kept
    BY DatasetsAre DEF Init, Kept, NoLoad
  <1>2. Measured
    BY FilesAre DEF Init, Measured, NoLoad
  <1>3. job \in JobOf(0 .. NumTotal) /\ job.processed = 0 /\ job.events = <<>> /\ Cardinality(stream) = 0
    BY FilesAre, FS_EmptySet DEF Init, NoJob, JobOf
  <1>4. Reported
    BY <1>3 DEF Init, NoLoad, Reported
  <1>5. Behind
    BY <1>3 DEF Init, NoReader, Behind
  <1> QED
    BY <1>1, <1>2, <1>4, <1>5

LEMMA NextFileIs ==
    ASSUME NEW l \in Loads, l.d \in Datasets, l.i \in 1 .. NumFiles[l.d]
    PROVE  /\ NextFile(l).pc \in {"complete", "upload"} /\ NextFile(l).i \in 1 .. NumTotal + 1
           /\ NextFile(l).pc = "upload" => NextFile(l).i \in 1 .. NumFiles[l.d]
  <1>1. NumFiles[l.d] \in Nat /\ NumFiles[l.d] <= NumTotal /\ NumTotal \in Nat
    BY FilesAre
  <1>2. l.i + 1 \in 1 .. NumTotal + 1 /\ (l.i # NumFiles[l.d] => l.i + 1 \in 1 .. NumFiles[l.d])
    BY <1>1
  <1>3. /\ NextFile(l).pc \in {"complete", "upload"} /\ NextFile(l).i = l.i + 1
        /\ NextFile(l).pc = "upload" => l.i # NumFiles[l.d]
    BY DEF NextFile, Loads
  <1> QED
    BY <1>2, <1>3

(* The places of the files the task goes through.                           *)
LEMMA PlacesStep ==
    ASSUME IInv, Kept, Measured, [Next]_vars
    PROVE  Kept' /\ load'.i \in 1 .. NumTotal + 1
  <1>1. load \in Loads /\ NumTotal \in Nat /\ load.i \in 1 .. NumTotal + 1 /\ load.d \in Datasets
    BY FilesAre DEF IInv, Shape, Measured, Kept
  <1>2. CASE CreateSource \/ CreateSourceFails \/ FetchFails \/ CompleteFails \/ Fail
    <2>1. /\ load'.pc \in {"off", "fetch", "fail"} /\ load'.i = load.i /\ load'.d = load.d
          /\ UNCHANGED <<stored, stream>>
      BY <1>1, <1>2 DEF CreateSource, CreateSourceFails, FetchFails, CompleteFails, Fail, Loads
    <2> QED
      BY <1>1, <2>1 DEF Kept
  <1>3. CASE Fetch
    <2>1. /\ load'.i = 1 /\ load'.d = load.d /\ UNCHANGED <<stored, stream>>
          /\ load'.pc = IF NumFiles[load.d] = 0 THEN "complete" ELSE "upload"
      BY <1>1, <1>3 DEF Fetch, Loads
    <2>2. NumFiles[load.d] \in Nat
      BY <1>1, FilesAre
    <2> QED
      BY <1>1, <2>1, <2>2 DEF Kept
  <1>4. CASE Upload
    <2>1. /\ load.pc = "upload" /\ load'.pc = "publish" /\ load'.i = load.i /\ load'.d = load.d
          /\ stored' = stored \cup {This} /\ stream' = stream
      BY <1>1, <1>4 DEF Upload, Busy, Loads
    <2>2. This \in Files /\ This' = This
      BY <2>1, ThisIsFile DEF This
    <2> QED
      BY <1>1, <2>1, <2>2 DEF Kept
  <1>5. CASE UploadFails \/ PublishFile \/ PublishFileFails
    <2>1. PICK l \in {load, [load EXCEPT !.published = @ + 1]} : load' = NextFile(l)
      BY <1>5 DEF PublishFile, PublishFileFails, UploadFails, Skipped
    <2>2. l \in Loads /\ l.d = load.d /\ l.i = load.i
      BY <1>1, <2>1 DEF Loads
    <2>3. l.i \in 1 .. NumFiles[l.d]
      BY <1>5, <2>2 DEF UploadFails, PublishFile, PublishFileFails, Busy, Kept
    <2>4. load'.d = load.d
      BY <2>1, <2>2, NextFileMoves
    <2>5. stored' = stored /\ stream' \subseteq stored
      BY <1>5 DEF UploadFails, PublishFile, PublishFileFails, Busy, Kept
    <2> QED
      BY <1>1, <2>1, <2>2, <2>3, <2>4, <2>5, NextFileIs DEF Kept
  <1>6. CASE Complete
    <2>1. load' = NextDataset /\ UNCHANGED <<stored, stream>>
      BY <1>6 DEF Complete
    <2>2. load'.i = load.i /\ load'.pc \in {"source", "off"} /\ load'.d = IF load.d < Len(Dataset) THEN load.d + 1 ELSE load.d
      BY <1>1, <2>1 DEF NextDataset, Loads
    <2>3. load'.d \in Datasets
      BY <1>1, <2>2, DatasetsAre
    <2> QED
      BY <1>1, <2>1, <2>2, <2>3 DEF Kept
  <1>7. CASE Start \/ Restart
    <2>1. load'.d = 1 /\ load'.i = 1 /\ load'.pc \in {"source", "off"} /\ UNCHANGED <<stored, stream>>
      BY <1>7 DEF Start, Restart, NoLoad
    <2> QED
      BY <1>1, <2>1, DatasetsAre DEF Kept
  <1>8. CASE Evict \/ (\E r \in Readers : Subscribe(r) \/ Streaming(r) \/ Disconnect(r)) \/ UNCHANGED vars
    <2>1. UNCHANGED <<stored, stream, load>>
      BY <1>8 DEF Evict, Subscribe, Streaming, Yield, Settle, Wake, Disconnect, vars
    <2> QED
      BY <1>1, <2>1 DEF Kept, This
  <1> QED
    BY <1>2, <1>3, <1>4, <1>5, <1>6, <1>7, <1>8 DEF Next, Loading

(* What a task has counted, in a step that does not complete a dataset.     *)
LEMMA TotalStays ==
    ASSUME IInv, [Next]_vars, ~Complete
    PROVE  load'.total \in {0, load.total}
  <1>1. load \in Loads
    BY DEF IInv, Shape
  <1>2. CASE Loading
    BY <1>1, <1>2, TaskStays DEF Loading
  <1>3. CASE Start \/ Restart
    BY <1>3 DEF Start, Restart, NoLoad
  <1>4. CASE Evict \/ (\E r \in Readers : Subscribe(r) \/ Streaming(r) \/ Disconnect(r)) \/ UNCHANGED vars
    BY <1>4 DEF Evict, Subscribe, Streaming, Yield, Settle, Wake, Disconnect, vars
  <1> QED
    BY <1>2, <1>3, <1>4 DEF Next

LEMMA PublishedStays ==
    ASSUME IInv, [Next]_vars, load'.pc \in {"off", "source"}
    PROVE  load'.published \in {0, load.published}
  <1>1. load \in Loads
    BY DEF IInv, Shape
  <1>2. CASE CreateSourceFails \/ Fail \/ Complete
    BY <1>1, <1>2 DEF CreateSourceFails, Fail, Complete, NextDataset, Loads
  <1>3. CASE CreateSource \/ Fetch \/ FetchFails \/ Upload \/ CompleteFails
    BY <1>1, <1>3 DEF CreateSource, Fetch, FetchFails, Upload, CompleteFails, Loads
  <1>4. CASE UploadFails \/ PublishFile \/ PublishFileFails
    <2>1. PICK l \in {load, [load EXCEPT !.published = @ + 1]} : load' = NextFile(l)
      BY <1>4 DEF PublishFile, PublishFileFails, UploadFails, Skipped
    <2>2. l \in Loads
      BY <1>1, <2>1 DEF Loads
    <2> QED
      BY <2>1, <2>2, NextFileMoves
  <1>5. CASE Start \/ Restart
    BY <1>5 DEF Start, Restart, NoLoad
  <1>6. CASE Evict \/ (\E r \in Readers : Subscribe(r) \/ Streaming(r) \/ Disconnect(r)) \/ UNCHANGED vars
    BY <1>6 DEF Evict, Subscribe, Streaming, Yield, Settle, Wake, Disconnect, vars
  <1> QED
    BY <1>2, <1>3, <1>4, <1>5, <1>6 DEF Next, Loading

(* A total is what the completed sources count, and no more than there is.  *)
LEMMA TotalFits ==
    ASSUME IInv, Tally, Complete, IInv', Tally', Kept'
    PROVE  load'.total \in 0 .. NumTotal
  <1>1. source' \in Sources /\ \A c \in Datasets : source'[c].count <= Cardinality({f \in stream' : f[1] = c})
    BY DEF IInv, Shape, CountIsBacked, PublishedOf
  <1>2. stream' \in SUBSET Files
    BY DEF Kept
  <1>3. \A d : TalliedOf(source', d) \in 0 .. NumTotal
    BY <1>1, <1>2, TallyFits
  <1>4. CASE load'.pc = "off"
    <2>1. FinishJob(load'.total)
      BY <1>4 DEF Complete
    <2>2. PICK n : n = load'.total
      OBVIOUS
    <2>3. job'.end = "done" /\ job'.registered = n
      BY <2>1, <2>2, Finishes
    <2>4. job'.registered = TalliedOf(source', TheEnd)
      BY <2>3 DEF Tally, TalliedOf
    <2> QED
      BY <1>3, <2>2, <2>3, <2>4
  <1>5. CASE load'.pc # "off"
    <2>1. load'.total = TalliedOf(source', load'.d)
      BY <1>5 DEF Tally, TalliedOf
    <2> QED
      BY <1>3, <2>1
  <1> QED
    BY <1>4, <1>5

LEMMA CountersStep ==
    ASSUME IInv, Tally, Kept, Measured, [Next]_vars
    PROVE  Measured'
  <1>1. IInv' /\ Tally' /\ Kept' /\ load'.i \in 1 .. NumTotal + 1
    BY StepInv, PlacesStep, TallyTask, TallyComplete, TallyRest DEF Next, Loading
  <1>2. load'.total \in 0 .. NumTotal
    BY <1>1, TotalStays, TotalFits, FilesAre DEF Measured
  <1>3. load'.published \in 0 .. NumTotal
    <2>1. CASE load'.pc \in {"off", "source"}
      BY <2>1, PublishedStays, FilesAre DEF Measured
    <2>2. CASE load'.pc \notin {"off", "source"}
      <3>1. load'.published \in Nat /\ load'.published <= Cardinality({f \in stream' : f[1] = load'.d})
        BY <1>1, <2>2 DEF IInv, Shape, Loads, Counted, PublishedOf
      <3>2. {f \in stream' : f[1] = load'.d} \in SUBSET Files
        BY <1>1 DEF Kept
      <3>3. Cardinality({f \in stream' : f[1] = load'.d}) \in 0 .. NumTotal
        BY <3>2, FilesAre
      <3> QED
        BY <3>1, <3>3, FilesAre
    <2> QED
      BY <2>1, <2>2
  <1> QED
    BY <1>1, <1>2, <1>3 DEF Measured

(* What a push leaves alone, and what it makes longer.                      *)
LEMMA PushOnlyAdds ==
    ASSUME Shape, NEW G, NEW j \in JobOf(G), j.events = job.events, NEW type \in Types, Push(j, type)
    PROVE  /\ job' \in JobOf(G) /\ job'.processed = j.processed
           /\ job'.known = j.known /\ job'.end = j.end
           /\ Len(job.events) <= Len(job'.events)
           /\ \A r \in Readers : reader'[r].left = reader[r].left /\ reader'[r].pos = reader[r].pos
  <1>1. job'.processed = j.processed
    BY DEF Push, JobOf
  <1>2. Len(job.events) <= Len(job'.events)
    <2>1. j.events \in Seq(Types) /\ Len(j.events) \in Nat /\ Len(Append(j.events, type)) = Len(j.events) + 1
      BY LenProperties DEF JobOf
    <2>2. job'.events \in {j.events, Append(j.events, type)}
      BY DEF Push, JobOf
    <2> QED
      BY <2>1, <2>2
  <1> QED
    BY <1>1, <1>2, Pushed

(* The registry, seen from its counters: something is pushed, or nothing    *)
(* happens.                                                                 *)
Pushes ==
    /\ job' \in JobOf(0 .. NumTotal) /\ job'.known = job.known
    /\ job.end # "none" => job'.end # "none"
    /\ Len(job.events) <= Len(job'.events)
    /\ \A r \in Readers : reader'[r].left = reader[r].left /\ reader'[r].pos = reader[r].pos

LEMMA RegistryPushes ==
    ASSUME IInv, Reported, load.pc # "off",
           \/ Quiet \/ (\E n \in 0 .. NumTotal : SetTotal(n) \/ FinishJob(n)) \/ FailJob
    PROVE  Pushes /\ job'.processed = job.processed
  <1> DEFINE G == 0 .. NumTotal
  <1>1. Shape /\ job \in JobOf(G) /\ Len(job.events) \in Nat /\ {"total", "progress", "done", "error"} \subseteq Types
    BY LenProperties DEF IInv, Reported, JobOf, Types
  <1>2. CASE Quiet
    BY <1>1, <1>2 DEF Quiet, Pushes
  <1>3. ASSUME NEW n \in G, SetTotal(n) PROVE Pushes /\ job'.processed = job.processed
    <2> DEFINE j == [job EXCEPT !.total = n]
    <2>1. /\ j \in JobOf(G) /\ j.events = job.events /\ j.end = job.end /\ j.known = job.known
          /\ j.processed = job.processed
      BY <1>1 DEF JobOf
    <2>2. Push(j, "total")
      BY <1>3 DEF SetTotal
    <2> HIDE DEF j, G
    <2> QED
      BY <1>1, <2>1, <2>2, PushOnlyAdds DEF Pushes, G
  <1>4. ASSUME NEW n \in G, FinishJob(n) PROVE Pushes /\ job'.processed = job.processed
    <2> DEFINE j == [job EXCEPT !.end = "done", !.registered = n]
    <2>1. /\ j \in JobOf(G) /\ j.events = job.events /\ j.end = "done" /\ j.known = job.known
          /\ j.processed = job.processed
      BY <1>1 DEF JobOf
    <2>2. Push(j, "done")
      BY <1>4 DEF FinishJob
    <2> HIDE DEF j, G
    <2> QED
      BY <1>1, <2>1, <2>2, PushOnlyAdds DEF Pushes, G
  <1>5. CASE FailJob
    <2> DEFINE j == [job EXCEPT !.end = "error"]
    <2>1. /\ j \in JobOf(G) /\ j.events = job.events /\ j.end = "error" /\ j.known = job.known
          /\ j.processed = job.processed
      BY <1>1 DEF JobOf
    <2>2. Push(j, "error")
      BY <1>5 DEF FailJob
    <2> HIDE DEF j, G
    <2> QED
      BY <1>1, <2>1, <2>2, PushOnlyAdds DEF Pushes, G
  <1> QED
    BY <1>2, <1>3, <1>4, <1>5

(* A file is counted by the job when it has entered the stream.             *)
LEMMA FileDonePushes ==
    ASSUME IInv, Reported, Kept, Kept', PublishFile
    PROVE  Pushes /\ job'.processed <= Cardinality(stream')
  <1> DEFINE G == 0 .. NumTotal
  <1>1. Shape /\ job \in JobOf(G) /\ "progress" \in Types
    BY DEF IInv, Reported, Types
  <1>2. load.pc = "publish" /\ stream' = stream \cup {This} /\ FileDone
    BY DEF PublishFile, Busy
  <1>3. This \notin stream
    <2>1. load.d \in Nat /\ load.i \in Nat /\ This[1] = load.d /\ This[2] = load.i
      BY <1>1 DEF Shape, Loads, This
    <2> QED
      BY <1>2, <2>1 DEF IInv, Ahead
  <1>4. Cardinality(stream') = Cardinality(stream) + 1
    BY <1>1, <1>2, <1>3, FS_AddElement DEF Shape
  <1>5. Cardinality(stream') \in G /\ Cardinality(stream) \in G
    <2>1. stream \in SUBSET Files /\ stream' \in SUBSET Files
      BY DEF Kept
    <2> QED
      BY <2>1, FilesAre
  <1>6. job.processed \in Nat /\ job.processed <= Cardinality(stream)
    BY <1>1 DEF Reported, JobOf
  <1>7. job.processed + 1 \in G /\ job.processed + 1 <= Cardinality(stream')
    BY <1>4, <1>5, <1>6, FilesAre
  <1> DEFINE j == [job EXCEPT !.processed = @ + 1]
  <1>8. /\ j \in JobOf(G) /\ j.events = job.events /\ j.end = job.end /\ j.known = job.known
        /\ j.processed = job.processed + 1
    BY <1>1, <1>7 DEF JobOf
  <1>9. Push(j, "progress")
    BY <1>2 DEF FileDone
  <1> HIDE DEF j, G
  <1> QED
    BY <1>1, <1>7, <1>8, <1>9, PushOnlyAdds DEF Pushes, G

LEMMA TaskReports ==
    ASSUME IInv, Tally, Kept, Measured, Reported, Loading, Kept', Measured'
    PROVE  Pushes /\ job'.processed <= Cardinality(stream') /\ job.known
  <1>1. load.pc # "off"
    BY DEF Loading, CreateSource, CreateSourceFails, Fetch, FetchFails, Upload, UploadFails,
       PublishFile, PublishFileFails, Complete, CompleteFails, Fail, Busy
  <1>2. job.known
    BY <1>1 DEF Reported
  <1>3. CASE PublishFile
    BY <1>2, <1>3, FileDonePushes
  <1>4. CASE ~PublishFile
    <2>1. Quiet \/ (\E n \in 0 .. NumTotal : SetTotal(n) \/ FinishJob(n)) \/ FailJob
      <3>1. NumFiles[load.d] \in 0 .. NumTotal /\ load'.total \in 0 .. NumTotal
        BY FilesAre DEF Kept, Measured
      <3>2. CASE Fetch
        BY <3>1, <3>2 DEF Fetch, Quiet
      <3>3. CASE Complete
        BY <3>1, <3>3 DEF Complete, Quiet
      <3>4. CASE CreateSourceFails \/ Fail
        BY <3>4 DEF CreateSourceFails, Fail
      <3>5. CASE CreateSource \/ FetchFails \/ Upload \/ UploadFails \/ PublishFileFails \/ CompleteFails
        BY <3>5 DEF CreateSource, FetchFails, Upload, UploadFails, PublishFileFails, CompleteFails, Quiet
      <3> QED
        BY <1>4, <3>2, <3>3, <3>4, <3>5 DEF Loading
    <2>2. Pushes /\ job'.processed = job.processed
      BY <1>1, <2>1, RegistryPushes
    <2>3. stream \subseteq stream' /\ stream' \in SUBSET Files
      <3>1. stream \subseteq stream'
        BY <1>4 DEF Loading, CreateSource, CreateSourceFails, Fetch, FetchFails, Upload, UploadFails,
           PublishFileFails, Complete, CompleteFails, Fail
      <3> QED
        BY <3>1 DEF Kept
    <2>4. Cardinality(stream) <= Cardinality(stream')
      BY <2>3, FilesAre, FS_Subset
    <2>5. /\ Cardinality(stream) \in Nat /\ Cardinality(stream') \in Nat
          /\ job.processed \in Nat /\ job.processed <= Cardinality(stream)
      <3>1. stream \in SUBSET Files
        BY DEF Kept
      <3>2. Cardinality(stream) \in 0 .. NumTotal /\ Cardinality(stream') \in 0 .. NumTotal
        BY <2>3, <3>1, FilesAre
      <3> QED
        BY <3>2 DEF Reported, JobOf
    <2> QED
      BY <1>2, <2>2, <2>4, <2>5
  <1> QED
    BY <1>3, <1>4

LEMMA ReportedStep ==
    ASSUME IInv, Tally, Kept, Measured, Reported, [Next]_vars
    PROVE  Reported'
  <1> DEFINE G == 0 .. NumTotal
  <1>1. Kept' /\ Measured' /\ job \in JobOf(G) /\ 0 \in G
    BY PlacesStep, CountersStep, FilesAre DEF Reported
  <1>2. CASE Loading
    BY <1>1, <1>2, TaskReports DEF Reported, Pushes
  <1>3. CASE Start
    <2>1. job' = [NoJob EXCEPT !.known = TRUE] /\ stream' = stream
      BY <1>3 DEF Start, Create
    <2>2. stream \in SUBSET Files
      BY DEF Kept
    <2>3. Cardinality(stream) \in G
      BY <2>2, FilesAre
    <2>4. job' \in JobOf(G) /\ job'.processed = 0 /\ job'.known
      BY <1>1, <2>1, EmptySeq DEF NoJob, JobOf
    <2> HIDE DEF G
    <2>5. 0 <= Cardinality(stream)
      BY <2>3 DEF G
    <2> QED
      BY <2>1, <2>4, <2>5 DEF Reported, G
  <1>4. CASE Restart
    <2>1. job' = [NoJob EXCEPT !.end = "error"] /\ stream' = stream /\ load' = NoLoad
      BY <1>4 DEF Restart
    <2>2. stream \in SUBSET Files
      BY DEF Kept
    <2>3. Cardinality(stream) \in G
      BY <2>2, FilesAre
    <2>4. job' \in JobOf(G) /\ job'.processed = 0 /\ job'.end = "error" /\ load'.pc = "off"
      BY <1>1, <2>1, EmptySeq DEF NoJob, JobOf, NoLoad
    <2>5. 0 <= Cardinality(stream)
      BY <2>3
    <2> HIDE DEF G
    <2> QED
      BY <2>1, <2>4, <2>5 DEF Reported, G
  <1>5. CASE Evict
    <2>1. job.end # "none" /\ job' = [job EXCEPT !.known = FALSE] /\ UNCHANGED <<stream, load>>
      BY <1>5 DEF Evict
    <2>2. job' \in JobOf(G) /\ job'.processed = job.processed /\ job'.end = job.end
      BY <1>1, <2>1 DEF JobOf
    <2>3. load.pc = "off"
      BY <2>1 DEF IInv, Once
    <2> HIDE DEF G
    <2> QED
      BY <2>1, <2>2, <2>3 DEF Reported, G
  <1>6. CASE (\E r \in Readers : Subscribe(r) \/ Streaming(r) \/ Disconnect(r)) \/ UNCHANGED vars
    <2>1. UNCHANGED <<stream, load, job>>
      BY <1>6 DEF Subscribe, Streaming, Yield, Settle, Wake, Disconnect, vars
    <2> QED
      BY <1>1, <2>1 DEF Reported
  <1> QED
    BY <1>2, <1>3, <1>4, <1>5, <1>6 DEF Next

LEMMA BehindStep ==
    ASSUME IInv, Tally, Kept, Measured, Reported, Behind, [Next]_vars
    PROVE  Behind'
  <1>1. /\ reader \in [Readers -> Generators] /\ Len(job.events) \in Nat /\ Len(job'.events) \in Nat
    <2>1. IInv'
      BY StepInv
    <2> QED
      BY <2>1, LenProperties DEF IInv, Shape, JobOf
  <1>2. CASE Loading
    <2>1. Pushes
      BY <1>2, TaskReports, PlacesStep, CountersStep
    <2> QED
      BY <1>1, <2>1 DEF Behind, Pushes, Generators
  <1>3. CASE Start
    <2>1. job.events = <<>> /\ job'.events = <<>> /\ reader' = reader
      BY <1>3 DEF Start, Create, NoJob, Reported
    <2> QED
      BY <2>1 DEF Behind
  <1>4. CASE Restart
    <2>1. reader' = [r \in Readers |-> NoReader]
      BY <1>4 DEF Restart
    <2> QED
      BY <1>1, <2>1 DEF Behind, NoReader
  <1>5. CASE Evict
    <2>1. job'.events = job.events /\ reader' = reader
      BY <1>5 DEF Evict, Reported, JobOf
    <2> QED
      BY <2>1 DEF Behind
  <1>6. ASSUME NEW r \in Readers, Subscribe(r) \/ Streaming(r) \/ Disconnect(r) PROVE Behind'
    <2>1. UNCHANGED job
      BY <1>6 DEF Subscribe, Streaming, Yield, Settle, Wake, Disconnect
    <2>2. reader[r] \in Generators /\ reader[r].left \in 0 .. reader[r].pos /\ reader[r].pos <= Len(job.events)
      BY <1>1 DEF Behind
    <2>3. ASSUME NEW v, Set(r, v), v.left \in 0 .. v.pos, v.pos <= Len(job.events) PROVE Behind'
      BY <1>1, <2>1, <2>3 DEF Set, Behind
    <2>4. ASSUME NEW v \in Generators, v.pos <= Len(job.events)
          PROVE  Snapshot(v).left \in 0 .. Snapshot(v).pos /\ Snapshot(v).pos <= Len(job.events)
      <3> DEFINE n == Len(job.events)
                 m == Len(job.events) - v.pos
      <3>1. v.pos \in Nat /\ n \in Nat /\ m \in 0 .. n
        BY <1>1, <2>4 DEF Generators
      <3>2. Snapshot(v) = [v EXCEPT !.pc = "yield", !.left = m, !.pos = n]
        BY DEF Snapshot
      <3> HIDE DEF n, m
      <3>3. Snapshot(v).left = m /\ Snapshot(v).pos = n
        BY <3>2 DEF Generators
      <3> QED
        BY <3>1, <3>3 DEF n
    <2>5. CASE Subscribe(r)
      <3>1. NoReader \in Generators /\ NoReader.pos <= Len(job.events)
        BY <1>1, Rest DEF NoReader
      <3>2. CASE Found
        BY <2>3, <2>4, <2>5, <3>1, <3>2 DEF Subscribe
      <3>3. CASE ~Found
        <4> DEFINE v == [NoReader EXCEPT !.pc = "refused"]
        <4>1. v.left = 0 /\ v.pos = 0
          BY DEF NoReader
        <4>2. Set(r, v)
          BY <2>5, <3>3 DEF Subscribe
        <4> HIDE DEF v
        <4> QED
          BY <1>1, <2>3, <4>1, <4>2
      <3> QED
        BY <3>2, <3>3
    <2>6. CASE Yield(r)
      <3> DEFINE v == [reader[r] EXCEPT !.left = @ - 1]
      <3>1. v.left = reader[r].left - 1 /\ v.pos = reader[r].pos /\ reader[r].left > 0 /\ Set(r, v)
        BY <2>2, <2>6 DEF Yield, Generators
      <3> HIDE DEF v
      <3>2. reader[r].left \in Int /\ reader[r].pos \in Nat
        BY <2>2 DEF Generators
      <3> QED
        BY <2>2, <2>3, <3>1, <3>2
    <2>7. CASE Settle(r)
      <3> DEFINE v == [reader[r] EXCEPT !.pc = IF Over(reader[r]) THEN "ended" ELSE "wait", !.signal = FALSE]
      <3>1. v.left = reader[r].left /\ v.pos = reader[r].pos /\ Set(r, v)
        BY <2>2, <2>7 DEF Settle, Generators
      <3> HIDE DEF v
      <3> QED
        BY <2>2, <2>3, <3>1
    <2>8. CASE Wake(r)
      BY <2>2, <2>3, <2>4, <2>8 DEF Wake
    <2>9. CASE Disconnect(r)
      <3>1. NoReader.left = 0 /\ NoReader.pos = 0 /\ Set(r, NoReader)
        BY <2>9 DEF Disconnect, NoReader
      <3> QED
        BY <1>1, <2>3, <3>1
    <2> QED
      BY <1>6, <2>5, <2>6, <2>7, <2>8, <2>9 DEF Streaming
  <1>7. CASE UNCHANGED vars
    BY <1>7 DEF vars, Behind
  <1> QED
    BY <1>2, <1>3, <1>4, <1>5, <1>6, <1>7 DEF Next

(* Every file the task handles is one of the request, no counter exceeds    *)
(* the number of files, and no reader is ahead of the replay buffer.        *)
THEOREM TypeCorrect == Spec => []TypeOK
  <1> DEFINE Inv == IInv /\ Tally /\ Kept /\ Measured /\ Reported /\ Behind
  <1>1. Init => Inv
    BY InitInv, TypesInit, Rest DEF Init, Tally
  <1>2. Inv /\ [Next]_vars => Inv'
    BY StepInv, TallyTask, TallyComplete, TallyRest, PlacesStep, CountersStep, ReportedStep, BehindStep
       DEF Next, Loading
  <1>3. Inv => TypeOK
    <2> SUFFICES ASSUME Inv PROVE TypeOK
      OBVIOUS
    <2>1. source \in [Datasets -> [status : {"none", "LOADING", "COMPLETED", "FAILED"}, count : 0 .. NumTotal]]
      <3>1. \A d \in Datasets : source[d].count \in 0 .. NumTotal
        <4> SUFFICES ASSUME NEW d \in Datasets PROVE source[d].count \in 0 .. NumTotal
          OBVIOUS
        <4>1. {f \in stream : f[1] = d} \in SUBSET Files
          BY DEF Kept
        <4>2. PublishedOf(d) \in 0 .. NumTotal
          BY <4>1, FilesAre DEF PublishedOf
        <4>3. source[d].count \in Nat /\ source[d].count <= PublishedOf(d)
          BY DEF IInv, Shape, Sources, CountIsBacked
        <4> QED
          BY <4>2, <4>3, FilesAre
      <3> QED
        BY <3>1 DEF IInv, Shape, Sources, Statuses
    <2>2. load \in [pc : {"off", "source", "fetch", "upload", "publish", "complete", "fail"},
                    d : Datasets, i : 1 .. NumTotal + 1, published : 0 .. NumTotal, total : 0 .. NumTotal]
      BY DEF IInv, Shape, Loads, LoadSteps, Kept, Measured
    <2>3. job \in [known : BOOLEAN, total : 0 .. NumTotal, processed : 0 .. NumTotal,
                   end : {"none", "done", "error"}, registered : 0 .. NumTotal,
                   events : Seq({"total", "progress", "done", "error"})]
      BY DEF Reported, JobOf, Types
    <2>4. \A r \in Readers : reader[r].pos \in 0 .. MaxEventsKept /\ reader[r].left \in 0 .. MaxEventsKept
                             /\ reader[r].left <= reader[r].pos /\ reader[r].pos <= Len(job.events)
      <3> SUFFICES ASSUME NEW r \in Readers
                   PROVE  /\ reader[r].pos \in 0 .. MaxEventsKept /\ reader[r].left \in 0 .. MaxEventsKept
                          /\ reader[r].left <= reader[r].pos /\ reader[r].pos <= Len(job.events)
        OBVIOUS
      <3>1. Len(job.events) \in Nat /\ Len(job.events) <= MaxEventsKept /\ MaxEventsKept \in Nat
        BY LenProperties, LoadAssumption DEF IInv, Shape, JobOf
      <3>2. reader[r].left \in 0 .. reader[r].pos /\ reader[r].pos <= Len(job.events) /\ reader[r].pos \in Nat
        BY DEF Behind, IInv, Shape, Generators
      <3> QED
        BY <3>1, <3>2
    <2>5. reader \in [Readers -> [pc : {"off", "yield", "wait", "ended", "refused"},
                                  pos : 0 .. MaxEventsKept, left : 0 .. MaxEventsKept, signal : BOOLEAN]]
      BY <2>4 DEF IInv, Shape, Generators
    <2> QED
      BY <2>1, <2>2, <2>3, <2>4, <2>5 DEF TypeOK, Kept, IInv, Shape
  <1> QED
    BY <1>1, <1>2, <1>3, PTL DEF Spec

-----------------------------------------------------------------------------
(* The token splitter of ingestion-service, by the same folds: tokens and   *)
(* words of a text.                                                         *)

LEMMA Costs == \A c \in Symbol : Cost(c) \in Nat
  BY DEF Symbol, Cost, Period, NewLine

LEMMA CountStates ==
    ASSUME NEW t \in Text
    PROVE  \E st \in [0 .. Len(t) -> Nat] :
              /\ st[0] = 0 /\ st[Len(t)] = Count(t)
              /\ \A k \in 0 .. Len(t) : k # Len(t) => st[k + 1] = st[k] + Cost(t[k + 1])
  <1> DEFINE N == Len(t)
             G == Nat
             base == 0
             step(acc, c) == acc + Cost(c)
             h == [acc \in G |-> [i \in 1 .. N |-> step(acc, t[i])]]
             it == CHOOSE it : it = [s \in SUBSET DOMAIN t |->
                      IF s = {} THEN base ELSE step(it[s \ {Max(s)}], t[Max(s)])]
  <1>1. N \in Nat /\ DOMAIN t = 1 .. N /\ \A i \in 1 .. N : t[i] \in Symbol
    BY DEF Text
  <1>2. Count(t) = it[DOMAIN t]
    BY DEF Count, FoldLeft, MapThenFoldSet
  <1>3. base \in G /\ \A acc \in G : \A i \in 1 .. N : step(acc, t[i]) \in G
    BY <1>1, Costs
  <1> HIDE DEF step, N, G, base
  <1>4. h \in [G -> [1 .. N -> G]] /\ \A acc \in G : \A i \in 1 .. N : h[acc][i] = step(acc, t[i])
    BY <1>3
  <1> HIDE DEF h
  <1>5. it = [s \in SUBSET DOMAIN t |-> IF s = {} THEN base ELSE step(it[s \ {Max(s)}], t[Max(s)])]
    <2>1. PICK jt \in [SUBSET (1 .. N) -> G] : Iterates(jt, h, base, N)
      BY <1>1, <1>3, <1>4, IterateExists
    <2>2. ASSUME NEW s \in SUBSET (1 .. N), s # {}
          PROVE  h[jt[s \ {Max(s)}]][Max(s)] = step(jt[s \ {Max(s)}], t[Max(s)])
      <3>1. Max(s) \in 1 .. N /\ s \ {Max(s)} \in SUBSET (1 .. N)
        BY <1>1, <2>2, MaxOf
      <3> QED
        BY <1>4, <3>1
    <2>3. jt = [s \in SUBSET DOMAIN t |-> IF s = {} THEN base ELSE step(jt[s \ {Max(s)}], t[Max(s)])]
      BY <1>1, <2>1, <2>2 DEF Iterates
    <2> QED
      BY <2>3
  <1> HIDE DEF it
  <1>6. Follows(it, h, base, N, G)
    <2>1. \A s \in SUBSET (1 .. N) : s # {} => Max(s) \in 1 .. N
      BY <1>1, MaxOf
    <2> QED
      BY <1>1, <1>4, <1>5, <2>1 DEF Follows
  <1>7. PICK st \in [0 .. N -> G] : Reaches(st, h, base, N) /\ st[N] = it[1 .. N]
    <2>1. Stops(it, N) \in [0 .. N -> G] /\ Reaches(Stops(it, N), h, base, N)
      BY <1>1, <1>3, <1>4, <1>6, StatesOf
    <2>2. Stops(it, N)[N] = it[1 .. N]
      BY <1>1 DEF Stops
    <2> QED
      BY <2>1, <2>2
  <1>8. \A k \in 0 .. N : k # N => st[k + 1] = step(st[k], t[k + 1])
    <2>1. \A k \in 0 .. N : k # N => k + 1 \in 1 .. N /\ st[k] \in G
      BY <1>1, <1>7
    <2> QED
      BY <1>4, <1>7, <2>1 DEF Reaches
  <1> QED
    BY <1>1, <1>2, <1>7, <1>8 DEF step, N, G, base, Reaches

LEMMA TextAssociative == \A x, y, z \in Text : x \o (y \o z) = (x \o y) \o z
  BY ConcatAssociative DEF Text

LEMMA TextConcat ==
    \A x, y \in Text : x \o y \in Text /\ x \o <<>> = x /\ <<>> \o x = x /\ <<>> \in Text
  BY ConcatProperties, ConcatEmptySeq DEF Text

LEMMA InkIs == \A c : c \in Symbol => Ink(c) \in Text
  BY DEF Ink, Text

LEMMA WordsStates ==
    ASSUME NEW t \in Text
    PROVE  \E st \in [0 .. Len(t) -> Text] :
              /\ st[0] = <<>> /\ st[Len(t)] = Words(t)
              /\ \A k \in 0 .. Len(t) : k # Len(t) => st[k + 1] = st[k] \o Ink(t[k + 1])
  <1> DEFINE N == Len(t)
             G == Text
             base == <<>>
             step(acc, c) == acc \o Ink(c)
             h == [acc \in G |-> [i \in 1 .. N |-> step(acc, t[i])]]
             it == CHOOSE it : it = [s \in SUBSET DOMAIN t |->
                      IF s = {} THEN base ELSE step(it[s \ {Max(s)}], t[Max(s)])]
  <1>1. N \in Nat /\ DOMAIN t = 1 .. N /\ \A i \in 1 .. N : t[i] \in Symbol
    BY DEF Text
  <1>2. Words(t) = it[DOMAIN t]
    BY DEF Words, FoldLeft, MapThenFoldSet
  <1>3. base \in G /\ \A acc \in G : \A i \in 1 .. N : step(acc, t[i]) \in G
    BY <1>1, InkIs, ConcatProperties DEF Text
  <1> HIDE DEF step, N, G, base
  <1>4. h \in [G -> [1 .. N -> G]] /\ \A acc \in G : \A i \in 1 .. N : h[acc][i] = step(acc, t[i])
    BY <1>3
  <1> HIDE DEF h
  <1>5. it = [s \in SUBSET DOMAIN t |-> IF s = {} THEN base ELSE step(it[s \ {Max(s)}], t[Max(s)])]
    <2>1. PICK jt \in [SUBSET (1 .. N) -> G] : Iterates(jt, h, base, N)
      BY <1>1, <1>3, <1>4, IterateExists
    <2>2. ASSUME NEW s \in SUBSET (1 .. N), s # {}
          PROVE  h[jt[s \ {Max(s)}]][Max(s)] = step(jt[s \ {Max(s)}], t[Max(s)])
      <3>1. Max(s) \in 1 .. N /\ s \ {Max(s)} \in SUBSET (1 .. N)
        BY <1>1, <2>2, MaxOf
      <3> QED
        BY <1>4, <3>1
    <2>3. jt = [s \in SUBSET DOMAIN t |-> IF s = {} THEN base ELSE step(jt[s \ {Max(s)}], t[Max(s)])]
      BY <1>1, <2>1, <2>2 DEF Iterates
    <2> QED
      BY <2>3
  <1> HIDE DEF it
  <1>6. Follows(it, h, base, N, G)
    <2>1. \A s \in SUBSET (1 .. N) : s # {} => Max(s) \in 1 .. N
      BY <1>1, MaxOf
    <2> QED
      BY <1>1, <1>4, <1>5, <2>1 DEF Follows
  <1>7. PICK st \in [0 .. N -> G] : Reaches(st, h, base, N) /\ st[N] = it[1 .. N]
    <2>1. Stops(it, N) \in [0 .. N -> G] /\ Reaches(Stops(it, N), h, base, N)
      BY <1>1, <1>3, <1>4, <1>6, StatesOf
    <2>2. Stops(it, N)[N] = it[1 .. N]
      BY <1>1 DEF Stops
    <2> QED
      BY <2>1, <2>2
  <1>8. \A k \in 0 .. N : k # N => st[k + 1] = step(st[k], t[k + 1])
    <2>1. \A k \in 0 .. N : k # N => k + 1 \in 1 .. N /\ st[k] \in G
      BY <1>1, <1>7
    <2> QED
      BY <1>4, <1>7, <2>1 DEF Reaches
  <1> QED
    BY <1>1, <1>2, <1>7, <1>8 DEF step, N, G, base, Reaches

LEMMA WordsIs == ASSUME NEW t \in Text PROVE Words(t) \in Text
  <1>1. PICK st \in [0 .. Len(t) -> Text] : st[Len(t)] = Words(t)
    BY WordsStates
  <1>2. Len(t) \in Nat
    BY DEF Text
  <1> QED
    BY <1>1, <1>2

LEMMA CountIs == ASSUME NEW t \in Text PROVE Count(t) \in Nat
  <1>1. PICK st \in [0 .. Len(t) -> Nat] : st[Len(t)] = Count(t)
    BY CountStates
  <1>2. Len(t) \in Nat
    BY DEF Text
  <1> QED
    BY <1>1, <1>2

LEMMA WordsOfStates ==
    ASSUME NEW cs \in Seq(Text)
    PROVE  \E st \in [0 .. Len(cs) -> Text] :
              /\ st[0] = <<>> /\ st[Len(cs)] = WordsOf(cs)
              /\ \A k \in 0 .. Len(cs) : k # Len(cs) => st[k + 1] = st[k] \o Words(cs[k + 1])
  <1> DEFINE N == Len(cs)
             G == Text
             base == <<>>
             step(acc, c) == acc \o Words(c)
             h == [acc \in G |-> [i \in 1 .. N |-> step(acc, cs[i])]]
             it == CHOOSE it : it = [s \in SUBSET DOMAIN cs |->
                      IF s = {} THEN base ELSE step(it[s \ {Max(s)}], cs[Max(s)])]
  <1>1. N \in Nat /\ DOMAIN cs = 1 .. N /\ \A i \in 1 .. N : cs[i] \in Text
    BY DEF Text
  <1>2. WordsOf(cs) = it[DOMAIN cs]
    BY DEF WordsOf, FoldLeft, MapThenFoldSet
  <1>3. base \in G /\ \A acc \in G : \A i \in 1 .. N : step(acc, cs[i]) \in G
    BY <1>1, WordsIs, ConcatProperties DEF Text
  <1> HIDE DEF step, N, G, base
  <1>4. h \in [G -> [1 .. N -> G]] /\ \A acc \in G : \A i \in 1 .. N : h[acc][i] = step(acc, cs[i])
    BY <1>3
  <1> HIDE DEF h
  <1>5. it = [s \in SUBSET DOMAIN cs |-> IF s = {} THEN base ELSE step(it[s \ {Max(s)}], cs[Max(s)])]
    <2>1. PICK jt \in [SUBSET (1 .. N) -> G] : Iterates(jt, h, base, N)
      BY <1>1, <1>3, <1>4, IterateExists
    <2>2. ASSUME NEW s \in SUBSET (1 .. N), s # {}
          PROVE  h[jt[s \ {Max(s)}]][Max(s)] = step(jt[s \ {Max(s)}], cs[Max(s)])
      <3>1. Max(s) \in 1 .. N /\ s \ {Max(s)} \in SUBSET (1 .. N)
        BY <1>1, <2>2, MaxOf
      <3> QED
        BY <1>4, <3>1
    <2>3. jt = [s \in SUBSET DOMAIN cs |-> IF s = {} THEN base ELSE step(jt[s \ {Max(s)}], cs[Max(s)])]
      BY <1>1, <2>1, <2>2 DEF Iterates
    <2> QED
      BY <2>3
  <1> HIDE DEF it
  <1>6. Follows(it, h, base, N, G)
    <2>1. \A s \in SUBSET (1 .. N) : s # {} => Max(s) \in 1 .. N
      BY <1>1, MaxOf
    <2> QED
      BY <1>1, <1>4, <1>5, <2>1 DEF Follows
  <1>7. PICK st \in [0 .. N -> G] : Reaches(st, h, base, N) /\ st[N] = it[1 .. N]
    <2>1. Stops(it, N) \in [0 .. N -> G] /\ Reaches(Stops(it, N), h, base, N)
      BY <1>1, <1>3, <1>4, <1>6, StatesOf
    <2>2. Stops(it, N)[N] = it[1 .. N]
      BY <1>1 DEF Stops
    <2> QED
      BY <2>1, <2>2
  <1>8. \A k \in 0 .. N : k # N => st[k + 1] = step(st[k], cs[k + 1])
    <2>1. \A k \in 0 .. N : k # N => k + 1 \in 1 .. N /\ st[k] \in G
      BY <1>1, <1>7
    <2> QED
      BY <1>4, <1>7, <2>1 DEF Reaches
  <1> QED
    BY <1>1, <1>2, <1>7, <1>8 DEF step, N, G, base, Reaches

LEMMA CountConcat ==
    ASSUME NEW a \in Text, NEW b \in Text PROVE Count(a \o b) = Count(a) + Count(b)
  <1> DEFINE m == Len(a)
             n == Len(b)
             c == a \o b
  <1>1. /\ m \in Nat /\ n \in Nat /\ c \in Text /\ Len(c) = m + n
        /\ \A i \in 1 .. m : c[i] = a[i]
        /\ \A i \in 1 .. n : c[m + i] = b[i]
        /\ \A i \in 1 .. n : b[i] \in Symbol
    BY ConcatProperties DEF Text
  <1> HIDE DEF c
  <1>2. PICK sa \in [0 .. m -> Nat] : /\ sa[0] = 0 /\ sa[m] = Count(a)
                                  /\ \A k \in 0 .. m : k # m => sa[k + 1] = sa[k] + Cost(a[k + 1])
    BY CountStates
  <1>3. PICK sb \in [0 .. n -> Nat] : /\ sb[0] = 0 /\ sb[n] = Count(b)
                                  /\ \A k \in 0 .. n : k # n => sb[k + 1] = sb[k] + Cost(b[k + 1])
    BY CountStates
  <1>7. PICK sc \in [0 .. Len(c) -> Nat] :
            /\ sc[0] = 0 /\ sc[Len(c)] = Count(c)
            /\ \A k \in 0 .. Len(c) : k # Len(c) => sc[k + 1] = sc[k] + Cost(c[k + 1])
    BY <1>1, CountStates
  <1>4. /\ sc \in [0 .. m + n -> Nat] /\ sc[0] = 0 /\ sc[m + n] = Count(c)
        /\ \A k \in 0 .. m + n : k # m + n => sc[k + 1] = sc[k] + Cost(c[k + 1])
    BY <1>1, <1>7
  <1> HIDE DEF m, n
  <1>5. sc[m] = sa[m]
    <2> DEFINE F == {k \in 0 .. m : sc[k] = sa[k]}
    <2>1. 0 \in F
      BY <1>1, <1>2, <1>4
    <2>2. ASSUME NEW k \in 0 .. m, k # m, k \in F PROVE k + 1 \in F
      <3>1. k \in 0 .. m + n /\ k # m + n /\ k + 1 \in 1 .. m /\ k + 1 \in 0 .. m
        BY <1>1, <2>2
      <3>2. c[k + 1] = a[k + 1]
        BY <1>1, <3>1
      <3> QED
        BY <1>2, <1>4, <2>2, <3>1, <3>2
    <2>3. m \in 0 .. m
      BY <1>1
    <2> HIDE DEF F
    <2>4. m \in F
      BY <1>1, <2>1, <2>2, <2>3, NumberSteps
    <2> QED
      BY <2>4 DEF F
  <1>6. sc[m + n] = sa[m] + sb[n]
    <2> DEFINE F == {k \in 0 .. n : sc[m + k] = sa[m] + sb[k]}
    <2>1. 0 \in F
      <3>1. m + 0 = m /\ sa[m] \in Nat /\ 0 \in 0 .. n
        BY <1>1, <1>2
      <3>2. sa[m] + 0 = sa[m]
        BY <3>1
      <3> QED
        BY <1>3, <1>5, <3>1, <3>2
    <2>2. ASSUME NEW k \in 0 .. n, k # n, k \in F PROVE k + 1 \in F
      <3>1. m + k \in 0 .. m + n /\ m + k # m + n /\ k + 1 \in 1 .. n /\ k + 1 \in 0 .. n
            /\ (m + k) + 1 = m + (k + 1) /\ m \in 0 .. m
        BY <1>1, <2>2
      <3>2. c[m + (k + 1)] = b[k + 1]
        BY <1>1, <3>1
      <3>3. sc[m + (k + 1)] = sc[m + k] + Cost(c[m + (k + 1)])
        BY <1>4, <3>1
      <3>4. sb[k + 1] = sb[k] + Cost(b[k + 1]) /\ sa[m] \in Nat /\ sb[k] \in Nat
        BY <1>2, <1>3, <2>2, <3>1
      <3>5. sc[m + k] = sa[m] + sb[k]
        BY <2>2
      <3>6. sc[m + (k + 1)] = sa[m] + sb[k + 1]
        <4>1. Cost(b[k + 1]) \in Nat
          BY <1>1, <3>1, Costs
        <4> QED
          BY <3>2, <3>3, <3>4, <3>5, <4>1
      <3> QED
        BY <3>1, <3>6
    <2>3. n \in 0 .. n
      BY <1>1
    <2> HIDE DEF F
    <2>4. n \in F
      BY <1>1, <2>1, <2>2, <2>3, NumberSteps
    <2> QED
      BY <2>4 DEF F
  <1> QED
    BY <1>2, <1>3, <1>4, <1>6 DEF c

LEMMA WordsConcat ==
    ASSUME NEW a \in Text, NEW b \in Text PROVE Words(a \o b) = Words(a) \o Words(b)
  <1> DEFINE m == Len(a)
             n == Len(b)
             c == a \o b
  <1>1. /\ m \in Nat /\ n \in Nat /\ c \in Text /\ Len(c) = m + n
        /\ \A i \in 1 .. m : c[i] = a[i]
        /\ \A i \in 1 .. n : c[m + i] = b[i]
        /\ \A i \in 1 .. n : b[i] \in Symbol
    BY ConcatProperties DEF Text
  <1> HIDE DEF c
  <1>2. PICK sa \in [0 .. m -> Text] : /\ sa[0] = <<>> /\ sa[m] = Words(a)
                                  /\ \A k \in 0 .. m : k # m => sa[k + 1] = sa[k] \o Ink(a[k + 1])
    BY WordsStates
  <1>3. PICK sb \in [0 .. n -> Text] : /\ sb[0] = <<>> /\ sb[n] = Words(b)
                                  /\ \A k \in 0 .. n : k # n => sb[k + 1] = sb[k] \o Ink(b[k + 1])
    BY WordsStates
  <1>7. PICK sc \in [0 .. Len(c) -> Text] :
            /\ sc[0] = <<>> /\ sc[Len(c)] = Words(c)
            /\ \A k \in 0 .. Len(c) : k # Len(c) => sc[k + 1] = sc[k] \o Ink(c[k + 1])
    BY <1>1, WordsStates
  <1>4. /\ sc \in [0 .. m + n -> Text] /\ sc[0] = <<>> /\ sc[m + n] = Words(c)
        /\ \A k \in 0 .. m + n : k # m + n => sc[k + 1] = sc[k] \o Ink(c[k + 1])
    BY <1>1, <1>7
  <1> HIDE DEF m, n
  <1>5. sc[m] = sa[m]
    <2> DEFINE F == {k \in 0 .. m : sc[k] = sa[k]}
    <2>1. 0 \in F
      BY <1>1, <1>2, <1>4
    <2>2. ASSUME NEW k \in 0 .. m, k # m, k \in F PROVE k + 1 \in F
      <3>1. k \in 0 .. m + n /\ k # m + n /\ k + 1 \in 1 .. m /\ k + 1 \in 0 .. m
        BY <1>1, <2>2
      <3>2. c[k + 1] = a[k + 1]
        BY <1>1, <3>1
      <3> QED
        BY <1>2, <1>4, <2>2, <3>1, <3>2
    <2>3. m \in 0 .. m
      BY <1>1
    <2> HIDE DEF F
    <2>4. m \in F
      BY <1>1, <2>1, <2>2, <2>3, NumberSteps
    <2> QED
      BY <2>4 DEF F
  <1>6. sc[m + n] = sa[m] \o sb[n]
    <2> DEFINE F == {k \in 0 .. n : sc[m + k] = sa[m] \o sb[k]}
    <2>1. 0 \in F
      <3>1. m + 0 = m /\ sa[m] \in Text /\ 0 \in 0 .. n
        BY <1>1, <1>2
      <3>2. sa[m] \o <<>> = sa[m]
        BY <3>1, ConcatProperties DEF Text
      <3> QED
        BY <1>3, <1>5, <3>1, <3>2
    <2>2. ASSUME NEW k \in 0 .. n, k # n, k \in F PROVE k + 1 \in F
      <3>1. m + k \in 0 .. m + n /\ m + k # m + n /\ k + 1 \in 1 .. n /\ k + 1 \in 0 .. n
            /\ (m + k) + 1 = m + (k + 1) /\ m \in 0 .. m
        BY <1>1, <2>2
      <3>2. c[m + (k + 1)] = b[k + 1]
        BY <1>1, <3>1
      <3>3. sc[m + (k + 1)] = sc[m + k] \o Ink(c[m + (k + 1)])
        BY <1>4, <3>1
      <3>4. sb[k + 1] = sb[k] \o Ink(b[k + 1]) /\ sa[m] \in Text /\ sb[k] \in Text
        BY <1>2, <1>3, <2>2, <3>1
      <3>5. sc[m + k] = sa[m] \o sb[k]
        BY <2>2
      <3>6. sc[m + (k + 1)] = sa[m] \o sb[k + 1]
        <4>1. Ink(b[k + 1]) \in Text
          BY <1>1, <3>1, InkIs
        <4>2. sa[m] \o (sb[k] \o Ink(b[k + 1])) = (sa[m] \o sb[k]) \o Ink(b[k + 1])
          <5>1. sa[m] \in Text /\ sb[k] \in Text
            BY <3>4
          <5>2. \A z \in Text : sa[m] \o (sb[k] \o z) = (sa[m] \o sb[k]) \o z
            BY <5>1, TextAssociative
          <5> QED
            BY <4>1, <5>2
        <4> QED
          BY <3>2, <3>3, <3>4, <3>5, <4>2
      <3> QED
        BY <3>1, <3>6
    <2>3. n \in 0 .. n
      BY <1>1
    <2> HIDE DEF F
    <2>4. n \in F
      BY <1>1, <2>1, <2>2, <2>3, NumberSteps
    <2> QED
      BY <2>4 DEF F
  <1> QED
    BY <1>2, <1>3, <1>4, <1>6 DEF c

LEMMA WordsOfConcat ==
    ASSUME NEW a \in Seq(Text), NEW b \in Seq(Text) PROVE WordsOf(a \o b) = WordsOf(a) \o WordsOf(b)
  <1> DEFINE m == Len(a)
             n == Len(b)
             c == a \o b
  <1>1. /\ m \in Nat /\ n \in Nat /\ c \in Seq(Text) /\ Len(c) = m + n
        /\ \A i \in 1 .. m : c[i] = a[i]
        /\ \A i \in 1 .. n : c[m + i] = b[i]
        /\ \A i \in 1 .. n : b[i] \in Text
    BY ConcatProperties DEF Text
  <1> HIDE DEF c
  <1>2. PICK sa \in [0 .. m -> Text] : /\ sa[0] = <<>> /\ sa[m] = WordsOf(a)
                                  /\ \A k \in 0 .. m : k # m => sa[k + 1] = sa[k] \o Words(a[k + 1])
    BY WordsOfStates
  <1>3. PICK sb \in [0 .. n -> Text] : /\ sb[0] = <<>> /\ sb[n] = WordsOf(b)
                                  /\ \A k \in 0 .. n : k # n => sb[k + 1] = sb[k] \o Words(b[k + 1])
    BY WordsOfStates
  <1>7. PICK sc \in [0 .. Len(c) -> Text] :
            /\ sc[0] = <<>> /\ sc[Len(c)] = WordsOf(c)
            /\ \A k \in 0 .. Len(c) : k # Len(c) => sc[k + 1] = sc[k] \o Words(c[k + 1])
    BY <1>1, WordsOfStates
  <1>4. /\ sc \in [0 .. m + n -> Text] /\ sc[0] = <<>> /\ sc[m + n] = WordsOf(c)
        /\ \A k \in 0 .. m + n : k # m + n => sc[k + 1] = sc[k] \o Words(c[k + 1])
    BY <1>1, <1>7
  <1> HIDE DEF m, n
  <1>5. sc[m] = sa[m]
    <2> DEFINE F == {k \in 0 .. m : sc[k] = sa[k]}
    <2>1. 0 \in F
      BY <1>1, <1>2, <1>4
    <2>2. ASSUME NEW k \in 0 .. m, k # m, k \in F PROVE k + 1 \in F
      <3>1. k \in 0 .. m + n /\ k # m + n /\ k + 1 \in 1 .. m /\ k + 1 \in 0 .. m
        BY <1>1, <2>2
      <3>2. c[k + 1] = a[k + 1]
        BY <1>1, <3>1
      <3> QED
        BY <1>2, <1>4, <2>2, <3>1, <3>2
    <2>3. m \in 0 .. m
      BY <1>1
    <2> HIDE DEF F
    <2>4. m \in F
      BY <1>1, <2>1, <2>2, <2>3, NumberSteps
    <2> QED
      BY <2>4 DEF F
  <1>6. sc[m + n] = sa[m] \o sb[n]
    <2> DEFINE F == {k \in 0 .. n : sc[m + k] = sa[m] \o sb[k]}
    <2>1. 0 \in F
      <3>1. m + 0 = m /\ sa[m] \in Text /\ 0 \in 0 .. n
        BY <1>1, <1>2
      <3>2. sa[m] \o <<>> = sa[m]
        BY <3>1, ConcatProperties DEF Text
      <3> QED
        BY <1>3, <1>5, <3>1, <3>2
    <2>2. ASSUME NEW k \in 0 .. n, k # n, k \in F PROVE k + 1 \in F
      <3>1. m + k \in 0 .. m + n /\ m + k # m + n /\ k + 1 \in 1 .. n /\ k + 1 \in 0 .. n
            /\ (m + k) + 1 = m + (k + 1) /\ m \in 0 .. m
        BY <1>1, <2>2
      <3>2. c[m + (k + 1)] = b[k + 1]
        BY <1>1, <3>1
      <3>3. sc[m + (k + 1)] = sc[m + k] \o Words(c[m + (k + 1)])
        BY <1>4, <3>1
      <3>4. sb[k + 1] = sb[k] \o Words(b[k + 1]) /\ sa[m] \in Text /\ sb[k] \in Text
        BY <1>2, <1>3, <2>2, <3>1
      <3>5. sc[m + k] = sa[m] \o sb[k]
        BY <2>2
      <3>6. sc[m + (k + 1)] = sa[m] \o sb[k + 1]
        <4>1. Words(b[k + 1]) \in Text
          BY <1>1, <3>1, WordsIs
        <4>2. sa[m] \o (sb[k] \o Words(b[k + 1])) = (sa[m] \o sb[k]) \o Words(b[k + 1])
          <5>1. sa[m] \in Text /\ sb[k] \in Text
            BY <3>4
          <5>2. \A z \in Text : sa[m] \o (sb[k] \o z) = (sa[m] \o sb[k]) \o z
            BY <5>1, TextAssociative
          <5> QED
            BY <4>1, <5>2
        <4> QED
          BY <3>2, <3>3, <3>4, <3>5, <4>2
      <3> QED
        BY <3>1, <3>6
    <2>3. n \in 0 .. n
      BY <1>1
    <2> HIDE DEF F
    <2>4. n \in F
      BY <1>1, <2>1, <2>2, <2>3, NumberSteps
    <2> QED
      BY <2>4 DEF F
  <1> QED
    BY <1>2, <1>3, <1>4, <1>6 DEF c

-----------------------------------------------------------------------------
(* Short texts, blank texts, and what Flush adds.                            *)

LEMMA OneSymbol ==
    ASSUME NEW c \in Symbol
    PROVE  <<c>> \in Text /\ Len(<<c>>) = 1 /\ Count(<<c>>) = Cost(c) /\ Words(<<c>>) = Ink(c)
  <1>1. <<c>> \in Text /\ Len(<<c>>) = 1 /\ <<c>>[1] = c
    BY DEF Text
  <1> DEFINE t == <<c>>
  <1>2. PICK sc \in [0 .. Len(t) -> Nat] :
            /\ sc[0] = 0 /\ sc[Len(t)] = Count(t)
            /\ \A k \in 0 .. Len(t) : k # Len(t) => sc[k + 1] = sc[k] + Cost(t[k + 1])
    BY <1>1, CountStates
  <1>3. PICK sw \in [0 .. Len(t) -> Text] :
            /\ sw[0] = <<>> /\ sw[Len(t)] = Words(t)
            /\ \A k \in 0 .. Len(t) : k # Len(t) => sw[k + 1] = sw[k] \o Ink(t[k + 1])
    BY <1>1, WordsStates
  <1>4. 0 \in 0 .. Len(t) /\ 0 # Len(t) /\ 0 + 1 = 1
    BY <1>1
  <1>5. Count(t) = 0 + Cost(c) /\ Words(t) = <<>> \o Ink(c)
    BY <1>1, <1>2, <1>3, <1>4
  <1>6. Cost(c) \in Nat /\ Ink(c) \in Text
    BY Costs, InkIs
  <1> QED
    BY <1>1, <1>5, <1>6, TextConcat

LEMMA NoSymbol == <<>> \in Text /\ Count(<<>>) = 0 /\ Words(<<>>) = <<>>
  <1>1. <<>> \in Text /\ Len(<<>>) = 0
    BY DEF Text
  <1>2. PICK sc \in [0 .. Len(<<>>) -> Nat] : sc[0] = 0 /\ sc[Len(<<>>)] = Count(<<>>)
    BY <1>1, CountStates
  <1>3. PICK sw \in [0 .. Len(<<>>) -> Text] : sw[0] = <<>> /\ sw[Len(<<>>)] = Words(<<>>)
    BY <1>1, WordsStates
  <1> QED
    BY <1>1, <1>2, <1>3

LEMMA FewTexts ==
    /\ <<>> \in Seq(Text) /\ WordsOf(<<>>) = <<>>
    /\ \A t \in Text : <<t>> \in Seq(Text) /\ WordsOf(<<t>>) = Words(t)
  <1>1. <<>> \in Seq(Text) /\ Len(<<>>) = 0
    OBVIOUS
  <1>2. PICK sw \in [0 .. Len(<<>>) -> Text] : sw[0] = <<>> /\ sw[Len(<<>>)] = WordsOf(<<>>)
    BY <1>1, WordsOfStates
  <1>3. ASSUME NEW t \in Text PROVE <<t>> \in Seq(Text) /\ WordsOf(<<t>>) = Words(t)
    <2> DEFINE cs == <<t>>
    <2>1. cs \in Seq(Text) /\ Len(cs) = 1 /\ cs[1] = t
      OBVIOUS
    <2>2. PICK st \in [0 .. Len(cs) -> Text] :
            /\ st[0] = <<>> /\ st[Len(cs)] = WordsOf(cs)
            /\ \A k \in 0 .. Len(cs) : k # Len(cs) => st[k + 1] = st[k] \o Words(cs[k + 1])
      BY <2>1, WordsOfStates
    <2>3. 0 \in 0 .. Len(cs) /\ 0 # Len(cs) /\ 0 + 1 = 1
      BY <2>1
    <2>4. WordsOf(cs) = <<>> \o Words(t)
      BY <2>1, <2>2, <2>3
    <2>5. Words(t) \in Text
      BY WordsIs
    <2> QED
      BY <2>1, <2>4, <2>5, TextConcat
  <1> QED
    BY <1>1, <1>2, <1>3

LEMMA WordsAppend ==
    ASSUME NEW cs \in Seq(Text), NEW t \in Text
    PROVE  Append(cs, t) \in Seq(Text) /\ WordsOf(Append(cs, t)) = WordsOf(cs) \o Words(t)
  <1>1. Append(cs, t) = cs \o <<t>> /\ Append(cs, t) \in Seq(Text)
    BY AppendIsConcat, AppendProperties
  <1>2. <<t>> \in Seq(Text) /\ WordsOf(<<t>>) = Words(t)
    BY FewTexts
  <1> QED
    BY <1>1, <1>2, WordsOfConcat

LEMMA WordsOfIs == ASSUME NEW cs \in Seq(Text) PROVE WordsOf(cs) \in Text
  <1>1. PICK st \in [0 .. Len(cs) -> Text] : st[Len(cs)] = WordsOf(cs)
    BY WordsOfStates
  <1> QED
    BY <1>1

LEMMA BlankWords == ASSUME NEW t \in Text, IsBlank(t) PROVE Words(t) = <<>>
  <1> DEFINE n == Len(t)
  <1>1. PICK sw \in [0 .. n -> Text] :
            /\ sw[0] = <<>> /\ sw[n] = Words(t)
            /\ \A k \in 0 .. n : k # n => sw[k + 1] = sw[k] \o Ink(t[k + 1])
    BY WordsStates
  <1>2. n \in Nat /\ n \in 0 .. n /\ DOMAIN t = 1 .. n
    BY DEF Text
  <1>3. \A i \in 1 .. n : Ink(t[i]) = <<>>
    BY <1>2 DEF IsBlank, Ink, Cost, Period, NewLine
  <1> HIDE DEF n
  <1> DEFINE F == {k \in 0 .. n : sw[k] = <<>>}
  <1>4. 0 \in F
    BY <1>1, <1>2
  <1>5. ASSUME NEW k \in 0 .. n, k # n, k \in F PROVE k + 1 \in F
    <2>1. k + 1 \in 1 .. n /\ k + 1 \in 0 .. n
      BY <1>2, <1>5
    <2>2. sw[k + 1] = <<>> \o <<>>
      BY <1>1, <1>3, <1>5, <2>1
    <2>3. <<>> \o <<>> = <<>>
      BY TextConcat, NoSymbol
    <2> QED
      BY <2>1, <2>2, <2>3
  <1> HIDE DEF F
  <1>6. n \in F
    BY <1>2, <1>4, <1>5, NumberSteps
  <1> QED
    BY <1>1, <1>6 DEF F

LEMMA CountOfWords == ASSUME NEW t \in Text PROVE Count(Words(t)) = Count(t)
  <1> DEFINE n == Len(t)
  <1>1. PICK sw \in [0 .. n -> Text] :
            /\ sw[0] = <<>> /\ sw[n] = Words(t)
            /\ \A k \in 0 .. n : k # n => sw[k + 1] = sw[k] \o Ink(t[k + 1])
    BY WordsStates
  <1>2. PICK sc \in [0 .. n -> Nat] :
            /\ sc[0] = 0 /\ sc[n] = Count(t)
            /\ \A k \in 0 .. n : k # n => sc[k + 1] = sc[k] + Cost(t[k + 1])
    BY CountStates
  <1>3. n \in Nat /\ n \in 0 .. n /\ \A i \in 1 .. n : t[i] \in Symbol
    BY DEF Text
  <1>4. \A c \in Symbol : Ink(c) \in Text /\ Count(Ink(c)) = Cost(c)
    <2> SUFFICES ASSUME NEW c \in Symbol PROVE Ink(c) \in Text /\ Count(Ink(c)) = Cost(c)
      OBVIOUS
    <2>1. Cost(c) \in Nat /\ <<c>> \in Text /\ Count(<<c>>) = Cost(c)
      BY Costs, OneSymbol
    <2>2. CASE Cost(c) > 0
      BY <2>1, <2>2 DEF Ink
    <2>3. CASE ~(Cost(c) > 0)
      <3>1. Cost(c) = 0 /\ Ink(c) = <<>>
        BY <2>1, <2>3 DEF Ink
      <3> QED
        BY <3>1, NoSymbol
    <2> QED
      BY <2>2, <2>3
  <1> HIDE DEF n
  <1> DEFINE F == {k \in 0 .. n : Count(sw[k]) = sc[k]}
  <1>5. 0 \in F
    BY <1>1, <1>2, <1>3, NoSymbol
  <1>6. ASSUME NEW k \in 0 .. n, k # n, k \in F PROVE k + 1 \in F
    <2>1. k + 1 \in 1 .. n /\ k + 1 \in 0 .. n /\ t[k + 1] \in Symbol /\ sw[k] \in Text
      BY <1>1, <1>3, <1>6
    <2>2. Count(sw[k] \o Ink(t[k + 1])) = Count(sw[k]) + Count(Ink(t[k + 1]))
      <3>1. Ink(t[k + 1]) \in Text
        BY <1>4, <2>1
      <3> QED
        BY <2>1, <3>1, CountConcat
    <2>3. Count(Ink(t[k + 1])) = Cost(t[k + 1])
      BY <1>4, <2>1
    <2>4. sw[k + 1] = sw[k] \o Ink(t[k + 1]) /\ sc[k + 1] = sc[k] + Cost(t[k + 1]) /\ Count(sw[k]) = sc[k]
      BY <1>1, <1>2, <1>6
    <2> QED
      BY <2>1, <2>2, <2>3, <2>4
  <1> HIDE DEF F
  <1>7. n \in F
    BY <1>3, <1>5, <1>6, NumberSteps
  <1> QED
    BY <1>1, <1>2, <1>7 DEF F

LEMMA FlushWords ==
    ASSUME NEW acc, acc.out \in Seq(Text), acc.buf \in Text
    PROVE  /\ Flush(acc) \in Seq(Text)
           /\ WordsOf(Flush(acc)) = WordsOf(acc.out) \o Words(acc.buf)
  <1>1. CASE IsBlank(acc.buf)
    <2>1. Words(acc.buf) = <<>> /\ WordsOf(acc.out) \in Text
      BY <1>1, BlankWords, WordsOfIs
    <2> QED
      BY <1>1, <2>1, TextConcat DEF Flush
  <1>2. CASE ~IsBlank(acc.buf)
    BY <1>2, WordsAppend DEF Flush
  <1> QED
    BY <1>1, <1>2

-----------------------------------------------------------------------------
(* What the steps of the three folds stay in: the cuts of str.split, the    *)
(* words of _hard_split and the pieces of _recurse; the buffer always fits.  *)

Cuts(text) == [from : 1 .. Len(text) + 1, out : Seq(Text)]
Adding == {a \in [out : Seq(Text), buf : Text, open : BOOLEAN] :
              Fits(a.buf) /\ (a.open \/ a.buf = <<>>)}
Piecing == {a \in [out : Seq(Text), buf : Text] : Fits(a.buf)}

LEMMA PartOf ==
    ASSUME NEW text \in Text, NEW p \in 1 .. Len(text) + 1, NEW q \in 0 .. Len(text)
    PROVE  SubSeq(text, p, q) \in Text
  <1>1. p \in Int /\ q \in Int /\ \A i \in p .. q : text[i] \in Symbol
    BY DEF Text
  <1> QED
    BY <1>1, SubSeqProperties DEF Text

LEMMA CutIs ==
    ASSUME NEW text \in Text, NEW sep \in Text, sep # <<>>
    PROVE  /\ [from |-> 1, out |-> <<>>] \in Cuts(text)
           /\ \A acc \in Cuts(text) : \A i \in 1 .. Len(text) : Cut(text, sep, acc, i) \in Cuts(text)
  <1>1. Len(text) \in Nat /\ Len(sep) \in Nat /\ Len(sep) > 0
    BY EmptySeq, LenProperties DEF Text
  <1>2. [from |-> 1, out |-> <<>>] \in Cuts(text)
    BY <1>1, FewTexts DEF Cuts
  <1>3. ASSUME NEW acc \in Cuts(text), NEW i \in 1 .. Len(text) PROVE Cut(text, sep, acc, i) \in Cuts(text)
    <2>1. CASE i < acc.from \/ ~IsAt(text, sep, i)
      BY <2>1 DEF Cut
    <2>2. CASE ~(i < acc.from \/ ~IsAt(text, sep, i))
      <3>1. acc.from \in 1 .. Len(text) + 1 /\ acc.out \in Seq(Text) /\ i - 1 \in 0 .. Len(text)
        BY <1>1 DEF Cuts
      <3>2. SubSeq(text, acc.from, i - 1) \in Text
        BY <3>1, PartOf
      <3>3. Append(acc.out, SubSeq(text, acc.from, i - 1)) \in Seq(Text)
        BY <3>1, <3>2, WordsAppend
      <3>4. i + Len(sep) \in 1 .. Len(text) + 1
        BY <1>1, <2>2 DEF IsAt
      <3> QED
        BY <2>2, <3>3, <3>4 DEF Cut, Cuts
    <2> QED
      BY <2>1, <2>2
  <1> QED
    BY <1>2, <1>3

LEMMA AddIs ==
    /\ [out |-> <<>>, buf |-> <<>>, open |-> FALSE] \in Adding
    /\ \A acc \in Adding, word \in Text : AddWord(acc, word) \in Adding
  <1>1. Fits(<<>>)
    BY NoSymbol, BudgetAssumption DEF Fits
  <1>2. [out |-> <<>>, buf |-> <<>>, open |-> FALSE] \in Adding
    BY <1>1, FewTexts, NoSymbol DEF Adding
  <1>3. ASSUME NEW acc \in Adding, NEW word \in Text PROVE AddWord(acc, word) \in Adding
    <2>1. acc.out \in Seq(Text) /\ acc.buf \in Text /\ acc.open \in BOOLEAN
      BY DEF Adding
    <2>2. Flush(acc) \in Seq(Text) /\ Append(Flush(acc), word) \in Seq(Text)
      BY <2>1, FlushWords, WordsAppend
    <2>3. Joined(acc, word) \in Text
      <3>1. <<0>> \in Text
        BY OneSymbol DEF Symbol
      <3> QED
        BY <2>1, <3>1, TextConcat DEF Joined
    <2>4. CASE Fits(Joined(acc, word))
      <3>1. AddWord(acc, word) = [out |-> acc.out, buf |-> Joined(acc, word), open |-> TRUE]
        BY <2>4 DEF AddWord, Adding
      <3> QED
        BY <2>1, <2>3, <2>4, <3>1 DEF Adding
    <2>5. CASE ~Fits(Joined(acc, word)) /\ Fits(word)
      <3>1. AddWord(acc, word) = [out |-> Flush(acc), buf |-> word, open |-> TRUE]
        BY <2>5 DEF AddWord
      <3> QED
        BY <2>2, <2>5, <3>1 DEF Adding
    <2>6. CASE ~Fits(Joined(acc, word)) /\ ~Fits(word)
      <3>1. AddWord(acc, word) = [out |-> Append(Flush(acc), word), buf |-> <<>>, open |-> FALSE]
        BY <2>6 DEF AddWord
      <3> QED
        BY <1>1, <2>2, <3>1, NoSymbol DEF Adding
    <2> QED
      BY <2>4, <2>5, <2>6
  <1> QED
    BY <1>2, <1>3

LEMMA PieceIs ==
    ASSUME NEW deeper \in [Text -> Seq(Text)]
    PROVE  /\ [out |-> <<>>, buf |-> <<>>] \in Piecing
           /\ \A acc \in Piecing, piece \in Text : AddPiece(deeper, acc, piece) \in Piecing
  <1>1. Fits(<<>>)
    BY NoSymbol, BudgetAssumption DEF Fits
  <1>2. [out |-> <<>>, buf |-> <<>>] \in Piecing
    BY <1>1, FewTexts, NoSymbol DEF Piecing
  <1>3. ASSUME NEW acc \in Piecing, NEW piece \in Text PROVE AddPiece(deeper, acc, piece) \in Piecing
    <2>1. acc.out \in Seq(Text) /\ acc.buf \in Text
      BY DEF Piecing
    <2>2. Flush(acc) \in Seq(Text) /\ Flush(acc) \o deeper[piece] \in Seq(Text)
      BY <2>1, FlushWords, ConcatProperties
    <2>3. acc.buf \o piece \in Text
      BY <2>1, TextConcat
    <2>4. CASE Fits(acc.buf \o piece)
      <3>1. AddPiece(deeper, acc, piece) = [out |-> acc.out, buf |-> acc.buf \o piece]
        BY <2>4 DEF AddPiece, Piecing
      <3>2. PICK buf : buf = acc.buf \o piece
        OBVIOUS
      <3>3. [out |-> acc.out, buf |-> buf] \in Piecing
        BY <2>1, <2>3, <2>4, <3>2 DEF Piecing
      <3> QED
        BY <3>1, <3>2, <3>3
    <2>5. CASE ~Fits(acc.buf \o piece) /\ Fits(piece)
      <3>1. AddPiece(deeper, acc, piece) = [out |-> Flush(acc), buf |-> piece]
        BY <2>5 DEF AddPiece
      <3> QED
        BY <2>2, <2>5, <3>1 DEF Piecing
    <2>6. CASE ~Fits(acc.buf \o piece) /\ ~Fits(piece)
      <3>1. AddPiece(deeper, acc, piece) = [out |-> Flush(acc) \o deeper[piece], buf |-> <<>>]
        BY <2>6 DEF AddPiece
      <3> QED
        BY <1>1, <2>2, <3>1, NoSymbol DEF Piecing
    <2> QED
      BY <2>4, <2>5, <2>6
  <1> QED
    BY <1>2, <1>3

LEMMA CutStates ==
    ASSUME NEW text \in Text, NEW sep \in Text, sep # <<>>
    PROVE  \E st \in [0 .. Len(text) -> Cuts(text)] :
              /\ st[0] = [from |-> 1, out |-> <<>>]
              /\ SplitAt(text, sep) = Append(st[Len(text)].out, SubSeq(text, st[Len(text)].from, Len(text)))
              /\ \A k \in 0 .. Len(text) : k # Len(text) => st[k + 1] = Cut(text, sep, st[k], k + 1)
  <1> DEFINE N == Len(Places(text))
             G == Cuts(text)
             base == [from |-> 1, out |-> <<>>]
             step(acc, c) == Cut(text, sep, acc, c)
             h == [acc \in G |-> [i \in 1 .. N |-> step(acc, Places(text)[i])]]
             it == CHOOSE it : it = [s \in SUBSET DOMAIN Places(text) |->
                      IF s = {} THEN base ELSE step(it[s \ {Max(s)}], Places(text)[Max(s)])]
  <1>1. N \in Nat /\ DOMAIN Places(text) = 1 .. N
    BY DEF Text, Places
  <1>9. N = Len(text) /\ \A i \in 1 .. N : Places(text)[i] = i
    BY DEF Text, Places
  <1>2. SplitAt(text, sep) = Append(it[DOMAIN Places(text)].out, SubSeq(text, it[DOMAIN Places(text)].from, Len(text)))
    BY DEF SplitAt, FoldLeft, MapThenFoldSet
  <1>3. base \in G /\ \A acc \in G : \A i \in 1 .. N : step(acc, Places(text)[i]) \in G
    BY <1>1, <1>9, CutIs
  <1> HIDE DEF step, N, G, base
  <1>4. h \in [G -> [1 .. N -> G]] /\ \A acc \in G : \A i \in 1 .. N : h[acc][i] = step(acc, Places(text)[i])
    BY <1>3
  <1> HIDE DEF h
  <1>5. it = [s \in SUBSET DOMAIN Places(text) |-> IF s = {} THEN base ELSE step(it[s \ {Max(s)}], Places(text)[Max(s)])]
    <2>1. PICK jt \in [SUBSET (1 .. N) -> G] : Iterates(jt, h, base, N)
      BY <1>1, <1>3, <1>4, IterateExists
    <2>2. ASSUME NEW s \in SUBSET (1 .. N), s # {}
          PROVE  h[jt[s \ {Max(s)}]][Max(s)] = step(jt[s \ {Max(s)}], Places(text)[Max(s)])
      <3>1. Max(s) \in 1 .. N /\ s \ {Max(s)} \in SUBSET (1 .. N)
        BY <1>1, <2>2, MaxOf
      <3> QED
        BY <1>4, <3>1
    <2>3. jt = [s \in SUBSET DOMAIN Places(text) |-> IF s = {} THEN base ELSE step(jt[s \ {Max(s)}], Places(text)[Max(s)])]
      BY <1>1, <2>1, <2>2 DEF Iterates
    <2> QED
      BY <2>3
  <1> HIDE DEF it
  <1>6. Follows(it, h, base, N, G)
    <2>1. \A s \in SUBSET (1 .. N) : s # {} => Max(s) \in 1 .. N
      BY <1>1, MaxOf
    <2> QED
      BY <1>1, <1>4, <1>5, <2>1 DEF Follows
  <1>7. PICK st \in [0 .. N -> G] : Reaches(st, h, base, N) /\ st[N] = it[1 .. N]
    <2>1. Stops(it, N) \in [0 .. N -> G] /\ Reaches(Stops(it, N), h, base, N)
      BY <1>1, <1>3, <1>4, <1>6, StatesOf
    <2>2. Stops(it, N)[N] = it[1 .. N]
      BY <1>1 DEF Stops
    <2> QED
      BY <2>1, <2>2
  <1>8. \A k \in 0 .. N : k # N => st[k + 1] = step(st[k], Places(text)[k + 1])
    <2>1. \A k \in 0 .. N : k # N => k + 1 \in 1 .. N /\ st[k] \in G
      BY <1>1, <1>7
    <2> QED
      BY <1>4, <1>7, <2>1 DEF Reaches
  <1>10. /\ st \in [0 .. Len(text) -> Cuts(text)] /\ st[0] = [from |-> 1, out |-> <<>>]
         /\ st[N] = it[DOMAIN Places(text)]
    BY <1>1, <1>7, <1>9 DEF G, base, Reaches
  <1>11. \A k \in 0 .. Len(text) : k # Len(text) => st[k + 1] = Cut(text, sep, st[k], k + 1)
    <2> SUFFICES ASSUME NEW k \in 0 .. Len(text), k # Len(text) PROVE st[k + 1] = Cut(text, sep, st[k], k + 1)
      OBVIOUS
    <2>1. k + 1 \in 1 .. N /\ k \in 0 .. N /\ k # N
      BY <1>1, <1>9
    <2>2. Places(text)[k + 1] = k + 1
      BY <1>9, <2>1
    <2> QED
      BY <1>8, <2>1, <2>2 DEF step
  <1> QED
    BY <1>2, <1>9, <1>10, <1>11

LEMMA AddStates ==
    ASSUME NEW words \in Seq(Text)
    PROVE  \E st \in [0 .. Len(words) -> Adding] :
              /\ st[0] = [out |-> <<>>, buf |-> <<>>, open |-> FALSE]
              /\ st[Len(words)] = FoldLeft(AddWord, [out |-> <<>>, buf |-> <<>>, open |-> FALSE], words)
              /\ \A k \in 0 .. Len(words) : k # Len(words) => st[k + 1] = AddWord(st[k], words[k + 1])
  <1> DEFINE N == Len(words)
             G == Adding
             base == [out |-> <<>>, buf |-> <<>>, open |-> FALSE]
             step(acc, c) == AddWord(acc, c)
             h == [acc \in G |-> [i \in 1 .. N |-> step(acc, words[i])]]
             it == CHOOSE it : it = [s \in SUBSET DOMAIN words |->
                      IF s = {} THEN base ELSE step(it[s \ {Max(s)}], words[Max(s)])]
  <1>1. N \in Nat /\ DOMAIN words = 1 .. N /\ \A i \in 1 .. N : words[i] \in Text
    BY DEF Text
  <1>2. FoldLeft(AddWord, [out |-> <<>>, buf |-> <<>>, open |-> FALSE], words) = it[DOMAIN words]
    BY DEF FoldLeft, MapThenFoldSet
  <1>3. base \in G /\ \A acc \in G : \A i \in 1 .. N : step(acc, words[i]) \in G
    BY <1>1, AddIs
  <1> HIDE DEF step, N, G, base
  <1>4. h \in [G -> [1 .. N -> G]] /\ \A acc \in G : \A i \in 1 .. N : h[acc][i] = step(acc, words[i])
    BY <1>3
  <1> HIDE DEF h
  <1>5. it = [s \in SUBSET DOMAIN words |-> IF s = {} THEN base ELSE step(it[s \ {Max(s)}], words[Max(s)])]
    <2>1. PICK jt \in [SUBSET (1 .. N) -> G] : Iterates(jt, h, base, N)
      BY <1>1, <1>3, <1>4, IterateExists
    <2>2. ASSUME NEW s \in SUBSET (1 .. N), s # {}
          PROVE  h[jt[s \ {Max(s)}]][Max(s)] = step(jt[s \ {Max(s)}], words[Max(s)])
      <3>1. Max(s) \in 1 .. N /\ s \ {Max(s)} \in SUBSET (1 .. N)
        BY <1>1, <2>2, MaxOf
      <3> QED
        BY <1>4, <3>1
    <2>3. jt = [s \in SUBSET DOMAIN words |-> IF s = {} THEN base ELSE step(jt[s \ {Max(s)}], words[Max(s)])]
      BY <1>1, <2>1, <2>2 DEF Iterates
    <2> QED
      BY <2>3
  <1> HIDE DEF it
  <1>6. Follows(it, h, base, N, G)
    <2>1. \A s \in SUBSET (1 .. N) : s # {} => Max(s) \in 1 .. N
      BY <1>1, MaxOf
    <2> QED
      BY <1>1, <1>4, <1>5, <2>1 DEF Follows
  <1>7. PICK st \in [0 .. N -> G] : Reaches(st, h, base, N) /\ st[N] = it[1 .. N]
    <2>1. Stops(it, N) \in [0 .. N -> G] /\ Reaches(Stops(it, N), h, base, N)
      BY <1>1, <1>3, <1>4, <1>6, StatesOf
    <2>2. Stops(it, N)[N] = it[1 .. N]
      BY <1>1 DEF Stops
    <2> QED
      BY <2>1, <2>2
  <1>8. \A k \in 0 .. N : k # N => st[k + 1] = step(st[k], words[k + 1])
    <2>1. \A k \in 0 .. N : k # N => k + 1 \in 1 .. N /\ st[k] \in G
      BY <1>1, <1>7
    <2> QED
      BY <1>4, <1>7, <2>1 DEF Reaches
  <1> QED
    BY <1>1, <1>2, <1>7, <1>8 DEF step, N, G, base, Reaches

LEMMA PieceStates ==
    ASSUME NEW pieces \in Seq(Text), NEW deeper \in [Text -> Seq(Text)]
    PROVE  \E st \in [0 .. Len(pieces) -> Piecing] :
              /\ st[0] = [out |-> <<>>, buf |-> <<>>]
              /\ st[Len(pieces)] = Collected(deeper, pieces)
              /\ \A k \in 0 .. Len(pieces) : k # Len(pieces) => st[k + 1] = AddPiece(deeper, st[k], pieces[k + 1])
  <1> DEFINE N == Len(pieces)
             G == Piecing
             base == [out |-> <<>>, buf |-> <<>>]
             step(acc, c) == AddPiece(deeper, acc, c)
             h == [acc \in G |-> [i \in 1 .. N |-> step(acc, pieces[i])]]
             it == CHOOSE it : it = [s \in SUBSET DOMAIN pieces |->
                      IF s = {} THEN base ELSE step(it[s \ {Max(s)}], pieces[Max(s)])]
  <1>1. N \in Nat /\ DOMAIN pieces = 1 .. N /\ \A i \in 1 .. N : pieces[i] \in Text
    BY DEF Text
  <1>2. Collected(deeper, pieces) = it[DOMAIN pieces]
    BY DEF Collected, FoldLeft, MapThenFoldSet
  <1>3. base \in G /\ \A acc \in G : \A i \in 1 .. N : step(acc, pieces[i]) \in G
    BY <1>1, PieceIs
  <1> HIDE DEF step, N, G, base
  <1>4. h \in [G -> [1 .. N -> G]] /\ \A acc \in G : \A i \in 1 .. N : h[acc][i] = step(acc, pieces[i])
    BY <1>3
  <1> HIDE DEF h
  <1>5. it = [s \in SUBSET DOMAIN pieces |-> IF s = {} THEN base ELSE step(it[s \ {Max(s)}], pieces[Max(s)])]
    <2>1. PICK jt \in [SUBSET (1 .. N) -> G] : Iterates(jt, h, base, N)
      BY <1>1, <1>3, <1>4, IterateExists
    <2>2. ASSUME NEW s \in SUBSET (1 .. N), s # {}
          PROVE  h[jt[s \ {Max(s)}]][Max(s)] = step(jt[s \ {Max(s)}], pieces[Max(s)])
      <3>1. Max(s) \in 1 .. N /\ s \ {Max(s)} \in SUBSET (1 .. N)
        BY <1>1, <2>2, MaxOf
      <3> QED
        BY <1>4, <3>1
    <2>3. jt = [s \in SUBSET DOMAIN pieces |-> IF s = {} THEN base ELSE step(jt[s \ {Max(s)}], pieces[Max(s)])]
      BY <1>1, <2>1, <2>2 DEF Iterates
    <2> QED
      BY <2>3
  <1> HIDE DEF it
  <1>6. Follows(it, h, base, N, G)
    <2>1. \A s \in SUBSET (1 .. N) : s # {} => Max(s) \in 1 .. N
      BY <1>1, MaxOf
    <2> QED
      BY <1>1, <1>4, <1>5, <2>1 DEF Follows
  <1>7. PICK st \in [0 .. N -> G] : Reaches(st, h, base, N) /\ st[N] = it[1 .. N]
    <2>1. Stops(it, N) \in [0 .. N -> G] /\ Reaches(Stops(it, N), h, base, N)
      BY <1>1, <1>3, <1>4, <1>6, StatesOf
    <2>2. Stops(it, N)[N] = it[1 .. N]
      BY <1>1 DEF Stops
    <2> QED
      BY <2>1, <2>2
  <1>8. \A k \in 0 .. N : k # N => st[k + 1] = step(st[k], pieces[k + 1])
    <2>1. \A k \in 0 .. N : k # N => k + 1 \in 1 .. N /\ st[k] \in G
      BY <1>1, <1>7
    <2> QED
      BY <1>4, <1>7, <2>1 DEF Reaches
  <1> QED
    BY <1>1, <1>2, <1>7, <1>8 DEF step, N, G, base, Reaches

-----------------------------------------------------------------------------
(* str.split: the parts before the cut spell the text up to it, each with    *)
(* its separator lies in the text, and a part has no separator of one symbol. *)

Within(part, text) ==
    \E p \in 1 .. Len(text) + 1, q \in 0 .. Len(text) : part = SubSeq(text, p, q)
Marked(parts, sep) == [i \in DOMAIN parts |-> parts[i] \o sep]

Spelt(a, text, sep) ==
    /\ WordsOf(Marked(a.out, sep)) = Words(SubSeq(text, 1, a.from - 1))
    /\ Words(sep) = <<>> => WordsOf(a.out) = Words(SubSeq(text, 1, a.from - 1))
Inside(a, text, sep) ==
    \A j \in 1 .. Len(a.out) : Within(a.out[j] \o sep, text) /\ Within(a.out[j], text)
FreeOf(part, c) == \A x \in 1 .. Len(part) : part[x] # c
Free(a, text, sep, k) ==
    \A c : sep = <<c>> => /\ \A j \in 1 .. Len(a.out) : FreeOf(a.out[j], c)
                          /\ \A x \in a.from .. k : text[x] # c

LEMMA MarkedAppend ==
    ASSUME NEW parts \in Seq(Text), NEW sep \in Text, NEW part \in Text
    PROVE  /\ Marked(parts, sep) \in Seq(Text)
           /\ Marked(Append(parts, part), sep) = Append(Marked(parts, sep), part \o sep)
  <1> DEFINE n == Len(parts)
             more == Append(parts, part)
             left == Marked(more, sep)
             right == Append(Marked(parts, sep), part \o sep)
  <1>1. n \in Nat /\ DOMAIN parts = 1 .. n /\ \A i \in 1 .. n : parts[i] \in Text
    OBVIOUS
  <1>2. /\ more \in Seq(Text) /\ DOMAIN more = 1 .. n + 1
        /\ \A i \in 1 .. n : more[i] = parts[i]
        /\ more[n + 1] = part
    BY AppendProperties, LenProperties
  <1>3. part \o sep \in Text /\ \A i \in 1 .. n : parts[i] \o sep \in Text
    BY <1>1, TextConcat
  <1>4. Marked(parts, sep) \in [1 .. n -> Text] /\ \A i \in 1 .. n : Marked(parts, sep)[i] = parts[i] \o sep
    BY <1>1, <1>3 DEF Marked
  <1>5. Marked(parts, sep) \in Seq(Text) /\ Len(Marked(parts, sep)) = n
    BY <1>1, <1>4, IsASeq, LenProperties
  <1>6. /\ right \in Seq(Text) /\ Len(right) = n + 1
        /\ \A i \in 1 .. n : right[i] = parts[i] \o sep
        /\ right[n + 1] = part \o sep
    BY <1>3, <1>4, <1>5, AppendProperties
  <1> HIDE DEF n, more, right
  <1>7. /\ left \in [1 .. n + 1 -> Text]
        /\ \A i \in 1 .. n : left[i] = parts[i] \o sep
        /\ left[n + 1] = part \o sep
    <2>1. \A i \in 1 .. n + 1 : i \in 1 .. n \/ i = n + 1
      BY <1>1
    <2>2. n + 1 \in 1 .. n + 1 /\ \A i \in 1 .. n : i \in 1 .. n + 1
      BY <1>1
    <2> QED
      BY <1>2, <1>3, <2>1, <2>2 DEF Marked
  <1> HIDE DEF left
  <1>8. left \in Seq(Text) /\ Len(left) = n + 1
    <2>1. n + 1 \in Nat
      BY <1>1
    <2> QED
      BY <1>7, <2>1, IsASeq, LenProperties
  <1>9. \A i \in 1 .. n + 1 : left[i] = right[i]
    <2>1. \A i \in 1 .. n + 1 : i \in 1 .. n \/ i = n + 1
      BY <1>1
    <2> QED
      <3> SUFFICES ASSUME NEW i \in 1 .. n + 1 PROVE left[i] = right[i]
        OBVIOUS
      <3>1. CASE i \in 1 .. n
        BY <1>6, <1>7, <3>1
      <3>2. CASE i = n + 1
        BY <1>6, <1>7, <3>2
      <3> QED
        BY <2>1, <3>1, <3>2
  <1>10. left = right
    BY <1>6, <1>8, <1>9, SeqEqual
  <1> QED
    BY <1>5, <1>10 DEF left, right, more

IsCut(text, sep, a, i, part, b) ==
    /\ a.out \in Seq(Text) /\ part \in Text /\ part \o sep \in Text
    /\ b.out = Append(a.out, part) /\ b.from = i + Len(sep)
    /\ a.from \in 1 .. Len(text) + 1 /\ i - 1 \in 0 .. Len(text) /\ b.from - 1 \in 0 .. Len(text)
    /\ part \o sep = SubSeq(text, a.from, b.from - 1)
    /\ SubSeq(text, 1, a.from - 1) \in Text
    /\ SubSeq(text, 1, b.from - 1) = SubSeq(text, 1, a.from - 1) \o (part \o sep)

LEMMA CutHere ==
    ASSUME NEW text \in Text, NEW sep \in Text, sep # <<>>, NEW a \in Cuts(text), NEW i \in 1 .. Len(text),
           ~(i < a.from), IsAt(text, sep, i),
           NEW part, part = SubSeq(text, a.from, i - 1), NEW b, b = Cut(text, sep, a, i)
    PROVE  IsCut(text, sep, a, i, part, b)
  <1>1. Len(text) \in Nat /\ Len(sep) \in Nat /\ Len(sep) > 0
    BY EmptySeq, LenProperties DEF Text
  <1>2. a.from \in 1 .. Len(text) + 1 /\ a.out \in Seq(Text)
    BY DEF Cuts
  <1>3. b.out = Append(a.out, part) /\ b.from = i + Len(sep)
    BY DEF Cut
  <1>4. sep = SubSeq(text, i, i + Len(sep) - 1) /\ i + Len(sep) - 1 <= Len(text)
    BY DEF IsAt
  <1>5. PICK last : last = i + Len(sep) - 1
    OBVIOUS
  <1>6. /\ last \in i - 1 .. Len(text) /\ b.from - 1 = last /\ i - 1 \in a.from - 1 .. Len(text)
        /\ (i - 1) + 1 = i /\ last \in 0 .. Len(text) /\ i - 1 \in 0 .. Len(text)
    BY <1>1, <1>2, <1>3, <1>4, <1>5
  <1>7. part \o sep = SubSeq(text, a.from, last)
    <2>1. SubSeq(text, a.from, i - 1) \o SubSeq(text, (i - 1) + 1, last) = SubSeq(text, a.from, last)
      BY <1>2, <1>6, ConcatAdjacentSubSeq DEF Text
    <2> QED
      BY <1>4, <1>5, <1>6, <2>1
  <1>8. SubSeq(text, 1, last) = SubSeq(text, 1, a.from - 1) \o SubSeq(text, a.from, last)
    <2>1. PICK before : before = a.from - 1
      OBVIOUS
    <2>2. 1 \in 1 .. Len(text) + 1 /\ before \in 1 - 1 .. Len(text) /\ last \in before .. Len(text) /\ before + 1 = a.from
      BY <1>1, <1>2, <1>6, <2>1
    <2>3. SubSeq(text, 1, before) \o SubSeq(text, before + 1, last) = SubSeq(text, 1, last)
      BY <2>2, ConcatAdjacentSubSeq DEF Text
    <2> QED
      BY <2>1, <2>2, <2>3
  <1>9. part \in Text /\ SubSeq(text, 1, a.from - 1) \in Text
    <2>1. 1 \in 1 .. Len(text) + 1 /\ a.from - 1 \in 0 .. Len(text)
      BY <1>1, <1>2
    <2> QED
      BY <1>2, <1>6, <2>1, PartOf
  <1> QED
    BY <1>2, <1>3, <1>6, <1>7, <1>8, <1>9, TextConcat DEF IsCut

LEMMA CutStep ==
    ASSUME NEW text \in Text, NEW sep \in Text, sep # <<>>, NEW a \in Cuts(text), NEW i \in 1 .. Len(text),
           Spelt(a, text, sep), Inside(a, text, sep), Free(a, text, sep, i - 1)
    PROVE  LET b == Cut(text, sep, a, i) IN Spelt(b, text, sep) /\ Inside(b, text, sep) /\ Free(b, text, sep, i)
  <1>b. PICK b : b = Cut(text, sep, a, i)
    OBVIOUS
  <1>p. PICK part : part = SubSeq(text, a.from, i - 1)
    OBVIOUS
  <1> SUFFICES Spelt(b, text, sep) /\ Inside(b, text, sep) /\ Free(b, text, sep, i)
    BY <1>b
  <1>1. Len(text) \in Nat /\ Len(sep) \in Nat /\ Len(sep) > 0 /\ a.from \in 1 .. Len(text) + 1
    BY EmptySeq, LenProperties DEF Text, Cuts
  <1>2. CASE i < a.from \/ ~IsAt(text, sep, i)
    <2>1. b = a
      BY <1>2, <1>b DEF Cut
    <2>2. Free(a, text, sep, i)
      <3> SUFFICES ASSUME NEW c, sep = <<c>>, NEW x \in a.from .. i PROVE text[x] # c
        BY DEF Free
      <3>1. CASE x # i
        <4>1. x \in a.from .. i - 1
          BY <1>1, <3>1
        <4> QED
          BY <4>1 DEF Free
      <3>2. CASE x = i
        <4>1. ~IsAt(text, sep, i) /\ i + Len(sep) - 1 = i /\ Len(sep) = 1
          BY <1>1, <1>2, <3>2
        <4>2. SubSeq(text, i, i) # sep
          BY <1>1, <4>1 DEF IsAt
        <4>3. SubSeq(text, i, i) = <<text[i]>>
          <5>1. i \in Int /\ text[i] \in Symbol
            BY DEF Text
          <5>2. SubSeq(text, i, i) \in Seq(Symbol) /\ Len(SubSeq(text, i, i)) = 1 /\ SubSeq(text, i, i)[1] = text[i]
            <6>1. \A j \in i .. i : text[j] \in Symbol
              BY <5>1
            <6>2. /\ SubSeq(text, i, i) \in Seq(Symbol)
                  /\ Len(SubSeq(text, i, i)) = IF i <= i THEN i - i + 1 ELSE 0
                  /\ \A j \in 1 .. i - i + 1 : SubSeq(text, i, i)[j] = text[i + j - 1]
              BY <5>1, <6>1, SubSeqProperties
            <6>3. i - i + 1 = 1 /\ 1 \in 1 .. i - i + 1 /\ i + 1 - 1 = i
              BY <5>1
            <6> QED
              BY <5>1, <6>2, <6>3
          <5>3. <<text[i]>> \in Seq(Symbol) /\ Len(<<text[i]>>) = 1 /\ <<text[i]>>[1] = text[i]
            BY <5>1
          <5>4. \A j \in 1 .. 1 : j = 1
            OBVIOUS
          <5> QED
            BY <5>2, <5>3, <5>4, SeqEqual
        <4> QED
          BY <3>2, <4>2, <4>3
      <3> QED
        BY <3>1, <3>2
    <2> QED
      BY <2>1, <2>2
  <1>3. CASE ~(i < a.from) /\ IsAt(text, sep, i)
    <2>1. /\ a.out \in Seq(Text) /\ part \in Text /\ part \o sep \in Text
          /\ b.out = Append(a.out, part) /\ b.from = i + Len(sep)
          /\ a.from \in 1 .. Len(text) + 1 /\ i - 1 \in 0 .. Len(text) /\ b.from - 1 \in 0 .. Len(text)
          /\ part \o sep = SubSeq(text, a.from, b.from - 1)
          /\ SubSeq(text, 1, a.from - 1) \in Text
          /\ SubSeq(text, 1, b.from - 1) = SubSeq(text, 1, a.from - 1) \o (part \o sep)
      <3>1. IsCut(text, sep, a, i, part, b)
        BY <1>3, <1>b, <1>p, CutHere
      <3> QED
        BY <3>1 DEF IsCut
    <2>2. a.out \in Seq(Text) /\ part \in Text /\ b.out = Append(a.out, part)
      BY <2>1
    <2>3. Words(SubSeq(text, 1, b.from - 1)) = Words(SubSeq(text, 1, a.from - 1)) \o Words(part \o sep)
      BY <2>1, WordsConcat
    <2>4. Spelt(b, text, sep)
      <3>1. Marked(a.out, sep) \in Seq(Text) /\ Marked(b.out, sep) = Append(Marked(a.out, sep), part \o sep)
        BY <2>1, MarkedAppend
      <3>2. WordsOf(Marked(b.out, sep)) = WordsOf(Marked(a.out, sep)) \o Words(part \o sep)
        BY <2>1, <3>1, WordsAppend
      <3>3. ASSUME Words(sep) = <<>> PROVE WordsOf(b.out) = Words(SubSeq(text, 1, b.from - 1))
        <4>1. WordsOf(b.out) = WordsOf(a.out) \o Words(part)
          BY <2>1, WordsAppend
        <4>2. Words(part \o sep) = Words(part) \o <<>> /\ Words(part) \in Text
          BY <2>2, <3>3, WordsConcat, WordsIs
        <4>3. Words(part \o sep) = Words(part)
          BY <4>2, TextConcat
        <4> QED
          BY <2>3, <3>3, <4>1, <4>3 DEF Spelt
      <3> QED
        BY <2>3, <3>2, <3>3 DEF Spelt
    <2>5. /\ Len(b.out) = Len(a.out) + 1 /\ b.out[Len(a.out) + 1] = part
          /\ \A j \in 1 .. Len(a.out) : b.out[j] = a.out[j]
      BY <2>2, AppendProperties
    <2>6. \A j \in 1 .. Len(b.out) : j \in 1 .. Len(a.out) \/ j = Len(a.out) + 1
      <3>1. Len(a.out) \in Nat
        BY <2>2, LenProperties
      <3> QED
        BY <2>5, <3>1
    <2>7. Inside(b, text, sep)
      <3>1. Within(part \o sep, text) /\ Within(part, text)
        BY <2>1, <1>p DEF Within
      <3> QED
        BY <2>5, <2>6, <3>1 DEF Inside
    <2>8. Free(b, text, sep, i)
      <3> SUFFICES ASSUME NEW c, sep = <<c>>
                   PROVE  /\ \A j \in 1 .. Len(b.out) : FreeOf(b.out[j], c)
                          /\ \A x \in b.from .. i : text[x] # c
        BY DEF Free
      <3>1. \A x \in a.from .. i - 1 : text[x] # c
        BY DEF Free
      <3>2. FreeOf(part, c)
        <4>1. a.from \in Int /\ i - 1 \in Int /\ \A x \in a.from .. i - 1 : text[x] \in Symbol
          BY <1>1 DEF Text
        <4>2. /\ Len(part) = IF a.from <= i - 1 THEN i - 1 - a.from + 1 ELSE 0
              /\ \A x \in 1 .. i - 1 - a.from + 1 : part[x] = text[a.from + x - 1]
          BY <1>p, <4>1, SubSeqProperties
        <4> SUFFICES ASSUME NEW x \in 1 .. Len(part) PROVE part[x] # c
          BY DEF FreeOf
        <4>3. x \in 1 .. i - 1 - a.from + 1 /\ a.from + x - 1 \in a.from .. i - 1
          BY <4>1, <4>2
        <4> QED
          BY <3>1, <4>2, <4>3
      <3>3. \A j \in 1 .. Len(a.out) : FreeOf(a.out[j], c)
        BY DEF Free
      <3>4. \A x \in b.from .. i : FALSE
        BY <1>1, <2>1
      <3> QED
        BY <2>5, <2>6, <3>2, <3>3, <3>4
    <2> QED
      BY <2>4, <2>7, <2>8
  <1> QED
    BY <1>2, <1>3

LEMMA CutEnds ==
    ASSUME NEW text \in Text, NEW sep \in Text, sep # <<>>
    PROVE  \E a \in Cuts(text) :
              /\ Spelt(a, text, sep) /\ Inside(a, text, sep) /\ Free(a, text, sep, Len(text))
              /\ SplitAt(text, sep) = Append(a.out, SubSeq(text, a.from, Len(text)))
  <1> DEFINE n == Len(text)
  <1>1. PICK st \in [0 .. n -> Cuts(text)] :
            /\ st[0] = [from |-> 1, out |-> <<>>]
            /\ SplitAt(text, sep) = Append(st[n].out, SubSeq(text, st[n].from, n))
            /\ \A k \in 0 .. n : k # n => st[k + 1] = Cut(text, sep, st[k], k + 1)
    BY CutStates
  <1>2. n \in Nat /\ n \in 0 .. n
    BY DEF Text
  <1> DEFINE Good(a, k) == Spelt(a, text, sep) /\ Inside(a, text, sep) /\ Free(a, text, sep, k)
             F == {k \in 0 .. n : Good(st[k], k)}
  <1>3. Good(st[0], 0)
    <2>1. st[0].from = 1 /\ st[0].out = <<>> /\ Len(<<>>) = 0
      BY <1>1
    <2>2. Marked(<<>>, sep) = <<>>
      <3>1. Marked(<<>>, sep) \in [1 .. 0 -> Text]
        BY DEF Marked
      <3>2. Marked(<<>>, sep) \in Seq(Text) /\ Len(Marked(<<>>, sep)) = 0
        BY <3>1, IsASeq, LenProperties
      <3> QED
        BY <3>2, EmptySeq
    <2>3. SubSeq(text, 1, 1 - 1) = <<>>
      BY SubSeqEmpty
    <2>4. Spelt(st[0], text, sep)
      BY <2>1, <2>2, <2>3, NoSymbol, FewTexts DEF Spelt
    <2> QED
      BY <2>1, <2>4 DEF Inside, Free
  <1>4. ASSUME NEW k \in 0 .. n, k # n, k \in F PROVE k + 1 \in F
    <2>1. k + 1 \in 1 .. n /\ k + 1 \in 0 .. n /\ (k + 1) - 1 = k /\ st[k] \in Cuts(text)
      BY <1>1, <1>2, <1>4
    <2>2. PICK i : i = k + 1
      OBVIOUS
    <2>3. Good(Cut(text, sep, st[k], i), i)
      <3>1. Spelt(st[k], text, sep) /\ Inside(st[k], text, sep) /\ Free(st[k], text, sep, i - 1)
        BY <1>4, <2>1, <2>2
      <3> QED
        BY <2>1, <2>2, <3>1, CutStep
    <2>4. st[k + 1] = Cut(text, sep, st[k], k + 1)
      BY <1>1, <1>4
    <2> QED
      BY <2>1, <2>2, <2>3, <2>4
  <1> HIDE DEF n, Good
  <1>5. 0 \in F
    BY <1>2, <1>3
  <1> HIDE DEF F
  <1>6. n \in F
    BY <1>2, <1>4, <1>5, NumberSteps
  <1>7. Good(st[n], n) /\ st[n] \in Cuts(text)
    BY <1>1, <1>2, <1>6 DEF F
  <1> QED
    BY <1>1, <1>7 DEF Good, n

-----------------------------------------------------------------------------
(* The parts, and the parts with their separators.                          *)

LEMMA WholeText ==
    ASSUME NEW text \in Text, NEW from \in 1 .. Len(text) + 1, NEW last, last = SubSeq(text, from, Len(text))
    PROVE  /\ last \in Text /\ Within(last, text)
           /\ Words(text) = Words(SubSeq(text, 1, from - 1)) \o Words(last)
  <1>1. Len(text) \in Nat /\ Len(text) \in 0 .. Len(text)
    BY DEF Text
  <1>2. last \in Text /\ Within(last, text)
    BY <1>1, PartOf DEF Within
  <1>3. PICK before : before = from - 1
    OBVIOUS
  <1>4. /\ 1 \in 1 .. Len(text) + 1 /\ before \in 1 - 1 .. Len(text) /\ Len(text) \in before .. Len(text)
        /\ before + 1 = from /\ before \in 0 .. Len(text)
    BY <1>1, <1>3
  <1>5. SubSeq(text, 1, before) \o SubSeq(text, before + 1, Len(text)) = SubSeq(text, 1, Len(text))
    BY <1>4, ConcatAdjacentSubSeq DEF Text
  <1>6. SubSeq(text, 1, Len(text)) = text
    BY SubSeqFull DEF Text
  <1>7. text = SubSeq(text, 1, before) \o last /\ SubSeq(text, 1, before) \in Text
    BY <1>4, <1>5, <1>6, PartOf
  <1> QED
    BY <1>2, <1>3, <1>7, WordsConcat

LEMMA SplitParts ==
    ASSUME NEW text \in Text, NEW sep \in Text, sep # <<>>, NEW parts, parts = SplitAt(text, sep)
    PROVE  /\ parts \in Seq(Text)
           /\ \A i \in 1 .. Len(parts) : Within(parts[i], text)
           /\ Words(sep) = <<>> => WordsOf(parts) = Words(text)
  <1>1. PICK a \in Cuts(text) :
              /\ Spelt(a, text, sep) /\ Inside(a, text, sep) /\ Free(a, text, sep, Len(text))
              /\ SplitAt(text, sep) = Append(a.out, SubSeq(text, a.from, Len(text)))
    BY CutEnds
  <1>2. PICK last : last = SubSeq(text, a.from, Len(text))
    OBVIOUS
  <1>3. a.out \in Seq(Text) /\ a.from \in 1 .. Len(text) + 1
    BY DEF Cuts
  <1>4. /\ last \in Text /\ Within(last, text)
        /\ Words(text) = Words(SubSeq(text, 1, a.from - 1)) \o Words(last)
    BY <1>2, <1>3, WholeText
  <1>5. parts = Append(a.out, last)
    BY <1>1, <1>2
  <1>6. /\ parts \in Seq(Text) /\ Len(parts) = Len(a.out) + 1 /\ parts[Len(a.out) + 1] = last
        /\ \A i \in 1 .. Len(a.out) : parts[i] = a.out[i]
    BY <1>3, <1>4, <1>5, AppendProperties
  <1>7. \A i \in 1 .. Len(parts) : i \in 1 .. Len(a.out) \/ i = Len(a.out) + 1
    <2>1. Len(a.out) \in Nat
      BY <1>3, LenProperties
    <2> QED
      BY <1>6, <2>1
  <1>8. \A i \in 1 .. Len(parts) : Within(parts[i], text)
    BY <1>1, <1>4, <1>6, <1>7 DEF Inside
  <1>9. WordsOf(parts) = WordsOf(a.out) \o Words(last)
    BY <1>3, <1>4, <1>5, WordsAppend
  <1> QED
    BY <1>1, <1>4, <1>6, <1>8, <1>9 DEF Spelt

LEMMA AttachedIs ==
    ASSUME NEW text, NEW sep \in Text, NEW out \in Seq(Text), NEW last \in Text,
           SplitAt(text, sep) = Append(out, last)
    PROVE  Attached(text, sep) = Append(Marked(out, sep), last)
  <1> DEFINE n == Len(out)
             left == Attached(text, sep)
             right == Append(Marked(out, sep), last)
  <1>1. PICK parts : parts = Append(out, last)
    OBVIOUS
  <1>2. /\ n \in Nat /\ DOMAIN out = 1 .. n /\ parts \in Seq(Text) /\ Len(parts) = n + 1 /\ DOMAIN parts = 1 .. n + 1
        /\ parts[n + 1] = last /\ \A i \in 1 .. n : parts[i] = out[i] /\ out[i] \in Text
    BY <1>1, AppendProperties, LenProperties
  <1>3. Marked(out, sep) \in Seq(Text) /\ Len(Marked(out, sep)) = n
    <2>1. \A i \in 1 .. n : out[i] \o sep \in Text
      BY <1>2, TextConcat
    <2>2. Marked(out, sep) \in [1 .. n -> Text]
      BY <1>2, <2>1 DEF Marked
    <2> QED
      BY <1>2, <2>2, IsASeq, LenProperties
  <1>4. \A i \in 1 .. n : Marked(out, sep)[i] = out[i] \o sep /\ out[i] \o sep \in Text
    BY <1>2, TextConcat DEF Marked
  <1>5. /\ right \in Seq(Text) /\ Len(right) = n + 1 /\ right[n + 1] = last
        /\ \A i \in 1 .. n : right[i] = out[i] \o sep
    BY <1>3, <1>4, AppendProperties
  <1>6. left = [i \in 1 .. n + 1 |-> IF i < n + 1 THEN parts[i] \o sep ELSE parts[i]]
    BY <1>1, <1>2 DEF Attached
  <1> HIDE DEF left, right, n
  <1>7. \A i \in 1 .. n + 1 : i \in 1 .. n \/ i = n + 1
    BY <1>2
  <1>8. /\ \A i \in 1 .. n : left[i] = out[i] \o sep
        /\ left[n + 1] = last
    <2>1. /\ \A i \in 1 .. n : i \in 1 .. n + 1 /\ i < n + 1
          /\ n + 1 \in 1 .. n + 1 /\ ~(n + 1 < n + 1)
      BY <1>2
    <2> QED
      BY <1>2, <1>6, <2>1
  <1>9. left \in [1 .. n + 1 -> Text]
    <2>1. \A i \in 1 .. n + 1 : left[i] \in Text
      BY <1>4, <1>7, <1>8
    <2> QED
      BY <1>6, <2>1
  <1>10. left \in Seq(Text) /\ Len(left) = n + 1
    <2>1. n + 1 \in Nat
      BY <1>2
    <2> QED
      BY <1>9, <2>1, IsASeq, LenProperties
  <1>11. \A i \in 1 .. n + 1 : left[i] = right[i]
    <2> SUFFICES ASSUME NEW i \in 1 .. n + 1 PROVE left[i] = right[i]
      OBVIOUS
    <2>1. CASE i \in 1 .. n
      BY <1>5, <1>8, <2>1
    <2>2. CASE i = n + 1
      BY <1>5, <1>8, <2>2
    <2> QED
      BY <1>7, <2>1, <2>2
  <1>12. left = right
    BY <1>5, <1>10, <1>11, SeqEqual
  <1> QED
    BY <1>12 DEF left, right

LastOnly(piece, c) == \A x \in 1 .. Len(piece) - 1 : piece[x] # c

LEMMA AttachedParts ==
    ASSUME NEW text \in Text, NEW sep \in Text, sep # <<>>, NEW pieces, pieces = Attached(text, sep)
    PROVE  /\ pieces \in Seq(Text)
           /\ WordsOf(pieces) = Words(text)
           /\ \A i \in 1 .. Len(pieces) : Within(pieces[i], text)
           /\ \A c : sep = <<c>> => \A i \in 1 .. Len(pieces) : LastOnly(pieces[i], c)
  <1>1. PICK a \in Cuts(text) :
              /\ Spelt(a, text, sep) /\ Inside(a, text, sep) /\ Free(a, text, sep, Len(text))
              /\ SplitAt(text, sep) = Append(a.out, SubSeq(text, a.from, Len(text)))
    BY CutEnds
  <1>2. PICK last : last = SubSeq(text, a.from, Len(text))
    OBVIOUS
  <1>3. a.out \in Seq(Text) /\ a.from \in 1 .. Len(text) + 1
    BY DEF Cuts
  <1>4. /\ last \in Text /\ Within(last, text)
        /\ Words(text) = Words(SubSeq(text, 1, a.from - 1)) \o Words(last)
    BY <1>2, <1>3, WholeText
  <1>5. PICK marked : marked = Marked(a.out, sep)
    OBVIOUS
  <1>6. marked \in Seq(Text) /\ pieces = Append(marked, last)
    <2>1. marked \in Seq(Text)
      BY <1>3, <1>4, <1>5, MarkedAppend
    <2>2. SplitAt(text, sep) = Append(a.out, last)
      BY <1>1, <1>2
    <2>3. Attached(text, sep) = Append(Marked(a.out, sep), last)
      BY <1>3, <1>4, <2>2, AttachedIs
    <2> QED
      BY <1>5, <2>1, <2>3
  <1>7. WordsOf(pieces) = WordsOf(marked) \o Words(last)
    BY <1>4, <1>6, WordsAppend
  <1>8. WordsOf(pieces) = Words(text)
    BY <1>1, <1>4, <1>5, <1>7 DEF Spelt
  <1> DEFINE n == Len(a.out)
  <1>9. n \in Nat /\ DOMAIN a.out = 1 .. n
    BY <1>3, LenProperties
  <1>10. DOMAIN marked = 1 .. n /\ \A i \in 1 .. n : marked[i] = a.out[i] \o sep
    BY <1>5, <1>9 DEF Marked
  <1>11. Len(marked) = n
    BY <1>6, <1>9, <1>10, LenProperties
  <1>12. /\ pieces \in Seq(Text) /\ Len(pieces) = n + 1 /\ pieces[n + 1] = last
         /\ \A i \in 1 .. n : pieces[i] = a.out[i] \o sep
    BY <1>4, <1>6, <1>10, <1>11, AppendProperties
  <1>13. \A i \in 1 .. Len(pieces) : i \in 1 .. n \/ i = n + 1
    BY <1>9, <1>12
  <1>14. \A i \in 1 .. Len(pieces) : Within(pieces[i], text)
    BY <1>1, <1>4, <1>12, <1>13 DEF Inside
  <1>15. ASSUME NEW c, sep = <<c>>, NEW i \in 1 .. Len(pieces) PROVE LastOnly(pieces[i], c)
    <2>1. CASE i \in 1 .. n
      <3>1. PICK part : part = a.out[i]
        OBVIOUS
      <3>2. part \in Text /\ FreeOf(part, c) /\ pieces[i] = part \o sep
        <4>1. part \in Text
          BY <1>3, <1>9, <2>1, <3>1
        <4>2. pieces[i] = part \o sep
          BY <1>12, <2>1, <3>1
        <4>3. FreeOf(part, c)
          BY <1>1, <1>15, <2>1, <3>1 DEF Free
        <4> QED
          BY <4>1, <4>2, <4>3
      <3>3. /\ Len(part \o sep) = Len(part) + Len(sep) /\ Len(sep) = 1 /\ Len(part) \in Nat
            /\ \A x \in 1 .. Len(part) : (part \o sep)[x] = part[x]
        BY <1>15, <3>2, ConcatProperties, LenProperties DEF Text
      <3>4. Len(pieces[i]) - 1 = Len(part)
        BY <3>2, <3>3
      <3> QED
        BY <3>2, <3>3, <3>4 DEF LastOnly, FreeOf
    <2>2. CASE i = n + 1
      <3>1. a.from \in Int /\ Len(text) \in Int /\ \A x \in a.from .. Len(text) : text[x] \in Symbol
        BY <1>3 DEF Text
      <3>2. /\ Len(last) = IF a.from <= Len(text) THEN Len(text) - a.from + 1 ELSE 0
            /\ \A x \in 1 .. Len(text) - a.from + 1 : last[x] = text[a.from + x - 1]
        BY <1>2, <3>1, SubSeqProperties
      <3>3. \A x \in a.from .. Len(text) : text[x] # c
        BY <1>1, <1>15 DEF Free
      <3>4. ASSUME NEW x \in 1 .. Len(last) - 1 PROVE last[x] # c
        <4>1. x \in 1 .. Len(text) - a.from + 1 /\ a.from + x - 1 \in a.from .. Len(text)
          BY <3>1, <3>2
        <4> QED
          BY <3>2, <3>3, <4>1
      <3> QED
        BY <1>12, <2>2, <3>4 DEF LastOnly
    <2> QED
      BY <1>13, <2>1, <2>2
  <1> QED
    BY <1>8, <1>12, <1>14, <1>15

-----------------------------------------------------------------------------
(* Texts that cannot be divided: once the lines are cut, a line break is     *)
(* followed by blanks only; once the words are cut, so is a space.           *)

BreaksLast(t) ==
    \A x \in 1 .. Len(t) : t[x] = NewLine => \A y \in 1 .. Len(t) : y >= x => t[y] \in {0, NewLine}
Whole(chunks) == \A i \in 1 .. Len(chunks) : Fits(chunks[i]) \/ ~Divisible(chunks[i])

LEMMA WithinIs ==
    ASSUME NEW text \in Text, NEW part, Within(part, text)
    PROVE  \E d \in Nat : /\ part \in Text /\ (Len(part) > 0 => d + Len(part) <= Len(text))
                          /\ \A x \in 1 .. Len(part) : part[x] = text[d + x]
  <1>1. PICK p \in 1 .. Len(text) + 1, q \in 0 .. Len(text) : part = SubSeq(text, p, q)
    BY DEF Within
  <1>2. p \in Int /\ q \in Int /\ Len(text) \in Nat /\ \A x \in p .. q : text[x] \in Symbol
    BY DEF Text
  <1>3. /\ part \in Text /\ Len(part) = IF p <= q THEN q - p + 1 ELSE 0
        /\ \A x \in 1 .. q - p + 1 : part[x] = text[p + x - 1]
    BY <1>1, <1>2, SubSeqProperties DEF Text
  <1>4. p - 1 \in Nat /\ (Len(part) > 0 => (p - 1) + Len(part) <= Len(text))
    BY <1>2, <1>3
  <1>5. \A x \in 1 .. Len(part) : part[x] = text[(p - 1) + x]
    <2> SUFFICES ASSUME NEW x \in 1 .. Len(part) PROVE part[x] = text[(p - 1) + x]
      OBVIOUS
    <2>1. x \in 1 .. q - p + 1 /\ p + x - 1 = (p - 1) + x
      BY <1>2, <1>3
    <2> QED
      BY <1>3, <2>1
  <1> QED
    BY <1>3, <1>4, <1>5

LEMMA WithinBreaks ==
    ASSUME NEW text \in Text, NEW part, Within(part, text), BreaksLast(text)
    PROVE  BreaksLast(part)
  <1>1. PICK d \in Nat : /\ part \in Text /\ (Len(part) > 0 => d + Len(part) <= Len(text))
                         /\ \A x \in 1 .. Len(part) : part[x] = text[d + x]
    BY WithinIs
  <1>2. Len(part) \in Nat /\ Len(text) \in Nat
    BY <1>1 DEF Text
  <1> SUFFICES ASSUME NEW x \in 1 .. Len(part), part[x] = NewLine,
                      NEW y \in 1 .. Len(part), y >= x
               PROVE  part[y] \in {0, NewLine}
    BY DEF BreaksLast
  <1>3. d + x \in 1 .. Len(text) /\ d + y \in 1 .. Len(text) /\ d + y >= d + x
    BY <1>1, <1>2
  <1> QED
    BY <1>1, <1>3 DEF BreaksLast

IsDivided(t, i, j, k) ==
    i < j /\ j < k /\ t[j] \in {0, NewLine} /\ Cost(t[i]) > 0 /\ Cost(t[k]) > 0

LEMMA DivisibleIs ==
    ASSUME NEW t \in Text
    PROVE  Divisible(t) <=> \E i, j, k \in 1 .. Len(t) : IsDivided(t, i, j, k)
  BY DEF Divisible, IsDivided, Text

LEMMA WithinDivisible ==
    ASSUME NEW text \in Text, NEW part, Within(part, text), ~Divisible(text)
    PROVE  ~Divisible(part)
  <1>1. PICK d \in Nat : /\ part \in Text /\ (Len(part) > 0 => d + Len(part) <= Len(text))
                         /\ \A x \in 1 .. Len(part) : part[x] = text[d + x]
    BY WithinIs
  <1>2. Len(part) \in Nat /\ Len(text) \in Nat
    BY <1>1 DEF Text
  <1> SUFFICES ASSUME NEW i \in 1 .. Len(part), NEW j \in 1 .. Len(part), NEW k \in 1 .. Len(part),
                      IsDivided(part, i, j, k)
               PROVE  FALSE
    BY <1>1, DivisibleIs
  <1>3. d + i \in 1 .. Len(text) /\ d + j \in 1 .. Len(text) /\ d + k \in 1 .. Len(text)
    BY <1>1, <1>2
  <1>4. IsDivided(text, d + i, d + j, d + k)
    BY <1>1, <1>2 DEF IsDivided
  <1> QED
    BY <1>3, <1>4, DivisibleIs

LEMMA LinesBreakLast ==
    ASSUME NEW t \in Text, LastOnly(t, NewLine) PROVE BreaksLast(t)
  <1>1. Len(t) \in Nat
    BY DEF Text
  <1> SUFFICES ASSUME NEW x \in 1 .. Len(t), t[x] = NewLine, NEW y \in 1 .. Len(t), y >= x
               PROVE  t[y] \in {0, NewLine}
    BY DEF BreaksLast
  <1>2. x = Len(t)
    BY <1>1 DEF LastOnly
  <1>3. y = x
    BY <1>1, <1>2
  <1> QED
    BY <1>3

LEMMA WordsStayWhole ==
    ASSUME NEW t \in Text, LastOnly(t, 0), BreaksLast(t) PROVE ~Divisible(t)
  <1>1. Len(t) \in Nat
    BY DEF Text
  <1> SUFFICES ASSUME NEW i \in 1 .. Len(t), NEW j \in 1 .. Len(t), NEW k \in 1 .. Len(t),
                      IsDivided(t, i, j, k)
               PROVE  FALSE
    BY DivisibleIs
  <1>2. j < k /\ t[j] \in {0, NewLine} /\ Cost(t[k]) > 0
    BY DEF IsDivided
  <1>3. CASE t[j] = 0
    BY <1>1, <1>2, <1>3 DEF LastOnly
  <1>4. CASE t[j] = NewLine
    <2>1. t[k] \in {0, NewLine}
      BY <1>1, <1>2, <1>4 DEF BreaksLast
    <2> QED
      BY <1>2, <2>1 DEF Cost, NewLine, Period
  <1> QED
    BY <1>2, <1>3, <1>4

LEMMA WholeAppend ==
    ASSUME NEW cs \in Seq(Text), NEW t \in Text, Whole(cs), Fits(t) \/ ~Divisible(t)
    PROVE  Whole(Append(cs, t))
  <1>1. Len(Append(cs, t)) = Len(cs) + 1 /\ Append(cs, t)[Len(cs) + 1] = t
    BY AppendProperties
  <1>2. \A i \in 1 .. Len(cs) : Append(cs, t)[i] = cs[i]
    BY AppendProperties
  <1>3. Len(cs) \in Nat
    BY LenProperties
  <1> SUFFICES ASSUME NEW i \in 1 .. Len(Append(cs, t))
               PROVE  Fits(Append(cs, t)[i]) \/ ~Divisible(Append(cs, t)[i])
    BY DEF Whole
  <1>4. CASE i \in 1 .. Len(cs)
    BY <1>2, <1>4 DEF Whole
  <1>5. CASE i = Len(cs) + 1
    BY <1>1, <1>5
  <1> QED
    BY <1>1, <1>3, <1>4, <1>5

LEMMA WholeConcat ==
    ASSUME NEW a \in Seq(Text), NEW b \in Seq(Text), Whole(a), Whole(b)
    PROVE  Whole(a \o b)
  <1>1. PICK c : c = a \o b
    OBVIOUS
  <1>2. /\ Len(c) = Len(a) + Len(b) /\ Len(a) \in Nat /\ Len(b) \in Nat
        /\ \A i \in 1 .. Len(a) : c[i] = a[i]
        /\ \A i \in 1 .. Len(b) : c[Len(a) + i] = b[i]
    BY <1>1, ConcatProperties, LenProperties
  <1> SUFFICES ASSUME NEW i \in 1 .. Len(c) PROVE Fits(c[i]) \/ ~Divisible(c[i])
    BY <1>1 DEF Whole
  <1>3. CASE i \in 1 .. Len(a)
    BY <1>2, <1>3 DEF Whole
  <1>4. CASE i \notin 1 .. Len(a)
    <2>1. PICK j \in 1 .. Len(b) : i = Len(a) + j
      <3>1. i - Len(a) \in 1 .. Len(b) /\ i = Len(a) + (i - Len(a))
        BY <1>2, <1>4
      <3> QED
        BY <3>1
    <2> QED
      BY <1>2, <2>1 DEF Whole
  <1> QED
    BY <1>3, <1>4

LEMMA WholeFlush ==
    ASSUME NEW acc, acc.out \in Seq(Text), acc.buf \in Text, Fits(acc.buf), Whole(acc.out)
    PROVE  Whole(Flush(acc))
  BY WholeAppend DEF Flush

LEMMA WholeNothing == Whole(<<>>) /\ \A t \in Text : Fits(t) \/ ~Divisible(t) => Whole(<<t>>)
  <1>1. Len(<<>>) = 0 /\ \A t : Len(<<t>>) = 1 /\ <<t>>[1] = t
    OBVIOUS
  <1> QED
    BY <1>1 DEF Whole

-----------------------------------------------------------------------------
(* What the folds have read they have put out or collected, and a chunk that *)
(* is over the budget cannot be divided.                                    *)

HasRead(acc, words) == WordsOf(acc.out) \o Words(acc.buf) = words

LEMMA AddReads ==
    ASSUME NEW acc \in Adding, NEW word \in Text, NEW words, HasRead(acc, words)
    PROVE  HasRead(AddWord(acc, word), words \o Words(word))
  <1>1. acc.out \in Seq(Text) /\ acc.buf \in Text /\ acc.open \in BOOLEAN /\ (acc.open \/ acc.buf = <<>>)
    BY DEF Adding
  <1>2. PICK o, b, w : o = WordsOf(acc.out) /\ b = Words(acc.buf) /\ w = Words(word)
    OBVIOUS
  <1>3. o \in Text /\ b \in Text /\ w \in Text /\ words = o \o b
    BY <1>1, <1>2, WordsIs, WordsOfIs DEF HasRead
  <1>4. o \o (b \o w) = (o \o b) \o w /\ b \o <<>> = b /\ <<>> \o w = w
        /\ (o \o b) \o w \in Text /\ ((o \o b) \o w) \o <<>> = (o \o b) \o w
    <2>1. o \o b \in Text /\ (o \o b) \o w \in Text
      BY <1>3, TextConcat
    <2> QED
      BY <1>3, <2>1, TextAssociative, TextConcat
  <1>5. Words(Joined(acc, word)) = b \o w
    <2>1. CASE acc.open
      <3>1. <<0>> \in Text /\ Words(<<0>>) = <<>>
        BY OneSymbol DEF Symbol, Ink, Cost, Period, NewLine
      <3>2. acc.buf \o <<0>> \in Text /\ Words(acc.buf \o <<0>>) = b \o <<>>
        <4>1. acc.buf \o <<0>> \in Text
          BY <1>1, <3>1, TextConcat
        <4>2. Words(acc.buf \o <<0>>) = Words(acc.buf) \o Words(<<0>>)
          BY <1>1, <3>1, WordsConcat
        <4> QED
          BY <1>2, <3>1, <4>1, <4>2
      <3>3. Words((acc.buf \o <<0>>) \o word) = (b \o <<>>) \o w
        BY <1>2, <3>2, WordsConcat
      <3> QED
        BY <1>4, <2>1, <3>3 DEF Joined
    <2>2. CASE ~acc.open
      BY <1>1, <1>2, <1>4, <2>2, NoSymbol DEF Joined
    <2> QED
      BY <2>1, <2>2
  <1>6. Flush(acc) \in Seq(Text) /\ WordsOf(Flush(acc)) = o \o b
    BY <1>1, <1>2, FlushWords
  <1>7. CASE Fits(Joined(acc, word))
    <2>1. AddWord(acc, word).out = acc.out /\ AddWord(acc, word).buf = Joined(acc, word)
      BY <1>7 DEF AddWord, Adding
    <2> QED
      BY <1>2, <1>3, <1>4, <1>5, <2>1 DEF HasRead
  <1>8. CASE ~Fits(Joined(acc, word)) /\ Fits(word)
    <2>1. AddWord(acc, word).out = Flush(acc) /\ AddWord(acc, word).buf = word
      BY <1>8 DEF AddWord
    <2> QED
      BY <1>2, <1>3, <1>6, <2>1 DEF HasRead
  <1>9. CASE ~Fits(Joined(acc, word)) /\ ~Fits(word)
    <2>1. AddWord(acc, word).out = Append(Flush(acc), word) /\ AddWord(acc, word).buf = <<>>
      BY <1>9 DEF AddWord
    <2>2. WordsOf(Append(Flush(acc), word)) = (o \o b) \o w
      BY <1>2, <1>6, WordsAppend
    <2> QED
      BY <1>2, <1>3, <1>4, <2>1, <2>2, NoSymbol DEF HasRead
  <1> QED
    BY <1>7, <1>8, <1>9

LEMMA AddStaysWhole ==
    ASSUME NEW acc \in Adding, NEW word \in Text, Whole(acc.out), ~Divisible(word)
    PROVE  Whole(AddWord(acc, word).out)
  <1>1. acc.out \in Seq(Text) /\ acc.buf \in Text /\ Fits(acc.buf)
    BY DEF Adding
  <1>2. Flush(acc) \in Seq(Text) /\ Whole(Flush(acc))
    BY <1>1, FlushWords, WholeFlush
  <1>3. Whole(Append(Flush(acc), word))
    BY <1>2, WholeAppend
  <1>4. \/ AddWord(acc, word).out = acc.out
        \/ AddWord(acc, word).out = Flush(acc)
        \/ AddWord(acc, word).out = Append(Flush(acc), word)
    BY DEF AddWord, Adding
  <1> QED
    BY <1>2, <1>3, <1>4

LEMMA HardSplits ==
    ASSUME NEW text \in Text, NEW chunks, chunks = HardSplit(text)
    PROVE  /\ chunks \in Seq(Text) /\ WordsOf(chunks) = Words(text)
           /\ ~Divisible(text) => Whole(chunks)
  <1>1. PICK words : words = SplitAt(text, <<0>>)
    OBVIOUS
  <1>2. <<0>> \in Text /\ <<0>> # <<>> /\ Words(<<0>>) = <<>>
    BY OneSymbol DEF Symbol, Ink, Cost, Period, NewLine
  <1>3. /\ words \in Seq(Text) /\ WordsOf(words) = Words(text)
        /\ \A i \in 1 .. Len(words) : Within(words[i], text)
    BY <1>1, <1>2, SplitParts
  <1> DEFINE n == Len(words)
  <1>4. n \in Nat /\ n \in 0 .. n /\ 0 \in 0 .. n /\ \A i \in 1 .. n : words[i] \in Text
    BY <1>3, LenProperties
  <1>5. PICK st \in [0 .. n -> Adding] :
              /\ st[0] = [out |-> <<>>, buf |-> <<>>, open |-> FALSE]
              /\ st[n] = FoldLeft(AddWord, [out |-> <<>>, buf |-> <<>>, open |-> FALSE], words)
              /\ \A k \in 0 .. n : k # n => st[k + 1] = AddWord(st[k], words[k + 1])
    BY <1>3, AddStates
  <1>6. PICK sw \in [0 .. n -> Text] :
              /\ sw[0] = <<>> /\ sw[n] = WordsOf(words)
              /\ \A k \in 0 .. n : k # n => sw[k + 1] = sw[k] \o Words(words[k + 1])
    BY <1>3, WordsOfStates
  <1>7. chunks = Flush(st[n])
    BY <1>1, <1>5 DEF HardSplit
  <1> HIDE DEF n
  <1>8. \A k \in 0 .. n : k # n => k + 1 \in 1 .. n /\ k + 1 \in 0 .. n
    BY <1>4
  <1>9. HasRead(st[n], sw[n])
    <2> DEFINE F == {k \in 0 .. n : HasRead(st[k], sw[k])}
    <2>1. 0 \in F
      <3>1. HasRead(st[0], <<>>)
        BY <1>5, NoSymbol, FewTexts, TextConcat DEF HasRead
      <3> QED
        BY <1>4, <1>6, <3>1
    <2>2. ASSUME NEW k \in 0 .. n, k # n, k \in F PROVE k + 1 \in F
      <3>1. words[k + 1] \in Text /\ st[k] \in Adding /\ HasRead(st[k], sw[k]) /\ k + 1 \in 0 .. n
        BY <1>4, <1>5, <1>8, <2>2
      <3>2. HasRead(AddWord(st[k], words[k + 1]), sw[k] \o Words(words[k + 1]))
        BY <3>1, AddReads
      <3> QED
        BY <1>5, <1>6, <2>2, <3>1, <3>2
    <2> HIDE DEF F
    <2>3. n \in F
      BY <1>4, <2>1, <2>2, NumberSteps
    <2> QED
      BY <2>3 DEF F
  <1>10. st[n].out \in Seq(Text) /\ st[n].buf \in Text /\ Fits(st[n].buf)
    BY <1>4, <1>5 DEF Adding
  <1>11. chunks \in Seq(Text) /\ WordsOf(chunks) = Words(text)
    BY <1>3, <1>6, <1>7, <1>9, <1>10, FlushWords DEF HasRead
  <1>12. ASSUME ~Divisible(text) PROVE Whole(chunks)
    <2> DEFINE F == {k \in 0 .. n : Whole(st[k].out)}
    <2>1. 0 \in F
      BY <1>4, <1>5, WholeNothing
    <2>2. ASSUME NEW k \in 0 .. n, k # n, k \in F PROVE k + 1 \in F
      <3>1. words[k + 1] \in Text /\ st[k] \in Adding /\ Whole(st[k].out) /\ k + 1 \in 0 .. n
        BY <1>4, <1>5, <1>8, <2>2
      <3>2. ~Divisible(words[k + 1])
        <4>1. Within(words[k + 1], text)
          BY <1>3, <1>8, <2>2 DEF n
        <4> QED
          BY <1>12, <4>1, WithinDivisible
      <3>3. Whole(AddWord(st[k], words[k + 1]).out)
        BY <3>1, <3>2, AddStaysWhole
      <3> QED
        BY <1>5, <2>2, <3>1, <3>3
    <2> HIDE DEF F
    <2>3. n \in F
      BY <1>4, <2>1, <2>2, NumberSteps
    <2>4. Whole(st[n].out)
      BY <2>3 DEF F
    <2> QED
      BY <1>7, <1>10, <2>4, WholeFlush
  <1> QED
    BY <1>11, <1>12

Deeper == {f \in [Text -> Seq(Text)] : \A t \in Text : WordsOf(f[t]) = Words(t)}

LEMMA PieceReads ==
    ASSUME NEW deeper \in Deeper, NEW acc \in Piecing, NEW piece \in Text, NEW words, HasRead(acc, words)
    PROVE  HasRead(AddPiece(deeper, acc, piece), words \o Words(piece))
  <1>1. acc.out \in Seq(Text) /\ acc.buf \in Text
    BY DEF Piecing
  <1>2. PICK o, b, w : o = WordsOf(acc.out) /\ b = Words(acc.buf) /\ w = Words(piece)
    OBVIOUS
  <1>3. o \in Text /\ b \in Text /\ w \in Text /\ words = o \o b
    BY <1>1, <1>2, WordsIs, WordsOfIs DEF HasRead
  <1>4. o \o (b \o w) = (o \o b) \o w /\ ((o \o b) \o w) \o <<>> = (o \o b) \o w
    <2>1. o \o b \in Text /\ (o \o b) \o w \in Text
      BY <1>3, TextConcat
    <2> QED
      BY <1>3, <2>1, TextAssociative, TextConcat
  <1>5. Words(acc.buf \o piece) = b \o w
    BY <1>1, <1>2, WordsConcat
  <1>6. Flush(acc) \in Seq(Text) /\ WordsOf(Flush(acc)) = o \o b
    BY <1>1, <1>2, FlushWords
  <1>7. CASE Fits(acc.buf \o piece)
    <2>1. AddPiece(deeper, acc, piece).out = acc.out /\ AddPiece(deeper, acc, piece).buf = acc.buf \o piece
      BY <1>7 DEF AddPiece, Piecing
    <2> QED
      BY <1>2, <1>3, <1>4, <1>5, <2>1 DEF HasRead
  <1>8. CASE ~Fits(acc.buf \o piece) /\ Fits(piece)
    <2>1. AddPiece(deeper, acc, piece).out = Flush(acc) /\ AddPiece(deeper, acc, piece).buf = piece
      BY <1>8 DEF AddPiece
    <2> QED
      BY <1>2, <1>3, <1>6, <2>1 DEF HasRead
  <1>9. CASE ~Fits(acc.buf \o piece) /\ ~Fits(piece)
    <2>1. /\ AddPiece(deeper, acc, piece).out = Flush(acc) \o deeper[piece]
          /\ AddPiece(deeper, acc, piece).buf = <<>>
      BY <1>9 DEF AddPiece
    <2>2. deeper[piece] \in Seq(Text) /\ WordsOf(deeper[piece]) = w
      BY <1>2 DEF Deeper
    <2>3. WordsOf(Flush(acc) \o deeper[piece]) = (o \o b) \o w
      BY <1>6, <2>2, WordsOfConcat
    <2> QED
      BY <1>2, <1>3, <1>4, <2>1, <2>3, NoSymbol DEF HasRead
  <1> QED
    BY <1>7, <1>8, <1>9

LEMMA PieceStaysWhole ==
    ASSUME NEW deeper \in Deeper, NEW acc \in Piecing, NEW piece \in Text, Whole(acc.out), Whole(deeper[piece])
    PROVE  Whole(AddPiece(deeper, acc, piece).out)
  <1>1. acc.out \in Seq(Text) /\ acc.buf \in Text /\ Fits(acc.buf) /\ deeper[piece] \in Seq(Text)
    BY DEF Piecing, Deeper
  <1>2. Flush(acc) \in Seq(Text) /\ Whole(Flush(acc))
    BY <1>1, FlushWords, WholeFlush
  <1>3. Whole(Flush(acc) \o deeper[piece])
    BY <1>1, <1>2, WholeConcat
  <1>4. \/ AddPiece(deeper, acc, piece).out = acc.out
        \/ AddPiece(deeper, acc, piece).out = Flush(acc)
        \/ AddPiece(deeper, acc, piece).out = Flush(acc) \o deeper[piece]
    BY DEF AddPiece, Piecing
  <1> QED
    BY <1>2, <1>3, <1>4

AllWhole(deeper, pieces) == \A i \in 1 .. Len(pieces) : Whole(deeper[pieces[i]])

LEMMA PiecesAre ==
    ASSUME NEW deeper \in Deeper, NEW text \in Text, NEW sep \in Text, sep # <<>>,
           NEW chunks, chunks = Pieces(deeper, text, sep)
    PROVE  /\ chunks \in Seq(Text) /\ WordsOf(chunks) = Words(text)
           /\ AllWhole(deeper, Attached(text, sep)) => Whole(chunks)
  <1>1. PICK pieces : pieces = Attached(text, sep)
    OBVIOUS
  <1>2. pieces \in Seq(Text) /\ WordsOf(pieces) = Words(text) /\ deeper \in [Text -> Seq(Text)]
    BY <1>1, AttachedParts DEF Deeper
  <1> DEFINE n == Len(pieces)
  <1>4. n \in Nat /\ n \in 0 .. n /\ 0 \in 0 .. n /\ \A i \in 1 .. n : pieces[i] \in Text
    BY <1>2, LenProperties
  <1>5. PICK st \in [0 .. n -> Piecing] :
              /\ st[0] = [out |-> <<>>, buf |-> <<>>]
              /\ st[n] = Collected(deeper, pieces)
              /\ \A k \in 0 .. n : k # n => st[k + 1] = AddPiece(deeper, st[k], pieces[k + 1])
    BY <1>2, PieceStates
  <1>6. PICK sw \in [0 .. n -> Text] :
              /\ sw[0] = <<>> /\ sw[n] = WordsOf(pieces)
              /\ \A k \in 0 .. n : k # n => sw[k + 1] = sw[k] \o Words(pieces[k + 1])
    BY <1>2, WordsOfStates
  <1>3. PICK flushed : flushed = Flush(st[n])
    OBVIOUS
  <1>7. chunks = IF flushed = <<>> THEN <<text>> ELSE flushed
    BY <1>1, <1>3, <1>5 DEF Pieces
  <1> HIDE DEF n
  <1>8. \A k \in 0 .. n : k # n => k + 1 \in 1 .. n /\ k + 1 \in 0 .. n
    BY <1>4
  <1>9. HasRead(st[n], sw[n])
    <2> DEFINE F == {k \in 0 .. n : HasRead(st[k], sw[k])}
    <2>1. 0 \in F
      <3>1. HasRead(st[0], <<>>)
        BY <1>5, NoSymbol, FewTexts, TextConcat DEF HasRead
      <3> QED
        BY <1>4, <1>6, <3>1
    <2>2. ASSUME NEW k \in 0 .. n, k # n, k \in F PROVE k + 1 \in F
      <3>1. pieces[k + 1] \in Text /\ st[k] \in Piecing /\ HasRead(st[k], sw[k]) /\ k + 1 \in 0 .. n
        BY <1>4, <1>5, <1>8, <2>2
      <3>2. HasRead(AddPiece(deeper, st[k], pieces[k + 1]), sw[k] \o Words(pieces[k + 1]))
        BY <3>1, PieceReads
      <3> QED
        BY <1>5, <1>6, <2>2, <3>1, <3>2
    <2> HIDE DEF F
    <2>3. n \in F
      BY <1>4, <2>1, <2>2, NumberSteps
    <2> QED
      BY <2>3 DEF F
  <1>10. st[n].out \in Seq(Text) /\ st[n].buf \in Text /\ Fits(st[n].buf)
    BY <1>4, <1>5 DEF Piecing
  <1>11. flushed \in Seq(Text) /\ WordsOf(flushed) = Words(text)
    BY <1>2, <1>3, <1>6, <1>9, <1>10, FlushWords DEF HasRead
  <1>12. chunks \in Seq(Text) /\ WordsOf(chunks) = Words(text)
    BY <1>7, <1>11, FewTexts
  <1>13. ASSUME AllWhole(deeper, pieces) PROVE Whole(flushed)
    <2> DEFINE F == {k \in 0 .. n : Whole(st[k].out)}
    <2>1. 0 \in F
      BY <1>4, <1>5, WholeNothing
    <2>2. ASSUME NEW k \in 0 .. n, k # n, k \in F PROVE k + 1 \in F
      <3>1. pieces[k + 1] \in Text /\ st[k] \in Piecing /\ Whole(st[k].out) /\ k + 1 \in 0 .. n
        BY <1>4, <1>5, <1>8, <2>2
      <3>2. Whole(deeper[pieces[k + 1]])
        BY <1>8, <1>13, <2>2 DEF n, AllWhole
      <3>3. Whole(AddPiece(deeper, st[k], pieces[k + 1]).out)
        BY <3>1, <3>2, PieceStaysWhole
      <3> QED
        BY <1>5, <2>2, <3>1, <3>3
    <2> HIDE DEF F
    <2>3. n \in F
      BY <1>4, <2>1, <2>2, NumberSteps
    <2>4. Whole(st[n].out)
      BY <2>3 DEF F
    <2> QED
      BY <1>3, <1>10, <2>4, WholeFlush
  <1>14. ASSUME flushed = <<>> PROVE Fits(text)
    <2>1. Words(text) = <<>>
      BY <1>11, <1>14, FewTexts
    <2>2. Count(text) = 0
      BY <2>1, CountOfWords, NoSymbol
    <2> QED
      BY <2>2, BudgetAssumption DEF Fits
  <1> QED
    BY <1>1, <1>7, <1>12, <1>13, <1>14, WholeNothing

-----------------------------------------------------------------------------
(* The levels of the recursion, from the last separator to the first.        *)

LEMMA LastLevel ==
    ASSUME NEW g, g = [t \in Text |-> IF Fits(t) THEN <<t>> ELSE HardSplit(t)]
    PROVE  g \in Deeper /\ \A t \in Text : ~Divisible(t) => Whole(g[t])
  <1>1. ASSUME NEW t \in Text
        PROVE  g[t] \in Seq(Text) /\ WordsOf(g[t]) = Words(t) /\ (~Divisible(t) => Whole(g[t]))
    <2>1. CASE Fits(t)
      BY <2>1, FewTexts, WholeNothing
    <2>2. CASE ~Fits(t)
      BY <2>2, HardSplits
    <2> QED
      BY <2>1, <2>2
  <1>2. g \in [Text -> Seq(Text)]
    BY <1>1
  <1> QED
    BY <1>1, <1>2 DEF Deeper

LEMMA NextLevel ==
    ASSUME NEW deeper \in Deeper, NEW sep \in Text, sep # <<>>,
           NEW g, g = [t \in Text |-> IF Fits(t) THEN <<t>> ELSE Pieces(deeper, t, sep)]
    PROVE  g \in Deeper /\ \A t \in Text : AllWhole(deeper, Attached(t, sep)) => Whole(g[t])
  <1>1. ASSUME NEW t \in Text
        PROVE  /\ g[t] \in Seq(Text) /\ WordsOf(g[t]) = Words(t)
               /\ AllWhole(deeper, Attached(t, sep)) => Whole(g[t])
    <2>1. CASE Fits(t)
      BY <2>1, FewTexts, WholeNothing
    <2>2. CASE ~Fits(t)
      BY <2>2, PiecesAre
    <2> QED
      BY <2>1, <2>2
  <1>2. g \in [Text -> Seq(Text)]
    BY <1>1
  <1> QED
    BY <1>1, <1>2 DEF Deeper

LEMMA TheSeparators ==
    /\ Len(Separators) = 4
    /\ Separators[1] = <<NewLine, NewLine>> /\ Separators[2] = <<NewLine>>
    /\ Separators[3] = <<Period, 0>> /\ Separators[4] = <<0>>
    /\ \A k \in 1 .. 4 : Separators[k] \in Text /\ Separators[k] # <<>>
  <1>1. NewLine \in Symbol /\ Period \in Symbol /\ 0 \in Symbol
    BY DEF Symbol
  <1>2. /\ Len(Separators) = 4
        /\ Separators[1] = <<NewLine, NewLine>> /\ Separators[2] = <<NewLine>>
        /\ Separators[3] = <<Period, 0>> /\ Separators[4] = <<0>>
    BY DEF Separators
  <1>3. /\ <<NewLine, NewLine>> \in Text /\ <<NewLine>> \in Text /\ <<Period, 0>> \in Text /\ <<0>> \in Text
        /\ <<NewLine, NewLine>> # <<>> /\ <<NewLine>> # <<>> /\ <<Period, 0>> # <<>> /\ <<0>> # <<>>
    BY <1>1 DEF Text
  <1>4. \A k \in 1 .. 4 : k = 1 \/ k = 2 \/ k = 3 \/ k = 4
    OBVIOUS
  <1> QED
    BY <1>2, <1>3, <1>4

Levels(f) ==
    /\ f[5] = [t \in Text |-> IF Fits(t) THEN <<t>> ELSE HardSplit(t)]
    /\ \A k \in 1 .. 4 :
           f[k] = [t \in Text |-> IF Fits(t) THEN <<t>> ELSE Pieces(f[k + 1], t, Separators[k])]

LEMMA LevelsExist ==
    \E f : Levels(f) /\ \A text \in Text : Recurse(text, 1) = f[1][text]
  <1> DEFINE Body(g, k) == [t \in Text |->
                               IF Fits(t) THEN <<t>>
                               ELSE IF k > Len(Separators) THEN HardSplit(t)
                               ELSE Pieces(g[k + 1], t, Separators[k])]
             f == CHOOSE f : f = [k \in 1 .. Len(Separators) + 1 |-> Body(f, k)]
             Lower(h, k) == [t \in Text |-> IF Fits(t) THEN <<t>> ELSE Pieces(h, t, Separators[k])]
  <1>1. PICK f5, f4, f3, f2, f1 :
            /\ f5 = [t \in Text |-> IF Fits(t) THEN <<t>> ELSE HardSplit(t)]
            /\ f4 = Lower(f5, 4) /\ f3 = Lower(f4, 3) /\ f2 = Lower(f3, 2) /\ f1 = Lower(f2, 1)
    OBVIOUS
  <1>2. PICK g : g = [k \in 1 .. 5 |-> IF k = 5 THEN f5 ELSE IF k = 4 THEN f4 ELSE IF k = 3 THEN f3
                                       ELSE IF k = 2 THEN f2 ELSE f1]
    OBVIOUS
  <1>3. Len(Separators) + 1 = 5 /\ ~(1 > Len(Separators)) /\ ~(2 > Len(Separators))
        /\ ~(3 > Len(Separators)) /\ ~(4 > Len(Separators)) /\ 5 > Len(Separators)
    BY TheSeparators
  <1>4. g[1] = f1 /\ g[2] = f2 /\ g[3] = f3 /\ g[4] = f4 /\ g[5] = f5
    BY <1>2
  <1>5. \A k \in 1 .. 5 : k = 1 \/ k = 2 \/ k = 3 \/ k = 4 \/ k = 5
    OBVIOUS
  <1>6. \A k \in 1 .. 5 : g[k] = Body(g, k)
    <2>1. f5 = Body(g, 5)
      BY <1>1, <1>3
    <2>2. f4 = Body(g, 4) /\ f3 = Body(g, 3) /\ f2 = Body(g, 2) /\ f1 = Body(g, 1)
      <3>1. 4 + 1 = 5 /\ 3 + 1 = 4 /\ 2 + 1 = 3 /\ 1 + 1 = 2
        OBVIOUS
      <3> QED
        BY <1>1, <1>3, <1>4, <3>1
    <2> HIDE DEF Body, Lower
    <2> QED
      BY <1>4, <1>5, <2>1, <2>2
  <1>7. f = [k \in 1 .. Len(Separators) + 1 |-> Body(f, k)]
    <2>1. DOMAIN g = 1 .. Len(Separators) + 1 /\ g = [k \in 1 .. 5 |-> g[k]]
      BY <1>2, <1>3
    <2> HIDE DEF Body, Lower
    <2>2. g = [k \in 1 .. Len(Separators) + 1 |-> Body(g, k)]
      BY <1>3, <1>6, <2>1
    <2> QED
      BY <2>2
  <1>8. \A text \in Text : Recurse(text, 1) = f[1][text]
    BY DEF Recurse
  <1> HIDE DEF f, Lower
  <1>9. Levels(f)
    <2>1. \A k \in 1 .. 5 : f[k] = Body(f, k)
      <3> HIDE DEF Body
      <3> QED
        BY <1>3, <1>7
    <2>2. f[5] = [t \in Text |-> IF Fits(t) THEN <<t>> ELSE HardSplit(t)]
      BY <1>3, <2>1
    <2>3. ASSUME NEW k \in 1 .. 4
          PROVE  f[k] = [t \in Text |-> IF Fits(t) THEN <<t>> ELSE Pieces(f[k + 1], t, Separators[k])]
      <3>1. k \in 1 .. 5 /\ ~(k > Len(Separators))
        BY TheSeparators
      <3> QED
        BY <2>1, <3>1
    <2> QED
      BY <2>2, <2>3 DEF Levels
  <1> QED
    BY <1>8, <1>9

LEMMA LevelsKeep ==
    ASSUME NEW f, Levels(f)
    PROVE  f[1] \in Deeper /\ \A t \in Text : Whole(f[1][t])
  <1>1. f[5] \in Deeper /\ \A t \in Text : ~Divisible(t) => Whole(f[5][t])
    BY LastLevel DEF Levels
  <1>2. ASSUME NEW k \in 1 .. 4, NEW g, g = f[k + 1], g \in Deeper
        PROVE  f[k] \in Deeper /\ \A t \in Text : AllWhole(g, Attached(t, Separators[k])) => Whole(f[k][t])
    <2>1. PICK sep : sep = Separators[k]
      OBVIOUS
    <2>2. sep \in Text /\ sep # <<>>
      BY <2>1, TheSeparators
    <2>3. f[k] = [t \in Text |-> IF Fits(t) THEN <<t>> ELSE Pieces(g, t, sep)]
      BY <1>2, <2>1 DEF Levels
    <2> QED
      BY <1>2, <2>1, <2>2, <2>3, NextLevel
  <1>3. f[4] \in Deeper /\ \A t \in Text : BreaksLast(t) => Whole(f[4][t])
    <2>1. f[4] \in Deeper /\ \A t \in Text : AllWhole(f[5], Attached(t, <<0>>)) => Whole(f[4][t])
      <3>1. 4 \in 1 .. 4 /\ 4 + 1 = 5 /\ Separators[4] = <<0>>
        BY TheSeparators
      <3> QED
        BY <1>1, <1>2, <3>1
    <2>2. ASSUME NEW t \in Text, BreaksLast(t) PROVE AllWhole(f[5], Attached(t, <<0>>))
      <3>1. PICK pieces : pieces = Attached(t, <<0>>)
        OBVIOUS
      <3>2. <<0>> \in Text /\ <<0>> # <<>>
        BY TheSeparators
      <3>3. /\ pieces \in Seq(Text)
            /\ \A i \in 1 .. Len(pieces) : Within(pieces[i], t)
            /\ \A i \in 1 .. Len(pieces) : LastOnly(pieces[i], 0)
        BY <3>1, <3>2, AttachedParts
      <3> SUFFICES ASSUME NEW i \in 1 .. Len(pieces) PROVE Whole(f[5][pieces[i]])
        BY <3>1 DEF AllWhole
      <3>4. pieces[i] \in Text /\ BreaksLast(pieces[i])
        BY <2>2, <3>3, WithinBreaks
      <3>5. ~Divisible(pieces[i])
        BY <3>3, <3>4, WordsStayWhole
      <3> QED
        BY <1>1, <3>4, <3>5
    <2> QED
      BY <2>1, <2>2
  <1>4. f[3] \in Deeper /\ \A t \in Text : BreaksLast(t) => Whole(f[3][t])
    <2>1. f[3] \in Deeper /\ \A t \in Text : AllWhole(f[4], Attached(t, Separators[3])) => Whole(f[3][t])
      <3>1. 3 \in 1 .. 4 /\ 3 + 1 = 4
        OBVIOUS
      <3> QED
        BY <1>2, <1>3, <3>1
    <2>2. ASSUME NEW t \in Text, BreaksLast(t) PROVE AllWhole(f[4], Attached(t, Separators[3]))
      <3>1. PICK pieces : pieces = Attached(t, Separators[3])
        OBVIOUS
      <3>2. pieces \in Seq(Text) /\ \A i \in 1 .. Len(pieces) : Within(pieces[i], t)
        <4>1. Separators[3] \in Text /\ Separators[3] # <<>>
          BY TheSeparators
        <4> QED
          BY <3>1, <4>1, AttachedParts
      <3> SUFFICES ASSUME NEW i \in 1 .. Len(pieces) PROVE Whole(f[4][pieces[i]])
        BY <3>1 DEF AllWhole
      <3>4. pieces[i] \in Text /\ BreaksLast(pieces[i])
        BY <2>2, <3>2, WithinBreaks
      <3> QED
        BY <1>3, <3>4
    <2> QED
      BY <2>1, <2>2
  <1>5. f[2] \in Deeper /\ \A t \in Text : Whole(f[2][t])
    <2>1. f[2] \in Deeper /\ \A t \in Text : AllWhole(f[3], Attached(t, <<NewLine>>)) => Whole(f[2][t])
      <3>1. 2 \in 1 .. 4 /\ 2 + 1 = 3 /\ Separators[2] = <<NewLine>>
        BY TheSeparators
      <3> QED
        BY <1>2, <1>4, <3>1
    <2>2. ASSUME NEW t \in Text PROVE AllWhole(f[3], Attached(t, <<NewLine>>))
      <3>1. PICK pieces : pieces = Attached(t, <<NewLine>>)
        OBVIOUS
      <3>2. <<NewLine>> \in Text /\ <<NewLine>> # <<>>
        BY TheSeparators
      <3>3. pieces \in Seq(Text) /\ \A i \in 1 .. Len(pieces) : LastOnly(pieces[i], NewLine)
        BY <3>1, <3>2, AttachedParts
      <3> SUFFICES ASSUME NEW i \in 1 .. Len(pieces) PROVE Whole(f[3][pieces[i]])
        BY <3>1 DEF AllWhole
      <3>4. pieces[i] \in Text /\ BreaksLast(pieces[i])
        BY <3>3, LinesBreakLast
      <3> QED
        BY <1>4, <3>4
    <2> QED
      BY <2>1, <2>2
  <1>6. f[1] \in Deeper /\ \A t \in Text : AllWhole(f[2], Attached(t, Separators[1])) => Whole(f[1][t])
    <2>1. 1 \in 1 .. 4 /\ 1 + 1 = 2
      OBVIOUS
    <2> QED
      BY <1>2, <1>5, <2>1
  <1>7. ASSUME NEW t \in Text PROVE AllWhole(f[2], Attached(t, Separators[1]))
    <2>1. PICK pieces : pieces = Attached(t, Separators[1])
      OBVIOUS
    <2>2. pieces \in Seq(Text)
      <3>1. Separators[1] \in Text /\ Separators[1] # <<>>
        BY TheSeparators
      <3> QED
        BY <2>1, <3>1, AttachedParts
    <2> QED
      BY <1>5, <2>1, <2>2 DEF AllWhole
  <1> QED
    BY <1>6, <1>7

LEMMA RawChunksAre ==
    ASSUME NEW text \in Text, NEW raw, raw = RawChunks(text)
    PROVE  raw \in Seq(Text) /\ WordsOf(raw) = Words(text) /\ Whole(raw)
  <1>1. PICK f : Levels(f) /\ \A t \in Text : Recurse(t, 1) = f[1][t]
    BY LevelsExist
  <1>2. f[1] \in Deeper /\ \A t \in Text : Whole(f[1][t])
    BY <1>1, LevelsKeep
  <1>3. CASE IsBlank(text)
    BY <1>3, BlankWords, FewTexts, WholeNothing DEF RawChunks
  <1>4. CASE ~IsBlank(text)
    BY <1>1, <1>2, <1>4 DEF RawChunks, Deeper
  <1> QED
    BY <1>3, <1>4

(* For every text and every budget, the chunks the splitter cuts it into hold *)
(* every word of it, once and in order (no truncation, pipeline.py:120-127).  *)
THEOREM SplitterKeepsWords == \A text \in Text : KeepsWords(text)
  BY RawChunksAre DEF KeepsWords

-----------------------------------------------------------------------------
(* The overlap: the tail of a chunk has at most the tokens it is cut to, or   *)
(* what is left of a cut word has its tokens in the place of k pieces.       *)

Severed(text, tail) ==
    \E k \in 1 .. OverlapTokens :
        /\ \E c \in ToSet(text) : k < c
        /\ Count(tail) <= (OverlapTokens - k) + 2 + Alone[k]

Tails(text) == {acc \in [left : Nat, out : Text] :
                  \/ Count(acc.out) + acc.left <= OverlapTokens
                  \/ acc.left = 0 /\ Severed(text, acc.out)}

LEMMA ReverseIs ==
    ASSUME NEW text \in Text
    PROVE  /\ Len(Reverse(text)) = Len(text) /\ Len(text) \in Nat /\ DOMAIN Reverse(text) = 1 .. Len(text)
           /\ \A i \in 1 .. Len(text) : Reverse(text)[i] \in Symbol /\ Reverse(text)[i] \in ToSet(text)
  <1> DEFINE n == Len(text)
  <1>1. n \in Nat /\ \A i \in 1 .. n : text[i] \in Symbol /\ n - i + 1 \in 1 .. n
    BY DEF Text
  <1>2. Reverse(text) = [i \in 1 .. n |-> text[n - i + 1]]
    BY DEF Reverse
  <1> HIDE DEF n
  <1>3. Reverse(text) \in [1 .. n -> Symbol]
    BY <1>1, <1>2
  <1>4. Reverse(text) \in Seq(Symbol) /\ Len(Reverse(text)) = n
    BY <1>1, <1>3, IsASeq, LenProperties
  <1> QED
    BY <1>1, <1>2, <1>3, <1>4 DEF n, ToSet, Text

LEMMA PairOf ==
    ASSUME NEW a \in Symbol, NEW b \in Symbol
    PROVE  <<a>> \o <<b>> = <<a, b>>
  <1>1. PICK both : both = <<a>> \o <<b>>
    OBVIOUS
  <1>2. both \in Seq(Symbol) /\ Len(both) = 2 /\ both[1] = a /\ both[2] = b
    BY <1>1, ConcatProperties
  <1>3. <<a, b>> \in Seq(Symbol) /\ Len(<<a, b>>) = 2 /\ <<a, b>>[1] = a /\ <<a, b>>[2] = b
    OBVIOUS
  <1>4. \A j \in 1 .. 2 : j = 1 \/ j = 2
    OBVIOUS
  <1> QED
    BY <1>1, <1>2, <1>3, <1>4, SeqEqual

LEMMA TripleOf ==
    ASSUME NEW a \in Symbol, NEW b \in Symbol, NEW c \in Symbol
    PROVE  <<a, b>> \o <<c>> = <<a, b, c>>
  <1>1. PICK all : all = <<a, b>> \o <<c>>
    OBVIOUS
  <1>2. all \in Seq(Symbol) /\ Len(all) = 3 /\ all[1] = a /\ all[2] = b /\ all[3] = c
    BY <1>1, ConcatProperties
  <1>3. /\ <<a, b, c>> \in Seq(Symbol) /\ Len(<<a, b, c>>) = 3
        /\ <<a, b, c>>[1] = a /\ <<a, b, c>>[2] = b /\ <<a, b, c>>[3] = c
    OBVIOUS
  <1>4. \A j \in 1 .. 3 : j = 1 \/ j = 2 \/ j = 3
    OBVIOUS
  <1> QED
    BY <1>1, <1>2, <1>3, <1>4, SeqEqual

LEMMA KeptAre == \A c, k : GivenBack(c, k) = IF k < Cost(c) THEN Remnant(k) ELSE <<c>>
  BY DEF GivenBack

(* A word that fits is kept as it is.                                        *)
LEMMA KeptWhole ==
    ASSUME NEW c \in Symbol
    PROVE  GivenBack(c, Cost(c)) \in Text /\ Count(GivenBack(c, Cost(c))) = Cost(c)
  <1>0. PICK m \in Nat : m = Cost(c) /\ ~(m < m)
    BY Costs
  <1>1. GivenBack(c, m) = <<c>>
    BY <1>0, KeptAre
  <1> QED
    BY <1>0, <1>1, OneSymbol

(* Of a word that does not fit, two marks and what is left of it are kept.   *)
LEMMA KeptCut ==
    ASSUME NEW c \in Symbol, NEW k \in 1 .. OverlapTokens, k < Cost(c)
    PROVE  GivenBack(c, k) \in Text /\ Count(GivenBack(c, k)) = 2 + Alone[k]
  <1>1. PICK a : a = Alone[k]
    OBVIOUS
  <1>2. a \in Nat /\ a # 0
    BY <1>1, AloneAssumption
  <1>3. 1 \in Symbol /\ Cost(1) = 1 /\ a \in Symbol /\ Cost(a) = a
    BY <1>2 DEF Symbol, Cost, Period, NewLine
  <1>4. /\ <<1>> \in Text /\ Count(<<1>>) = 1
        /\ <<a>> \in Text /\ Count(<<a>>) = a
    BY <1>3, OneSymbol
  <1>5. <<1, 1>> \in Text /\ Count(<<1, 1>>) = 1 + 1
    BY <1>3, <1>4, PairOf, TextConcat, CountConcat
  <1>6. <<1, 1, a>> \in Text /\ Count(<<1, 1, a>>) = (1 + 1) + a
    BY <1>3, <1>4, <1>5, TripleOf, TextConcat, CountConcat
  <1>7. Remnant(k) = <<1, 1, a>>
    BY <1>1 DEF Remnant
  <1>8. GivenBack(c, k) = Remnant(k)
    BY KeptAre
  <1> QED
    BY <1>1, <1>2, <1>6, <1>7, <1>8

(* A word with the space that parts it from the tail.                        *)
Spaced(word, tail) == word \o <<0>> \o tail

(* What is put before a tail: a word, and a space unless it is the last.     *)
LEMMA PutBefore ==
    ASSUME NEW word \in Text, NEW tail \in Text, NEW part,
           part = word \o tail \/ part = Spaced(word, tail)
    PROVE  part \in Text /\ Count(part) = Count(word) + Count(tail)
  <1>1. <<0>> \in Text /\ Count(<<0>>) = 0
    BY OneSymbol DEF Symbol, Cost, Period, NewLine
  <1>2. Count(word) \in Nat /\ Count(tail) \in Nat
    BY CountIs
  <1>3. CASE part = word \o tail
    BY <1>3, TextConcat, CountConcat
  <1>4. CASE part = Spaced(word, tail)
    <2>1. word \o <<0>> \in Text /\ Count(word \o <<0>>) = Count(word) + 0
      BY <1>1, TextConcat, CountConcat
    <2>2. part \in Text /\ Count(part) = (Count(word) + 0) + Count(tail)
      BY <1>4, <2>1, TextConcat, CountConcat DEF Spaced
    <2> QED
      BY <1>2, <2>2
  <1> QED
    BY <1>3, <1>4

LEMMA KeepIs ==
    ASSUME NEW text \in Text
    PROVE  /\ [left |-> OverlapTokens, out |-> <<>>] \in Tails(text)
           /\ \A acc \in Tails(text), c \in ToSet(text) : Keep(acc, c) \in Tails(text)
  <1>0. OverlapTokens \in Nat
    BY BudgetAssumption
  <1>1. [left |-> OverlapTokens, out |-> <<>>] \in Tails(text)
    BY <1>0, NoSymbol DEF Tails
  <1>2. ASSUME NEW acc \in Tails(text), NEW c \in ToSet(text) PROVE Keep(acc, c) \in Tails(text)
    <2>0. c \in Symbol
      BY DEF ToSet, Text
    <2>1. acc.left \in Nat /\ acc.out \in Text /\ Count(acc.out) \in Nat
      BY CountIs DEF Tails
    <2>2. PICK k : k = IF Cost(c) <= acc.left THEN Cost(c) ELSE acc.left
      OBVIOUS
    <2>3. k \in Nat /\ k <= acc.left /\ k <= Cost(c) /\ Cost(c) \in Nat
      BY <2>0, <2>1, <2>2, Costs
    <2>4. CASE k = 0
      BY <2>2, <2>4 DEF Keep
    <2>5. CASE k # 0
      <3>1. Count(acc.out) + acc.left <= OverlapTokens
        BY <2>3, <2>5 DEF Tails
      <3>2. PICK word : word = GivenBack(c, k)
        OBVIOUS
      <3>3. PICK more : /\ more = word \o acc.out \/ more = Spaced(word, acc.out)
                        /\ Keep(acc, c) = [left |-> acc.left - k, out |-> more]
        BY <2>2, <2>5, <3>2 DEF Keep, Spaced
      <3>4. CASE k = Cost(c)
        <4>1. word \in Text /\ Count(word) = k
          BY <2>0, <3>2, <3>4, KeptWhole
        <4>2. more \in Text /\ Count(more) = k + Count(acc.out)
          BY <2>1, <3>3, <4>1, PutBefore
        <4>3. acc.left - k \in Nat /\ Count(more) + (acc.left - k) <= OverlapTokens
          BY <1>0, <2>1, <2>3, <3>1, <4>2
        <4> QED
          BY <3>3, <4>2, <4>3 DEF Tails
      <3>5. CASE k # Cost(c)
        <4>1. k < Cost(c) /\ k = acc.left /\ k \in 1 .. OverlapTokens
          BY <1>0, <2>1, <2>2, <2>3, <2>5, <3>1, <3>5
        <4>2. k < c
          BY <2>0, <2>3, <2>5, <4>1 DEF Cost, Symbol, Period, NewLine
        <4>3. word \in Text /\ Count(word) = 2 + Alone[k]
          BY <2>0, <3>2, <4>1, KeptCut
        <4>4. more \in Text /\ Count(more) = (2 + Alone[k]) + Count(acc.out)
          BY <2>1, <3>3, <4>3, PutBefore
        <4>5. Alone[k] \in Nat
          BY <4>1, AloneAssumption
        <4>6. Count(more) <= (OverlapTokens - k) + 2 + Alone[k]
          BY <1>0, <2>1, <2>3, <3>1, <4>1, <4>4, <4>5
        <4>7. Severed(text, more)
          BY <4>1, <4>2, <4>6 DEF Severed
        <4>8. acc.left - k = 0
          BY <2>1, <4>1
        <4> QED
          BY <3>3, <4>4, <4>7, <4>8 DEF Tails
      <3> QED
        BY <3>4, <3>5
    <2> QED
      BY <2>4, <2>5
  <1> QED
    BY <1>1, <1>2

LEMMA TailEnds ==
    ASSUME NEW text \in Text
    PROVE  \E end \in Tails(text) : TokenTail(text, OverlapTokens) = end.out
  <1> DEFINE N == Len(Reverse(text))
             G == Tails(text)
             base == [left |-> OverlapTokens, out |-> <<>>]
             step(acc, c) == Keep(acc, c)
             h == [acc \in G |-> [i \in 1 .. N |-> step(acc, Reverse(text)[i])]]
             it == CHOOSE it : it = [s \in SUBSET DOMAIN Reverse(text) |->
                      IF s = {} THEN base ELSE step(it[s \ {Max(s)}], Reverse(text)[Max(s)])]
  <1>1. N \in Nat /\ N = Len(text) /\ DOMAIN Reverse(text) = 1 .. N
    BY ReverseIs
  <1>9. \A i \in 1 .. N : Reverse(text)[i] \in ToSet(text)
    BY ReverseIs
  <1>2. TokenTail(text, OverlapTokens) = it[DOMAIN Reverse(text)].out
    BY DEF TokenTail, FoldLeft, MapThenFoldSet
  <1>3. base \in G /\ \A acc \in G : \A i \in 1 .. N : step(acc, Reverse(text)[i]) \in G
    BY <1>1, <1>9, KeepIs
  <1> HIDE DEF step, N, G, base
  <1>4. h \in [G -> [1 .. N -> G]] /\ \A acc \in G : \A i \in 1 .. N : h[acc][i] = step(acc, Reverse(text)[i])
    BY <1>3
  <1> HIDE DEF h
  <1>5. it = [s \in SUBSET DOMAIN Reverse(text) |-> IF s = {} THEN base ELSE step(it[s \ {Max(s)}], Reverse(text)[Max(s)])]
    <2>1. PICK jt \in [SUBSET (1 .. N) -> G] : Iterates(jt, h, base, N)
      BY <1>1, <1>3, <1>4, IterateExists
    <2>2. ASSUME NEW s \in SUBSET (1 .. N), s # {}
          PROVE  h[jt[s \ {Max(s)}]][Max(s)] = step(jt[s \ {Max(s)}], Reverse(text)[Max(s)])
      <3>1. Max(s) \in 1 .. N /\ s \ {Max(s)} \in SUBSET (1 .. N)
        BY <1>1, <2>2, MaxOf
      <3> QED
        BY <1>4, <3>1
    <2>3. jt = [s \in SUBSET DOMAIN Reverse(text) |-> IF s = {} THEN base ELSE step(jt[s \ {Max(s)}], Reverse(text)[Max(s)])]
      BY <1>1, <2>1, <2>2 DEF Iterates
    <2> QED
      BY <2>3
  <1> HIDE DEF it
  <1>6. Follows(it, h, base, N, G)
    <2>1. \A s \in SUBSET (1 .. N) : s # {} => Max(s) \in 1 .. N
      BY <1>1, MaxOf
    <2> QED
      BY <1>1, <1>4, <1>5, <2>1 DEF Follows
  <1>7. PICK st \in [0 .. N -> G] : Reaches(st, h, base, N) /\ st[N] = it[1 .. N]
    <2>1. Stops(it, N) \in [0 .. N -> G] /\ Reaches(Stops(it, N), h, base, N)
      BY <1>1, <1>3, <1>4, <1>6, StatesOf
    <2>2. Stops(it, N)[N] = it[1 .. N]
      BY <1>1 DEF Stops
    <2> QED
      BY <2>1, <2>2
  <1> QED
    BY <1>1, <1>2, <1>7 DEF G

LEMMA TokenTailIs ==
    ASSUME NEW text \in Text
    PROVE  /\ TokenTail(text, OverlapTokens) \in Text
           /\ \/ Count(TokenTail(text, OverlapTokens)) <= OverlapTokens
              \/ Severed(text, TokenTail(text, OverlapTokens))
  <1>1. PICK end \in Tails(text) : TokenTail(text, OverlapTokens) = end.out
    BY TailEnds
  <1>2. /\ end.left \in Nat /\ end.out \in Text
        /\ Count(end.out) + end.left <= OverlapTokens \/ Severed(text, end.out)
    BY DEF Tails
  <1>3. Count(end.out) \in Nat /\ OverlapTokens \in Nat
    BY <1>2, CountIs, BudgetAssumption
  <1> QED
    BY <1>1, <1>2, <1>3

(* For every text and every budget, a chunk is over the budget only if no two  *)
(* words of it have a blank between them, and the overlap adds at most its own *)
(* tokens to a chunk, or those of a cut word in the place of its pieces.     *)
THEOREM SplitterKeepsBudget == \A text \in Text : KeepsBudget(text)
  <1> SUFFICES ASSUME NEW text \in Text PROVE KeepsBudget(text)
    OBVIOUS
  <1>1. PICK raw : raw = RawChunks(text)
    OBVIOUS
  <1>2. raw \in Seq(Text) /\ Whole(raw)
    BY <1>1, RawChunksAre
  <1>3. DOMAIN raw = 1 .. Len(raw) /\ Len(raw) \in Nat /\ \A i \in 1 .. Len(raw) : raw[i] \in Text
    BY <1>2, LenProperties
  <1>4. OverlapTokens \in Nat
    BY BudgetAssumption
  <1>5. PICK out : out = Chunks(text)
    OBVIOUS
  <1>6. \A i \in 1 .. Len(raw) :
            out[i] = IF OverlapTokens = 0 \/ i = 1 THEN raw[i]
                     ELSE TokenTail(raw[i - 1], OverlapTokens) \o <<0>> \o raw[i]
    BY <1>1, <1>3, <1>5 DEF Chunks
  <1>7. ASSUME NEW i \in 1 .. Len(raw)
        PROVE  \/ Count(out[i]) <= Count(raw[i]) + OverlapTokens
               \/ /\ i > 1
                  /\ \E k \in 1 .. OverlapTokens :
                        /\ \E c \in ToSet(raw[i - 1]) : k < c
                        /\ Count(out[i]) <= Count(raw[i]) + (OverlapTokens - k) + 2 + Alone[k]
    <2>1. raw[i] \in Text /\ Count(raw[i]) \in Nat
      BY <1>3, CountIs
    <2>2. CASE OverlapTokens = 0 \/ i = 1
      BY <1>4, <1>6, <2>1, <2>2
    <2>3. CASE ~(OverlapTokens = 0 \/ i = 1)
      <3>1. i - 1 \in 1 .. Len(raw)
        BY <1>3, <2>3
      <3>2. PICK tail : tail = TokenTail(raw[i - 1], OverlapTokens)
        OBVIOUS
      <3>3. /\ tail \in Text /\ Count(tail) \in Nat
            /\ Count(tail) <= OverlapTokens \/ Severed(raw[i - 1], tail)
        BY <1>3, <3>1, <3>2, TokenTailIs, CountIs
      <3>4. <<0>> \in Text /\ Count(<<0>>) = 0
        BY OneSymbol DEF Symbol, Cost, Period, NewLine
      <3>5. tail \o <<0>> \in Text /\ Count(tail \o <<0>>) = Count(tail) + 0
        BY <3>3, <3>4, TextConcat, CountConcat
      <3>6. Count((tail \o <<0>>) \o raw[i]) = (Count(tail) + 0) + Count(raw[i])
        BY <2>1, <3>5, CountConcat
      <3>7. out[i] = (tail \o <<0>>) \o raw[i]
        BY <1>6, <2>3, <3>2
      <3>8. CASE Count(tail) <= OverlapTokens
        BY <1>4, <2>1, <3>3, <3>6, <3>7, <3>8
      <3>9. CASE Severed(raw[i - 1], tail)
        <4>1. PICK k \in 1 .. OverlapTokens :
                 /\ \E c \in ToSet(raw[i - 1]) : k < c
                 /\ Count(tail) <= (OverlapTokens - k) + 2 + Alone[k]
          BY <3>9 DEF Severed
        <4>2. Alone[k] \in Nat /\ k \in Nat
          BY AloneAssumption
        <4>3. Count(out[i]) <= Count(raw[i]) + (OverlapTokens - k) + 2 + Alone[k]
          BY <1>4, <2>1, <3>3, <3>6, <3>7, <4>1, <4>2
        <4>4. i > 1
          BY <2>3
        <4> QED
          BY <4>1, <4>3, <4>4
      <3> QED
        BY <3>3, <3>8, <3>9
    <2> QED
      BY <2>2, <2>3
  <1> QED
    BY <1>1, <1>2, <1>3, <1>5, <1>7 DEF KeepsBudget, Whole

-----------------------------------------------------------------------------
(* Every text, as the run grows it symbol by symbol.                        *)
LEMMA InputIsText == AnyText => [](input \in Text)
  <1>1. input = <<>> => input \in Text
    BY NoSymbol
  <1>2. input \in Text /\ [\E c \in Symbol : Extend(c)]_input => (input \in Text)'
    BY AppendProperties DEF Extend, Text
  <1> QED
    BY <1>1, <1>2, PTL DEF AnyText

(* No text, however long it grows, loses a word in the splitter (no          *)
(* truncation, pipeline.py:120-127).                                        *)
THEOREM NothingIsLost == AnyText => []NothingLost
  <1>1. input \in Text => NothingLost
    BY SplitterKeepsWords DEF NothingLost
  <1> QED
    BY <1>1, InputIsText, PTL

(* No text, however long it grows, gives a divisible chunk over the budget,  *)
(* nor an overlap over its own, but for a word the tail begins inside of     *)
(* (_recurse, _hard_split, _add_overlap).                                   *)
THEOREM ChunksFitBudget == AnyText => []FitsBudget
  <1>1. input \in Text => FitsBudget
    BY SplitterKeepsBudget DEF FitsBudget
  <1> QED
    BY <1>1, InputIsText, PTL
=============================================================================
