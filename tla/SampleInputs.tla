---------------------------- MODULE SampleInputs ----------------------------
(***************************************************************************)
(* Every dataset the selection of samples can be given, built row by row    *)
(* and message by message, and what the selection promises of it.           *)
(***************************************************************************)
EXTENDS SampleSelection

CONSTANTS
    Title,
    PerDataset      \* samples_per_dataset

ASSUME PerDatasetAssumption == PerDataset \in Nat

Row == [title : Title, size : Nat]
Message == [role : {"none", "user", "assistant"}, size : Nat]
Conversation == [messages : Seq(Message)]

VARIABLES
    table,      \* a dataset of texts
    talk        \* a dataset of conversations

AddRow(row) == table' = Append(table, row) /\ UNCHANGED talk
Begin == talk' = Append(talk, [messages |-> <<>>]) /\ UNCHANGED table
Say(m) ==
    /\ talk # <<>>
    /\ talk' = [talk EXCEPT ![Len(talk)].messages = Append(@, m)]
    /\ UNCHANGED table

AnyDataset ==
    /\ table = <<>> /\ talk = <<>>
    /\ [][(\E row \in Row : AddRow(row)) \/ Begin \/ (\E m \in Message : Say(m))]_<<table, talk>>

\* "never cuts across a Q&A boundary", "Number of unique documents to load": the
\* files are the first exchanges in reading order, none made of messages that do
\* not belong together; the first row of each of the first titles; and the first
\* rows, always without the short ones and never more than asked for.
SamplesAreWhole ==
    /\ LoadsWhole([kind |-> "pairs", rows |-> talk], PerDataset)
    /\ \A kind \in {"titled", "scan"} : LoadsWhole([kind |-> kind, rows |-> table], PerDataset)
=============================================================================
