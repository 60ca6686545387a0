---------------------------- MODULE AtLeastOnce ----------------------------
(***************************************************************************)
(* What a consumer of a Redis stream promises: an entry may be reported any *)
(* number of times, alone or with others, and is settled (never delivered   *)
(* again) only after it was reported at least once.  What was reported      *)
(* stays so.  The exception is an entry that cannot be read, "Malformed     *)
(* JSON messages should be acked and skipped, not crash the consumer"       *)
(* (test_messaging.py:147): it is settled and never reported.               *)
(***************************************************************************)
CONSTANTS Entries, Unreadable
VARIABLES sent, reported, settled

avars == <<sent, reported, settled>>

Init == sent = {} /\ reported = {} /\ settled = {}

Send(m) == m \in Entries \ sent /\ sent' = sent \cup {m} /\ UNCHANGED <<reported, settled>>

Report(ms) ==
    /\ ms \subseteq sent \ Unreadable
    /\ reported' = reported \cup ms
    /\ UNCHANGED <<sent, settled>>

Settle(m) == m \in reported /\ settled' = settled \cup {m} /\ UNCHANGED <<sent, reported>>

Discard(ms) ==
    /\ ms \subseteq sent \cap Unreadable
    /\ settled' = settled \cup ms
    /\ UNCHANGED <<sent, reported>>

Next ==
    \/ \E m \in Entries : Send(m) \/ Settle(m)
    \/ \E ms \in SUBSET Entries : Report(ms) \/ Discard(ms)

Spec == Init /\ [][Next]_avars
=============================================================================
