---------------------------- MODULE SegmentStream ----------------------------
(***************************************************************************)
(* What a user may rely on about data and a sink of it: the screen or the  *)
(* log file for what the port receives, the device for what xcom_send has  *)
(* accepted.  Pieces appear in the order they came, each at most once; one *)
(* that was charged as lost does not appear and is charged once.           *)
(***************************************************************************)
EXTENDS Naturals, Sequences

VARIABLES
  received,  \* pieces received or accepted, the id of the latest
  shown,     \* ids that reached the sink
  charged    \* ids charged as lost

vars == <<received, shown, charged>>

Members(s) == {s[i] : i \in 1 .. Len(s)}

Init == received = 0 /\ shown = <<>> /\ charged = <<>>

Receive == received' = received + 1 /\ UNCHANGED shown

Show(id) == /\ id \in 1 .. received \ Members(charged)
            /\ \A other \in Members(shown) : other < id
            /\ shown' = Append(shown, id)
            /\ UNCHANGED <<received, charged>>

\* The entries of the ledger in one step, each of them new.
Extends(lost) == /\ charged' = charged \o lost
                 /\ \A i \in 1 .. Len(lost) :
                      lost[i] \in 1 .. received' \ (Members(charged) \cup Members(shown))
                 /\ \A i, j \in 1 .. Len(lost) : lost[i] = lost[j] => i = j

NewEntries == SubSeq(charged', Len(charged) + 1, Len(charged'))

Next == \/ Receive /\ Extends(NewEntries)
        \/ \E id \in 1 .. received : Show(id)
        \/ Extends(NewEntries) /\ UNCHANGED <<received, shown>>

Spec == Init /\ [][Next]_vars
==============================================================================
