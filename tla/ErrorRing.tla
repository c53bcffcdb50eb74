------------------------------ MODULE ErrorRing ------------------------------
(***************************************************************************)
(* ErrorRing: any thread reports an error without waiting, one caller      *)
(* takes them.  A producer reserves a slot by moving enqueue_pos, fills it *)
(* and publishes its sequence; a full ring drops the report and counts it. *)
(* Positions and sequences are unsigned and wrap.                          *)
(***************************************************************************)
EXTENDS Integers, Sequences, FiniteSets

CONSTANTS
  Producers,   \* threads that report
  Size,        \* kErrorRingCount
  Width,       \* numbers of a position, a multiple of Size (2^32)
  PushBound    \* bound: reports made; too few for a producer that is held up to fall
               \* half of Width behind

VARIABLES
  enqueuePos, dequeuePos,  \* enqueue_pos_, dequeue_pos_
  slots,      \* entries_: sequence and entry
  dropped,    \* dropped_
  at,         \* where each producer is
  position,   \* its local position
  report,     \* the report it pushes
  consumer,   \* where the caller of xcom_take_error is
  pushes,     \* reports begun, the number of the latest
  reserved,   \* history: reports in the order their slots were reserved
  taken       \* history: reports taken

vars == <<enqueuePos, dequeuePos, slots, dropped, at, position, report, consumer, pushes,
          reserved, taken>>

Slot(p) == p % Size
Plus(p, n) == (p + n) % Width

\* static_cast<int32_t>(a - b)
Difference(a, b) == LET d == (a - b) % Width IN IF 2 * d >= Width THEN d - Width ELSE d

TypeOK ==
  /\ enqueuePos \in 0 .. Width - 1 /\ dequeuePos \in 0 .. Width - 1
  /\ slots \in [0 .. Size - 1 -> [sequence : 0 .. Width - 1, entry : 0 .. PushBound]]
  /\ dropped \in 0 .. PushBound
  /\ at \in [Producers -> {"idle", "look", "reserve", "fill", "publish"}]
  /\ position \in [Producers -> 0 .. Width - 1] /\ report \in [Producers -> 0 .. PushBound]
  /\ consumer \in {"look", "free"} /\ pushes \in 0 .. PushBound
  /\ reserved \in Seq(1 .. PushBound) /\ taken \in Seq(0 .. PushBound)

\* The ring as the constructor leaves it, or empty just before positions wrap.
Init ==
  \E start \in {0, Width - Size} :
    /\ enqueuePos = start /\ dequeuePos = start
    /\ slots = [i \in 0 .. Size - 1 |-> [sequence |-> start + i, entry |-> 0]]
    /\ dropped = 0 /\ at = [p \in Producers |-> "idle"]
    /\ position = [p \in Producers |-> start] /\ report = [p \in Producers |-> 0]
    /\ consumer = "look" /\ pushes = 0 /\ reserved = <<>> /\ taken = <<>>

Goes(p, from, to) == at[p] = from /\ at' = [at EXCEPT ![p] = to]

Push(p) ==
  /\ pushes < PushBound /\ Goes(p, "idle", "look")
  /\ pushes' = pushes + 1 /\ report' = [report EXCEPT ![p] = pushes']
  /\ position' = [position EXCEPT ![p] = enqueuePos]
  /\ UNCHANGED <<enqueuePos, dequeuePos, slots, dropped, consumer, reserved, taken>>

Lag(p) == Difference(slots[Slot(position[p])].sequence, position[p])

\* Mutation: the report is counted and tried again.
DropAgain(p) ==
  /\ at[p] = "look" /\ Lag(p) < 0
  /\ dropped' = dropped + 1
  /\ UNCHANGED <<enqueuePos, dequeuePos, slots, at, position, report, consumer, pushes,
                 reserved, taken>>

Drop(p) ==
  /\ Goes(p, "look", "idle") /\ Lag(p) < 0
  /\ dropped' = dropped + 1
  /\ UNCHANGED <<enqueuePos, dequeuePos, slots, position, report, consumer, pushes, reserved,
                 taken>>

LookAgain(p) ==
  /\ at[p] = "look" /\ Lag(p) > 0
  /\ position' = [position EXCEPT ![p] = enqueuePos]
  /\ UNCHANGED <<enqueuePos, dequeuePos, slots, dropped, at, report, consumer, pushes,
                 reserved, taken>>

LookFree(p) ==
  /\ Goes(p, "look", "reserve") /\ Lag(p) = 0
  /\ UNCHANGED <<enqueuePos, dequeuePos, slots, dropped, position, report, consumer, pushes,
                 reserved, taken>>

\* Mutation: a producer that lost the race goes on with the slot it looked at.
ReserveUnchecked(p) ==
  /\ Goes(p, "reserve", "fill")
  /\ enqueuePos' = Plus(position[p], 1) /\ reserved' = Append(reserved, report[p])
  /\ UNCHANGED <<dequeuePos, slots, dropped, position, report, consumer, pushes, taken>>

Reserve(p) ==
  /\ Goes(p, "reserve", "fill") /\ enqueuePos = position[p]
  /\ enqueuePos' = Plus(enqueuePos, 1) /\ reserved' = Append(reserved, report[p])
  /\ UNCHANGED <<dequeuePos, slots, dropped, position, report, consumer, pushes, taken>>

\* The weak swap fails, also without cause: the position is read again.
ReserveFails(p) ==
  /\ Goes(p, "reserve", "look")
  /\ position' = [position EXCEPT ![p] = enqueuePos]
  /\ UNCHANGED <<enqueuePos, dequeuePos, slots, dropped, report, consumer, pushes, reserved,
                 taken>>

Fill(p) ==
  /\ Goes(p, "fill", "publish")
  /\ slots' = [slots EXCEPT ![Slot(position[p])].entry = report[p]]
  /\ UNCHANGED <<enqueuePos, dequeuePos, dropped, position, report, consumer, pushes,
                 reserved, taken>>

\* Mutation: the sequence of the published slot is its own position.
PublishStuck(p) ==
  /\ Goes(p, "publish", "idle")
  /\ slots' = [slots EXCEPT ![Slot(position[p])].sequence = position[p]]
  /\ UNCHANGED <<enqueuePos, dequeuePos, dropped, position, report, consumer, pushes,
                 reserved, taken>>

Publish(p) ==
  /\ Goes(p, "publish", "idle")
  /\ slots' = [slots EXCEPT ![Slot(position[p])].sequence = Plus(position[p], 1)]
  /\ UNCHANGED <<enqueuePos, dequeuePos, dropped, position, report, consumer, pushes,
                 reserved, taken>>

TakeCopy ==
  /\ consumer = "look" /\ consumer' = "free"
  /\ slots[Slot(dequeuePos)].sequence = Plus(dequeuePos, 1)
  /\ taken' = Append(taken, slots[Slot(dequeuePos)].entry)
  /\ UNCHANGED <<enqueuePos, dequeuePos, slots, dropped, at, position, report, pushes,
                 reserved>>

\* Mutation: the slot is given back for the lap that is still under way.
TakeFreeEarly ==
  /\ consumer = "free" /\ consumer' = "look"
  /\ slots' = [slots EXCEPT ![Slot(dequeuePos)].sequence = Plus(dequeuePos, Size - 1)]
  /\ dequeuePos' = Plus(dequeuePos, 1)
  /\ UNCHANGED <<enqueuePos, dropped, at, position, report, pushes, reserved, taken>>

TakeFree ==
  /\ consumer = "free" /\ consumer' = "look"
  /\ slots' = [slots EXCEPT ![Slot(dequeuePos)].sequence = Plus(dequeuePos, Size)]
  /\ dequeuePos' = Plus(dequeuePos, 1)
  /\ UNCHANGED <<enqueuePos, dropped, at, position, report, pushes, reserved, taken>>

Produce(p) ==
  \/ Drop(p) \/ LookAgain(p) \/ LookFree(p) \/ Reserve(p) \/ ReserveFails(p) \/ Fill(p)
  \/ Publish(p)

Take == TakeCopy \/ TakeFree
Next == Take \/ \E p \in Producers : Push(p) \/ Produce(p)
Spec == Init /\ [][Next]_vars

-----------------------------------------------------------------------------
(* Properties                                                              *)

\* Reports are taken whole, once each, in the order their slots were reserved,
\* however producers overtake each other and whatever laps the ring has made.
TakenInOrder ==
  /\ Len(taken) <= Len(reserved)
  /\ \A i \in 1 .. Len(taken) : taken[i] = reserved[i]

\* Every report is with its producer, in the ring or taken, or counted as dropped.
ReportsCounted ==
  pushes = dropped + Len(reserved)
         + Cardinality({p \in Producers : at[p] \in {"look", "reserve"}})

\* A report is dropped only when every slot is reserved or not yet given back.
DropsWhenFull ==
  [][dropped' # dropped => Difference(enqueuePos, dequeuePos) >= Size]_vars

\* No report is lost, repeated or torn, and none is dropped while there is room.
RingExact == [](TypeOK /\ TakenInOrder /\ ReportsCounted) /\ DropsWhenFull

\* Reserved reports are taken in the end, if producers finish and the caller polls.
AllTaken == <>[](Len(taken) = Len(reserved))

=============================================================================
