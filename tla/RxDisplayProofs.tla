---------------------------- MODULE RxDisplayProofs ----------------------------
(***************************************************************************)
(* Theorems about RxDisplay, for every number of segments, sessions,       *)
(* pauses, blocks and batches.                                             *)
(***************************************************************************)
EXTENDS RxDisplay, SequenceTheorems, FiniteSetTheorems, TLAPS

-----------------------------------------------------------------------------
(* The inductive invariants.                                               *)

\* The elements of a sequence.
In(s) == {s[i] : i \in DOMAIN s}

\* Which blocks and batches a place of the Dispatcher or of the caller holds.
PlacesInv ==
  /\ current # <<>> <=> dispatcher \in {"format", "acquire", "count"}
  /\ Len(current) <= 1 /\ Len(deferred) <= 1 /\ Len(active) <= 1
  /\ current # <<>> => deferred = <<>>
  /\ abi = "copy" => active # <<>>
  /\ abi \in {"pop", "retire"} => active = <<>>

\* Each batch is in one place, and there once.
BufsOf(descs) == {d.buf : d \in In(descs)}
OnePlace == \A b \in Batches : Bit(b \in freeBatches) + Bit(b \in BufsOf(ready)) + Bit(b \in BufsOf(active)) = 1
OnceReady == \A i, j \in DOMAIN ready : ready[i].buf = ready[j].buf => i = j
BatchesInv == OnePlace /\ OnceReady

\* The segments on their way to the screen, from the one the caller is copying to
\* the ring.  A block that is being counted has been pushed.
SegsOf(descs) == {d.seg : d \in In(descs)}
Formatting == IF dispatcher = "count" THEN {} ELSE In(current)
Waiting    == Formatting \cup In(deferred)
OnWay      == SegsOf(active) \cup SegsOf(ready) \cup Waiting \cup In(ring)

\* They are in the order of their ids.
Ahead(first, second) == \A s \in first, t \in second : s.id < t.id
ReadyInOrder == \A i, j \in DOMAIN ready : i < j => ready[i].seg.id < ready[j].seg.id
RingInOrder  == \A i, j \in DOMAIN ring : i < j => ring[i].id < ring[j].id
InOrder ==
  /\ ReadyInOrder /\ RingInOrder
  /\ Ahead(SegsOf(active), SegsOf(ready) \cup Waiting \cup In(ring))
  /\ Ahead(SegsOf(ready), Waiting \cup In(ring))
  /\ Ahead(Waiting, In(ring))

\* None of them is shown or charged; nor is the segment the read thread holds.
Held == IF reader = "publish" THEN {received} ELSE {}
LedgerInv ==
  /\ In(shown) \cup In(charged) \subseteq 1 .. received \ Held
  /\ \A s \in OnWay : s.id \in 1 .. received \ (Held \cup In(charged))
  /\ \A s \in OnWay : \A id \in In(shown) : id < s.id
  /\ reader = "publish" => received # 0
  /\ unlogged \subseteq 1 .. received
StreamInv == InOrder /\ LedgerInv

-----------------------------------------------------------------------------
(* With a client whose close waits for CLOSED and whose buffer takes a     *)
(* batch, no drain spans a session boundary.                               *)

WholeDrains == ~SmallBuffer /\ ~CloseTimesOut

Closing == \/ dispatcher \in {"ownerClose", "joinReader"} /\ ending = "close"
           \/ dispatcher = "closeReset"
Draining == abi \in {"drop", "pop", "copy"}
SessionInv ==
  /\ request = "open" => /\ portState \in {"CLOSED", "FAULT"} /\ ~watching
                         /\ abi \in {"idle", "arm", "submit", "refused"}
  /\ dispatcher = "openReset" => request = "open"
  /\ request = "close" => abi = "closePoll" /\ portState \in {"OPEN", "FAULT"}
  /\ Closing => abi = "closePoll" /\ portState = "CLOSING" /\ request = "none"
  /\ abi = "closePoll" => ~watching
  /\ dispatcher \in {"ownerClose", "joinReader"} /\ ending = "fault" => portState = "FAULT"
  /\ active # <<>> => abi = "copy"
  /\ dispatcher \notin {"openReset", "closeReset"} => \A d \in In(ready) : d.gen = generation
  /\ Draining => drainGen = generation
  /\ \A d \in In(active) : d.gen = generation

CountInv == pending = Len(ready) + Len(active) + Bit(abi = "retire") - Bit(dispatcher = "count")

\* A segment on its way is unlogged when it had no file lane, and each such segment
\* is on its way or entered.
IdsOf(segs) == {s.id : s \in segs}
UnloggedInv ==
  /\ \A s \in OnWay : s.unlogged <=> s.id \in unlogged
  /\ unlogged \subseteq IdsOf(OnWay) \cup In(shown) \cup In(charged) \cup blank \cup Held
  /\ reader = "publish" => (arriving = "unlogged" <=> received \in unlogged)

-----------------------------------------------------------------------------
(* Sequences.                                                              *)

\* Appending an element adds it and moves none of the others.
LEMMA AppendLemma ==
  ASSUME NEW S, NEW s \in Seq(S), NEW e \in S
  PROVE  /\ Append(s, e) \in Seq(S)
         /\ In(Append(s, e)) = In(s) \cup {e}
         /\ DOMAIN Append(s, e) = DOMAIN s \cup {Len(s) + 1}
         /\ Len(s) + 1 \notin DOMAIN s
         /\ \A i \in DOMAIN s : Append(s, e)[i] = s[i]
         /\ Append(s, e)[Len(s) + 1] = e
<1>1. Len(s) \in Nat /\ DOMAIN s = 1 .. Len(s)
  OBVIOUS
<1>2. /\ Append(s, e) \in Seq(S) /\ Len(Append(s, e)) = Len(s) + 1
      /\ \A i \in 1 .. Len(s) : Append(s, e)[i] = s[i]
      /\ Append(s, e)[Len(s) + 1] = e
  OBVIOUS
<1>3. DOMAIN Append(s, e) = 1 .. (Len(s) + 1)
  BY <1>2
<1>4. DOMAIN Append(s, e) = DOMAIN s \cup {Len(s) + 1} /\ Len(s) + 1 \notin DOMAIN s
  BY <1>1, <1>3
<1>5. In(Append(s, e)) = In(s) \cup {e}
  BY <1>1, <1>2, <1>4 DEF In
<1> QED BY <1>1, <1>2, <1>4, <1>5

\* Taking the first element leaves the others, each one place further on.
LEMMA TailLemma ==
  ASSUME NEW S, NEW s \in Seq(S), s # <<>>
  PROVE  /\ Tail(s) \in Seq(S) /\ Head(s) \in S
         /\ In(s) = In(Tail(s)) \cup {Head(s)}
         /\ \A i \in DOMAIN Tail(s) : i + 1 \in DOMAIN s /\ i + 1 # 1 /\ Tail(s)[i] = s[i + 1]
         /\ 1 \in DOMAIN s /\ s[1] = Head(s)
         /\ DOMAIN Tail(s) \subseteq Nat
<1>1. Len(s) \in Nat \ {0} /\ DOMAIN s = 1 .. Len(s)
  OBVIOUS
<1>2. /\ Tail(s) \in Seq(S) /\ Len(Tail(s)) = Len(s) - 1
      /\ \A i \in 1 .. (Len(s) - 1) : Tail(s)[i] = s[i + 1]
      /\ Head(s) = s[1] /\ Head(s) \in S
  BY <1>1
<1>3. DOMAIN Tail(s) = 1 .. (Len(s) - 1)
  BY <1>1, <1>2
<1>4. \A i \in DOMAIN s : i = 1 \/ (i - 1 \in DOMAIN Tail(s) /\ Tail(s)[i - 1] = s[i])
  BY <1>1, <1>2, <1>3
<1>5. \A i \in DOMAIN Tail(s) : i + 1 \in DOMAIN s /\ i + 1 # 1 /\ Tail(s)[i] = s[i + 1]
  BY <1>1, <1>2, <1>3
<1>6. 1 \in DOMAIN s /\ s[1] = Head(s)
  BY <1>1, <1>2
<1>7. ASSUME NEW i \in DOMAIN s PROVE s[i] \in In(Tail(s)) \cup {Head(s)}
  <2>1. CASE i = 1
    BY <2>1, <1>6
  <2>2. CASE i - 1 \in DOMAIN Tail(s) /\ Tail(s)[i - 1] = s[i]
    BY <2>2 DEF In
  <2> QED BY <2>1, <2>2, <1>4
<1>8. In(Tail(s)) \cup {Head(s)} \subseteq In(s)
  BY <1>5, <1>6 DEF In
<1>9. In(s) = In(Tail(s)) \cup {Head(s)}
  BY <1>7, <1>8 DEF In
<1> QED BY <1>1, <1>2, <1>3, <1>5, <1>6, <1>9

\* A sequence of one has one element; to continue with it is to append that.
LEMMA OneLemma ==
  ASSUME NEW S, NEW s \in Seq(S), Len(s) = 1
  PROVE  /\ s[1] \in S /\ In(s) = {s[1]} /\ 1 \in DOMAIN s /\ s # <<>>
         /\ \A T : \A t \in Seq(T) : S \subseteq T => t \o s = Append(t, s[1])
<1>1. DOMAIN s = {1} /\ s[1] \in S
  OBVIOUS
<1>2. ASSUME NEW T, NEW t \in Seq(T), S \subseteq T PROVE t \o s = Append(t, s[1])
  <2>1. s = <<s[1]>> /\ s[1] \in T
    BY <1>1, <1>2
  <2>2. \A e \in T : t \o <<e>> = Append(t, e)
    BY <1>2, AppendIsConcat
  <2> QED BY <2>1, <2>2
<1> QED BY <1>1, <1>2 DEF In

\* A sequence of one, and the empty one.
LEMMA SingleLemma ==
  ASSUME NEW S, NEW e \in S
  PROVE  <<e>> \in Seq(S) /\ Len(<<e>>) = 1 /\ <<e>>[1] = e /\ In(<<e>>) = {e}
BY DEF In

\* The empty sequence is in every set of sequences.
LEMMA EmptyLemma == \A S : <<>> \in Seq(S) /\ In(<<>>) = {}
BY DEF In

\* What waits for the formatter: the deferred block first.
LEMMA BacklogLemma ==
  ASSUME NEW S, NEW d \in Seq(S), NEW r \in Seq(S)
  PROVE  /\ d = <<>> => d \o r = r
         /\ d # <<>> => d \o r # <<>> /\ Head(d \o r) = d[1] /\ d[1] \in S /\ 1 \in DOMAIN d
         /\ Len(d) \in Nat /\ (Len(d) = 0 <=> d = <<>>)
<1>1. /\ d \o r \in Seq(S) /\ Len(d \o r) = Len(d) + Len(r) /\ Len(d) \in Nat /\ Len(r) \in Nat
      /\ \A i \in 1 .. Len(d \o r) : (d \o r)[i] = IF i <= Len(d) THEN d[i] ELSE r[i - Len(d)]
  BY ConcatProperties
<1>2. Len(d) = 0 <=> d = <<>>
  OBVIOUS
<1>3. CASE d = <<>>
  BY <1>1, <1>2, <1>3
<1>4. CASE d # <<>>
  <2>1. Len(d) >= 1 /\ Len(d \o r) >= 1 /\ d[1] \in S /\ 1 \in DOMAIN d
    BY <1>1, <1>2, <1>4
  <2>2. d \o r # <<>> /\ (d \o r)[1] = d[1]
    BY <1>1, <2>1
  <2>3. Head(d \o r) = (d \o r)[1]
    BY <2>2, HeadTailProperties, <1>1
  <2> QED BY <1>1, <1>2, <1>4, <2>1, <2>2, <2>3
<1> QED BY <1>1, <1>2, <1>3, <1>4

-----------------------------------------------------------------------------
(* Types and places.                                                       *)

\* The flags, counters and places; the queues; the histories.
FlagsOK ==
  /\ portState \in {"CLOSED", "OPEN", "CLOSING", "FAULT"}
  /\ generation \in Nat /\ openGeneration \in Nat
  /\ gate \in BOOLEAN /\ kicks \in Nat /\ paused \in BOOLEAN
  /\ reader \in {"idle", "publish"} \cup Places
  /\ arriving \in {"logged", "unlogged"}
  /\ dispatcher \in {"idle", "block", "format", "acquire", "count", "disarm", "recheck",
                     "ownerClose", "joinReader", "openReset", "closeReset"} \cup Places
  /\ rounds \in 0 .. KickBlocks /\ ending \in {"close", "fault"}
  /\ abi \in {"idle", "drop", "pop", "copy", "retire", "closePoll"} \cup Places
  /\ drainGen \in Nat /\ request \in {"none", "open", "close"}
  /\ watching \in BOOLEAN /\ pauses \in Nat /\ received \in Nat
QueuesOK ==
  /\ ring \in Seq(Segment) /\ deferred \in Seq(Segment) /\ current \in Seq(Segment)
  /\ freeBatches \subseteq Batches
  /\ ready \in Seq(Desc) /\ active \in Seq(Desc) /\ pending \in Int
LedgersOK ==
  /\ unlogged \in SUBSET Nat /\ blank \in SUBSET Nat
  /\ shown \in Seq(Nat) /\ charged \in Seq(Nat)

\* The type invariant in three parts.
LEMMA TypeParts == TypeOK <=> FlagsOK /\ QueuesOK /\ LedgersOK
BY DEF TypeOK, FlagsOK, QueuesOK, LedgersOK

\* A thread that submits a kick stays in the places of doing so until it is idle.
LEMMA KickPlaces ==
  ASSUME NEW at, NEW next, Kick(at, next), gate \in BOOLEAN, kicks \in Nat
  PROVE  /\ at \in Places /\ next \in Places \cup {"idle"}
         /\ gate' \in BOOLEAN /\ kicks' \in Nat
<1>1. CASE Arm(at, next)
  BY <1>1 DEF Arm, Places
<1>2. CASE Submit(at, next)
  BY <1>2 DEF Submit, Places
<1>3. CASE Refused(at, next)
  BY <1>3 DEF Refused, Places
<1> QED BY <1>1, <1>2, <1>3 DEF Kick

\* Every step keeps the flags and counters in their sets.
LEMMA FlagsStep == TypeOK /\ PlacesInv /\ [Next]_vars => FlagsOK'
<1> SUFFICES ASSUME FlagsOK, PlacesInv, [Next]_vars PROVE FlagsOK'
  BY TypeParts
<1> USE RxDisplayAssumption DEF FlagsOK, port, wake, lane, readerT, dispT, abiT, history
<1>1. CASE Reader
  <2>1. CASE ReaderKick
    BY <2>1, KickPlaces DEF ReaderKick
  <2>2. CASE \E kind \in {"logged", "unlogged"} : Deliver(kind)
    BY <2>2 DEF Deliver
  <2>3. CASE DropForWantOfBlock \/ PublishToDisplay \/ PublishToFileOnly
    BY <2>3 DEF DropForWantOfBlock, PublishToDisplay, PublishToFileOnly, Places
  <2> QED BY <1>1, <2>1, <2>2, <2>3 DEF Reader
<1>2. CASE ReceiveAo
  <2>1. CASE DispatcherKick
    BY <2>1, KickPlaces DEF DispatcherKick
  <2>2. CASE TakeKick \/ TakeBlock \/ NoMoreBlocks
    BY <2>2 DEF TakeKick, TakeBlock, NoMoreBlocks, Goto
  <2>3. CASE FormatPaused \/ FormatGoesOn \/ FormatNoBatch \/ FormatEmpty
    BY <2>3 DEF FormatPaused, FormatGoesOn, FormatNoBatch, FormatEmpty, Defer, Goto
  <2>4. CASE PushReady \/ CountReady
    BY <2>4 DEF PushReady, CountReady, Goto
  <2>5. CASE Disarm
    <3>1. gate' \in BOOLEAN /\ dispatcher' \in {"recheck"}
      BY <2>5 DEF Disarm, Goto
    <3>2. UNCHANGED <<portState, generation, openGeneration, kicks, paused, reader, arriving, rounds,
                      ending, drainGen, pauses, received,
                      abi, request, watching>>
      BY <2>5 DEF Disarm, Goto
    <3> QED BY <3>1, <3>2
  <2>6. CASE Recheck
    BY <2>6 DEF Recheck, Goto, Places
  <2> QED BY <1>2, <2>1, <2>2, <2>3, <2>4, <2>5, <2>6 DEF ReceiveAo
<1>3. CASE SerialAo
  <2>1. CASE OpenSession \/ EndSession("close") \/ EndSession("fault")
    BY <2>1 DEF OpenSession, EndSession, Goto
  <2>2. CASE ReleaseDeferred \/ JoinReader \/ ResetDisplay
    BY <2>2 DEF ReleaseDeferred, JoinReader, ResetDisplay, PublishAfterReset, Goto
  <2> QED BY <1>3, <2>1, <2>2 DEF SerialAo
<1>4. CASE Caller
  <2>1. CASE CallerKick
    BY <2>1, KickPlaces DEF CallerKick
  <2>2. CASE DropStaleActive \/ NothingReady \/ PopReady
    BY <2>2 DEF DropStaleActive, NothingReady, PopReady
  <2>3. CASE CopyPart \/ CopyAll \/ CountDrained
    BY <2>3 DEF CopyPart, CopyAll, CountDrained, Places
  <2>4. CASE DrainCall
    BY <2>4 DEF DrainCall
  <2>7. CASE Pause \/ Resume
    <3>0. paused' = TRUE \/ paused' = FALSE
      BY <2>7, Zenon DEF Pause, Resume
    <3>1. paused' \in BOOLEAN
      BY <3>0
    <3>4. pauses' = pauses + 1 \/ pauses' = pauses
      BY <2>7, Zenon DEF Pause, Resume
    <3>2. UNCHANGED <<port, wake, readerT, dispT, drainGen, watching, request, received>>
      BY <2>7 DEF Pause, Resume
    <3>3. abi' = abi \/ abi' = "arm"
      BY <2>7 DEF Pause, Resume
    <3> QED BY <3>1, <3>2, <3>3, <3>4 DEF Places
  <2>6. CASE Poll
    BY <2>6 DEF Poll
  <2>5. CASE OpenCall \/ CloseCall \/ CloseReturns
    <3>1. CASE OpenCall
      <4>1. request' = "open" /\ watching' \in BOOLEAN
        BY <3>1 DEF OpenCall
      <4>2. UNCHANGED <<portState, generation, openGeneration, kicks, paused, reader, arriving, rounds,
                      ending, drainGen, pauses, received,
                        gate, dispatcher, abi>>
        BY <3>1 DEF OpenCall
      <4> QED BY <4>1, <4>2
    <3>2. CASE CloseCall
      <4>1. request' = "close" /\ watching' \in BOOLEAN /\ abi' = "closePoll"
        BY <3>2 DEF CloseCall
      <4>2. UNCHANGED <<portState, generation, openGeneration, kicks, paused, reader, arriving, rounds,
                      ending, drainGen, pauses, received,
                        gate, dispatcher>>
        BY <3>2 DEF CloseCall
      <4> QED BY <4>1, <4>2 DEF Places
    <3>3. CASE CloseReturns
      BY <3>3 DEF CloseReturns
    <3> QED BY <2>5, <3>1, <3>2, <3>3
  <2> QED BY <1>4, <2>1, <2>2, <2>3, <2>4, <2>5, <2>6, <2>7 DEF Caller, Drain
<1>5. CASE UNCHANGED vars
  BY <1>5 DEF vars
<1> QED BY <1>1, <1>2, <1>3, <1>4, <1>5 DEF Next

\* A step may append the segment in hand to the ring, or take the first block of the ring.
RingStep ==
  \/ UNCHANGED ring
  \/ \E s \in Segment : ring' = Append(ring, s)
  \/ ring # <<>> /\ ring' = Tail(ring)
\* A batch is pushed, popped by the consumer, or all are retired.
ReadyStep ==
  \/ UNCHANGED ready
  \/ \E d \in Desc : ready' = Append(ready, d)
  \/ ready # <<>> /\ ready' = Tail(ready)
  \/ ready' = <<>>

\* The block the Dispatcher takes comes from the deferred slot, or else from the ring.
LEMMA TakeLemma ==
  ASSUME QueuesOK, Backlog # <<>>, Len(deferred) <= 1
  PROVE  \/ /\ deferred # <<>> /\ <<Head(Backlog)>> = deferred /\ In(deferred) = {Head(Backlog)}
            /\ Head(Backlog) \in Segment
         \/ /\ deferred = <<>> /\ ring # <<>> /\ Head(Backlog) = Head(ring) /\ Head(ring) \in Segment
            /\ Tail(ring) \in Seq(Segment) /\ In(ring) = In(Tail(ring)) \cup {Head(ring)}
            /\ \A i \in DOMAIN Tail(ring) : i + 1 \in DOMAIN ring /\ i + 1 # 1 /\ Tail(ring)[i] = ring[i + 1]
            /\ 1 \in DOMAIN ring /\ ring[1] = Head(ring)
<1>1. ring \in Seq(Segment) /\ deferred \in Seq(Segment)
  BY DEF QueuesOK
<1>2. /\ deferred = <<>> => Backlog = ring
      /\ deferred # <<>> => /\ Head(Backlog) = deferred[1]
                            /\ deferred[1] \in Segment /\ Len(deferred) = 1
  <2>1. /\ deferred = <<>> => Backlog = ring
        /\ deferred # <<>> => Head(Backlog) = deferred[1] /\ deferred[1] \in Segment
        /\ Len(deferred) \in Nat /\ (Len(deferred) = 0 <=> deferred = <<>>)
    BY <1>1, BacklogLemma DEF Backlog
  <2>2. \A n \in Nat : n <= 1 /\ n # 0 => n = 1
    OBVIOUS
  <2>3. Len(deferred) # 0 => Len(deferred) = 1
    BY <2>1, <2>2
  <2> QED BY <2>1, <2>3
<1>3. CASE deferred # <<>>
  <2>1. Len(deferred) = 1 /\ deferred = <<deferred[1]>>
    BY <1>1, <1>2, <1>3
  <2> QED BY <1>1, <1>2, <1>3, <2>1, OneLemma
<1>4. CASE deferred = <<>>
  <2>1. Backlog = ring /\ ring # <<>>
    BY <1>2, <1>4
  <2> QED BY <1>1, <1>4, <2>1, TailLemma
<1> QED BY <1>3, <1>4

\* A sequence of at most one that is not empty has one element.
LEMMA ShortLemma ==
  ASSUME NEW S, NEW s \in Seq(S), s # <<>>, Len(s) <= 1
  PROVE  Len(s) = 1
<1>1. Len(s) \in Nat /\ Len(s) # 0
  OBVIOUS
<1>2. \A n \in Nat : n <= 1 /\ n # 0 => n = 1
  OBVIOUS
<1> QED BY <1>1, <1>2

\* A push takes a free batch for the block in hand.
LEMMA PushLemma ==
  ASSUME FlagsOK, QueuesOK, PlacesInv, PushReady
  PROVE  /\ current[1] \in Segment /\ In(current) = {current[1]}
         /\ \E d \in Desc : /\ d.buf \in freeBatches /\ d.seg = current[1] /\ d.gen = generation
                            /\ ready' = Append(ready, d) /\ freeBatches' = freeBatches \ {d.buf}
<1> DEFINE buf == CHOOSE b \in freeBatches : TRUE
<1> DEFINE d == [buf |-> buf, gen |-> generation, seg |-> current[1]]
<1>1. current # <<>> /\ Len(current) <= 1 /\ current \in Seq(Segment) /\ buf \in freeBatches
  BY DEF PushReady, PlacesInv, QueuesOK
<1>2. Len(current) = 1
  BY <1>1, ShortLemma
<1>3. current[1] \in Segment /\ In(current) = {current[1]}
  BY <1>1, <1>2, OneLemma
<1>4. d \in Desc
  BY <1>1, <1>3 DEF Desc, QueuesOK, FlagsOK
<1>5. ready' = Append(ready, d) /\ freeBatches' = freeBatches \ {buf}
  BY DEF PushReady
<1>6. d.buf = buf /\ d.seg = current[1] /\ d.gen = generation
  OBVIOUS
<1> HIDE DEF d, buf
<1>7. d.buf \in freeBatches /\ freeBatches' = freeBatches \ {d.buf}
  BY <1>1, <1>5, <1>6
<1> QED BY <1>3, <1>4, <1>5, <1>6, <1>7

\* Every step keeps queues of segments and batches.
LEMMA QueuesStep == TypeOK /\ PlacesInv /\ [Next]_vars => QueuesOK'
<1> SUFFICES ASSUME FlagsOK, QueuesOK, LedgersOK, PlacesInv, [Next]_vars PROVE QueuesOK'
  BY TypeParts
<1> USE DEF port, wake, lane, readerT, dispT, abiT, history
<1>0. UNCHANGED <<ring, deferred, current, freeBatches, ready, active, pending>> => QueuesOK'
  BY DEF QueuesOK
<1>e. \A S : <<>> \in Seq(S)
  BY EmptyLemma
<1>1. CASE Reader
  <2>1. CASE PublishToDisplay
    <3> DEFINE s == [id |-> received, gen |-> generation, unlogged |-> arriving = "unlogged"]
    <3>1. s \in Segment /\ ring' = Append(ring, s)
      BY <2>1 DEF PublishToDisplay, Segment, FlagsOK
    <3> HIDE DEF s
    <3>2. ring' \in Seq(Segment)
      BY <3>1, AppendLemma DEF QueuesOK
    <3> QED BY <2>1, <3>2 DEF PublishToDisplay, QueuesOK
  <2>2. CASE ReaderKick \/ DropForWantOfBlock \/ PublishToFileOnly \/ \E kind \in {"logged", "unlogged"} : Deliver(kind)
    BY <1>0, <2>2 DEF ReaderKick, DropForWantOfBlock, PublishToFileOnly, Deliver
  <2> QED BY <1>1, <2>1, <2>2 DEF Reader
<1>2. CASE ReceiveAo
  <2>1. CASE TakeBlock
    <3>1. /\ Backlog # <<>> /\ current' = <<Head(Backlog)>> /\ deferred' = <<>>
          /\ ring' = IF deferred = <<>> THEN Tail(ring) ELSE ring
          /\ UNCHANGED <<freeBatches, ready, active, pending>>
      BY <2>1 DEF TakeBlock
    <3>2. Head(Backlog) \in Segment /\ ring' \in Seq(Segment)
      BY <3>1, TakeLemma DEF PlacesInv, QueuesOK
    <3>3. <<Head(Backlog)>> \in Seq(Segment)
      BY <3>2
    <3> QED BY <1>e, <3>1, <3>2, <3>3 DEF QueuesOK
  <2>2. CASE PushReady
    <3>1. PICK d \in Desc : ready' = Append(ready, d) /\ freeBatches' = freeBatches \ {d.buf}
      BY <2>2, PushLemma
    <3>2. UNCHANGED <<ring, deferred, current, active, pending>>
      BY <2>2 DEF PushReady, Goto
    <3>4. ready' \in Seq(Desc)
      BY <3>1, AppendLemma DEF QueuesOK
    <3> QED BY <3>1, <3>2, <3>4 DEF QueuesOK
  <2>3. CASE FormatPaused \/ FormatNoBatch
    BY <1>e, <2>3 DEF FormatPaused, FormatNoBatch, Defer, QueuesOK, Goto
  <2>5. CASE FormatEmpty
    BY <1>e, <2>5 DEF FormatEmpty, QueuesOK, Goto
  <2>6. CASE CountReady
    BY <1>e, <2>6 DEF CountReady, QueuesOK, Goto
  <2>4. CASE TakeKick \/ NoMoreBlocks \/ FormatGoesOn \/ Disarm \/ Recheck \/ DispatcherKick
    BY <1>0, <2>4 DEF TakeKick, NoMoreBlocks, FormatGoesOn, Disarm, Recheck, DispatcherKick, Goto
  <2> QED BY <1>2, <2>1, <2>2, <2>3, <2>4, <2>5, <2>6 DEF ReceiveAo
<1>3. CASE SerialAo
  <2>1. CASE ResetDisplay
    <3>1. Len(ready) \in Nat /\ \A i \in 1 .. Len(ready) : ready[i] \in Desc
      BY DEF QueuesOK
    <3>2. \A i \in 1 .. Len(ready) : ready[i].buf \in Batches
      BY <3>1 DEF Desc
    <3>3. freeBatches' \subseteq Batches /\ ready' = <<>> /\ UNCHANGED <<ring, deferred, current, active>>
          /\ pending' = pending - Len(ready)
      BY <2>1, <3>2 DEF ResetDisplay, Retired, PublishAfterReset, Goto, QueuesOK
    <3> QED BY <1>e, <3>1, <3>3 DEF QueuesOK
  <2>2. CASE ReleaseDeferred
    BY <1>e, <2>2 DEF ReleaseDeferred, QueuesOK, Goto
  <2>3. CASE OpenSession \/ EndSession("close") \/ EndSession("fault") \/ JoinReader
    BY <1>0, <2>3 DEF OpenSession, EndSession, JoinReader, Goto
  <2> QED BY <1>3, <2>1, <2>2, <2>3 DEF SerialAo
<1>4. CASE Caller
  <2>0. \A i \in DOMAIN active : active[i] \in Desc /\ active[i].buf \in Batches
    <3>1. \A i \in DOMAIN active : active[i] \in Desc
      BY DEF QueuesOK
    <3> QED BY <3>1 DEF Desc
  <2>a. active # <<>> => 1 \in DOMAIN active
    BY DEF QueuesOK
  <2>1. CASE DropStaleActive
    <3>1. freeBatches' \subseteq Batches
      BY <2>0, <2>1, <2>a DEF DropStaleActive, QueuesOK
    <3>2. active' = active \/ active' = <<>>
      BY <2>1 DEF DropStaleActive
    <3> QED BY <1>e, <2>1, <3>1, <3>2 DEF DropStaleActive, QueuesOK
  <2>2. CASE PopReady
    <3>1. Tail(ready) \in Seq(Desc) /\ Head(ready) \in Desc
      BY <2>2, TailLemma DEF PopReady, QueuesOK
    <3>2. Head(ready).buf \in Batches /\ <<Head(ready)>> \in Seq(Desc)
      BY <3>1 DEF Desc
    <3>3. freeBatches' \subseteq Batches /\ (active' = <<Head(ready)>> \/ active' = active)
      BY <2>2, <3>2 DEF PopReady, QueuesOK
    <3> QED BY <2>2, <3>1, <3>2, <3>3 DEF PopReady, QueuesOK
  <2>3. CASE CopyAll
    <3>1. freeBatches' \subseteq Batches
      BY <2>0, <2>3, <2>a DEF CopyAll, QueuesOK, PlacesInv
    <3> QED BY <1>e, <2>3, <3>1 DEF CopyAll, QueuesOK
  <2>4. CASE CountDrained
    BY <2>4 DEF CountDrained, QueuesOK
  <2>5. CASE NothingReady \/ CopyPart \/ CallerKick \/ DrainCall \/ Pause
    BY <1>0, <2>5 DEF NothingReady, CopyPart, CallerKick, DrainCall, Pause
  <2>6. CASE Resume \/ Poll \/ OpenCall \/ CloseCall \/ CloseReturns
    BY <1>0, <2>6 DEF Resume, Poll, OpenCall, CloseCall, CloseReturns
  <2> QED BY <1>4, <2>1, <2>2, <2>3, <2>4, <2>5, <2>6 DEF Caller, Drain
<1>5. CASE UNCHANGED vars
  BY <1>0, <1>5 DEF vars
<1> QED BY <1>1, <1>2, <1>3, <1>4, <1>5 DEF Next

\* Every step keeps what its place says a thread holds.
LEMMA PlacesStep == TypeOK /\ PlacesInv /\ [Next]_vars => PlacesInv'
<1> SUFFICES ASSUME FlagsOK, QueuesOK, PlacesInv, [Next]_vars PROVE PlacesInv'
  BY TypeParts
<1> USE DEF port, wake, lane, readerT, dispT, abiT, history
<1>0. UNCHANGED <<current, deferred, active, dispatcher, abi>> => PlacesInv'
  BY DEF PlacesInv
<1>k. ASSUME NEW at, NEW next, Kick(at, next) PROVE at \in Places /\ next \in Places \cup {"idle"}
  BY <1>k, KickPlaces DEF FlagsOK
<1>e. Len(<<>>) = 0 /\ \A x : Len(<<x>>) = 1 /\ <<x>> # <<>>
  OBVIOUS
<1>1. CASE Reader
  BY <1>0, <1>1 DEF Reader, ReaderKick, DropForWantOfBlock, PublishToDisplay, PublishToFileOnly, Deliver
<1>2. CASE ReceiveAo
  <2>1. CASE TakeBlock
    BY <1>e, <2>1 DEF TakeBlock, PlacesInv
  <2>2. CASE FormatPaused \/ FormatNoBatch
    BY <1>e, <2>2 DEF FormatPaused, FormatNoBatch, Defer, Goto, PlacesInv
  <2>3. CASE FormatEmpty \/ CountReady
    BY <1>e, <2>3 DEF FormatEmpty, CountReady, Goto, PlacesInv
  <2>4. CASE TakeKick \/ NoMoreBlocks \/ FormatGoesOn \/ Disarm
    BY <2>4 DEF TakeKick, NoMoreBlocks, FormatGoesOn, Disarm, Goto, PlacesInv
  <2>5. CASE PushReady \/ Recheck
    BY <2>5 DEF PushReady, Recheck, Goto, PlacesInv
  <2>6. CASE DispatcherKick
    <3>1. dispatcher \in Places /\ dispatcher' \in Places \cup {"idle"}
      BY <1>k, <2>6 DEF DispatcherKick
    <3> QED BY <2>6, <3>1 DEF DispatcherKick, PlacesInv, Places
  <2> QED BY <1>2, <2>1, <2>2, <2>3, <2>4, <2>5, <2>6 DEF ReceiveAo
<1>3. CASE SerialAo
  <2>1. CASE OpenSession \/ EndSession("close") \/ EndSession("fault")
    BY <2>1 DEF OpenSession, EndSession, Goto, PlacesInv
  <2>2. CASE ReleaseDeferred
    BY <1>e, <2>2 DEF ReleaseDeferred, Goto, PlacesInv
  <2>3. CASE JoinReader \/ ResetDisplay
    BY <2>3 DEF JoinReader, ResetDisplay, PublishAfterReset, Goto, PlacesInv
  <2> QED BY <1>3, <2>1, <2>2, <2>3 DEF SerialAo
<1>4. CASE Caller
  <2>1. CASE DropStaleActive
    <3>1. active' = active \/ active' = <<>>
      BY <2>1 DEF DropStaleActive
    <3> QED BY <1>e, <2>1, <3>1 DEF DropStaleActive, PlacesInv
  <2>2. CASE PopReady
    <3>1. \/ active' = <<Head(ready)>> /\ abi' = "copy"
          \/ UNCHANGED <<active, abi>>
      BY <2>2 DEF PopReady
    <3>2. Len(<<Head(ready)>>) = 1 /\ <<Head(ready)>> # <<>>
      BY <1>e
    <3>3. abi = "pop" /\ active = <<>> /\ Len(active) <= 1
      BY <2>2 DEF PopReady, PlacesInv
    <3>4. CASE active' = <<Head(ready)>> /\ abi' = "copy"
      BY <2>2, <3>2, <3>4 DEF PopReady, PlacesInv
    <3>5. CASE UNCHANGED <<active, abi>>
      BY <2>2, <3>3, <3>5 DEF PopReady, PlacesInv
    <3> QED BY <3>1, <3>4, <3>5
  <2>3. CASE CopyAll \/ CountDrained
    BY <1>e, <2>3 DEF CopyAll, CountDrained, PlacesInv
  <2>4. CASE NothingReady \/ CopyPart \/ DrainCall
    BY <2>4 DEF NothingReady, CopyPart, DrainCall, PlacesInv
  <2>5. CASE Pause \/ Resume \/ Poll
    BY <2>5 DEF Pause, Resume, Poll, PlacesInv
  <2>6. CASE OpenCall \/ CloseCall \/ CloseReturns
    BY <2>6 DEF OpenCall, CloseCall, CloseReturns, PlacesInv
  <2>7. CASE CallerKick
    <3>1. abi \in Places /\ abi' \in Places \cup {"idle"}
      BY <1>k, <2>7 DEF CallerKick
    <3> QED BY <2>7, <3>1 DEF CallerKick, PlacesInv, Places
  <2> QED BY <1>4, <2>1, <2>2, <2>3, <2>4, <2>5, <2>6, <2>7 DEF Caller, Drain
<1>5. CASE UNCHANGED vars
  BY <1>0, <1>5 DEF vars
<1> QED BY <1>1, <1>2, <1>3, <1>4, <1>5 DEF Next

-----------------------------------------------------------------------------
(* One wake at a time.                                                     *)

\* How many claims to the one kick there are, with a claim of a thread's place.
Claim(place) == Bit(place \in Submitting)
Wakes == kicks + Bit(dispatcher \in HandlingKick \cup Submitting) + Claim(reader) + Claim(abi)

\* A thread that arms, submits or disarms takes and gives up its claim with the gate.
LEMMA KickClaims ==
  ASSUME NEW at, NEW next, Kick(at, next), gate \in BOOLEAN, kicks \in Nat,
         NEW others \in Nat, kicks + Claim(at) + others = Bit(gate)
  PROVE  kicks' + Claim(next) + others = Bit(gate')
<1> USE DEF Claim, Bit, Submitting
<1>1. CASE Arm(at, next)
  <2>1. CASE gate
    <3>1. gate' = gate /\ next = "idle" /\ kicks' = kicks /\ at = "arm"
      BY <1>1, <2>1 DEF Arm
    <3> QED BY <3>1
  <2>2. CASE ~gate
    <3>1. gate' = TRUE /\ next = "submit" /\ kicks' = kicks /\ at = "arm"
      BY <1>1, <2>2 DEF Arm
    <3>2. kicks + others = 0
      BY <2>2, <3>1
    <3>3. Bit(gate') = 1 /\ Claim(next) = 1
      BY <3>1
    <3> QED BY <3>1, <3>2, <3>3
  <2> QED BY <2>1, <2>2
<1>2. CASE Submit(at, next)
  <2>1. gate' = gate /\ at = "submit"
    BY <1>2 DEF Submit
  <2>2. \/ kicks' = kicks + 1 /\ next = "idle"
        \/ kicks' = kicks /\ next = "refused"
    BY <1>2 DEF Submit
  <2> QED BY <2>1, <2>2
<1>3. CASE Refused(at, next)
  <2>1. gate' = FALSE /\ at = "refused" /\ next = "idle" /\ kicks' = kicks
    BY <1>3 DEF Refused
  <2>2. kicks + 1 + others = 0 \/ kicks + 1 + others = 1
    BY <2>1
  <2>3. Bit(gate') = 0 /\ Claim(next) = 0
    BY <2>1
  <2> QED BY <2>1, <2>2, <2>3
<1> QED BY <1>1, <1>2, <1>3 DEF Kick

\* Every step keeps the one wake: the gate is armed for one kick, and for one only.
LEMMA WakeStep == TypeOK /\ OneWake /\ [Next]_vars => OneWake'
<1> SUFFICES ASSUME FlagsOK, OneWake, [Next]_vars PROVE OneWake'
  BY TypeParts
<1> USE DEF port, wake, lane, readerT, dispT, abiT, history
<1> DEFINE handling == Bit(dispatcher \in HandlingKick \cup Submitting)
<1>0. /\ gate \in BOOLEAN /\ kicks \in Nat
      /\ handling \in Nat /\ Claim(reader) \in Nat /\ Claim(abi) \in Nat
      /\ kicks + handling + Claim(reader) + Claim(abi) = Bit(gate)
  BY DEF FlagsOK, OneWake, Claim, Bit
<1>q. (kicks + handling + Claim(reader) + Claim(abi) = Bit(gate))' => OneWake'
  BY DEF OneWake, Claim
<1>s. /\ kicks' = kicks /\ gate' = gate /\ handling' = handling
      /\ Claim(reader)' = Claim(reader) /\ Claim(abi)' = Claim(abi)
      => OneWake'
  BY <1>0, <1>q
<1>u. UNCHANGED <<kicks, gate, dispatcher, reader, abi>> => OneWake'
  BY <1>s
<1>1. CASE Reader
  <2>1. CASE ReaderKick
    <3> DEFINE others == handling + Claim(abi)
    <3>1. others \in Nat /\ Kick(reader, reader') /\ kicks + Claim(reader) + others = Bit(gate)
      BY <1>0, <2>1 DEF ReaderKick
    <3>2. kicks' + Claim(reader') + others = Bit(gate')
      BY <1>0, <3>1, KickClaims
    <3>3. handling' = handling /\ Claim(abi)' = Claim(abi) /\ Claim(reader)' = Claim(reader')
      BY <2>1 DEF ReaderKick
    <3>4. gate' \in BOOLEAN /\ kicks' \in Nat
      BY <1>0, <3>1, KickPlaces
    <3>5. Claim(reader') \in Nat
      BY DEF Claim, Bit
    <3> QED BY <1>0, <1>q, <3>1, <3>2, <3>3, <3>4, <3>5
  <2>2. CASE DropForWantOfBlock \/ PublishToDisplay \/ PublishToFileOnly
            \/ \E kind \in {"logged", "unlogged"} : Deliver(kind)
    <3>1. reader \notin Submitting /\ reader' \notin Submitting /\ UNCHANGED <<kicks, gate, dispatcher, abi>>
      BY <2>2 DEF DropForWantOfBlock, PublishToDisplay, PublishToFileOnly, Deliver, Submitting
    <3>2. Claim(reader)' = Claim(reader)
      BY <3>1 DEF Claim, Submitting
    <3> QED BY <1>s, <3>1, <3>2
  <2> QED BY <1>1, <2>1, <2>2 DEF Reader
<1>2. CASE ReceiveAo
  <2>1. CASE DispatcherKick
    <3> DEFINE others == Claim(reader) + Claim(abi)
    <3>0. Kick(dispatcher, dispatcher')
      BY <2>1 DEF DispatcherKick
    <3>1. dispatcher \in Places /\ dispatcher' \in Places \cup {"idle"} /\ gate' \in BOOLEAN /\ kicks' \in Nat
      BY <1>0, <3>0, KickPlaces
    <3>2. handling = Claim(dispatcher) /\ handling' = Claim(dispatcher')
      BY <3>1 DEF Claim, Places, HandlingKick, Submitting
    <3>3. others \in Nat /\ kicks + Claim(dispatcher) + others = Bit(gate)
      BY <1>0, <3>2
    <3>4. kicks' + Claim(dispatcher') + others = Bit(gate')
      BY <1>0, <3>0, <3>3, KickClaims
    <3>5. Claim(reader)' = Claim(reader) /\ Claim(abi)' = Claim(abi)
      BY <2>1 DEF DispatcherKick
    <3>6. Claim(dispatcher') \in Nat
      BY DEF Claim, Bit
    <3> QED BY <1>0, <1>q, <3>1, <3>2, <3>3, <3>4, <3>5, <3>6
  <2>2. CASE TakeKick
    <3>1. kicks' = kicks - 1 /\ handling = 0 /\ handling' = 1
      BY <2>2 DEF TakeKick, Bit, HandlingKick, Submitting
    <3>2. UNCHANGED <<gate, reader, abi>>
      BY <2>2 DEF TakeKick
    <3>3. Claim(reader)' = Claim(reader) /\ Claim(abi)' = Claim(abi) /\ Bit(gate)' = Bit(gate)
      BY <3>2
    <3> QED BY <1>0, <1>q, <3>1, <3>3
  <2>3. CASE Disarm
    <3>1. handling = 1 /\ handling' = 0 /\ UNCHANGED <<kicks, reader, abi>> /\ gate' = FALSE
      BY <2>3 DEF Disarm, Goto, Bit, HandlingKick, Submitting
    <3>2. Claim(reader)' = Claim(reader) /\ Claim(abi)' = Claim(abi) /\ Bit(gate)' = 0 /\ Bit(gate) \in {0, 1}
      BY <3>1 DEF Bit
    <3> QED BY <1>0, <1>q, <3>1, <3>2
  <2>4. CASE TakeBlock \/ NoMoreBlocks \/ FormatPaused \/ FormatGoesOn \/ FormatNoBatch
    <3>1. dispatcher \in HandlingKick /\ dispatcher' \in HandlingKick /\ UNCHANGED <<kicks, gate, reader, abi>>
      BY <2>4 DEF TakeBlock, NoMoreBlocks, FormatPaused, FormatGoesOn, FormatNoBatch, Defer, Goto, HandlingKick
    <3>2. handling' = handling
      BY <3>1 DEF Bit
    <3> QED BY <1>s, <3>1, <3>2
  <2>5. CASE FormatEmpty \/ PushReady \/ CountReady
    <3>1. dispatcher \in HandlingKick /\ dispatcher' \in HandlingKick /\ UNCHANGED <<kicks, gate, reader, abi>>
      BY <2>5 DEF FormatEmpty, PushReady, CountReady, Goto, HandlingKick
    <3>2. handling' = handling
      BY <3>1 DEF Bit
    <3> QED BY <1>s, <3>1, <3>2
  <2>6. CASE Recheck
    <3>1. /\ dispatcher \notin HandlingKick \cup Submitting /\ dispatcher' \notin HandlingKick \cup Submitting
          /\ UNCHANGED <<kicks, gate, reader, abi>>
      BY <2>6 DEF Recheck, Goto, HandlingKick, Submitting
    <3>2. handling' = handling
      BY <3>1 DEF Bit
    <3> QED BY <1>s, <3>1, <3>2
  <2> QED BY <1>2, <2>1, <2>2, <2>3, <2>4, <2>5, <2>6 DEF ReceiveAo
<1>3. CASE SerialAo
  <2>1. /\ dispatcher \notin HandlingKick \cup Submitting /\ dispatcher' \notin HandlingKick \cup Submitting
        /\ UNCHANGED <<kicks, gate, reader, abi>>
    <3>1. CASE OpenSession \/ EndSession("close") \/ EndSession("fault")
      BY <3>1 DEF OpenSession, EndSession, Goto, HandlingKick, Submitting
    <3>2. CASE ReleaseDeferred \/ JoinReader \/ ResetDisplay
      BY <3>2 DEF ReleaseDeferred, JoinReader, ResetDisplay, PublishAfterReset, Goto, HandlingKick, Submitting
    <3> QED BY <1>3, <3>1, <3>2 DEF SerialAo
  <2>2. handling' = handling
    BY <2>1 DEF Bit
  <2> QED BY <1>s, <2>1, <2>2
<1>4. CASE Caller
  <2>1. CASE CallerKick
    <3> DEFINE others == handling + Claim(reader)
    <3>1. others \in Nat /\ Kick(abi, abi') /\ kicks + Claim(abi) + others = Bit(gate)
      BY <1>0, <2>1 DEF CallerKick
    <3>2. kicks' + Claim(abi') + others = Bit(gate')
      BY <1>0, <3>1, KickClaims
    <3>3. handling' = handling /\ Claim(reader)' = Claim(reader) /\ Claim(abi)' = Claim(abi')
      BY <2>1 DEF CallerKick
    <3>4. gate' \in BOOLEAN /\ kicks' \in Nat
      BY <1>0, <3>1, KickPlaces
    <3>5. Claim(abi') \in Nat
      BY DEF Claim, Bit
    <3> QED BY <1>0, <1>q, <3>1, <3>2, <3>3, <3>4, <3>5
  <2>2. ASSUME ~CallerKick
        PROVE  abi \notin Submitting /\ abi' \notin Submitting /\ UNCHANGED <<kicks, gate, dispatcher, reader>>
    <3>1. CASE DropStaleActive \/ NothingReady \/ PopReady
      BY <3>1 DEF DropStaleActive, NothingReady, PopReady, Submitting
    <3>2. CASE CopyPart \/ CopyAll \/ CountDrained \/ DrainCall
      BY <3>2 DEF CopyPart, CopyAll, CountDrained, DrainCall, Submitting
    <3>3. CASE Pause \/ Resume \/ Poll
      BY <3>3 DEF Pause, Resume, Poll, Submitting
    <3>4. CASE OpenCall \/ CloseCall \/ CloseReturns
      BY <3>4 DEF OpenCall, CloseCall, CloseReturns, Submitting
    <3> QED BY <1>4, <2>2, <3>1, <3>2, <3>3, <3>4 DEF Caller, Drain
  <2>3. CASE ~CallerKick
    <3>1. Claim(abi)' = Claim(abi)
      BY <2>2, <2>3 DEF Claim, Submitting
    <3> QED BY <1>s, <2>2, <2>3, <3>1
  <2> QED BY <2>1, <2>3
<1>5. CASE UNCHANGED vars
  BY <1>u, <1>5 DEF vars
<1> QED BY <1>1, <1>2, <1>3, <1>4, <1>5 DEF Next

-----------------------------------------------------------------------------
(* Batches.                                                                *)

\* A batch on the ready ring is a batch, and one appended or taken is one of them.
LEMMA BufsAppend ==
  ASSUME NEW s \in Seq(Desc), NEW d \in Desc
  PROVE  /\ BufsOf(Append(s, d)) = BufsOf(s) \cup {d.buf} /\ d.buf \in Batches
         /\ SegsOf(Append(s, d)) = SegsOf(s) \cup {d.seg} /\ d.seg \in Segment
<1>1. In(Append(s, d)) = In(s) \cup {d}
  BY AppendLemma
<1>2. d.buf \in Batches /\ d.seg \in Segment
  BY DEF Desc
<1> QED BY <1>1, <1>2 DEF BufsOf, SegsOf

\* The ring without its first batch.
LEMMA BufsTail ==
  ASSUME NEW s \in Seq(Desc), s # <<>>
  PROVE  /\ BufsOf(s) = BufsOf(Tail(s)) \cup {Head(s).buf} /\ Head(s).buf \in Batches
         /\ SegsOf(s) = SegsOf(Tail(s)) \cup {Head(s).seg} /\ Head(s).seg \in Segment
<1>1. In(s) = In(Tail(s)) \cup {Head(s)} /\ Head(s) \in Desc
  BY TailLemma
<1>2. Head(s).buf \in Batches /\ Head(s).seg \in Segment
  BY <1>1 DEF Desc
<1> QED BY <1>1, <1>2 DEF BufsOf, SegsOf

\* The consumer holds one batch, when it holds any.
LEMMA BufsOne ==
  ASSUME NEW s \in Seq(Desc), s # <<>>, Len(s) <= 1
  PROVE  /\ BufsOf(s) = {s[1].buf} /\ s[1].buf \in Batches
         /\ SegsOf(s) = {s[1].seg} /\ s[1].seg \in Segment /\ s[1] \in Desc /\ In(s) = {s[1]}
<1>1. Len(s) = 1
  BY ShortLemma
<1>2. In(s) = {s[1]} /\ s[1] \in Desc
  BY <1>1, OneLemma
<1>3. s[1].buf \in Batches /\ s[1].seg \in Segment
  BY <1>2 DEF Desc
<1> QED BY <1>2, <1>3 DEF BufsOf, SegsOf

\* The batch the consumer takes, and an empty place.
LEMMA BufsSingle == \A d : BufsOf(<<d>>) = {d.buf} /\ SegsOf(<<d>>) = {d.seg}
BY DEF BufsOf, SegsOf, In

\* An empty ring has no batches.
LEMMA BufsEmpty == BufsOf(<<>>) = {} /\ SegsOf(<<>>) = {}
BY EmptyLemma DEF BufsOf, SegsOf

\* A batch that was not on the ring is there once when it is pushed.
LEMMA OnceAppend ==
  ASSUME NEW s \in Seq(Desc), NEW d \in Desc, \A i, j \in DOMAIN s : s[i].buf = s[j].buf => i = j,
         d.buf \notin BufsOf(s), NEW t, t = Append(s, d)
  PROVE  \A i, j \in DOMAIN t : t[i].buf = t[j].buf => i = j
<1>1. /\ DOMAIN t = DOMAIN s \cup {Len(s) + 1} /\ \A i \in DOMAIN s : t[i] = s[i]
      /\ t[Len(s) + 1] = d
  BY AppendLemma
<1>2. \A i \in DOMAIN s : t[i].buf # d.buf
  BY <1>1 DEF BufsOf, In
<1> QED BY <1>1, <1>2

\* A batch that is popped is on the ring no longer.
LEMMA OnceTail ==
  ASSUME NEW s \in Seq(Desc), s # <<>>, \A i, j \in DOMAIN s : s[i].buf = s[j].buf => i = j,
         NEW t, t = Tail(s)
  PROVE  (\A i, j \in DOMAIN t : t[i].buf = t[j].buf => i = j) /\ Head(s).buf \notin BufsOf(t)
<1>1. /\ \A i \in DOMAIN t : i + 1 \in DOMAIN s /\ i + 1 # 1 /\ t[i] = s[i + 1]
      /\ 1 \in DOMAIN s /\ s[1] = Head(s) /\ DOMAIN t \subseteq Nat
  BY TailLemma
<1>2. \A i, j \in DOMAIN t : i + 1 = j + 1 => i = j
  BY <1>1
<1>3. \A i \in DOMAIN t : t[i].buf # Head(s).buf
  BY <1>1
<1> QED BY <1>1, <1>2, <1>3 DEF BufsOf, In

\* Every step leaves each batch in one place.
LEMMA BatchesStep == TypeOK /\ PlacesInv /\ BatchesInv /\ [Next]_vars => BatchesInv'
<1> SUFFICES ASSUME FlagsOK, QueuesOK, PlacesInv, OnePlace, OnceReady, [Next]_vars PROVE OnePlace' /\ OnceReady'
  BY TypeParts DEF BatchesInv
<1> USE DEF port, wake, lane, readerT, dispT, abiT, history
<1>0. UNCHANGED <<freeBatches, ready, active>> => OnePlace' /\ OnceReady'
  BY DEF OnePlace, OnceReady
<1>1. CASE Reader
  BY <1>0, <1>1 DEF Reader, ReaderKick, DropForWantOfBlock, PublishToDisplay, PublishToFileOnly, Deliver
<1>2. CASE ReceiveAo
  <2>1. CASE PushReady
    <3>1. PICK d \in Desc : /\ d.buf \in freeBatches
                           /\ ready' = Append(ready, d) /\ freeBatches' = freeBatches \ {d.buf}
      BY <2>1, PushLemma
    <3>2. active' = active
      BY <2>1 DEF PushReady
    <3>3. BufsOf(ready') = BufsOf(ready) \cup {d.buf} /\ d.buf \in Batches
      BY <3>1, BufsAppend DEF QueuesOK
    <3>4. d.buf \notin BufsOf(ready)
      BY <3>1, <3>3 DEF OnePlace, Bit
    <3>5. OnePlace'
      BY <3>1, <3>2, <3>3, <3>4 DEF OnePlace, Bit
    <3>6. OnceReady'
      BY <3>1, <3>4, OnceAppend DEF OnceReady, QueuesOK
    <3> QED BY <3>5, <3>6
  <2>2. CASE ~PushReady
    BY <1>0, <1>2, <2>2 DEF ReceiveAo, TakeKick, TakeBlock, NoMoreBlocks, FormatPaused, FormatGoesOn,
       FormatNoBatch,
       FormatEmpty, CountReady, Disarm, Recheck, DispatcherKick, Defer, Goto
  <2> QED BY <2>1, <2>2
<1>3. CASE SerialAo
  <2>1. CASE ResetDisplay
    <3>1. freeBatches' = freeBatches \cup {ready[i].buf : i \in 1 .. Len(ready)} /\ ready' = <<>> /\ active' = active
      BY <2>1 DEF ResetDisplay
    <3>2. DOMAIN ready = 1 .. Len(ready)
      BY DEF QueuesOK
    <3>3. freeBatches' = freeBatches \cup BufsOf(ready) /\ BufsOf(ready') = {}
      BY <3>1, <3>2, BufsEmpty DEF BufsOf, In
    <3>4. OnePlace'
      BY <3>1, <3>3 DEF OnePlace, Bit
    <3>5. OnceReady'
      BY <3>1 DEF OnceReady
    <3> QED BY <3>4, <3>5
  <2>2. CASE ~ResetDisplay
    BY <1>0, <1>3, <2>2 DEF SerialAo, OpenSession, EndSession, ReleaseDeferred, JoinReader, Goto
  <2> QED BY <2>1, <2>2
<1>4. CASE Caller
  <2>0. active # <<>> => BufsOf(active) = {active[1].buf} /\ active[1].buf \in Batches
    BY BufsOne DEF QueuesOK, PlacesInv
  <2>1. CASE DropStaleActive \/ CopyAll
    <3>1. \/ UNCHANGED <<freeBatches, active, ready>>
          \/ active # <<>> /\ freeBatches' = freeBatches \cup {active[1].buf} /\ active' = <<>> /\ ready' = ready
      BY <2>1 DEF DropStaleActive, CopyAll, PlacesInv
    <3>2. CASE UNCHANGED <<freeBatches, active, ready>>
      BY <1>0, <3>2
    <3>3. CASE active # <<>> /\ freeBatches' = freeBatches \cup {active[1].buf} /\ active' = <<>> /\ ready' = ready
      <4>1. BufsOf(active') = {} /\ BufsOf(active) = {active[1].buf}
        BY <2>0, <3>3, BufsEmpty
      <4>2. OnePlace'
        BY <3>3, <4>1 DEF OnePlace, Bit
      <4> QED BY <3>3, <4>2 DEF OnceReady
    <3> QED BY <3>1, <3>2, <3>3
  <2>2. CASE PopReady
    <3>1. active = <<>> /\ ready # <<>> /\ ready' = Tail(ready) /\ ready \in Seq(Desc)
      BY <2>2 DEF PopReady, PlacesInv, QueuesOK
    <3>2. /\ BufsOf(ready) = BufsOf(ready') \cup {Head(ready).buf} /\ Head(ready).buf \in Batches
          /\ BufsOf(active) = {}
      BY <3>1, BufsTail, BufsEmpty
    <3>3. OnceReady' /\ Head(ready).buf \notin BufsOf(ready')
      BY <3>1, OnceTail DEF OnceReady
    <3>4. \/ active' = <<Head(ready)>> /\ freeBatches' = freeBatches
          \/ active' = active /\ freeBatches' = freeBatches \cup {Head(ready).buf}
      BY <2>2 DEF PopReady
    <3>5. \/ BufsOf(active') = {Head(ready).buf} /\ freeBatches' = freeBatches
          \/ BufsOf(active') = {} /\ freeBatches' = freeBatches \cup {Head(ready).buf}
      BY <3>2, <3>4, BufsSingle
    <3>6. OnePlace'
      BY <3>2, <3>3, <3>5 DEF OnePlace, Bit
    <3> QED BY <3>3, <3>6
  <2>3. CASE NothingReady \/ CopyPart \/ CallerKick \/ DrainCall \/ Pause \/ CountDrained
    BY <1>0, <2>3 DEF NothingReady, CopyPart, CallerKick, DrainCall, Pause, CountDrained
  <2>4. CASE Resume \/ Poll \/ OpenCall \/ CloseCall \/ CloseReturns
    BY <1>0, <2>4 DEF Resume, Poll, OpenCall, CloseCall, CloseReturns
  <2> QED BY <1>4, <2>1, <2>2, <2>3, <2>4 DEF Caller, Drain
<1>5. CASE UNCHANGED vars
  BY <1>0, <1>5 DEF vars
<1> QED BY <1>1, <1>2, <1>3, <1>4, <1>5 DEF Next

-----------------------------------------------------------------------------
(* The ids of the segments with no file lane.                              *)

\* The places of the segments with no file lane, and which of them a place is.
Lost(segs) == {i \in DOMAIN segs : segs[i].unlogged}
Rank(places, i) == Cardinality({j \in places : j <= i})

\* Ranks number the elements of a finite set of numbers.
LEMMA RankLemma ==
  ASSUME NEW lost, IsFiniteSet(lost), lost \subseteq Nat
  PROVE  /\ Cardinality(lost) \in Nat
         /\ \A i \in lost : Rank(lost, i) \in 1 .. Cardinality(lost)
         /\ \A i, j \in lost : Rank(lost, i) = Rank(lost, j) => i = j
         /\ \A n \in 1 .. Cardinality(lost) : \E i \in lost : Rank(lost, i) = n
<1> DEFINE upTo(i) == {j \in lost : j <= i}
<1>0. \A i \in lost : i \in Nat
  OBVIOUS
<1>1. Cardinality(lost) \in Nat
  BY FS_CardinalityType
<1>2. ASSUME NEW i \in lost
      PROVE  IsFiniteSet(upTo(i)) /\ Rank(lost, i) \in Nat /\ Rank(lost, i) <= Cardinality(lost)
             /\ Rank(lost, i) # 0
  <2>1. upTo(i) \in SUBSET lost /\ i \in upTo(i)
    OBVIOUS
  <2>2. IsFiniteSet(upTo(i)) /\ Cardinality(upTo(i)) <= Cardinality(lost)
    BY <2>1, FS_Subset
  <2>3. Cardinality(upTo(i)) \in Nat /\ Cardinality(upTo(i)) # 0
    BY <2>1, <2>2, FS_CardinalityType, FS_EmptySet
  <2> QED BY <2>2, <2>3 DEF Rank
<1>3. ASSUME NEW i \in lost, NEW j \in lost, i < j PROVE Rank(lost, i) # Rank(lost, j)
  <2>1. \A z \in lost : z <= i => z <= j
    BY <1>0, <1>3
  <2>3. i \in Nat /\ j \in Nat /\ ~(j <= i) /\ j <= j
    BY <1>0, <1>3
  <2>4. upTo(i) \in SUBSET upTo(j) /\ j \in upTo(j) /\ j \notin upTo(i)
    BY <2>1, <2>3
  <2>2. Cardinality(upTo(j)) = Cardinality(upTo(i)) => upTo(j) = upTo(i)
    BY <2>4, <1>2, FS_Subset
  <2> QED BY <2>4, <2>2 DEF Rank
<1>4. \A i, j \in lost : Rank(lost, i) = Rank(lost, j) => i = j
  <2> SUFFICES ASSUME NEW i \in lost, NEW j \in lost, Rank(lost, i) = Rank(lost, j) PROVE i = j
    OBVIOUS
  <2>1. i < j \/ j < i \/ i = j
    BY <1>0
  <2> QED BY <2>1, <1>3
<1> HIDE DEF upTo
<1> DEFINE ranks == {Rank(lost, i) : i \in lost}
<1> DEFINE f == [i \in lost |-> Rank(lost, i)]
<1>5. IsFiniteSet(ranks) /\ Cardinality(ranks) = Cardinality(lost)
  <2>1. f \in [lost -> ranks] /\ \A i \in lost : f[i] = Rank(lost, i)
    OBVIOUS
  <2>2. f \in Injection(lost, ranks)
    BY <2>1, <1>4 DEF Injection, IsInjective
  <2>3. f \in Surjection(lost, ranks)
    BY <2>1 DEF Surjection
  <2>4. ExistsBijection(lost, ranks)
    BY <2>2, <2>3 DEF ExistsBijection, Bijection
  <2> QED BY <2>4, FS_Bijection
<1>6. /\ IsFiniteSet(1 .. Cardinality(lost)) /\ ranks \in SUBSET (1 .. Cardinality(lost))
      /\ Cardinality(1 .. Cardinality(lost)) = Cardinality(lost)
  <2>1. /\ IsFiniteSet(1 .. Cardinality(lost))
        /\ Cardinality(1 .. Cardinality(lost)) =
             IF 1 > Cardinality(lost) THEN 0 ELSE Cardinality(lost) - 1 + 1
    BY <1>1, FS_Interval
  <2>2. \A i \in lost : Rank(lost, i) \in 1 .. Cardinality(lost)
    BY <1>1, <1>2
  <2> QED BY <1>1, <2>1, <2>2
<1>7. ranks = 1 .. Cardinality(lost)
  BY <1>5, <1>6, FS_Subset
<1> QED BY <1>1, <1>2, <1>4, <1>7

\* Unlogged has the ids of those segments and nothing else, each from a place of its own.
LEMMA UnloggedLemma ==
  ASSUME NEW s \in Seq(Segment)
  PROVE  /\ Unlogged(s) \in Seq(Nat)
         /\ In(Unlogged(s)) = {p.id : p \in {q \in In(s) : q.unlogged}}
         /\ \A k, l \in DOMAIN Unlogged(s) : Unlogged(s)[k] = Unlogged(s)[l] =>
              \/ k = l
              \/ \E i, j \in Lost(s) : i # j /\ s[i].id = s[j].id
<1> DEFINE lost == Lost(s)
<1> DEFINE nth(n) == CHOOSE i \in lost : Rank(lost, i) = n
<1> DEFINE count == Cardinality(lost)
<1>1. DOMAIN s = 1 .. Len(s) /\ Len(s) \in Nat /\ \A i \in DOMAIN s : s[i].id \in Nat
  <2>1. DOMAIN s = 1 .. Len(s) /\ Len(s) \in Nat /\ \A i \in DOMAIN s : s[i] \in Segment
    OBVIOUS
  <2> QED BY <2>1 DEF Segment
<1>2. IsFiniteSet(lost) /\ lost \subseteq Nat /\ lost \subseteq DOMAIN s
  <2>1. lost \in SUBSET (1 .. Len(s)) /\ 1 \in Int /\ Len(s) \in Int
    BY <1>1 DEF Lost
  <2>2. IsFiniteSet(1 .. Len(s))
    BY <2>1, FS_Interval
  <2>3. IsFiniteSet(lost)
    BY <2>1, <2>2, FS_Subset
  <2>4. 1 .. Len(s) \subseteq Nat
    BY <1>1
  <2> QED BY <1>1, <2>1, <2>3, <2>4
<1>3. Unlogged(s) = [n \in 1 .. count |-> s[nth(n)].id]
  BY DEF Unlogged, Lost, Rank
<1>4. /\ count \in Nat /\ \A i \in lost : Rank(lost, i) \in 1 .. count
      /\ \A i, j \in lost : Rank(lost, i) = Rank(lost, j) => i = j
      /\ \A n \in 1 .. count : \E i \in lost : Rank(lost, i) = n
  BY <1>2, RankLemma
<1> HIDE DEF lost, count
<1>5. \A n \in 1 .. count : nth(n) \in lost /\ Rank(lost, nth(n)) = n
  BY <1>4
<1>6. \A i \in lost : nth(Rank(lost, i)) = i
  BY <1>4, <1>5
<1> HIDE DEF nth
<1>7. /\ DOMAIN Unlogged(s) = 1 .. count
      /\ \A n \in 1 .. count : Unlogged(s)[n] = s[nth(n)].id /\ s[nth(n)].id \in Nat
  BY <1>1, <1>2, <1>3, <1>5
<1>8. Unlogged(s) \in Seq(Nat)
  <2>1. [n \in 1 .. count |-> s[nth(n)].id] \in Seq(Nat)
    BY <1>4, <1>7
  <2> QED BY <2>1, <1>3
<1>9. In(Unlogged(s)) = {p.id : p \in {q \in In(s) : q.unlogged}}
  <2>1. ASSUME NEW n \in 1 .. count PROVE Unlogged(s)[n] \in {p.id : p \in {q \in In(s) : q.unlogged}}
    <3>1. nth(n) \in DOMAIN s /\ s[nth(n)].unlogged
      BY <1>2, <1>5 DEF lost, Lost
    <3>2. s[nth(n)] \in In(s)
      BY <3>1 DEF In
    <3> QED BY <3>1, <3>2, <1>7
  <2>2. ASSUME NEW q \in In(s), q.unlogged PROVE q.id \in In(Unlogged(s))
    <3>1. PICK i \in DOMAIN s : s[i] = q
      BY DEF In
    <3>2. i \in lost
      BY <2>2, <3>1 DEF lost, Lost
    <3>3. Rank(lost, i) \in 1 .. count /\ Unlogged(s)[Rank(lost, i)] = q.id
      BY <1>4, <1>6, <1>7, <3>1, <3>2
    <3> QED BY <3>3, <1>7 DEF In
  <2>3. In(Unlogged(s)) \subseteq {p.id : p \in {q \in In(s) : q.unlogged}}
    BY <2>1, <1>7 DEF In
  <2> QED BY <2>2, <2>3
<1>10. ASSUME NEW k \in DOMAIN Unlogged(s), NEW l \in DOMAIN Unlogged(s), Unlogged(s)[k] = Unlogged(s)[l], k # l
       PROVE  \E i, j \in Lost(s) : i # j /\ s[i].id = s[j].id
  <2>1. nth(k) \in lost /\ nth(l) \in lost /\ nth(k) # nth(l) /\ s[nth(k)].id = s[nth(l)].id
    BY <1>5, <1>7, <1>10
  <2> QED BY <2>1 DEF lost
<1> QED BY <1>8, <1>9, <1>10

\* A sequence continued with another has the elements of both.
LEMMA InConcat ==
  ASSUME NEW S, NEW s \in Seq(S), NEW t \in Seq(S)
  PROVE  s \o t \in Seq(S) /\ In(s \o t) = In(s) \cup In(t)
<1>1. /\ s \o t \in Seq(S) /\ Len(s \o t) = Len(s) + Len(t) /\ Len(s) \in Nat /\ Len(t) \in Nat
      /\ \A i \in 1 .. Len(s \o t) : (s \o t)[i] = IF i <= Len(s) THEN s[i] ELSE t[i - Len(s)]
  BY ConcatProperties
<1> DEFINE u == s \o t
<1>2. DOMAIN u = 1 .. (Len(s) + Len(t)) /\ DOMAIN s = 1 .. Len(s) /\ DOMAIN t = 1 .. Len(t)
  BY <1>1
<1>3. \A i \in 1 .. (Len(s) + Len(t)) : u[i] = IF i <= Len(s) THEN s[i] ELSE t[i - Len(s)]
  BY <1>1
<1> HIDE DEF u
<1>4. ASSUME NEW i \in DOMAIN u PROVE u[i] \in In(s) \cup In(t)
  <2>1. CASE i <= Len(s)
    BY <1>1, <1>2, <1>3, <2>1 DEF In
  <2>2. CASE ~(i <= Len(s))
    <3>1. i - Len(s) \in DOMAIN t /\ u[i] = t[i - Len(s)]
      BY <1>1, <1>2, <1>3, <2>2
    <3> QED BY <3>1 DEF In
  <2> QED BY <2>1, <2>2
<1>5. ASSUME NEW i \in DOMAIN s PROVE s[i] \in In(u)
  <2>1. i \in DOMAIN u /\ u[i] = s[i]
    BY <1>1, <1>2, <1>3
  <2> QED BY <2>1 DEF In
<1>6. ASSUME NEW i \in DOMAIN t PROVE t[i] \in In(u)
  <2>1. i + Len(s) \in DOMAIN u /\ u[i + Len(s)] = t[i]
    BY <1>1, <1>2, <1>3
  <2> QED BY <2>1 DEF In
<1>7. In(u) = In(s) \cup In(t)
  BY <1>4, <1>5, <1>6 DEF In
<1> QED BY <1>1, <1>7 DEF u

\* So has a ledger.
LEMMA LedgerConcat ==
  ASSUME NEW s \in Seq(Nat), NEW t \in Seq(Nat)
  PROVE  s \o t \in Seq(Nat) /\ In(s \o t) = In(s) \cup In(t)
BY InConcat

\* The entries of the ledger a step adds.
LEMMA NewLemma ==
  ASSUME NEW s \in Seq(Nat), NEW t \in Seq(Nat)
  PROVE  SubSeq(s \o t, Len(s) + 1, Len(s \o t)) = t
<1> DEFINE w == s \o t
           m == Len(s) + 1
           n == Len(w)
           u == SubSeq(w, m, n)
<1>1. /\ w \in Seq(Nat) /\ Len(w) = Len(s) + Len(t)
      /\ \A i \in 1 .. Len(s) + Len(t) : w[i] = IF i <= Len(s) THEN s[i] ELSE t[i - Len(s)]
  BY ConcatProperties
<1> HIDE DEF w
<1>2. Len(s) \in Nat /\ Len(t) \in Nat
  OBVIOUS
<1>3. m \in Int /\ n \in Int /\ n = Len(s) + Len(t) /\ 1 <= m /\ n = Len(w)
  BY <1>1, <1>2
<1>4. n - m + 1 = Len(t) /\ (IF m <= n THEN n - m + 1 ELSE 0) = Len(t)
  BY <1>2, <1>3
<1> HIDE DEF m, n
<1>5. ASSUME NEW i \in m .. n PROVE w[i] \in Nat
  <2>1. i \in 1 .. Len(w)
    BY <1>3
  <2> QED BY <1>1, <2>1
<1>6. /\ u \in Seq(Nat) /\ Len(u) = (IF m <= n THEN n - m + 1 ELSE 0)
      /\ \A i \in 1 .. n - m + 1 : u[i] = w[m + i - 1]
  BY <1>3, <1>5, SubSeqProperties
<1> HIDE DEF u
<1>7. Len(u) = Len(t) /\ \A i \in 1 .. Len(t) : u[i] = w[m + i - 1]
  BY <1>4, <1>6
<1>8. ASSUME NEW i \in 1 .. Len(t) PROVE w[m + i - 1] = t[i]
  <2>1. m + i - 1 = Len(s) + i
    BY <1>2 DEF m
  <2> DEFINE k == Len(s) + i
  <2>2. k \in 1 .. Len(s) + Len(t) /\ ~(k <= Len(s)) /\ k - Len(s) = i
    BY <1>2
  <2> HIDE DEF k
  <2>3. w[k] = IF k <= Len(s) THEN s[k] ELSE t[k - Len(s)]
    BY <1>1, <2>2
  <2>4. w[k] = t[i]
    BY <2>2, <2>3
  <2> QED BY <2>1, <2>4 DEF k
<1>9. \A i \in 1 .. Len(u) : u[i] = t[i]
  BY <1>7, <1>8
<1>10. u = t
  BY <1>6, <1>7, <1>9, SeqEqual
<1> QED BY <1>10 DEF u, w, m, n

\* The segments of the ready batches, as the reset charges them.
LEMMA ReadySegs ==
  ASSUME QueuesOK
  PROVE  LET segs == [i \in 1 .. Len(ready) |-> ready[i].seg] IN
         /\ segs \in Seq(Segment) /\ In(segs) = SegsOf(ready)
         /\ DOMAIN segs = DOMAIN ready /\ \A i \in DOMAIN ready : segs[i] = ready[i].seg
<1> DEFINE segs == [i \in 1 .. Len(ready) |-> ready[i].seg]
<1>1. Len(ready) \in Nat /\ DOMAIN ready = 1 .. Len(ready) /\ \A i \in 1 .. Len(ready) : ready[i] \in Desc
  BY DEF QueuesOK
<1>2. \A i \in 1 .. Len(ready) : ready[i].seg \in Segment
  BY <1>1 DEF Desc
<1>3. segs \in Seq(Segment)
  BY <1>1, <1>2
<1>4. DOMAIN segs = DOMAIN ready /\ \A i \in DOMAIN ready : segs[i] = ready[i].seg
  BY <1>1
<1> HIDE DEF segs
<1>5. In(segs) = SegsOf(ready)
  BY <1>4 DEF In, SegsOf
<1>6. /\ segs \in Seq(Segment) /\ In(segs) = SegsOf(ready) /\ DOMAIN segs = DOMAIN ready
      /\ \A i \in DOMAIN ready : segs[i] = ready[i].seg
  BY <1>3, <1>4, <1>5
<1> QED BY <1>6 DEF segs

\* Every step keeps the ledgers sequences of ids.
LEMMA LedgersStep == TypeOK /\ PlacesInv /\ [Next]_vars => LedgersOK'
<1> SUFFICES ASSUME FlagsOK, QueuesOK, LedgersOK, PlacesInv, [Next]_vars PROVE LedgersOK'
  BY TypeParts
<1> USE DEF port, wake, lane, readerT, dispT, abiT, history
<1>0. UNCHANGED <<unlogged, shown, charged, blank>> => LedgersOK'
  BY DEF LedgersOK
<1>1. CASE Reader
  <2>1. CASE ReaderKick \/ PublishToDisplay \/ PublishToFileOnly
    BY <1>0, <2>1 DEF ReaderKick, PublishToDisplay, PublishToFileOnly
  <2>2. CASE DropForWantOfBlock \/ \E kind \in {"logged", "unlogged"} : Deliver(kind)
    <3>1. received \in Nat /\ received + 1 \in Nat
      BY DEF FlagsOK
    <3>2. Append(charged, received) \in Seq(Nat) /\ Append(charged, received + 1) \in Seq(Nat)
      BY <3>1 DEF LedgersOK
    <3>3. unlogged \cup {received + 1} \in SUBSET Nat
      BY <3>1 DEF LedgersOK
    <3>4. UNCHANGED <<shown, blank>>
      BY <2>2 DEF DropForWantOfBlock, Deliver
    <3>5. charged' \in Seq(Nat)
      BY <2>2, <3>2 DEF DropForWantOfBlock, Deliver, LedgersOK
    <3>6. unlogged' \in SUBSET Nat
      BY <2>2, <3>3 DEF DropForWantOfBlock, Deliver, LedgersOK
    <3> QED BY <3>4, <3>5, <3>6 DEF LedgersOK
  <2> QED BY <1>1, <2>1, <2>2 DEF Reader
<1>2. CASE ReceiveAo
  <2>1. CASE FormatEmpty
    <3>1. current[1] \in Segment
      <4>1. current # <<>> /\ Len(current) <= 1 /\ current \in Seq(Segment)
        BY <2>1 DEF FormatEmpty, PlacesInv, QueuesOK
      <4> QED BY <4>1
    <3>2. current[1].id \in Nat
      BY <3>1 DEF Segment
    <3> QED BY <2>1, <3>2 DEF FormatEmpty, Goto, LedgersOK
  <2>2. CASE ~FormatEmpty
    BY <1>0, <1>2, <2>2 DEF ReceiveAo, TakeKick, TakeBlock, NoMoreBlocks, FormatPaused, FormatGoesOn,
       FormatNoBatch,
       PushReady, CountReady, Disarm, Recheck, DispatcherKick, Defer, Goto
  <2> QED BY <2>1, <2>2
<1>3. CASE SerialAo
  <2>0. ASSUME NEW segs \in Seq(Segment), Charge(segs) PROVE charged' \in Seq(Nat)
    BY <2>0, UnloggedLemma, LedgerConcat DEF Charge, LedgersOK
  <2>1. CASE ReleaseDeferred
    <3>1. charged' \in Seq(Nat)
      BY <2>0, <2>1 DEF ReleaseDeferred, QueuesOK
    <3> QED BY <2>1, <3>1 DEF ReleaseDeferred, LedgersOK
  <2>2. CASE ResetDisplay
    <3>1. [i \in 1 .. Len(ready) |-> ready[i].seg] \in Seq(Segment)
      BY ReadySegs
    <3>2. charged' \in Seq(Nat)
      BY <2>0, <2>2, <3>1 DEF ResetDisplay, Retired
    <3> QED BY <2>2, <3>2 DEF ResetDisplay, LedgersOK
  <2>3. CASE OpenSession \/ EndSession("close") \/ EndSession("fault") \/ JoinReader
    BY <1>0, <2>3 DEF OpenSession, EndSession, JoinReader, Goto
  <2> QED BY <1>3, <2>1, <2>2, <2>3 DEF SerialAo
<1>4. CASE Caller
  <2>1. CASE CopyAll
    <3>1. active[1].seg.id \in Nat
      <4>1. active # <<>> /\ Len(active) <= 1 /\ active \in Seq(Desc)
        BY <2>1 DEF CopyAll, PlacesInv, QueuesOK
      <4>2. active[1].seg \in Segment
        BY <4>1, BufsOne
      <4> QED BY <4>2 DEF Segment
    <3>2. Append(shown, active[1].seg.id) \in Seq(Nat)
      BY <3>1 DEF LedgersOK
    <3> QED BY <2>1, <3>2 DEF CopyAll, LedgersOK
  <2>2. CASE DropStaleActive \/ NothingReady \/ PopReady \/ CopyPart \/ CountDrained \/ CallerKick
    BY <1>0, <2>2 DEF DropStaleActive, NothingReady, PopReady, CopyPart, CountDrained, CallerKick
  <2>3. CASE DrainCall \/ Pause \/ Resume \/ Poll \/ OpenCall \/ CloseCall \/ CloseReturns
    BY <1>0, <2>3 DEF DrainCall, Pause, Resume, Poll, OpenCall, CloseCall, CloseReturns
  <2> QED BY <1>4, <2>1, <2>2, <2>3 DEF Caller, Drain
<1>5. CASE UNCHANGED vars
  BY <1>0, <1>5 DEF vars
<1> QED BY <1>1, <1>2, <1>3, <1>4, <1>5 DEF Next

\* What holds whatever the client's buffer and its patience.
LaneInv == TypeOK /\ PlacesInv /\ OneWake /\ BatchesInv

\* Every step keeps the invariant of the lane.
LEMMA LaneStep == LaneInv /\ [Next]_vars => LaneInv'
<1>1. TypeOK' <=> FlagsOK' /\ QueuesOK' /\ LedgersOK'
  BY DEF TypeOK, FlagsOK, QueuesOK, LedgersOK
<1> QED BY <1>1, FlagsStep, QueuesStep, LedgersStep, PlacesStep, WakeStep, BatchesStep DEF LaneInv

\* It holds at the start.
LEMMA LaneInit == Init => LaneInv
<1> SUFFICES ASSUME Init PROVE LaneInv
  OBVIOUS
<1>1. FlagsOK
  <2>1. gate \in BOOLEAN /\ paused \in BOOLEAN /\ watching \in BOOLEAN
    BY DEF Init
  <2>2. rounds \in 0 .. KickBlocks
    BY RxDisplayAssumption DEF Init
  <2> QED BY <2>1, <2>2 DEF Init, FlagsOK
<1>2. QueuesOK /\ LedgersOK
  BY EmptyLemma DEF Init, QueuesOK, LedgersOK
<1>3. PlacesInv
  BY DEF Init, PlacesInv
<1>4. OneWake
  BY DEF Init, OneWake, Bit, HandlingKick, Submitting
<1>5. BatchesInv
  BY BufsEmpty DEF Init, BatchesInv, OnePlace, OnceReady, Bit
<1> QED BY <1>1, <1>2, <1>3, <1>4, <1>5, TypeParts DEF LaneInv

\* So it always holds.
LEMMA LaneAlways == Spec => []LaneInv
BY LaneInit, LaneStep, PTL DEF Spec

\* Whatever is done to the display, every batch is in one place.
LEMMA BatchesLemma == LaneInv => BatchesConserved
<1> SUFFICES ASSUME LaneInv PROVE BatchesConserved
  OBVIOUS
<1>1. ready \in Seq(Desc) /\ active \in Seq(Desc) /\ Len(active) <= 1 /\ freeBatches \subseteq Batches
  BY DEF LaneInv, TypeOK, PlacesInv
<1>2. OnePlace /\ OnceReady
  BY DEF LaneInv, BatchesInv
<1>3. /\ Descs \in Seq(Desc) /\ Len(Descs) = Len(ready) + Len(active) /\ Len(ready) \in Nat /\ Len(active) \in {0, 1}
      /\ \A i \in 1 .. Len(Descs) : Descs[i] = IF i <= Len(ready) THEN ready[i] ELSE active[i - Len(ready)]
  <2>1. Len(active) \in Nat
    BY <1>1
  <2>2. \A n \in Nat : n <= 1 => n \in {0, 1}
    OBVIOUS
  <2>5. Len(active) <= 1 /\ Len(ready) \in Nat
    BY <1>1
  <2> DEFINE n == Len(active)
  <2> HIDE DEF n
  <2>6. n \in {0, 1}
    BY <2>1, <2>2, <2>5 DEF n
  <2>3. Len(active) \in {0, 1} /\ Len(ready) \in Nat
    BY <2>5, <2>6 DEF n
  <2>4. /\ Descs \in Seq(Desc) /\ Len(Descs) = Len(ready) + Len(active)
        /\ \A i \in 1 .. Len(Descs) : Descs[i] = IF i <= Len(ready) THEN ready[i] ELSE active[i - Len(ready)]
    BY <1>1, ConcatProperties DEF Descs
  <2> QED BY <2>3, <2>4
<1>4. DOMAIN ready = 1 .. Len(ready) /\ DOMAIN active = 1 .. Len(active)
  BY <1>1
<1>5. \A i \in 1 .. Len(Descs) :
        \/ i \in DOMAIN ready /\ Descs[i] = ready[i] /\ Descs[i].buf \in BufsOf(ready)
        \/ i = Len(ready) + 1 /\ Len(active) = 1 /\ Descs[i] = active[1] /\ Descs[i].buf \in BufsOf(active)
  BY <1>3, <1>4 DEF BufsOf, In
<1>6. ASSUME NEW d \in In(ready) \cup In(active) PROVE \E i \in 1 .. Len(Descs) : Descs[i] = d
  <2>1. CASE d \in In(ready)
    <3>1. PICK i \in DOMAIN ready : ready[i] = d
      BY <2>1 DEF In
    <3> QED BY <1>3, <1>4, <3>1
  <2>2. CASE d \in In(active)
    <3>1. PICK i \in DOMAIN active : active[i] = d
      BY <2>2 DEF In
    <3>2. i = 1 /\ Len(active) = 1
      BY <1>3, <1>4, <3>1
    <3>3. Len(ready) + 1 \in 1 .. Len(Descs) /\ Descs[Len(ready) + 1] = active[1]
      BY <1>3, <3>2
    <3> QED BY <3>1, <3>2, <3>3
  <2> QED BY <2>1, <2>2
<1>7. {Descs[i].buf : i \in 1 .. Len(Descs)} = BufsOf(ready) \cup BufsOf(active)
  BY <1>5, <1>6 DEF BufsOf
<1>8. BufsOf(ready) \cup BufsOf(active) \subseteq Batches
  <2>1. \A d \in In(ready) \cup In(active) : d \in Desc
    BY <1>1 DEF In
  <2> QED BY <2>1 DEF BufsOf, Desc
<1>9. freeBatches \cup {Descs[i].buf : i \in 1 .. Len(Descs)} = Batches
  BY <1>1, <1>2, <1>7, <1>8 DEF OnePlace, Bit
<1>10. \A i \in 1 .. Len(Descs) : Descs[i].buf \notin freeBatches
  BY <1>2, <1>7, <1>8 DEF OnePlace, Bit
<1>11. \A b \in BufsOf(ready) : b \notin BufsOf(active)
  BY <1>2, <1>8 DEF OnePlace, Bit
<1>12. \A i, j \in 1 .. Len(Descs) : Descs[i].buf = Descs[j].buf => i = j
  BY <1>2, <1>5, <1>11 DEF OnceReady
<1> QED BY <1>9, <1>10, <1>12 DEF BatchesConserved

-----------------------------------------------------------------------------
(* The order on the way to the screen.                                     *)

\* Segments leave the line, and nothing is entered.
LEMMA Fewer ==
  ASSUME StreamInv, ReadyInOrder', RingInOrder', SegsOf(active)' \subseteq SegsOf(active),
         SegsOf(ready)' \subseteq SegsOf(ready), Waiting' \subseteq Waiting, In(ring)' \subseteq In(ring),
         UNCHANGED <<shown, charged, received, unlogged>>, reader' = "publish" => reader = "publish"
  PROVE  StreamInv'
<1>1. InOrder'
  BY DEF StreamInv, InOrder, Ahead
<1>2. OnWay' \subseteq OnWay
  BY DEF OnWay
<1>3. Held' \subseteq Held
  BY DEF Held
<1>4. LedgerInv'
  BY <1>2, <1>3 DEF StreamInv, LedgerInv
<1> QED BY <1>1, <1>4 DEF StreamInv

\* Segments are given up that were on their way: those with no file lane are charged.
Gives(segs) ==
  /\ segs \in Seq(Segment) /\ In(segs) \subseteq OnWay
  /\ \A i, j \in DOMAIN segs : i < j => segs[i].id < segs[j].id
  /\ \A s \in In(segs), t \in OnWay' : s.id # t.id
  /\ Charge(segs) /\ OnWay' \subseteq OnWay
  /\ UNCHANGED <<shown, received, unlogged, reader>>

\* What a ledger entry adds is new to it and to the screen, and once there.
LEMMA GivenUp ==
  ASSUME LedgersOK, LedgerInv, NEW segs, Gives(segs)
  PROVE  /\ Unlogged(segs) \in Seq(Nat) /\ charged' = charged \o Unlogged(segs)
         /\ \A id \in In(Unlogged(segs)) : id \in 1 .. received \ (In(shown) \cup In(charged))
         /\ \A i, j \in DOMAIN Unlogged(segs) : Unlogged(segs)[i] = Unlogged(segs)[j] => i = j
         /\ LedgerInv'
<1>1. /\ Unlogged(segs) \in Seq(Nat)
      /\ In(Unlogged(segs)) = {p.id : p \in {q \in In(segs) : q.unlogged}}
      /\ \A k, l \in DOMAIN Unlogged(segs) : Unlogged(segs)[k] = Unlogged(segs)[l] =>
           k = l \/ \E i, j \in Lost(segs) : i # j /\ segs[i].id = segs[j].id
  BY UnloggedLemma DEF Gives
<1> DEFINE lost == Unlogged(segs)
<1>2. charged' = charged \o lost
  BY DEF Gives, Charge
<1> HIDE DEF lost
<1>3. charged' \in Seq(Nat) /\ In(charged') = In(charged) \cup In(lost)
  BY <1>1, <1>2, LedgerConcat DEF LedgersOK, lost
<1>4. \A p \in In(segs) : p.id \in 1 .. received \ (Held \cup In(charged))
  BY DEF Gives, LedgerInv
<1>5. ASSUME NEW id \in In(lost) PROVE id \in 1 .. received \ (Held \cup In(shown) \cup In(charged))
  <2>1. PICK p \in In(segs) : p.id = id
    BY <1>1 DEF lost
  <2>2. p \in OnWay /\ id \in 1 .. received \ (Held \cup In(charged))
    BY <1>4, <2>1 DEF Gives
  <2>3. \A w \in In(shown) : w < id /\ w \in Nat
    BY <2>1, <2>2 DEF LedgerInv, LedgersOK
  <2>4. id \notin In(shown)
    BY <2>2, <2>3
  <2> QED BY <2>2, <2>4
<1>6. \A i, j \in DOMAIN lost : lost[i] = lost[j] => i = j
  <2>1. ASSUME NEW i \in Lost(segs), NEW j \in Lost(segs), i # j PROVE segs[i].id # segs[j].id
    <3>1. i \in DOMAIN segs /\ j \in DOMAIN segs /\ i \in Nat /\ j \in Nat /\ segs[i] \in Segment /\ segs[j] \in Segment
      BY DEF Lost, Gives
    <3>2. segs[i].id \in Nat /\ segs[j].id \in Nat /\ (i < j \/ j < i)
      BY <2>1, <3>1 DEF Segment
    <3>3. segs[i].id < segs[j].id \/ segs[j].id < segs[i].id
      BY <3>1, <3>2 DEF Gives
    <3> QED BY <3>2, <3>3
  <2> QED BY <1>1, <2>1 DEF lost
<1>7. LedgerInv'
  <2>1. Held' = Held /\ shown' = shown /\ received' = received /\ unlogged' = unlogged
    BY DEF Gives, Held
  <2>2. In(shown)' \cup In(charged)' \subseteq 1 .. received' \ Held'
    BY <1>3, <1>5, <2>1 DEF LedgerInv
  <2>3. \A s \in OnWay' : s.id \in 1 .. received' \ (Held' \cup In(charged'))
    <3>1. \A s \in OnWay' : s.id \notin In(lost)
      BY <1>1 DEF Gives, lost
    <3> QED BY <1>3, <2>1, <3>1 DEF LedgerInv, Gives
  <2>4. \A s \in OnWay' : \A id \in In(shown') : id < s.id
    BY <2>1 DEF LedgerInv, Gives
  <2>5. reader' = "publish" => received' # 0
    BY <2>1 DEF LedgerInv, Gives
  <2> QED BY <2>1, <2>2, <2>3, <2>4, <2>5 DEF LedgerInv
<1> QED BY <1>1, <1>2, <1>5, <1>6, <1>7 DEF lost

\* A step that continues the ledger with new entries is one of the stream.
LEMMA ExtendsStep ==
  ASSUME LedgersOK, NEW lost \in Seq(Nat), charged' = charged \o lost, shown' = shown,
         \A id \in In(lost) : id \in 1 .. received' \ (In(shown) \cup In(charged)),
         \A i, j \in DOMAIN lost : lost[i] = lost[j] => i = j,
         received' = received \/ received' = received + 1
  PROVE  Stream!Next
<1>1. Stream!NewEntries = lost
  BY NewLemma DEF Stream!NewEntries, LedgersOK
<1>2. /\ DOMAIN lost = 1 .. Len(lost) /\ DOMAIN shown = 1 .. Len(shown) /\ DOMAIN charged = 1 .. Len(charged)
  BY DEF LedgersOK
<1>3. Stream!Members(charged) = In(charged) /\ Stream!Members(shown) = In(shown)
  BY <1>2 DEF Stream!Members, In
<1>4. \A i \in 1 .. Len(lost) : lost[i] \in 1 .. received' \ (In(charged) \cup In(shown))
  BY <1>2 DEF In
<1>5. Stream!Extends(lost)
  BY <1>2, <1>3, <1>4 DEF Stream!Extends
<1> QED BY <1>1, <1>5 DEF Stream!Next, Stream!Receive

\* So is one new entry.
LEMMA EnterStep ==
  ASSUME LedgersOK, NEW n \in Nat, charged' = charged \o <<n>>, shown' = shown,
         n \in 1 .. received' \ (In(shown) \cup In(charged)),
         received' = received \/ received' = received + 1
  PROVE  Stream!Next
<1> DEFINE lost == <<n>>
<1>1. lost \in Seq(Nat) /\ In(lost) = {n} /\ \A i, j \in DOMAIN lost : lost[i] = lost[j] => i = j
  BY DEF In
<1>2. charged' = charged \o lost
  OBVIOUS
<1> HIDE DEF lost
<1> QED BY <1>1, <1>2, ExtendsStep

\* Nothing of the stream changes.
Quiet == UNCHANGED <<received, shown, charged>>

\* The read thread continues the ring with the segment in hand, or charges it.
LEMMA ReaderStream == LaneInv /\ StreamInv /\ Reader => StreamInv' /\ (Stream!Next \/ Quiet)
<1> SUFFICES ASSUME FlagsOK, QueuesOK, LedgersOK, PlacesInv, StreamInv, InOrder, LedgerInv, Reader
    PROVE  StreamInv' /\ (Stream!Next \/ Quiet)
  BY TypeParts DEF LaneInv, StreamInv
<1> USE DEF port, wake, lane, readerT, dispT, abiT, history
<1>a. UNCHANGED <<ready, active, current, deferred, dispatcher>>
  BY DEF Reader, ReaderKick, DropForWantOfBlock, PublishToDisplay, PublishToFileOnly, Deliver
<1>b. /\ SegsOf(active)' = SegsOf(active) /\ SegsOf(ready)' = SegsOf(ready) /\ Waiting' = Waiting
      /\ ReadyInOrder'
  BY <1>a DEF SegsOf, Waiting, Formatting, ReadyInOrder, InOrder, In
<1>n. received \in Nat
  BY DEF FlagsOK
<1>1. CASE ReaderKick \/ PublishToFileOnly
  <2>1. UNCHANGED <<ring, received, shown, charged, unlogged>> /\ reader' # "publish"
    BY <1>1 DEF ReaderKick, PublishToFileOnly, Kick, Arm, Submit, Refused
  <2>2. RingInOrder' /\ In(ring)' = In(ring)
    BY <2>1 DEF RingInOrder, InOrder
  <2> QED BY <1>b, <2>1, <2>2, Fewer DEF Quiet
<1>2. CASE PublishToDisplay
  <2> DEFINE s == [id |-> received, gen |-> generation, unlogged |-> arriving = "unlogged"]
  <2>1. s \in Segment /\ ring' = Append(ring, s) /\ s.id = received /\ Held = {received} /\ Held' = {}
    BY <1>2 DEF PublishToDisplay, Segment, FlagsOK, Held
  <2>2. UNCHANGED <<received, shown, charged, unlogged>>
    BY <1>2 DEF PublishToDisplay
  <2> HIDE DEF s
  <2>3. /\ In(ring') = In(ring) \cup {s} /\ DOMAIN ring' = DOMAIN ring \cup {Len(ring) + 1}
        /\ \A i \in DOMAIN ring : ring'[i] = ring[i]
        /\ ring'[Len(ring) + 1] = s /\ DOMAIN ring = 1 .. Len(ring) /\ Len(ring) \in Nat
    <3>1. ring \in Seq(Segment)
      BY DEF QueuesOK
    <3> QED BY <2>1, <3>1, AppendLemma
  <2>4. OnWay' = OnWay \cup {s}
    BY <1>b, <2>3 DEF OnWay
  <2>5. \A t \in OnWay : t.id \in 1 .. received /\ t.id < s.id
    <3>1. \A t \in OnWay : t.id \in 1 .. received /\ t.id # received
      BY <2>1 DEF LedgerInv
    <3>2. \A n \in 1 .. received : n # received => n < received
      BY <1>n
    <3> QED BY <2>1, <3>1, <3>2
  <2>6. RingInOrder'
    <3>1. \A i \in DOMAIN ring : ring[i].id < s.id
      BY <2>5 DEF OnWay, In
    <3>2. \A i \in DOMAIN ring : i < Len(ring) + 1 /\ ~(Len(ring) + 1 < i)
      BY <2>3
    <3> QED BY <2>3, <3>1, <3>2 DEF RingInOrder, InOrder
  <2>7. InOrder'
    <3>1. Ahead(SegsOf(active), {s}) /\ Ahead(SegsOf(ready), {s}) /\ Ahead(Waiting, {s})
      BY <2>5 DEF OnWay, Ahead
    <3> QED BY <1>b, <2>3, <2>6, <3>1 DEF InOrder, Ahead
  <2>8. \A id \in In(shown) : id < s.id
    <3>1. \A id \in In(shown) : id \in 1 .. received /\ id # received
      BY <2>1 DEF LedgerInv
    <3>2. \A n \in 1 .. received : n # received => n < received
      BY <1>n
    <3> QED BY <2>1, <3>1, <3>2
  <2>9. s.id \in 1 .. received \ In(charged)
    <3>1. received # 0 /\ received \notin In(charged)
      BY <1>2, <2>1 DEF LedgerInv, PublishToDisplay
    <3> QED BY <1>n, <2>1, <3>1
  <2>10. LedgerInv'
    <3>1. In(shown)' \cup In(charged)' \subseteq 1 .. received' \ Held'
      BY <2>1, <2>2 DEF LedgerInv
    <3>2. \A t \in OnWay' : t.id \in 1 .. received' \ (Held' \cup In(charged)')
      BY <2>1, <2>2, <2>4, <2>9 DEF LedgerInv
    <3>3. \A t \in OnWay' : \A id \in In(shown)' : id < t.id
      BY <2>2, <2>4, <2>8 DEF LedgerInv
    <3>4. reader' # "publish"
      BY <1>2 DEF PublishToDisplay
    <3> QED BY <2>2, <3>1, <3>2, <3>3, <3>4 DEF LedgerInv
  <2> QED BY <2>2, <2>7, <2>10 DEF StreamInv, Quiet
<1>3. CASE DropForWantOfBlock
  <2>1. /\ reader = "publish" /\ reader' = "idle" /\ charged' = Append(charged, received)
        /\ UNCHANGED <<ring, received, shown, unlogged>> /\ Held = {received} /\ Held' = {}
    BY <1>3 DEF DropForWantOfBlock, Held
  <2>2. received \in 1 .. received \ (In(shown) \cup In(charged))
    <3>1. received # 0 /\ received \notin In(shown) \cup In(charged)
      BY <2>1 DEF LedgerInv
    <3> QED BY <1>n, <3>1
  <2>3. In(charged') = In(charged) \cup {received} /\ charged' = charged \o <<received>>
    BY <1>n, <2>1, AppendLemma, AppendIsConcat DEF LedgersOK
  <2>4. RingInOrder' /\ In(ring)' = In(ring)
    BY <2>1 DEF RingInOrder, InOrder
  <2>5. InOrder' /\ OnWay' = OnWay
    BY <1>b, <2>4 DEF InOrder, Ahead, OnWay
  <2>6. LedgerInv'
    <3>1. In(shown)' \cup In(charged)' \subseteq 1 .. received' \ Held'
      BY <2>1, <2>2, <2>3 DEF LedgerInv
    <3>2. \A t \in OnWay' : t.id \in 1 .. received' \ (Held' \cup In(charged)')
      BY <2>1, <2>3, <2>5 DEF LedgerInv
    <3>3. \A t \in OnWay' : \A id \in In(shown)' : id < t.id
      BY <2>1, <2>5 DEF LedgerInv
    <3> QED BY <2>1, <3>1, <3>2, <3>3 DEF LedgerInv
  <2>7. Stream!Next
    BY <1>n, <2>1, <2>2, <2>3, EnterStep
  <2> QED BY <2>5, <2>6, <2>7 DEF StreamInv
<1>4. CASE \E kind \in {"logged", "unlogged"} : Deliver(kind)
  <2>1. /\ received' = received + 1 /\ UNCHANGED <<ring, shown>> /\ reader = "idle" /\ Held = {}
        /\ unlogged' \subseteq unlogged \cup {received'}
    BY <1>4 DEF Deliver, Held
  <2>2. \/ charged' = charged /\ reader' = "publish" /\ Held' = {received + 1}
        \/ charged' = Append(charged, received + 1) /\ reader' = "idle" /\ Held' = {}
    BY <1>4, <2>1 DEF Deliver, Held
  <2>3. RingInOrder' /\ In(ring)' = In(ring)
    BY <2>1 DEF RingInOrder, InOrder
  <2>4. InOrder' /\ OnWay' = OnWay
    BY <1>b, <2>3 DEF InOrder, Ahead, OnWay
  <2>5. /\ \A n \in 1 .. received : n \in 1 .. received + 1 /\ n # received + 1
        /\ received + 1 \in 1 .. received + 1 /\ received + 1 # 0
    BY <1>n
  <2>6. In(shown) \cup In(charged) \subseteq 1 .. received /\ \A t \in OnWay : t.id \in 1 .. received \ In(charged)
    BY DEF LedgerInv
  <2>7. unlogged' \subseteq 1 .. received'
    BY <2>1, <2>5 DEF LedgerInv
  <2>8. \A t \in OnWay' : \A id \in In(shown)' : id < t.id
    BY <2>1, <2>4 DEF LedgerInv
  <2>9. CASE charged' = charged /\ reader' = "publish" /\ Held' = {received + 1}
    <3>1. In(shown)' \cup In(charged)' \subseteq 1 .. received' \ Held'
      BY <2>1, <2>5, <2>6, <2>9
    <3>2. \A t \in OnWay' : t.id \in 1 .. received' \ (Held' \cup In(charged)')
      BY <2>1, <2>4, <2>5, <2>6, <2>9
    <3>3. LedgerInv'
      BY <2>1, <2>5, <2>7, <2>8, <3>1, <3>2 DEF LedgerInv
    <3>4. /\ <<>> \in Seq(Nat) /\ In(<<>>) = {} /\ DOMAIN <<>> = {} /\ charged' = charged \o <<>>
      BY <2>9, EmptyLemma DEF LedgersOK
    <3>5. Stream!Next
      BY <2>1, <3>4, ExtendsStep
    <3> QED BY <2>4, <3>3, <3>5 DEF StreamInv
  <2>10. CASE charged' = Append(charged, received + 1) /\ reader' = "idle" /\ Held' = {}
    <3>0. In(charged') = In(charged) \cup {received + 1} /\ charged' = charged \o <<received + 1>>
      BY <1>n, <2>5, <2>10, AppendLemma, AppendIsConcat DEF LedgersOK
    <3>1. In(shown)' \cup In(charged)' \subseteq 1 .. received' \ Held'
      BY <2>1, <2>5, <2>6, <2>10, <3>0
    <3>2. \A t \in OnWay' : t.id \in 1 .. received' \ (Held' \cup In(charged)')
      BY <2>1, <2>4, <2>5, <2>6, <2>10, <3>0
    <3>3. LedgerInv'
      BY <2>1, <2>5, <2>7, <2>8, <2>10, <3>1, <3>2 DEF LedgerInv
    <3>4. received + 1 \in 1 .. received' \ (In(shown) \cup In(charged)) /\ received + 1 \in Nat
      BY <1>n, <2>1, <2>5, <2>6
    <3>5. Stream!Next
      BY <2>1, <3>0, <3>4, EnterStep
    <3> QED BY <2>4, <3>3, <3>5 DEF StreamInv
  <2> QED BY <2>2, <2>9, <2>10
<1> QED BY <1>1, <1>2, <1>3, <1>4 DEF Reader

\* The Dispatcher moves segments along the line.
LEMMA ReceiveStream == LaneInv /\ StreamInv /\ ReceiveAo => StreamInv' /\ Quiet
<1> SUFFICES ASSUME FlagsOK, QueuesOK, LedgersOK, PlacesInv, StreamInv, InOrder, LedgerInv, ReceiveAo
    PROVE  StreamInv' /\ Quiet
  BY TypeParts DEF LaneInv, StreamInv
<1> USE DEF port, wake, lane, readerT, dispT, abiT, history
<1>a. UNCHANGED <<shown, charged, received, unlogged, reader, active>>
  BY DEF ReceiveAo, TakeKick, TakeBlock, NoMoreBlocks, FormatPaused, FormatGoesOn, FormatNoBatch, FormatEmpty,
     PushReady, CountReady, Disarm, Recheck, DispatcherKick, Defer, Goto
<1>b. SegsOf(active)' = SegsOf(active) /\ Quiet
  BY <1>a DEF SegsOf, In, Quiet
<1>r. UNCHANGED ready => ReadyInOrder' /\ SegsOf(ready)' = SegsOf(ready)
  BY DEF InOrder, ReadyInOrder, SegsOf
<1>g. UNCHANGED ring => RingInOrder' /\ In(ring)' = In(ring)
  BY DEF InOrder, RingInOrder
<1>e. In(<<>>) = {}
  BY EmptyLemma
<1>1. CASE TakeBlock
  <2>1. /\ dispatcher = "block" /\ dispatcher' = "format" /\ Backlog # <<>>
        /\ current' = <<Head(Backlog)>> /\ deferred' = <<>> /\ ready' = ready
        /\ ring' = IF deferred = <<>> THEN Tail(ring) ELSE ring
    BY <1>1 DEF TakeBlock
  <2>2. current = <<>> /\ Len(deferred) <= 1
    BY <2>1 DEF PlacesInv
  <2>3. Waiting = In(deferred) /\ Waiting' = {Head(Backlog)}
    BY <1>e, <2>1, <2>2, SingleLemma DEF Waiting, Formatting
  <2>4. CASE deferred # <<>>
    <3>1. Waiting' = Waiting /\ ring' = ring
      BY <2>1, <2>2, <2>3, <2>4, TakeLemma
    <3> QED BY <1>a, <1>b, <1>r, <1>g, <2>1, <3>1, Fewer
  <2>5. CASE deferred = <<>>
    <3>1. /\ ring # <<>> /\ Head(Backlog) = Head(ring) /\ ring' = Tail(ring)
          /\ In(ring) = In(ring') \cup {Head(ring)}
          /\ \A i \in DOMAIN ring' : i + 1 \in DOMAIN ring /\ i + 1 # 1 /\ ring'[i] = ring[i + 1]
          /\ 1 \in DOMAIN ring /\ ring[1] = Head(ring)
      BY <2>1, <2>2, <2>5, TakeLemma
    <3>2. DOMAIN ring' \subseteq Nat
      BY <3>1, TailLemma DEF QueuesOK
    <3>3. RingInOrder'
      <4>1. \A i, j \in DOMAIN ring' : i < j => i + 1 < j + 1
        BY <3>2
      <4> QED BY <3>1, <4>1 DEF RingInOrder, InOrder
    <3>4. Ahead({Head(ring)}, In(ring'))
      <4>1. \A i \in DOMAIN ring' : 1 < i + 1
        <5>1. \A i \in Nat : i + 1 # 1 => 1 < i + 1
          OBVIOUS
        <5> QED BY <3>1, <3>2, <5>1
      <4>2. \A i \in DOMAIN ring' : Head(ring).id < ring'[i].id
        BY <3>1, <4>1 DEF RingInOrder, InOrder
      <4> QED BY <4>2 DEF Ahead, In
    <3>5. Waiting' \cup In(ring)' = In(ring) /\ Waiting = {} /\ Waiting' = {Head(ring)}
      BY <1>e, <2>3, <2>5, <3>1
    <3>6. InOrder'
      BY <1>b, <1>r, <2>1, <3>1, <3>3, <3>4, <3>5 DEF InOrder, Ahead
    <3>7. OnWay' = OnWay /\ Held' = Held
      BY <1>a, <1>b, <1>r, <2>1, <3>5 DEF OnWay, Held
    <3>8. LedgerInv'
      BY <1>a, <3>7 DEF LedgerInv
    <3> QED BY <1>b, <3>6, <3>8 DEF StreamInv
  <2> QED BY <2>4, <2>5
<1>2. CASE FormatPaused \/ FormatNoBatch
  <2>1. /\ dispatcher \in {"format", "acquire"} /\ dispatcher' = "disarm"
        /\ deferred' = current /\ current' = <<>> /\ UNCHANGED <<ring, ready>>
    BY <1>2 DEF FormatPaused, FormatNoBatch, Defer, Goto
  <2>2. Waiting' \subseteq Waiting
    BY <1>e, <2>1 DEF Waiting, Formatting
  <2> QED BY <1>a, <1>b, <1>r, <1>g, <2>1, <2>2, Fewer
<1>3. CASE FormatEmpty \/ CountReady
  <2>1. dispatcher' = "block" /\ current' = <<>> /\ UNCHANGED <<ring, ready, deferred>>
    BY <1>3 DEF FormatEmpty, CountReady, Goto
  <2>2. Waiting' \subseteq Waiting
    BY <1>e, <2>1 DEF Waiting, Formatting
  <2> QED BY <1>a, <1>b, <1>r, <1>g, <2>1, <2>2, Fewer
<1>4. CASE PushReady
  <2>1. PICK d \in Desc : d.seg = current[1] /\ ready' = Append(ready, d)
    BY <1>4, PushLemma
  <2>2. /\ dispatcher = "acquire" /\ dispatcher' = "count" /\ UNCHANGED <<ring, deferred, current>>
        /\ deferred = <<>>
    BY <1>4 DEF PushReady, Goto, PlacesInv
  <2>3. Waiting = {d.seg} /\ Waiting' = {}
    BY <1>4, <1>e, <2>1, <2>2, PushLemma DEF Waiting, Formatting
  <2>4. /\ DOMAIN ready' = DOMAIN ready \cup {Len(ready) + 1} /\ ready'[Len(ready) + 1] = d
        /\ \A i \in DOMAIN ready : ready'[i] = ready[i] /\ ready[i] \in In(ready)
        /\ DOMAIN ready = 1 .. Len(ready) /\ Len(ready) \in Nat
    <3>1. ready \in Seq(Desc)
      BY DEF QueuesOK
    <3> QED BY <2>1, <3>1, AppendLemma DEF In
  <2>5. SegsOf(ready') = SegsOf(ready) \cup {d.seg}
    BY <2>1, BufsAppend DEF QueuesOK
  <2>6. ReadyInOrder'
    <3>1. \A i \in DOMAIN ready : ready[i].seg.id < d.seg.id
      BY <2>3, <2>4 DEF InOrder, Ahead, SegsOf
    <3>2. \A i \in DOMAIN ready : i < Len(ready) + 1 /\ ~(Len(ready) + 1 < i)
      BY <2>4
    <3>3. ~(Len(ready) + 1 < Len(ready) + 1)
      BY <2>4
    <3> QED BY <2>4, <3>1, <3>2, <3>3 DEF ReadyInOrder, InOrder
  <2>7. InOrder'
    <3>1. SegsOf(ready)' = SegsOf(ready) \cup Waiting /\ In(ring)' = In(ring)
      BY <2>2, <2>3, <2>5
    <3> QED BY <1>b, <1>g, <2>2, <2>3, <2>6, <3>1 DEF InOrder, Ahead
  <2>8. OnWay' = OnWay /\ Held' = Held
    BY <1>a, <1>b, <2>2, <2>3, <2>5 DEF OnWay, Held
  <2>9. LedgerInv'
    BY <1>a, <2>8 DEF LedgerInv
  <2> QED BY <1>b, <2>7, <2>9 DEF StreamInv
<1>5. CASE TakeKick \/ NoMoreBlocks \/ FormatGoesOn \/ Disarm \/ Recheck \/ DispatcherKick
  <2>1. UNCHANGED <<ring, ready, current, deferred>>
    BY <1>5 DEF TakeKick, NoMoreBlocks, FormatGoesOn, Disarm, Recheck, DispatcherKick, Goto
  <2>2. dispatcher # "count"
    BY <1>5 DEF TakeKick, NoMoreBlocks, FormatGoesOn, Disarm, Recheck, DispatcherKick, Kick, Arm, Submit, Refused
  <2>3. Waiting' \subseteq Waiting
    BY <2>1, <2>2 DEF Waiting, Formatting
  <2> QED BY <1>a, <1>b, <1>r, <1>g, <2>1, <2>3, Fewer
<1> QED BY <1>1, <1>2, <1>3, <1>4, <1>5 DEF ReceiveAo

\* A session boundary charges what it retires, and leaves the rest in order.
LEMMA SerialStream == LaneInv /\ StreamInv /\ SerialAo => StreamInv' /\ (Stream!Next \/ Quiet)
<1> SUFFICES ASSUME FlagsOK, QueuesOK, LedgersOK, PlacesInv, StreamInv, InOrder, LedgerInv, SerialAo
    PROVE  StreamInv' /\ (Stream!Next \/ Quiet)
  BY TypeParts DEF LaneInv, StreamInv
<1> USE DEF port, wake, lane, readerT, dispT, abiT, history
<1>a. UNCHANGED <<shown, received, unlogged, reader, active, ring, current>>
  BY DEF SerialAo, OpenSession, EndSession, ReleaseDeferred, JoinReader, ResetDisplay, PublishAfterReset, Goto
<1>b. SegsOf(active)' = SegsOf(active) /\ In(ring)' = In(ring) /\ RingInOrder'
  BY <1>a DEF SegsOf, In, RingInOrder, InOrder
<1>c. current = <<>> /\ dispatcher # "count" /\ Formatting = {} /\ Formatting' = {}
  <2>1. dispatcher \notin {"format", "acquire", "count"}
    BY DEF SerialAo, OpenSession, EndSession, ReleaseDeferred, JoinReader, ResetDisplay
  <2>2. current = <<>>
    BY <2>1 DEF PlacesInv
  <2> QED BY <1>a, <2>1, <2>2, EmptyLemma DEF Formatting
<1>g. ASSUME NEW segs, Gives(segs), InOrder' PROVE StreamInv' /\ Stream!Next
  <2>1. /\ Unlogged(segs) \in Seq(Nat) /\ charged' = charged \o Unlogged(segs)
        /\ \A id \in In(Unlogged(segs)) : id \in 1 .. received \ (In(shown) \cup In(charged))
        /\ \A i, j \in DOMAIN Unlogged(segs) : Unlogged(segs)[i] = Unlogged(segs)[j] => i = j
        /\ LedgerInv'
    BY <1>g, GivenUp
  <2> DEFINE lost == Unlogged(segs)
  <2>2. /\ lost \in Seq(Nat) /\ charged' = charged \o lost /\ shown' = shown /\ received' = received
        /\ \A id \in In(lost) : id \in 1 .. received' \ (In(shown) \cup In(charged))
        /\ \A i, j \in DOMAIN lost : lost[i] = lost[j] => i = j
    BY <1>a, <2>1
  <2> HIDE DEF lost
  <2>3. Stream!Next
    BY <2>2, ExtendsStep
  <2> QED BY <1>g, <2>1, <2>3 DEF StreamInv
<1>1. CASE ReleaseDeferred
  <2>1. Charge(deferred) /\ deferred' = <<>> /\ ready' = ready
    BY <1>1 DEF ReleaseDeferred
  <2>2. /\ Waiting = In(deferred) /\ Waiting' = {} /\ SegsOf(ready)' = SegsOf(ready) /\ ReadyInOrder'
    BY <1>c, <2>1, EmptyLemma DEF Waiting, SegsOf, In, ReadyInOrder, InOrder
  <2>3. InOrder'
    BY <1>b, <2>2 DEF InOrder, Ahead
  <2>4. OnWay' = SegsOf(active) \cup SegsOf(ready) \cup In(ring)
    BY <1>b, <2>2 DEF OnWay
  <2>5. \A s \in In(deferred), t \in OnWay' : s.id # t.id
    <3>1. \A s \in In(deferred), t \in OnWay' : s.id < t.id \/ t.id < s.id
      BY <2>2, <2>4 DEF InOrder, Ahead
    <3>2. \A s \in OnWay : s.id \in Nat
      BY DEF LedgerInv, FlagsOK
    <3>3. In(deferred) \subseteq OnWay /\ OnWay' \subseteq OnWay
      BY <2>2, <2>4 DEF OnWay
    <3>4. \A m, n \in Nat : m < n \/ n < m => m # n
      OBVIOUS
    <3> QED BY <3>1, <3>2, <3>3, <3>4
  <2>6. \A i, j \in DOMAIN deferred : i < j => deferred[i].id < deferred[j].id
    <3>1. DOMAIN deferred = 1 .. Len(deferred) /\ Len(deferred) \in Nat /\ Len(deferred) <= 1
      BY DEF QueuesOK, PlacesInv
    <3>2. \A i, j \in DOMAIN deferred : ~(i < j)
      BY <3>1
    <3> QED BY <3>2
  <2>7. Gives(deferred)
    BY <1>a, <2>1, <2>2, <2>4, <2>5, <2>6 DEF Gives, QueuesOK, OnWay
  <2> QED BY <1>g, <2>3, <2>7
<1>2. CASE ResetDisplay
  <2> DEFINE segs == [i \in 1 .. Len(ready) |-> ready[i].seg]
  <2>1. Charge(segs) /\ ready' = <<>> /\ deferred' = deferred
    BY <1>2 DEF ResetDisplay, Retired
  <2>2. /\ segs \in Seq(Segment) /\ In(segs) = SegsOf(ready)
        /\ DOMAIN segs = DOMAIN ready /\ \A i \in DOMAIN ready : segs[i] = ready[i].seg
    BY ReadySegs
  <2> HIDE DEF segs
  <2>3. Waiting' = Waiting /\ SegsOf(ready)' = {} /\ ReadyInOrder'
    BY <1>c, <2>1, BufsEmpty DEF Waiting, ReadyInOrder
  <2>4. InOrder'
    BY <1>b, <2>3 DEF InOrder, Ahead
  <2>5. OnWay' = SegsOf(active) \cup Waiting \cup In(ring)
    BY <1>b, <2>3 DEF OnWay
  <2>6. \A s \in In(segs), t \in OnWay' : s.id # t.id
    <3>1. \A s \in In(segs), t \in OnWay' : s.id < t.id \/ t.id < s.id
      BY <2>2, <2>5 DEF InOrder, Ahead
    <3>2. \A s \in OnWay : s.id \in Nat
      BY DEF LedgerInv, FlagsOK
    <3>3. In(segs) \subseteq OnWay /\ OnWay' \subseteq OnWay
      BY <2>2, <2>5 DEF OnWay
    <3>4. \A m, n \in Nat : m < n \/ n < m => m # n
      OBVIOUS
    <3> QED BY <3>1, <3>2, <3>3, <3>4
  <2>7. \A i, j \in DOMAIN segs : i < j => segs[i].id < segs[j].id
    BY <2>2 DEF InOrder, ReadyInOrder
  <2>8. In(segs) \subseteq OnWay /\ OnWay' \subseteq OnWay
    BY <2>2, <2>5 DEF OnWay
  <2>9. Gives(segs)
    BY <1>a, <2>1, <2>2, <2>6, <2>7, <2>8 DEF Gives
  <2> QED BY <1>g, <2>4, <2>9
<1>3. CASE OpenSession \/ EndSession("close") \/ EndSession("fault") \/ JoinReader
  <2>1. UNCHANGED <<deferred, ready, charged>>
    BY <1>3 DEF OpenSession, EndSession, JoinReader, Goto
  <2>2. Waiting' = Waiting /\ ReadyInOrder' /\ SegsOf(ready)' = SegsOf(ready)
    BY <1>c, <2>1 DEF Waiting, InOrder, ReadyInOrder, SegsOf
  <2> QED BY <1>a, <1>b, <2>1, <2>2, Fewer DEF Quiet
<1> QED BY <1>1, <1>2, <1>3 DEF SerialAo

\* The caller takes the first batch off the ring and shows what it took.
LEMMA CallerStream == LaneInv /\ StreamInv /\ Caller => StreamInv' /\ (Stream!Next \/ Quiet)
<1> SUFFICES ASSUME FlagsOK, QueuesOK, LedgersOK, PlacesInv, StreamInv, InOrder, LedgerInv, Caller
    PROVE  StreamInv' /\ (Stream!Next \/ Quiet)
  BY TypeParts DEF LaneInv, StreamInv
<1> USE DEF port, wake, lane, readerT, dispT, abiT, history
<1>a. UNCHANGED <<charged, received, unlogged, reader, ring, current, deferred, dispatcher>>
  BY DEF Caller, Drain, DropStaleActive, NothingReady, PopReady, CopyPart, CopyAll, CountDrained, CallerKick,
     DrainCall, Pause, Resume, Poll, OpenCall, CloseCall, CloseReturns
<1>b. Waiting' = Waiting /\ In(ring)' = In(ring) /\ RingInOrder'
  BY <1>a DEF Waiting, Formatting, RingInOrder, InOrder
<1>r. UNCHANGED ready => ReadyInOrder' /\ SegsOf(ready)' = SegsOf(ready)
  BY DEF InOrder, ReadyInOrder, SegsOf
<1>t. UNCHANGED active => SegsOf(active)' = SegsOf(active)
  BY DEF SegsOf
<1>1. CASE DropStaleActive
  <2>1. (active' = active \/ active' = <<>>) /\ UNCHANGED <<ready, shown>>
    BY <1>1 DEF DropStaleActive
  <2>2. SegsOf(active)' \subseteq SegsOf(active)
    BY <1>t, <2>1, BufsEmpty
  <2> QED BY <1>a, <1>b, <1>r, <2>1, <2>2, Fewer DEF Quiet
<1>2. CASE PopReady
  <2>1. active = <<>> /\ ready # <<>> /\ ready' = Tail(ready) /\ ready \in Seq(Desc) /\ shown' = shown
    BY <1>2 DEF PopReady, PlacesInv, QueuesOK
  <2>2. active' = <<Head(ready)>> \/ active' = <<>>
    BY <1>2, <2>1 DEF PopReady
  <2>3. SegsOf(ready) = SegsOf(ready') \cup {Head(ready).seg} /\ SegsOf(active) = {}
    BY <2>1, BufsTail, BufsEmpty
  <2>4. /\ \A i \in DOMAIN ready' : i + 1 \in DOMAIN ready /\ i + 1 # 1 /\ ready'[i] = ready[i + 1]
        /\ 1 \in DOMAIN ready /\ ready[1] = Head(ready) /\ DOMAIN ready' \subseteq Nat
    BY <2>1, TailLemma
  <2>5. ReadyInOrder'
    <3>1. \A i, j \in DOMAIN ready' : i < j => i + 1 < j + 1
      BY <2>4
    <3> QED BY <2>4, <3>1 DEF ReadyInOrder, InOrder
  <2>6. Ahead({Head(ready).seg}, SegsOf(ready'))
    <3>1. \A i \in Nat : i + 1 # 1 => 1 < i + 1
      OBVIOUS
    <3>2. \A i \in DOMAIN ready' : 1 < i + 1
      BY <2>4, <3>1
    <3>3. \A i \in DOMAIN ready' : Head(ready).seg.id < ready'[i].seg.id
      BY <2>4, <3>2 DEF ReadyInOrder, InOrder
    <3> QED BY <3>3 DEF Ahead, SegsOf, In
  <2>7. SegsOf(active') \subseteq {Head(ready).seg}
    BY <2>2, BufsSingle, BufsEmpty
  <2>8. InOrder'
    <3>1. Ahead({Head(ready).seg}, Waiting \cup In(ring))
      BY <2>3 DEF InOrder, Ahead
    <3> QED BY <1>b, <2>3, <2>5, <2>6, <2>7, <3>1 DEF InOrder, Ahead
  <2>9. OnWay' \subseteq OnWay /\ Held' = Held
    BY <1>a, <1>b, <2>3, <2>7 DEF OnWay, Held
  <2>10. LedgerInv'
    BY <1>a, <2>1, <2>9 DEF LedgerInv
  <2> QED BY <1>a, <2>1, <2>8, <2>10 DEF StreamInv, Quiet
<1>3. CASE CopyAll
  <2> DEFINE id == active[1].seg.id
  <2>1. active # <<>> /\ active' = <<>> /\ ready' = ready /\ shown' = Append(shown, id)
    BY <1>3 DEF CopyAll, PlacesInv
  <2>2. SegsOf(active) = {active[1].seg} /\ SegsOf(active)' = {} /\ active[1].seg \in Segment
    BY <2>1, BufsOne, BufsEmpty DEF QueuesOK, PlacesInv
  <2>3. id \in Nat /\ id \in 1 .. received \ (Held \cup In(charged)) /\ \A other \in In(shown) : other < id
    <3>1. active[1].seg \in OnWay
      BY <2>2 DEF OnWay
    <3> QED BY <2>2, <3>1 DEF LedgerInv, Segment
  <2>4. \A t \in OnWay' : t \in OnWay /\ id < t.id
    <3>1. OnWay' = SegsOf(ready) \cup Waiting \cup In(ring)
      BY <1>b, <1>r, <2>1, <2>2 DEF OnWay
    <3> QED BY <2>2, <3>1 DEF OnWay, InOrder, Ahead
  <2>5. InOrder'
    BY <1>b, <1>r, <2>1, <2>2 DEF InOrder, Ahead
  <2> HIDE DEF id
  <2>6. In(shown') = In(shown) \cup {id}
    BY <2>1, <2>3, AppendLemma DEF LedgersOK
  <2>7. LedgerInv'
    <3>1. Held' = Held
      BY <1>a DEF Held
    <3>2. In(shown)' \cup In(charged)' \subseteq 1 .. received' \ Held'
      BY <1>a, <2>3, <2>6, <3>1 DEF LedgerInv
    <3>3. \A t \in OnWay' : t.id \in 1 .. received' \ (Held' \cup In(charged)')
      BY <1>a, <2>4, <3>1 DEF LedgerInv
    <3>4. \A t \in OnWay' : \A other \in In(shown)' : other < t.id
      BY <2>4, <2>6 DEF LedgerInv
    <3> QED BY <1>a, <3>2, <3>3, <3>4 DEF LedgerInv
  <2>8. Stream!Next
    <3>1. DOMAIN shown = 1 .. Len(shown) /\ DOMAIN charged = 1 .. Len(charged)
      BY DEF LedgersOK
    <3>2. Stream!Members(charged) = In(charged) /\ Stream!Members(shown) = In(shown)
      BY <3>1 DEF Stream!Members, In
    <3>3. Stream!Show(id)
      BY <1>a, <2>1, <2>3, <3>2 DEF Stream!Show
    <3> QED BY <2>3, <3>3 DEF Stream!Next
  <2> QED BY <2>5, <2>7, <2>8 DEF StreamInv
<1>4. CASE ~(DropStaleActive \/ PopReady \/ CopyAll)
  <2>1. UNCHANGED <<ready, active, shown>>
    <3>1. CASE NothingReady \/ CopyPart \/ CountDrained \/ CallerKick \/ DrainCall \/ Pause
      BY <3>1 DEF NothingReady, CopyPart, CountDrained, CallerKick, DrainCall, Pause
    <3>2. CASE Resume \/ Poll \/ OpenCall \/ CloseCall \/ CloseReturns
      BY <3>2 DEF Resume, Poll, OpenCall, CloseCall, CloseReturns
    <3> QED BY <1>4, <3>1, <3>2 DEF Caller, Drain
  <2> QED BY <1>a, <1>b, <1>r, <1>t, <2>1, Fewer DEF Quiet
<1> QED BY <1>1, <1>2, <1>3, <1>4

\* Each step of RxDisplay is a step of the stream, or leaves it alone.
LEMMA StreamStep == LaneInv /\ StreamInv /\ [Next]_vars => StreamInv' /\ [Stream!Next]_Stream!vars
<1>1. Quiet => UNCHANGED Stream!vars
  BY DEF Quiet, Stream!vars
<1>2. StreamInv /\ UNCHANGED vars => StreamInv' /\ Quiet
  BY DEF vars, port, wake, lane, readerT, dispT, abiT, history, StreamInv, InOrder, LedgerInv, ReadyInOrder,
     RingInOrder, Ahead, SegsOf, Waiting, Formatting, OnWay, Held, In, Quiet
<1> QED BY <1>1, <1>2, ReaderStream, ReceiveStream, SerialStream, CallerStream DEF Next

\* The empty lane is the start of a stream.
LEMMA StreamInit == Init => StreamInv /\ Stream!Init
<1> SUFFICES ASSUME Init PROVE StreamInv /\ Stream!Init
  OBVIOUS
<1>1. /\ SegsOf(active) = {} /\ SegsOf(ready) = {} /\ Waiting = {} /\ In(ring) = {}
      /\ In(shown) = {} /\ In(charged) = {} /\ DOMAIN ready = {} /\ DOMAIN ring = {}
  BY EmptyLemma, BufsEmpty DEF Init, Waiting, Formatting
<1>2. OnWay = {} /\ InOrder
  BY <1>1 DEF OnWay, InOrder, Ahead, ReadyInOrder, RingInOrder
<1>3. LedgerInv
  BY <1>1, <1>2 DEF Init, LedgerInv
<1> QED BY <1>2, <1>3 DEF StreamInv, Init, Stream!Init

\* The screen is a stream of what the port received, whatever the client's buffer and its patience:
\* text appears in the order it came, each segment at most once, and no byte is both lost and shown.
THEOREM ScreenIsStream == Spec => ImplementsStream
<1>1. Spec => [](LaneInv /\ StreamInv)
  BY LaneInit, LaneStep, StreamInit, StreamStep, PTL DEF Spec
<1>2. Init => Stream!Init
  BY StreamInit
<1>3. LaneInv /\ StreamInv /\ [Next]_vars => [Stream!Next]_Stream!vars
  BY StreamStep
<1>4. Spec => Stream!Spec
  BY <1>1, <1>2, <1>3, PTL DEF Spec, Stream!Spec
<1> QED BY <1>4 DEF ImplementsStream

-----------------------------------------------------------------------------
(* A client that waits for CLOSED and takes whole batches.                 *)

\* What no step of the read thread and none of ReceiveAo touches, but for a push.
LEMMA SessionFrame ==
  ASSUME Reader \/ ReceiveAo, FlagsOK, QueuesOK, PlacesInv, SessionInv
  PROVE  SessionInv'
<1> USE DEF port, wake, lane, readerT, dispT, abiT, history
<1>1. UNCHANGED <<portState, generation, request, watching, abi, drainGen, active, ending>>
  BY DEF Reader, ReaderKick, DropForWantOfBlock, PublishToDisplay, PublishToFileOnly, Deliver,
     ReceiveAo, TakeKick, TakeBlock, NoMoreBlocks, FormatPaused, FormatGoesOn, FormatNoBatch, FormatEmpty,
     PushReady, CountReady, Disarm, Recheck, DispatcherKick, Defer, Goto
<1> DEFINE boundary == {"ownerClose", "joinReader", "openReset", "closeReset"}
<1>2. dispatcher' \in boundary => dispatcher' = dispatcher /\ ready' = ready
  <2>1. CASE Reader
    BY <2>1 DEF Reader, ReaderKick, DropForWantOfBlock, PublishToDisplay, PublishToFileOnly, Deliver
  <2>2. CASE DispatcherKick
    <3>1. Kick(dispatcher, dispatcher')
      BY <2>2 DEF DispatcherKick
    <3>2. dispatcher' \in Places \cup {"idle"}
      BY <3>1, KickPlaces DEF FlagsOK
    <3> QED BY <3>2 DEF Places
  <2>3. CASE TakeKick \/ TakeBlock \/ NoMoreBlocks \/ FormatPaused \/ FormatGoesOn \/ FormatNoBatch
    BY <2>3 DEF TakeKick, TakeBlock, NoMoreBlocks, FormatPaused, FormatGoesOn, FormatNoBatch, Defer, Goto
  <2>4. CASE FormatEmpty \/ PushReady \/ CountReady \/ Disarm \/ Recheck
    BY <2>4 DEF FormatEmpty, PushReady, CountReady, Disarm, Recheck, Goto
  <2> QED BY <2>1, <2>2, <2>3, <2>4 DEF ReceiveAo
<1>3. dispatcher' \notin {"openReset", "closeReset"} => \A d \in In(ready)' : d.gen = generation'
  <2>1. CASE PushReady
    <3>1. PICK d \in Desc : d.gen = generation /\ ready' = Append(ready, d)
      BY <2>1, PushLemma
    <3>2. In(ready)' = In(ready) \cup {d}
      BY <3>1, AppendLemma DEF QueuesOK
    <3>3. dispatcher = "acquire"
      BY <2>1 DEF PushReady
    <3> QED BY <1>1, <3>1, <3>2, <3>3 DEF SessionInv
  <2>2. CASE ~PushReady
    <3>1. ready' = ready
      BY <2>2 DEF Reader, ReaderKick, DropForWantOfBlock, PublishToDisplay, PublishToFileOnly, Deliver,
         ReceiveAo, TakeKick, TakeBlock, NoMoreBlocks, FormatPaused, FormatGoesOn, FormatNoBatch, FormatEmpty,
         CountReady, Disarm, Recheck, DispatcherKick, Defer, Goto
    <3>2. dispatcher \in {"openReset", "closeReset"} => dispatcher' = dispatcher
      BY DEF Reader, ReaderKick, DropForWantOfBlock, PublishToDisplay, PublishToFileOnly, Deliver,
         ReceiveAo, TakeKick, TakeBlock, NoMoreBlocks, FormatPaused, FormatGoesOn, FormatNoBatch, FormatEmpty,
         PushReady, CountReady, Disarm, Recheck, DispatcherKick, Defer, Goto, Kick, Arm, Submit, Refused
    <3> QED BY <1>1, <3>1, <3>2 DEF SessionInv
  <2> QED BY <2>1, <2>2
<1>4. In(active)' = In(active)
  BY <1>1
<1> HIDE DEF boundary
<1>5. dispatcher' \in {"ownerClose", "joinReader", "openReset", "closeReset"} => dispatcher' = dispatcher
  BY <1>2 DEF boundary
<1> QED BY <1>1, <1>3, <1>4, <1>5 DEF SessionInv, Closing, Draining

\* A session ends, and the next begins, with the caller outside the drain.
LEMMA SessionBoundary ==
  ASSUME SerialAo, QueuesOK, SessionInv
  PROVE  SessionInv'
<1> USE DEF port, wake, lane, readerT, dispT, abiT, history
<1>a. UNCHANGED <<watching, abi, drainGen, active>>
  BY DEF SerialAo, OpenSession, EndSession, ReleaseDeferred, JoinReader, ResetDisplay, PublishAfterReset, Goto
<1>b. In(active)' = In(active) /\ (active = <<>> => In(active) = {})
  BY <1>a, EmptyLemma
<1>1. CASE OpenSession
  <2>1. /\ dispatcher = "idle" /\ dispatcher' = "openReset" /\ request = "open"
        /\ UNCHANGED <<portState, request>>
    BY <1>1 DEF OpenSession, Goto
  <2>2. active = <<>> /\ abi \notin {"drop", "pop", "copy", "closePoll"}
    BY <2>1 DEF SessionInv
  <2> QED BY <1>a, <1>b, <2>1, <2>2 DEF SessionInv, Closing, Draining
<1>2. CASE EndSession("close")
  <2>1. /\ dispatcher = "idle" /\ dispatcher' = "ownerClose" /\ ending' = "close" /\ request = "close"
        /\ request' = "none" /\ portState' = "CLOSING" /\ UNCHANGED <<generation, ready>>
    BY <1>2 DEF EndSession
  <2>2. active = <<>> /\ abi = "closePoll"
    BY <2>1 DEF SessionInv
  <2> QED BY <1>a, <1>b, <2>1, <2>2 DEF SessionInv, Closing, Draining
<1>3. CASE EndSession("fault")
  <2>1. /\ dispatcher = "idle" /\ dispatcher' = "ownerClose" /\ ending' = "fault" /\ portState = "OPEN"
        /\ portState' = "FAULT" /\ UNCHANGED <<request, generation, ready>>
    BY <1>3 DEF EndSession
  <2>2. request # "open"
    BY <2>1 DEF SessionInv
  <2> QED BY <1>a, <1>b, <2>1, <2>2 DEF SessionInv, Closing, Draining
<1>4. CASE ReleaseDeferred
  <2>1. /\ dispatcher = "ownerClose" /\ dispatcher' = "joinReader"
        /\ UNCHANGED <<ending, portState, request, generation, ready>>
    BY <1>4 DEF ReleaseDeferred, Goto
  <2> QED BY <1>a, <1>b, <2>1 DEF SessionInv, Closing, Draining
<1>5. CASE JoinReader
  <2>1. /\ dispatcher = "joinReader" /\ UNCHANGED <<ending, portState, request, ready>>
        /\ \/ ending = "close" /\ dispatcher' = "closeReset"
           \/ ending # "close" /\ dispatcher' = "idle" /\ generation' = generation
    BY <1>5 DEF JoinReader, Goto
  <2>2. CASE ending = "close" /\ dispatcher' = "closeReset"
    <3>1. abi = "closePoll" /\ active = <<>> /\ portState = "CLOSING" /\ request = "none"
      BY <2>1, <2>2 DEF SessionInv, Closing
    <3> QED BY <1>a, <1>b, <2>1, <2>2, <3>1 DEF SessionInv, Closing, Draining
  <2>3. CASE ending # "close" /\ dispatcher' = "idle" /\ generation' = generation
    BY <1>a, <1>b, <2>1, <2>3 DEF SessionInv, Closing, Draining
  <2> QED BY <2>1, <2>2, <2>3
<1>6. CASE ResetDisplay
  <2>1. /\ dispatcher \in {"openReset", "closeReset"} /\ dispatcher' = "idle" /\ ready' = <<>> /\ generation' = generation
        /\ dispatcher = "openReset" => portState' = "OPEN" /\ request' = "none"
        /\ dispatcher = "closeReset" => portState' = "CLOSED" /\ request' = request
    BY <1>6 DEF ResetDisplay, PublishAfterReset, Goto
  <2>2. request' = "none" /\ In(ready)' = {}
    BY <2>1, EmptyLemma DEF SessionInv, Closing
  <2> QED BY <1>a, <1>b, <2>1, <2>2 DEF SessionInv, Closing, Draining
<1> QED BY <1>1, <1>2, <1>3, <1>4, <1>5, <1>6 DEF SerialAo

\* No drain is under way at a boundary, and the batches it meets are of the session it watches.
LEMMA DrainLemma ==
  ASSUME QueuesOK, PlacesInv, SessionInv, Draining
  PROVE  /\ dispatcher \notin {"openReset", "closeReset"} /\ drainGen = generation
         /\ \A d \in In(ready) : d.gen = drainGen
         /\ abi = "drop" => active = <<>>
         /\ ready # <<>> => Head(ready).gen = drainGen
<1>1. dispatcher \notin {"openReset", "closeReset"} /\ drainGen = generation
  BY DEF SessionInv, Closing, Draining
<1>2. \A d \in In(ready) : d.gen = drainGen
  BY <1>1 DEF SessionInv
<1>3. abi = "drop" => active = <<>>
  BY DEF SessionInv
<1>4. ready # <<>> => Head(ready) \in In(ready)
  BY TailLemma DEF QueuesOK
<1> QED BY <1>1, <1>2, <1>3, <1>4

\* The caller drains only between them.
LEMMA SessionCaller ==
  ASSUME Caller, WholeDrains, FlagsOK, QueuesOK, PlacesInv, SessionInv
  PROVE  SessionInv'
<1> USE DEF port, wake, lane, readerT, dispT, abiT, history
<1>a. UNCHANGED <<portState, generation, dispatcher, ending>>
  BY DEF Caller, Drain, DropStaleActive, NothingReady, PopReady, CopyPart, CopyAll, CountDrained, CallerKick,
     DrainCall, Pause, Resume, Poll, OpenCall, CloseCall, CloseReturns
<1>e. In(<<>>) = {}
  BY EmptyLemma
<1>1. CASE DropStaleActive
  <2>1. abi = "drop" /\ active = <<>>
    BY <1>1, DrainLemma DEF DropStaleActive, Draining
  <2>2. abi' = "pop" /\ active' = active /\ UNCHANGED <<ready, drainGen, watching, request>>
    BY <1>1, <2>1 DEF DropStaleActive
  <2> QED BY <1>a, <2>1, <2>2 DEF SessionInv, Closing, Draining
<1>2. CASE PopReady
  <2>1. /\ abi = "pop" /\ ready # <<>> /\ ready' = Tail(ready) /\ Head(ready).gen = drainGen
        /\ drainGen = generation
    BY <1>2, DrainLemma DEF PopReady, Draining
  <2>2. abi' = "copy" /\ active' = <<Head(ready)>> /\ UNCHANGED <<drainGen, watching, request>>
    BY <1>2, <2>1 DEF PopReady
  <2>3. In(ready') \subseteq In(ready) /\ In(active') = {Head(ready)}
    BY <2>1, <2>2, TailLemma, SingleLemma DEF QueuesOK
  <2> QED BY <1>a, <2>1, <2>2, <2>3 DEF SessionInv, Closing, Draining
<1>3. CASE CopyAll
  <2>1. /\ abi = "copy" /\ abi' = "retire" /\ active' = <<>> /\ UNCHANGED <<ready, drainGen, watching, request>>
    BY <1>3 DEF CopyAll
  <2> QED BY <1>a, <1>e, <2>1 DEF SessionInv, Closing, Draining
<1>4. CASE NothingReady \/ CopyPart \/ CountDrained
  <2>1. ~CopyPart
    BY DEF CopyPart, WholeDrains
  <2>2. active = <<>>
    BY <1>4, <2>1 DEF NothingReady, CountDrained, PlacesInv
  <2>3. /\ abi \in {"pop", "retire"} /\ abi' \in {"idle", "arm"}
        /\ UNCHANGED <<active, ready, drainGen, watching, request>>
    BY <1>4, <2>1 DEF NothingReady, CountDrained
  <2> QED BY <1>a, <1>e, <2>2, <2>3 DEF SessionInv, Closing, Draining
<1>5. CASE CallerKick
  <2>1. Kick(abi, abi') /\ UNCHANGED <<active, ready, drainGen, watching, request>>
    BY <1>5 DEF CallerKick
  <2>2. abi \in Places /\ abi' \in Places \cup {"idle"}
    BY <2>1, KickPlaces DEF FlagsOK
  <2> QED BY <1>a, <2>1, <2>2 DEF SessionInv, Closing, Draining, Places
<1>6. CASE DrainCall
  <2>1. /\ abi = "idle" /\ watching /\ drainGen' = generation /\ abi' = "drop"
        /\ UNCHANGED <<active, ready, watching, request>>
    BY <1>6 DEF DrainCall
  <2>2. request # "open" /\ request # "close" /\ active = <<>>
    BY <2>1 DEF SessionInv
  <2> QED BY <1>a, <2>1, <2>2 DEF SessionInv, Closing, Draining
<1>7. CASE Pause \/ Resume
  <2>1. abi = "idle" /\ abi' \in {"idle", "arm"} /\ UNCHANGED <<active, ready, drainGen, watching, request>>
    BY <1>7 DEF Pause, Resume
  <2> QED BY <1>a, <2>1 DEF SessionInv, Closing, Draining
<1>8. CASE Poll
  <2>1. /\ abi = "idle" /\ UNCHANGED <<abi, active, ready, drainGen, request>>
        /\ watching' = (portState = "OPEN")
    BY <1>8 DEF Poll
  <2>2. request = "open" => ~watching'
    BY <2>1 DEF SessionInv
  <2> QED BY <1>a, <2>1, <2>2 DEF SessionInv, Closing, Draining
<1>9. CASE OpenCall
  <2>1. /\ abi = "idle" /\ request = "none" /\ portState \in {"CLOSED", "FAULT"} /\ request' = "open"
        /\ ~watching' /\ UNCHANGED <<abi, active, ready, drainGen>>
    BY <1>9 DEF OpenCall
  <2> QED BY <1>a, <2>1 DEF SessionInv, Closing, Draining
<1>10. CASE CloseCall
  <2>1. /\ abi = "idle" /\ request = "none" /\ portState \in {"OPEN", "FAULT"} /\ request' = "close"
        /\ ~watching' /\ abi' = "closePoll" /\ UNCHANGED <<active, ready, drainGen>>
    BY <1>10 DEF CloseCall
  <2> QED BY <1>a, <2>1 DEF SessionInv, Closing, Draining
<1>11. CASE CloseReturns
  <2>1. /\ abi = "closePoll" /\ portState = "CLOSED" /\ abi' = "idle"
        /\ UNCHANGED <<active, ready, drainGen, watching, request>>
    BY <1>11 DEF CloseReturns, WholeDrains
  <2> QED BY <1>a, <2>1 DEF SessionInv, Closing, Draining
<1> QED BY <1>1, <1>2, <1>3, <1>4, <1>5, <1>6, <1>7, <1>8, <1>9, <1>10, <1>11 DEF Caller, Drain

\* Every step keeps drains inside a session.
LEMMA SessionStep == WholeDrains /\ LaneInv /\ SessionInv /\ [Next]_vars => SessionInv'
<1> SUFFICES ASSUME WholeDrains, FlagsOK, QueuesOK, PlacesInv, SessionInv, [Next]_vars PROVE SessionInv'
  BY TypeParts DEF LaneInv
<1>1. CASE UNCHANGED vars
  BY <1>1 DEF vars, port, wake, lane, readerT, dispT, abiT, history, SessionInv, Closing, Draining, In
<1> QED BY <1>1, SessionFrame, SessionBoundary, SessionCaller DEF Next

\* How the count and the batches it counts move together.
LEMMA CountStep == WholeDrains /\ LaneInv /\ SessionInv /\ CountInv /\ [Next]_vars => CountInv'
<1> SUFFICES ASSUME WholeDrains, FlagsOK, QueuesOK, PlacesInv, SessionInv, CountInv, [Next]_vars PROVE CountInv'
  BY TypeParts DEF LaneInv
<1> USE DEF port, wake, lane, readerT, dispT, abiT, history
<1> DEFINE retiring == Bit(abi = "retire")
<1> DEFINE counting == Bit(dispatcher = "count")
<1>0. /\ pending \in Int /\ Len(ready) \in Nat /\ Len(active) \in Nat /\ retiring \in Nat /\ counting \in Nat
      /\ pending = Len(ready) + Len(active) + retiring - counting
  BY DEF QueuesOK, CountInv, Bit
<1>q. (pending = Len(ready) + Len(active) + retiring - counting)' => CountInv'
  BY DEF CountInv
<1>s. UNCHANGED <<pending, Len(ready), Len(active), retiring, counting>> => CountInv'
  BY <1>0, <1>q
<1>e. Len(<<>>) = 0 /\ \A x : Len(<<x>>) = 1
  OBVIOUS
<1>1. CASE Reader
  BY <1>1, <1>s DEF Reader, ReaderKick, DropForWantOfBlock, PublishToDisplay, PublishToFileOnly, Deliver
<1>2. CASE ReceiveAo
  <2>1. CASE PushReady
    <3>1. PICK d \in Desc : ready' = Append(ready, d)
      BY <2>1, PushLemma
    <3>2. Len(ready') = Len(ready) + 1
      BY <3>1 DEF QueuesOK
    <3>3. dispatcher = "acquire" /\ dispatcher' = "count" /\ UNCHANGED <<pending, active, abi>>
      BY <2>1 DEF PushReady, Goto
    <3>4. counting = 0 /\ counting' = 1 /\ retiring' = retiring
      BY <3>3 DEF Bit
    <3> QED BY <1>0, <1>q, <3>2, <3>3, <3>4
  <2>2. CASE CountReady
    <3>1. dispatcher = "count" /\ dispatcher' = "block" /\ pending' = pending + 1 /\ UNCHANGED <<ready, active, abi>>
      BY <2>2 DEF CountReady, Goto
    <3>2. counting = 1 /\ counting' = 0 /\ retiring' = retiring
      BY <3>1 DEF Bit
    <3> QED BY <1>0, <1>q, <3>1, <3>2
  <2>3. CASE ~(PushReady \/ CountReady)
    <3>1. UNCHANGED <<pending, ready, active, abi>>
      BY <1>2, <2>3 DEF ReceiveAo, TakeKick, TakeBlock, NoMoreBlocks, FormatPaused, FormatGoesOn,
         FormatNoBatch, FormatEmpty,
         Disarm, Recheck, DispatcherKick, Defer, Goto
    <3>2. dispatcher # "count" /\ dispatcher' # "count"
      BY <1>2, <2>3 DEF ReceiveAo, TakeKick, TakeBlock, NoMoreBlocks, FormatPaused, FormatGoesOn,
         FormatNoBatch, FormatEmpty,
         Disarm, Recheck, DispatcherKick, Kick, Arm, Submit, Refused, Defer, Goto
    <3>3. counting' = counting /\ retiring' = retiring
      BY <3>1, <3>2 DEF Bit
    <3> QED BY <1>s, <3>1, <3>3
  <2> QED BY <2>1, <2>2, <2>3
<1>3. CASE SerialAo
  <2>1. UNCHANGED <<active, abi>> /\ dispatcher # "count" /\ dispatcher' # "count"
    BY <1>3 DEF SerialAo, OpenSession, EndSession, ReleaseDeferred, JoinReader, ResetDisplay,
       PublishAfterReset, Goto
  <2>2. counting = 0 /\ counting' = 0 /\ retiring' = retiring
    BY <2>1 DEF Bit
  <2>3. \/ pending' = pending - Len(ready) /\ ready' = <<>>
        \/ UNCHANGED <<pending, ready>>
    BY <1>3 DEF SerialAo, OpenSession, EndSession, ReleaseDeferred, JoinReader, ResetDisplay, Retired, Goto
  <2>4. \/ pending' = pending - Len(ready) /\ Len(ready') = 0
        \/ UNCHANGED <<pending, ready>>
    BY <1>e, <2>3
  <2>5. Len(active') = Len(active)
    BY <2>1
  <2>6. CASE UNCHANGED <<pending, ready>>
    BY <1>s, <2>2, <2>5, <2>6
  <2>7. CASE pending' = pending - Len(ready) /\ Len(ready') = 0
    BY <1>0, <1>q, <2>2, <2>5, <2>7
  <2> QED BY <2>4, <2>6, <2>7
<1>4. CASE Caller
  <2>0. counting' = counting
    BY <1>4 DEF Caller, Drain, DropStaleActive, NothingReady, PopReady, CopyPart, CopyAll, CountDrained,
       CallerKick,
       DrainCall, Pause, Resume, Poll, OpenCall, CloseCall, CloseReturns
  <2>1. CASE PopReady
    <3>1. /\ abi = "pop" /\ active = <<>> /\ ready # <<>> /\ ready' = Tail(ready) /\ pending' = pending
          /\ Head(ready).gen = drainGen
      BY <2>1, DrainLemma DEF PopReady, PlacesInv, Draining
    <3>2. abi' = "copy" /\ active' = <<Head(ready)>>
      BY <2>1, <3>1 DEF PopReady
    <3>3. Len(ready') = Len(ready) - 1
      BY <3>1 DEF QueuesOK
    <3>4. retiring = 0 /\ retiring' = 0 /\ Len(active) = 0 /\ Len(active') = 1
      BY <1>e, <3>1, <3>2 DEF Bit
    <3> QED BY <1>0, <1>q, <2>0, <3>1, <3>3, <3>4
  <2>2. CASE CopyAll
    <3>1. abi = "copy" /\ abi' = "retire" /\ active # <<>> /\ active' = <<>> /\ UNCHANGED <<ready, pending>>
      BY <2>2 DEF CopyAll, PlacesInv
    <3>2. Len(active) = 1 /\ Len(active') = 0
      BY <1>e, <3>1, ShortLemma DEF QueuesOK, PlacesInv
    <3>3. retiring = 0 /\ retiring' = 1
      BY <3>1 DEF Bit
    <3> QED BY <1>0, <1>q, <2>0, <3>1, <3>2, <3>3
  <2>3. CASE CountDrained
    <3>1. abi = "retire" /\ abi' = "arm" /\ pending' = pending - 1 /\ UNCHANGED <<ready, active>>
      BY <2>3 DEF CountDrained
    <3>2. retiring = 1 /\ retiring' = 0
      BY <3>1 DEF Bit
    <3> QED BY <1>0, <1>q, <2>0, <3>1, <3>2
  <2>4. CASE ~(PopReady \/ CopyAll \/ CountDrained)
    <3>1. UNCHANGED <<pending, ready, active>> /\ abi # "retire" /\ abi' # "retire"
      <4>1. CASE DropStaleActive
        <5>1. abi = "drop" /\ active = <<>>
          BY <4>1, DrainLemma DEF DropStaleActive, Draining
        <5> QED BY <4>1, <5>1 DEF DropStaleActive
      <4>2. CASE NothingReady \/ CopyPart \/ CallerKick \/ DrainCall \/ Pause
        BY <4>2 DEF NothingReady, CopyPart, CallerKick, DrainCall, Pause, Kick, Arm, Submit, Refused
      <4>3. CASE Resume \/ Poll \/ OpenCall \/ CloseCall \/ CloseReturns
        BY <4>3 DEF Resume, Poll, OpenCall, CloseCall, CloseReturns
      <4> QED BY <1>4, <2>4, <4>1, <4>2, <4>3 DEF Caller, Drain
    <3>2. retiring' = retiring
      BY <3>1 DEF Bit
    <3> QED BY <1>s, <2>0, <3>1, <3>2
  <2> QED BY <2>1, <2>2, <2>3, <2>4
<1>5. CASE UNCHANGED vars
  BY <1>s, <1>5 DEF vars
<1> QED BY <1>1, <1>2, <1>3, <1>4, <1>5 DEF Next

\* What ReceiveAo does to the line: a segment leaves it as blank, and otherwise each is where
\* it was or one place further.
LEMMA ReceiveLine ==
  ASSUME FlagsOK, QueuesOK, PlacesInv, ReceiveAo
  PROVE  \/ OnWay' = OnWay /\ blank' = blank
         \/ OnWay = OnWay' \cup {current[1]} /\ blank' = blank \cup {current[1].id}
<1> USE DEF port, wake, lane, readerT, dispT, abiT, history
<1>e. In(<<>>) = {}
  BY EmptyLemma
<1>1. CASE TakeBlock
  <2>1. /\ dispatcher = "block" /\ dispatcher' = "format" /\ Backlog # <<>>
        /\ current' = <<Head(Backlog)>> /\ deferred' = <<>> /\ UNCHANGED <<ready, active, blank>>
        /\ ring' = IF deferred = <<>> THEN Tail(ring) ELSE ring
    BY <1>1 DEF TakeBlock
  <2>2. current = <<>> /\ Len(deferred) <= 1
    BY <2>1 DEF PlacesInv
  <2>3. Waiting = In(deferred) /\ Waiting' = {Head(Backlog)}
    BY <1>e, <2>1, <2>2, SingleLemma DEF Waiting, Formatting
  <2>4. Waiting' \cup In(ring)' = Waiting \cup In(ring)
    BY <1>e, <2>1, <2>2, <2>3, TakeLemma
  <2>5. SegsOf(active)' = SegsOf(active) /\ SegsOf(ready)' = SegsOf(ready)
    BY <2>1 DEF SegsOf
  <2> QED BY <2>1, <2>4, <2>5 DEF OnWay
<1>2. CASE FormatPaused \/ FormatNoBatch
  <2>1. /\ dispatcher \in {"format", "acquire"} /\ dispatcher' = "disarm"
        /\ deferred' = current /\ current' = <<>> /\ UNCHANGED <<ring, ready, active, blank>>
    BY <1>2 DEF FormatPaused, FormatNoBatch, Defer, Goto
  <2>2. deferred = <<>>
    BY <2>1 DEF PlacesInv
  <2>3. Waiting' = Waiting
    BY <1>e, <2>1, <2>2 DEF Waiting, Formatting
  <2> QED BY <2>1, <2>3 DEF OnWay, SegsOf
<1>3. CASE FormatEmpty
  <2>1. /\ dispatcher = "acquire" /\ dispatcher' = "block" /\ current' = <<>>
        /\ UNCHANGED <<ring, ready, active, deferred>> /\ blank' = blank \cup {current[1].id}
    BY <1>3 DEF FormatEmpty, Goto
  <2>2. In(current) = {current[1]}
    <3>1. current # <<>> /\ Len(current) <= 1 /\ current \in Seq(Segment)
      BY <2>1 DEF PlacesInv, QueuesOK
    <3>2. Len(current) = 1
      BY <3>1, ShortLemma
    <3> QED BY <3>1, <3>2, OneLemma
  <2>3. Waiting = Waiting' \cup {current[1]}
    BY <1>e, <2>1, <2>2 DEF Waiting, Formatting
  <2> QED BY <2>1, <2>3 DEF OnWay, SegsOf
<1>4. CASE PushReady
  <2>1. PICK d \in Desc : d.seg = current[1] /\ ready' = Append(ready, d)
    BY <1>4, PushLemma
  <2>2. /\ dispatcher = "acquire" /\ dispatcher' = "count" /\ UNCHANGED <<ring, deferred, current, active, blank>>
    BY <1>4 DEF PushReady, Goto
  <2>3. Waiting = Waiting' \cup {d.seg}
    BY <1>4, <1>e, <2>1, <2>2, PushLemma DEF Waiting, Formatting
  <2>4. SegsOf(ready') = SegsOf(ready) \cup {d.seg}
    BY <2>1, BufsAppend DEF QueuesOK
  <2>5. SegsOf(active)' = SegsOf(active) /\ In(ring)' = In(ring)
    BY <2>2 DEF SegsOf
  <2> QED BY <2>2, <2>3, <2>4, <2>5 DEF OnWay
<1>5. CASE CountReady
  <2>1. /\ dispatcher = "count" /\ dispatcher' = "block" /\ current' = <<>>
        /\ UNCHANGED <<ring, ready, active, deferred, blank>>
    BY <1>5 DEF CountReady, Goto
  <2>2. Waiting' = Waiting
    BY <1>e, <2>1 DEF Waiting, Formatting
  <2> QED BY <2>1, <2>2 DEF OnWay, SegsOf
<1>6. CASE TakeKick \/ NoMoreBlocks \/ FormatGoesOn \/ Disarm \/ Recheck \/ DispatcherKick
  <2>1. UNCHANGED <<ring, ready, current, deferred, active, blank>>
    BY <1>6 DEF TakeKick, NoMoreBlocks, FormatGoesOn, Disarm, Recheck, DispatcherKick, Goto
  <2>2. dispatcher # "count" /\ dispatcher' # "count"
    BY <1>6 DEF TakeKick, NoMoreBlocks, FormatGoesOn, Disarm, Recheck, DispatcherKick, Kick, Arm, Submit,
       Refused, Goto
  <2>3. Waiting' = Waiting
    BY <2>1, <2>2 DEF Waiting, Formatting
  <2> QED BY <2>1, <2>3 DEF OnWay, SegsOf
<1> QED BY <1>1, <1>2, <1>3, <1>4, <1>5, <1>6 DEF ReceiveAo

\* Segments leave the line to a ledger or the screen: the others keep their place.
LEMMA LeavesLine ==
  ASSUME UnloggedInv, OnWay' \subseteq OnWay, NEW gone, OnWay \subseteq OnWay' \cup gone,
         \A s \in gone : s.id \in unlogged => s.id \in In(shown') \cup In(charged') \cup blank',
         In(shown) \subseteq In(shown'), In(charged) \subseteq In(charged'), blank \subseteq blank',
         UNCHANGED <<unlogged, reader, arriving, received>>
  PROVE  UnloggedInv'
<1>1. Held' = Held
  BY DEF Held
<1>2. \A s \in OnWay' : s.unlogged <=> s.id \in unlogged'
  BY DEF UnloggedInv
<1>3. ASSUME NEW id \in unlogged PROVE id \in IdsOf(OnWay') \cup In(shown') \cup In(charged') \cup blank' \cup Held'
  <2>1. CASE id \in IdsOf(OnWay)
    <3>1. PICK s \in OnWay : s.id = id
      BY <2>1 DEF IdsOf
    <3> QED BY <3>1, <1>3 DEF IdsOf
  <2>2. CASE id \in In(shown) \cup In(charged) \cup blank \cup Held
    BY <1>1, <2>2
  <2> QED BY <2>1, <2>2 DEF UnloggedInv
<1>4. reader' = "publish" => (arriving' = "unlogged" <=> received' \in unlogged')
  BY DEF UnloggedInv
<1>5. unlogged' \subseteq IdsOf(OnWay)' \cup In(shown)' \cup In(charged)' \cup blank' \cup Held'
  BY <1>3
<1> QED BY <1>2, <1>4, <1>5 DEF UnloggedInv

\* One segment leaves, or none.
LEMMA OneLeaves ==
  ASSUME UnloggedInv, OnWay' \subseteq OnWay, NEW s, OnWay \subseteq OnWay' \cup {s},
         s.id \in In(shown') \cup blank',
         In(shown) \subseteq In(shown'), charged' = charged, blank \subseteq blank',
         UNCHANGED <<unlogged, reader, arriving, received>>
  PROVE  UnloggedInv'
<1> DEFINE gone == {s}
<1>1. /\ OnWay \subseteq OnWay' \cup gone
      /\ \A t \in gone : t.id \in unlogged => t.id \in In(shown') \cup In(charged') \cup blank'
      /\ In(charged) \subseteq In(charged')
  OBVIOUS
<1> HIDE DEF gone
<1> QED BY <1>1, LeavesLine

\* None leaves the line.
LEMMA NoneLeaves ==
  ASSUME UnloggedInv, OnWay' = OnWay, UNCHANGED <<unlogged, reader, arriving, received, shown, charged, blank>>
  PROVE  UnloggedInv'
BY DEF UnloggedInv, Held

\* Segments that are charged and leave the line.
LEMMA ChargedLeave ==
  ASSUME LedgersOK, UnloggedInv, NEW segs \in Seq(Segment), Charge(segs), In(segs) \subseteq OnWay,
         OnWay' \subseteq OnWay, OnWay \subseteq OnWay' \cup In(segs),
         UNCHANGED <<shown, blank, unlogged, reader, arriving, received>>
  PROVE  UnloggedInv'
<1>1. /\ Unlogged(segs) \in Seq(Nat)
      /\ In(Unlogged(segs)) = {p.id : p \in {q \in In(segs) : q.unlogged}}
  BY UnloggedLemma
<1>2. In(charged') = In(charged) \cup In(Unlogged(segs))
  BY <1>1, LedgerConcat DEF Charge, LedgersOK
<1>3. \A s \in In(segs) : s.id \in unlogged => s.id \in In(charged')
  BY <1>1, <1>2 DEF UnloggedInv
<1> QED BY <1>2, <1>3, LeavesLine

\* A segment with no file lane is in the read thread's hand, on the ring, or charged.
LEMMA ReaderUnlogged == LaneInv /\ StreamInv /\ UnloggedInv /\ Reader => UnloggedInv'
<1> SUFFICES ASSUME FlagsOK, QueuesOK, LedgersOK, PlacesInv, LedgerInv, UnloggedInv, Reader PROVE UnloggedInv'
  BY TypeParts DEF LaneInv, StreamInv
<1> USE DEF port, wake, lane, readerT, dispT, abiT, history
<1>a. UNCHANGED <<ready, active, current, deferred, dispatcher, shown, blank>>
  BY DEF Reader, ReaderKick, DropForWantOfBlock, PublishToDisplay, PublishToFileOnly, Deliver
<1>b. SegsOf(active)' = SegsOf(active) /\ SegsOf(ready)' = SegsOf(ready) /\ Waiting' = Waiting
  BY <1>a DEF SegsOf, Waiting, Formatting
<1>n. received \in Nat
  BY DEF FlagsOK
<1>u. unlogged \subseteq IdsOf(OnWay) \cup In(shown) \cup In(charged) \cup blank \cup Held
  BY DEF UnloggedInv
<1>1. CASE ReaderKick
  <2>1. UNCHANGED <<ring, received, charged, unlogged, arriving>> /\ reader # "publish" /\ reader' # "publish"
    BY <1>1 DEF ReaderKick, Kick, Arm, Submit, Refused
  <2>2. OnWay' = OnWay /\ Held' = Held
    BY <1>b, <2>1 DEF OnWay, Held
  <2> QED BY <1>a, <2>1, <2>2 DEF UnloggedInv
<1>2. CASE PublishToFileOnly
  <2>1. /\ reader = "publish" /\ reader' = "arm" /\ arriving = "logged"
        /\ UNCHANGED <<ring, received, charged, unlogged, arriving>>
    BY <1>2 DEF PublishToFileOnly
  <2>2. OnWay' = OnWay /\ Held = {received} /\ Held' = {}
    BY <1>b, <2>1 DEF OnWay, Held
  <2>3. received \notin unlogged
    BY <2>1 DEF UnloggedInv
  <2>4. unlogged' \subseteq IdsOf(OnWay)' \cup In(shown)' \cup In(charged)' \cup blank' \cup Held'
    BY <1>a, <1>u, <2>1, <2>2, <2>3
  <2> QED BY <2>1, <2>2, <2>4 DEF UnloggedInv
<1>3. CASE PublishToDisplay
  <2> DEFINE s == [id |-> received, gen |-> generation, unlogged |-> arriving = "unlogged"]
  <2>1. /\ s \in Segment /\ ring' = Append(ring, s) /\ s.id = received
        /\ reader = "publish" /\ reader' = "arm" /\ UNCHANGED <<received, charged, unlogged, arriving>>
    BY <1>3 DEF PublishToDisplay, Segment, FlagsOK
  <2>2. s.unlogged <=> arriving = "unlogged"
    OBVIOUS
  <2> HIDE DEF s
  <2>3. In(ring') = In(ring) \cup {s}
    BY <2>1, AppendLemma DEF QueuesOK
  <2>4. OnWay' = OnWay \cup {s} /\ Held = {received} /\ Held' = {}
    BY <1>b, <2>1, <2>3 DEF OnWay, Held
  <2>5. s.unlogged <=> s.id \in unlogged
    BY <2>1, <2>2 DEF UnloggedInv
  <2>6. \A t \in OnWay' : t.unlogged <=> t.id \in unlogged'
    BY <2>1, <2>4, <2>5 DEF UnloggedInv
  <2>7. IdsOf(OnWay') = IdsOf(OnWay) \cup Held
    BY <2>1, <2>4 DEF IdsOf
  <2>8. unlogged' \subseteq IdsOf(OnWay)' \cup In(shown)' \cup In(charged)' \cup blank' \cup Held'
    BY <1>a, <1>u, <2>1, <2>4, <2>7
  <2> QED BY <2>1, <2>6, <2>8 DEF UnloggedInv
<1>4. CASE DropForWantOfBlock
  <2>1. /\ reader = "publish" /\ reader' = "idle" /\ charged' = Append(charged, received)
        /\ UNCHANGED <<ring, received, unlogged, arriving>>
    BY <1>4 DEF DropForWantOfBlock
  <2>2. OnWay' = OnWay /\ Held = {received} /\ Held' = {}
    BY <1>b, <2>1 DEF OnWay, Held
  <2>3. In(charged') = In(charged) \cup {received}
    <3>1. charged \in Seq(Nat) /\ received \in Nat
      BY <1>n DEF LedgersOK
    <3>2. In(Append(charged, received)) = In(charged) \cup {received}
      BY <3>1, AppendLemma
    <3> QED BY <2>1, <3>2
  <2>4. unlogged' \subseteq IdsOf(OnWay)' \cup In(shown)' \cup In(charged)' \cup blank' \cup Held'
    BY <1>a, <1>u, <2>1, <2>2, <2>3
  <2> QED BY <2>1, <2>2, <2>4 DEF UnloggedInv
<1>5. CASE \E kind \in {"logged", "unlogged"} : Deliver(kind)
  <2>1. PICK kind \in {"logged", "unlogged"} : Deliver(kind)
    BY <1>5
  <2>2. received' = received + 1 /\ ring' = ring /\ reader = "idle" /\ Held = {}
    BY <2>1 DEF Deliver, Held
  <2>3. \/ /\ reader' = "publish" /\ arriving' = kind /\ charged' = charged
           /\ unlogged' = IF kind = "unlogged" THEN unlogged \cup {received'} ELSE unlogged
        \/ /\ reader' = "idle" /\ charged' = Append(charged, received')
           /\ unlogged' = unlogged \cup {received'}
    BY <2>1, <2>2 DEF Deliver
  <2>4. OnWay' = OnWay
    BY <1>b, <2>2 DEF OnWay
  <2>5. received' \notin 1 .. received /\ received' \in Nat
    BY <1>n, <2>2
  <2>6. received' \notin unlogged /\ \A s \in OnWay : s.id # received'
    BY <2>5 DEF LedgerInv
  <2>7. \A s \in OnWay' : s.unlogged <=> s.id \in unlogged'
    BY <2>3, <2>4, <2>6 DEF UnloggedInv
  <2>8. CASE /\ reader' = "publish" /\ arriving' = kind /\ charged' = charged
             /\ unlogged' = IF kind = "unlogged" THEN unlogged \cup {received'} ELSE unlogged
    <3>1. Held' = {received'}
      BY <2>8 DEF Held
    <3>2. unlogged' \subseteq IdsOf(OnWay)' \cup In(shown)' \cup In(charged)' \cup blank' \cup Held'
      BY <1>a, <1>u, <2>2, <2>4, <2>8, <3>1
    <3>3. arriving' = "unlogged" <=> received' \in unlogged'
      BY <2>6, <2>8
    <3> QED BY <2>7, <3>2, <3>3 DEF UnloggedInv
  <2>9. CASE /\ reader' = "idle" /\ charged' = Append(charged, received')
             /\ unlogged' = unlogged \cup {received'}
    <3>1. In(charged') = In(charged) \cup {received'}
      BY <2>5, <2>9, AppendLemma DEF LedgersOK
    <3>2. unlogged' \subseteq IdsOf(OnWay)' \cup In(shown)' \cup In(charged)' \cup blank' \cup Held'
      BY <1>a, <1>u, <2>2, <2>4, <2>9, <3>1
    <3> QED BY <2>7, <2>9, <3>2 DEF UnloggedInv
  <2> QED BY <2>3, <2>8, <2>9
<1> QED BY <1>1, <1>2, <1>3, <1>4, <1>5 DEF Reader

\* ReceiveAo formats it or keeps it.
LEMMA ReceiveUnlogged == LaneInv /\ UnloggedInv /\ ReceiveAo => UnloggedInv'
<1> SUFFICES ASSUME FlagsOK, QueuesOK, PlacesInv, UnloggedInv, ReceiveAo PROVE UnloggedInv'
  BY TypeParts DEF LaneInv
<1> USE DEF port, wake, lane, readerT, dispT, abiT, history
<1>1. UNCHANGED <<shown, charged, received, unlogged, reader, arriving>>
  BY DEF ReceiveAo, TakeKick, TakeBlock, NoMoreBlocks, FormatPaused, FormatGoesOn, FormatNoBatch, FormatEmpty,
     PushReady, CountReady, Disarm, Recheck, DispatcherKick, Defer, Goto
<1>2. CASE OnWay' = OnWay /\ blank' = blank
  BY <1>1, <1>2, NoneLeaves
<1>3. CASE OnWay = OnWay' \cup {current[1]} /\ blank' = blank \cup {current[1].id}
  BY <1>1, <1>3, OneLeaves
<1> QED BY <1>2, <1>3, ReceiveLine

\* A session boundary charges it when it retires it.
LEMMA SerialUnlogged == LaneInv /\ UnloggedInv /\ SerialAo => UnloggedInv'
<1> SUFFICES ASSUME FlagsOK, QueuesOK, LedgersOK, PlacesInv, UnloggedInv, SerialAo PROVE UnloggedInv'
  BY TypeParts DEF LaneInv
<1> USE DEF port, wake, lane, readerT, dispT, abiT, history
<1>a. UNCHANGED <<shown, blank, received, unlogged, reader, arriving, active, ring, current>>
  BY DEF SerialAo, OpenSession, EndSession, ReleaseDeferred, JoinReader, ResetDisplay, PublishAfterReset, Goto
<1>b. SegsOf(active)' = SegsOf(active) /\ In(ring)' = In(ring)
  BY <1>a DEF SegsOf
<1>c. Formatting = {} /\ Formatting' = {}
  <2>1. dispatcher \notin {"format", "acquire", "count"}
    BY DEF SerialAo, OpenSession, EndSession, ReleaseDeferred, JoinReader, ResetDisplay
  <2>2. current = <<>>
    BY <2>1 DEF PlacesInv
  <2> QED BY <1>a, <2>2, EmptyLemma DEF Formatting
<1>1. CASE ReleaseDeferred
  <2>1. Charge(deferred) /\ deferred' = <<>> /\ ready' = ready
    BY <1>1 DEF ReleaseDeferred
  <2>2. Waiting = In(deferred) /\ Waiting' = {} /\ SegsOf(ready)' = SegsOf(ready)
    BY <1>c, <2>1, EmptyLemma DEF Waiting, SegsOf
  <2>3. OnWay = OnWay' \cup In(deferred)
    BY <1>b, <2>2 DEF OnWay
  <2> QED BY <1>a, <2>1, <2>3, ChargedLeave DEF QueuesOK
<1>2. CASE ResetDisplay
  <2> DEFINE segs == [i \in 1 .. Len(ready) |-> ready[i].seg]
  <2>1. Charge(segs) /\ ready' = <<>> /\ deferred' = deferred
    BY <1>2 DEF ResetDisplay, Retired
  <2>2. segs \in Seq(Segment) /\ In(segs) = SegsOf(ready)
    BY ReadySegs
  <2> HIDE DEF segs
  <2>3. Waiting' = Waiting /\ SegsOf(ready)' = {}
    BY <1>c, <2>1, BufsEmpty DEF Waiting
  <2>4. OnWay = OnWay' \cup In(segs)
    BY <1>b, <2>2, <2>3 DEF OnWay
  <2> QED BY <1>a, <2>1, <2>2, <2>4, ChargedLeave
<1>3. CASE OpenSession \/ EndSession("close") \/ EndSession("fault") \/ JoinReader
  <2>1. UNCHANGED <<deferred, ready, charged>>
    BY <1>3 DEF OpenSession, EndSession, JoinReader, Goto
  <2>2. OnWay' = OnWay
    BY <1>b, <1>c, <2>1 DEF OnWay, Waiting, SegsOf
  <2> QED BY <1>a, <2>1, <2>2, NoneLeaves
<1> QED BY <1>1, <1>2, <1>3 DEF SerialAo

\* The caller shows what it takes off the ring.
LEMMA CallerUnlogged == WholeDrains /\ LaneInv /\ SessionInv /\ UnloggedInv /\ Caller => UnloggedInv'
<1> SUFFICES ASSUME FlagsOK, QueuesOK, LedgersOK, PlacesInv, SessionInv, UnloggedInv, Caller PROVE UnloggedInv'
  BY TypeParts DEF LaneInv
<1> USE DEF port, wake, lane, readerT, dispT, abiT, history
<1>a. UNCHANGED <<charged, blank, received, unlogged, reader, arriving, ring, current, deferred, dispatcher>>
  BY DEF Caller, Drain, DropStaleActive, NothingReady, PopReady, CopyPart, CopyAll, CountDrained, CallerKick,
     DrainCall, Pause, Resume, Poll, OpenCall, CloseCall, CloseReturns
<1>b. Waiting' = Waiting /\ In(ring)' = In(ring)
  BY <1>a DEF Waiting, Formatting
<1>s. UNCHANGED <<ready, active, shown>> => UnloggedInv'
  <2>1. UNCHANGED <<ready, active, shown>> => OnWay' = OnWay
    BY <1>b DEF OnWay, SegsOf
  <2> QED BY <1>a, <2>1, NoneLeaves
<1>1. CASE DropStaleActive
  <2>1. active = <<>>
    BY <1>1, DrainLemma DEF DropStaleActive, Draining
  <2>2. UNCHANGED <<ready, active, shown>>
    BY <1>1, <2>1 DEF DropStaleActive
  <2> QED BY <1>s, <2>2
<1>2. CASE PopReady
  <2>1. /\ active = <<>> /\ ready # <<>> /\ ready' = Tail(ready) /\ shown' = shown
        /\ Head(ready).gen = drainGen
    BY <1>2, DrainLemma DEF PopReady, PlacesInv, Draining
  <2>2. active' = <<Head(ready)>>
    BY <1>2, <2>1 DEF PopReady
  <2>3. SegsOf(ready) = SegsOf(ready') \cup {Head(ready).seg} /\ SegsOf(active) = {}
    BY <2>1, BufsTail, BufsEmpty DEF QueuesOK
  <2>4. SegsOf(active') = {Head(ready).seg}
    BY <2>2, BufsSingle
  <2>5. OnWay' = OnWay
    BY <1>b, <2>3, <2>4 DEF OnWay
  <2> QED BY <1>a, <2>1, <2>5, NoneLeaves
<1>3. CASE CopyAll
  <2> DEFINE s == active[1].seg
  <2>1. active # <<>> /\ active' = <<>> /\ ready' = ready /\ shown' = Append(shown, s.id)
    BY <1>3 DEF CopyAll, PlacesInv
  <2>2. SegsOf(active) = {s} /\ SegsOf(active') = {} /\ s \in Segment
    BY <2>1, BufsOne, BufsEmpty DEF QueuesOK, PlacesInv
  <2> HIDE DEF s
  <2>3. s.id \in Nat
    BY <2>2 DEF Segment
  <2>4. In(shown') = In(shown) \cup {s.id}
    <3>1. shown \in Seq(Nat)
      BY DEF LedgersOK
    <3> QED BY <2>1, <2>3, <3>1, AppendLemma
  <2>5. SegsOf(ready)' = SegsOf(ready)
    BY <2>1 DEF SegsOf
  <2>6. OnWay = OnWay' \cup {s}
    BY <1>b, <2>2, <2>5 DEF OnWay
  <2> QED BY <1>a, <2>4, <2>6, OneLeaves
<1>4. CASE ~(DropStaleActive \/ PopReady \/ CopyAll)
  <2>1. UNCHANGED <<ready, active, shown>>
    <3>1. CASE NothingReady \/ CopyPart \/ CountDrained \/ CallerKick \/ DrainCall \/ Pause
      BY <3>1 DEF NothingReady, CopyPart, CountDrained, CallerKick, DrainCall, Pause
    <3>2. CASE Resume \/ Poll \/ OpenCall \/ CloseCall \/ CloseReturns
      BY <3>2 DEF Resume, Poll, OpenCall, CloseCall, CloseReturns
    <3> QED BY <1>4, <3>1, <3>2 DEF Caller, Drain
  <2> QED BY <1>s, <2>1
<1> QED BY <1>1, <1>2, <1>3, <1>4

-----------------------------------------------------------------------------
(* Theorems.                                                               *)

\* All the invariants of a client that waits for CLOSED and takes whole batches.
WholeInv == LaneInv /\ StreamInv /\ SessionInv /\ CountInv /\ UnloggedInv

\* Every step keeps them.
LEMMA WholeStep == WholeDrains /\ WholeInv /\ [Next]_vars => WholeInv'
<1>1. UnloggedInv /\ UNCHANGED vars => UnloggedInv'
  BY DEF vars, port, wake, lane, readerT, dispT, abiT, history, UnloggedInv, OnWay, SegsOf, Waiting, Formatting,
     Held, In, IdsOf
<1>2. WholeDrains /\ WholeInv /\ [Next]_vars => UnloggedInv'
  BY <1>1, ReaderUnlogged, ReceiveUnlogged, SerialUnlogged, CallerUnlogged DEF Next, WholeInv
<1> QED BY <1>2, LaneStep, StreamStep, SessionStep, CountStep DEF WholeInv

\* They hold at the start.
LEMMA WholeInit == Init => WholeInv
<1> SUFFICES ASSUME Init PROVE WholeInv
  OBVIOUS
<1>1. /\ SegsOf(active) = {} /\ SegsOf(ready) = {} /\ Waiting = {} /\ In(ring) = {}
      /\ In(ready) = {} /\ In(active) = {}
  BY EmptyLemma, BufsEmpty DEF Init, Waiting, Formatting
<1>2. SessionInv
  BY <1>1 DEF Init, SessionInv, Closing, Draining
<1>3. CountInv
  BY DEF Init, CountInv, Bit
<1>4. UnloggedInv
  BY <1>1 DEF Init, UnloggedInv, OnWay
<1> QED BY <1>2, <1>3, <1>4, LaneInit, StreamInit DEF WholeInv

\* So they always hold.
LEMMA WholeAlways == WholeDrains => (Spec => []WholeInv)
<1> SUFFICES ASSUME WholeDrains PROVE Spec => []WholeInv
  OBVIOUS
<1>1. WholeInv /\ [Next]_vars => WholeInv'
  BY WholeStep
<1> QED BY <1>1, WholeInit, PTL DEF Spec

\* Whatever the client does, with kicks refused, drains into small buffers and closes that time
\* out: the threads' places fit their data, one wake at a time, every batch in one place.
THEOREM WakesAndBatches == Spec => [](TypeOK /\ OneWake /\ BatchesConserved)
<1>1. LaneInv => TypeOK /\ OneWake /\ BatchesConserved
  BY BatchesLemma DEF LaneInv
<1> QED BY <1>1, LaneAlways, PTL

\* With a client whose close waits for CLOSED and whose buffer takes a batch, display_pending is
\* moreover the number of batches left to drain.
THEOREM LaneIsExact == WholeDrains => (Spec => []LaneExact)
<1> SUFFICES ASSUME WholeDrains PROVE Spec => []LaneExact
  OBVIOUS
<1>1. Spec => []WholeInv
  BY WholeAlways
<1>2. WholeInv => LaneExact
  <2> SUFFICES ASSUME WholeInv PROVE LaneExact
    OBVIOUS
  <2>1. LaneInv /\ CountInv /\ BatchesConserved
    BY BatchesLemma DEF WholeInv
  <2>2. Len(Descs) = Len(ready) + Len(active)
    <3>1. ready \in Seq(Desc) /\ active \in Seq(Desc)
      BY <2>1 DEF LaneInv, TypeOK
    <3> QED BY <3>1, ConcatProperties DEF Descs
  <2>3. PendingExact
    BY <2>1, <2>2 DEF CountInv, PendingExact
  <2> QED BY <2>1, <2>3 DEF LaneInv, LaneExact
<1> QED BY <1>1, <1>2, PTL

\* With such a client no byte is lost silently: a segment with no file lane is on its way, on the
\* screen, blank, or in the loss ledger.
THEOREM NothingLostSilently == WholeDrains => (Spec => []NoSilentLoss)
<1> SUFFICES ASSUME WholeDrains PROVE Spec => []NoSilentLoss
  OBVIOUS
<1>1. Spec => []WholeInv
  BY WholeAlways
<1>2. WholeInv => NoSilentLoss
  <2> SUFFICES ASSUME WholeInv PROVE NoSilentLoss
    OBVIOUS
  <2>1. /\ ready \in Seq(Desc) /\ active \in Seq(Desc) /\ ring \in Seq(Segment) /\ deferred \in Seq(Segment)
        /\ current \in Seq(Segment) /\ shown \in Seq(Nat) /\ charged \in Seq(Nat)
    BY DEF WholeInv, LaneInv, TypeOK
  <2>2. Members(shown) = In(shown) /\ Members(charged) = In(charged)
    <3>1. DOMAIN shown = 1 .. Len(shown) /\ DOMAIN charged = 1 .. Len(charged)
      BY <2>1
    <3> QED BY <3>1 DEF Members, In
  <2>3. In(Backlog \o current) = In(deferred) \cup In(ring) \cup In(current) /\ Backlog \o current \in Seq(Segment)
    <3>1. Backlog \in Seq(Segment) /\ In(Backlog) = In(deferred) \cup In(ring)
      BY <2>1, InConcat DEF Backlog
    <3> QED BY <2>1, <3>1, InConcat
  <2>4. In(Descs) = In(ready) \cup In(active) /\ Descs \in Seq(Desc)
    BY <2>1, InConcat DEF Descs
  <2>5. Members(Backlog \o current) = In(Backlog \o current) /\ Members(Descs) = In(Descs)
    <3>1. DOMAIN (Backlog \o current) = 1 .. Len(Backlog \o current) /\ DOMAIN Descs = 1 .. Len(Descs)
      BY <2>3, <2>4
    <3> QED BY <3>1 DEF Members, In
  <2>6. OnWay \subseteq Members(Backlog \o current) \cup {d.seg : d \in Members(Descs)}
    BY <2>3, <2>4, <2>5 DEF OnWay, Waiting, Formatting, SegsOf
  <2>7. IdsOf(OnWay) \subseteq OnTheWay
    BY <2>6 DEF IdsOf, OnTheWay
  <2>8. unlogged \subseteq IdsOf(OnWay) \cup In(shown) \cup In(charged) \cup blank \cup Held
    BY DEF WholeInv, UnloggedInv
  <2>9. \A id \in Held : id = received /\ reader = "publish"
    BY DEF Held
  <2> QED BY <2>2, <2>7, <2>8, <2>9 DEF NoSilentLoss
<1> QED BY <1>1, <1>2, PTL
===============================================================================
