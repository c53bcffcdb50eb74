------------------------------ MODULE RxDisplay ------------------------------
(***************************************************************************)
(* How received data reaches the screen.  The read thread queues segments  *)
(* on the display ring and wakes ReceiveAo with a kick; ReceiveAo, on the  *)
(* Dispatcher, formats them into display batches; the caller thread drains *)
(* the batches through the ABI.  A block that finds the display paused or  *)
(* the batch pool empty waits in ReceiveAo's deferred slot until the       *)
(* caller resumes or drains.  Session boundaries, on the Dispatcher too,   *)
(* retire what was not drained.                                            *)
(*                                                                         *)
(* All three threads submit kicks through the RxKickGate; each action is   *)
(* one stretch of code between two accesses the other threads can see.     *)
(***************************************************************************)
EXTENDS Integers, Sequences, FiniteSets

CONSTANTS
  SegmentBound,  \* bound: segments the read thread delivers
  SessionBound,  \* bound: sessions opened
  PauseBound,    \* bound: times the caller pauses the display
  Blocks,        \* RX blocks (kRxBlockCount)
  Batches,       \* ids of the display batches (kDisplayBatchCount of them)
  KickBlocks,    \* blocks ReceiveAo handles per kick
  KickRefusable, \* TRUE: coact may refuse a kick
  SmallBuffer,   \* TRUE: a drain buffer may be smaller than a batch
  CloseTimesOut  \* TRUE: xcom_close may give up waiting for CLOSED

ASSUME RxDisplayAssumption ==
  /\ SegmentBound \in Nat /\ SessionBound \in Nat /\ PauseBound \in Nat
  /\ Blocks \in Nat \ {0} /\ KickBlocks \in Nat \ {0}
  /\ {KickRefusable, SmallBuffer, CloseTimesOut} \subseteq BOOLEAN

VARIABLES
  portState,      \* CoreCtx::port_state
  generation,     \* CoreCtx::generation
  openGeneration, \* CoreCtx::open_generation
  ring,           \* RxBlockLane::display_ready_
  deferred,       \* RxCtx::deferred: no block or one
  gate,           \* RxKickGate::pending_
  kicks,          \* kick events coact has queued
  paused,         \* CoreCtx::pause_display
  freeBatches,    \* DisplayLane::buffers_, the batches not handed out
  ready,          \* DisplayLane::ready_ring_
  active,         \* DisplayLane::consumer_desc_, when consumer_active_
  pending,        \* Metrics::display_pending
  reader,         \* where the read thread is
  arriving,       \* the kind of segment it holds
  dispatcher,     \* where the Dispatcher is
  current,        \* the block rx_kick_action is formatting
  rounds,         \* its loop counter
  ending,         \* what sink_owner_close runs for: "close" or "fault"
  abi,            \* where the caller thread is
  drainGen,       \* the generation it passed to drain_into
  request,        \* the open or close request it submitted
  watching,       \* the client drains: it saw the port OPEN and did not close it
  pauses,         \* times paused
  received,       \* history: segments received so far, the id of the latest
  unlogged,       \* history: ids that had no file lane
  shown,          \* history: ids the caller drained, in order
  charged,        \* history: ids charged to save_rejected_bytes, in order
  blank           \* history: ids whose formatted text was empty

port    == <<portState, generation, openGeneration>>
wake    == <<gate, kicks>>
lane    == <<freeBatches, ready, pending>>
readerT == <<reader, arriving>>
dispT   == <<dispatcher, current, rounds, ending>>
abiT    == <<abi, drainGen, active, watching, pauses, paused>>
history == <<received, unlogged, shown, charged, blank>>
vars == <<port, ring, deferred, wake, lane, readerT, dispT, abiT, request, history>>

Segment == [id : Nat, gen : Nat, unlogged : BOOLEAN]
Desc    == [buf : Batches, gen : Nat, seg : Segment]
Places  == {"arm", "submit", "refused"}

TypeOK ==
  /\ portState \in {"CLOSED", "OPEN", "CLOSING", "FAULT"}
  /\ generation \in Nat /\ openGeneration \in Nat
  /\ ring \in Seq(Segment) /\ deferred \in Seq(Segment) /\ current \in Seq(Segment)
  /\ gate \in BOOLEAN /\ kicks \in Nat /\ paused \in BOOLEAN
  /\ freeBatches \subseteq Batches
  /\ ready \in Seq(Desc) /\ active \in Seq(Desc) /\ pending \in Int
  /\ reader \in {"idle", "publish"} \cup Places
  /\ arriving \in {"logged", "unlogged"}
  /\ dispatcher \in {"idle", "block", "format", "acquire", "count", "disarm", "recheck",
                     "ownerClose", "joinReader", "openReset", "closeReset"} \cup Places
  /\ rounds \in 0 .. KickBlocks /\ ending \in {"close", "fault"}
  /\ abi \in {"idle", "drop", "pop", "copy", "retire", "closePoll"} \cup Places
  /\ drainGen \in Nat /\ request \in {"none", "open", "close"}
  /\ watching \in BOOLEAN /\ pauses \in Nat /\ received \in Nat
  /\ unlogged \in SUBSET Nat /\ blank \in SUBSET Nat
  /\ shown \in Seq(Nat) /\ charged \in Seq(Nat)

Init ==
  /\ portState = "CLOSED" /\ generation = 0 /\ openGeneration = 0
  /\ ring = <<>> /\ deferred = <<>> /\ current = <<>>
  /\ gate = FALSE /\ kicks = 0 /\ paused = FALSE
  /\ freeBatches = Batches /\ ready = <<>> /\ active = <<>> /\ pending = 0
  /\ reader = "idle" /\ arriving = "logged"
  /\ dispatcher = "idle" /\ rounds = 0 /\ ending = "close"
  /\ abi = "idle" /\ drainGen = 0 /\ request = "none" /\ watching = FALSE /\ pauses = 0
  /\ received = 0 /\ unlogged = {} /\ blank = {} /\ shown = <<>> /\ charged = <<>>

-----------------------------------------------------------------------------
(* RxKickGate and submit_rx_kick, as each thread passes through them: the  *)
(* thread arms the gate or leaves; armed, it submits; refused, it disarms. *)
(* "at" and "next" are that thread's place before and after.               *)

Arm(at, next) == /\ at = "arm"
                 /\ gate' = TRUE
                 /\ next = IF gate THEN "idle" ELSE "submit"
                 /\ UNCHANGED kicks

\* Mutation: a refused kick leaves the gate armed.
SubmitLeavesGate(at, next) == /\ at = "submit"
                              /\ \/ kicks' = kicks + 1
                                 \/ KickRefusable /\ UNCHANGED kicks
                              /\ next = "idle" /\ UNCHANGED gate

Submit(at, next) == /\ at = "submit"
                    /\ \/ kicks' = kicks + 1 /\ next = "idle"
                       \/ KickRefusable /\ next = "refused" /\ UNCHANGED kicks
                    /\ UNCHANGED gate

Refused(at, next) == /\ at = "refused"
                     /\ gate' = FALSE /\ next = "idle"
                     /\ UNCHANGED kicks

Kick(at, next) == Arm(at, next) \/ Submit(at, next) \/ Refused(at, next)

\* Loss ledger: count_rejected_rx for the segments that had no file lane.
Unlogged(segs) ==
  LET lost   == {i \in DOMAIN segs : segs[i].unlogged}
      nth(n) == CHOOSE i \in lost : Cardinality({j \in lost : j <= i}) = n
  IN  [n \in 1 .. Cardinality(lost) |-> segs[nth(n)].id]
Charge(segs) == charged' = charged \o Unlogged(segs)

Backlog == deferred \o ring

-----------------------------------------------------------------------------
(* The read thread: rx_ingress.                                            *)

\* The port test; a segment nobody owns is charged at once.
Deliver(kind) ==
  /\ reader = "idle" /\ received < SegmentBound
  /\ dispatcher # "joinReader"
  /\ received' = received + 1
  /\ IF portState = "OPEN"
       THEN /\ reader' = "publish" /\ arriving' = kind
            /\ unlogged' = IF kind = "unlogged" THEN unlogged \cup {received'} ELSE unlogged
            /\ UNCHANGED charged
       ELSE /\ charged' = Append(charged, received')
            /\ unlogged' = unlogged \cup {received'}
            /\ UNCHANGED readerT
  /\ UNCHANGED <<port, ring, deferred, wake, lane, dispT, abiT, request, shown, blank>>

BlocksHeld == Len(Backlog) + Len(current)

\* try_alloc and publish.  A logged segment leaves the display out when only
\* the file lane's reserve is left; an unlogged one is lost when no block is.
DropForWantOfBlock ==
  /\ reader = "publish" /\ arriving = "unlogged" /\ BlocksHeld = Blocks
  /\ charged' = Append(charged, received)
  /\ reader' = "idle"
  /\ UNCHANGED <<port, ring, deferred, wake, lane, arriving, dispT, abiT, request,
                 received, unlogged, shown, blank>>

PublishToDisplay ==
  /\ reader = "publish" /\ BlocksHeld < Blocks
  /\ ring' = Append(ring, [id |-> received, gen |-> generation,
                           unlogged |-> arriving = "unlogged"])
  /\ reader' = "arm"
  /\ UNCHANGED <<port, deferred, wake, lane, arriving, dispT, abiT, request, history>>

PublishToFileOnly ==
  /\ reader = "publish" /\ arriving = "logged"
  /\ reader' = "arm"
  /\ UNCHANGED <<port, ring, deferred, wake, lane, arriving, dispT, abiT, request, history>>

ReaderKick ==
  /\ Kick(reader, reader')
  /\ UNCHANGED <<port, ring, deferred, lane, arriving, dispT, abiT, request, history>>

Reader == \/ \E kind \in {"logged", "unlogged"} : Deliver(kind)
          \/ DropForWantOfBlock \/ PublishToDisplay \/ PublishToFileOnly \/ ReaderKick

-----------------------------------------------------------------------------
(* The Dispatcher: rx_kick_action and rx_format_block.                     *)

Goto(place) == dispatcher' = place /\ UNCHANGED <<rounds, ending>>

TakeKick ==
  /\ dispatcher = "idle" /\ kicks > 0
  /\ kicks' = kicks - 1
  /\ dispatcher' = "block" /\ rounds' = 0
  /\ UNCHANGED <<port, ring, deferred, gate, lane, readerT, current, ending, abiT,
                 request, history>>

\* Mutation: the ring is served before the deferred block.
TakeBlockRingFirst ==
  /\ dispatcher = "block" /\ rounds < KickBlocks /\ Backlog # <<>>
  /\ current' = <<Head(ring \o deferred)>>
  /\ deferred' = IF ring = <<>> THEN <<>> ELSE deferred
  /\ ring' = IF ring = <<>> THEN ring ELSE Tail(ring)
  /\ dispatcher' = "format" /\ rounds' = rounds + 1
  /\ UNCHANGED <<port, wake, lane, readerT, ending, abiT, request, history>>

\* Mutation: the kick does not stop after its share of blocks.
TakeBlockUnbounded ==
  /\ dispatcher = "block" /\ Backlog # <<>>
  /\ current' = <<Head(Backlog)>>
  /\ deferred' = <<>>
  /\ ring' = IF deferred = <<>> THEN Tail(ring) ELSE ring
  /\ dispatcher' = "format" /\ rounds' = rounds + 1
  /\ UNCHANGED <<port, wake, lane, readerT, ending, abiT, request, history>>

\* The deferred block first, then the ring.
TakeBlock ==
  /\ dispatcher = "block" /\ rounds < KickBlocks /\ Backlog # <<>>
  /\ current' = <<Head(Backlog)>>
  /\ deferred' = <<>>
  /\ ring' = IF deferred = <<>> THEN Tail(ring) ELSE ring
  /\ dispatcher' = "format" /\ rounds' = rounds + 1
  /\ UNCHANGED <<port, wake, lane, readerT, ending, abiT, request, history>>

NoMoreBlocks ==
  /\ dispatcher = "block" /\ (rounds = KickBlocks \/ Backlog = <<>>)
  /\ Goto("disarm")
  /\ UNCHANGED <<port, ring, deferred, wake, lane, readerT, current, abiT, request, history>>

Defer == deferred' = current /\ current' = <<>> /\ Goto("disarm")

\* rx_format_block looks at pause_display first.
FormatPaused ==
  /\ dispatcher = "format" /\ paused
  /\ Defer
  /\ UNCHANGED <<port, ring, wake, lane, readerT, abiT, request, history>>

FormatGoesOn ==
  /\ dispatcher = "format" /\ ~paused
  /\ Goto("acquire")
  /\ UNCHANGED <<port, ring, deferred, wake, lane, readerT, current, abiT, request, history>>

FormatNoBatch ==
  /\ dispatcher = "acquire" /\ freeBatches = {}
  /\ Defer
  /\ UNCHANGED <<port, ring, wake, lane, readerT, abiT, request, history>>

\* Nothing printable: the batch goes back and the block is done with.
FormatEmpty ==
  /\ dispatcher = "acquire" /\ freeBatches # {}
  /\ blank' = blank \cup {current[1].id} /\ current' = <<>>
  /\ Goto("block")
  /\ UNCHANGED <<port, ring, deferred, wake, lane, readerT, abiT, request,
                 received, unlogged, shown, charged>>

\* The batch carries the generation of the moment it is pushed.
PushReady ==
  /\ dispatcher = "acquire" /\ freeBatches # {}
  /\ LET buf == CHOOSE b \in freeBatches : TRUE IN
       /\ freeBatches' = freeBatches \ {buf}
       /\ ready' = Append(ready, [buf |-> buf, gen |-> generation, seg |-> current[1]])
  /\ Goto("count")
  /\ UNCHANGED <<port, ring, deferred, wake, pending, readerT, current, abiT, request, history>>

\* display_pending goes up after the push; then the block is released.
CountReady ==
  /\ dispatcher = "count"
  /\ pending' = pending + 1 /\ current' = <<>>
  /\ Goto("block")
  /\ UNCHANGED <<port, ring, deferred, wake, freeBatches, ready, readerT, abiT,
                 request, history>>

Disarm ==
  /\ dispatcher = "disarm"
  /\ gate' = FALSE
  /\ Goto("recheck")
  /\ UNCHANGED <<port, ring, deferred, kicks, lane, readerT, current, abiT, request, history>>

\* Mutation: the kick action leaves without looking at the ring again.
RecheckDropped ==
  /\ dispatcher = "recheck"
  /\ Goto("idle")
  /\ UNCHANGED <<port, ring, deferred, wake, lane, readerT, current, abiT, request, history>>

\* Mutation: the kick action submits again without arming the gate.
RecheckUnarmed ==
  /\ dispatcher = "recheck"
  /\ Goto(IF deferred = <<>> /\ ring # <<>> THEN "submit" ELSE "idle")
  /\ UNCHANGED <<port, ring, deferred, wake, lane, readerT, current, abiT, request, history>>

\* "Close-drain race protocol": work that came while the gate was armed.
Recheck ==
  /\ dispatcher = "recheck"
  /\ Goto(IF deferred = <<>> /\ ring # <<>> THEN "arm" ELSE "idle")
  /\ UNCHANGED <<port, ring, deferred, wake, lane, readerT, current, abiT, request, history>>

DispatcherKick ==
  /\ Kick(dispatcher, dispatcher')
  /\ UNCHANGED <<port, ring, deferred, lane, readerT, current, rounds, ending, abiT,
                 request, history>>

ReceiveAo == \/ TakeKick \/ TakeBlock \/ NoMoreBlocks
             \/ FormatPaused \/ FormatGoesOn \/ FormatNoBatch \/ FormatEmpty
             \/ PushReady \/ CountReady \/ Disarm \/ Recheck \/ DispatcherKick

-----------------------------------------------------------------------------
(* The Dispatcher: session boundaries.                                     *)

\* kOpenCommit, up to the display reset.
OpenSession ==
  /\ dispatcher = "idle" /\ request = "open"
  /\ openGeneration' = openGeneration + 1 /\ generation' = openGeneration'
  /\ Goto("openReset")
  /\ UNCHANGED <<portState, ring, deferred, wake, lane, readerT, current, abiT, request,
                 history>>

\* Publishing CLOSING or FAULT, then sink_owner_close.
EndSession(why) ==
  /\ dispatcher = "idle"
  /\ \/ why = "close" /\ request = "close" /\ portState' = "CLOSING" /\ request' = "none"
     \/ why = "fault" /\ portState = "OPEN" /\ portState' = "FAULT" /\ UNCHANGED request
  /\ dispatcher' = "ownerClose" /\ ending' = why
  /\ UNCHANGED <<generation, openGeneration, ring, deferred, wake, lane, readerT,
                 current, rounds, abiT, history>>

\* Mutation: the deferred block is released without a ledger entry.
ReleaseDeferredUncharged ==
  /\ dispatcher = "ownerClose"
  /\ deferred' = <<>>
  /\ Goto("joinReader")
  /\ UNCHANGED <<port, ring, wake, lane, readerT, current, abiT, request, history>>

\* release_deferred_rx.
ReleaseDeferred ==
  /\ dispatcher = "ownerClose"
  /\ Charge(deferred) /\ deferred' = <<>>
  /\ Goto("joinReader")
  /\ UNCHANGED <<port, ring, wake, lane, readerT, current, abiT, request,
                 received, unlogged, shown, blank>>

\* The backend joins the read thread; a close goes on to kCloseCommit.
JoinReader ==
  /\ dispatcher = "joinReader" /\ reader = "idle"
  /\ IF ending = "close" THEN generation' = generation + 1 /\ Goto("closeReset")
                         ELSE Goto("idle") /\ UNCHANGED generation
  /\ UNCHANGED <<portState, openGeneration, ring, deferred, wake, lane, readerT,
                 current, abiT, request, history>>

\* The edge publishes its state when the commit is done; an open is resolved.
PublishAfterReset ==
  /\ portState' = IF dispatcher = "openReset" THEN "OPEN" ELSE "CLOSED"
  /\ request' = IF dispatcher = "openReset" THEN "none" ELSE request
  /\ Goto("idle")

\* Mutation: the ids of the ready ring are not returned to the pool.
ResetDisplayStrands ==
  /\ dispatcher \in {"openReset", "closeReset"}
  /\ pending' = pending - Len(ready)
  /\ Charge([i \in 1 .. Len(ready) |-> ready[i].seg])
  /\ ready' = <<>>
  /\ PublishAfterReset
  /\ UNCHANGED <<generation, openGeneration, ring, deferred, wake, readerT, current,
                 freeBatches, abiT, received, unlogged, shown, blank>>

\* Mutation: display_pending keeps counting the batches the reset retired.
ResetDisplayKeepsCount ==
  /\ dispatcher \in {"openReset", "closeReset"}
  /\ freeBatches' = freeBatches \cup {ready[i].buf : i \in 1 .. Len(ready)}
  /\ Charge([i \in 1 .. Len(ready) |-> ready[i].seg])
  /\ ready' = <<>>
  /\ PublishAfterReset
  /\ UNCHANGED <<generation, openGeneration, ring, deferred, wake, pending, readerT,
                 current, abiT, received, unlogged, shown, blank>>

\* reset_display_committed: the count of the ready batches goes, their unlogged
\* bytes are charged.
Retired ==
  /\ pending' = pending - Len(ready)
  /\ Charge([i \in 1 .. Len(ready) |-> ready[i].seg])

\* DisplayLane::reset gives every ready batch back to the pool.
ResetDisplay ==
  /\ dispatcher \in {"openReset", "closeReset"}
  /\ freeBatches' = freeBatches \cup {ready[i].buf : i \in 1 .. Len(ready)}
  /\ ready' = <<>>
  /\ Retired
  /\ PublishAfterReset
  /\ UNCHANGED <<generation, openGeneration, ring, deferred, wake, readerT, current,
                 abiT, received, unlogged, shown, blank>>

SerialAo == \/ OpenSession \/ EndSession("close") \/ EndSession("fault")
            \/ ReleaseDeferred \/ JoinReader \/ ResetDisplay

-----------------------------------------------------------------------------
(* The caller thread: xcom_drain_display and DisplayLane::drain_into.      *)

DrainCall ==
  /\ abi = "idle" /\ watching
  /\ drainGen' = generation /\ abi' = "drop"
  /\ UNCHANGED <<port, ring, deferred, wake, lane, readerT, dispT, active, watching, pauses,
                 paused, request, history>>

\* An active batch of another generation is dropped.
DropStaleActive ==
  /\ abi = "drop"
  /\ IF active # <<>> /\ active[1].gen # drainGen
       THEN freeBatches' = freeBatches \cup {active[1].buf} /\ active' = <<>>
       ELSE UNCHANGED <<freeBatches, active>>
  /\ abi' = IF active' # <<>> THEN "copy" ELSE "pop"
  /\ UNCHANGED <<port, ring, deferred, wake, ready, pending, readerT, dispT, drainGen,
                 watching, pauses, paused, request, history>>

NothingReady ==
  /\ abi = "pop" /\ ready = <<>>
  /\ abi' = "idle"
  /\ UNCHANGED <<port, ring, deferred, wake, lane, readerT, dispT, drainGen, active, watching,
                 pauses, paused, request, history>>

\* Batches of another generation are skipped.
PopReady ==
  /\ abi = "pop" /\ ready # <<>>
  /\ ready' = Tail(ready)
  /\ IF Head(ready).gen = drainGen
       THEN active' = <<Head(ready)>> /\ abi' = "copy" /\ UNCHANGED freeBatches
       ELSE freeBatches' = freeBatches \cup {Head(ready).buf} /\ UNCHANGED <<active, abi>>
  /\ UNCHANGED <<port, ring, deferred, wake, pending, readerT, dispT, drainGen, watching,
                 pauses, paused, request, history>>

\* The buffer took only part of the batch, which stays with the consumer.
CopyPart ==
  /\ abi = "copy" /\ SmallBuffer
  /\ abi' = "idle"
  /\ UNCHANGED <<port, ring, deferred, wake, lane, readerT, dispT, drainGen, active, watching,
                 pauses, paused, request, history>>

\* Mutation: the consumer keeps the batch it has copied completely.
CopyAllKeepsBatch ==
  /\ abi = "copy"
  /\ shown' = Append(shown, active[1].seg.id)
  /\ freeBatches' = freeBatches \cup {active[1].buf}
  /\ abi' = "retire"
  /\ UNCHANGED <<port, ring, deferred, wake, ready, pending, readerT, dispT, drainGen, active,
                 watching, pauses, paused, request, received, unlogged, charged, blank>>

CopyAll ==
  /\ abi = "copy"
  /\ shown' = Append(shown, active[1].seg.id)
  /\ freeBatches' = freeBatches \cup {active[1].buf} /\ active' = <<>>
  /\ abi' = "retire"
  /\ UNCHANGED <<port, ring, deferred, wake, ready, pending, readerT, dispT, drainGen,
                 watching, pauses, paused, request, received, unlogged, charged, blank>>

CountDrained ==
  /\ abi = "retire"
  /\ pending' = pending - 1 /\ abi' = "arm"
  /\ UNCHANGED <<port, ring, deferred, wake, freeBatches, ready, readerT, dispT, drainGen,
                 active, watching, pauses, paused, request, history>>

CallerKick ==
  /\ Kick(abi, abi')
  /\ UNCHANGED <<port, ring, deferred, lane, readerT, dispT, drainGen, active, watching,
                 pauses, paused, request, history>>

Drain == \/ DropStaleActive \/ NothingReady \/ PopReady \/ CopyPart \/ CopyAll
         \/ CountDrained \/ CallerKick

\* xcom_set_options: resuming wakes ReceiveAo.
Pause ==
  /\ abi = "idle" /\ ~paused /\ pauses < PauseBound
  /\ paused' = TRUE /\ pauses' = pauses + 1
  /\ UNCHANGED <<port, ring, deferred, wake, lane, readerT, dispT, abi, drainGen, active,
                 watching, request, history>>

Resume ==
  /\ abi = "idle" /\ paused
  /\ paused' = FALSE /\ abi' = "arm"
  /\ UNCHANGED <<port, ring, deferred, wake, lane, readerT, dispT, drainGen, active, watching,
                 pauses, request, history>>

\* The status poll: the client arms its drain timer while the port is OPEN.
Poll ==
  /\ abi = "idle" /\ watching # (portState = "OPEN")
  /\ watching' = (portState = "OPEN")
  /\ UNCHANGED <<port, ring, deferred, wake, lane, readerT, dispT, abi, drainGen, active,
                 pauses, paused, request, history>>

OpenCall ==
  /\ abi = "idle" /\ request = "none" /\ portState \in {"CLOSED", "FAULT"}
  /\ openGeneration < SessionBound
  /\ request' = "open" /\ watching' = FALSE
  /\ UNCHANGED <<port, ring, deferred, wake, lane, readerT, dispT, abi, drainGen, active,
                 pauses, paused, history>>

CloseCall ==
  /\ abi = "idle" /\ request = "none" /\ portState \in {"OPEN", "FAULT"}
  /\ request' = "close" /\ watching' = FALSE /\ abi' = "closePoll"
  /\ UNCHANGED <<port, ring, deferred, wake, lane, readerT, dispT, drainGen, active, pauses,
                 paused, history>>

CloseReturns ==
  /\ abi = "closePoll" /\ (portState = "CLOSED" \/ CloseTimesOut)
  /\ abi' = "idle"
  /\ UNCHANGED <<port, ring, deferred, wake, lane, readerT, dispT, drainGen, active, watching,
                 pauses, paused, request, history>>

Caller == Drain \/ DrainCall \/ Pause \/ Resume \/ Poll \/ OpenCall \/ CloseCall \/ CloseReturns

-----------------------------------------------------------------------------
Next == Reader \/ ReceiveAo \/ SerialAo \/ Caller

Spec == Init /\ [][Next]_vars

\* A thread inside an operation goes on.  The client polls the port and
\* drains on timers; when it pauses, opens or closes is the user's choice.
Fairness ==
  /\ WF_vars(ReaderKick \/ DropForWantOfBlock \/ PublishToDisplay \/ PublishToFileOnly)
  /\ WF_vars(ReceiveAo \/ ReleaseDeferred \/ JoinReader \/ ResetDisplay)
  /\ SF_vars(OpenSession) /\ SF_vars(EndSession("close"))
  /\ WF_vars(Drain) /\ WF_vars(CloseReturns)
  /\ SF_vars(DrainCall) /\ SF_vars(Poll)

FairSpec == Spec /\ Fairness

-----------------------------------------------------------------------------
(* Properties.                                                             *)

Bit(condition) == IF condition THEN 1 ELSE 0
Members(s) == {s[i] : i \in 1 .. Len(s)}

\* "One kick never doubles" (rx_kick_action): the gate is armed exactly while
\* one kick is queued, being handled up to its disarm, or being submitted.
\* The event object is static: a second kick in the queue would be the same one.
HandlingKick == {"block", "format", "acquire", "count", "disarm"}
Submitting   == {"submit", "refused"}
OneWake ==
  kicks + Bit(dispatcher \in HandlingKick \cup Submitting)
        + Bit(reader \in Submitting) + Bit(abi \in Submitting) = Bit(gate)

\* "No lost update, no double-issue, no stranded id" (DisplayLane): every batch
\* is in the pool, on the ready ring or with the consumer, and in one of them.
Descs == ready \o active
BatchesConserved ==
  /\ freeBatches \cup {Descs[i].buf : i \in 1 .. Len(Descs)} = Batches
  /\ \A i \in 1 .. Len(Descs) : Descs[i].buf \notin freeBatches
  /\ \A i, j \in 1 .. Len(Descs) : Descs[i].buf = Descs[j].buf => i = j

\* The no-silent-loss rule (reset_display_committed, release_deferred_rx): a
\* segment with no file lane is on its way, on the screen, or in the loss ledger.
OnTheWay == {s.id : s \in Members(Backlog \o current) \cup {d.seg : d \in Members(Descs)}}
NoSilentLoss ==
  \A id \in unlogged : \/ id \in OnTheWay \cup Members(shown) \cup Members(charged) \cup blank
                       \/ id = received /\ reader = "publish"

\* display_pending is the number of batches the caller can still drain.
PendingExact ==
  pending = Len(Descs) + Bit(abi = "retire") - Bit(dispatcher = "count")

\* What the read thread, the Dispatcher and the caller keep of the display between
\* them fits together: one wake, one place for each batch, one count of what is left.
LaneExact == TypeOK /\ OneWake /\ BatchesConserved /\ PendingExact

\* The lane implements the stream a user relies on: order, no repetition, no
\* byte both lost and shown.
Stream == INSTANCE SegmentStream
ImplementsStream == Stream!Spec

\* "Pending work is never left asleep" (rx_kick_action): what is queued for the
\* display gets its turn.
BacklogIsServed == Backlog # <<>> ~> Backlog = <<>>

\* The stream goes on: shown right, kept right, and served.
StreamGoesOn == [](TypeOK /\ OneWake /\ BatchesConserved) /\ ImplementsStream /\ BacklogIsServed

-----------------------------------------------------------------------------
(* Claims of the sources that a run refutes.                               *)

\* No wake is queued or about to be, and no batch is left whose draining wakes.
Asleep == /\ kicks = 0 /\ dispatcher = "idle" /\ reader = "idle" /\ abi = "idle"
          /\ Descs = <<>>

\* "So pending work is never left asleep" (ao/xcom_ao.hpp, rx_kick_action).
NeverLeftAsleep == Asleep /\ ~paused => Backlog = <<>>

\* "The next receive callback or ABI resume trigger re-arms and retries. The display
\* therefore cannot stall permanently while data keeps arriving" (submit_rx_kick): the
\* read thread does not drop a segment for want of a block with nobody to free one.
ArrivalsWake ==
  [][DropForWantOfBlock /\ ~paused => kicks > 0 \/ dispatcher # "idle" \/ abi # "idle"
                                      \/ Descs # <<>>]_vars

\* "A batch that spanned a close/reopen cannot leak stale bytes into the new view"
\* (drain_into): bytes shown belong to the session being watched.
NoStaleBytes == [][CopyAll => active[1].seg.gen = generation]_vars

\* At both commit points the consumer "is not inside drain_into: xcom_close /
\* xcom_open are synchronous and park that thread" (DisplayLane::reset).
ResetExcludesDrain ==
  dispatcher \in {"openReset", "closeReset"} => abi \notin {"drop", "pop", "copy"}
==============================================================================
