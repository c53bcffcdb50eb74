------------------------ MODULE SerialLifecycleProofs ------------------------
(***************************************************************************)
(* Theorems about SerialLifecycle, for every value of its constants or,    *)
(* where Steady is assumed, for every bound on queue and sessions.         *)
(***************************************************************************)
EXTENDS SerialLifecycleInv, TLAPS

Message == [sig : Signals, session : Nat]

-----------------------------------------------------------------------------
(* The queue of signals.                                                   *)

\* Accepting a signal keeps the queue well formed and adds that signal only.
LEMMA AcceptLemma ==
  ASSUME queue \in Seq(Message), session \in Nat, NEW sig \in Signals, Accept(sig)
  PROVE  /\ queue' \in Seq(Message)
         /\ \A s : Queued(s)' <=> Queued(s) \/ s = sig
<1>1. queue' = Append(queue, [sig |-> sig, session |-> session])
  BY DEF Accept
<1>2. [sig |-> sig, session |-> session] \in Message
  BY DEF Message
<1>3. queue' \in Seq(Message) /\ Len(queue') = Len(queue) + 1 /\ Len(queue) \in Nat
  BY <1>1, <1>2
<1>4. DOMAIN queue = 1 .. Len(queue) /\ DOMAIN queue' = 1 .. Len(queue')
  BY <1>3
<1>5. \A i \in DOMAIN queue : queue'[i] = queue[i]
  BY <1>1, <1>2, <1>4
<1>6. queue'[Len(queue')].sig = sig
  BY <1>1, <1>2, <1>3
<1>7. ASSUME NEW s PROVE Queued(s)' <=> Queued(s) \/ s = sig
  BY <1>3, <1>4, <1>5, <1>6 DEF Queued
<1> QED BY <1>3, <1>7

\* Accepting a signal moves none of those already queued.
LEMMA AcceptKeepsPlaces ==
  ASSUME queue \in Seq(Message), session \in Nat, NEW sig \in Signals, Accept(sig)
  PROVE  /\ DOMAIN queue' = DOMAIN queue \cup {Len(queue) + 1}
         /\ Len(queue) + 1 \notin DOMAIN queue
         /\ \A i \in DOMAIN queue : queue'[i] = queue[i]
         /\ queue'[Len(queue) + 1].sig = sig
<1>1. queue' = Append(queue, [sig |-> sig, session |-> session])
  BY DEF Accept
<1>2. [sig |-> sig, session |-> session] \in Message
  BY DEF Message
<1>3. Len(queue) \in Nat /\ DOMAIN queue = 1 .. Len(queue)
  OBVIOUS
<1> QED BY <1>1, <1>2, <1>3

\* Taking the head keeps the queue well formed; the signals behind it move up by one.
LEMMA DispatchLemma ==
  ASSUME queue \in Seq(Message), NEW sig, Dispatch(sig)
  PROVE  /\ queue' \in Seq(Message)
         /\ 1 \in DOMAIN queue /\ queue[1].sig = sig
         /\ \A i \in DOMAIN queue' : i + 1 \in DOMAIN queue /\ queue'[i] = queue[i + 1]
         /\ \A i \in DOMAIN queue : i = 1 \/ (i - 1 \in DOMAIN queue' /\ queue'[i - 1] = queue[i])
<1>1. queue # <<>> /\ Head(queue).sig = sig /\ queue' = Tail(queue)
  BY DEF Dispatch
<1>2. Len(queue) \in Nat \ {0} /\ DOMAIN queue = 1 .. Len(queue)
  BY <1>1
<1>3. queue' \in Seq(Message) /\ Len(queue') = Len(queue) - 1
  BY <1>1
<1>4. DOMAIN queue' = 1 .. (Len(queue) - 1)
  BY <1>3
<1>5. \A i \in 1 .. (Len(queue) - 1) : queue'[i] = queue[i + 1]
  BY <1>1, <1>2
<1>6. 1 \in DOMAIN queue /\ queue[1].sig = sig
  BY <1>1, <1>2
<1>7. \A i \in DOMAIN queue' : i + 1 \in DOMAIN queue /\ queue'[i] = queue[i + 1]
  BY <1>2, <1>4, <1>5
<1>8. ASSUME NEW i \in DOMAIN queue, i # 1
      PROVE  i - 1 \in DOMAIN queue' /\ queue'[i - 1] = queue[i]
  BY <1>2, <1>4, <1>5, <1>8
<1> QED BY <1>3, <1>6, <1>7, <1>8

\* Taking the only open request leaves none.
LEMMA DispatchOnlyOpen ==
  ASSUME queue \in Seq(Message), AtMostOneOpen, Dispatch("Open")
  PROVE  ~Queued("Open")'
<1>1. \A i \in DOMAIN queue' : i + 1 \in DOMAIN queue /\ queue'[i] = queue[i + 1]
  BY DispatchLemma
<1>2. 1 \in DOMAIN queue /\ queue[1].sig = "Open"
  BY DispatchLemma
<1>3. DOMAIN queue' \subseteq Nat \ {0}
  BY DispatchLemma
<1>4. ASSUME NEW i \in DOMAIN queue', queue'[i].sig = "Open" PROVE FALSE
  BY <1>1, <1>2, <1>3, <1>4 DEF AtMostOneOpen
<1> QED BY <1>4 DEF Queued

\* The queue keeps at most one open request unless a second one is accepted.
LEMMA AtMostOneStep ==
  ASSUME queue \in Seq(Message), session \in Nat, AtMostOneOpen,
         \/ UNCHANGED queue
         \/ \E sig \in Signals : Accept(sig) /\ (sig = "Open" => ~Queued("Open"))
         \/ \E sig \in Signals : Dispatch(sig)
  PROVE  AtMostOneOpen'
<1>1. CASE UNCHANGED queue
  BY <1>1 DEF AtMostOneOpen
<1>2. CASE \E sig \in Signals : Accept(sig) /\ (sig = "Open" => ~Queued("Open"))
  <2>1. PICK sig \in Signals : Accept(sig) /\ (sig = "Open" => ~Queued("Open"))
    BY <1>2
  <2>2. /\ DOMAIN queue' = DOMAIN queue \cup {Len(queue) + 1}
        /\ \A i \in DOMAIN queue : queue'[i] = queue[i]
        /\ queue'[Len(queue) + 1].sig = sig
    BY <2>1, AcceptKeepsPlaces
  <2>3. CASE sig = "Open"
    <3>1. \A i \in DOMAIN queue : queue[i].sig # "Open"
      BY <2>1, <2>3 DEF Queued
    <3> QED BY <2>2, <3>1 DEF AtMostOneOpen
  <2>4. CASE sig # "Open"
    BY <2>2, <2>4 DEF AtMostOneOpen
  <2> QED BY <2>3, <2>4
<1>3. CASE \E sig \in Signals : Dispatch(sig)
  <2>1. \A i \in DOMAIN queue' : i + 1 \in DOMAIN queue /\ queue'[i] = queue[i + 1]
    BY <1>3, DispatchLemma
  <2>2. DOMAIN queue' \subseteq Nat
    BY <1>3, DispatchLemma
  <2> SUFFICES ASSUME NEW i \in DOMAIN queue', NEW j \in DOMAIN queue',
                      queue'[i].sig = "Open", queue'[j].sig = "Open"
               PROVE  i = j
    BY DEF AtMostOneOpen
  <2>3. i + 1 = j + 1
    BY <2>1 DEF AtMostOneOpen
  <2> QED BY <2>2, <2>3
<1> QED BY <1>1, <1>2, <1>3

\* Only the signal taken can leave the set of signals queued.
LEMMA DispatchQueued ==
  ASSUME queue \in Seq(Message), NEW sig, Dispatch(sig)
  PROVE  /\ Queued(sig)
         /\ \A s : Queued(s)' => Queued(s)
         /\ \A s : s # sig /\ Queued(s) => Queued(s)'
  BY DispatchLemma DEF Queued

-----------------------------------------------------------------------------
(* Type correctness, one part of TypeOK at a time.                         *)

LEMMA FlagsStep == FlagsOK /\ [Next]_vars => FlagsOK'
<1> SUFFICES ASSUME FlagsOK, [Next]_vars PROVE FlagsOK'
  OBVIOUS
<1> USE DEF FlagsOK, published, openFlags, native, caller, control, gens
<1>1. CASE UNCHANGED vars
  BY <1>1 DEF vars
<1>2. CASE Caller
  <2>1. CASE \E p \in Ports : OpenCall(p)
    BY <2>1 DEF OpenCall
  <2>2. CASE OpenCheck \/ OpenArm \/ OpenSubmit
    BY <2>2 DEF OpenCheck, OpenArm, OpenSubmit
  <2>3. CASE CloseCall \/ CloseCheck \/ CloseSubmit
    BY <2>3 DEF CloseCall, CloseCheck, CloseSubmit
  <2>4. CASE Poll
    BY <2>4 DEF Poll, OpenPollDone, OpenPollTimeout, CloseReturnsOk, CloseTimeout
  <2> QED BY <1>2, <2>1, <2>2, <2>3, <2>4 DEF Caller
<1>3. CASE Dispatcher
  <2>1. CASE DispatchOpen \/ DispatchClose \/ DispatchFault
    BY <2>1 DEF DispatchOpen, DispatchClose, DispatchFault
  <2>2. CASE OpenEdge \/ OpenNative \/ OpenWriter
    BY <2>2 DEF OpenEdge, OpenNative, OpenWriter
  <2>3. CASE Judge \/ TakeCancel \/ OpenDone \/ Cancel \/ HandOff
    BY <2>3 DEF Judge, TakeCancel, OpenDone, Cancel, HandOff
  <2>4. CASE CancelFault \/ CloseDone \/ OwnerClose
    BY <2>4 DEF CancelFault, CloseDone, OwnerClose, StopAdmission, JoinWriter,
                CloseBackend, Readmit
  <2> QED BY <1>3, <2>1, <2>2, <2>3, <2>4 DEF Dispatcher
<1>4. CASE ReaderFault \/ ReaderReport
  BY <1>4 DEF ReaderFault, ReaderReport, ReaderSignal, ReaderStore, ReaderLatch
<1>5. CASE WriterPop \/ WriterReport
  BY <1>5 DEF WriterPop, WriterReport, WriterReturn, WriterSignal, WriterStore, WriterLatch
<1> QED BY <1>1, <1>2, <1>3, <1>4, <1>5 DEF Next

LEMMA PlacesStep == PlacesOK /\ [Next]_vars => PlacesOK'
<1> SUFFICES ASSUME PlacesOK, [Next]_vars PROVE PlacesOK'
  OBVIOUS
<1> USE DEF PlacesOK, PortStates, published, openFlags, native, caller, control, gens
<1>1. CASE UNCHANGED vars
  BY <1>1 DEF vars
<1>2. CASE Caller
  <2>1. CASE \E p \in Ports : OpenCall(p)
    BY <2>1, LifecycleAssumption DEF OpenCall
  <2>2. CASE OpenCheck \/ OpenArm \/ OpenSubmit
    BY <2>2 DEF OpenCheck, OpenArm, OpenSubmit
  <2>3. CASE CloseCall \/ CloseCheck \/ CloseSubmit
    BY <2>3 DEF CloseCall, CloseCheck, CloseSubmit
  <2>4. CASE Poll
    BY <2>4 DEF Poll, OpenPollDone, OpenPollTimeout, CloseReturnsOk, CloseTimeout
  <2> QED BY <1>2, <2>1, <2>2, <2>3, <2>4 DEF Caller
<1>3. CASE Dispatcher
  <2> USE DEF Publish, TearDown
  <2>1. CASE DispatchOpen \/ DispatchClose \/ DispatchFault
    BY <2>1 DEF DispatchOpen, DispatchClose, DispatchFault, FaultTarget
  <2>2. CASE OpenEdge \/ OpenNative \/ OpenWriter
    BY <2>2 DEF OpenEdge, OpenNative, OpenWriter
  <2>3. CASE Judge \/ TakeCancel \/ OpenDone \/ Cancel \/ HandOff
    BY <2>3 DEF Judge, TakeCancel, OpenDone, Cancel, HandOff
  <2>4. CASE CancelFault \/ CloseDone \/ OwnerClose
    BY <2>4 DEF CancelFault, CloseDone, OwnerClose, StopAdmission, JoinWriter,
                CloseBackend, Readmit
  <2> QED BY <1>3, <2>1, <2>2, <2>3, <2>4 DEF Dispatcher
<1>4. CASE ReaderFault \/ ReaderReport
  BY <1>4 DEF ReaderFault, ReaderReport, ReaderSignal, ReaderStore, ReaderLatch
<1>5. CASE WriterPop \/ WriterReport
  BY <1>5 DEF WriterPop, WriterReport, WriterReturn, WriterSignal, WriterStore, WriterLatch
<1> QED BY <1>1, <1>2, <1>3, <1>4, <1>5 DEF Next

\* Every step leaves the queue, accepts one signal or takes the head.
LEMMA QueueSteps ==
  ASSUME [Next]_vars
  PROVE  \/ UNCHANGED queue
         \/ \E sig \in Signals : Accept(sig)
         \/ \E sig \in Signals : Dispatch(sig)
<1> USE DEF published, openFlags, native, caller, control, gens
<1>0. {"Open", "Close", "Fault"} \subseteq Signals
  BY DEF Signals
<1>1. CASE UNCHANGED vars
  BY <1>1 DEF vars
<1>2. CASE Caller
  <2>1. CASE OpenSubmit \/ CloseSubmit
    BY <2>1, <1>0 DEF OpenSubmit, CloseSubmit, Refuse
  <2> QED BY <1>2, <2>1 DEF Caller, OpenCall, OpenCheck, OpenArm, CloseCall, CloseCheck, Poll,
             OpenPollDone, OpenPollTimeout, CloseReturnsOk, CloseTimeout
<1>3. CASE Dispatcher
  <2>1. CASE DispatchOpen \/ DispatchClose \/ DispatchFault
    BY <2>1, <1>0 DEF DispatchOpen, DispatchClose, DispatchFault
  <2>2. CASE HandOff
    BY <2>2, <1>0 DEF HandOff, Refuse
  <2> QED BY <1>3, <2>1, <2>2 DEF Dispatcher, OpenEdge, OpenNative, OpenWriter, Judge,
             TakeCancel, OpenDone, Cancel, CancelFault, CloseDone, OwnerClose,
             StopAdmission, JoinWriter, CloseBackend, Readmit
<1>4. CASE ReaderFault \/ ReaderReport
  BY <1>4, <1>0 DEF ReaderFault, ReaderReport, ReaderSignal, ReaderStore, ReaderLatch, Refuse
<1>5. CASE WriterPop \/ WriterReport
  BY <1>5, <1>0 DEF WriterPop, WriterReport, WriterReturn, WriterSignal, WriterStore,
                    WriterLatch, Refuse
<1> QED BY <1>1, <1>2, <1>3, <1>4, <1>5 DEF Next

LEMMA TypeStep == TypeOK /\ [Next]_vars => TypeOK'
<1> SUFFICES ASSUME TypeOK, [Next]_vars PROVE TypeOK'
  OBVIOUS
<1>1. queue \in Seq(Message) /\ session \in Nat
  BY DEF TypeOK, QueueOK, PlacesOK, Message
<1>2. queue' \in Seq(Message)
  BY <1>1, QueueSteps, AcceptLemma, DispatchLemma
<1> QED BY <1>2, FlagsStep, PlacesStep DEF TypeOK, QueueOK, Message

\* Every variable keeps its type, whatever ports, refusals and bounds.
THEOREM TypeCorrect == Spec => []TypeOK
<1>1. Init => TypeOK
  <2> SUFFICES ASSUME Init PROVE TypeOK
    OBVIOUS
  <2>1. FlagsOK
    BY DEF Init, FlagsOK
  <2>2. PlacesOK
    BY DEF Init, PlacesOK, PortStates
  <2>3. QueueOK
    BY DEF Init, QueueOK
  <2> QED BY <2>1, <2>2, <2>3 DEF TypeOK
<1> QED BY <1>1, TypeStep, PTL DEF Spec

-----------------------------------------------------------------------------
(* The fault latch.                                                        *)

\* A thread about to set the latch cannot be joined, so it sets it before the
\* teardown or the next open passes it; only a handler that also publishes, or the
\* reconciliation of an open, takes the latch away.
LEMMA LatchStep == FaultIsLatched /\ [Next]_vars => FaultIsLatched'
<1> SUFFICES ASSUME FaultIsLatched, [Next]_vars PROVE FaultIsLatched'
  OBVIOUS
<1> USE DEF FaultIsLatched, published, openFlags, native, caller, control, gens
<1>1. CASE UNCHANGED vars
  BY <1>1 DEF vars
<1>2. CASE Caller
  BY <1>2 DEF Caller, OpenCall, OpenCheck, OpenArm, OpenSubmit, CloseCall, CloseCheck,
              CloseSubmit, Poll, OpenPollDone, OpenPollTimeout, CloseReturnsOk, CloseTimeout
<1>3. CASE Dispatcher
  <2> USE DEF Publish, TearDown, FaultTarget
  <2>1. CASE DispatchOpen
    BY <2>1 DEF DispatchOpen
  <2>2. CASE DispatchClose
    BY <2>2 DEF DispatchClose, CloseFrom
  <2>3. CASE DispatchFault
    BY <2>3 DEF DispatchFault
  <2>4. CASE OpenNative \/ OpenWriter
    BY <2>4 DEF OpenNative, OpenWriter, ReaderJoinable
  <2>5. CASE OpenEdge \/ Judge \/ TakeCancel \/ OpenDone \/ Cancel \/ HandOff
    BY <2>5 DEF OpenEdge, Judge, TakeCancel, OpenDone, Cancel, HandOff
  <2>6. CASE CancelFault \/ CloseDone
    BY <2>6 DEF CancelFault, CloseDone
  <2>7. CASE OwnerClose
    BY <2>7 DEF OwnerClose, StopAdmission, JoinWriter, CloseBackend, Readmit, ReaderJoinable
  <2> QED BY <1>3, <2>1, <2>2, <2>3, <2>4, <2>5, <2>6, <2>7 DEF Dispatcher
<1>4. CASE ReaderFault \/ ReaderReport
  BY <1>4 DEF ReaderFault, ReaderReport, ReaderSignal, ReaderStore, ReaderLatch
<1>5. CASE WriterPop \/ WriterReport
  BY <1>5 DEF WriterPop, WriterReport, WriterReturn, WriterSignal, WriterStore, WriterLatch
<1> QED BY <1>1, <1>2, <1>3, <1>4, <1>5 DEF Next

\* Whatever the ports, the refused signals and the caller do: a live session whose
\* published state was overwritten shows FAULT and is latched for reconciliation.
THEOREM FaultLatched == Spec => []FaultIsLatched
<1>1. Init => FaultIsLatched
  BY DEF Init, FaultIsLatched
<1> QED BY <1>1, LatchStep, PTL DEF Spec

-----------------------------------------------------------------------------
(* The session invariant, one named part at a time, under Steady.          *)

LEMMA UndisturbedStep ==
  ASSUME Steady, Undisturbed, StateAtPlace, [Next]_vars
  PROVE  Undisturbed'
<1> USE DEF Undisturbed, published, openFlags, native, caller, control, gens
<1>1. CASE UNCHANGED vars
  BY <1>1 DEF vars
<1>2. CASE Caller
  <2>1. CASE \E p \in Ports : OpenCall(p)
    BY <2>1 DEF OpenCall, Steady
  <2> QED BY <1>2, <2>1 DEF Caller, OpenCheck, OpenArm, OpenSubmit, CloseCall, CloseCheck,
             CloseSubmit, Poll, OpenPollDone, OpenPollTimeout, CloseReturnsOk, CloseTimeout
<1>3. CASE Dispatcher
  <2> USE DEF Publish, TearDown, FaultTarget
  <2>1. CASE DispatchOpen \/ DispatchClose \/ DispatchFault
    BY <2>1 DEF DispatchOpen, DispatchClose, DispatchFault
  <2>2. CASE OpenEdge \/ OpenNative \/ OpenWriter
    BY <2>2 DEF OpenEdge, OpenNative, OpenWriter
  <2>3. CASE Judge \/ TakeCancel \/ OpenDone \/ Cancel \/ HandOff
    BY <2>3 DEF Judge, TakeCancel, OpenDone, Cancel, HandOff
  <2>4. CASE CancelFault \/ CloseDone \/ OwnerClose
    BY <2>4 DEF CancelFault, CloseDone, OwnerClose, StopAdmission, JoinWriter,
                CloseBackend, Readmit
  <2> QED BY <1>3, <2>1, <2>2, <2>3, <2>4 DEF Dispatcher
<1>4. CASE ReaderFault \/ ReaderReport
  BY <1>4 DEF ReaderFault, ReaderReport, ReaderSignal, ReaderStore, ReaderLatch, Refuse, Steady
<1>5. CASE WriterPop \/ WriterReport
  BY <1>5 DEF WriterPop, WriterReport, WriterReturn, WriterSignal, WriterStore, WriterLatch,
              Refuse, Steady
<1> QED BY <1>1, <1>2, <1>3, <1>4, <1>5 DEF Next

LEMMA StateAtPlaceStep ==
  ASSUME TypeOK, Undisturbed, StateAtPlace, ResourcesAtPlace, Sentinel, OneOpen, [Next]_vars
  PROVE  StateAtPlace'
<1> USE DEF StateAtPlace, TearingDown, Idle, published, openFlags, native, caller, control, gens
<1>1. CASE UNCHANGED vars
  BY <1>1 DEF vars
<1>2. CASE Caller
  BY <1>2 DEF Caller, OpenCall, OpenCheck, OpenArm, OpenSubmit, CloseCall, CloseCheck,
              CloseSubmit, Poll, OpenPollDone, OpenPollTimeout, CloseReturnsOk, CloseTimeout
<1>3. CASE Dispatcher
  <2> USE DEF Publish, TearDown
  <2>1. CASE DispatchOpen
    <3>1. Queued("Open")
      BY <2>1, DispatchQueued DEF DispatchOpen, TypeOK, QueueOK, Message
    <3>2. Down
      BY <3>1 DEF OneOpen, Committed
    <3> QED BY <2>1, <3>2 DEF DispatchOpen, Dispatch, Down, Undisturbed, FaultTarget
  <2>2. CASE DispatchClose
    BY <2>2 DEF DispatchClose, Dispatch, CloseFrom
  <2>3. CASE DispatchFault
    BY <2>3 DEF DispatchFault, Dispatch, FaultTarget
  <2>4. CASE OpenEdge
    BY <2>4 DEF OpenEdge, OpenFrom
  <2>5. CASE OpenNative
    BY <2>5 DEF OpenNative
  <2>6. CASE OpenWriter
    BY <2>6 DEF OpenWriter
  <2>7. CASE Judge \/ TakeCancel \/ OpenDone \/ Cancel
    BY <2>7 DEF Judge, TakeCancel, OpenDone, Cancel
  <2>8. CASE HandOff
    BY <2>8 DEF HandOff
  <2>9. CASE CancelFault \/ CloseDone
    BY <2>9 DEF CancelFault, CloseDone
  <2>10. CASE OwnerClose
    BY <2>10 DEF OwnerClose, StopAdmission, JoinWriter, CloseBackend, Readmit
  <2> QED BY <1>3, <2>1, <2>2, <2>3, <2>4, <2>5, <2>6, <2>7, <2>8, <2>9, <2>10
          DEF Dispatcher
<1>4. CASE ReaderFault \/ ReaderReport
  BY <1>4 DEF ReaderFault, ReaderReport, ReaderSignal, ReaderStore, ReaderLatch
<1>5. CASE WriterPop \/ WriterReport
  BY <1>5 DEF WriterPop, WriterReport, WriterReturn, WriterSignal, WriterStore, WriterLatch
<1> QED BY <1>1, <1>2, <1>3, <1>4, <1>5 DEF Next

LEMMA ResourcesStep ==
  ASSUME TypeOK, Undisturbed, StateAtPlace, ResourcesAtPlace, Sentinel, OneOpen, [Next]_vars
  PROVE  ResourcesAtPlace'
<1> USE DEF ResourcesAtPlace, Empty, Complete, TearingDown, Idle, published, openFlags, native,
            caller, control, gens
<1>1. CASE UNCHANGED vars
  BY <1>1 DEF vars
<1>2. CASE Caller
  <2>1. CASE OpenArm
    <3>1. dispatcher \notin {"judge", "takeCancel", "openDone"}
      BY <2>1 DEF OpenArm, OneOpen, Committed, Down, StateAtPlace
    <3> QED BY <2>1, <3>1 DEF OpenArm
  <2>2. CASE OpenSubmit
    <3>1. dispatcher \notin {"judge", "takeCancel", "openDone"}
      BY <2>2 DEF OpenSubmit, OneOpen, OpenInProgress
    <3> QED BY <2>2, <3>1 DEF OpenSubmit
  <2> QED BY <1>2, <2>1, <2>2 DEF Caller, OpenCall, OpenCheck, CloseCall, CloseCheck,
             CloseSubmit, Poll, OpenPollDone, OpenPollTimeout, CloseReturnsOk, CloseTimeout
<1>3. CASE Dispatcher
  <2> USE DEF Publish, TearDown, StateAtPlace
  <2>1. CASE DispatchOpen
    <3>1. Queued("Open")
      BY <2>1, DispatchQueued DEF DispatchOpen, TypeOK, QueueOK, Message
    <3>2. Down
      BY <3>1 DEF OneOpen, Committed
    <3> QED BY <2>1, <3>2 DEF DispatchOpen, Dispatch, Down, Undisturbed
  <2>2. CASE DispatchClose
    BY <2>2 DEF DispatchClose, Dispatch, CloseFrom
  <2>3. CASE DispatchFault
    BY <2>3 DEF DispatchFault, Dispatch, FaultTarget
  <2>4. CASE OpenEdge
    BY <2>4 DEF OpenEdge, OpenFrom
  <2>5. CASE OpenNative
    BY <2>5 DEF OpenNative, Undisturbed
  <2>6. CASE OpenWriter
    BY <2>6 DEF OpenWriter
  <2>7. CASE Judge
    BY <2>7 DEF Judge
  <2>8. CASE TakeCancel \/ OpenDone \/ Cancel
    BY <2>8 DEF TakeCancel, OpenDone, Cancel
  <2>9. CASE HandOff
    BY <2>9 DEF HandOff
  <2>10. CASE CancelFault \/ CloseDone
    BY <2>10 DEF CancelFault, CloseDone
  <2>11. CASE OwnerClose
    BY <2>11 DEF OwnerClose, StopAdmission, JoinWriter, CloseBackend, Readmit, Undisturbed
  <2> QED BY <1>3, <2>1, <2>2, <2>3, <2>4, <2>5, <2>6, <2>7, <2>8, <2>9, <2>10, <2>11
          DEF Dispatcher
<1>4. CASE ReaderFault \/ ReaderReport
  BY <1>4 DEF ReaderFault, ReaderReport, ReaderSignal, ReaderStore, ReaderLatch
<1>5. CASE WriterPop \/ WriterReport
  BY <1>5 DEF WriterPop, WriterReport, WriterReturn, WriterSignal, WriterStore, WriterLatch
<1> QED BY <1>1, <1>2, <1>3, <1>4, <1>5 DEF Next

LEMMA ReaderReportedStep ==
  ASSUME TypeOK, Steady, Undisturbed, StateAtPlace, ReaderReported, OneOpen, [Next]_vars
  PROVE  ReaderReported'
<1>0. queue \in Seq(Message) /\ session \in Nat
  BY DEF TypeOK, QueueOK, PlacesOK, Message
<1>a. UNCHANGED queue => (Queued("Fault")' <=> Queued("Fault"))
  BY DEF Queued
<1>b. ASSUME NEW sig \in Signals, Accept(sig), Queued("Fault") \/ sig = "Fault"
      PROVE  Queued("Fault")'
  BY <1>0, <1>b, AcceptLemma
<1>c. "Open" \in Signals /\ "Close" \in Signals /\ "Fault" \in Signals
  BY DEF Signals
<1> USE DEF ReaderReported, published, openFlags, native, caller, control, gens
<1>1. CASE UNCHANGED vars
  BY <1>1, <1>a DEF vars
<1>2. CASE Caller
  <2>1. CASE OpenSubmit \/ CloseSubmit
    BY <2>1, <1>a, <1>b, <1>c DEF OpenSubmit, CloseSubmit, Refuse
  <2> QED BY <1>2, <1>a, <2>1 DEF Caller, OpenCall, OpenCheck, OpenArm, CloseCall, CloseCheck,
             Poll, OpenPollDone, OpenPollTimeout, CloseReturnsOk, CloseTimeout
<1>3. CASE Dispatcher
  <2> USE DEF Publish, TearDown, StateAtPlace
  <2>1. CASE DispatchOpen
    <3>1. Queued("Open")
      BY <2>1, <1>0, DispatchQueued DEF DispatchOpen
    <3> QED BY <2>1, <3>1 DEF DispatchOpen, Dispatch, OneOpen, Committed, Down, Undisturbed, TearingDown
  <2>2. CASE DispatchClose \/ DispatchFault
    BY <2>2 DEF DispatchClose, DispatchFault, Dispatch, CloseFrom, FaultTarget
  <2>3. CASE OpenEdge \/ OpenNative
    BY <2>3, <1>a DEF OpenEdge, OpenNative, OpenFrom, Undisturbed
  <2>4. CASE OpenWriter
    BY <2>4, <1>a DEF OpenWriter
  <2>5. CASE Judge \/ TakeCancel \/ OpenDone \/ Cancel
    BY <2>5, <1>a DEF Judge, TakeCancel, OpenDone, Cancel
  <2>6. CASE HandOff \/ CancelFault \/ CloseDone
    BY <2>6 DEF HandOff, CancelFault, CloseDone
  <2>7. CASE OwnerClose
    BY <2>7 DEF OwnerClose, StopAdmission, JoinWriter, CloseBackend, Readmit, Idle, TearingDown
  <2> QED BY <1>3, <2>1, <2>2, <2>3, <2>4, <2>5, <2>6, <2>7 DEF Dispatcher
<1>4. CASE ReaderFault \/ ReaderReport
  <2>1. CASE ReaderFault
    BY <2>1, <1>a DEF ReaderFault, StateAtPlace, Idle
  <2>2. CASE ReaderSignal
    BY <2>2, <1>a, <1>b, <1>c DEF ReaderSignal, Refuse, Steady
  <2> QED BY <1>4, <2>1, <2>2 DEF ReaderReport, ReaderStore, ReaderLatch, Undisturbed
<1>5. CASE WriterPop \/ WriterReport
  <2>1. CASE WriterSignal
    BY <2>1, <1>a, <1>b, <1>c DEF WriterSignal, Refuse
  <2> QED BY <1>5, <1>a, <2>1 DEF WriterPop, WriterReport, WriterReturn, WriterStore, WriterLatch,
             Undisturbed
<1> QED BY <1>1, <1>2, <1>3, <1>4, <1>5 DEF Next

LEMMA SentinelStep ==
  ASSUME TypeOK, Undisturbed, StateAtPlace, Sentinel, OneOpen, [Next]_vars
  PROVE  Sentinel'
<1>0. queue \in Seq(Message) /\ session \in Nat
  BY DEF TypeOK, QueueOK, PlacesOK, Message
<1>a. UNCHANGED queue => (Queued("Open")' <=> Queued("Open"))
  BY DEF Queued
<1>b. ASSUME NEW sig \in Signals, Accept(sig)
      PROVE  Queued("Open")' <=> Queued("Open") \/ sig = "Open"
  BY <1>0, <1>b, AcceptLemma
<1>c. "Open" \in Signals /\ "Close" \in Signals /\ "Fault" \in Signals
  BY DEF Signals
<1>d. ASSUME NEW sig, Dispatch(sig), sig # "Open"
      PROVE  Queued("Open")' <=> Queued("Open")
  BY <1>0, <1>d, DispatchQueued
<1> USE DEF Sentinel, OpenOnItsWay, published, openFlags, native, caller, control, gens
<1>1. CASE UNCHANGED vars
  BY <1>1, <1>a DEF vars
<1>2. CASE Caller
  <2>1. CASE OpenSubmit
    BY <2>1, <1>a, <1>b, <1>c DEF OpenSubmit, Refuse, OneOpen, OpenInProgress
  <2>2. CASE CloseSubmit
    BY <2>2, <1>a, <1>b, <1>c DEF CloseSubmit, Refuse
  <2> QED BY <1>2, <1>a, <2>1, <2>2 DEF Caller, OpenCall, OpenCheck, OpenArm, CloseCall,
             CloseCheck, Poll, OpenPollDone, OpenPollTimeout, CloseReturnsOk, CloseTimeout
<1>3. CASE Dispatcher
  <2> USE DEF Publish, TearDown
  <2>1. CASE DispatchOpen
    <3>1. Queued("Open")
      BY <2>1, <1>0, DispatchQueued DEF DispatchOpen
    <3> QED BY <2>1, <3>1 DEF DispatchOpen, Undisturbed
  <2>2. CASE DispatchClose \/ DispatchFault
    BY <2>2, <1>d DEF DispatchClose, DispatchFault, Dispatch
  <2>3. CASE OpenEdge
    BY <2>3, <1>a DEF OpenEdge, OpenFrom, StateAtPlace
  <2>4. CASE OpenNative \/ OpenWriter
    BY <2>4, <1>a DEF OpenNative, OpenWriter, OneOpen, OpenInProgress, Undisturbed
  <2>5. CASE Judge \/ TakeCancel \/ OpenDone \/ Cancel \/ CancelFault \/ CloseDone
    BY <2>5, <1>a DEF Judge, TakeCancel, OpenDone, Cancel, CancelFault, CloseDone
  <2>6. CASE HandOff
    BY <2>6, <1>a, <1>b, <1>c DEF HandOff, Refuse
  <2>7. CASE OwnerClose
    BY <2>7, <1>a DEF OwnerClose, StopAdmission, JoinWriter, CloseBackend, Readmit,
                      StateAtPlace, TearingDown
  <2> QED BY <1>3, <2>1, <2>2, <2>3, <2>4, <2>5, <2>6, <2>7 DEF Dispatcher
<1>4. CASE ReaderFault \/ ReaderReport
  BY <1>4, <1>a, <1>b, <1>c DEF ReaderFault, ReaderReport, ReaderSignal, ReaderStore,
     ReaderLatch, Refuse
<1>5. CASE WriterPop \/ WriterReport
  BY <1>5, <1>a, <1>b, <1>c DEF WriterPop, WriterReport, WriterReturn, WriterSignal,
     WriterStore, WriterLatch, Refuse
<1> QED BY <1>1, <1>2, <1>3, <1>4, <1>5 DEF Next

LEMMA OneOpenStep ==
  ASSUME TypeOK, Steady, Undisturbed, StateAtPlace, Sentinel, OneOpen, [Next]_vars
  PROVE  OneOpen'
<1>0. queue \in Seq(Message) /\ session \in Nat
  BY DEF TypeOK, QueueOK, PlacesOK, Message
<1>a. UNCHANGED queue => (Queued("Open")' <=> Queued("Open"))
  BY DEF Queued
<1>b. ASSUME NEW sig \in Signals, Accept(sig)
      PROVE  Queued("Open")' <=> Queued("Open") \/ sig = "Open"
  BY <1>0, <1>b, AcceptLemma
<1>c. "Open" \in Signals /\ "Close" \in Signals /\ "Fault" \in Signals
  BY DEF Signals
<1>d. ASSUME NEW sig, Dispatch(sig), sig # "Open"
      PROVE  Queued("Open")' <=> Queued("Open")
  BY <1>0, <1>d, DispatchQueued
<1>e. UNCHANGED queue => AtMostOneOpen'
  BY <1>0, AtMostOneStep DEF OneOpen
<1>f. ASSUME NEW sig \in Signals, Accept(sig), sig = "Open" => ~Queued("Open")
      PROVE  AtMostOneOpen'
  BY <1>0, <1>f, AtMostOneStep DEF OneOpen
<1>g. ASSUME NEW sig \in Signals, Dispatch(sig)
      PROVE  AtMostOneOpen'
  BY <1>0, <1>g, AtMostOneStep DEF OneOpen
<1> USE DEF OneOpen, Committed, OpenInProgress, published, openFlags, native, caller, control,
            gens
<1>1. CASE UNCHANGED vars
  BY <1>1, <1>a, <1>e DEF vars, Down, TearingDown
<1>2. CASE Caller
  <2> USE DEF Down, TearingDown
  <2>1. CASE \E p \in Ports : OpenCall(p)
    <3>1. lastOpen # "busy"
      BY <2>1 DEF OpenCall, Steady, TakeOpenResult, Undisturbed, Sentinel, OpenOnItsWay,
                  StateAtPlace, Idle
    <3> QED BY <2>1, <3>1, <1>a, <1>e DEF OpenCall, Undisturbed
  <2>2. CASE OpenCheck
    BY <2>2, <1>a, <1>e DEF OpenCheck, OpenRefused
  <2>3. CASE OpenArm
    BY <2>3, <1>a, <1>e DEF OpenArm, Sentinel, OpenOnItsWay, StateAtPlace
  <2>4. CASE OpenSubmit
    BY <2>4, <1>a, <1>b, <1>c, <1>e, <1>f DEF OpenSubmit, Refuse
  <2>5. CASE CloseSubmit
    BY <2>5, <1>a, <1>b, <1>c, <1>e, <1>f DEF CloseSubmit, Refuse
  <2>6. CASE CloseCall \/ CloseCheck
    BY <2>6, <1>a, <1>e DEF CloseCall, CloseCheck
  <2>7. CASE Poll
    BY <2>7, <1>a, <1>e DEF Poll, OpenPollDone, OpenPollTimeout, CloseReturnsOk, CloseTimeout
  <2> QED BY <1>2, <2>1, <2>2, <2>3, <2>4, <2>5, <2>6, <2>7 DEF Caller
<1>3. CASE Dispatcher
  <2> USE DEF Publish, TearDown
  <2>1. CASE DispatchOpen
    <3>1. Queued("Open") /\ ~Queued("Open")'
      BY <2>1, <1>0, DispatchQueued, DispatchOnlyOpen DEF DispatchOpen
    <3>2. abi \notin {"openCheck", "openArm", "openSubmit"}
      BY <3>1 DEF Sentinel, OpenOnItsWay
    <3>3. AtMostOneOpen'
      BY <2>1, <1>c, <1>g DEF DispatchOpen
    <3> QED BY <2>1, <3>1, <3>2, <3>3 DEF DispatchOpen
  <2>2. CASE DispatchClose
    <3>1. AtMostOneOpen' /\ (Queued("Open")' <=> Queued("Open"))
      BY <2>2, <1>c, <1>d, <1>g DEF DispatchClose
    <3> QED BY <2>2, <3>1 DEF DispatchClose, Dispatch, Down, TearingDown
  <2>3. CASE DispatchFault
    <3>1. AtMostOneOpen' /\ (Queued("Open")' <=> Queued("Open"))
      BY <2>3, <1>c, <1>d, <1>g DEF DispatchFault
    <3> QED BY <2>3, <3>1 DEF DispatchFault, Dispatch, FaultTarget, Down, TearingDown
  <2>4. CASE OpenEdge
    <3>1. ~Committed /\ lastOpen = "busy"
      BY <2>4 DEF OpenEdge, Sentinel, OpenOnItsWay
    <3> QED BY <2>4, <3>1, <1>a, <1>e DEF OpenEdge
  <2>5. CASE OpenNative \/ OpenWriter \/ Judge \/ TakeCancel \/ OpenDone \/ Cancel
    <3>1. ~Committed
      BY <2>5 DEF OpenNative, OpenWriter, Judge, TakeCancel, OpenDone, Cancel, Down, StateAtPlace
    <3> QED BY <2>5, <3>1, <1>a, <1>e DEF OpenNative, OpenWriter, Judge, TakeCancel, OpenDone,
               Cancel, Undisturbed
  <2>6. CASE HandOff
    <3>1. ~Committed
      BY <2>6 DEF HandOff, Down, TearingDown, StateAtPlace
    <3> QED BY <2>6, <3>1, <1>a, <1>b, <1>c, <1>e, <1>f DEF HandOff, Refuse
  <2>7. CASE CancelFault \/ CloseDone
    BY <2>7, <1>a, <1>e DEF CancelFault, CloseDone, Down
  <2>8. CASE OwnerClose
    BY <2>8, <1>a, <1>e DEF OwnerClose, StopAdmission, JoinWriter, CloseBackend, Readmit, Down,
                            TearingDown, StateAtPlace
  <2> QED BY <1>3, <2>1, <2>2, <2>3, <2>4, <2>5, <2>6, <2>7, <2>8 DEF Dispatcher
<1>4. CASE ReaderFault \/ ReaderReport
  <2>1. /\ AtMostOneOpen' /\ (Queued("Open")' <=> Queued("Open"))
        /\ UNCHANGED <<state, abi, seen, lastOpen, dispatcher>>
    BY <1>4, <1>a, <1>b, <1>c, <1>e, <1>f DEF ReaderFault, ReaderReport, ReaderSignal,
       ReaderStore, ReaderLatch, Refuse
  <2> QED BY <2>1 DEF Down, TearingDown
<1>5. CASE WriterPop \/ WriterReport
  <2>1. /\ AtMostOneOpen' /\ (Queued("Open")' <=> Queued("Open"))
        /\ UNCHANGED <<state, abi, seen, lastOpen, dispatcher>>
    BY <1>5, <1>a, <1>b, <1>c, <1>e, <1>f DEF WriterPop, WriterReport, WriterReturn,
       WriterSignal, WriterStore, WriterLatch, Refuse
  <2> QED BY <2>1 DEF Down, TearingDown
<1> QED BY <1>1, <1>2, <1>3, <1>4, <1>5 DEF Next

-----------------------------------------------------------------------------
(* What follows from the session invariant.                                *)

\* The parts are inductive together.
LEMMA SessionStep ==
  ASSUME Steady, TypeOK, SessionInv, [Next]_vars
  PROVE  SessionInv'
  BY UndisturbedStep, StateAtPlaceStep, ResourcesStep, ReaderReportedStep, SentinelStep,
     OneOpenStep DEF SessionInv

LEMMA SessionInit == Init => SessionInv
<1> SUFFICES ASSUME Init PROVE SessionInv
  OBVIOUS
<1> USE DEF Init
<1>1. queue = <<>> /\ ~Queued("Open") /\ ~Queued("Fault") /\ AtMostOneOpen
  BY DEF Queued, AtMostOneOpen
<1>2. Undisturbed /\ StateAtPlace /\ ResourcesAtPlace
  BY DEF Undisturbed, StateAtPlace, TearingDown, Idle, ResourcesAtPlace, Empty, Complete
<1>3. ReaderReported /\ Sentinel /\ OneOpen
  BY <1>1 DEF ReaderReported, Sentinel, OpenOnItsWay, OneOpen, Committed, Down, OpenInProgress
<1> QED BY <1>2, <1>3 DEF SessionInv

\* Everything the caller, the Dispatcher and the native threads know of the port
\* agrees, at every place each of them can be at.
THEOREM SessionInvariant ==
  ASSUME Steady
  PROVE  Spec => [](TypeOK /\ SessionInv)
<1>1. TypeOK /\ SessionInv /\ [Next]_vars => TypeOK' /\ SessionInv'
  BY TypeStep, SessionStep
<1>2. Init => SessionInv
  BY SessionInit
<1> QED BY <1>1, <1>2, TypeCorrect, PTL DEF Spec

\* Between two serial actions nothing of a session is leaked or missing: every path
\* through open failure, cancel, close and fault releases what it took.
THEOREM NothingLeaks ==
  ASSUME Steady
  PROVE  Spec => []SessionResources
<1>1. SessionInv => SessionResources
  <2> SUFFICES ASSUME SessionInv PROVE SessionResources
    OBVIOUS
  <2>1. CASE state = "OPEN"
    BY <2>1 DEF SessionInv, StateAtPlace, ResourcesAtPlace, Complete, Idle, SessionResources
  <2>2. CASE state \in {"CLOSED", "FAULT"}
    BY <2>2 DEF SessionInv, ResourcesAtPlace, Empty, Idle, SessionResources
  <2>3. CASE state \notin {"OPEN", "CLOSED", "FAULT"}
    BY <2>3 DEF SessionResources
  <2> QED BY <2>1, <2>2, <2>3
<1> QED BY <1>1, SessionInvariant, PTL

\* An OPEN port whose read thread ended has the Fault signal on its way.
THEOREM NoDeadReader ==
  ASSUME Steady
  PROVE  Spec => []DeadReaderIsReported
<1>1. SessionInv => DeadReaderIsReported
  BY DEF SessionInv, Undisturbed, ReaderReported, DeadReaderIsReported
<1> QED BY <1>1, SessionInvariant, PTL

\* The busy tests of queue_open exclude a second open until the first has its result.
THEOREM OpensExclude ==
  ASSUME Steady
  PROVE  Spec => NoDoubleOpen
<1>1. SessionInv => [OpenArm => ~OpenInProgress /\ ~Queued("Open")]_vars
  <2> SUFFICES ASSUME SessionInv, OpenArm PROVE ~OpenInProgress /\ ~Queued("Open")
    OBVIOUS
  <2>1. lastOpen # "busy" /\ Down
    BY DEF SessionInv, OneOpen, Committed, OpenArm
  <2>2. ~OpenOnItsWay
    BY <2>1 DEF SessionInv, Sentinel
  <2> QED BY <2>1, <2>2 DEF OpenOnItsWay, OpenInProgress, Down, TearingDown, SessionInv,
             StateAtPlace
<1> QED BY <1>1, SessionInvariant, PTL DEF NoDoubleOpen

-----------------------------------------------------------------------------
(* The lifecycle implements the safety part of the abstract port.          *)

LEMMA PortStep ==
  ASSUME TypeOK, SessionInv, [Next]_vars
  PROVE  [Port!PortNext]_(Port!portVars)
<1> USE DEF SessionInv, Undisturbed, StateAtPlace, ResourcesAtPlace, Empty, Complete, Idle,
            TearingDown, published, openFlags, native, caller, control, gens,
            Port!PortNext, Port!portVars, Port!Settle, Port!Finish
<1>1. CASE UNCHANGED vars
  BY <1>1 DEF vars
<1>2. CASE Caller
  BY <1>2 DEF Caller, OpenCall, OpenCheck, OpenArm, OpenSubmit, CloseCall, CloseCheck,
              CloseSubmit, Poll, OpenPollDone, OpenPollTimeout, CloseReturnsOk, CloseTimeout
<1>3. CASE Dispatcher
  <2> USE DEF Publish, TearDown
  <2>1. CASE DispatchOpen
    BY <2>1 DEF DispatchOpen
  <2>2. CASE DispatchClose
    BY <2>2 DEF DispatchClose, CloseFrom, Port!BeginClose
  <2>3. CASE DispatchFault
    BY <2>3 DEF DispatchFault, Dispatch, FaultTarget, Port!Break, Port!EndClose, Port!CutClose
  <2>4. CASE OpenEdge
    BY <2>4 DEF OpenEdge, OpenFrom, Port!Reopen
  <2>5. CASE OpenNative
    <3>1. ~handle /\ portState = "OPENING" /\ UNCHANGED portState
      BY <2>5 DEF OpenNative
    <3>2. handle = FALSE
      BY <3>1 DEF TypeOK, FlagsOK
    <3>3. handle' = TRUE \/ handle' = FALSE
      BY <2>5 DEF OpenNative
    <3> QED BY <3>1, <3>2, <3>3 DEF Port!Acquire
  <2>6. CASE OpenWriter
    BY <2>6 DEF OpenWriter, Port!GiveUp
  <2>7. CASE OpenDone
    BY <2>7 DEF OpenDone, Port!Commit, Port!Fail
  <2>8. CASE Cancel
    BY <2>8 DEF Cancel, Port!BeginClose
  <2>9. CASE CancelFault \/ CloseDone
    BY <2>9 DEF CancelFault, CloseDone, Port!CancelLost, Port!EndClose
  <2>10. CASE CloseBackend
    <3>1. handle = TRUE \/ handle = FALSE
      BY DEF TypeOK, FlagsOK
    <3>2. handle' = FALSE /\ UNCHANGED portState
      BY <2>10 DEF CloseBackend
    <3>3. portState \in {"CLOSING", "FAULT", "CLOSED"}
      BY <2>10 DEF CloseBackend
    <3> QED BY <3>1, <3>2, <3>3 DEF Port!Release
  <2>11. CASE Judge \/ TakeCancel \/ HandOff \/ StopAdmission \/ JoinWriter \/ Readmit
    BY <2>11 DEF Judge, TakeCancel, HandOff, StopAdmission, JoinWriter, Readmit
  <2> QED BY <1>3, <2>1, <2>2, <2>3, <2>4, <2>5, <2>6, <2>7, <2>8, <2>9, <2>10, <2>11
          DEF Dispatcher, OwnerClose
<1>4. CASE ReaderFault \/ ReaderReport
  BY <1>4 DEF ReaderFault, ReaderReport, ReaderSignal, ReaderStore, ReaderLatch
<1>5. CASE WriterPop \/ WriterReport
  BY <1>5 DEF WriterPop, WriterReport, WriterReturn, WriterSignal, WriterStore, WriterLatch
<1> QED BY <1>1, <1>2, <1>3, <1>4, <1>5 DEF Next

\* The published state moves along the legal edges only, the device is acquired and
\* released exactly where the abstract port allows it.
THEOREM ImplementsPortSafety ==
  ASSUME Steady
  PROVE  Spec => Port!PortSafe
<1>1. Init => Port!PortInit
  BY DEF Init, Port!PortInit
<1> QED BY <1>1, PortStep, SessionInvariant, PTL DEF Port!PortSafe, Spec
==============================================================================
