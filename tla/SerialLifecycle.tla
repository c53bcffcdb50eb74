--------------------------- MODULE SerialLifecycle ---------------------------
(***************************************************************************)
(* The port lifecycle of xcom_core: the C ABI calls xcom_open,             *)
(* xcom_open_async and xcom_close made by the one caller thread, the       *)
(* SerialAo state machine that the Dispatcher runs, the owner sinks that   *)
(* open and tear down the native session, and the two native threads of a  *)
(* session (the backend read thread and the SessionWriter) that can report *)
(* a fault at any moment.                                                  *)
(*                                                                         *)
(* The five threads share atomics, never a lock.  Each action below is one *)
(* stretch of code between two accesses another thread can interleave      *)
(* with; "dispatcher" is the program counter of the Dispatcher inside a    *)
(* serial_do_* handler, and "after" is where sink_owner_close returns to.  *)
(***************************************************************************)
EXTENDS Naturals, Sequences

CONSTANTS
  Ports,        \* ports the caller opens, a subset of {"com", "virtual"}
  Refusable,    \* signals the control pool or coact may refuse
  EagerClient,  \* TRUE: the caller may open again before the last open resolved
  QueueBound,   \* bound: nobody starts a call or a write with this many signals queued
  SessionBound  \* bound: no open call once this many sessions were attempted

Signals == {"Open", "Close", "Fault"}

ASSUME LifecycleAssumption ==
  /\ Ports \subseteq {"com", "virtual"}
  /\ Refusable \subseteq Signals
  /\ EagerClient \in BOOLEAN
  /\ QueueBound \in Nat \ {0}
  /\ SessionBound \in Nat

VARIABLES
  portState,    \* CoreCtx::port_state, the published view
  state,        \* SerialCtx::state, the Dispatcher's own state
  lastOpen,     \* CoreCtx::last_open_result: "ok", "busy" (sentinel) or "fail"
  cancelOpen,   \* CoreCtx::cancel_open
  faultPending, \* CoreCtx::fault_pending
  port,         \* CoreCtx::cfg_* and virtual_port: the configured port
  admission,    \* CoreCtx::callback_admission
  handle,       \* WinSerialBackend::port_ is valid
  reader,       \* the backend read thread
  writer,       \* the SessionWriter thread
  queue,        \* serial signals waiting for the Dispatcher
  dispatcher,   \* where the Dispatcher is inside a serial action
  after,        \* where it continues once sink_owner_close returned
  abi,          \* where the ABI caller thread is
  seen,         \* port_state as that thread loaded it
  wanted,       \* the port named by the open call in progress
  abandoned,    \* history: the last xcom_open returned XCOM_ERR_TIMEOUT
  session,      \* history: native opens attempted, the number of the current one
  generation,
  openGeneration

published == <<portState, state>>
openFlags == <<lastOpen, cancelOpen, port, abandoned>>
native    == <<admission, handle, reader, writer>>
caller    == <<abi, seen, wanted>>
control   == <<dispatcher, after>>
gens      == <<session, generation, openGeneration>>
vars == <<published, openFlags, faultPending, native, queue, control, caller, gens>>

PortStates == {"CLOSED", "OPENING", "OPEN", "CLOSING", "FAULT"}

FlagsOK == /\ cancelOpen \in BOOLEAN /\ faultPending \in BOOLEAN
           /\ admission \in BOOLEAN /\ handle \in BOOLEAN /\ abandoned \in BOOLEAN

PlacesOK ==
  /\ portState \in PortStates /\ state \in PortStates
  /\ lastOpen \in {"ok", "busy", "fail"}
  /\ port \in {"com", "virtual"} /\ wanted \in {"com", "virtual"}
  /\ reader \in {"none", "reading", "signal", "store", "latch", "exited"}
  /\ writer \in {"none", "idle", "writing", "signal", "store", "latch"}
  /\ dispatcher \in {"idle", "openEdge", "openNative", "openWriter", "judge",
                     "takeCancel", "openDone", "cancel", "handOff",
                     "stopAdmission", "joinWriter", "closeBackend",
                     "readmit", "closeDone", "cancelFault"}
  /\ after \in {"idle", "openEdge", "closeDone", "cancelFault"}
  /\ abi \in {"idle", "openCheck", "openArm", "openSubmit", "openPoll",
              "closeCheck", "closeSubmit", "closePoll"}
  /\ seen \in PortStates
  /\ session \in Nat /\ generation \in Nat /\ openGeneration \in Nat

QueueOK == queue \in Seq([sig : Signals, session : Nat])

TypeOK == FlagsOK /\ PlacesOK /\ QueueOK

Init ==
  /\ portState = "CLOSED" /\ state = "CLOSED"
  /\ lastOpen = "fail" /\ cancelOpen = FALSE /\ faultPending = FALSE
  /\ port = "com" /\ wanted = "com"
  /\ admission = TRUE /\ handle = FALSE /\ abandoned = FALSE
  /\ reader = "none" /\ writer = "none"
  /\ queue = <<>>
  /\ dispatcher = "idle" /\ after = "idle"
  /\ abi = "idle" /\ seen = "CLOSED"
  /\ session = 0 /\ generation = 0 /\ openGeneration = 0

-----------------------------------------------------------------------------
(* Control events (sink_submit_control).                                   *)

Accept(sig) == queue' = Append(queue, [sig |-> sig, session |-> session])
Refuse(sig) == sig \in Refusable /\ UNCHANGED queue

\* The bound on the queue, imposed where a chain of submissions begins.
Room == Len(queue) < QueueBound

Publish(s) == portState' = s /\ state' = s

-----------------------------------------------------------------------------
(* The ABI caller thread.                                                  *)

\* Mutation: the sentinel of a request still queued reads as a failure.
TakeOpenResultIgnoresSentinel ==
  CASE portState = "OPEN" -> "ok"
    [] portState = "OPENING" -> "busy"
    [] OTHER -> "fail"

\* xcom_take_open_result, which a polling caller waits on after xcom_open_async.
TakeOpenResult ==
  CASE portState = "OPEN" -> "ok"
    [] portState = "OPENING" \/ (portState # "OPEN" /\ lastOpen = "busy") -> "busy"
    [] OTHER -> "fail"

OpenCall(p) ==
  /\ abi = "idle" /\ session < SessionBound /\ Room
  /\ EagerClient \/ TakeOpenResult # "busy"
  /\ seen' = portState /\ wanted' = p /\ abi' = "openCheck"
  /\ UNCHANGED <<published, openFlags, faultPending, native, queue, control, gens>>

OpenRefused == \/ seen \notin {"CLOSED", "FAULT"}
               \/ lastOpen = "busy"

\* queue_open: the busy tests, then the configuration snapshot.
OpenCheck ==
  /\ abi = "openCheck"
  /\ IF OpenRefused THEN /\ abi' = "idle"
                         /\ UNCHANGED port
                    ELSE /\ abi' = "openArm"
                         /\ port' = wanted
  /\ UNCHANGED <<published, lastOpen, cancelOpen, abandoned, faultPending, native,
                 queue, control, seen, wanted, gens>>

OpenArm ==
  /\ abi = "openArm"
  /\ lastOpen' = "busy" /\ cancelOpen' = FALSE /\ abandoned' = FALSE
  /\ abi' = "openSubmit"
  /\ UNCHANGED <<published, port, faultPending, native, queue, control, seen, wanted, gens>>

\* Mutation: a refused request leaves a result the pollers do not know.
OpenSubmitLosesResult ==
  /\ abi = "openSubmit"
  /\ \/ Accept("Open") /\ abi' \in {"openPoll", "idle"} /\ UNCHANGED lastOpen
     \/ Refuse("Open") /\ abi' = "idle" /\ lastOpen' = "full"
  /\ UNCHANGED <<published, cancelOpen, port, abandoned, faultPending, native, control,
                 seen, wanted, gens>>

\* Queued: xcom_open goes on to poll, xcom_open_async returns.
OpenSubmit ==
  /\ abi = "openSubmit"
  /\ \/ Accept("Open") /\ abi' \in {"openPoll", "idle"} /\ UNCHANGED lastOpen
     \/ Refuse("Open") /\ abi' = "idle" /\ lastOpen' = "fail"
  /\ UNCHANGED <<published, cancelOpen, port, abandoned, faultPending, native, control,
                 seen, wanted, gens>>

OpenPollDone ==
  /\ abi = "openPoll"
  /\ lastOpen = "fail" \/ (lastOpen = "ok" /\ portState = "OPEN")
  /\ abi' = "idle"
  /\ UNCHANGED <<published, openFlags, faultPending, native, queue, control, seen, wanted, gens>>

OpenPollTimeout ==
  /\ abi = "openPoll"
  /\ cancelOpen' = TRUE /\ abandoned' = TRUE /\ abi' = "idle"
  /\ UNCHANGED <<published, lastOpen, port, faultPending, native, queue, control, seen,
                 wanted, gens>>

CloseCall ==
  /\ abi = "idle" /\ Room
  /\ seen' = portState /\ abi' = "closeCheck"
  /\ UNCHANGED <<published, openFlags, faultPending, native, queue, control, wanted, gens>>

CloseCheck ==
  /\ abi = "closeCheck"
  /\ IF seen = "CLOSED" /\ lastOpen # "busy"
     THEN abi' = "idle" /\ UNCHANGED cancelOpen
     ELSE /\ abi' = "closeSubmit"
          /\ cancelOpen' = (cancelOpen \/ seen = "OPENING" \/ lastOpen = "busy")
  /\ UNCHANGED <<published, lastOpen, port, abandoned, faultPending, native, queue,
                 control, seen, wanted, gens>>

CloseSubmit ==
  /\ abi = "closeSubmit"
  /\ \/ Accept("Close") /\ abi' = "closePoll"
     \/ Refuse("Close") /\ abi' = "idle"
  /\ UNCHANGED <<published, openFlags, faultPending, native, control, seen, wanted, gens>>

CloseReturnsOk ==
  /\ abi = "closePoll" /\ portState = "CLOSED"
  /\ abi' = "idle"
  /\ UNCHANGED <<published, openFlags, faultPending, native, queue, control, seen, wanted, gens>>

CloseTimeout ==
  /\ abi = "closePoll" /\ portState # "CLOSED"
  /\ abi' = "idle"
  /\ UNCHANGED <<published, openFlags, faultPending, native, queue, control, seen, wanted, gens>>

-----------------------------------------------------------------------------
(* The serial transition table: where an event takes each state.  Events   *)
(* without a row are dropped.  OpenDone is judged by lastOpen.             *)

\* Mutations: a fault leaves an OPEN port as it is; a close is dropped in FAULT; a
\* fault during a close strands the port in FAULT.
FaultTargetNotOpen   == [s \in {"OPENING", "CLOSING"} |->
                           IF s = "CLOSING" THEN "CLOSED" ELSE "FAULT"]
FaultTargetReopens   == [s \in {"OPENING", "OPEN", "CLOSING"} |->
                           IF s = "CLOSING" THEN "OPENING" ELSE "FAULT"]
CloseFromNotFault    == {"OPEN", "CLOSING"}

FaultTarget == [s \in {"OPENING", "OPEN", "CLOSING"} |->
                  IF s = "CLOSING" THEN "CLOSED" ELSE "FAULT"]
OpenFrom    == {"CLOSED", "FAULT"}
CloseFrom   == {"OPEN", "FAULT", "CLOSING"}

\* A publish-first row whose action is sink_owner_close, continuing at "next".
TearDown(target, next) ==
  /\ Publish(target)
  /\ dispatcher' = "stopAdmission" /\ after' = next

-----------------------------------------------------------------------------
(* serial_do_open.                                                         *)

Dispatch(sig) ==
  /\ dispatcher = "idle" /\ queue # <<>> /\ Head(queue).sig = sig
  /\ queue' = Tail(queue)

\* serial_reconcile_pending_fault runs first.
DispatchOpen ==
  /\ Dispatch("Open")
  /\ faultPending' = FALSE
  /\ IF faultPending /\ state \in DOMAIN FaultTarget
     THEN TearDown(FaultTarget[state], "openEdge")
     ELSE dispatcher' = "openEdge" /\ UNCHANGED <<published, after>>
  /\ UNCHANGED <<openFlags, native, caller, gens>>

OpenEdge ==
  /\ dispatcher = "openEdge"
  /\ IF state \in OpenFrom
     THEN Publish("OPENING") /\ dispatcher' = "openNative"
     ELSE dispatcher' = "judge" /\ UNCHANGED published
  /\ UNCHANGED <<openFlags, faultPending, native, queue, after, caller, gens>>

ReaderJoinable == reader \notin {"signal", "store", "latch"}

\* sink_owner_open up to the writer; WinSerialBackend::open closes first.
OpenNative ==
  /\ dispatcher = "openNative"
  /\ session' = session + 1
  /\ \/ /\ port = "virtual"
        /\ lastOpen' = "ok" /\ dispatcher' = "openWriter"
        /\ UNCHANGED <<handle, reader>>
     \/ /\ port = "com" /\ ReaderJoinable
        /\ \/ /\ handle' = TRUE /\ reader' = "reading"
              /\ dispatcher' = "openWriter" /\ UNCHANGED lastOpen
           \/ /\ handle' = FALSE /\ reader' = "none"
              /\ dispatcher' = "judge" /\ lastOpen' = "fail"
  /\ UNCHANGED <<published, cancelOpen, port, abandoned, faultPending, admission, writer,
                 queue, after, caller, generation, openGeneration>>

\* Mutations: a writer that fails to start leaves the backend open; its failure is
\* not recorded.
OpenWriterLeaksBackend ==
  /\ dispatcher = "openWriter" /\ dispatcher' = "judge"
  /\ \/ /\ writer' = IF writer = "none" THEN "idle" ELSE writer
        /\ admission' = TRUE /\ lastOpen' = "ok"
     \/ /\ writer = "none" /\ lastOpen' = "fail"
        /\ UNCHANGED <<admission, writer>>
  /\ UNCHANGED <<published, cancelOpen, port, abandoned, faultPending, handle, reader,
                 queue, after, caller, gens>>
OpenWriterForgetsFailure ==
  /\ dispatcher = "openWriter" /\ dispatcher' = "judge"
  /\ \/ /\ writer' = IF writer = "none" THEN "idle" ELSE writer
        /\ admission' = TRUE /\ lastOpen' = "ok"
        /\ UNCHANGED <<handle, reader>>
     \/ /\ writer = "none" /\ ReaderJoinable
        /\ handle' = FALSE /\ reader' = "none"
        /\ UNCHANGED <<admission, writer, lastOpen>>
  /\ UNCHANGED <<published, cancelOpen, port, abandoned, faultPending, queue, after,
                 caller, gens>>

\* SessionWriter::start; its failure closes the backend again.
OpenWriter ==
  /\ dispatcher = "openWriter" /\ dispatcher' = "judge"
  /\ \/ /\ writer' = IF writer = "none" THEN "idle" ELSE writer
        /\ admission' = TRUE /\ lastOpen' = "ok"
        /\ UNCHANGED <<handle, reader>>
     \/ /\ writer = "none" /\ ReaderJoinable
        /\ handle' = FALSE /\ reader' = "none" /\ lastOpen' = "fail"
        /\ UNCHANGED <<admission, writer>>
  /\ UNCHANGED <<published, cancelOpen, port, abandoned, faultPending, queue, after,
                 caller, gens>>

Judge ==
  /\ dispatcher = "judge"
  /\ dispatcher' = IF lastOpen = "ok" THEN "takeCancel" ELSE "openDone"
  /\ UNCHANGED <<published, openFlags, faultPending, native, queue, after, caller, gens>>

TakeCancel ==
  /\ dispatcher = "takeCancel"
  /\ dispatcher' = IF cancelOpen THEN "cancel" ELSE "openDone"
  /\ cancelOpen' = FALSE
  /\ UNCHANGED <<published, lastOpen, port, abandoned, faultPending, native, queue, after,
                 caller, gens>>

\* kOpenCommit or kOpenFail; the row's guard loads last_open_result again.
OpenDone ==
  /\ dispatcher = "openDone" /\ dispatcher' = "idle"
  /\ \/ /\ state = "OPENING" /\ lastOpen = "ok"
        /\ openGeneration' = openGeneration + 1
        /\ generation' = openGeneration'
        /\ Publish("OPEN") /\ UNCHANGED session
     \/ state = "OPENING" /\ lastOpen # "ok" /\ Publish("CLOSED") /\ UNCHANGED gens
     \/ state # "OPENING" /\ UNCHANGED <<published, gens>>
  /\ UNCHANGED <<openFlags, faultPending, native, queue, after, caller>>

Cancel ==
  /\ dispatcher = "cancel"
  /\ IF state = "OPENING" THEN Publish("CLOSING") /\ dispatcher' = "handOff"
                          ELSE dispatcher' = "idle" /\ UNCHANGED published
  /\ UNCHANGED <<openFlags, faultPending, native, queue, after, caller, gens>>

\* kCancelClose: hand over to a Close signal, or tear down here if refused.
HandOff ==
  /\ dispatcher = "handOff"
  /\ \/ Accept("Close") /\ dispatcher' = "idle" /\ UNCHANGED after
     \/ Refuse("Close") /\ dispatcher' = "stopAdmission" /\ after' = "cancelFault"
  /\ UNCHANGED <<published, openFlags, faultPending, native, caller, gens>>

CancelFault ==
  /\ dispatcher = "cancelFault" /\ dispatcher' = "idle"
  /\ Publish("FAULT")
  /\ UNCHANGED <<openFlags, faultPending, native, queue, after, caller, gens>>

-----------------------------------------------------------------------------
(* serial_do_close, serial_do_fault.                                       *)

DispatchClose ==
  /\ Dispatch("Close")
  /\ IF state \in CloseFrom
     THEN TearDown("CLOSING", "closeDone") /\ UNCHANGED faultPending
     ELSE faultPending' = FALSE /\ UNCHANGED <<published, control>>
  /\ UNCHANGED <<openFlags, native, caller, gens>>

CloseDone ==
  /\ dispatcher = "closeDone" /\ dispatcher' = "idle"
  /\ generation' = generation + 1
  /\ Publish("CLOSED")
  /\ faultPending' = FALSE
  /\ UNCHANGED <<openFlags, native, queue, after, caller, session,
                 openGeneration>>

DispatchFault ==
  /\ Dispatch("Fault")
  /\ IF state = "FAULT" THEN UNCHANGED <<published, faultPending, control>>
     ELSE /\ faultPending' = FALSE
          /\ IF state \in DOMAIN FaultTarget
             THEN TearDown(FaultTarget[state], "idle")
             ELSE UNCHANGED <<published, control>>
  /\ UNCHANGED <<openFlags, native, caller, gens>>

-----------------------------------------------------------------------------
(* sink_owner_close, one action per step another thread can see.           *)

StopAdmission ==
  /\ dispatcher = "stopAdmission" /\ dispatcher' = "joinWriter"
  /\ admission' = FALSE
  /\ UNCHANGED <<published, openFlags, faultPending, handle, reader, writer, queue, after,
                 caller, gens>>

JoinWriter ==
  /\ dispatcher = "joinWriter" /\ dispatcher' = "closeBackend"
  /\ writer \in {"none", "idle"} /\ writer' = "none"
  /\ UNCHANGED <<published, openFlags, faultPending, admission, handle, reader, queue,
                 after, caller, gens>>

CloseBackend ==
  /\ dispatcher = "closeBackend" /\ dispatcher' = "readmit"
  /\ IF port = "virtual" THEN UNCHANGED <<handle, reader>>
     ELSE ReaderJoinable /\ handle' = FALSE /\ reader' = "none"
  /\ UNCHANGED <<published, openFlags, faultPending, admission, writer, queue, after,
                 caller, gens>>

Readmit ==
  /\ dispatcher = "readmit" /\ dispatcher' = after /\ after' = "idle"
  /\ admission' = TRUE
  /\ UNCHANGED <<published, openFlags, faultPending, handle, reader, writer, queue,
                 caller, gens>>

-----------------------------------------------------------------------------
(* Native threads.  A read error ends the read thread; a fatal or third    *)
(* consecutive write error makes the writer report and carry on.           *)

\* Mutation: an aborted read is taken for a deliberate teardown and not reported.
ReaderFaultSuppressed ==
  /\ reader = "reading"
  /\ reader' \in IF admission THEN {"signal", "exited"} ELSE {"exited"}
  /\ UNCHANGED <<published, openFlags, faultPending, admission, handle, writer, queue,
                 control, caller, gens>>

ReaderFault ==
  /\ reader = "reading"
  /\ reader' = IF admission THEN "signal" ELSE "exited"
  /\ UNCHANGED <<published, openFlags, faultPending, admission, handle, writer, queue,
                 control, caller, gens>>

ReaderSignal ==
  /\ reader = "signal"
  /\ \/ Accept("Fault") /\ reader' = "exited"
     \/ Refuse("Fault") /\ reader' = "store"
  /\ UNCHANGED <<published, openFlags, faultPending, admission, handle, writer, control,
                 caller, gens>>

ReaderStore ==
  /\ reader = "store" /\ reader' = "latch"
  /\ portState' = "FAULT"
  /\ UNCHANGED <<state, openFlags, faultPending, admission, handle, writer, queue, control,
                 caller, gens>>

\* Mutation: the view is overwritten but the latch is not set.
ReaderLatchDropped ==
  /\ reader = "latch" /\ reader' = "exited"
  /\ UNCHANGED <<published, openFlags, faultPending, admission, handle, writer, queue,
                 control, caller, gens>>

ReaderLatch ==
  /\ reader = "latch" /\ reader' = "exited"
  /\ faultPending' = TRUE
  /\ UNCHANGED <<published, openFlags, admission, handle, writer, queue, control, caller,
                 gens>>

\* SessionWriter::run pops a job of the live session into sink_owner_write.
WriterPop ==
  /\ writer = "idle" /\ portState = "OPEN" /\ Room
  /\ port = "com" /\ handle /\ reader # "exited"
  /\ writer' = "writing"
  /\ UNCHANGED <<published, openFlags, faultPending, admission, handle, reader, queue,
                 control, caller, gens>>

WriterReturn ==
  /\ writer = "writing" /\ writer' \in {"idle", "signal"}
  /\ UNCHANGED <<published, openFlags, faultPending, admission, handle, reader, queue,
                 control, caller, gens>>

WriterSignal ==
  /\ writer = "signal"
  /\ \/ Accept("Fault") /\ writer' = "idle"
     \/ Refuse("Fault") /\ writer' = "store"
  /\ UNCHANGED <<published, openFlags, faultPending, admission, handle, reader, control,
                 caller, gens>>

WriterStore ==
  /\ writer = "store" /\ writer' = "latch"
  /\ portState' = "FAULT"
  /\ UNCHANGED <<state, openFlags, faultPending, admission, handle, reader, queue, control,
                 caller, gens>>

WriterLatch ==
  /\ writer = "latch" /\ writer' = "idle"
  /\ faultPending' = TRUE
  /\ UNCHANGED <<published, openFlags, admission, handle, reader, queue, control, caller,
                 gens>>

-----------------------------------------------------------------------------

Poll == OpenPollDone \/ OpenPollTimeout \/ CloseReturnsOk \/ CloseTimeout

Caller ==
  \/ \E p \in Ports : OpenCall(p)
  \/ OpenCheck \/ OpenArm \/ OpenSubmit
  \/ CloseCall \/ CloseCheck \/ CloseSubmit
  \/ Poll

OwnerClose == StopAdmission \/ JoinWriter \/ CloseBackend \/ Readmit

Dispatcher ==
  \/ DispatchOpen \/ OpenEdge \/ OpenNative \/ OpenWriter \/ Judge \/ TakeCancel
  \/ OpenDone \/ Cancel \/ HandOff \/ CancelFault
  \/ DispatchClose \/ CloseDone \/ DispatchFault
  \/ OwnerClose

ReaderReport == ReaderSignal \/ ReaderStore \/ ReaderLatch
WriterReport == WriterReturn \/ WriterSignal \/ WriterStore \/ WriterLatch

Next == Caller \/ Dispatcher \/ ReaderFault \/ ReaderReport \/ WriterPop \/ WriterReport

Spec == Init /\ [][Next]_vars

(* The Dispatcher and a thread inside a call it has begun keep running; a  *)
(* native write is bounded by its timeout.  Nobody has to call the ABI.    *)
Fairness ==
  /\ WF_vars(Dispatcher)
  /\ WF_vars(ReaderReport)
  /\ WF_vars(WriterReport)
  /\ WF_vars(OpenCheck \/ OpenArm \/ OpenSubmit \/ CloseCheck \/ CloseSubmit \/ Poll)

FairSpec == Spec /\ Fairness
-----------------------------------------------------------------------------
(* Properties.                                                             *)

Idle == dispatcher = "idle"
Queued(sig) == \E i \in DOMAIN queue : queue[i].sig = sig
OpenInProgress == dispatcher \in {"openEdge", "openNative", "openWriter", "judge",
                                 "takeCancel", "openDone"}

\* Between two serial actions an OPEN port has its writer, its handle and open
\* callback admission, and a CLOSED or FAULT port has kept nothing of a session:
\* no path through open failure, cancel, close or fault leaks a handle or thread.
SessionResources ==
  Idle => /\ state = "OPEN" => writer # "none" /\ admission /\ (port = "com" => handle)
          /\ state \in {"CLOSED", "FAULT"} => ~handle /\ writer = "none" /\ reader = "none"

\* A port shown OPEN never has a read thread that died unreported: its Fault
\* signal is still queued (serial_backend_win.cpp keeps every abort reported so
\* that no session stays OPEN with no reader).
DeadReaderIsReported ==
  Idle /\ portState = "OPEN" /\ port = "com" => reader # "exited" \/ Queued("Fault")

\* An open request is never armed while the Dispatcher is inside an earlier one,
\* whose result and configuration it would overwrite (queue_open's busy tests).
NoDoubleOpen == [][OpenArm => ~OpenInProgress /\ ~Queued("Open")]_vars

\* A live session whose published state was overwritten shows FAULT, and the latch
\* that makes the next lifecycle action reconcile it is set or about to be
\* (serial_fault_callback, sink_owner_write, serial_reconcile_pending_fault).
FaultIsLatched ==
  state = "OPEN" /\ portState # "OPEN" =>
    portState = "FAULT" /\ (faultPending \/ reader = "latch" \/ writer = "latch")

\* The lifecycle implements the abstract port: legal edges of the published view,
\* exclusive ownership of the device, no passing state that lasts.
Port == INSTANCE PortSession WITH view <- portState, held <- handle
ImplementsPort == Port!PortSpec

\* The "request queued" sentinel is always resolved, so later opens are not
\* refused with BUSY for ever.
OpenResolves == lastOpen = "busy" ~> lastOpen # "busy"

\* An accepted close gets the port to CLOSED.
CloseCompletes == Queued("Close") ~> portState = "CLOSED"

\* A read thread that ended takes its session down with it.
FaultEndsSession == reader = "exited" ~> reader = "none"

\* Every request is answered: a queued open, an accepted close, an ended read thread.
RequestsEnd == OpenResolves /\ CloseCompletes /\ FaultEndsSession

(* Statements of the code's comments and documents that the runs refute.   *)

\* "An open timeout requests cancellation; it never later publishes an unobserved
\* OPEN state" (xcom_abi.cpp, synchronous contracts).
NoOpenAfterTimeout == [][portState # "OPEN" /\ portState' = "OPEN" => ~abandoned]_vars

\* A close issued while the open is still queued must not return OK and let "the
\* queued open complete after xcom_close returned OK" (xcom_close).
NoOpenAfterClose == [][CloseReturnsOk => ~OpenInProgress /\ ~Queued("Open")]_vars

\* The latch exists so that "the next Open" does not "find no edge and silently time
\* out" (serial_fault_callback): an unresolved open is on its way to the Dispatcher.
NoOrphanSentinel ==
  Idle /\ lastOpen = "busy" => Queued("Open") \/ abi = "openSubmit"

\* "The driver's own recovery always bumps the generation twice (its close() then
\* open() each advance it)" (view_model.lua): a committed open advances it.
OpenAdvancesGeneration == [][openGeneration' # openGeneration => generation' > generation]_vars

\* The configuration snapshot "never races: written before the open event is
\* submitted and only mutated by the serialized owner thereafter" (CoreCtx): the
\* caller does not write it while a teardown or a native open has yet to read it.
ConfigReaders    == {"openNative", "stopAdmission", "joinWriter", "closeBackend"}
ConfigNeverRaces == [][OpenCheck /\ abi' = "openArm" => dispatcher \notin ConfigReaders]_vars

\* Reopening from FAULT "is the same work the Close-then-Open pair performed"
\* (queue_open): no Fault signal of an earlier session takes down the new one.
NoStaleFault == [][DispatchFault /\ state = "OPEN" => Head(queue).session = session]_vars

\* The join order in teardown excludes a late FAULT store over a newer CLOSED
\* (design-state-machines.md, section 2.4).
NoFaultOverClosed == [][ReaderStore \/ WriterStore => state # "CLOSED"]_vars
==============================================================================
