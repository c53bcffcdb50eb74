------------------------------ MODULE CoreLife ------------------------------
(***************************************************************************)
(* The life of a core: xcom_create boots it, xcom_destroy takes it down    *)
(* while its threads may be busy: the Dispatcher with a queued control, the *)
(* auto-send timer, the read thread, the session writer, the log writer    *)
(* and the diagnostic writer (DiagLog).  One caller thread, which creates  *)
(* and destroys.  The runtime of coact and the control pool are external.  *)
(***************************************************************************)
EXTENDS DiagLog

CONSTANTS
  PostBound,   \* bound: controls posted in one life
  RawBound     \* blocks of the file lane

ASSUME CoreAssumption ==
  PostBound \in Nat /\ RawBound \in Nat /\ {"dispatcher", "reader", "writer"} \subseteq Emitters

VARIABLES
  caller,      \* where the ABI caller is: "none" without a core
  core, handle,   \* the slots of CoreState and Handle
  started, gate,  \* started, dispatcher_running
  pool,        \* ctl_pool is registered
  runtime,     \* the runtime takes events
  queue,       \* events staged for the Dispatcher
  posts,       \* controls posted
  dispatcher,  \* where the Dispatcher is
  port,        \* the session is open
  admission,   \* callback_admission
  timer, timerStop,    \* the auto-send timer thread, stop_requested_
  reader, readerStop,  \* the read thread
  writer, writerStop,  \* the session writer
  log,         \* the log writer thread
  raw, lost,   \* blocks of the file lane not written yet, counted as lost
  late         \* history: the close of the log ran out of time

slots == <<core, handle>>
loop == <<started, gate, runtime, dispatcher>>
events == <<pool, queue, posts>>
session == <<port, admission, reader, readerStop, writer, writerStop>>
auto == <<timer, timerStop>>
files == <<log, raw, lost, late>>
vars == <<caller, slots, loop, events, session, auto, files, diagVars>>

Controls == {"open", "close", "auto", "off"}
Boot == {"bind", "rx", "diag", "pool", "start"}
Teardown == {"timer", "joinTimer", "gate", "stop", "joinDispatcher", "pools", "writer",
             "joinWriter", "admission", "reader", "joinReader", "log", "joinLog", "drain",
             "diagStop", "joinDiag", "handle", "destructor"}

TypeOK ==
  /\ caller \in {"none", "ready"} \cup Boot \cup Teardown
  /\ core \in BOOLEAN /\ handle \in BOOLEAN /\ started \in BOOLEAN /\ gate \in BOOLEAN
  /\ pool \in BOOLEAN /\ runtime \in BOOLEAN
  /\ queue \in Seq(Controls \cup {"tick", "fault"}) /\ posts \in 0 .. PostBound
  /\ dispatcher \in {"none", "idle", "arm", "launch", "off", "disarm", "cut"}
  /\ port \in BOOLEAN /\ admission \in BOOLEAN
  /\ timer \in {"none", "sleep", "submit"} /\ timerStop \in BOOLEAN
  /\ reader \in {"none", "read", "wait", "fault"} /\ readerStop \in BOOLEAN
  /\ writer \in {"none", "run"} /\ writerStop \in BOOLEAN
  /\ log \in {"none", "run", "stop"} /\ raw \in 0 .. RawBound /\ lost \in 0 .. RawBound
  /\ late \in BOOLEAN
  /\ DiagTypeOK

Init ==
  /\ caller = "none" /\ core = FALSE /\ handle = FALSE /\ started = FALSE /\ gate = FALSE
  /\ pool = FALSE /\ runtime = FALSE /\ queue = <<>> /\ posts = 0 /\ dispatcher = "none"
  /\ port = FALSE /\ admission = TRUE /\ timer = "none" /\ timerStop = FALSE
  /\ reader = "none" /\ readerStop = FALSE /\ writer = "none" /\ writerStop = FALSE
  /\ log = "none" /\ raw = 0 /\ lost = 0 /\ late = FALSE
  /\ DiagInit

Goes(from, to) == caller = from /\ caller' = to

-----------------------------------------------------------------------------
(* xcom_create: the slots, then boot                                       *)

\* Mutation: a boot that fails gives the handle back and nothing else.
FailsAtOnce(at) ==
  /\ Goes(at, "none") /\ handle' = FALSE
  /\ UNCHANGED <<core, loop, events, session, auto, files, diagVars>>

Create ==
  /\ Goes("none", "bind") /\ ~core /\ core' = TRUE /\ handle' = TRUE
  /\ UNCHANGED <<loop, events, session, auto, files, diagVars>>

\* A step of boot that cannot be done: xcom_create destroys what there is.
BootFails(at) ==
  /\ at \in {"bind", "rx", "pool", "start"} /\ Goes(at, "timer")
  /\ UNCHANGED <<slots, loop, events, session, auto, files, diagVars>>

BootBinds ==
  /\ Goes("bind", "rx") \/ Goes("rx", "diag")
  /\ UNCHANGED <<slots, loop, events, session, auto, files, diagVars>>

\* Best effort.
BootDiag ==
  /\ Goes("diag", "pool") /\ (StartFails \/ Starts)
  /\ UNCHANGED <<slots, loop, events, session, auto, files>>

BootPool ==
  /\ Goes("pool", "start") /\ pool' = TRUE
  /\ UNCHANGED <<slots, loop, queue, posts, session, auto, files, diagVars>>

\* Mutation: started is not noted, so shutdown leaves the Dispatcher alone.
BootStartUnmarked ==
  /\ Goes("start", "ready") /\ runtime' = TRUE /\ dispatcher' = "idle" /\ gate' = TRUE
  /\ UNCHANGED <<slots, started, events, session, auto, files, diagVars>>

\* runtime.start, then the gate of the observer.
BootStart ==
  /\ Goes("start", "ready") /\ runtime' = TRUE /\ dispatcher' = "idle"
  /\ gate' = TRUE /\ started' = TRUE
  /\ UNCHANGED <<slots, events, session, auto, files, diagVars>>

-----------------------------------------------------------------------------
(* Calls of a ready core                                                   *)

Post ==
  /\ caller = "ready" /\ posts < PostBound /\ posts' = posts + 1
  /\ \E control \in Controls : queue' = Append(queue, control)
  /\ UNCHANGED <<caller, slots, loop, pool, session, auto, files, diagVars>>

LogOpen ==
  /\ caller = "ready" /\ log = "none" /\ log' = "run"
  /\ UNCHANGED <<caller, slots, loop, events, session, auto, raw, lost, late, diagVars>>

Destroy ==
  /\ Goes("ready", "timer")
  /\ UNCHANGED <<slots, loop, events, session, auto, files, diagVars>>

-----------------------------------------------------------------------------
(* xcom_destroy: shutdown, the slots                                       *)

\* autosend_set(0), stop: both ask the timer thread to stop and join it.
QuitTimer ==
  /\ \/ Goes("timer", "joinTimer") /\ timerStop' = TRUE
     \/ Goes("joinTimer", IF started THEN "gate" ELSE "pools") /\ timer = "none"
        /\ UNCHANGED timerStop
  /\ UNCHANGED <<slots, loop, events, session, timer, files, diagVars>>

\* Mutation: the gate is closed only when the Dispatcher is gone.
QuitDispatcherLate ==
  /\ \/ Goes("gate", "stop") /\ UNCHANGED <<gate, started, runtime, queue>>
     \/ Goes("stop", "joinDispatcher") /\ runtime' = FALSE /\ UNCHANGED <<gate, started, queue>>
     \/ /\ Goes("joinDispatcher", "pools") /\ dispatcher = "none" /\ queue' = <<>>
        /\ started' = FALSE /\ gate' = FALSE /\ UNCHANGED runtime
  /\ UNCHANGED <<slots, dispatcher, pool, posts, session, auto, files, diagVars>>

\* The gate is closed, then Runtime::stop joins the Dispatcher and drains its queues.
QuitDispatcher ==
  /\ \/ Goes("gate", "stop") /\ gate' = FALSE /\ UNCHANGED <<started, runtime, queue>>
     \/ Goes("stop", "joinDispatcher") /\ runtime' = FALSE /\ UNCHANGED <<gate, started, queue>>
     \/ /\ Goes("joinDispatcher", "pools") /\ dispatcher = "none" /\ queue' = <<>>
        /\ started' = FALSE /\ UNCHANGED <<gate, runtime>>
  /\ UNCHANGED <<slots, dispatcher, pool, posts, session, auto, files, diagVars>>

ReleasePools ==
  /\ Goes("pools", "writer") /\ pool' = FALSE
  /\ UNCHANGED <<slots, loop, queue, posts, session, auto, files, diagVars>>

\* abort_pending_write, stop_and_join.
QuitWriter ==
  /\ \/ Goes("writer", "joinWriter") /\ writerStop' = TRUE
     \/ Goes("joinWriter", "admission") /\ writer = "none" /\ UNCHANGED writerStop
  /\ UNCHANGED <<slots, loop, events, port, admission, reader, readerStop, writer, auto, files,
                 diagVars>>

\* Mutation: admission is left open, so that nothing is lost.
QuitReaderOpen ==
  /\ \/ Goes("admission", "reader") /\ UNCHANGED <<readerStop, port, admission>>
     \/ Goes("reader", "joinReader") /\ readerStop' = TRUE /\ UNCHANGED <<port, admission>>
     \/ Goes("joinReader", "log") /\ reader = "none" /\ UNCHANGED <<readerStop, port, admission>>
  /\ UNCHANGED <<slots, loop, events, reader, writer, writerStop, auto, files, diagVars>>

\* Mutation: close does not join the reader.
QuitReaderAtOnce ==
  /\ \/ Goes("admission", "reader") /\ admission' = FALSE /\ UNCHANGED readerStop
     \/ Goes("reader", "joinReader") /\ readerStop' = TRUE /\ UNCHANGED admission
     \/ Goes("joinReader", "log") /\ UNCHANGED <<readerStop, admission>>
  /\ UNCHANGED <<slots, loop, events, port, reader, writer, writerStop, auto, files, diagVars>>

\* Admission is closed and a reader that waits is woken; close joins it.
QuitReader ==
  /\ \/ Goes("admission", "reader") /\ admission' = FALSE /\ UNCHANGED readerStop
     \/ Goes("reader", "joinReader") /\ readerStop' = TRUE /\ UNCHANGED admission
     \/ Goes("joinReader", "log") /\ reader = "none" /\ UNCHANGED <<readerStop, admission>>
  /\ UNCHANGED <<slots, loop, events, port, reader, writer, writerStop, auto, files, diagVars>>

\* Mutation: the log writer is stopped without a close.
QuitLogAtOnce ==
  /\ \/ /\ Goes("log", "joinLog") /\ log' = IF log = "run" THEN "stop" ELSE log
        /\ UNCHANGED <<raw, lost, late>>
     \/ Goes("joinLog", "drain") /\ log = "none" /\ UNCHANGED files
     \/ Goes("drain", "diagStop") /\ lost' = raw /\ raw' = 0 /\ UNCHANGED <<log, late>>
  /\ UNCHANGED <<slots, loop, events, session, auto, diagVars>>

\* close writes the file lane out or runs out of time; the thread is joined; what
\* is left is counted.
QuitLog ==
  /\ \/ /\ Goes("log", "joinLog") /\ log' = IF log = "run" THEN "stop" ELSE log
        /\ \/ raw = 0 /\ UNCHANGED late
           \/ log = "run" /\ late' = TRUE
        /\ UNCHANGED <<raw, lost>>
     \/ Goes("joinLog", "drain") /\ log = "none" /\ UNCHANGED files
     \/ Goes("drain", "diagStop") /\ lost' = raw /\ raw' = 0 /\ UNCHANGED <<log, late>>
  /\ UNCHANGED <<slots, loop, events, session, auto, diagVars>>

QuitDiag ==
  /\ \/ Goes("diagStop", "joinDiag") /\ (IF bound THEN AsksToStop ELSE UNCHANGED diagVars)
     \/ Goes("joinDiag", "handle") /\ Ends
  /\ UNCHANGED <<slots, loop, events, session, auto, files>>

\* The handle, the destructors (a timer that runs is stopped again), the core; the
\* next core is built anew.
Free ==
  /\ \/ /\ Goes("handle", "destructor") /\ handle' = FALSE /\ timerStop' = TRUE
        /\ UNCHANGED <<core, session, posts, lost, late>>
     \/ /\ Goes("destructor", "none") /\ timer = "none" /\ core' = FALSE
        /\ port' = FALSE /\ admission' = TRUE /\ timerStop' = FALSE /\ readerStop' = FALSE
        /\ writerStop' = FALSE /\ posts' = 0 /\ lost' = 0 /\ late' = FALSE
        /\ UNCHANGED <<handle, reader, writer>>
  /\ UNCHANGED <<loop, pool, queue, timer, log, raw, diagVars>>

-----------------------------------------------------------------------------
(* The Dispatcher                                                          *)

\* emit: a record, unless there is no writer or no room.
Tells(who, lane) == Emit(who, lane) \/ (~Room(lane) /\ UNCHANGED diagVars)

Acts(from, to) ==
  /\ dispatcher = from /\ dispatcher' = to /\ "dispatcher" \notin owed
  /\ UNCHANGED <<caller, slots, started, gate, runtime, pool, posts, files>>

\* sink_owner_open: both threads, admission; or none of it.
DispatchOpen ==
  /\ Acts("idle", "idle") /\ queue # <<>> /\ Head(queue) = "open" /\ queue' = Tail(queue)
  /\ \/ /\ ~port /\ port' = TRUE /\ admission' = TRUE
        /\ reader' = "read" /\ readerStop' = FALSE /\ writer' = "run" /\ writerStop' = FALSE
        /\ Tells("dispatcher", "normal")
     \/ ~port /\ UNCHANGED session /\ Tells("dispatcher", "critical")
     \/ port /\ UNCHANGED <<session, diagVars>>
  /\ UNCHANGED auto

\* A close, or a fault of an open session: sink_owner_close begins with the timer.
DispatchClose ==
  /\ queue # <<>> /\ queue' = Tail(queue)
  /\ \/ /\ Head(queue) \in {"close", "fault"} /\ port
        /\ Acts("idle", "disarm") /\ timerStop' = TRUE
     \/ /\ Head(queue) = "tick" \/ (Head(queue) \in {"close", "fault"} /\ ~port)
        /\ Acts("idle", "idle") /\ UNCHANGED timerStop
  /\ UNCHANGED <<session, timer, diagVars>>

\* The timer is joined; admission, the writer, the reader.
CloseSession ==
  /\ \/ /\ Acts("disarm", "cut") /\ timer = "none"
        /\ admission' = FALSE /\ writerStop' = TRUE /\ readerStop' = TRUE
        /\ UNCHANGED <<port, diagVars>>
     \/ /\ Acts("cut", "idle") /\ writer = "none" /\ reader = "none"
        /\ admission' = TRUE /\ port' = FALSE /\ UNCHANGED <<writerStop, readerStop>>
        /\ \E lane \in Lanes : Tells("dispatcher", lane)
  /\ UNCHANGED <<queue, reader, writer, auto>>

\* autosend_config_action: the timer is stopped, and started with a new template.
DispatchAuto ==
  /\ queue # <<>> /\ queue' = Tail(queue) /\ timerStop' = TRUE
  /\ \/ Acts("idle", "arm") /\ Head(queue) = "auto"
     \/ Acts("idle", "off") /\ Head(queue) = "off"
  /\ UNCHANGED <<session, timer, diagVars>>

\* PeriodicTimer::start resets the flag before the thread is there.
SetTimer ==
  /\ \/ Acts("off", "idle") /\ timer = "none" /\ UNCHANGED auto
     \/ Acts("arm", "launch") /\ timer = "none" /\ timerStop' = FALSE /\ UNCHANGED timer
     \/ Acts("launch", "idle") /\ timer' \in {"sleep", "none"} /\ UNCHANGED timerStop
  /\ UNCHANGED <<queue, session, diagVars>>

DispatcherEnds ==
  /\ dispatcher = "idle" /\ ~runtime /\ "dispatcher" \notin owed /\ dispatcher' = "none"
  /\ UNCHANGED <<caller, slots, started, gate, runtime, events, session, auto, files, diagVars>>

-----------------------------------------------------------------------------
(* The timer, the read thread, the session writer, the log writer          *)

\* A control that the pool and the runtime take.
Submits(control) ==
  queue' = IF pool /\ runtime /\ Len(queue) <= PostBound THEN Append(queue, control) ELSE queue

\* autosend_tick: one tick at a time, in an open session.
Timer ==
  /\ \/ timer = "sleep" /\ timerStop /\ timer' = "none" /\ UNCHANGED queue
     \/ /\ timer = "sleep" /\ ~timerStop /\ port /\ "tick" \notin Elements(queue)
        /\ timer' = "submit" /\ UNCHANGED queue
     \/ timer = "submit" /\ timer' = "sleep" /\ Submits("tick")
  /\ UNCHANGED <<caller, slots, loop, pool, posts, session, timerStop, files, diagVars>>

\* Mutation: the reader goes on without room.
ReaderReadsOn ==
  /\ "reader" \notin owed
  /\ \/ reader = "read" /\ readerStop /\ reader' = "none" /\ UNCHANGED raw
     \/ /\ reader = "read" /\ admission /\ log = "run" /\ raw' = raw + 1
        /\ reader' = (IF readerStop THEN "none" ELSE "read")
  /\ UNCHANGED <<caller, slots, loop, events, port, admission, readerStop, writer, writerStop,
                 auto, log, lost, late, diagVars>>

\* serial_read_callback, rx_ingress: a reader without room in the file lane waits,
\* as long as it is admitted.
ReaderReads ==
  /\ "reader" \notin owed
  /\ \/ reader = "read" /\ readerStop /\ reader' = "none" /\ UNCHANGED raw
     \/ /\ reader \in {"read", "wait"} /\ admission /\ log = "run" /\ raw < RawBound
        /\ reader' = (IF readerStop THEN "none" ELSE "read") /\ raw' = raw + 1
     \/ /\ reader = "read" /\ admission /\ log = "run" /\ raw = RawBound /\ reader' = "wait"
        /\ UNCHANGED raw
     \/ reader = "wait" /\ ~admission /\ reader' = "read" /\ UNCHANGED raw
  /\ UNCHANGED <<caller, slots, loop, events, port, admission, readerStop, writer, writerStop,
                 auto, log, lost, late, diagVars>>

\* The report of a fault needs admission; the thread ends.
ReaderFaults ==
  /\ reader = "read" /\ "reader" \notin owed /\ ~readerStop /\ reader' = "none"
  /\ IF admission THEN Submits("fault") ELSE UNCHANGED queue
  /\ UNCHANGED <<caller, slots, loop, pool, posts, port, admission, readerStop, writer,
                 writerStop, auto, files, diagVars>>

ReaderEmits ==
  /\ reader = "read" /\ "reader" \notin owed /\ Emit("reader", "normal")
  /\ UNCHANGED <<caller, slots, loop, events, session, auto, files>>

\* A block that fails to go out is recorded.
Writer ==
  /\ "writer" \notin owed /\ writer = "run"
  /\ \/ writerStop /\ writer' = "none" /\ UNCHANGED diagVars
     \/ Emit("writer", "critical") /\ UNCHANGED writer
  /\ UNCHANGED <<caller, slots, loop, events, port, admission, reader, readerStop, writerStop,
                 auto, files>>

\* The disk takes a block; a writer told to stop ends, its disk call cancelled.
LogWrites ==
  /\ \/ log # "none" /\ raw > 0 /\ raw' = raw - 1 /\ UNCHANGED log
     \/ log = "stop" /\ log' = "none" /\ UNCHANGED raw
  /\ UNCHANGED <<caller, slots, loop, events, session, auto, lost, late, diagVars>>

\* Two threads join one std::thread: what the library makes of that.
JoinsTwice ==
  /\ caller = "joinTimer" /\ dispatcher \in {"arm", "off", "disarm"} /\ timer # "none"
  /\ dead' = TRUE
  /\ UNCHANGED <<caller, slots, loop, events, session, auto, files, storage, lanes, wake, owed,
                 quit, thread, locals>>

Tear ==
  \/ QuitTimer \/ QuitDispatcher \/ ReleasePools \/ QuitWriter \/ QuitReader \/ QuitLog
  \/ QuitDiag \/ Free
Calls ==
  \/ Create \/ BootBinds \/ BootDiag \/ BootPool \/ BootStart \/ Post \/ LogOpen \/ Destroy
  \/ \E at \in Boot : BootFails(at)
Dispatcher == DispatchOpen \/ DispatchClose \/ CloseSession \/ DispatchAuto \/ SetTimer
Diag ==
  /\ Writes \/ Signal
  /\ UNCHANGED <<caller, slots, loop, events, session, auto, files>>
Live ==
  \/ Calls \/ Tear \/ Dispatcher \/ DispatcherEnds \/ Timer
  \/ ReaderReads \/ ReaderFaults \/ ReaderEmits \/ Writer \/ LogWrites \/ JoinsTwice \/ Diag
Next == ~dead /\ Live
Spec == Init /\ [][Next]_vars

\* Threads run, and end when they are told to; the disk owes nothing.
FairSpec ==
  /\ Spec /\ WF_vars(~dead /\ Tear)
  /\ WF_vars(~dead /\ (Dispatcher \/ DispatcherEnds))
  /\ WF_vars(~dead /\ timerStop /\ Timer) /\ WF_vars(~dead /\ readerStop /\ ReaderReads)
  /\ WF_vars(~dead /\ writerStop /\ Writer) /\ WF_vars(~dead /\ log = "stop" /\ LogWrites)
  /\ WF_vars(~dead /\ Writes /\ UNCHANGED <<caller, slots, loop, events, session, auto, files>>)
  /\ WF_vars(~dead /\ Signal /\ UNCHANGED <<caller, slots, loop, events, session, auto, files>>)

-----------------------------------------------------------------------------
(* Properties                                                              *)

\* A core that is gone leaves no thread, no session and no slot behind, whatever
\* step of boot failed and whatever its threads were at: xcom_create works again.
NothingOutlives ==
  /\ ~core => /\ dispatcher = "none" /\ timer = "none" /\ reader = "none" /\ writer = "none"
              /\ log = "none" /\ thread = "none"
  /\ caller = "none" => ~core /\ ~handle /\ ~slot

\* While the gate of the observer is open the Dispatcher is there to beat.
GateMeansRunning == gate => dispatcher # "none" /\ core

\* While shutdown works on the adapter and on the writer no Dispatcher does.
OneCloser ==
  caller \in {"pools", "writer", "joinWriter", "admission", "reader", "joinReader"} =>
    dispatcher = "none"

\* A block the file lane accepted is written, unless the close of the log ran out of
\* time, and then it is counted.
AcceptedIsWritten == lost > 0 => late

\* Boot and shutdown keep their order at every step: nothing outlives its owner, no two
\* threads close the same thing, no accepted block is dropped, no producer works on a
\* writer that is gone.
LifeExact ==
  /\ TypeOK /\ NothingOutlives /\ GateMeansRunning /\ OneCloser /\ AcceptedIsWritten
  /\ NoLateProducer

\* xcom_destroy returns, whatever the disk does; except when the Dispatcher starts
\* the timer between the flag and the join of the caller.
DestroyReturns ==
  caller \in Teardown ~>
    \/ caller = "none"
    \/ dead
    \/ caller = "joinTimer" /\ timer # "none" /\ ~timerStop

\* What was begun ends: the taking of records, and xcom_destroy.
CoreSettles == RecordsAreTaken /\ DestroyReturns

-----------------------------------------------------------------------------
(* What comments say and the code does not do                              *)

\* The timer has one owner.
OneTimerOwner ==
  ~(caller = "joinTimer" /\ dispatcher \in {"arm", "launch", "off", "disarm"})

\* A timer that shutdown has stopped submits nothing while the core is torn down.
StoppedTimerIsQuiet ==
  [][timer = "sleep" /\ timer' = "submit" => caller \notin Teardown \ {"timer", "joinTimer"}]_vars

\* xcom_destroy returns.
DestroyAlwaysReturns == caller \in Teardown ~> (caller = "none" \/ dead)

=============================================================================
