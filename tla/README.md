# Formal models of xcom_core

TLA+ models of the native core of this serial terminal: what its threads may do
to each other, what each component promises, and which of those promises are
model-checked (TLC) or proved (TLAPS).

## 1. The system

`xcom_core.dll` (C++17, `xcom_core/src`) owns the serial port.  The LuaJIT UI
(`xcom_lua`) calls its C ABI from one thread.  Inside, work is serialised on the
Dispatcher thread of *coact*, an actor framework that is not part of this
repository; native threads exchange work with it through atomics, rings and
fixed pools.

| Component | State it keeps | Operations | Talks to |
|---|---|---|---|
| C ABI (`abi/xcom_abi.cpp`) | none of its own; reads and writes `CoreCtx` atomics | open, async open, take result, close, send, drain, snapshot, log and file calls | SerialAo by signals; `port_state`, `last_open_result`, `cancel_open` |
| SerialAo (`ao/xcom_ao.cpp` 494-789) | `SerialCtx::state`, published as `port_state` | Open, Close, Fault signals; a table of 12 edges | owner sinks (synchronous calls) |
| Owner sinks (`runtime/xcom_core.cpp` 838-1104) | backend handle, writer thread, callback admission | owner open, owner close, owner write, fault callback | backend, SessionWriter |
| Serial backend (`io/serial_backend_win.cpp`) | native handle, read thread, stop flag | open, close, write, abort, read loop, enumeration | read and fault callbacks |
| SessionWriter (`xcom_core.cpp` 147-317) | ring of 256 jobs | start, enqueue, run, stop and join | TX pool, backend write |
| Receive lane (`foundation/rx_block_lane.hpp`, `xcom_core.cpp` 1370-1516) | 128 reference-counted blocks, display ring, file ring | alloc, publish, pop, release, wait for free | read thread, ReceiveAo, LogWriter |
| ReceiveAo and RxKickGate (`ao/xcom_ao.cpp` 199-336, `xcom_core.hpp` 187-204) | kick gate, deferred block | kick action, resume | receive lane, display lane |
| Display lane (`xcom_core.hpp` 264-439) | 32 formatted batches | try acquire, push ready, drain, reset | ReceiveAo, ABI drain |
| SendAo and AutoSendAo (`ao/xcom_ao.cpp` 342-453) | template, armed gate | send user, auto send, configure | TX pool, SessionWriter, timer |
| LogWriter (`io/log_writer.cpp`) | queue of commands, leases, completions | open, append, flush, close, atomic and stream writes, shutdown | receive lane (file ring), ABI |
| Fixed pools (`foundation/fixed_pool.hpp`) | tagged free list in the blocks themselves | allocate, release | receive lane, TX pool, log blocks |
| Error ring (`xcom_core.hpp` 541-611) | slots with sequence numbers, drop counter | push, take | every thread; ABI |
| Line status (`serial_backend_win.cpp`, `xcom_core.cpp` 1518-1600, `xcom_abi.cpp` 547-591) | latched errors, holds, modem inputs, DTR and RTS | poll, sample, set lines | read thread, writer, ABI |
| Thread health (`runtime/thread_health.hpp`, `xcom_core.cpp` 1673-1776) | three stamps, park flags | beat, park, check | all loops; snapshot call |
| Periodic timer (`runtime/periodic_timer.cpp`) | deadline grid, worker | start, stop, tick | AutoSendAo |
| Diagnostics (`diagnostics/diagnostic.cpp`) | two lanes of records, a file of bounded size | emit, drain, start, stop | every thread |
| Core life (`xcom_core.cpp` 462-620, `xcom_abi.cpp` 160-195 and 1040-1054) | which threads, pools and slots exist | create, destroy | everything |
| Lua view model and status poll (`xcom_lua/core/view_model.lua`, `ui/window.lua`) | mirror of the port state and generation, reconnect window | open, close, poll, reconnect driver | ABI calls and snapshot |
| Lua UI, script engine, native ImGui bridge, launcher | windows, scripts | user input | view model, ABI |

What is hard here: five threads share atomics without locks; a native thread
reports a fault to the very thread that will join it; the caller polls a
published view that lags the Dispatcher; every queue and pool is bounded and may
refuse; a session ends while signals and blocks of it are still queued.

What makes each component correct: the lifecycle never leaks a handle or thread,
never shows OPEN without a session, resolves every request; the receive lane
never loses track of a block or a byte it does not count, and never sleeps with
work pending; the display lane hands over each batch once, in order; the TX path
never reuses a block in flight; the log writer completes every command once and
writes nothing after close; the pools never hand an element out twice; what
the observer reports is so; the backend neither loses nor repeats a byte it was
given; a core that is destroyed leaves nothing behind; the Lua mirror converges
to the core's state and reopens nothing the user has closed.

## 2. Modules

| Module | Models |
|---|---|
| `PortSession` | abstract: what a client may rely on about a port, the published view and the device behind it |
| `SegmentStream` | abstract: what a user may rely on about data and a sink of it (order, at most once, shown or charged as lost) |
| `SerialLifecycle` | ABI caller, SerialAo, owner sinks, native threads; implements `PortSession` |
| `SerialLifecycleInv`, `SerialLifecycleProofs` | its inductive invariant, in named parts; its theorems |
| `RxDisplay`, `RxDisplayProofs` | read thread, display ring, kick gate, ReceiveAo, display lane, ABI drain; implements `SegmentStream` |
| `RxFanout`, `RxFanoutProofs` | read thread, reference-counted blocks, log leases, raw ring and LogWriter, log open and close, shutdown; implements `SegmentStream` for the file |
| `TxPipeline` | xcom_send, auto-send timer, SendAo, AutoSendAo, TX blocks, SessionWriter, the session they belong to; implements `SegmentStream` for the device |
| `TxPipelineInv`, `TxPipelineProofs` | its inductive invariants, in named parts; its theorems |
| `FileJobs`, `FileJobsProofs` | LogWriter as the owner of files: append, flush, close, atomic files, streams, completions, shutdown |
| `BackendIo`, `BackendIoProofs` | WinSerialBackend: overlapped reads and writes, short and cut writes, cancels, close |
| `DiagLog` | the diagnostic lanes, their signal and their writer |
| `CoreLife`, `CoreLifeProofs` | boot and shutdown over all threads; extends `DiagLog`; theorems of both |
| `FixedPool` | the tagged free list step by step |
| `ErrorRing` | the ring of error reports step by step |
| `PeriodicTimer` | worker, deadlines, start and stop under a clock |
| `RxText` | the text and hex views of the formatter over blocks cut anywhere |
| `ThreadHealth` | stamps, park flags and the observer, with time as age |
| `LineStatus` | line errors, holds, modem inputs, DTR and RTS |
| `PortMirror` | the Lua mirror, the status poll and the reconnect driver over a coarse core |
| `MCParts`, `PartsProofs` | the last seven, one per behaviour, in one run; the theorems of all but `RxText` |
| `MC...` | values of the constants of the runs of the module named |

The modules overlap on purpose.  Each keeps the whole control of its own subject
and, of the others, only what its properties can tell apart: the lifecycle in
`RxDisplay` and `TxPipeline` has no refused faults, the display in `RxFanout` is
a consumer that returns blocks at any time, the file lane in `RxDisplay` is a
flag of the segment, the raw lane is not in `FileJobs`, the core in `PortMirror`
is what a snapshot can show.

Everywhere, a variable has the name of the field it stands for and its comment
names the class; a thread has one variable that says where it is (`reader`,
`dispatcher`, `writer`, `timer`, `abi`); an action is one stretch of code
between two accesses another thread can see.  Definitions that are named after
another with a suffix (`RecheckDropped` for `Recheck`) are plausible bugs of it,
used to make sure that a property can fail.  `PROJECT.json` lists one per
property; a property that is a conjunction has one for each conjunct in the
module.

### SerialLifecycle

Variables are named after the code: `portState` is `CoreCtx::port_state`,
`state` is `SerialCtx::state`, `lastOpen` is `last_open_result` ("busy" is the
sentinel `XCOM_ERR_BUSY`), `cancelOpen`, `faultPending`, `admission`
(`callback_admission`), `port` (the configuration snapshot, abstracted to the
one thing teardown tells apart: virtual or COM).  `dispatcher` is the
Dispatcher's program counter inside a `serial_do_*` handler, `after` the return
address of `sink_owner_close`; `reader`, `writer` and `abi` are the program
counters of the other threads.  One action is one stretch of code between two
accesses another thread can see: `queue_open` is four actions (`OpenCall`,
`OpenCheck`, `OpenArm`, `OpenSubmit`), a refused fault report three
(`ReaderSignal`, `ReaderStore`, `ReaderLatch`).  `wanted`, `abandoned`,
`session` are bookkeeping of the model.

Abstractions: error codes are "fail"; a timeout may fire at any poll; the native
open succeeds or fails freely; the writer's payload is left to the TX model.
The control ring of coact is external: accepted signals are dispatched in order,
each run to completion, and a submission may be refused (`Refusable`).

### RxDisplay

`DropForWantOfBlock`, `PublishToDisplay` and `PublishToFileOnly` are
`rx_ingress` from the claim of a block to the push on the display ring; the wake is `Arm`, `Submit`, `Refused`, shared by the
three threads that call `submit_rx_kick`.  `rx_kick_action` is split at each
access to the gate, the ring and the batch pool (`TakeBlock` ... `Disarm`,
`Recheck`); `deferred` is `RxCtx::deferred`.  `DrainCall` ... `CountDrained` are
`xcom_drain_display` and `drain_into`; `active` is the batch the consumer holds.
`ResetDisplay` is the session boundary of both commits (`reset_display_at_commit`),
run by the Dispatcher; `Retired` is what it gives back.
A block is its segment: an id, the generation it was queued in, whether it has
no file lane.  Formatting either yields text or nothing.  Where a drain copies
part of a batch, `SmallBuffer`, the part is not counted in bytes.

### RxFanout

`refs` counts the references of each block; `Claim` hands the read thread its
own and one for the second lane, and every release is with the holder that
performs it.  `LeaseCounted`, `LeaseConfirmed`,
`LeaseWithdrawn` and `Unlease` are the two-sided admission test of
`enter_append` and `close_append_admission`; `FreeBlocks` and `Reserve` give
the pool and the floor the claim keeps.  The writer is `process`,
`flush_rx_before_close`, `process_rx_ref`, the park on `wake_event` and the
shutdown path.  Log calls are jobs with a ticket; the caller waits for the
answer or gives up at any moment; `gaveUp` remembers that one did.  The content of a block is its id;
disk errors are retries; the wait for a free block is modelled without its
50 ms poll, which only repeats the test.

### TxPipeline

`freeBlocks` is the TX block pool; a packet carries its block, the generation
it was stamped with and, as history, the session it was meant for.  `SendCall`,
`SendStamp`, `SendSubmit` are the three shared accesses of `xcom_send`;
`TimerTick`, `TimerArm`, `TimerSubmit` those of `autosend_tick`; `DispatchSend`,
`DispatchTick`, `DispatchConfig` the three AO actions; `StopTimer`, `StopWriter`,
`JoinWriter` the teardown of `sink_owner_close`; the writer is
`SessionWriter::run` with `sink_owner_write`.  `port_state` becomes CLOSED and
`generation` advances in `JoinWriter` in one step: the writer is gone by then and
the caller never reads both in one.  coact's three classes of events
are three queues, each in order; which is served next is free, which includes
its priority.  Lifecycle signals are not refused, two faults in a row in the
queue count as one, `streak` stays at its limit once there.  A close during an
open is left to `SerialLifecycle`; the shutdown of the core is `CoreLife`.

### FileJobs

The caller's calls are `Call` with the admission of each kind (`HasRoom`,
`IdleWaiters`); a job carries its kind, a number that stands for its payload,
and the completion object of its waiter.  The writer runs a job in the actions
of its kind: `WriteSome` and `WriteFails` are one turn of `write_all`, whose
append is retried, `FlushTemp`, `MoveTemp` and `PutFails` the steps of an
atomic replacement, each with its refusal.  `log`, `temps` and `destination`
are the disk; it may be looked at after any step, which is what a crash of the
process leaves.  `waiters[w].refs` is the reference count of a completion both
sides hold, `pending` the reservations in the completion ring.  The raw lane and
the wake event of the same thread are those of `RxFanout`.

### BackendIo

The driver is external: it moves the bytes of a request one at a time, completes
it whole, short or failed, and may ignore `CancelIoEx`.  `ReaderIssue` ...
`ReaderReaps` are one turn of `read_loop` with the second look at the read event
(`ReaderDecides`); `WriterIssues` ... `WriterReaps` one of the up to eight
attempts of `write`, whose one `OVERLAPPED` is `status`; `AbortLooks`, `Grace`,
`Cut` are `abort_io`, `StopWriter` and `Halt` the order of `close`.  `events` is
the set of signalled event objects.  `stray` remembers that a `write` returned
while the driver still had its request.

### CoreLife and DiagLog

`Create` to `BootStart` are `boot` with the failure of each step (`BootFails`),
`Destroy` to `Free` are `shutdown` and `xcom_destroy`; `caller` says where the
one ABI thread is.  The Dispatcher may have controls queued, the reader may wait
for the disk, the timer may be about to submit, a producer may be between the
push of a record and its signal.  A thread is kept as far as shutdown can meet
it.  `DiagLog` is the writer of diagnostics: two lanes, the auto-reset event,
the pass of `run` (`PopCritical`, `PopNormal`, `LoadStop`, `EndPass`, `Awake`)
and the rotation of its file.  `dead` is the outcome of an operation the C
library leaves undefined, a write to no file.

### The parts of MCParts

Seven parts share no state with each other that a property of theirs could see;
a behaviour of `MCParts` is a behaviour of one of them, and the others rest.

- `FixedPool`: `allocate` is a load of the head, a load of the link in the block
  and a compare-and-swap of index and tag; `release` a load, a store of the link
  and the swap.  Owners overwrite their block (`Overwrite`), and any thread may
  release it.
- `ErrorRing`: a producer's test, reservation, fill and publication, a consumer's
  copy and release; positions and sequences are unsigned and wrap at `Width`.
- `PeriodicTimer`: the deadline grid `base + k * interval` with callbacks that
  take any time; `Join` and `Begin` separate the worker of one start from the
  next.
- `RxText`: bytes by class.  The reference is a function of the whole stream, and
  the formatter's carried state must make every way to cut it give the same.
- `ThreadHealth`: stamps are kept as ages.  `CheckReader`, `CheckDispatcher`,
  `CheckBeat`, `CheckPark`, `CheckSince`, `CheckWriter` are the loads of
  `check_thread_health` one by one; `truth` is where the thread was at each.
- `LineStatus`: the driver clears what it reports, whoever asks (`Poll` in the
  read thread, `Sample` in a send that timed out); `xcom_set_lines` is four
  steps; `missed` are errors the send cleared without counting them.
- `PortMirror`: the core publishes state and generation in separate steps; the
  snapshot reads them in two, the generation first.  `UserOpens`, `UserCloses`
  are the buttons, `PollBegins` ... `Latch` one `poll_status`, between whose
  steps only the Dispatcher runs; `DriverCloses`, `DriverOpens`, `DriverProbes`
  are `_drive_reconnect`, `WatchdogFires` both watchdogs.  A synchronous close
  returns at any moment (`CloseReturns`, `ResetReturns`): its wait has a timeout.
  `asked` is what the user wanted last, `fell` that the generation went down.

## 3. Runs

All runs are in `PROJECT.json`; the constants are in the `.cfg` files, the values
in `MC...` modules where a `.cfg` cannot hold them.  Bounds are guards: the
constants named `...Bound` limit how often the environment acts, `QueueBound`
when it may.  Times are for two workers.

| Run | States | Bounds | What it shows |
|---|---|---|---|
| `lifecycle` | 85 000, 12 s | one COM port, two sessions, two queued signals, requests refusable | resources, dead readers, exclusion of opens, `PortSession` with its liveness, requests end; no deadlock |
| `lifecycle_refused` | 210 000, 4 s | COM and virtual ports, two sessions, everything refusable | what is left of the published view when faults are refused: it is latched |
| `display` | 5 200 000, 74 s | three segments, two sessions, two blocks, one batch, one block a kick, refused kicks, a pause | the gate, the batches, the loss ledger, the counter, order |
| `display_flow` | 330 000, 87 s | two segments, three batches, partial drains, closes that time out | the same where batches span boundaries, and progress |
| `fanout` | 740 000, 2m54 | three segments, two log calls that may time out, two blocks, one in reserve | references, reserve, ledger, file order, an OK close has flushed, progress, shutdown; no deadlock |
| `transmit` | 3 600 000, 55 s | two sends, two sessions, two templates, three blocks, ring of one, two strikes | block ownership, the auto-send gate, CLOSED means no write, sessions do not mix, order |
| `transmit_flow` | 150 000, 52 s | two sends, two sessions, one template, two blocks, closes that do not wait | sends settle, the gate reopens, closing ends |
| `files` | 530 000, 2m05 | four calls, queue of two, two blocks, two completions, two waiters, two streams, payloads of two writes | reservations, completion objects, the log, whole files, progress and shutdown |
| `parts` | 740 000, 2m57 | three blocks and two threads; ring of two, sixteen numbers, five reports; eight ticks and two starts; four bytes in blocks of two of eight classes; three watched threads; two kinds of errors; three clicks, a fault, a rename | each part of `MCParts` |
| `backend` | 1 500 000, 2m40 | blocks of two bytes, two attempts, two blocks, one byte on the line | bytes read and sent, the end of the reader, close |
| `shutdown` | 690 000, 2m10 | two controls, one block of the file lane, lanes of one, two records, a file of one line | boot and shutdown in order, records, the end of both |
| `bug_mirror` | 32 000, 3 s | as the mirror in `parts` | section 6 |

Several properties are conjunctions; TLC names the conjunct that fails.

| Property | Conjuncts |
|---|---|
| `RequestsEnd` | `OpenResolves`, `CloseCompletes`, `FaultEndsSession` |
| `LaneExact` | `TypeOK`, `OneWake`, `BatchesConserved`, `PendingExact` |
| `StreamGoesOn` | `TypeOK`, `OneWake`, `BatchesConserved` at every step, `ImplementsStream`, `BacklogIsServed` |
| `BlocksAccounted` | `TypeOK`, `RefsExact`, `ReserveKept` |
| `FileLossless` | `LoggedAccounted` and `NoRawWithoutFile` at every step, `CloseFlushes` |
| `LaneSettles` | `LoggedSettles`, `ShutdownEnds` |
| `PipelineExact` | `TypeOK`, `BlocksConserved` |
| `PipelineSettles` | `SendsSettle`, `GateReleases`, `CloseEnds` |
| `RequestsExact` | `TypeOK`, `ReservationsExact`, `WaiterRefsExact`, `ShutdownReturnsAll` |
| `LogExact` | `BytesAccounted`, `LogInOrder`, `SyncMeansWritten` |
| `FilesWhole` | `DestinationWhole`, `NoTempLeft` |
| `WriterSettles` | `JobsFinish`, `ShutdownEnds` |
| `PoolInv` | `TypeOK`, `BlocksExact`, `ListIntact`, `SnapshotsSound` |
| `RingExact` | `TypeOK`, `TakenInOrder`, `ReportsCounted`, `DropsWhenFull` |
| `DeadlinesRight` | `TypeOK`, `OnGrid`, `NoBurst` |
| `ViewsFaithful` | `TypeOK`, `ShownIsClean`, `HexIsFaithful` |
| `ReportsAreReal` | `TypeOK`, `StallIsReal`, `LongParkIsReal` |
| `LinesTrue` | `TypeOK`, `ErrorsCounted`, `ModemIsLast`, `AnswerIsTrue` |
| `MirrorTrue` | `MirrorFollows`, `TypeOK` and `WindowIsDriven` at every step, `ReopensForUser` |
| `PartsSettle` | `AllTaken`, `StopReturns`, `WedgeReported` |
| `ReadsExact` | `TypeOK`, `ReadsDelivered`, `ReaderGoneIsKnown` |
| `WritesExact` | `WireInOrder`, `WrittenWasSent` |
| `ReaderEndsClean` | `CompletedIsReaped`, `FaultIsLast` |
| `LifeExact` | `TypeOK`, `NothingOutlives`, `GateMeansRunning`, `OneCloser`, `AcceptedIsWritten`, `NoLateProducer` |
| `CoreSettles` | `RecordsAreTaken`, `DestroyReturns` |

`TypeOK` and `SessionInv` of `SerialLifecycle`, `PipelineInv` and `SessionsInv`
of `TxPipeline` are theorems (section 5).  No listed run checks them any more;
TLC did before they were proved.

Why the bounds are enough.  Two sessions are what a leftover of one needs to
meet the next; a third would meet the same code with the same state.  One batch,
one block in reserve, a ring of one and as many blocks as holders make every
limit be reached and every refusal happen; three segments let one be shown, one
be queued and one be refused at a time, in either order.  Two signals in the
control queue cover every pair of open, close and fault in both orders.  A file
payload takes two writes, so that every job has a middle to be interrupted in,
and two streams can hold the writer's blocks while a third job wants one.  A
backend block has two bytes and two attempts: the shortest transfer that can be
short, resumed, and given up.  The pool has as many blocks as two threads can
hold plus one for the head to change under a third load; tags go to four, which
lets the head return to the same block with another tag.  The ring's numbers
wrap at 16 with size two, so that a position reaches the same slot eight times
before it repeats; a behaviour starts at zero or just below the wrap.  Eight ticks hold four deadlines of the shorter interval and
a callback longer than two.  The alphabet of `RxText` has one byte of each class
its automaton tells apart, and four bytes is its longest path back to text with
a cut at each place.  The mirror's three clicks are open, close and open again, with a
fault and a renamed port in between.  Each property has a mutant of the code
(`PROJECT.json`, `mutants`) that the same run refutes, so none holds for want of
the interesting case.

`CHECK_DEADLOCK FALSE` is set wherever the system may stop because the
environment has used up its calls or nobody owes a step; `lifecycle`,
`lifecycle_refused` and `fanout` check for deadlock.

## 4. Fairness

Only threads that are inside an operation must go on; nobody has to call the
ABI, send, pause, or receive.

- `SerialLifecycle`: weak fairness of the Dispatcher, of a native thread with a
  fault to report, and of a caller inside a call.  A native open or write is
  bounded by its Win32 timeout, the waits of the ABI by theirs.
- `RxDisplay`: weak fairness of the same kind, and strong fairness of opening,
  closing, `DrainCall` and `Poll`.  The client polls the port and drains on
  timers (`window.lua` 4911-4926), so it cannot miss a state for ever that
  keeps recurring.
- `RxFanout`: weak fairness of the read thread, the writer, the display's
  releases, the wait for leases and the shutdown.  A disk that refuses for ever
  is not excluded by the code: `LogWriter` retries until stopped, and so the
  fairness assumed is that a write succeeds in the end or stopping ends it.
- `TxPipeline`: weak fairness of a caller, a timer tick, a handler and the
  writer once begun, and strong fairness of serving each of coact's queues:
  the Dispatcher is busy now and then, but returns to every class.
- `FileJobs`: weak fairness of the writer, of the end of a caller's wait (its
  answer or its timeout) and of a shutdown once begun.  That a write succeeds is
  no part of it: `JobsFinish` has it as hypothesis, since an append is retried
  for as long as the disk refuses.
- `BackendIo`: weak fairness of the two threads and of a close once begun.  The
  driver owes nothing, not even the answer to a cancel: the waits are bounded
  and the close must return all the same.
- `CoreLife`: the threads go on and end when they are told to, and shutdown takes
  its next step when it can.  The disk owes nothing.
- The parts of `MCParts`: a producer inside a push, the consumer of the ring, the
  worker of the timer and the thread that joins it go on; the snapshot call and
  the status poll are made again and again (`window.lua` 4911-4926); the grace
  window, a time of the clock, runs out (strong, because the poll that sees it
  comes and goes).

## 5. Proofs

Eight modules hold the theorems.  The invariants they rest on stand in `...Inv`
modules or at the head of the proofs; TLC checked each of them on the small
instance first.  A theorem holds for all constants that satisfy the assumption of
its module, any number of blocks, slots, segments, calls and sessions, unless a
hypothesis is named below.

### SerialLifecycleProofs (891 obligations)

`TypeCorrect` and `FaultLatched`
hold for all constants that satisfy `LifecycleAssumption`: every port, every set
of refusable signals, every bound.  The others assume `Steady`: one COM port, a
caller that takes the result of an open before the next, and no refused fault.
They need it; without any of the three TLC refutes one of them (section 6).

| Theorem | States |
|---|---|
| `TypeCorrect` | `[]TypeOK` |
| `FaultLatched` | `[]FaultIsLatched` |
| `SessionInvariant` | `[]SessionInv`, the inductive invariant |
| `NothingLeaks` | `[]SessionResources` |
| `NoDeadReader` | `[]DeadReaderIsReported` |
| `OpensExclude` | `NoDoubleOpen` |
| `ImplementsPortSafety` | every behaviour is one of `PortSession`'s safety part |

`SessionInv` has six parts.  `Undisturbed`: with no refused fault nothing but the
Dispatcher writes the published state, so it is the Dispatcher's own.
`StateAtPlace`: the state at each place of a handler; without it a step in
the middle of `sink_owner_close` could not be told from one after it.
`ResourcesAtPlace`: what the session holds there; this carries
`SessionResources` through the steps where the Dispatcher is not idle.
`ReaderReported`: `DeadReaderIsReported` already before OPEN is published.
`Sentinel`: `last_open_result` says "busy" exactly while a request is on its way,
and this is why the busy test of `queue_open` is sound.  `OneOpen`: a caller whose
tests have passed finds the port down and stays alone until its result.  Each
action preserves each part; the steps that leave a part's variables alone are
handled together.  The refinement maps each action to an action of `PortSession`
or to a stutter, the state published by the handler being the view and the
native handle the device.

### TxPipelineProofs (3366 obligations)

`SessionsInvariant` and `SessionsDoNotMix` assume `CloseWaits`, that the caller of
`xcom_close` waits for CLOSED.  Without it `bug_cross_session.cfg` refutes
`WrittenInItsSession`.  The others need no hypothesis.

| Theorem | States |
|---|---|
| `PipelineInvariant` | `[]PipelineInv`, the inductive invariant |
| `ClosedMeansNoTx` | `[]CloseMeansNoTx` |
| `GateAlwaysHeld` | `[]GateHeld` |
| `PipelineIsExact` | `[]PipelineExact`: types, and every block has one holder |
| `SendsAreStream` | `ImplementsStream`: the pipeline implements `SegmentStream` |
| `SessionsInvariant` | `[]SessionsInv` |
| `SessionsDoNotMix` | `WrittenInItsSession` |

`PipelineInv` holds the types of what the threads hand each other, `JobAtPlace`
(the writer thread holds a job exactly from its pop to its release, and a writer
that is gone leaves no ring) and `WriterAtPlace` (it lives in an OPEN session or
in one whose teardown the Dispatcher has begun).  The last two give
`CloseMeansNoTx`: in CLOSED there is neither.  `GateHeld` is inductive next to
`PipelineInv`: a step that takes a tick or an automatic packet away either puts
the other in its place or opens the gate, and what the writer moves from its
ring into its hands still counts.  `SessionsInv` carries the argument about
numbers: a caller that waits makes no send while a close is pending
(`CloseAwaited`), no open is pending while it makes one (`OpenAlone`), so the
generation it reads is that of the session it was let into
(`GenerationAtPlace`), and the packet keeps it (`PacketsStamped`).

`BlocksInv` counts, for each block, the places it is in (`PlacesOf`: pool, template,
the two queues, ring, writer, caller, Dispatcher) and says that the count is one
and that no queue names it twice.  Every step moves a block from one place to
the next, so the count is kept; `BlocksConserved` is what the count says of the
pool.  `SendsInv` is what the refinement needs: the ids of the sends rise along
writer, ring and queue (`Ahead`), nothing that is still to be written was written
or given up (`Unsettled`), and the id in the caller's hands is the next one.  A write
by the driver is then a `Deliver` of the oldest send, a release by a stale
generation, a refusal or a teardown a loss, and everything else a stutter.

### RxFanoutProofs (2502 obligations)

| Theorem | States |
|---|---|
| `BlocksAreAccounted` | `[]BlocksAccounted`: references, leases and the reserve |
| `FileLaneIsLossless` | `[]FileLossless` |
| `FileIsStream` | `ImplementsFile`: the file lane implements `SegmentStream` |

`PlacesInv` says what the read thread and the writer hold at each place; the lease
is out exactly while the read thread is past its admission.  `LanesInv` counts
references: a lane names a block once (`OnceInLane`), and `refs` is the number of
lanes that name it (`RefsCounted`), so the decrement that reaches zero is the last
use.  `ReserveHeld` includes the share in the read thread's hands: the test of the
reserve and the push are two steps.  `StreamInv` orders the ids: what is in the raw
lane comes after what is in the file (`IdsInOrder`), an id in the file or charged
is settled (`LoggedSettled`), and the display does not bring an id back
(`IdsOnDisplay`).  `TicketsInv` and `CallInv` are about the calls of the log: as
long as no call gave up its wait there is one job (`OneJob`), a lease or a raw
block means that the file is there (`FileThere`), and an answer "ok" to a close
means that no lease is out (`OkIsTrue`).  This is the argument of `LogWriter::close`
that admission ends first, then the leases are waited for, and only then is
the close queued behind the blocks.

### RxDisplayProofs (3171 obligations)

| Theorem | States | Hypothesis |
|---|---|---|
| `WakesAndBatches` | `[]` types, `OneWake`, `BatchesConserved` | |
| `ScreenIsStream` | `ImplementsStream`: the screen implements `SegmentStream` | |
| `LaneIsExact` | `[]LaneExact`, with the count of pending batches | `WholeDrains` |
| `NothingLostSilently` | `[]NoSilentLoss` | `WholeDrains` |

`PlacesInv` says what the Dispatcher and the caller hold where; `OneWake` and
`BatchesInv` are inductive next to it, the latter again by a count of places.
`StreamInv` orders the segments along the screen, the batch being copied, the ready
batches, the blocks being formatted and the ring (`InOrder`) and keeps what is on
its way apart from what is charged (`LedgerInv`).  `WholeDrains` says that the
caller's buffer takes a whole batch and that its close waits for CLOSED.
Section 6 has the constants under which TLC refutes `PendingExact` and
`NoSilentLoss` when a batch is copied in part at a close; a close that times
out lets a drain reach across a session boundary, and then the arguments of
`SessionInv` (a batch ready or being copied is of the present generation) and
`CountInv` (`display_pending` is ready plus active, up to the step a thread is
about to make) are gone.  `UnloggedInv` ties the segments without a file lane to
those on their way, shown or charged.

### FileJobsProofs (4621 obligations)

| Theorem | States |
|---|---|
| `RequestsCounted` | `[]RequestsExact` |
| `LogIsExact` | `[]LogExact` |
| `FilesAreWhole` | `[]FilesWhole` |

For any bounds, any number of completion objects and any number of parts of a
payload.  `PlacesInv` says what job the writer has at each place, what the caller
has, which temporary files exist (`TempsInv`: the open stream's and the one of the
job in hand) and that a stream job still has its stream (`StreamInHand`).
`CountsInv` gives each counter its meaning: reservations are requests queued, in
hand or answered, data blocks are those of queued appends, references of a
completion object are those of its job and of the caller.  `OrderInv` (ids rise
along completions, job in hand and queue) makes an answer unique; `TicketInv` says
that the job with the caller's object is the caller's.  `LogInv` has three parts:
each byte admitted is written, charged or owed, and only one of these
(`AccountInv`); the owed ones come after the written ones (`LogOrderInv`), whatever
the retries after a short write; a flush or close that answered OK has nothing
owed before it (`SyncInv`).  `FilesInv` describes the temporary files by position:
part `i` of a stream fills the places from `Size * (i - 1)` on, the last part up to
`offset`, so at the move the file is whole (`DestinationWhole`).

### BackendIoProofs (1960 obligations)

| Theorem | States |
|---|---|
| `BackendInvariant` | `[]BackendInv`: types, the read loop, the places of the writer |
| `ReadsAreExact` | `[]ReadsExact` |
| `WritesAreExact` | `[]WritesExact` |
| `ReaderIsClean` | `ReaderEndsClean` |

For any number of bytes, blocks and attempts.  `ReaderAtPlace` says, for
each place of `read_loop`, what the event and the request show: what arrived is what
was delivered plus what the driver has moved into the request in hand; while the loop
waits and the read event is not set the request is still with the driver; the
stop event is set only when a stop was asked for.  `ReaderGoneIsKnown` is inductive
next to it: a reader that is gone was stopped, or reported its
fault and marked the port.  For writes `WireInv` holds as long as nothing is left
behind with the driver (`stray`): there is at most one request there (`OneSend`),
and when the writer works on a block, what the wire shows of that block is at its
end and is as long as the count of the attempts so far (`LastOut`, with `Gone` and
`Tip`), so that the next attempt, which begins at that count, continues it.
`OrderOf` says that blocks went out one after the other.  A byte moved by
the driver lengthens the tip by one (`TipExtends`) and adds one to what was sent
(`CountExtends`).

### CoreLifeProofs (1688 obligations)

| Theorem | States |
|---|---|
| `CoreInvariant` | `[]CoreInv`, the inductive invariant |
| `LifeIsExact` | `[]LifeExact` |
| `LastPassOnly` | `OnlyLastPassIsLost` |

For any number of controls, blocks and records, and lanes, batches and files of any
size.  `LoopInv` ties the Dispatcher and the gate of the observer to the
place of the caller: it runs from the last step of boot to its join, and the
gate closes before it may end.  `SessionInv` rests on it: only the Dispatcher
starts a reader, a session writer or a timer, so once it is joined each thread that
shutdown joins stays gone.  `LogInv`: an accepted block has a log writer, or the
close of the log ran out of time, and this is the only way to a block counted as lost.
`SlotsInv` gives the slots and the diagnostic writer their life; `OwedInv` says that
a producer that has pushed a record and not signalled yet is alive, and since all
three are gone when the diagnostic writer is joined nobody signals an event that is
closed.  `PassInv` is about one pass of the diagnostic writer: a lane it found empty holds
only records pushed since the pass began.  The thread ends only from such a pass or
with both lanes empty.  `DiagFrame` reduces the steps of the core to the
few that the diagnostic writer can see.

### PartsProofs (4372 obligations)

For all constants that satisfy `FixedPoolAssumption` and `PartsAssumption`: any set of
blocks, order of the initial list and set of threads; any finite set of producers;
any intervals, times, kinds of error and bounds.

| Theorem | States |
|---|---|
| `PoolInvariant` | `[]PoolInv`, the inductive invariant of the pool |
| `BlocksAreExact` | `[]BlocksExact`: each block is free, held by one thread or with one owner |
| `ListStaysIntact` | `[]ListIntact`: the links lead from the head through the free blocks |
| `AllocateTakesFree` | `OnlyFreeTaken`: the block a swap takes was free before it |
| `RingIsExact` | `RingExact`: reports taken whole, in order, or counted as dropped |
| `DeadlinesAreRight` | `DeadlinesRight`: the grid, and no burst after a late callback |
| `LinesAreTrue` | `LinesTrue`: errors, modem inputs and the answer of `xcom_set_lines` |
| `ReportsAreTrue` | `ReportsAreReal`: a stall or a long wait is reported for one only |
| `MirrorIsSafe` | `[](TypeOK /\ WindowIsDriven) /\ ReopensForUser` of `PortMirror` |
| `PartsAreSafe` | all of these of `AllSpec`, the specification of the run |

*Pool.*  The part that makes `PoolInv` inductive is `SnapshotsSound`: a thread whose
loaded tag is still the head's has loaded a head, and a link of it, that are still
true.  Every successful swap advances the tag, so a stale link comes with a stale tag
and its swap fails; this is the one argument that the read of a link in a block
somebody else may own is harmless.  Tags go up to any
`TagBound` and do not wrap: the code's 32 bits are assumed not to come round between a
load and the swap of one call.

*Error ring.*  Positions wrap at `Width` and a slot serves again after `Size` reports, so
`RingInv` speaks of report numbers counted from the start.  `At(start, n)` is the
position of number `n`, and two numbers at most `Far` apart have different positions
(`Width > 2 * Far`).  `RingAt` says: `EndsRight`, the two positions are those of the
reports reserved and of the reports freed, at most `Size` apart; `SlotsRight`, the slot
of each number of this window has that number's tag, or the next one and the report
itself; `LooksRight`, a producer about to swap has seen its slot given back, so
that a swap which finds the position unmoved takes a free slot; `HoldsRight` and
`OneHolder`, a slot between the swap and its publication has one producer.  The
assumption names two limits.  `Size >= 2`: with one slot the tag "full" of a lap is the
tag "free" of the next, and the proof of the window fails there (the code has
`kErrorRingCount = 128`).  `Width > 2 * (PushBound + Size)`: the theorem is about
histories of fewer pushes than half the width of the counter.  They start at zero or
just before the wrap, so that the wrap is among them.

*Timer.*  `DeadlineOnGrid` states the grid by a witness, `deadline = base + interval * k`
with `k > 0`, which the catching up of a late worker moves by a whole number of
steps; the remainder that `OnGrid` speaks of follows.

*Lines.*  `ErrorsCounted` and `ModemIsLast` are inductive next to `SessionRight` (the read
thread exists in a session only, and what it publishes is its last sample) and
`CallRight` (what `xcom_set_lines` has driven at each of its steps, and so what it
may answer when the port closes under it).

*Observer.*  `HealthPlaces` bounds the age of a stamp at each place and ties the flags
to the places.  `HealthSeen` carries what the poll has read to its verdict: the
stamp, the flag and the state of the port are loads of their own, and between two of
them the thread moves on, so each conjunct names the places the thread may have been
in (`truth`) for a load to have come out as it did.

*Mirror.*  `WindowRight`: RECONNECTING is shown only in a window of grace, and a mirror that
is up, or a driver at its reopen, belongs to a user whose last word is not a close.

### Only model-checked

- The liveness properties and the fair parts of the abstract specifications, `MirrorFollows`
  in `MirrorTrue` among them: liveness under fairness is outside the prover's reach.
- `ViewsFaithful` of `RxText`: the views are folds over the bytes received, and what a
  fold computes for every input needs induction over data, also outside its reach.
- `LaneExact` and `NoSilentLoss` for clients outside `WholeDrains`, and the refutations.

## 6. Where the code and its documents disagree

One listed run ends in a counterexample: `bug_mirror` refutes
`GenerationNeverFalls`, that the generation of a notification is at least that of
the one before (`docs/performance.md:83`).  An open takes its
number from a counter of its own, `open_generation` (`ao/xcom_ao.cpp:630`), which a close
does not raise.  The driver's reopen is cancelled by the user's close, whose
teardown raises `generation` alone; the next session then carries a lower number
than the CLOSED before it.  The mirror refuses a snapshot with a lower number
(`view_model.lua:259`), so it refuses the whole session, and its watchdog shows
FAULT over an open port.

More statements of the sources that TLC refutes.  Those with a `.cfg` are checked
with it, in place of the property it names where it lists several as comments;
the others with the constants given.  The definitions stand at the end of the
modules.

| Property | Constants | Sources |
|---|---|---|
| `NoOpenAfterTimeout` | `bug_open_after_timeout.cfg` | `abi/xcom_abi.cpp:9`: the Dispatcher took `cancel_open` before the caller set it, and commits an open that timed out |
| `DeadReaderIsReported` | `bug_dead_reader.cfg` | `io/serial_backend_win.cpp:752`: the latch of a refused fault is dropped by a handler that publishes after it |
| `NoStaleBytes` | `bug_stale_bytes.cfg` | `runtime/xcom_core.hpp:357`: blocks still queued at a close are formatted, and stamped, after the next open |
| `WrittenInItsSession` | `bug_cross_session.cfg` | `docs/performance.md:176`: a send stamped with the generation a close has just published, which the next open adopts |
| `NoOrphanSentinel` | `bug_orphan_sentinel.cfg` | `ao/xcom_ao.cpp:727` and `runtime/xcom_core.cpp:821-825`: an open dispatched where it has no edge leaves the sentinel |
| `NoOpenAfterClose` | COM, nothing refusable, queue 2, 1 session | `abi/xcom_abi.cpp:417` and `:393-396`: the close polls a state older than the queued open |
| `NoDoubleOpen` | COM, nothing refusable, queue 2, 2 sessions, `EagerClient` | `abi/xcom_abi.cpp:228` and `:234-235`: two atomics tested one after the other |
| `OpenAdvancesGeneration` | COM, nothing refusable, queue 1, 2 sessions | `ao/xcom_ao.cpp:635` and `view_model.lua:281-283`: an open after a close stamps the number the close published |
| `ConfigNeverRaces` | both ports, nothing refusable, queue 2, 2 sessions | `abi/xcom_abi.cpp:252` and `runtime/xcom_core.hpp:729-731`: reopening from FAULT while teardown runs; the same constants with only requests refusable refute `SessionResources`: a virtual port configured in that moment makes the teardown skip the COM handle |
| `NoStaleFault` | COM, nothing refusable, queue 2, 2 sessions | `ao/xcom_ao.cpp:762` and `abi/xcom_abi.cpp:239-243`: a queued fault of the last session ends the next |
| `NoFaultOverClosed` | COM, all refusable, queue 2, 2 sessions | `runtime/xcom_core.cpp:832` and `docs/design-state-machines.md:145-157` |
| `NeverLeftAsleep` | `bug_lost_wake.cfg` | `ao/xcom_ao.cpp:330` and `ao/xcom_ao.hpp:57`: a resume that meets the armed gate is forgotten by a kick that deferred a block |
| `ArrivalsWake` | 4 segments, 1 session, 1 pause, 2 blocks, 2 batches, 2 blocks a kick, kicks refusable | `runtime/xcom_core.cpp:1506` and `runtime/xcom_core.hpp:809` |
| `ResetExcludesDrain` | 1 segment, 1 session, 2 blocks, 2 batches, 2 blocks a kick, closes time out | `abi/xcom_abi.cpp:433` and `runtime/xcom_core.hpp:327` |
| `PendingExact`, `NoSilentLoss` | 1 segment, 2 sessions, small buffers | `runtime/xcom_core.hpp:372` and `:313-317`: a batch copied in part at a close |
| `FileNotStarved` | `bug_file_starved.cfg` | `foundation/rx_block_lane.hpp:157` and `:40`: a display-only session fills the pool before a log is opened |
| `OneAutoPacket` | `bug_two_autos.cfg` | `ao/xcom_ao.cpp:378` and `:425-426`: a new template opens the gate with a packet still on the way |
| `NoSilentDrop` | `bug_silent_drop.cfg` | `ao/xcom_ao.cpp:443-446` and `include/xcom/xcom.h:400-401`: a stale send is released, neither counted nor reported |
| `OneHiccupIsTolerated` | `bug_hiccup.cfg` | `runtime/xcom_core.cpp:1074` and `:1070-1072`: the streak of the last session counts in the next |
| `OldStampMeansDriver` | `bug_old_stamp.cfg` | `io/serial_backend_win.cpp:624-627` and `runtime/xcom_core.cpp:1437`: a reader that waits for the disk is reported as stuck in the driver |
| `WrittenIsExact` | `bug_backend.cfg` | `io/serial_backend_win.hpp:306-309`: the bytes of a completion that failed are not counted |
| `TrueIsWhole` | `bug_backend.cfg` | `io/serial_backend_win.hpp:303`: the late end of a request that an earlier write gave up is taken for that of the next |
| `StopLosesNothing` | `bug_backend.cfg` | `io/serial_backend_win.cpp:706-708`: the read that the stop ends may hold bytes |
| `HeldByGraceOnly` | `bug_backend.cfg` | `io/serial_backend_win.cpp:412-415`: a write issued after the abort looked for one |
| `RecordsAreSparse` | `bug_lines.cfg` | `runtime/xcom_core.cpp:1565-1570`: a kind that rests at a milestone repeats the record with every hit of another |
| `HoldMeansRise` | `bug_lines.cfg` | `io/serial_backend_win.hpp:237` and `include/xcom/xcom.h:69` |
| `ClosedHasNoSample` | `bug_lines.cfg` | the last sample of a session stays published after its close |
| `OneTimerOwner` | `bug_shutdown.cfg` | `runtime/periodic_timer.hpp:15`: shutdown joins the timer while the Dispatcher may still start it |
| `SinkOnlyFails` | `bug_shutdown.cfg` | `diagnostics/diagnostic.cpp:205-206`: after a rotation whose reopening fails the writer goes on with no file |
| `StoppedTimerIsQuiet` | `bug_shutdown.cfg` | `runtime/xcom_core.cpp:555-556`: a configuration queued behind starts it again |
| `StopDrains` | `bug_shutdown.cfg` | a record pushed after the last pass of a writer that was told to stop |
| `DestroyAlwaysReturns` | `bug_shutdown.cfg` | a reader that waits for a file block while the disk refuses for ever |
| `MirrorAlwaysFollows` | `bug_mirror.cfg` | `view_model.lua:29-31`: the snapshots of a session whose generation fell are refused |
| `ClosedStaysClosed` | `bug_mirror.cfg` | `window.lua:3981-3987`: the driver reopens a port whose close is still queued |
| `CancelsItsOwn` | `bug_mirror.cfg` | `window.lua:4000-4004`: the driver's close cancels an open of the user |

Met while reading, and stated by no property:

- The hex view puts no space between the last byte of a block and the first of
  the next (`include/xcom/xcom.h:442`); the carried state of the text view survives a
  switch to hex and back.
- `log_writer.cpp:816` clears the park flag before the beat, so that an observer
  in between pairs the cleared flag with the old stamp.
- The Dispatcher may be reported as stalled right after a long open or close,
  which `runtime/xcom_core.cpp:1732-1736` means to exclude.
- `diagnostic.cpp:327-333` tests a character that the call, given a buffer of
  one, never writes.
- After an open from FAULT the first poll of the mirror may still read FAULT:
  the reconnect window opens, and its close cancels the open the user asked for.
- The counters of blocks stranded at shutdown are raised when nobody can read
  them any more (`xcom_core.cpp:615`).

## 7. Not modelled

- coact (its pools, rings and scheduling) is external; so are Win32 and the
  disk, as outcomes of the calls.
- Real time, except as ages in `ThreadHealth` and as the clock of
  `PeriodicTimer`: a timeout may fire at any poll.
- The content of data other than in `RxText`, the timestamps of the display, the
  snapshot's copies of counters, settings, error codes, metrics no
  property is about.
- Ring indices outside `ErrorRing`: rings are bounded sequences.
  `SessionWriter` compares its indices with `>=` (`xcom_core.cpp:205`), wrong
  once one has wrapped around 2^32 and the other has not.
- Fixed vectors, static slots and owning handles: containers with one owner.
- Port enumeration and the comm settings: queries of Windows with no state.
- The Lua reset sequencer: nothing in the program starts a sequence at this
  commit, only tests call `Window:start_reset_sequence`.
- The user interface, scripts, the ImGui bridge, the launcher, vendored code:
  no protocol with the core beyond the calls of the ABI.

## 8. Plan

1. The mirror over `SerialLifecycle` itself in place of its coarse core, should a
   property need the handler's middle.
2. The reset sequencer, once something starts it.
