------------------------------ MODULE TxPipeline ------------------------------
(***************************************************************************)
(* How data is sent.  xcom_send copies a packet into a TX block, stamps it *)
(* with the session generation and queues it for SendAo; a periodic timer  *)
(* queues ticks for AutoSendAo, which copies a template block.  Both AOs   *)
(* run on the Dispatcher and hand jobs to the SessionWriter, a thread that *)
(* lives as long as the session and makes the blocking native writes.  A   *)
(* close or a fault stops the timer, aborts the write in progress, joins   *)
(* the writer and returns what it left.                                    *)
(*                                                                         *)
(* coact keeps one queue per priority class: lifecycle signals (High),     *)
(* user sends (Normal), ticks and templates (Low).  It is external: each   *)
(* queue is served in order and a class may overtake the others.  Lifecycle*)
(* signals are never refused here (SerialLifecycle models that they may    *)
(* be); sends, ticks and templates may be.                                 *)
(***************************************************************************)
EXTENDS Integers, Sequences, FiniteSets

CONSTANTS
  SendBound,   \* bound: user sends accepted
  OpenBound,   \* bound: open calls
  ConfigBound, \* bound: set_auto_template calls
  Blocks,      \* TX blocks (kTxBlockCount of them)
  JobBound,    \* SessionWriter::kMaxJobs
  StreakLimit, \* kTxFailStreakLimit
  CloseWaits   \* TRUE: the caller waits for CLOSED; FALSE: xcom_close(timeout 0)

ASSUME TxPipelineAssumption ==
  /\ {SendBound, OpenBound, ConfigBound} \subseteq Nat
  /\ IsFiniteSet(Blocks) /\ JobBound \in Nat \ {0} /\ StreakLimit \in Nat \ {0}
  /\ CloseWaits \in BOOLEAN

VARIABLES
  portState,      \* CoreCtx::port_state
  generation,     \* CoreCtx::generation
  openGeneration, \* CoreCtx::open_generation, the sessions committed so far
  high,           \* signals queued for SerialAo
  normal,         \* events queued for SendAo
  low,            \* events queued for AutoSendAo
  freeBlocks,     \* TxBlockPool::blocks_, the blocks not handed out
  template,       \* SendCtx::autosend_block of AutoSendAo, a set of at most one
  armed,          \* CoreCtx::autosend_armed
  timer,          \* where the timer thread is, "off" when there is none
  dispatcher,     \* where the Dispatcher is
  task,           \* what it does there: "close", "fault" or a template event
  jobs,           \* SessionWriter::jobs_ from read_ to write_
  stop,           \* SessionWriter::stop_
  writer,         \* where the writer thread is, "off" when there is none
  job,            \* the job it has popped, a sequence of at most one
  streak,         \* CoreCtx::tx_fail_streak
  abi,            \* where the caller thread is
  packet,         \* the packet or template it holds there
  calls,          \* calls made: [open, config]
  accepted,       \* history: user sends accepted, the id of the latest
  wire,           \* history: ids the device took in full, in order
  dropped,        \* history: ids given up, in order
  unreported      \* history: ids given up with no error and no count

port    == <<portState, generation, openGeneration>>
queues  == <<high, normal, low>>
auto    == <<template, armed, timer>>
dispT   == <<dispatcher, task>>
writerT == <<jobs, stop, writer, job, streak>>
abiT    == <<abi, packet, calls>>
history == <<accepted, wire, dropped, unreported>>
vars == <<port, queues, freeBlocks, auto, dispT, writerT, abiT, history>>

\* A TxDescriptor or a Job.  `id` is the number of an accepted user send, 0 for
\* an automatic packet; `session` is history, the session it was meant for.
Packet   == [id : Nat, block : Blocks, gen : Nat, session : Nat]
Template == [kind : {"on", "invalid"}, block : Blocks]
Bare(kind) == [kind |-> kind]
Off      == Bare("off")
Tick     == Bare("tick")
Config   == Template \cup {Off}
Tasks    == Config \cup {Bare("none"), Bare("close"), Bare("fault")}

TypeOK ==
  /\ portState \in {"CLOSED", "OPENING", "OPEN", "CLOSING", "FAULT"}
  /\ {generation, openGeneration, streak, accepted} \subseteq Nat
  /\ high \in Seq({"open", "close", "fault"}) /\ normal \in Seq(Packet)
  /\ low \in Seq(Config \cup {Tick})
  /\ freeBlocks \subseteq Blocks /\ template \subseteq Blocks
  /\ armed \in BOOLEAN /\ stop \in BOOLEAN
  /\ timer \in {"off", "sleep", "tick", "submit"}
  /\ dispatcher \in {"idle", "open", "stopTimer", "stopWriter", "joinWriter"}
  /\ task \in Tasks
  /\ jobs \in Seq(Packet) /\ Len(jobs) <= JobBound /\ job \in Seq(Packet)
  /\ writer \in {"off", "loop", "check", "write", "written", "failed", "stale", "exited"}
  /\ abi \in {"idle", "stamp", "submit", "submitConfig", "closing"}
  /\ packet \in Seq(Packet \cup Config)
  /\ calls \in [open : 0 .. OpenBound, config : 0 .. ConfigBound]
  /\ {wire, dropped} \subseteq Seq(1 .. accepted) /\ unreported \subseteq 1 .. accepted

Init ==
  /\ portState = "CLOSED" /\ generation = 0 /\ openGeneration = 0
  /\ high = <<>> /\ normal = <<>> /\ low = <<>>
  /\ freeBlocks = Blocks /\ template = {} /\ armed = FALSE /\ timer = "off"
  /\ dispatcher = "idle" /\ task = Bare("none")
  /\ jobs = <<>> /\ stop = FALSE /\ writer = "off" /\ job = <<>> /\ streak = 0
  /\ abi = "idle" /\ packet = <<>> /\ calls = [open |-> 0, config |-> 0]
  /\ accepted = 0 /\ wire = <<>> /\ dropped = <<>> /\ unreported = {}

-----------------------------------------------------------------------------
(* Accounting of packets that will not be written. *)

BlocksOf(packets) == {packets[i].block : i \in 1 .. Len(packets)}

\* The ids of the user sends among packets, in their order.
UserIds(packets) ==
  LET users  == {i \in DOMAIN packets : packets[i].id > 0}
      nth(n) == CHOOSE i \in users : Cardinality({j \in users : j <= i}) = n
  IN  [n \in 1 .. Cardinality(users) |-> packets[nth(n)].id]

\* Release the blocks of packets; tx_rejected or an error tells of them.
Reject(packets) == /\ freeBlocks' = freeBlocks \cup BlocksOf(packets)
                   /\ dropped' = dropped \o UserIds(packets)
                   /\ UNCHANGED unreported

\* Release the block of a packet and say nothing.
Discard(p) == /\ freeBlocks' = freeBlocks \cup {p.block}
              /\ dropped' = dropped \o UserIds(<<p>>)
              /\ unreported' = unreported \cup ({p.id} \ {0})

\* sink_enqueue_write: the writer is alive and its ring is not full.
EnqueueableOffByOne == writer # "off" /\ Len(jobs) <= JobBound
Enqueueable == writer # "off" /\ Len(jobs) < JobBound
Enqueue(p)  == Enqueueable /\ jobs' = Append(jobs, p)

LeavesNoJobGateKept  == jobs' = <<>> /\ Reject(jobs) /\ UNCHANGED armed
LeavesNoJobUncounted ==
  /\ jobs' = <<>> /\ freeBlocks' = freeBlocks \cup BlocksOf(jobs)
  /\ armed' = (armed /\ \A i \in DOMAIN jobs : jobs[i].id # 0)
  /\ UNCHANGED <<dropped, unreported>>

\* release_leftover_jobs.
LeavesNoJob == /\ jobs' = <<>>
               /\ Reject(jobs)
               /\ armed' = (armed /\ \A i \in DOMAIN jobs : jobs[i].id # 0)

-----------------------------------------------------------------------------
(* The caller. *)

Idle(at) == abi = at /\ abi' = "idle" /\ packet' = <<>>

Queued(signal) == \E i \in DOMAIN high : high[i] = signal
OpenPending    == dispatcher = "open" \/ Queued("open")

\* xcom_open_async.
OpenCall ==
  /\ abi = "idle" /\ calls.open < OpenBound
  /\ portState \in {"CLOSED", "FAULT"} /\ ~OpenPending
  /\ high' = Append(high, "open")
  /\ calls' = [calls EXCEPT !.open = @ + 1]
  /\ UNCHANGED <<port, normal, low, freeBlocks, auto, dispT, writerT, abi, packet, history>>

\* xcom_close; closing during an open is left to SerialLifecycle, and the model
\* calls it once until the signal is taken.
CloseCall ==
  /\ abi = "idle" /\ portState \in {"OPEN", "FAULT"} /\ ~OpenPending /\ ~Queued("close")
  /\ high' = Append(high, "close")
  /\ abi' = IF CloseWaits THEN "closing" ELSE "idle"
  /\ UNCHANGED <<port, normal, low, freeBlocks, auto, dispT, writerT, packet, calls, history>>

CloseReturns ==
  /\ Idle("closing") /\ portState = "CLOSED"
  /\ UNCHANGED <<port, queues, freeBlocks, auto, dispT, writerT, calls, history>>

\* xcom_send tests the state and copies the packet; with no block it is refused.
SendCall ==
  /\ abi = "idle" /\ accepted < SendBound /\ portState = "OPEN"
  /\ \E b \in freeBlocks :
       /\ freeBlocks' = freeBlocks \ {b}
       /\ packet' = <<[id |-> accepted + 1, block |-> b, gen |-> 0,
                       session |-> openGeneration]>>
  /\ abi' = "stamp"
  /\ UNCHANGED <<port, queues, auto, dispT, writerT, calls, history>>

SendStamp ==
  /\ abi = "stamp" /\ abi' = "submit"
  /\ packet' = <<[packet[1] EXCEPT !.gen = generation]>>
  /\ UNCHANGED <<port, queues, freeBlocks, auto, dispT, writerT, calls, history>>

SendSubmit ==
  /\ Idle("submit")
  /\ \/ normal' = normal \o packet /\ accepted' = accepted + 1 /\ UNCHANGED freeBlocks
     \/ freeBlocks' = freeBlocks \cup BlocksOf(packet) /\ UNCHANGED <<normal, accepted>>
  /\ UNCHANGED <<port, high, low, auto, dispT, writerT, calls, wire, dropped, unreported>>

\* xcom_set_auto_template; a template of no bytes is refused later, by the AO.
ConfigCall ==
  /\ abi = "idle" /\ calls.config < ConfigBound
  /\ \/ packet' = <<Off>> /\ UNCHANGED freeBlocks
     \/ \E b \in freeBlocks, kind \in {"on", "invalid"} :
          /\ freeBlocks' = freeBlocks \ {b}
          /\ packet' = <<[kind |-> kind, block |-> b]>>
  /\ abi' = "submitConfig" /\ calls' = [calls EXCEPT !.config = @ + 1]
  /\ UNCHANGED <<port, queues, auto, dispT, writerT, history>>

HeldBy(config) == IF config = Off THEN {} ELSE {config.block}

ConfigSubmit ==
  /\ Idle("submitConfig")
  /\ \/ low' = low \o packet /\ UNCHANGED freeBlocks
     \/ freeBlocks' = freeBlocks \cup HeldBy(packet[1]) /\ UNCHANGED low
  /\ UNCHANGED <<port, high, normal, auto, dispT, writerT, calls, history>>

-----------------------------------------------------------------------------
(* The timer thread: autosend_tick.  Stopping it lets a tick finish. *)

TimerTick ==
  /\ timer = "sleep" /\ dispatcher # "stopTimer" /\ portState = "OPEN"
  /\ timer' = "tick"
  /\ UNCHANGED <<port, queues, freeBlocks, template, armed, dispT, writerT, abiT, history>>

TimerArm ==
  /\ timer = "tick"
  /\ timer' = IF armed THEN "sleep" ELSE "submit"
  /\ armed' = TRUE
  /\ UNCHANGED <<port, queues, freeBlocks, template, dispT, writerT, abiT, history>>

TimerSubmit ==
  /\ timer = "submit" /\ timer' = "sleep"
  /\ \/ low' = Append(low, Tick) /\ UNCHANGED armed
     \/ armed' = FALSE /\ UNCHANGED low
  /\ UNCHANGED <<port, high, normal, freeBlocks, template, dispT, writerT, abiT, history>>

-----------------------------------------------------------------------------
(* The Dispatcher: SerialAo, as far as sending is concerned. *)

Dispatch(signal) == /\ dispatcher = "idle" /\ high # <<>> /\ Head(high) = signal
                    /\ high' = Tail(high)

DispatchOpen ==
  /\ Dispatch("open") /\ portState \in {"CLOSED", "FAULT"}
  /\ portState' = "OPENING" /\ dispatcher' = "open"
  /\ UNCHANGED <<generation, openGeneration, normal, low, freeBlocks, auto, task,
                 writerT, abiT, history>>

OpenDoneUnstamped ==
  /\ dispatcher = "open" /\ dispatcher' = "idle" /\ portState' = "OPEN"
  /\ openGeneration' = openGeneration + 1
  /\ writer' = "loop" /\ stop' = FALSE /\ jobs' = <<>>
  /\ UNCHANGED <<generation, queues, freeBlocks, auto, task, job, streak, abiT, history>>

\* sink_owner_open starts the writer; kOpenCommit stamps the session.
OpenDone ==
  /\ dispatcher = "open" /\ dispatcher' = "idle"
  /\ \/ /\ portState' = "OPEN" /\ openGeneration' = openGeneration + 1
        /\ generation' = openGeneration'
        /\ writer' = "loop" /\ stop' = FALSE /\ jobs' = <<>>
     \/ portState' = "CLOSED" /\ UNCHANGED <<generation, openGeneration, writer, stop, jobs>>
  /\ UNCHANGED <<queues, freeBlocks, auto, task, job, streak, abiT, history>>

TearDown(t) == dispatcher' = "stopTimer" /\ task' = t

DispatchClose ==
  /\ Dispatch("close")
  /\ \/ portState \in {"OPEN", "FAULT"} /\ portState' = "CLOSING" /\ TearDown(Bare("close"))
     \/ portState = "CLOSED" /\ UNCHANGED <<portState, dispT>>
  /\ UNCHANGED <<generation, openGeneration, normal, low, freeBlocks, auto, writerT,
                 abiT, history>>

DispatchFault ==
  /\ Dispatch("fault")
  /\ \/ portState = "OPEN" /\ portState' = "FAULT" /\ TearDown(Bare("fault"))
     \/ portState # "OPEN" /\ UNCHANGED <<portState, dispT>>
  /\ UNCHANGED <<generation, openGeneration, normal, low, freeBlocks, auto, writerT,
                 abiT, history>>

\* autosend_set(0) joins the timer thread: a tick under way finishes first.
TimerJoined == dispatcher = "stopTimer" /\ timer \in {"off", "sleep"}

StopTimer ==
  /\ TimerJoined /\ task \in {Bare("close"), Bare("fault")}
  /\ timer' = "off" /\ dispatcher' = "stopWriter"
  /\ UNCHANGED <<port, queues, freeBlocks, template, armed, task, writerT, abiT, history>>

StopWriterUnrequested ==
  /\ dispatcher = "stopWriter" /\ dispatcher' = "joinWriter"
  /\ UNCHANGED <<port, queues, freeBlocks, auto, task, writerT, abiT, history>>

\* abort_pending_write and request_stop; a session without a writer has none to stop.
StopWriter ==
  /\ dispatcher = "stopWriter" /\ dispatcher' = "joinWriter"
  /\ stop' = (stop \/ writer # "off")
  /\ UNCHANGED <<port, queues, freeBlocks, auto, task, jobs, writer, job, streak, abiT, history>>

JoinWriterNotAwaited ==
  /\ dispatcher = "joinWriter" /\ writer' = "off" /\ LeavesNoJob
  /\ \/ /\ task = Bare("close") /\ portState' = "CLOSED" /\ generation' = generation + 1
     \/ /\ task = Bare("fault") /\ UNCHANGED <<portState, generation>>
  /\ dispatcher' = "idle" /\ task' = Bare("none")
  /\ UNCHANGED <<openGeneration, queues, template, timer, stop, job, streak, abiT, accepted, wire>>

JoinWriter ==
  /\ dispatcher = "joinWriter" /\ writer \in {"off", "exited"}
  /\ writer' = "off" /\ LeavesNoJob
  /\ \/ /\ task = Bare("close") /\ portState' = "CLOSED" /\ generation' = generation + 1
     \/ /\ task = Bare("fault") /\ UNCHANGED <<portState, generation>>
  /\ dispatcher' = "idle" /\ task' = Bare("none")
  /\ UNCHANGED <<openGeneration, queues, template, timer, stop, job, streak, abiT, accepted, wire>>

-----------------------------------------------------------------------------
(* The Dispatcher: SendAo and AutoSendAo. *)

\* send_user_action.
DispatchSend ==
  /\ dispatcher = "idle" /\ normal # <<>> /\ normal' = Tail(normal)
  /\ LET p     == Head(normal)
         stale == p.gen # generation \/ portState # "OPEN"
     IN  \/ stale /\ Discard(p) /\ UNCHANGED jobs
         \/ ~stale /\ Enqueue(p) /\ UNCHANGED <<freeBlocks, dropped, unreported>>
         \/ ~stale /\ ~Enqueueable /\ Reject(<<p>>) /\ UNCHANGED jobs
  /\ UNCHANGED <<port, high, low, auto, dispT, stop, writer, job, streak, abiT, accepted, wire>>

\* send_autosend_action: the gate stays armed while its packet is on the way.
DispatchTick ==
  /\ dispatcher = "idle" /\ low # <<>> /\ Head(low) = Tick /\ low' = Tail(low)
  /\ \/ /\ portState = "OPEN" /\ template # {}
        /\ \E b \in freeBlocks :
             /\ Enqueue([id |-> 0, block |-> b, gen |-> generation, session |-> openGeneration])
             /\ freeBlocks' = freeBlocks \ {b}
        /\ UNCHANGED armed
     \/ /\ portState # "OPEN" \/ template = {} \/ freeBlocks = {} \/ ~Enqueueable
        /\ armed' = FALSE /\ UNCHANGED <<freeBlocks, jobs>>
  /\ UNCHANGED <<port, high, normal, template, timer, dispT, stop, writer, job, streak,
                 abiT, history>>

\* autosend_config_action: an invalid template is returned, any other replaces
\* the present one once the timer is stopped.
DispatchConfig ==
  /\ dispatcher = "idle" /\ low # <<>> /\ Head(low) \in Config /\ low' = Tail(low)
  /\ \/ /\ Head(low).kind = "invalid"
        /\ freeBlocks' = freeBlocks \cup {Head(low).block} /\ UNCHANGED dispT
     \/ /\ Head(low).kind # "invalid" /\ TearDown(Head(low)) /\ UNCHANGED freeBlocks
  /\ UNCHANGED <<port, high, normal, auto, writerT, abiT, history>>

ReplaceTemplateLeaks ==
  /\ TimerJoined /\ task \in Config
  /\ template' = HeldBy(task) /\ armed' = FALSE
  /\ timer' \in IF task = Off THEN {"off"} ELSE {"sleep", "off"}
  /\ dispatcher' = "idle" /\ task' = Bare("none")
  /\ UNCHANGED <<port, queues, freeBlocks, writerT, abiT, history>>

ReplaceTemplate ==
  /\ TimerJoined /\ task \in Config
  /\ freeBlocks' = freeBlocks \cup template
  /\ template' = HeldBy(task) /\ armed' = FALSE
  /\ timer' \in IF task = Off THEN {"off"} ELSE {"sleep", "off"}
  /\ dispatcher' = "idle" /\ task' = Bare("none")
  /\ UNCHANGED <<port, queues, writerT, abiT, history>>

-----------------------------------------------------------------------------
(* The SessionWriter thread. *)

WriterPopInPlace ==
  /\ writer = "loop" /\ ~stop /\ jobs # <<>>
  /\ job' = <<Head(jobs)>> /\ writer' = "check"
  /\ UNCHANGED <<port, queues, freeBlocks, auto, dispT, jobs, stop, streak, abiT, history>>

WriterPop ==
  /\ writer = "loop" /\ ~stop /\ jobs # <<>>
  /\ job' = <<Head(jobs)>> /\ jobs' = Tail(jobs) /\ writer' = "check"
  /\ UNCHANGED <<port, queues, freeBlocks, auto, dispT, stop, streak, abiT, history>>

WriterCheck ==
  /\ writer = "check"
  /\ writer' = IF job[1].gen # generation THEN "stale"
               ELSE IF portState = "OPEN" THEN "write" ELSE "failed"
  /\ UNCHANGED <<port, queues, freeBlocks, auto, dispT, jobs, stop, job, streak, abiT, history>>

WriteSucceeds ==
  /\ writer = "write" /\ writer' = "written" /\ streak' = 0
  /\ wire' = wire \o UserIds(job)
  /\ UNCHANGED <<port, queues, freeBlocks, auto, dispT, jobs, stop, job, abiT,
                 accepted, dropped, unreported>>

\* A fault right behind another changes nothing: the two count as one.
ReportFault == high' = IF high # <<>> /\ high[Len(high)] = "fault" THEN high
                       ELSE Append(high, "fault")

\* sink_owner_write fails, maybe after some bytes; a fatal error or a run of
\* failures ends the session.  A streak beyond the limit counts as the limit.
WriteFails ==
  /\ writer = "write" /\ writer' = "failed"
  /\ streak' = IF streak < StreakLimit THEN streak + 1 ELSE streak
  /\ \/ ReportFault                                       \* a fatal error
     \/ streak' < StreakLimit /\ UNCHANGED high           \* a hiccup
  /\ UNCHANGED <<port, normal, low, freeBlocks, auto, dispT, jobs, stop, job, abiT, history>>

WriterReleaseGateKept ==
  /\ writer \in {"written", "failed", "stale"} /\ writer' = "loop" /\ job' = <<>>
  /\ \/ /\ writer = "written" /\ freeBlocks' = freeBlocks \cup BlocksOf(job)
        /\ UNCHANGED <<dropped, unreported>>
     \/ writer # "written" /\ Reject(job)
  /\ UNCHANGED <<port, queues, auto, dispT, jobs, stop, streak, abiT, accepted, wire>>

WriterRelease ==
  /\ writer \in {"written", "failed", "stale"} /\ writer' = "loop" /\ job' = <<>>
  /\ \/ /\ writer = "written" /\ freeBlocks' = freeBlocks \cup BlocksOf(job)
        /\ UNCHANGED <<dropped, unreported>>
     \/ writer = "failed" /\ Reject(job)
     \/ writer = "stale" /\ Discard(job[1])
  /\ armed' = (armed /\ job[1].id # 0)
  /\ UNCHANGED <<port, queues, template, timer, dispT, jobs, stop, streak, abiT, accepted, wire>>

WriterStops ==
  /\ writer = "loop" /\ stop /\ writer' = "exited" /\ LeavesNoJob
  /\ UNCHANGED <<port, queues, template, timer, dispT, stop, job, streak, abiT, accepted, wire>>

-----------------------------------------------------------------------------
Caller     == OpenCall \/ CloseCall \/ CloseReturns \/ SendCall \/ SendStamp \/ SendSubmit
              \/ ConfigCall \/ ConfigSubmit
Timer      == TimerTick \/ TimerArm \/ TimerSubmit
Lifecycle  == DispatchOpen \/ OpenDone \/ DispatchClose \/ DispatchFault \/ StopTimer
              \/ StopWriter \/ JoinWriter
Sender     == DispatchSend \/ DispatchTick \/ DispatchConfig \/ ReplaceTemplate
Writer     == WriterPop \/ WriterCheck \/ WriteSucceeds \/ WriteFails \/ WriterRelease
              \/ WriterStops
Next == Caller \/ Timer \/ Lifecycle \/ Sender \/ Writer

Spec == Init /\ [][Next]_vars

\* Every thread goes on with what it has begun: native writes and opens are
\* bounded by their timeouts, and coact serves each of its queues.
FairSpec == /\ Spec
            /\ WF_vars(SendStamp \/ SendSubmit \/ ConfigSubmit)
            /\ WF_vars(TimerArm \/ TimerSubmit)
            /\ WF_vars(OpenDone \/ StopTimer \/ StopWriter \/ JoinWriter \/ ReplaceTemplate)
            /\ SF_vars(DispatchOpen \/ DispatchClose \/ DispatchFault)
            /\ SF_vars(DispatchSend)
            /\ SF_vars(DispatchTick \/ DispatchConfig)
            /\ WF_vars(Writer)

-----------------------------------------------------------------------------
(* Properties. *)

Places(name, events, b) ==
  {<<name, i>> : i \in {j \in DOMAIN events : "block" \in DOMAIN events[j] /\ events[j].block = b}}

Holders(b) == Places("normal", normal, b) \cup Places("low", low, b) \cup Places("jobs", jobs, b)
              \cup Places("job", job, b) \cup Places("packet", packet, b)
              \cup Places("task", IF task \in Config THEN <<task>> ELSE <<>>, b)
              \cup {<<"template", t>> : t \in template \cap {b}}
              \cup {<<"free", f>> : f \in freeBlocks \cap {b}}

\* "a still-queued/being-written block is never handed back to xcom_send"
\* (SessionWriter): each TX block has one holder, the pool among them, through
\* refusals, template changes and teardown.
BlocksConserved == \A b \in Blocks : Cardinality(Holders(b)) = 1

\* The same with the types of what the threads hand to each other.
PipelineExact == TypeOK /\ BlocksConserved

IsAuto(packets) == {i \in DOMAIN packets : packets[i].id = 0}

\* The gate of automatic sends is never left armed with nothing on the way to
\* release it, after which auto-send would be silent for good (autosend_tick).
GateHeld == armed => \/ timer = "submit"
                     \/ \E i \in DOMAIN low : low[i] = Tick
                     \/ IsAuto(jobs) \cup IsAuto(job) # {}

\* "close returns => no pending Tx" (SessionWriter): once CLOSED is published no
\* write is under way or queued for the device, whatever was in flight before.
CloseMeansNoTx == portState = "CLOSED" => writer = "off" /\ jobs = <<>> /\ job = <<>>

\* "Late events are rejected" by the session generation (docs/performance.md):
\* what was sent in one session is never written to the device of another.
WrittenInItsSession == [][WriteSucceeds => job[1].session = openGeneration]_vars

Stream == INSTANCE SegmentStream WITH received <- accepted, shown <- wire, charged <- dropped

\* Accepted sends reach the device in the order of the calls, each at most once,
\* and none that was given up (xcom_send, SendAo, SessionWriter).
ImplementsStream == Stream!Spec

Settled == {wire[i] : i \in DOMAIN wire} \cup {dropped[i] : i \in DOMAIN dropped}

\* A send that was accepted is written or given up in the end, whatever becomes
\* of its session.
SendsSettle == \A n \in 1 .. SendBound : accepted >= n ~> n \in Settled

\* The gate is released in the end: a slow peer delays auto-send, it does not
\* end it.
GateReleases == armed ~> ~armed

\* Closing ends: the Dispatcher joins the timer and the writer while both may be
\* submitting to it.
CloseEnds == portState = "CLOSING" ~> portState = "CLOSED"

\* What was begun ends: a send, an automatic packet, a close.
PipelineSettles == SendsSettle /\ GateReleases /\ CloseEnds

\* "success/failure is reported asynchronously via snapshot/error" (xcom_send):
\* a send that was accepted is not given up without a word.
NoSilentDrop == unreported = {}

\* "That bounds a slow serial peer to one queued-or-in-flight auto packet"
\* (send_autosend_action).
OneAutoPacket == Cardinality(IsAuto(jobs)) + Cardinality(IsAuto(job)) <= 1

\* "only faults after a short run of consecutive failures, so one hiccup does not
\* kill a working session" (sink_owner_write): a new session has no failures yet.
OneHiccupIsTolerated == [][openGeneration' # openGeneration => streak' + 1 < StreakLimit]_vars
==============================================================================
