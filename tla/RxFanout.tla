------------------------------- MODULE RxFanout -------------------------------
(***************************************************************************)
(* How received data reaches the log file.  The read thread copies each    *)
(* segment once, into a reference-counted block of the receive lane, and   *)
(* queues one reference for the display and one for the LogWriter.  While  *)
(* a log is open the segment carries a lease that closing the log waits    *)
(* for; the file lane keeps a reserve of blocks the display may not use    *)
(* and, with no block left, the read thread waits instead of dropping.     *)
(* The caller opens and closes the log with jobs it waits for, up to a     *)
(* timeout; shutdown stops the writer whatever it is doing.                *)
(***************************************************************************)
EXTENDS Integers, Sequences, FiniteSets

CONSTANTS
  SegmentBound,  \* bound: segments the read thread delivers
  CallBound,     \* bound: log open and close calls
  Blocks,        \* RX blocks (kRxBlockCount of them)
  Reserve        \* kRxRawReserveBlocks

ASSUME RxFanoutAssumption ==
  /\ SegmentBound \in Nat /\ CallBound \in Nat
  /\ IsFiniteSet(Blocks) /\ Reserve \in 0 .. Cardinality(Blocks)

VARIABLES
  portOpen,    \* CoreCtx::port_state is OPEN and callback_admission is set
  refs,        \* references held on each block, 0 when it is in the pool
  raw,         \* RxBlockLane::raw_ready_
  display,     \* RxBlockLane::display_ready_ and what ReceiveAo holds
  paused,      \* the display takes nothing
  accepting,   \* LogWriter::Impl::accepting_log
  leases,      \* LogWriter::Impl::appenders_in_flight
  jobs,        \* LogWriter::Impl::jobs
  wake,        \* wake_event is signalled
  stopping,    \* LogWriter::Impl::stopping
  file,        \* log_file is valid
  reader,      \* where the read thread is
  leased,      \* file_lane of the segment it holds
  block,       \* the block it holds, with the lanes that are to share it
  writer,      \* where the LogWriter thread is
  job,         \* the job it works on
  held,        \* the raw reference it works on
  abi,         \* where the caller thread is
  ticket,      \* the job it waits for
  answers,     \* Completion::status of the jobs that are done
  calls,       \* log calls made
  final,       \* the caller is in shutdown
  received,    \* history: segments delivered so far, the id of the latest
  logged,      \* history: ids that were accepted under a lease
  written,     \* history: ids in the file, in order
  charged,     \* history: ids charged to save_rejected_bytes, in order
  gaveUp       \* history: the caller gave up waiting for a job

lane    == <<refs, raw, display>>
readerT == <<reader, leased, block>>
log     == <<accepting, leases, jobs, wake, stopping, file>>
writerT == <<writer, job, held>>
abiT    == <<abi, ticket, calls, final>>
history == <<received, logged, written, charged, gaveUp>>
vars == <<portOpen, lane, paused, log, readerT, writerT, abiT, answers, history>>

Ref == [block : Blocks, id : Nat]
Job == [kind : {"open", "close"}, ticket : Nat]

TypeOK ==
  /\ portOpen \in BOOLEAN /\ paused \in BOOLEAN
  /\ refs \in [Blocks -> 0 .. 2] /\ raw \in Seq(Ref) /\ display \in Seq(Ref)
  /\ accepting \in BOOLEAN /\ leases \in 0 .. 1 /\ jobs \in Seq(Job)
  /\ wake \in BOOLEAN /\ stopping \in BOOLEAN /\ file \in BOOLEAN
  /\ reader \in {"idle", "lease", "recheck", "alloc", "wait", "pushRaw", "pushDisplay",
                 "wakeLog", "unlease"}
  /\ leased \in BOOLEAN /\ block \in Seq([ref : Ref, shared : BOOLEAN])
  /\ writer \in {"loop", "parked", "open", "close", "drain", "write", "exited"}
  /\ job \in Seq(Job) /\ held \in Seq(Ref)
  /\ abi \in {"idle", "wait", "leases", "stop", "join", "drain", "done"}
  /\ final \in BOOLEAN /\ ticket \in Nat /\ calls \in Nat /\ answers \in SUBSET (Nat \X {"ok", "busy", "fail", "cancelled"})
  /\ received \in Nat /\ logged \in SUBSET Nat
  /\ written \in Seq(Nat) /\ charged \in Seq(Nat) /\ gaveUp \in BOOLEAN

Init ==
  /\ portOpen = TRUE /\ paused = FALSE
  /\ refs = [b \in Blocks |-> 0] /\ raw = <<>> /\ display = <<>>
  /\ accepting = FALSE /\ leases = 0 /\ jobs = <<>>
  /\ wake = FALSE /\ stopping = FALSE /\ file = FALSE
  /\ reader = "idle" /\ leased = FALSE /\ block = <<>>
  /\ writer = "loop" /\ job = <<>> /\ held = <<>>
  /\ abi = "idle" /\ ticket = 0 /\ answers = {} /\ calls = 0 /\ final = FALSE
  /\ received = 0 /\ logged = {} /\ written = <<>> /\ charged = <<>>
  /\ gaveUp = FALSE

Release(b) == refs' = [refs EXCEPT ![b] = @ - 1]

-----------------------------------------------------------------------------
(* The read thread: rx_ingress.                                            *)

Read(from, to) == reader = from /\ reader' = to

\* A segment with no session is charged at once.
Deliver ==
  /\ reader = "idle" /\ received < SegmentBound /\ ~final
  /\ received' = received + 1
  /\ IF portOpen THEN reader' = "lease" /\ UNCHANGED charged
                 ELSE charged' = Append(charged, received') /\ UNCHANGED reader
  /\ UNCHANGED <<portOpen, lane, paused, log, leased, block, writerT, abiT, answers,
                 logged, written, gaveUp>>

\* acquire_append_lease: test, count, test again.
LeaseRefused ==
  /\ Read("lease", "alloc") /\ ~accepting
  /\ leased' = FALSE
  /\ UNCHANGED <<portOpen, lane, paused, log, block, writerT, abiT, answers, history>>

LeaseCounted ==
  /\ Read("lease", "recheck") /\ accepting
  /\ leases' = leases + 1
  /\ UNCHANGED <<portOpen, lane, paused, accepting, jobs, wake, stopping, file, leased, block,
                 writerT, abiT, answers, history>>

LeaseConfirmed ==
  /\ Read("recheck", "alloc") /\ accepting
  /\ leased' = TRUE /\ logged' = logged \cup {received}
  /\ UNCHANGED <<portOpen, lane, paused, log, block, writerT, abiT, answers,
                 received, written, charged, gaveUp>>

LeaseWithdrawn ==
  /\ Read("recheck", "lease") /\ ~accepting
  /\ leases' = leases - 1
  /\ UNCHANGED <<portOpen, lane, paused, accepting, jobs, wake, stopping, file, leased, block,
                 writerT, abiT, answers, history>>

FreeBlocks == {b \in Blocks : refs[b] = 0}
Spare == Cardinality(FreeBlocks) - 1  \* left in the pool after one claim

\* Mutation: the second lane gets no reference of its own.
ClaimOneReference(shared) ==
  LET b == CHOOSE free \in FreeBlocks : TRUE IN
    /\ refs' = [refs EXCEPT ![b] = 1]
    /\ block' = <<[ref |-> [block |-> b, id |-> received], shared |-> shared]>>
    /\ reader' = IF leased THEN "pushRaw" ELSE "pushDisplay"

Claim(shared) ==
  LET b == CHOOSE free \in FreeBlocks : TRUE IN
    /\ refs' = [refs EXCEPT ![b] = IF leased /\ shared THEN 2 ELSE 1]
    /\ block' = <<[ref |-> [block |-> b, id |-> received], shared |-> shared]>>
    /\ reader' = IF leased THEN "pushRaw" ELSE "pushDisplay"

\* Mutation: the display shares every block.
AllocIgnoresReserve ==
  /\ reader = "alloc" /\ FreeBlocks # {}
  /\ Claim(TRUE)
  /\ UNCHANGED <<portOpen, raw, display, paused, log, leased, writerT, abiT, answers, history>>

\* try_alloc and event_ref_inc: with a file lane the display gets a share only
\* above the reserve; without one it may use the whole pool.
Alloc ==
  /\ reader = "alloc" /\ FreeBlocks # {}
  /\ Claim(~leased \/ Spare >= Reserve)
  /\ UNCHANGED <<portOpen, raw, display, paused, log, leased, writerT, abiT, answers, history>>

\* Mutation: the lease is given back whether it was taken or not.
AllocFailsUnleases ==
  /\ reader = "alloc" /\ FreeBlocks = {}
  /\ IF leased /\ portOpen THEN reader' = "wait" /\ UNCHANGED charged
                           ELSE reader' = "unlease" /\ charged' = Append(charged, received)
  /\ UNCHANGED <<portOpen, lane, paused, log, leased, block, writerT, abiT, answers,
                 received, logged, written, gaveUp>>

\* No block: the file lane waits, a segment for the display alone is lost.
AllocFails ==
  /\ reader = "alloc" /\ FreeBlocks = {}
  /\ IF leased /\ portOpen THEN reader' = "wait" /\ UNCHANGED charged
                           ELSE /\ reader' = IF leased THEN "unlease" ELSE "idle"
                                /\ charged' = Append(charged, received)
  /\ UNCHANGED <<portOpen, lane, paused, log, leased, block, writerT, abiT, answers,
                 received, logged, written, gaveUp>>

\* wait_for_free: a block came free, the close woke it, or 50 ms went by.
WaitEnds ==
  /\ Read("wait", "alloc") /\ (FreeBlocks # {} \/ ~portOpen)
  /\ UNCHANGED <<portOpen, lane, paused, log, leased, block, writerT, abiT, answers, history>>

PushRaw ==
  /\ reader = "pushRaw"
  /\ raw' = Append(raw, block[1].ref)
  /\ IF block[1].shared THEN reader' = "pushDisplay" /\ UNCHANGED block
                        ELSE reader' = "wakeLog" /\ block' = <<>>
  /\ UNCHANGED <<portOpen, refs, display, paused, log, leased, writerT, abiT, answers, history>>

PushDisplay ==
  /\ reader = "pushDisplay"
  /\ display' = Append(display, block[1].ref) /\ block' = <<>>
  /\ reader' = IF leased THEN "wakeLog" ELSE "idle"
  /\ UNCHANGED <<portOpen, refs, raw, paused, log, leased, writerT, abiT, answers, history>>

\* Mutation: the writer is not signalled.
WakeLogDropped ==
  /\ Read("wakeLog", "unlease")
  /\ UNCHANGED <<portOpen, lane, paused, log, leased, block, writerT, abiT, answers, history>>

WakeLog ==
  /\ Read("wakeLog", "unlease")
  /\ wake' = TRUE
  /\ UNCHANGED <<portOpen, lane, paused, accepting, leases, jobs, stopping, file, leased, block,
                 writerT, abiT, answers, history>>

Unlease ==
  /\ Read("unlease", "idle")
  /\ leases' = leases - 1
  /\ UNCHANGED <<portOpen, lane, paused, accepting, jobs, wake, stopping, file, leased, block,
                 writerT, abiT, answers, history>>

Ingress == \/ LeaseRefused \/ LeaseCounted \/ LeaseConfirmed \/ LeaseWithdrawn
           \/ Alloc \/ AllocFails \/ WaitEnds
           \/ PushRaw \/ PushDisplay \/ WakeLog \/ Unlease

Reader == Deliver \/ Ingress

-----------------------------------------------------------------------------
(* The display, as far as the lane sees it: ReceiveAo releases a block in  *)
(* its turn, unless the user paused the view.  The session may end and     *)
(* start again; the backend joins the read thread in between.              *)

DisplayReleases ==
  /\ ~paused /\ display # <<>>
  /\ Release(Head(display).block) /\ display' = Tail(display)
  /\ UNCHANGED <<portOpen, raw, paused, log, readerT, writerT, abiT, answers, history>>

TogglePause ==
  /\ paused' = ~paused
  /\ UNCHANGED <<portOpen, lane, log, readerT, writerT, abiT, answers, history>>

ClosePort ==
  /\ portOpen /\ portOpen' = FALSE
  /\ UNCHANGED <<lane, paused, log, readerT, writerT, abiT, answers, history>>

OpenPort ==
  /\ ~portOpen /\ reader = "idle" /\ ~final
  /\ portOpen' = TRUE
  /\ UNCHANGED <<lane, paused, log, readerT, writerT, abiT, answers, history>>

Display == DisplayReleases \/ TogglePause
Session == ClosePort \/ OpenPort

-----------------------------------------------------------------------------
(* The LogWriter thread.                                                   *)

\* finish: the status goes to the completion of the job.
Answer(status) == answers' = answers \cup {<<job[1].ticket, status>>} /\ job' = <<>>

Ids(segs) == [i \in 1 .. Len(segs) |-> segs[i].id]
Members(s) == {s[i] : i \in 1 .. Len(s)}
BlocksOf(segs) == {s.block : s \in Members(segs)}
Bit(condition) == IF condition THEN 1 ELSE 0

\* Jobs go before the byte stream.
TakeJob ==
  /\ writer = "loop" /\ ~stopping /\ jobs # <<>>
  /\ job' = <<Head(jobs)>> /\ jobs' = Tail(jobs)
  /\ writer' = Head(jobs).kind
  /\ UNCHANGED <<portOpen, lane, paused, accepting, leases, wake, stopping, file, readerT, held,
                 abiT, answers, history>>

\* Admission follows the file, unless a file is open already.
ProcessOpen ==
  /\ writer = "open" /\ writer' = "loop"
  /\ \/ file /\ Answer("busy") /\ UNCHANGED <<file, accepting>>
     \/ ~file /\ Answer("ok") /\ file' = TRUE /\ accepting' = TRUE
     \/ ~file /\ Answer("fail") /\ file' = FALSE /\ accepting' = FALSE
  /\ UNCHANGED <<portOpen, lane, paused, leases, jobs, wake, stopping, readerT, held, abiT, history>>

CloseStopsAdmission ==
  /\ writer = "close" /\ writer' = "drain"
  /\ accepting' = FALSE
  /\ UNCHANGED <<portOpen, lane, paused, leases, jobs, wake, stopping, file, readerT, job, held,
                 abiT, answers, history>>

\* flush_rx_before_close, and the turn of a raw reference when no job waits.
TakeRaw ==
  /\ \/ writer = "drain" /\ file
     \/ writer = "loop" /\ ~stopping /\ jobs = <<>>
  /\ raw # <<>>
  /\ held' = <<Head(raw)>> /\ raw' = Tail(raw)
  /\ writer' = "write"
  /\ UNCHANGED <<portOpen, refs, display, paused, log, readerT, job, abiT, answers, history>>

\* Mutation: Close resets the file without draining the raw ring.
CloseFileUndrained ==
  /\ writer = "drain" /\ writer' = "loop"
  /\ file' = FALSE
  /\ Answer("ok") \/ (file /\ Answer("fail"))
  /\ UNCHANGED <<portOpen, lane, paused, accepting, leases, jobs, wake, stopping, readerT, held,
                 abiT, history>>

CloseFile ==
  /\ writer = "drain" /\ (raw = <<>> \/ ~file) /\ writer' = "loop"
  /\ file' = FALSE
  /\ Answer("ok") \/ (file /\ Answer("fail"))
  /\ UNCHANGED <<portOpen, lane, paused, accepting, leases, jobs, wake, stopping, readerT, held,
                 abiT, history>>

Written == writer' = IF job = <<>> THEN "loop" ELSE "drain"

\* Mutation: the segment written is tried again.
WriteRawAgain ==
  /\ writer = "write" /\ file
  /\ written' = Append(written, held[1].id)
  /\ UNCHANGED <<portOpen, lane, paused, log, readerT, writerT, abiT, answers, received,
                 logged, charged, gaveUp>>

\* process_rx_ref: every byte is written, however long the disk takes.
WriteRaw ==
  /\ writer = "write" /\ file /\ Written
  /\ written' = Append(written, held[1].id)
  /\ Release(held[1].block) /\ held' = <<>>
  /\ UNCHANGED <<portOpen, raw, display, paused, log, readerT, job, abiT, answers, received,
                 logged, charged, gaveUp>>

\* Mutation: a segment abandoned at stop is not charged.
AbandonRawUncharged ==
  /\ writer = "write" /\ (~file \/ stopping) /\ Written
  /\ Release(held[1].block) /\ held' = <<>>
  /\ UNCHANGED <<portOpen, raw, display, paused, log, readerT, job, abiT, answers, history>>

\* No file, or stopped before the last byte: the segment is charged.
AbandonRaw ==
  /\ writer = "write" /\ (~file \/ stopping) /\ Written
  /\ charged' = Append(charged, held[1].id)
  /\ Release(held[1].block) /\ held' = <<>>
  /\ UNCHANGED <<portOpen, raw, display, paused, log, readerT, job, abiT, answers, received,
                 logged, written, gaveUp>>

Park ==
  /\ writer = "loop" /\ ~stopping /\ jobs = <<>> /\ raw = <<>>
  /\ writer' = "parked"
  /\ UNCHANGED <<portOpen, lane, paused, log, readerT, job, held, abiT, answers, history>>

Unpark ==
  /\ writer = "parked" /\ wake
  /\ wake' = FALSE /\ writer' = "loop"
  /\ UNCHANGED <<portOpen, lane, paused, accepting, leases, jobs, stopping, file, readerT, job, held,
                 abiT, answers, history>>

\* cancel_pending and cancel_pending_rx, then the thread ends.
Stop ==
  /\ writer = "loop" /\ stopping
  /\ answers' = answers \cup {<<j.ticket, "cancelled">> : j \in Members(jobs)} /\ jobs' = <<>>
  /\ charged' = charged \o Ids(raw) /\ raw' = <<>>
  /\ refs' = [b \in Blocks |-> refs[b] - Bit(b \in BlocksOf(raw))]
  /\ file' = FALSE /\ writer' = "exited"
  /\ UNCHANGED <<portOpen, display, paused, accepting, leases, wake, stopping, readerT, job, held,
                 abiT, received, logged, written, gaveUp>>

LogWriter == \/ TakeJob \/ ProcessOpen \/ CloseStopsAdmission \/ TakeRaw \/ CloseFile
             \/ WriteRaw \/ AbandonRaw \/ Park \/ Unpark \/ Stop

-----------------------------------------------------------------------------
(* The caller thread: log calls and shutdown.                              *)

\* submit_sync: queue the job, signal the writer, wait for its completion.
SubmitJob(kind) ==
  /\ jobs' = Append(jobs, [kind |-> kind, ticket |-> ticket + 1]) /\ wake' = TRUE
  /\ ticket' = ticket + 1 /\ abi' = "wait"

OpenLog ==
  /\ abi = "idle" /\ ~accepting /\ calls < CallBound
  /\ SubmitJob("open") /\ calls' = calls + 1
  /\ UNCHANGED <<portOpen, lane, paused, accepting, leases, stopping, file, readerT, writerT, final,
                 answers, history>>

\* close_append_admission.
CloseLog ==
  /\ abi = "idle" /\ calls < CallBound
  /\ accepting' = FALSE /\ abi' = "leases" /\ calls' = calls + 1
  /\ UNCHANGED <<portOpen, lane, paused, leases, jobs, wake, stopping, file, readerT, writerT,
                 ticket, final, answers, history>>

\* Mutation: Close is queued without waiting for the leases.
LeasesNotAwaited ==
  /\ abi = "leases"
  /\ SubmitJob("close")
  /\ UNCHANGED <<portOpen, lane, paused, accepting, leases, stopping, file, readerT, writerT,
                 calls, final, answers, history>>

LeasesGone ==
  /\ abi = "leases" /\ leases = 0
  /\ SubmitJob("close")
  /\ UNCHANGED <<portOpen, lane, paused, accepting, leases, stopping, file, readerT, writerT,
                 calls, final, answers, history>>

Return == abi' = IF final THEN "stop" ELSE "idle"

JobDone(status) ==
  /\ abi = "wait" /\ <<ticket, status>> \in answers
  /\ Return
  /\ UNCHANGED <<portOpen, lane, paused, log, readerT, writerT, ticket, calls, final, answers,
                 history>>

\* The completion of a job nobody waits for any more stays valid.
TimeOut ==
  /\ abi \in {"wait", "leases"} /\ gaveUp' = TRUE
  /\ Return
  /\ UNCHANGED <<portOpen, lane, paused, log, readerT, writerT, ticket, calls, final, answers,
                 received, logged, written, charged>>

\* The backend is closed and its read thread joined before the log is shut down.
Shutdown ==
  /\ abi = "idle" /\ ~portOpen /\ reader = "idle"
  /\ accepting' = FALSE /\ abi' = "leases" /\ final' = TRUE
  /\ UNCHANGED <<portOpen, lane, paused, leases, jobs, wake, stopping, file, readerT, writerT,
                 ticket, calls, answers, history>>

\* Mutation: the parked writer is not signalled.
StopWriterSilent ==
  /\ abi = "stop" /\ abi' = "join"
  /\ accepting' = FALSE /\ stopping' = TRUE
  /\ UNCHANGED <<portOpen, lane, paused, leases, jobs, wake, file, readerT, writerT, ticket, calls,
                 final, answers, history>>

StopWriter ==
  /\ abi = "stop" /\ abi' = "join"
  /\ accepting' = FALSE /\ stopping' = TRUE /\ wake' = TRUE
  /\ UNCHANGED <<portOpen, lane, paused, leases, jobs, file, readerT, writerT, ticket, calls, final,
                 answers, history>>

\* drain_raw, charged, and drain_display, not charged.
DrainLane ==
  /\ abi = "join" /\ writer = "exited" /\ abi' = "done"
  /\ charged' = charged \o Ids(raw) /\ raw' = <<>> /\ display' = <<>>
  /\ refs' = [b \in Blocks |-> refs[b] - Bit(b \in BlocksOf(raw)) - Bit(b \in BlocksOf(display))]
  /\ UNCHANGED <<portOpen, paused, log, readerT, writerT, ticket, calls, final, answers, received,
                 logged, written, gaveUp>>

Caller == \/ OpenLog \/ CloseLog \/ LeasesGone \/ TimeOut
          \/ (\E status \in {"ok", "busy", "fail", "cancelled"} : JobDone(status))
          \/ Shutdown \/ StopWriter \/ DrainLane

-----------------------------------------------------------------------------
Next == Reader \/ Display \/ Session \/ LogWriter \/ Caller

Spec == Init /\ [][Next]_vars

\* Threads go on; the disk accepts a write in the end, or stopping ends it.
\* Data, pauses, log calls and sessions are up to the environment.
Fairness ==
  /\ WF_vars(Ingress) /\ WF_vars(LogWriter) /\ WF_vars(DisplayReleases)
  /\ WF_vars(LeasesGone) /\ WF_vars(StopWriter \/ DrainLane)
  /\ WF_vars(\E status \in {"ok", "busy", "fail", "cancelled"} : JobDone(status))

FairSpec == Spec /\ Fairness

-----------------------------------------------------------------------------
(* Properties.                                                             *)

\* Every reference of a block is owned by one holder: an over-release "aborts
\* inside event_gc", a missed one never returns the block to the pool.
HoldersOf(b) ==
  Cardinality({i \in DOMAIN raw : raw[i].block = b})
  + Cardinality({i \in DOMAIN display : display[i].block = b})
  + Cardinality({i \in DOMAIN held : held[i].block = b})
  + Bit(block # <<>> /\ block[1].ref.block = b)
  + Bit(block # <<>> /\ block[1].ref.block = b /\ block[1].shared /\ reader = "pushRaw")
RefsExact == \A b \in Blocks : refs[b] = HoldersOf(b)

\* While a lane has a file share "the display lane therefore never holds a
\* reference on a block below the floor": what it shares leaves the reserve.
SharedWithDisplay == {s.block : s \in {r \in Members(display) : r.id \in logged}}
ReserveKept == Cardinality(SharedWithDisplay) <= Cardinality(Blocks) - Reserve

\* The blocks and what counts them agree, and the display leaves the file its share.
BlocksAccounted == TypeOK /\ RefsExact /\ ReserveKept

\* Lossless file lane: a segment accepted under a lease is with a thread, on the
\* raw ring, in the file, or in the loss ledger.
InTheLane == Members(Ids(raw)) \cup Members(Ids(held)) \cup (IF reader = "idle" THEN {} ELSE {received})
LoggedAccounted == logged \subseteq InTheLane \cup Members(written) \cup Members(charged)

\* The file holds the stream in order, nothing twice, nothing that was charged.
File == INSTANCE SegmentStream WITH shown <- written
ImplementsFile == File!Spec

\* "A segment that sampled a file owner can never publish after the final drain"
\* (rx_ingress); the raw reference with no file "should be unreachable" (process_rx_ref).
\* It is, until a call has given up waiting for its job, which still runs later.
NoRawWithoutFile == writer = "write" => file \/ gaveUp

\* A log close that returned OK, with no call given up before, left nothing accepted
\* behind: no lease, nothing on the raw ring, and no file to be written any more.
CloseFlushes ==
  [][JobDone("ok") /\ ~accepting /\ ~gaveUp =>
       leases = 0 /\ raw = <<>> /\ held = <<>> /\ ~file]_vars

\* No segment the file lane took is lost in silence, none comes after its file, and an
\* OK close has flushed.
FileLossless == [](LoggedAccounted /\ NoRawWithoutFile) /\ CloseFlushes

\* A leased segment reaches the file or the ledger: the wake of the writer is not
\* lost and a read thread waiting for a block goes on, unless the user has paused
\* a display that holds the blocks (see FileNotStarved).
LoggedSettles ==
  \A id \in 1 .. SegmentBound :
    id \in logged ~> \/ id \in Members(written) \cup Members(charged)
                     \/ reader = "wait" /\ paused

\* Shutdown ends, whatever the writer was doing.
ShutdownEnds == final ~> abi = "done"

\* What was begun ends: a leased segment, and shutdown.
LaneSettles == LoggedSettles /\ ShutdownEnds

-----------------------------------------------------------------------------
(* Claims of the sources that a run refutes.                               *)

\* "A stalled display cannot starve the file lane" (rx_block_lane.hpp): when the
\* read thread waits for a block and the display stands still, the LogWriter has
\* one to give back.
FileNotStarved == reader = "wait" /\ FreeBlocks = {} /\ paused => raw # <<>> \/ held # <<>>
===============================================================================
