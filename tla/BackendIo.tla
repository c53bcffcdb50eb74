------------------------------ MODULE BackendIo ------------------------------
(***************************************************************************)
(* WinSerialBackend and the three threads that meet in it: the Dispatcher  *)
(* opens and closes, the read thread keeps one overlapped read going, the  *)
(* session writer sends one block after the other in up to eight attempts. *)
(* The driver is external: it moves bytes into a read and out of a write   *)
(* one at a time, completes a request whole, short or failed, and may not  *)
(* care about CancelIoEx.  Every wait of the code may run out.             *)
(***************************************************************************)
EXTENDS Integers, Sequences, FiniteSets

CONSTANTS
  BlockBytes,     \* bytes of a block to send
  MaxIterations,  \* kMaxWriteIterations
  JobBound,       \* bound: blocks handed to the writer in one session
  LineBound       \* bound: bytes the line carries in one session

\* xcom_send takes no empty block, and write() makes at least one attempt.
ASSUME BackendAssumption ==
  BlockBytes \in Nat \ {0} /\ MaxIterations \in Nat \ {0} /\ JobBound \in Nat /\ LineBound \in Nat

VARIABLES
  dispatcher, reader, writer,  \* where the threads are
  port,        \* port_.valid()
  open,        \* open_
  stop,        \* stop_requested_
  events,      \* stop_event_, read_event_, write_event_: those that are signalled
  inFlight,    \* write_in_flight_
  bounded,     \* the read thread's wait has a time limit
  read,        \* the read request: its state and the bytes moved
  sends,       \* the write requests the driver has, in order
  status,      \* write_overlapped_: the latest completion of any of them
  waiting,     \* blocks in the writer's ring
  writerStop,  \* stop_ of the writer
  job,         \* number of the block the writer has, the latest
  total, iteration,  \* locals of write()
  arrived, delivered,  \* history: bytes moved by the driver, bytes given to on_read_
  wire,        \* history: bytes the driver sent, as <<block, byte>>
  written,     \* history: what was reported of each block, -1 before
  fault,       \* history: on_fault_ was called in this session
  stray        \* history: a write() returned while the driver kept its request

threads == <<dispatcher, reader, writer>>
handles == <<port, open, stop>>
readVars == <<bounded, read, arrived, delivered, fault>>
writeVars == <<inFlight, sends, status, job, total, iteration, wire, written, stray>>
ringVars == <<waiting, writerStop>>
vars == <<threads, handles, events, readVars, writeVars, ringVars>>

Idle == [state |-> "none", moved |-> 0]
Nothing == [state |-> "none", count |-> 0]
Jobs == 1 .. JobBound

TypeOK ==
  /\ dispatcher \in {"closed", "starting", "open", "abort", "grace", "cut", "quit",
                     "joinWriter", "halt", "signal", "joinReader"}
  /\ reader \in {"none", "loop", "issue", "arm", "wait", "decide", "reap", "failed"}
  /\ writer \in {"none", "wake", "pop", "check", "issue", "store", "wait", "cancel", "settle",
                 "reap", "done"}
  /\ port \in BOOLEAN /\ open \in BOOLEAN /\ stop \in BOOLEAN
  /\ events \subseteq {"stop", "read", "write"} /\ inFlight \in BOOLEAN /\ bounded \in BOOLEAN
  /\ read \in [state : {"none", "pending", "ok", "failed"}, moved : 0 .. LineBound]
  /\ sends \in Seq([job : Jobs, next : 1 .. BlockBytes + 1, first : 1 .. BlockBytes,
                    cancelled : BOOLEAN])
  /\ status \in [state : {"none", "pending", "ok", "failed"}, count : 0 .. BlockBytes]
  /\ waiting \in 0 .. JobBound /\ writerStop \in BOOLEAN /\ job \in 0 .. JobBound
  /\ total \in 0 .. BlockBytes /\ iteration \in 0 .. MaxIterations
  /\ arrived \in 0 .. LineBound /\ delivered \in 0 .. LineBound
  /\ wire \in Seq(Jobs \X (1 .. BlockBytes)) /\ written \in [Jobs -> -1 .. BlockBytes]
  /\ fault \in BOOLEAN /\ stray \in BOOLEAN

Init ==
  /\ dispatcher = "closed" /\ reader = "none" /\ writer = "none"
  /\ port = FALSE /\ open = FALSE /\ stop = FALSE /\ events = {}
  /\ inFlight = FALSE /\ bounded = FALSE /\ read = Idle /\ sends = <<>> /\ status = Nothing
  /\ waiting = 0 /\ writerStop = FALSE /\ job = 0 /\ total = 0 /\ iteration = 0
  /\ arrived = 0 /\ delivered = 0 /\ wire = <<>> /\ written = [j \in Jobs |-> -1]
  /\ fault = FALSE /\ stray = FALSE

-----------------------------------------------------------------------------
(* The driver (external)                                                   *)

\* CancelIoEx of the write: every request on that OVERLAPPED.
Cancelled == [i \in DOMAIN sends |-> [sends[i] EXCEPT !.cancelled = TRUE]]

DriverMoves ==
  /\ port /\ read.state = "pending" /\ arrived < LineBound
  /\ arrived' = arrived + 1 /\ read' = [read EXCEPT !.moved = @ + 1]
  /\ UNCHANGED <<threads, handles, events, bounded, delivered, fault, writeVars, ringVars>>

\* The read tick is over or the buffer full; or the line, the device or a cancel
\* ends the request with what it has.
DriverEndsRead ==
  /\ port /\ read.state = "pending"
  /\ \E state \in {"ok", "failed"} : read' = [read EXCEPT !.state = state]
  /\ events' = events \cup {"read"}
  /\ UNCHANGED <<threads, handles, bounded, arrived, delivered, fault, writeVars, ringVars>>

DriverSends ==
  /\ port /\ sends # <<>> /\ Head(sends).next <= BlockBytes
  /\ wire' = Append(wire, <<Head(sends).job, Head(sends).next>>)
  /\ sends' = [sends EXCEPT ![1].next = @ + 1]
  /\ UNCHANGED <<threads, handles, events, readVars, inFlight, status, job, total, iteration,
                 written, stray, ringVars>>

DriverEndsSend ==
  /\ port /\ sends # <<>>
  /\ \E state \in {"ok", "failed"} :
       status' = [state |-> state, count |-> Head(sends).next - Head(sends).first]
  /\ sends' = Tail(sends) /\ events' = events \cup {"write"}
  /\ UNCHANGED <<threads, handles, readVars, inFlight, job, total, iteration, wire, written,
                 stray, ringVars>>

-----------------------------------------------------------------------------
(* The read thread                                                         *)

Reads(from, to) == reader = from /\ reader' = to /\ UNCHANGED <<dispatcher, writer>>

ReaderLoop ==
  /\ Reads("loop", IF stop THEN "none" ELSE "issue")
  /\ UNCHANGED <<handles, events, readVars, writeVars, ringVars>>

\* ReadFile is done at once, pending, or refused.
ReaderIssue ==
  /\ events' = events \ {"read"}
  /\ \/ /\ Reads("issue", "loop")
        /\ \E n \in 0 .. LineBound - arrived :
             arrived' = arrived + n /\ delivered' = delivered + n
        /\ UNCHANGED read
     \/ /\ Reads("issue", "arm") /\ read' = [state |-> "pending", moved |-> 0]
        /\ UNCHANGED <<arrived, delivered>>
     \/ Reads("issue", "failed") /\ UNCHANGED <<read, arrived, delivered>>
  /\ UNCHANGED <<handles, bounded, fault, writeVars, ringVars>>

ReaderArms ==
  /\ Reads("arm", "wait") /\ bounded' = stop
  /\ UNCHANGED <<handles, events, read, arrived, delivered, fault, writeVars, ringVars>>

\* Mutation: the stop event is not among the handles waited for.
ReaderWakesByRead ==
  /\ Reads("wait", "reap") /\ "read" \in events
  /\ UNCHANGED <<handles, events, readVars, writeVars, ringVars>>

\* The lowest signalled index wins; the wait itself may fail.
ReaderWakes ==
  /\ \/ Reads("wait", "decide") /\ "stop" \in events
     \/ Reads("wait", "reap") /\ "stop" \notin events /\ "read" \in events
     \/ Reads("wait", "failed")
  /\ UNCHANGED <<handles, events, readVars, writeVars, ringVars>>

\* The 1500 ms of a wait that began after the stop flag was set.
ReaderGivesUp ==
  /\ Reads("wait", "none") /\ bounded /\ events \cap {"stop", "read"} = {}
  /\ fault' = TRUE /\ open' = FALSE
  /\ UNCHANGED <<port, stop, events, bounded, read, arrived, delivered, writeVars,
                 ringVars>>

\* Mutation: the stop index is trusted, the read event not looked at.
ReaderTrustsIndex ==
  /\ Reads("decide", "none")
  /\ UNCHANGED <<handles, events, readVars, writeVars, ringVars>>

ReaderDecides ==
  /\ Reads("decide", IF "read" \in events THEN "reap" ELSE "none")
  /\ UNCHANGED <<handles, events, readVars, writeVars, ringVars>>

\* Mutation: a failed completion is taken to have no bytes.
ReaderReapsWhole ==
  /\ Reads("reap", IF read.state = "ok" THEN "loop" ELSE "failed")
  /\ delivered' = IF read.state = "ok" THEN delivered + read.moved ELSE delivered
  /\ read' = Idle
  /\ UNCHANGED <<handles, events, bounded, arrived, fault, writeVars, ringVars>>

\* What was moved is given away before a failure is looked at.
ReaderReaps ==
  /\ Reads("reap", IF read.state = "ok" THEN "loop" ELSE "failed")
  /\ delivered' = delivered + read.moved /\ read' = Idle
  /\ UNCHANGED <<handles, events, bounded, arrived, fault, writeVars, ringVars>>

\* Mutation: the failure is taken for the end of a close.
ReaderFailsQuietly ==
  /\ Reads("failed", "none")
  /\ UNCHANGED <<handles, events, readVars, writeVars, ringVars>>

\* Mutation: the thread reports and goes on.
ReaderFailsOn ==
  /\ Reads("failed", IF stop THEN "none" ELSE "loop")
  /\ fault' = (fault \/ ~stop) /\ open' = (open /\ stop)
  /\ UNCHANGED <<port, stop, events, bounded, read, arrived, delivered, writeVars,
                 ringVars>>

\* A refused ReadFile, a failed wait, a failed completion: reported unless a close
\* is the reason; the thread ends either way.
ReaderFails ==
  /\ Reads("failed", "none")
  /\ fault' = (fault \/ ~stop) /\ open' = (open /\ stop)
  /\ UNCHANGED <<port, stop, events, bounded, read, arrived, delivered, writeVars,
                 ringVars>>

-----------------------------------------------------------------------------
(* The session writer                                                      *)

Writes(from, to) == writer = from /\ writer' = to /\ UNCHANGED <<dispatcher, reader>>

\* After the wake, and after every block: a writer told to stop drops the rest.
WriterTests ==
  /\ \/ Writes("wake", IF writerStop THEN "none" ELSE "pop")
     \/ Writes("done", IF writerStop THEN "none" ELSE "pop")
  /\ waiting' = IF writerStop THEN 0 ELSE waiting
  /\ UNCHANGED <<handles, events, readVars, writeVars, writerStop>>

WriterPops ==
  /\ \/ Writes("pop", "wake") /\ waiting = 0 /\ UNCHANGED <<waiting, job>>
     \/ /\ Writes("pop", "check") /\ waiting > 0
        /\ waiting' = waiting - 1 /\ job' = job + 1
  /\ total' = 0 /\ iteration' = 0
  /\ UNCHANGED <<handles, events, readVars, inFlight, sends, status, wire, written, stray,
                 writerStop>>

\* port_state of the session, is_open.
WriterChecks ==
  /\ Writes("check", IF dispatcher = "open" /\ open THEN "issue" ELSE "done")
  /\ written' = IF dispatcher = "open" /\ open THEN written ELSE [written EXCEPT ![job] = 0]
  /\ UNCHANGED <<handles, events, readVars, inFlight, sends, status, job, total, iteration,
                 wire, stray, ringVars>>

\* write() returns with n bytes said to be written.
Returns(n) == written' = [written EXCEPT ![job] = n] /\ stray' = (stray \/ sends # <<>>)

\* The driver took n bytes of this attempt.
Advances(from, n) ==
  /\ total' = total + n
  /\ IF total + n < BlockBytes /\ n > 0 /\ iteration + 1 < MaxIterations
     THEN Writes(from, "issue") /\ iteration' = iteration + 1 /\ UNCHANGED <<written, stray>>
     ELSE Writes(from, "done") /\ UNCHANGED iteration /\ Returns(total + n)

\* Mutation: every attempt begins with the first byte.
WriterIssuesAgain ==
  /\ Writes("issue", "store") /\ events' = events \ {"write"}
  /\ sends' = Append(sends, [job |-> job, first |-> 1, next |-> 1, cancelled |-> FALSE])
  /\ status' = [state |-> "pending", count |-> 0]
  /\ UNCHANGED <<handles, readVars, inFlight, job, total, iteration, wire, written, stray,
                 ringVars>>

\* WriteFile is done at once, also short, or pending, or refused.
WriterIssues ==
  /\ events' = events \ {"write"}
  /\ \/ \E n \in 0 .. BlockBytes - total :
          /\ sends = <<>> /\ Advances("issue", n)
          /\ wire' = wire \o [i \in 1 .. n |-> <<job, total + i>>]
          /\ UNCHANGED <<sends, status>>
     \/ /\ Writes("issue", "store")
        /\ sends' = Append(sends, [job |-> job, first |-> total + 1, next |-> total + 1,
                                   cancelled |-> FALSE])
        /\ status' = [state |-> "pending", count |-> 0]
        /\ UNCHANGED <<total, iteration, wire, written, stray>>
     \/ /\ Writes("issue", "done") /\ Returns(total)
        /\ UNCHANGED <<sends, status, total, iteration, wire>>
  /\ UNCHANGED <<handles, readVars, inFlight, job, ringVars>>

WriterStores ==
  /\ Writes("store", "wait") /\ inFlight' = TRUE
  /\ UNCHANGED <<handles, events, readVars, sends, status, job, total, iteration, wire, written,
                 stray, ringVars>>

WriterWaits ==
  /\ Writes("wait", IF "write" \in events THEN "reap" ELSE "cancel")
  /\ UNCHANGED <<handles, events, readVars, writeVars, ringVars>>

WriterCancels ==
  /\ Writes("cancel", "settle") /\ sends' = Cancelled
  /\ UNCHANGED <<handles, events, readVars, inFlight, status, job, total, iteration, wire,
                 written, stray, ringVars>>

\* The event, or 200 ms; the completion is not looked at.
WriterSettles ==
  /\ Writes("settle", "done") /\ inFlight' = FALSE /\ Returns(total)
  /\ UNCHANGED <<handles, events, readVars, sends, status, job, total, iteration, wire,
                 ringVars>>

\* Mutation: a short write is taken for a whole one.
WriterReapsWhole ==
  /\ inFlight' = FALSE
  /\ \/ /\ status.state = "ok" /\ Writes("reap", "done") /\ Returns(BlockBytes)
     \/ /\ status.state # "ok" /\ Writes("reap", "done") /\ Returns(total)
  /\ UNCHANGED <<total, iteration, handles, events, readVars, sends, status, job, wire, ringVars>>

\* Mutation: the count of the completion is believed as it is.
WriterReapsUnclamped ==
  /\ inFlight' = FALSE
  /\ \/ status.state = "ok" /\ Advances("reap", status.count)
     \/ /\ status.state # "ok" /\ Writes("reap", "done") /\ Returns(total)
        /\ UNCHANGED <<total, iteration>>
  /\ UNCHANGED <<handles, events, readVars, sends, status, job, wire, ringVars>>

\* GetOverlappedResult; of a failed completion no byte is counted.
WriterReaps ==
  /\ inFlight' = FALSE
  /\ LET n == IF status.count < BlockBytes - total THEN status.count ELSE BlockBytes - total
     IN \/ status.state = "ok" /\ Advances("reap", n)
        \/ /\ status.state # "ok" /\ Writes("reap", "done") /\ Returns(total)
           /\ UNCHANGED <<total, iteration>>
  /\ UNCHANGED <<handles, events, readVars, sends, status, job, wire, ringVars>>

-----------------------------------------------------------------------------
(* The Dispatcher                                                          *)

Goes(from, to) == dispatcher = from /\ dispatcher' = to

\* A request that is refused, a device, an event or a configuration that fails:
\* close() undoes what there is.
OpenFails ==
  /\ dispatcher = "closed" /\ ~stop /\ stop' = TRUE
  /\ UNCHANGED <<threads, port, open, events, readVars, writeVars, ringVars>>

Open ==
  /\ Goes("closed", "starting")
  /\ port' = TRUE /\ open' = TRUE /\ stop' = FALSE /\ events' = {} /\ reader' = "loop"
  /\ UNCHANGED <<writer, readVars, writeVars, ringVars>>

\* The writer starts and the session is open, or the backend is closed again.
StartWriter ==
  /\ \/ Goes("starting", "open") /\ writer' = "wake" /\ writerStop' = FALSE
     \/ Goes("starting", "halt") /\ UNCHANGED <<writer, writerStop>>
  /\ UNCHANGED <<reader, handles, events, readVars, writeVars, waiting>>

Enqueue ==
  /\ dispatcher = "open" /\ job + waiting < JobBound /\ waiting' = waiting + 1
  /\ UNCHANGED <<threads, handles, events, readVars, writeVars, writerStop>>

\* A close or a fault: CLOSING or FAULT is published first.
BeginClose ==
  /\ Goes("open", "abort")
  /\ UNCHANGED <<reader, writer, handles, events, readVars, writeVars, ringVars>>

\* abort_pending_write: a write in flight is given kTxDrainGraceMs.
AbortLooks ==
  /\ Goes("abort", IF inFlight THEN "grace" ELSE "cut")
  /\ UNCHANGED <<reader, writer, handles, events, readVars, writeVars, ringVars>>

Grace ==
  /\ Goes("grace", IF "write" \in events THEN "quit" ELSE "cut")
  /\ UNCHANGED <<reader, writer, handles, events, readVars, writeVars, ringVars>>

Cut ==
  /\ Goes("cut", "quit") /\ sends' = Cancelled
  /\ UNCHANGED <<reader, writer, handles, events, readVars, inFlight, status, job, total,
                 iteration, wire, written, stray, ringVars>>

\* stop_and_join, release_leftover_jobs.
StopWriter ==
  /\ \/ Goes("quit", "joinWriter") /\ writerStop' = TRUE /\ UNCHANGED waiting
     \/ Goes("joinWriter", "halt") /\ writer = "none" /\ waiting' = 0 /\ UNCHANGED writerStop
  /\ UNCHANGED <<reader, writer, handles, events, readVars, writeVars>>

\* close(): the flag, the event, the cancels.
Halt ==
  /\ \/ Goes("halt", "signal") /\ stop' = TRUE /\ UNCHANGED <<events, sends>>
     \/ /\ Goes("signal", "joinReader") /\ events' = events \cup {"stop"}
        /\ sends' = Cancelled /\ UNCHANGED stop
  /\ UNCHANGED <<reader, writer, port, open, readVars, inFlight, status, job, total,
                 iteration, wire, written, stray, ringVars>>

\* The histories are of one session.
EndOfHistory ==
  /\ arrived' = 0 /\ delivered' = 0 /\ fault' = FALSE /\ stray' = FALSE
  /\ job' = 0 /\ wire' = <<>> /\ written' = [j \in Jobs |-> -1]

\* The read thread is joined; handles and requests go.
CloseEnds ==
  /\ Goes("joinReader", "closed") /\ reader = "none"
  /\ port' = FALSE /\ open' = FALSE /\ inFlight' = FALSE /\ events' = {}
  /\ read' = Idle /\ sends' = <<>> /\ status' = Nothing
  /\ bounded' = FALSE /\ total' = 0 /\ iteration' = 0
  /\ EndOfHistory
  /\ UNCHANGED <<reader, writer, stop, ringVars>>

Driver == DriverMoves \/ DriverEndsRead \/ DriverSends \/ DriverEndsSend
Reader ==
  \/ ReaderLoop \/ ReaderIssue \/ ReaderArms \/ ReaderWakes \/ ReaderGivesUp \/ ReaderDecides
  \/ ReaderReaps \/ ReaderFails
Writer ==
  \/ WriterTests \/ WriterPops \/ WriterChecks \/ WriterIssues \/ WriterStores \/ WriterWaits
  \/ WriterCancels \/ WriterSettles \/ WriterReaps
Closing == AbortLooks \/ Grace \/ Cut \/ StopWriter \/ Halt \/ CloseEnds
Next == Driver \/ Reader \/ Writer \/ OpenFails \/ Open \/ StartWriter \/ Enqueue \/ BeginClose
  \/ Closing
Spec == Init /\ [][Next]_vars

\* Threads run; the driver owes nothing.
FairSpec == Spec /\ WF_vars(Reader) /\ WF_vars(Writer) /\ WF_vars(Closing)

-----------------------------------------------------------------------------
(* Properties                                                              *)

\* Every byte the driver moved into a read is given to on_read_ or still in the
\* request the read thread has, also when reads fail half way.
ReadsDelivered ==
  port => arrived = delivered + read.moved

\* A read thread that stops leaves no completed read behind; only a wait that fails
\* is believed without a look at the request.
CompletedIsReaped ==
  [][reader \notin {"none", "failed"} /\ reader' = "none" => read.state \in {"none", "pending"}]_vars

\* A read thread that is gone was stopped, or its fault was reported and the port
\* no longer says it is open.
ReaderGoneIsKnown == port /\ reader = "none" /\ ~stop => fault /\ ~open

\* No received byte is lost in the backend, and no port is left open without a reader.
ReadsExact == TypeOK /\ ReadsDelivered /\ ReaderGoneIsKnown

\* Nothing is delivered behind the report of a fault, and no close is reported as
\* one, save by a wait whose limit ran out before the stop event was set.
FaultIsLast ==
  [][/\ delivered' > delivered => ~fault
     /\ fault' /\ ~fault => ~stop \/ bounded]_vars

\* A read thread ends with nothing left to deliver and nothing delivered behind its fault.
ReaderEndsClean == CompletedIsReaped /\ FaultIsLast

Sent(j) == Cardinality({i \in DOMAIN wire : wire[i][1] = j})

\* Each block goes out from its first byte, in order, no byte twice and none skipped,
\* over short writes, timeouts and cancels; as long as no write() has returned while
\* the driver kept its request, whose completion the next would take for its own.
WireInOrder ==
  ~stray =>
    \A i \in 1 .. Len(wire) :
      \/ wire[i][2] = 1 /\ (i > 1 => wire[i - 1][1] < wire[i][1])
      \/ i > 1 /\ wire[i - 1] = <<wire[i][1], wire[i][2] - 1>>

\* No byte is reported as written that did not go out, under the same condition.
WrittenWasSent == ~stray => \A j \in Jobs : written[j] <= Sent(j)

\* What went out and what write() reported of it agree, over short and cut writes.
WritesExact == WireInOrder /\ WrittenWasSent

\* close returns, whatever the driver does: every wait is bounded.
CloseReturns == dispatcher \notin {"closed", "starting", "open"} ~> dispatcher = "closed"

-----------------------------------------------------------------------------
(* What comments say and the code does not do                              *)

\* `written` is the exact number of bytes that did reach the driver.
WrittenIsExact ==
  \A j \in Jobs : written[j] >= 0 /\ ~stray => written[j] = Sent(j)

\* write() returns true only when the driver accepted all bytes.
TrueIsWhole == \A j \in Jobs : written[j] = BlockBytes => Sent(j) = BlockBytes

\* A read that the stop ends has no bytes.
StopLosesNothing ==
  dispatcher = "joinReader" /\ reader = "none" => arrived = delivered

\* A close waits for no write that it has not cancelled.
HeldByGraceOnly ==
  dispatcher = "joinWriter" /\ writer = "wait" /\ "write" \notin events =>
    \A i \in 1 .. Len(sends) : sends[i].cancelled

=============================================================================
