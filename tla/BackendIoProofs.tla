--------------------------- MODULE BackendIoProofs ---------------------------
(***************************************************************************)
(* Proofs about BackendIo: no byte received is lost between the driver and *)
(* on_read_, no read thread goes unnoticed, and what goes out and what     *)
(* write() reports of it agree, for blocks of any length, any number of    *)
(* attempts, blocks and bytes, and a driver that does what it likes.       *)
(***************************************************************************)
EXTENDS BackendIo, FiniteSetTheorems, TLAPS

-----------------------------------------------------------------------------
(* The inductive invariants.                                               *)

\* TypeOK, by the part of the backend.
Send == [job : Jobs, next : 1 .. BlockBytes + 1, first : 1 .. BlockBytes, cancelled : BOOLEAN]
Byte == Jobs \X (1 .. BlockBytes)
ControlTypes ==
  /\ dispatcher \in {"closed", "starting", "open", "abort", "grace", "cut", "quit",
                     "joinWriter", "halt", "signal", "joinReader"}
  /\ reader \in {"none", "loop", "issue", "arm", "wait", "decide", "reap", "failed"}
  /\ writer \in {"none", "wake", "pop", "check", "issue", "store", "wait", "cancel", "settle",
                 "reap", "done"}
  /\ port \in BOOLEAN /\ open \in BOOLEAN /\ stop \in BOOLEAN
  /\ events \subseteq {"stop", "read", "write"} /\ inFlight \in BOOLEAN /\ bounded \in BOOLEAN
ReadTypes ==
  /\ read \in [state : {"none", "pending", "ok", "failed"}, moved : 0 .. LineBound]
  /\ arrived \in 0 .. LineBound /\ delivered \in 0 .. LineBound /\ fault \in BOOLEAN
WriteTypes ==
  /\ sends \in Seq(Send)
  /\ status \in [state : {"none", "pending", "ok", "failed"}, count : 0 .. BlockBytes]
  /\ waiting \in 0 .. JobBound /\ writerStop \in BOOLEAN /\ job \in 0 .. JobBound
  /\ total \in 0 .. BlockBytes /\ iteration \in 0 .. MaxIterations
  /\ wire \in Seq(Byte) /\ written \in [Jobs -> -1 .. BlockBytes] /\ stray \in BOOLEAN

\* What the session holds at each place of the Dispatcher.
NoWriter == writer = "none" /\ waiting = 0
SessionAtPlace ==
  /\ port <=> dispatcher # "closed"
  /\ reader # "none" => port
  /\ dispatcher \in {"closed", "starting", "halt", "signal", "joinReader"} => NoWriter
  /\ dispatcher = "closed" => ~fault /\ read = Idle

\* The read thread issues with nothing in hand; a request that has not signalled its
\* event is pending; only a stop leads past the event to the decision.
ReaderAtPlace ==
  /\ arrived = delivered + read.moved
  /\ reader \in {"loop", "issue"} => read = Idle
  /\ reader \in {"arm", "wait", "decide"} /\ "read" \notin events => read.state = "pending"
  /\ "stop" \in events \/ reader = "decide" \/ dispatcher \in {"signal", "joinReader"} => stop
  /\ fault => reader = "none"

ReadsInv == ControlTypes /\ ReadTypes /\ SessionAtPlace /\ ReaderAtPlace /\ ReaderGoneIsKnown

\* The block and the attempt the writer is at.
Between == {"none", "wake", "pop", "done"}
WriterAtPlace ==
  /\ job + waiting <= JobBound
  /\ writer \notin Between => job \in Jobs
  /\ writer \in {"check", "issue", "store"} => total < BlockBytes
  /\ \A i \in DOMAIN sends : sends[i].first <= sends[i].next

BackendInv == ReadsInv /\ WriteTypes /\ WriterAtPlace

\* The driver has at most the request of the attempt that is under way, as long as no
\* write() left one behind.
InDriver == {"store", "wait", "cancel", "settle"}
OneSend ==
  IF writer \in InDriver /\ sends # <<>>
  THEN /\ Len(sends) = 1 /\ sends[1].job = job /\ sends[1].first = total + 1
       /\ "write" \notin events
  ELSE sends = <<>>

\* Bytes of the current block that went out.
Gone ==
  IF writer \in InDriver THEN IF sends = <<>> THEN total + status.count ELSE sends[1].next - 1
  ELSE IF writer = "reap" THEN total + status.count ELSE total

\* The first p bytes of block j are the last on the wire w.
Count(w, j) == Cardinality({i \in DOMAIN w : w[i][1] = j})
Tip(w, j, p) ==
  /\ \A i \in DOMAIN w : w[i][1] <= j
  /\ Count(w, j) = p
  /\ p = 0 => \A i \in DOMAIN w : w[i][1] < j
  /\ p > 0 => w # <<>> /\ w[Len(w)] = <<j, p>>
LastOut ==
  /\ \A i \in DOMAIN wire : wire[i][1] <= job
  /\ writer \notin Between => Gone <= BlockBytes /\ Tip(wire, job, Gone)

\* What WritesExact says, without its condition.
OrderOf(w) ==
  \A i \in 1 .. Len(w) :
    \/ w[i][2] = 1 /\ (i > 1 => w[i - 1][1] < w[i][1])
    \/ i > 1 /\ w[i - 1] = <<w[i][1], w[i][2] - 1>>
WrittenOut == \A j \in Jobs : written[j] <= Count(wire, j)

WireInv == ~stray => OneSend /\ LastOut /\ OrderOf(wire) /\ WrittenOut

-----------------------------------------------------------------------------
(* Types.                                                                  *)

\* TypeOK is these three.
LEMMA TypesSplit == TypeOK <=> ControlTypes /\ ReadTypes /\ WriteTypes
<1>1. Jobs \X (1 .. BlockBytes) = Byte
  BY DEF Byte
<1> QED BY <1>1 DEF TypeOK, ControlTypes, ReadTypes, WriteTypes, Send

\* What the constants are.
LEMMA Numbers ==
  /\ BlockBytes \in Nat /\ BlockBytes >= 1 /\ MaxIterations \in Nat /\ MaxIterations >= 1
  /\ JobBound \in Nat /\ LineBound \in Nat
BY BackendAssumption

\* The types hold in a backend that was never opened.
LEMMA InitTypes == Init => ControlTypes /\ ReadTypes /\ WriteTypes
<1> SUFFICES ASSUME Init PROVE ControlTypes /\ ReadTypes /\ WriteTypes
  OBVIOUS
<1>1. ControlTypes
  BY DEF Init, ControlTypes
<1>2. ReadTypes
  <2>1. read = Idle /\ arrived = 0 /\ delivered = 0 /\ fault = FALSE
    BY DEF Init
  <2>2. Idle \in [state : {"none", "pending", "ok", "failed"}, moved : 0 .. LineBound]
    BY Numbers DEF Idle
  <2>3. 0 \in 0 .. LineBound
    BY Numbers
  <2> QED BY <2>1, <2>2, <2>3 DEF ReadTypes
<1>3. WriteTypes
  <2>1. sends \in Seq(Send) /\ wire \in Seq(Byte)
    BY DEF Init
  <2>2. written \in [Jobs -> -1 .. BlockBytes]
    BY Numbers DEF Init
  <2>3. /\ status = Nothing /\ waiting = 0 /\ writerStop = FALSE /\ job = 0
        /\ total = 0 /\ iteration = 0 /\ stray = FALSE
    BY DEF Init
  <2>4. Nothing \in [state : {"none", "pending", "ok", "failed"}, count : 0 .. BlockBytes]
    BY Numbers DEF Nothing
  <2>5. 0 \in 0 .. BlockBytes /\ 0 \in 0 .. JobBound /\ 0 \in 0 .. MaxIterations
    BY Numbers
  <2> QED BY <2>1, <2>2, <2>3, <2>4, <2>5 DEF WriteTypes
<1> QED BY <1>1, <1>2, <1>3

\* Places, flags and events keep their types.
LEMMA ControlStep == ControlTypes /\ [Next]_vars => ControlTypes'
<1> SUFFICES ASSUME ControlTypes, [Next]_vars PROVE ControlTypes'
  OBVIOUS
<1> USE DEF ControlTypes, threads, handles, readVars, writeVars, ringVars
<1>1. CASE DriverMoves
  BY <1>1 DEF DriverMoves
<1>2. CASE DriverEndsRead
  BY <1>2 DEF DriverEndsRead
<1>3. CASE DriverSends
  BY <1>3 DEF DriverSends
<1>4. CASE DriverEndsSend
  BY <1>4 DEF DriverEndsSend
<1>5. CASE ReaderLoop
  BY <1>5 DEF ReaderLoop, Reads
<1>6. CASE ReaderIssue
  BY <1>6 DEF ReaderIssue, Reads
<1>7. CASE ReaderArms
  BY <1>7 DEF ReaderArms, Reads
<1>8. CASE ReaderWakes
  BY <1>8 DEF ReaderWakes, Reads
<1>9. CASE ReaderGivesUp
  BY <1>9 DEF ReaderGivesUp, Reads
<1>10. CASE ReaderDecides
  BY <1>10 DEF ReaderDecides, Reads
<1>11. CASE ReaderReaps
  BY <1>11 DEF ReaderReaps, Reads
<1>12. CASE ReaderFails
  BY <1>12 DEF ReaderFails, Reads
<1>13. CASE WriterTests
  BY <1>13 DEF WriterTests, Writes
<1>14. CASE WriterPops
  BY <1>14 DEF WriterPops, Writes
<1>15. CASE WriterChecks
  BY <1>15 DEF WriterChecks, Writes
<1>16. CASE WriterIssues
  BY <1>16 DEF WriterIssues, Writes, Advances, Returns
<1>17. CASE WriterStores
  BY <1>17 DEF WriterStores, Writes
<1>18. CASE WriterWaits
  BY <1>18 DEF WriterWaits, Writes
<1>19. CASE WriterCancels
  BY <1>19 DEF WriterCancels, Writes
<1>20. CASE WriterSettles
  BY <1>20 DEF WriterSettles, Writes
<1>21. CASE WriterReaps
  <2>1. writer' \in {"issue", "done"}
    BY <1>21 DEF WriterReaps, Writes, Advances
  <2>2. inFlight' \in BOOLEAN
    BY <1>21 DEF WriterReaps
  <2>3. UNCHANGED <<dispatcher, reader, port, open, stop, events, bounded>>
    BY <1>21 DEF WriterReaps, Writes, Advances
  <2> QED BY <2>1, <2>2, <2>3
<1>22. CASE OpenFails
  BY <1>22 DEF OpenFails, Goes
<1>23. CASE Open
  BY <1>23 DEF Open, Goes
<1>24. CASE StartWriter
  BY <1>24 DEF StartWriter, Goes
<1>25. CASE Enqueue
  BY <1>25 DEF Enqueue, Goes
<1>26. CASE BeginClose
  BY <1>26 DEF BeginClose, Goes
<1>27. CASE AbortLooks
  BY <1>27 DEF AbortLooks, Goes
<1>28. CASE Grace
  BY <1>28 DEF Grace, Goes
<1>29. CASE Cut
  BY <1>29 DEF Cut, Goes
<1>30. CASE StopWriter
  BY <1>30 DEF StopWriter, Goes
<1>31. CASE Halt
  <2>0. UNCHANGED <<reader, writer, port, open, inFlight, bounded>>
    BY <1>31 DEF Halt
  <2>1. CASE Goes("halt", "signal")
    <3>1. dispatcher' = "signal" /\ stop' \in BOOLEAN /\ UNCHANGED events
      BY <1>31, <2>1 DEF Halt, Goes
    <3> QED BY <2>0, <3>1
  <2>2. CASE Goes("signal", "joinReader")
    <3>1. dispatcher' = "joinReader" /\ events' = events \cup {"stop"} /\ UNCHANGED stop
      BY <1>31, <2>2 DEF Halt, Goes
    <3> QED BY <2>0, <3>1
  <2> QED BY <1>31, <2>1, <2>2 DEF Halt
<1>32. CASE CloseEnds
  BY <1>32 DEF CloseEnds, Goes
<1>33. CASE UNCHANGED vars
  BY <1>33 DEF vars
<1> QED BY <1>1, <1>2, <1>3, <1>4, <1>5, <1>6, <1>7, <1>8, <1>9, <1>10, <1>11, <1>12, <1>13,
           <1>14, <1>15, <1>16, <1>17, <1>18, <1>19, <1>20, <1>21, <1>22, <1>23, <1>24, <1>25,
           <1>26, <1>27, <1>28, <1>29, <1>30, <1>31, <1>32, <1>33
           DEF Next, Driver, Reader, Writer, Closing

-----------------------------------------------------------------------------
(* The read thread.                                                        *)

\* Everybody else leaves what is read alone.
LEMMA OthersRead ==
  Next => \/ Reader \/ DriverMoves \/ DriverEndsRead \/ Open \/ CloseEnds
          \/ UNCHANGED <<readVars, reader>>
<1> USE DEF threads, handles, readVars, writeVars, ringVars
<1>1. ASSUME DriverSends \/ DriverEndsSend PROVE UNCHANGED <<readVars, reader>>
  BY <1>1 DEF DriverSends, DriverEndsSend
<1>2. ASSUME WriterTests \/ WriterPops \/ WriterChecks \/ WriterIssues
      PROVE UNCHANGED <<readVars, reader>>
  BY <1>2 DEF WriterTests, WriterPops, WriterChecks, WriterIssues, Writes, Advances
<1>3. ASSUME WriterStores \/ WriterWaits \/ WriterCancels \/ WriterSettles \/ WriterReaps
      PROVE UNCHANGED <<readVars, reader>>
  BY <1>3 DEF WriterStores, WriterWaits, WriterCancels, WriterSettles, WriterReaps, Writes, Advances
<1>4. ASSUME OpenFails \/ StartWriter \/ Enqueue \/ BeginClose PROVE UNCHANGED <<readVars, reader>>
  BY <1>4 DEF OpenFails, StartWriter, Enqueue, BeginClose
<1>5. ASSUME AbortLooks \/ Grace \/ Cut \/ StopWriter \/ Halt PROVE UNCHANGED <<readVars, reader>>
  BY <1>5 DEF AbortLooks, Grace, Cut, StopWriter, Halt
<1> QED BY <1>1, <1>2, <1>3, <1>4, <1>5 DEF Next, Driver, Writer, Closing

\* Who stops, opens and signals.
\* Steps that neither stop nor signal.
SameStop ==
  /\ UNCHANGED <<port, open, stop>> /\ events' \ {"write"} = events \ {"write"}
  /\ dispatcher' \in {"signal", "joinReader"} => dispatcher' = dispatcher
\* Who stops, opens and signals: nobody else.
LEMMA OthersSignal ==
  Next => \/ Reader \/ DriverEndsRead \/ Open \/ CloseEnds \/ OpenFails \/ Halt
          \/ SameStop
<1> USE DEF threads, handles, readVars, writeVars, ringVars, SameStop
<1>1. ASSUME DriverMoves \/ DriverSends \/ DriverEndsSend
      PROVE SameStop
  BY <1>1 DEF DriverMoves, DriverSends, DriverEndsSend
<1>2. ASSUME WriterTests \/ WriterPops \/ WriterChecks \/ WriterIssues
      PROVE SameStop
  BY <1>2 DEF WriterTests, WriterPops, WriterChecks, WriterIssues, Writes, Advances
<1>3. ASSUME WriterStores \/ WriterWaits \/ WriterCancels \/ WriterSettles \/ WriterReaps
      PROVE SameStop
  BY <1>3 DEF WriterStores, WriterWaits, WriterCancels, WriterSettles, WriterReaps, Writes, Advances
<1>4. ASSUME StartWriter \/ Enqueue \/ BeginClose
      PROVE SameStop
  BY <1>4 DEF StartWriter, Enqueue, BeginClose, Goes
<1>5. ASSUME AbortLooks \/ Grace \/ Cut \/ StopWriter
      PROVE SameStop
  BY <1>5 DEF AbortLooks, Grace, Cut, StopWriter, Goes
<1> QED BY <1>1, <1>2, <1>3, <1>4, <1>5 DEF Next, Driver, Writer, Closing

\* The bytes of a read keep to the bound: moved is arrived less delivered.
LEMMA ReadTypesStep ==
  ReadTypes /\ ReaderAtPlace /\ [Next]_vars => ReadTypes'
<1> SUFFICES ASSUME ReadTypes, ReaderAtPlace, [Next]_vars PROVE ReadTypes'
  OBVIOUS
<1> USE Numbers DEF ReadTypes, readVars
<1>0. arrived = delivered + read.moved
  BY DEF ReaderAtPlace
<1>1. CASE DriverMoves \/ DriverEndsRead
  BY <1>0, <1>1 DEF DriverMoves, DriverEndsRead
<1>2. CASE ReaderIssue
  BY <1>2 DEF ReaderIssue, ReaderAtPlace, Idle, Reads
<1>3. CASE ReaderReaps
  BY <1>0, <1>3 DEF ReaderReaps, Idle
<1>4. CASE ReaderLoop \/ ReaderArms \/ ReaderWakes \/ ReaderGivesUp \/ ReaderDecides \/ ReaderFails
  BY <1>4 DEF ReaderLoop, ReaderArms, ReaderWakes, ReaderGivesUp, ReaderDecides, ReaderFails
<1>5. CASE Open \/ CloseEnds
  <2>1. UNCHANGED <<read, arrived, delivered, fault>>
        \/ (read' = Idle /\ arrived' = 0 /\ delivered' = 0 /\ fault' = FALSE)
    BY <1>5 DEF Open, CloseEnds, EndOfHistory
  <2>2. /\ Idle \in [state : {"none", "pending", "ok", "failed"}, moved : 0 .. LineBound]
        /\ 0 \in 0 .. LineBound
    BY DEF Idle
  <2> QED BY <2>1, <2>2
<1>6. CASE UNCHANGED <<readVars, reader>> \/ UNCHANGED vars
  BY <1>6 DEF vars
<1> QED BY <1>1, <1>2, <1>3, <1>4, <1>5, <1>6, OthersRead DEF Reader

\* Each step of the read thread, the driver and close keeps ReaderAtPlace: the count of
\* bytes, and what the events say of the request and of the stop flag.
LEMMA ReaderStep == ReadsInv /\ [Next]_vars => ReaderAtPlace'
<1> SUFFICES ASSUME ReadsInv, [Next]_vars PROVE ReaderAtPlace'
  OBVIOUS
<1> USE Numbers DEF ReadsInv, ReaderAtPlace, readVars, handles, threads
<1>1. CASE DriverMoves \/ DriverEndsRead
  BY <1>1 DEF DriverMoves, DriverEndsRead, ReadTypes, Idle
<1>2. CASE ReaderIssue
  BY <1>2 DEF ReaderIssue, ReadTypes, Idle, Reads
<1>3. CASE ReaderReaps
  BY <1>3 DEF ReaderReaps, ReadTypes, Idle, Reads
<1>4. CASE ReaderLoop \/ ReaderArms \/ ReaderWakes
  BY <1>4 DEF ReaderLoop, ReaderArms, ReaderWakes, Reads
<1>5. CASE ReaderGivesUp \/ ReaderDecides \/ ReaderFails
  BY <1>5 DEF ReaderGivesUp, ReaderDecides, ReaderFails, Reads
<1>6. CASE Open
  BY <1>6 DEF Open, SessionAtPlace, Goes
<1>7. CASE CloseEnds
  <2>1. /\ read' = Idle /\ arrived' = 0 /\ delivered' = 0 /\ fault' = FALSE /\ events' = {}
        /\ reader = "none" /\ reader' = reader /\ dispatcher' = "closed"
    BY <1>7 DEF CloseEnds, EndOfHistory, Goes
  <2> QED BY <2>1 DEF Idle
<1>8. CASE OpenFails \/ Halt
  <2>1. /\ UNCHANGED <<read, arrived, delivered, fault, reader>>
        /\ stop' = stop \/ stop' = TRUE
        /\ events' = events \/ (events' = events \cup {"stop"} /\ dispatcher = "signal")
        /\ dispatcher' \in {"signal", "joinReader"} => dispatcher = "signal" \/ stop'
    BY <1>8 DEF OpenFails, Halt, Goes, SessionAtPlace
  <2>2. stop => stop'
    BY <2>1 DEF ControlTypes
  <2>3. "stop" \in events' \/ reader' = "decide" \/ dispatcher' \in {"signal", "joinReader"} => stop'
    BY <2>1, <2>2
  <2> QED BY <2>1, <2>3
<1>9. CASE UNCHANGED <<readVars, reader>> /\ SameStop
  BY <1>9 DEF SameStop
<1>10. CASE UNCHANGED vars
  BY <1>10 DEF vars
<1> QED BY <1>1, <1>2, <1>3, <1>4, <1>5, <1>6, <1>7, <1>8, <1>9, <1>10, OthersRead, OthersSignal
           DEF Reader

\* A read thread that ends was stopped, or it has reported its fault.
LEMMA GoneStep == ReadsInv /\ [Next]_vars => ReaderGoneIsKnown'
<1> SUFFICES ASSUME ReadsInv, [Next]_vars PROVE ReaderGoneIsKnown'
  OBVIOUS
<1> USE DEF ReadsInv, ReaderAtPlace, ReaderGoneIsKnown, readVars, handles, threads
<1>1. CASE DriverMoves \/ DriverEndsRead
  BY <1>1 DEF DriverMoves, DriverEndsRead
<1>2. CASE ReaderIssue \/ ReaderReaps \/ ReaderLoop \/ ReaderArms \/ ReaderWakes
  BY <1>2 DEF ReaderIssue, ReaderReaps, ReaderLoop, ReaderArms, ReaderWakes, Reads
<1>3. CASE ReaderGivesUp \/ ReaderDecides \/ ReaderFails
  BY <1>3 DEF ReaderGivesUp, ReaderDecides, ReaderFails, Reads
<1>4. CASE Open \/ CloseEnds \/ OpenFails \/ Halt
  BY <1>4 DEF Open, CloseEnds, OpenFails, Halt
<1>5. CASE UNCHANGED <<readVars, reader>> /\ SameStop
  BY <1>5 DEF SameStop
<1>6. CASE UNCHANGED vars
  BY <1>6 DEF vars
<1> QED BY <1>1, <1>2, <1>3, <1>4, <1>5, <1>6, OthersRead, OthersSignal DEF Reader

\* open and close take the threads and the ring along.
LEMMA SessionStep == ReadsInv /\ WriteTypes /\ [Next]_vars => SessionAtPlace'
<1> SUFFICES ASSUME ReadsInv, WriteTypes, [Next]_vars PROVE SessionAtPlace'
  OBVIOUS
<1> USE DEF ReadsInv, SessionAtPlace, NoWriter, readVars, handles, threads, ringVars, writeVars
<1>1. CASE Driver
  BY <1>1 DEF Driver, DriverMoves, DriverEndsRead, DriverSends, DriverEndsSend
<1>2. CASE ReaderLoop \/ ReaderIssue \/ ReaderArms \/ ReaderWakes
  BY <1>2 DEF ReaderLoop, ReaderIssue, ReaderArms, ReaderWakes, Reads
<1>3. CASE ReaderGivesUp \/ ReaderDecides \/ ReaderReaps \/ ReaderFails
  BY <1>3 DEF ReaderGivesUp, ReaderDecides, ReaderReaps, ReaderFails, Reads
<1>4. CASE WriterTests \/ WriterPops \/ WriterChecks
  BY <1>4 DEF WriterTests, WriterPops, WriterChecks, Writes
<1>5. CASE WriterIssues
  BY <1>5 DEF WriterIssues, Writes, Advances, Returns
<1>6. CASE WriterStores \/ WriterWaits \/ WriterCancels \/ WriterSettles
  BY <1>6 DEF WriterStores, WriterWaits, WriterCancels, WriterSettles, Writes
<1>7. CASE WriterReaps
  BY <1>7 DEF WriterReaps, Writes, Advances, Returns
<1>8. CASE OpenFails \/ Open \/ StartWriter \/ Enqueue \/ BeginClose
  BY <1>8 DEF OpenFails, Open, StartWriter, Enqueue, BeginClose, Goes
<1>9. CASE AbortLooks \/ Grace \/ Cut
  BY <1>9 DEF AbortLooks, Grace, Cut, Goes
<1>10. CASE StopWriter \/ Halt \/ CloseEnds
  BY <1>10 DEF StopWriter, Halt, CloseEnds, EndOfHistory, Goes
<1>11. CASE UNCHANGED vars
  BY <1>11 DEF vars
<1> QED BY <1>1, <1>2, <1>3, <1>4, <1>5, <1>6, <1>7, <1>8, <1>9, <1>10, <1>11
           DEF Next, Reader, Writer, Closing

-----------------------------------------------------------------------------
(* The requests the driver has.                                            *)

\* CancelIoEx marks the requests and changes nothing else of them.
LEMMA CancelKeeps ==
  sends \in Seq(Send) =>
    /\ Cancelled \in Seq(Send) /\ Len(Cancelled) = Len(sends)
    /\ Cancelled = <<>> <=> sends = <<>>
    /\ \A i \in DOMAIN sends : /\ Cancelled[i].first = sends[i].first
                               /\ Cancelled[i].next = sends[i].next
                               /\ Cancelled[i].job = sends[i].job
<1> SUFFICES ASSUME sends \in Seq(Send)
    PROVE  /\ Cancelled \in Seq(Send) /\ Len(Cancelled) = Len(sends)
           /\ Cancelled = <<>> <=> sends = <<>>
           /\ \A i \in DOMAIN sends : /\ Cancelled[i].first = sends[i].first
                                      /\ Cancelled[i].next = sends[i].next
                                      /\ Cancelled[i].job = sends[i].job
  OBVIOUS
<1>1. \A i \in DOMAIN sends : Cancelled[i] = [sends[i] EXCEPT !.cancelled = TRUE]
  BY DEF Cancelled
<1>2. \A i \in DOMAIN sends : sends[i] \in Send
  OBVIOUS
<1>3. \A i \in DOMAIN sends : Cancelled[i] \in Send
  BY <1>1, <1>2 DEF Send
<1>4. DOMAIN Cancelled = 1 .. Len(sends) /\ Len(sends) \in Nat
  BY DEF Cancelled
<1>5. Cancelled = [i \in 1 .. Len(sends) |-> Cancelled[i]]
  BY DEF Cancelled
<1>6. Cancelled \in [1 .. Len(sends) -> Send]
  <2>1. \A i \in 1 .. Len(sends) : Cancelled[i] \in Send
    BY <1>3, <1>4
  <2> HIDE DEF Cancelled
  <2> QED BY <2>1, <1>5
<1>7. Cancelled \in Seq(Send) /\ Len(Cancelled) = Len(sends)
  BY <1>4, <1>6
<1>8. Cancelled = <<>> <=> sends = <<>>
  BY <1>7
<1> QED BY <1>1, <1>2, <1>7, <1>8 DEF Send

\* The oldest request sends a byte.
LEMMA OneMoreOut ==
  sends \in Seq(Send) /\ sends # <<>> /\ Head(sends).next <= BlockBytes =>
    LET s == [sends EXCEPT ![1].next = @ + 1]
    IN  /\ s \in Seq(Send) /\ Len(s) = Len(sends)
        /\ s[1].next = sends[1].next + 1 /\ s[1].job = sends[1].job /\ s[1].first = sends[1].first
        /\ \A i \in DOMAIN sends : i # 1 => s[i] = sends[i]
<1> SUFFICES ASSUME sends \in Seq(Send), sends # <<>>, Head(sends).next <= BlockBytes
    PROVE  LET s == [sends EXCEPT ![1].next = @ + 1]
           IN  /\ s \in Seq(Send) /\ Len(s) = Len(sends)
               /\ s[1].next = sends[1].next + 1 /\ s[1].job = sends[1].job
               /\ s[1].first = sends[1].first
               /\ \A i \in DOMAIN sends : i # 1 => s[i] = sends[i]
  OBVIOUS
<1> DEFINE s == [sends EXCEPT ![1].next = @ + 1]
<1>1. 1 \in DOMAIN sends /\ sends[1] \in Send /\ Head(sends) = sends[1] /\ Len(sends) \in Nat
      /\ DOMAIN sends = 1 .. Len(sends)
  OBVIOUS
<1>2. s = [sends EXCEPT ![1] = [sends[1] EXCEPT !.next = sends[1].next + 1]]
  BY <1>1
<1>3. [sends[1] EXCEPT !.next = sends[1].next + 1] \in Send
  <2>1. sends[1].next + 1 \in 1 .. BlockBytes + 1
    BY <1>1, Numbers DEF Send
  <2> QED BY <1>1, <2>1 DEF Send
<1>4. s \in Seq(Send) /\ Len(s) = Len(sends)
  BY <1>1, <1>2, <1>3
<1>5. s[1] = [sends[1] EXCEPT !.next = sends[1].next + 1]
  BY <1>1, <1>2
<1>6. /\ s[1].next = sends[1].next + 1 /\ s[1].job = sends[1].job
      /\ s[1].first = sends[1].first
  BY <1>1, <1>5 DEF Send
<1>7. \A i \in DOMAIN sends : i # 1 => s[i] = sends[i]
  BY <1>1, <1>2
<1> QED BY <1>4, <1>6, <1>7

\* The sends as they are, or cancelled.
SameSends ==
  /\ UNCHANGED <<status, job, total, iteration, wire, written, stray>>
  /\ sends' \in {sends, Cancelled}
\* Everybody else leaves the sends alone, or only cancels them.
LEMMA OthersSend ==
  Next => \/ Writer \/ DriverSends \/ DriverEndsSend \/ CloseEnds
          \/ SameSends /\ (writer' = writer \/ StartWriter)
<1> USE DEF threads, handles, readVars, writeVars, ringVars, SameSends
<1>1. ASSUME DriverMoves \/ DriverEndsRead PROVE SameSends /\ writer' = writer
  BY <1>1 DEF DriverMoves, DriverEndsRead
<1>2. ASSUME ReaderLoop \/ ReaderIssue \/ ReaderArms \/ ReaderWakes
      PROVE SameSends /\ writer' = writer
  BY <1>2 DEF ReaderLoop, ReaderIssue, ReaderArms, ReaderWakes, Reads
<1>3. ASSUME ReaderGivesUp \/ ReaderDecides \/ ReaderReaps \/ ReaderFails
      PROVE SameSends /\ writer' = writer
  BY <1>3 DEF ReaderGivesUp, ReaderDecides, ReaderReaps, ReaderFails, Reads
<1>4. ASSUME OpenFails \/ Open \/ Enqueue \/ BeginClose
      PROVE SameSends /\ writer' = writer
  BY <1>4 DEF OpenFails, Open, Enqueue, BeginClose
<1>5. ASSUME StartWriter PROVE SameSends
  BY <1>5 DEF StartWriter
<1>6. ASSUME AbortLooks \/ Grace \/ Cut \/ StopWriter \/ Halt
      PROVE SameSends /\ writer' = writer
  BY <1>6 DEF AbortLooks, Grace, Cut, StopWriter, Halt
<1> QED BY <1>1, <1>2, <1>3, <1>4, <1>5, <1>6 DEF Next, Driver, Reader, Closing

\* The ring and the flag of the writer.
LEMMA OthersQueue ==
  Next => \/ Writer \/ Enqueue \/ StartWriter \/ StopWriter \/ UNCHANGED ringVars
<1> USE DEF threads, handles, readVars, writeVars, ringVars
<1>1. ASSUME Driver PROVE UNCHANGED ringVars
  BY <1>1 DEF Driver, DriverMoves, DriverEndsRead, DriverSends, DriverEndsSend
<1>2. ASSUME ReaderLoop \/ ReaderIssue \/ ReaderArms \/ ReaderWakes
      PROVE UNCHANGED ringVars
  BY <1>2 DEF ReaderLoop, ReaderIssue, ReaderArms, ReaderWakes, Reads
<1>3. ASSUME ReaderGivesUp \/ ReaderDecides \/ ReaderReaps \/ ReaderFails
      PROVE UNCHANGED ringVars
  BY <1>3 DEF ReaderGivesUp, ReaderDecides, ReaderReaps, ReaderFails, Reads
<1>4. ASSUME OpenFails \/ Open \/ BeginClose PROVE UNCHANGED ringVars
  BY <1>4 DEF OpenFails, Open, BeginClose
<1>5. ASSUME AbortLooks \/ Grace \/ Cut \/ Halt \/ CloseEnds PROVE UNCHANGED ringVars
  BY <1>5 DEF AbortLooks, Grace, Cut, Halt, CloseEnds
<1> QED BY <1>1, <1>2, <1>3, <1>4, <1>5 DEF Next, Reader, Closing

\* The types of the write side, by what changes together.
RingTypes == waiting \in 0 .. JobBound /\ writerStop \in BOOLEAN /\ job \in 0 .. JobBound
SendTypes ==
  /\ sends \in Seq(Send)
  /\ status \in [state : {"none", "pending", "ok", "failed"}, count : 0 .. BlockBytes]
LocalTypes == total \in 0 .. BlockBytes /\ iteration \in 0 .. MaxIterations
WireTypes == wire \in Seq(Byte) /\ written \in [Jobs -> -1 .. BlockBytes] /\ stray \in BOOLEAN

\* WriteTypes is these four.
LEMMA WriteTypesSplit == WriteTypes <=> RingTypes /\ SendTypes /\ LocalTypes /\ WireTypes
BY DEF WriteTypes, RingTypes, SendTypes, LocalTypes, WireTypes

\* Blocks queued and blocks taken stay below the bound.
LEMMA RingStep == RingTypes /\ job + waiting <= JobBound /\ [Next]_vars => RingTypes'
<1> SUFFICES ASSUME RingTypes, job + waiting <= JobBound, [Next]_vars PROVE RingTypes'
  OBVIOUS
<1> USE Numbers DEF RingTypes, writeVars, ringVars
<1>1. CASE WriterTests \/ WriterPops
  BY <1>1 DEF WriterTests, WriterPops
<1>2. CASE WriterChecks \/ WriterIssues \/ WriterStores \/ WriterWaits
  BY <1>2 DEF WriterChecks, WriterIssues, WriterStores, WriterWaits
<1>3. CASE WriterCancels \/ WriterSettles \/ WriterReaps
  BY <1>3 DEF WriterCancels, WriterSettles, WriterReaps
<1>4. CASE DriverSends \/ DriverEndsSend
  BY <1>4 DEF DriverSends, DriverEndsSend
<1>5. CASE Enqueue \/ StartWriter \/ StopWriter
  <2>1. job' = job /\ writerStop' \in {writerStop, TRUE, FALSE}
    BY <1>5 DEF Enqueue, StartWriter, StopWriter
  <2>2. waiting' \in {waiting, 0} \/ (job + waiting < JobBound /\ waiting' = waiting + 1)
    BY <1>5 DEF Enqueue, StartWriter, StopWriter
  <2>3. waiting' \in 0 .. JobBound
    BY <2>2
  <2> QED BY <2>1, <2>3
<1>6. CASE CloseEnds
  BY <1>6 DEF CloseEnds, EndOfHistory
<1>7. CASE SameSends /\ UNCHANGED ringVars
  BY <1>7 DEF SameSends
<1>8. CASE UNCHANGED vars
  BY <1>8 DEF vars
<1> QED BY <1>1, <1>2, <1>3, <1>4, <1>5, <1>6, <1>7, <1>8, OthersSend, OthersQueue DEF Writer

\* A request as WriteFile issues it.
LEMMA NewSend ==
  ASSUME SendTypes, job \in Jobs, total \in Nat, total < BlockBytes
  PROVE  LET s == [job |-> job, first |-> total + 1, next |-> total + 1, cancelled |-> FALSE]
         IN s \in Send /\ Append(sends, s) \in Seq(Send)
BY Numbers DEF SendTypes, Send

\* A completion counts at most the bytes of a block, since a request has sent no less
\* than nothing.
LEMMA SendTypesStep ==
  SendTypes /\ LocalTypes /\ WriterAtPlace /\ [Next]_vars => SendTypes'
<1> SUFFICES ASSUME SendTypes, LocalTypes, WriterAtPlace, [Next]_vars PROVE SendTypes'
  OBVIOUS
<1>0. sends \in Seq(Send)
  BY DEF SendTypes
<1> USE DEF writeVars
<1>1. CASE WriterTests \/ WriterPops \/ WriterChecks \/ WriterStores \/ WriterWaits
  BY <1>1 DEF WriterTests, WriterPops, WriterChecks, WriterStores, WriterWaits, SendTypes
<1>2. CASE WriterIssues
  <2>1. total \in Nat /\ (writer = "issue" => job \in Jobs /\ total < BlockBytes)
    BY Numbers DEF LocalTypes, WriterAtPlace, Between
  <2>2. \/ UNCHANGED <<sends, status>>
        \/ /\ sends' = Append(sends, [job |-> job, first |-> total + 1, next |-> total + 1,
                                      cancelled |-> FALSE])
           /\ status' = [state |-> "pending", count |-> 0] /\ writer = "issue"
    BY <1>2 DEF WriterIssues, Writes
  <2>3. CASE UNCHANGED <<sends, status>>
    BY <2>3 DEF SendTypes
  <2>4. CASE ~UNCHANGED <<sends, status>>
    <3>1. sends' \in Seq(Send)
      BY <2>1, <2>2, <2>4, NewSend
    <3>2. status' = [state |-> "pending", count |-> 0] /\ 0 \in 0 .. BlockBytes
      BY <2>2, <2>4, Numbers
    <3> QED BY <3>1, <3>2 DEF SendTypes
  <2> QED BY <2>3, <2>4
<1>3. CASE WriterCancels
  BY <1>0, <1>3, CancelKeeps DEF WriterCancels, SendTypes
<1>4. CASE WriterSettles \/ WriterReaps
  BY <1>4 DEF WriterSettles, WriterReaps, SendTypes
<1>5. CASE DriverSends
  BY <1>0, <1>5, OneMoreOut DEF DriverSends, SendTypes
<1>6. CASE DriverEndsSend
  <2>1. sends # <<>> /\ sends' = Tail(sends)
        /\ \E state \in {"ok", "failed"} :
             status' = [state |-> state, count |-> Head(sends).next - Head(sends).first]
    BY <1>6 DEF DriverEndsSend
  <2>2. Head(sends) \in Send /\ Tail(sends) \in Seq(Send) /\ 1 \in DOMAIN sends /\ Head(sends) = sends[1]
    BY <1>0, <2>1
  <2>3. sends[1].first <= sends[1].next
    BY <2>2 DEF WriterAtPlace
  <2>4. Head(sends).next - Head(sends).first \in 0 .. BlockBytes
    BY <2>2, <2>3, Numbers DEF Send
  <2> QED BY <2>1, <2>2, <2>4 DEF SendTypes
<1>7. CASE CloseEnds
  BY <1>7, Numbers DEF CloseEnds, SendTypes, Nothing
<1>8. CASE SameSends
  BY <1>0, <1>8, CancelKeeps DEF SameSends, SendTypes
<1>9. CASE UNCHANGED vars
  BY <1>9 DEF vars, SendTypes
<1> QED BY <1>1, <1>2, <1>3, <1>4, <1>5, <1>6, <1>7, <1>8, <1>9, OthersSend DEF Writer

\* total and iteration of write() keep to their limits: the count is clamped.
LEMMA LocalStep == LocalTypes /\ SendTypes /\ [Next]_vars => LocalTypes'
<1> SUFFICES ASSUME LocalTypes, SendTypes, [Next]_vars PROVE LocalTypes'
  OBVIOUS
<1> USE Numbers DEF LocalTypes, writeVars
<1>1. CASE WriterTests \/ WriterPops \/ WriterChecks \/ WriterStores \/ WriterWaits
  BY <1>1 DEF WriterTests, WriterPops, WriterChecks, WriterStores, WriterWaits
<1>2. CASE WriterIssues
  BY <1>2 DEF WriterIssues, Advances
<1>3. CASE WriterCancels \/ WriterSettles
  BY <1>3 DEF WriterCancels, WriterSettles
<1>4. CASE WriterReaps
  <2>1. status.count \in 0 .. BlockBytes
    BY DEF SendTypes
  <2> QED BY <1>4, <2>1 DEF WriterReaps, Advances
<1>5. CASE DriverSends \/ DriverEndsSend
  BY <1>5 DEF DriverSends, DriverEndsSend
<1>6. CASE CloseEnds
  BY <1>6 DEF CloseEnds
<1>7. CASE SameSends
  BY <1>7 DEF SameSends
<1>8. CASE UNCHANGED vars
  BY <1>8 DEF vars
<1> QED BY <1>1, <1>2, <1>3, <1>4, <1>5, <1>6, <1>7, <1>8, OthersSend DEF Writer

-----------------------------------------------------------------------------
(* The session writer.                                                     *)

\* What the writer may put on the wire at once.
LEMMA WholeTake ==
  ASSUME job \in Jobs, total \in 0 .. BlockBytes, NEW n \in 0 .. BlockBytes - total,
         wire \in Seq(Byte)
  PROVE  /\ [i \in 1 .. n |-> <<job, total + i>>] \in Seq(Byte)
         /\ wire \o [i \in 1 .. n |-> <<job, total + i>>] \in Seq(Byte)
<1> DEFINE e == [i \in 1 .. n |-> <<job, total + i>>]
<1>1. n \in Nat
  BY Numbers
<1>2. \A i \in 1 .. n : <<job, total + i>> \in Byte
  BY Numbers DEF Byte
<1>3. e \in [1 .. n -> Byte]
  BY <1>2
<1> HIDE DEF e
<1>4. e \in Seq(Byte)
  BY <1>1, <1>3
<1>5. wire \o e \in Seq(Byte)
  BY <1>4
<1> QED BY <1>4, <1>5 DEF e

\* Only bytes of blocks go out, and no more than a block is reported.
LEMMA WireTypesStep ==
  WriteTypes /\ WriterAtPlace /\ [Next]_vars => WireTypes'
<1> SUFFICES ASSUME WriteTypes, WriterAtPlace, [Next]_vars PROVE WireTypes'
  OBVIOUS
<1>0. SendTypes /\ LocalTypes /\ wire \in Seq(Byte) /\ written \in [Jobs -> -1 .. BlockBytes] /\ stray \in BOOLEAN
  BY WriteTypesSplit DEF WireTypes
<1>a. total \in 0 .. BlockBytes
  BY <1>0 DEF LocalTypes
<1>b. ASSUME NEW n \in 0 .. BlockBytes, Returns(n)
      PROVE  written' \in [Jobs -> -1 .. BlockBytes] /\ stray' \in BOOLEAN
  <2>1. n \in -1 .. BlockBytes
    BY Numbers
  <2> QED BY <1>0, <1>b, <2>1 DEF Returns
<1> USE DEF writeVars
<1>1. CASE WriterTests \/ WriterPops \/ WriterStores \/ WriterWaits \/ WriterCancels
  BY <1>0, <1>1 DEF WriterTests, WriterPops, WriterStores, WriterWaits, WriterCancels, WireTypes
<1>2. CASE WriterChecks
  <2>1. UNCHANGED <<wire, stray>> /\ written' \in {written, [written EXCEPT ![job] = 0]}
    BY <1>2 DEF WriterChecks
  <2>2. 0 \in -1 .. BlockBytes
    BY Numbers
  <2> QED BY <1>0, <2>1, <2>2 DEF WireTypes
<1>3. CASE WriterIssues
  <2>1. CASE /\ Writes("issue", "done") /\ Returns(total)
             /\ UNCHANGED <<sends, status, total, iteration, wire>>
    BY <1>0, <1>a, <1>b, <2>1 DEF WireTypes
  <2>2. CASE UNCHANGED <<total, iteration, wire, written, stray>>
    BY <1>0, <2>2 DEF WireTypes
  <2>3. ASSUME NEW n \in 0 .. BlockBytes - total,
               sends = <<>> /\ Advances("issue", n),
               wire' = wire \o [i \in 1 .. n |-> <<job, total + i>>]
        PROVE  WireTypes'
    <3>1. writer = "issue"
      BY <2>3 DEF Advances, Writes
    <3>2. job \in Jobs
      BY <3>1 DEF WriterAtPlace, Between
    <3>3. wire' \in Seq(Byte)
      BY <1>0, <1>a, <2>3, <3>2, WholeTake
    <3>4. total + n \in 0 .. BlockBytes
      BY <1>a, Numbers
    <3>5. UNCHANGED <<written, stray>> \/ Returns(total + n)
      BY <2>3 DEF Advances
    <3> QED BY <1>0, <1>b, <3>3, <3>4, <3>5 DEF WireTypes
  <2> QED BY <1>3, <2>1, <2>2, <2>3 DEF WriterIssues
<1>4. CASE WriterSettles
  BY <1>0, <1>a, <1>b, <1>4 DEF WriterSettles, WireTypes
<1>5. CASE WriterReaps
  <2> DEFINE n == IF status.count < BlockBytes - total THEN status.count ELSE BlockBytes - total
  <2>1. status.count \in 0 .. BlockBytes
    BY <1>0 DEF SendTypes
  <2>2. total + n \in 0 .. BlockBytes
    BY <1>a, <2>1, Numbers
  <2>3. wire' = wire /\ (Advances("reap", n) \/ Returns(total))
    BY <1>5 DEF WriterReaps
  <2> HIDE DEF n
  <2>4. UNCHANGED <<written, stray>> \/ Returns(total + n) \/ Returns(total)
    BY <2>3 DEF Advances
  <2> QED BY <1>0, <1>a, <1>b, <2>2, <2>3, <2>4 DEF WireTypes
<1>6. CASE DriverSends
  <2>1. sends # <<>> /\ Head(sends).next <= BlockBytes /\ sends \in Seq(Send)
        /\ wire' = Append(wire, <<Head(sends).job, Head(sends).next>>)
        /\ UNCHANGED <<written, stray>>
    BY <1>0, <1>6 DEF DriverSends, SendTypes
  <2>2. Head(sends) \in Send
    BY <2>1
  <2>3. <<Head(sends).job, Head(sends).next>> \in Byte
    BY <2>1, <2>2, Numbers DEF Send, Byte
  <2> QED BY <1>0, <2>1, <2>3 DEF WireTypes
<1>7. CASE DriverEndsSend
  BY <1>0, <1>7 DEF DriverEndsSend, WireTypes
<1>8. CASE CloseEnds
  <2>1. wire' = <<>> /\ written' = [j \in Jobs |-> -1] /\ stray' = FALSE
    BY <1>8 DEF CloseEnds, EndOfHistory
  <2>2. -1 \in -1 .. BlockBytes
    BY Numbers
  <2>3. [j \in Jobs |-> -1] \in [Jobs -> -1 .. BlockBytes]
    BY <2>2
  <2>4. wire' \in Seq(Byte)
    BY <2>1
  <2> QED BY <2>1, <2>3, <2>4 DEF WireTypes
<1>9. CASE SameSends
  BY <1>0, <1>9 DEF SameSends, WireTypes
<1>10. CASE UNCHANGED vars
  BY <1>0, <1>10 DEF vars, WireTypes
<1> QED BY <1>1, <1>2, <1>3, <1>4, <1>5, <1>6, <1>7, <1>8, <1>9, <1>10, OthersSend DEF Writer

\* The write side keeps its types.
LEMMA WriteTypesStep == WriteTypes /\ WriterAtPlace /\ [Next]_vars => WriteTypes'
<1> SUFFICES ASSUME WriteTypes, WriterAtPlace, [Next]_vars PROVE WriteTypes'
  OBVIOUS
<1>1. RingTypes /\ SendTypes /\ LocalTypes /\ job + waiting <= JobBound
  BY WriteTypesSplit DEF WriterAtPlace
<1>2. RingTypes' /\ SendTypes' /\ LocalTypes' /\ WireTypes'
  BY <1>1, RingStep, SendTypesStep, LocalStep, WireTypesStep
<1> QED BY <1>2 DEF WriteTypes, RingTypes, SendTypes, LocalTypes, WireTypes

\* Each step keeps WriterAtPlace: the writer has a block wherever it works on one, and
\* bytes of it are left wherever it issues an attempt.
LEMMA WriterStep ==
  WriteTypes /\ WriterAtPlace /\ SessionAtPlace /\ [Next]_vars => WriterAtPlace'
<1> SUFFICES ASSUME WriteTypes, WriterAtPlace, SessionAtPlace, [Next]_vars PROVE WriterAtPlace'
  OBVIOUS
<1>0. /\ sends \in Seq(Send) /\ waiting \in 0 .. JobBound /\ job \in 0 .. JobBound
      /\ total \in 0 .. BlockBytes
  BY DEF WriteTypes
<1>a. job + waiting <= JobBound /\ (writer \notin Between => job \in Jobs)
      /\ (writer \in {"check", "issue", "store"} => total < BlockBytes)
      /\ \A i \in DOMAIN sends : sends[i].first <= sends[i].next
  BY DEF WriterAtPlace
<1> USE Numbers DEF Between, writeVars, ringVars
<1>1. CASE WriterTests
  <2>1. /\ writer' \in Between /\ UNCHANGED <<sends, job>> /\ waiting' \in {0, waiting}
    BY <1>1 DEF WriterTests, Writes
  <2>2. job' + waiting' <= JobBound
    BY <1>0, <1>a, <2>1
  <2>3. writer' \notin {"check", "issue", "store"}
    BY <2>1
  <2> QED BY <1>a, <2>1, <2>2, <2>3 DEF WriterAtPlace
<1>2. CASE WriterPops
  <2>1. /\ sends' = sends
        /\ \/ writer' = "wake" /\ UNCHANGED <<waiting, job>>
           \/ writer' = "check" /\ waiting > 0 /\ waiting' = waiting - 1 /\ job' = job + 1 /\ total' = 0
    BY <1>2 DEF WriterPops, Writes
  <2>2. job' + waiting' <= JobBound /\ (writer' \notin Between => job' \in Jobs)
    BY <1>0, <1>a, <2>1 DEF Jobs
  <2>3. writer' \in {"check", "issue", "store"} => total' < BlockBytes
    BY <2>1
  <2> QED BY <1>a, <2>1, <2>2, <2>3 DEF WriterAtPlace
<1>3. CASE WriterChecks
  <2>1. UNCHANGED <<sends, job, waiting, total>> /\ writer = "check"
    BY <1>3 DEF WriterChecks, Writes
  <2> QED BY <1>a, <2>1 DEF WriterAtPlace
<1>4. CASE WriterIssues
  <2>0. writer = "issue" /\ job \in Jobs /\ total < BlockBytes
    BY <1>4, <1>a DEF WriterIssues, Advances, Writes
  <2>1. CASE /\ Writes("issue", "done") /\ Returns(total)
             /\ UNCHANGED <<sends, status, total, iteration, wire>>
    BY <1>4, <1>a, <2>1 DEF WriterIssues, WriterAtPlace, Writes
  <2>2. CASE /\ Writes("issue", "store")
             /\ sends' = Append(sends, [job |-> job, first |-> total + 1, next |-> total + 1,
                                        cancelled |-> FALSE])
             /\ UNCHANGED <<total, iteration, wire, written, stray>>
    <3>1. UNCHANGED <<job, waiting, total>>
      BY <1>4, <2>2 DEF WriterIssues
    <3>2. \A i \in DOMAIN sends' : \/ i \in DOMAIN sends /\ sends'[i] = sends[i]
                                   \/ sends'[i].first = total + 1 /\ sends'[i].next = total + 1
      BY <1>0, <2>2
    <3>3. \A i \in DOMAIN sends' : sends'[i].first <= sends'[i].next
      BY <1>0, <1>a, <3>2
    <3> QED BY <1>a, <2>0, <3>1, <3>3 DEF WriterAtPlace
  <2>3. ASSUME NEW n \in 0 .. BlockBytes - total, sends = <<>> /\ Advances("issue", n)
        PROVE  WriterAtPlace'
    <3>1. UNCHANGED <<job, waiting>> /\ total' = total + n
      BY <1>4, <2>3 DEF WriterIssues, Advances
    <3>2. writer' = "done" \/ (writer' = "issue" /\ total + n < BlockBytes)
      BY <2>3 DEF Advances, Writes
    <3>3. \A i \in DOMAIN sends' : sends'[i].first <= sends'[i].next
      <4>1. sends' = sends \/ Writes("issue", "store")
        BY <1>4 DEF WriterIssues
      <4>2. writer' # "store"
        BY <3>2
      <4> QED BY <1>a, <4>1, <4>2 DEF Writes
    <3> QED BY <1>a, <2>0, <3>1, <3>2, <3>3 DEF WriterAtPlace
  <2> QED BY <1>4, <2>1, <2>2, <2>3 DEF WriterIssues
<1>5. CASE WriterStores \/ WriterWaits \/ WriterSettles
  <2>1. UNCHANGED <<sends, job, waiting, total>> /\ writer \notin Between
        /\ writer' \notin {"check", "issue", "store"}
    BY <1>5 DEF WriterStores, WriterWaits, WriterSettles, Writes
  <2> QED BY <1>a, <2>1 DEF WriterAtPlace
<1>6. CASE WriterCancels
  <2>1. UNCHANGED <<job, waiting, total>> /\ writer \notin Between /\ sends' = Cancelled
        /\ writer' \notin {"check", "issue", "store"}
    BY <1>6 DEF WriterCancels, Writes
  <2>2. \A i \in DOMAIN sends' : sends'[i].first <= sends'[i].next
    BY <1>0, <1>a, <2>1, CancelKeeps
  <2> QED BY <1>a, <2>1, <2>2 DEF WriterAtPlace
<1>7. CASE WriterReaps
  <2> DEFINE n == IF status.count < BlockBytes - total THEN status.count ELSE BlockBytes - total
  <2>1. UNCHANGED <<sends, job, waiting>> /\ writer \notin Between
    BY <1>7 DEF WriterReaps, Advances, Writes
  <2>2. Advances("reap", n) \/ Writes("reap", "done")
    BY <1>7 DEF WriterReaps
  <2> HIDE DEF n
  <2>3. writer' = "done" \/ (writer' = "issue" /\ total' < BlockBytes)
    BY <2>2 DEF Advances, Writes
  <2> QED BY <1>a, <2>1, <2>3 DEF WriterAtPlace
<1>8. CASE DriverSends
  <2>1. sends # <<>> /\ Head(sends).next <= BlockBytes /\ sends' = [sends EXCEPT ![1].next = @ + 1]
        /\ UNCHANGED <<job, waiting, total, writer>>
    BY <1>8 DEF DriverSends, threads
  <2>2. sends[1] \in Send /\ DOMAIN sends' = DOMAIN sends
    BY <1>0, <2>1
  <2>3. sends'[1].first = sends[1].first /\ sends'[1].next = sends[1].next + 1
        /\ \A i \in DOMAIN sends : i # 1 => sends'[i] = sends[i]
    BY <1>0, <2>1, OneMoreOut
  <2>4. sends[1].first <= sends[1].next + 1
    <3>1. 1 \in DOMAIN sends
      BY <1>0, <2>1
    <3> QED BY <1>a, <2>2, <3>1 DEF Send
  <2>5. \A i \in DOMAIN sends' : sends'[i].first <= sends'[i].next
    BY <1>a, <2>2, <2>3, <2>4
  <2> QED BY <1>a, <2>1, <2>5 DEF WriterAtPlace
<1>9. CASE DriverEndsSend
  <2>1. sends # <<>> /\ sends' = Tail(sends) /\ UNCHANGED <<job, waiting, total, writer>>
    BY <1>9 DEF DriverEndsSend, threads
  <2>2. \A i \in DOMAIN sends' : i + 1 \in DOMAIN sends /\ sends'[i] = sends[i + 1]
    BY <1>0, <2>1
  <2>3. \A i \in DOMAIN sends' : sends'[i].first <= sends'[i].next
    BY <1>a, <2>2
  <2> QED BY <1>a, <2>1, <2>3 DEF WriterAtPlace
<1>10. CASE CloseEnds
  <2>1. dispatcher = "joinReader" /\ sends' = <<>> /\ job' = 0 /\ UNCHANGED <<writer, waiting>>
    BY <1>10 DEF CloseEnds, EndOfHistory, Goes
  <2>2. writer = "none" /\ waiting = 0
    BY <2>1 DEF SessionAtPlace, NoWriter
  <2> QED BY <2>1, <2>2 DEF WriterAtPlace
<1>11. CASE Enqueue \/ StartWriter \/ StopWriter
  <2>1. UNCHANGED <<sends, job, total>> /\ writer' \in {writer, "wake"}
    BY <1>11 DEF Enqueue, StartWriter, StopWriter, threads
  <2>2. job + waiting' <= JobBound
    BY <1>0, <1>a, <1>11 DEF Enqueue, StartWriter, StopWriter
  <2> QED BY <1>a, <2>1, <2>2 DEF WriterAtPlace
<1>12. CASE SameSends /\ writer' = writer /\ UNCHANGED ringVars
  <2>1. \A i \in DOMAIN sends' : sends'[i].first <= sends'[i].next
    BY <1>0, <1>a, <1>12, CancelKeeps DEF SameSends
  <2> QED BY <1>a, <1>12, <2>1 DEF WriterAtPlace, SameSends
<1>13. CASE UNCHANGED vars
  BY <1>a, <1>13 DEF vars, threads, WriterAtPlace
<1> QED BY <1>1, <1>2, <1>3, <1>4, <1>5, <1>6, <1>7, <1>8, <1>9, <1>10, <1>11, <1>12, <1>13,
           OthersSend, OthersQueue DEF Writer

-----------------------------------------------------------------------------
(* The wire.                                                               *)

\* Counts of bytes are finite.
LEMMA CountType ==
  ASSUME NEW w \in Seq(Byte), NEW j
  PROVE  Count(w, j) \in Nat /\ IsFiniteSet({i \in DOMAIN w : w[i][1] = j})
<1> DEFINE S == {i \in DOMAIN w : w[i][1] = j}
<1>1. IsFiniteSet(1 .. Len(w))
  BY FS_Interval
<1>2. S \subseteq 1 .. Len(w)
  OBVIOUS
<1>3. IsFiniteSet(S)
  BY <1>1, <1>2, FS_Subset
<1>4. Cardinality(S) \in Nat
  BY <1>3, FS_CardinalityType
<1> QED BY <1>3, <1>4 DEF Count

\* Sent counts the wire.
LEMMA CountSent == \A j \in Jobs : Sent(j) = Count(wire, j)
BY DEF Sent, Count

\* The bytes p + 1 .. p + n of block j added at the end.
Extends(v, w, j, p, n) ==
  /\ Len(v) = Len(w) + n /\ \A i \in 1 .. Len(w) : v[i] = w[i]
  /\ \A i \in 1 .. n : v[Len(w) + i] = <<j, p + i>>

\* n more bytes of block j, and of no other.
LEMMA CountExtends ==
  ASSUME NEW w \in Seq(Byte), NEW v \in Seq(Byte), NEW j \in Jobs, NEW p \in Nat, NEW n \in Nat,
         Extends(v, w, j, p, n)
  PROVE  Count(v, j) = Count(w, j) + n /\ \A h \in Jobs : Count(w, h) <= Count(v, h)
<1> DEFINE In(x, h) == {i \in DOMAIN x : x[i][1] = h}
           New == Len(w) + 1 .. Len(w) + n
<1>1. Len(w) \in Nat /\ DOMAIN w = 1 .. Len(w) /\ DOMAIN v = 1 .. Len(w) + n
  BY DEF Extends
<1>2. \A i \in New : v[i][1] = j
  <2> SUFFICES ASSUME NEW i \in New PROVE v[i][1] = j
    OBVIOUS
  <2>1. i - Len(w) \in 1 .. n /\ Len(w) + (i - Len(w)) = i
    BY <1>1
  <2>2. v[Len(w) + (i - Len(w))] = <<j, p + (i - Len(w))>>
    BY <2>1 DEF Extends
  <2> QED BY <2>1, <2>2
<1>3. \A h : In(w, h) \subseteq In(v, h)
  BY <1>1 DEF Extends
<1>4. In(v, j) = In(w, j) \cup New
  BY <1>1, <1>2 DEF Extends
<1>5. In(w, j) \cap New = {}
  BY <1>1
<1>6. IsFiniteSet(New) /\ Cardinality(New) = n
  <2>1. IsFiniteSet(New) /\ Cardinality(New) = IF Len(w) + 1 > Len(w) + n THEN 0 ELSE (Len(w) + n) - (Len(w) + 1) + 1
    <3>1. Len(w) + 1 \in Int /\ Len(w) + n \in Int
      BY <1>1
    <3> QED BY <3>1, FS_Interval
  <2> QED BY <1>1, <2>1
<1>7. IsFiniteSet(In(w, j)) /\ Cardinality(In(w, j)) = Count(w, j) /\ Count(w, j) \in Nat
  BY CountType DEF Count
<1>8. Count(v, j) = Cardinality(In(v, j))
  BY DEF Count
<1> HIDE DEF In, New
<1>9. Cardinality(In(w, j) \cup New) = Cardinality(In(w, j)) + Cardinality(New) - Cardinality(In(w, j) \cap New)
  BY <1>6, <1>7, FS_Union
<1>10. Cardinality(In(w, j) \cap New) = 0
  BY <1>5, FS_EmptySet
<1>11. Count(v, j) = Count(w, j) + n
  BY <1>4, <1>6, <1>7, <1>8, <1>9, <1>10
<1>12. ASSUME NEW h \in Jobs PROVE Count(w, h) <= Count(v, h)
  <2>1. IsFiniteSet(In(v, h)) /\ Cardinality(In(v, h)) = Count(v, h)
    BY CountType DEF Count, In
  <2>2. Cardinality(In(w, h)) = Count(w, h)
    BY DEF Count, In
  <2>3. Cardinality(In(w, h)) <= Cardinality(In(v, h))
    BY <1>3, <2>1, FS_Subset
  <2> QED BY <2>1, <2>2, <2>3
<1> QED BY <1>11, <1>12

\* Bytes that continue the block at the end of the wire keep it in order.
LEMMA TipExtends ==
  ASSUME NEW w \in Seq(Byte), NEW v \in Seq(Byte), NEW j \in Jobs, NEW p \in Nat, NEW n \in Nat,
         Extends(v, w, j, p, n), OrderOf(w), Tip(w, j, p)
  PROVE  OrderOf(v) /\ Tip(v, j, p + n)
<1>1. Len(w) \in Nat /\ DOMAIN w = 1 .. Len(w) /\ DOMAIN v = 1 .. Len(w) + n /\ Len(v) = Len(w) + n
  BY DEF Extends
<1>2. \A i \in 1 .. Len(w) : v[i] = w[i]
  BY DEF Extends
<1>3. \A i \in Len(w) + 1 .. Len(w) + n : v[i] = <<j, p + (i - Len(w))>>
  <2> SUFFICES ASSUME NEW i \in Len(w) + 1 .. Len(w) + n PROVE v[i] = <<j, p + (i - Len(w))>>
    OBVIOUS
  <2>1. i - Len(w) \in 1 .. n /\ Len(w) + (i - Len(w)) = i
    BY <1>1
  <2> QED BY <2>1 DEF Extends
<1>4. j \in Nat
  BY Numbers DEF Jobs
<1>5. OrderOf(v)
  <2> SUFFICES ASSUME NEW i \in 1 .. Len(v)
      PROVE  \/ v[i][2] = 1 /\ (i > 1 => v[i - 1][1] < v[i][1])
             \/ i > 1 /\ v[i - 1] = <<v[i][1], v[i][2] - 1>>
    BY DEF OrderOf
  <2>1. CASE i \in 1 .. Len(w)
    <3>1. v[i] = w[i] /\ (i > 1 => i - 1 \in 1 .. Len(w) /\ v[i - 1] = w[i - 1])
      BY <1>1, <1>2, <2>1
    <3> QED BY <2>1, <3>1 DEF OrderOf
  <2>2. CASE i = Len(w) + 1
    <3>1. v[i] = <<j, p + 1>> /\ v[i][1] = j /\ v[i][2] = p + 1
      <4>1. i \in Len(w) + 1 .. Len(w) + n /\ i - Len(w) = 1
        BY <1>1, <2>2
      <4> QED BY <1>3, <4>1
    <3>2. i > 1 => i - 1 \in DOMAIN w /\ i - 1 = Len(w) /\ v[i - 1] = w[i - 1]
      BY <1>1, <1>2, <2>2
    <3>3. CASE p = 0
      <4>1. \A k \in DOMAIN w : w[k][1] < j
        BY <3>3 DEF Tip
      <4> QED BY <3>1, <3>2, <3>3, <4>1
    <3>4. CASE p > 0
      <4>1. w # <<>> /\ w[Len(w)] = <<j, p>>
        BY <3>4 DEF Tip
      <4>2. i > 1
        BY <1>1, <2>2, <4>1
      <4> QED BY <3>1, <3>2, <4>1, <4>2
    <3> QED BY <3>3, <3>4
  <2>3. CASE i \in Len(w) + 2 .. Len(w) + n
    <3>1. i \in Len(w) + 1 .. Len(w) + n /\ i - 1 \in Len(w) + 1 .. Len(w) + n /\ i > 1
      BY <1>1, <2>3
    <3>2. v[i] = <<j, p + (i - Len(w))>> /\ v[i - 1] = <<j, p + ((i - 1) - Len(w))>>
      BY <1>3, <3>1
    <3>3. p + ((i - 1) - Len(w)) = (p + (i - Len(w))) - 1
      BY <1>1, <3>1
    <3> QED BY <3>1, <3>2, <3>3
  <2> QED BY <1>1, <2>1, <2>2, <2>3
<1>6. \A i \in DOMAIN v : v[i][1] <= j
  <2>1. \A i \in DOMAIN w : w[i][1] <= j
    BY DEF Tip
  <2> QED BY <1>1, <1>2, <1>3, <1>4, <2>1
<1>7. Count(v, j) = p + n
  <2>1. Count(w, j) = p
    BY DEF Tip
  <2> QED BY <2>1, CountExtends
<1>8. ASSUME p + n = 0 PROVE \A i \in DOMAIN v : v[i][1] < j
  <2>1. p = 0 /\ n = 0
    BY <1>8
  <2>2. \A i \in DOMAIN w : w[i][1] < j
    BY <2>1 DEF Tip
  <2>3. DOMAIN v = 1 .. Len(w)
    BY <1>1, <2>1
  <2> QED BY <1>1, <1>2, <2>2, <2>3
<1>9. ASSUME p + n > 0 PROVE v # <<>> /\ v[Len(v)] = <<j, p + n>>
  <2>1. CASE n = 0
    <3>1. w # <<>> /\ w[Len(w)] = <<j, p>> /\ Len(v) = Len(w) /\ p + n = p
      BY <1>1, <1>9, <2>1 DEF Tip
    <3>2. Len(w) \in 1 .. Len(w)
      BY <1>1, <3>1
    <3>3. v[Len(v)] = <<j, p + n>>
      BY <1>2, <3>1, <3>2
    <3>4. v # <<>>
      BY <1>1, <3>1, <3>2
    <3> QED BY <3>3, <3>4
  <2>2. CASE n > 0
    <3>1. Len(v) \in Len(w) + 1 .. Len(w) + n /\ Len(v) - Len(w) = n
      BY <1>1, <2>2
    <3>2. v[Len(v)] = <<j, p + n>>
      BY <1>3, <3>1
    <3>3. v # <<>>
      BY <1>1, <3>1
    <3> QED BY <3>2, <3>3
  <2> QED BY <2>1, <2>2
<1> QED BY <1>5, <1>6, <1>7, <1>8, <1>9 DEF Tip

\* A new block begins behind all that went out.
LEMMA FreshTip ==
  ASSUME NEW w \in Seq(Byte), NEW j \in Nat, \A i \in DOMAIN w : w[i][1] < j
  PROVE  Tip(w, j, 0)
<1>1. \A i \in DOMAIN w : w[i] \in Byte /\ w[i][1] \in Nat
  <2>1. \A i \in DOMAIN w : w[i] \in Byte
    OBVIOUS
  <2> QED BY <2>1, Numbers DEF Byte, Jobs
<1>2. \A i \in DOMAIN w : w[i][1] <= j /\ w[i][1] # j
  BY <1>1
<1>3. {i \in DOMAIN w : w[i][1] = j} = {}
  BY <1>2
<1>4. Count(w, j) = 0
  BY <1>3, FS_EmptySet DEF Count
<1> QED BY <1>2, <1>4 DEF Tip

\* A step that sends nothing and keeps the account of the block keeps LastOut.
LEMMA LastOutKept ==
  LastOut /\ wire' = wire /\ job' = job /\ (writer' \in Between \/ (writer \notin Between /\ Gone' = Gone))
    => LastOut'
BY DEF LastOut

\* So do reports, when neither they nor the wire change.
LEMMA WrittenKept == WrittenOut /\ UNCHANGED <<wire, written>> => WrittenOut'
BY DEF WrittenOut

\* A return of write() that reports no more than is on the wire is right.
LEMMA ReturnsOut ==
  ASSUME WrittenOut, WriteTypes, job \in Jobs, NEW n \in 0 .. BlockBytes, Returns(n),
         wire' \in Seq(Byte), Count(wire', job) >= n,
         \A h \in Jobs : Count(wire, h) <= Count(wire', h)
  PROVE  WrittenOut'
<1>1. wire \in Seq(Byte) /\ written \in [Jobs -> -1 .. BlockBytes]
  BY DEF WriteTypes
<1> SUFFICES ASSUME NEW h \in Jobs PROVE written'[h] <= Count(wire', h)
  BY DEF WrittenOut
<1>2. Count(wire, h) \in Nat /\ Count(wire', h) \in Nat
  BY <1>1, CountType
<1>3. written' = [written EXCEPT ![job] = n]
  BY DEF Returns
<1>4. CASE h = job
  <2>1. written'[h] = n
    BY <1>1, <1>3, <1>4
  <2> QED BY <1>2, <1>4, <2>1
<1>5. CASE h # job
  <2>1. written'[h] = written[h] /\ written[h] \in Int
    BY <1>1, <1>3, <1>5, Numbers
  <2>2. written[h] <= Count(wire, h) /\ Count(wire, h) <= Count(wire', h)
    BY DEF WrittenOut
  <2> QED BY <1>2, <2>1, <2>2
<1> QED BY <1>4, <1>5

\* Steps that move no byte.
Stays ==
  \/ writer' = writer
  \/ writer \in Between /\ writer' \in Between
  \/ writer \in InDriver /\ writer' \in InDriver
  \/ writer = "wait" /\ writer' = "reap" /\ "write" \in events
\* Steps that move no byte keep WireInv, cancels included.
LEMMA QuietKeeps ==
  WriteTypes /\ WireInv /\ SameSends /\ Stays /\ ("write" \in events' => "write" \in events) => WireInv'
<1> SUFFICES ASSUME WriteTypes, WireInv, SameSends, Stays, "write" \in events' => "write" \in events,
                    ~stray'
    PROVE  OneSend' /\ LastOut' /\ OrderOf(wire)' /\ WrittenOut'
  BY DEF WireInv
<1>1. UNCHANGED <<status, job, total, wire, written, stray>> /\ sends \in Seq(Send)
  BY DEF SameSends, WriteTypes
<1>2. OneSend /\ LastOut /\ OrderOf(wire) /\ WrittenOut
  BY <1>1 DEF WireInv
<1>3. sends' = <<>> <=> sends = <<>>
  BY <1>1, CancelKeeps DEF SameSends
<1>4. sends # <<>> => /\ Len(sends') = Len(sends) /\ sends'[1].job = sends[1].job
                      /\ sends'[1].first = sends[1].first /\ sends'[1].next = sends[1].next
  <2>1. sends # <<>> => 1 \in DOMAIN sends
    BY <1>1
  <2> QED BY <1>1, <2>1, CancelKeeps DEF SameSends
<1>5. OneSend'
  BY <1>1, <1>2, <1>3, <1>4 DEF OneSend, Stays, InDriver, Between
<1>6. writer' \in Between \/ (writer \notin Between /\ Gone' = Gone)
  <2>1. writer = "wait" /\ writer' = "reap" /\ "write" \in events => sends = <<>>
    BY <1>2 DEF OneSend
  <2> QED BY <1>1, <1>2, <1>3, <1>4, <2>1 DEF Gone, Stays, InDriver, Between, OneSend
<1>7. LastOut'
  BY <1>1, <1>2, <1>6, LastOutKept
<1>8. WrittenOut'
  BY <1>1, <1>2, WrittenKept
<1> QED BY <1>1, <1>2, <1>5, <1>7, <1>8

\* Only the driver's end of a send signals the write event.
LEMMA OthersEvent ==
  Next => \/ DriverEndsSend \/ ("write" \in events' => "write" \in events)
<1> USE DEF threads, handles, readVars, writeVars, ringVars
<1>1. ASSUME DriverMoves \/ DriverEndsRead \/ DriverSends PROVE "write" \in events' => "write" \in events
  BY <1>1 DEF DriverMoves, DriverEndsRead, DriverSends
<1>2. ASSUME ReaderLoop \/ ReaderIssue \/ ReaderArms \/ ReaderWakes
      PROVE "write" \in events' => "write" \in events
  BY <1>2 DEF ReaderLoop, ReaderIssue, ReaderArms, ReaderWakes
<1>3. ASSUME ReaderGivesUp \/ ReaderDecides \/ ReaderReaps \/ ReaderFails
      PROVE "write" \in events' => "write" \in events
  BY <1>3 DEF ReaderGivesUp, ReaderDecides, ReaderReaps, ReaderFails
<1>4. ASSUME WriterTests \/ WriterPops \/ WriterChecks \/ WriterIssues \/ WriterStores
      PROVE "write" \in events' => "write" \in events
  BY <1>4 DEF WriterTests, WriterPops, WriterChecks, WriterIssues, WriterStores
<1>5. ASSUME WriterWaits \/ WriterCancels \/ WriterSettles \/ WriterReaps
      PROVE "write" \in events' => "write" \in events
  BY <1>5 DEF WriterWaits, WriterCancels, WriterSettles, WriterReaps
<1>6. ASSUME OpenFails \/ Open \/ StartWriter \/ Enqueue \/ BeginClose
      PROVE "write" \in events' => "write" \in events
  BY <1>6 DEF OpenFails, Open, StartWriter, Enqueue, BeginClose
<1>7. ASSUME AbortLooks \/ Grace \/ Cut \/ StopWriter \/ Halt \/ CloseEnds
      PROVE "write" \in events' => "write" \in events
  BY <1>7 DEF AbortLooks, Grace, Cut, StopWriter, Halt, CloseEnds
<1> QED BY <1>1, <1>2, <1>3, <1>4, <1>5, <1>6, <1>7 DEF Next, Driver, Reader, Writer, Closing

\* A new block begins behind the last.
LEMMA PopKeeps == WriteTypes /\ WireInv /\ WriterPops => WireInv'
<1> SUFFICES ASSUME WriteTypes, WireInv, WriterPops, ~stray'
    PROVE  OneSend' /\ LastOut' /\ OrderOf(wire)' /\ WrittenOut'
  BY DEF WireInv
<1>1. /\ UNCHANGED <<sends, status, wire, written, stray>> /\ writer = "pop" /\ total' = 0
      /\ \/ writer' = "wake" /\ job' = job
         \/ writer' = "check" /\ job' = job + 1
  BY DEF WriterPops, Writes
<1>2. OneSend /\ LastOut /\ OrderOf(wire) /\ WrittenOut
  BY <1>1 DEF WireInv
<1>3. OneSend'
  BY <1>1, <1>2 DEF OneSend, InDriver
<1>4. WrittenOut'
  BY <1>1, <1>2, WrittenKept
<1>5. wire \in Seq(Byte) /\ job \in Nat
  BY Numbers DEF WriteTypes
<1>6. \A i \in DOMAIN wire : wire[i][1] <= job /\ wire[i][1] \in Nat
  <2>1. \A i \in DOMAIN wire : wire[i] \in Byte
    BY <1>5
  <2> QED BY <1>2, <2>1, Numbers DEF LastOut, Byte, Jobs
<1>7. CASE writer' = "wake" /\ job' = job
  BY <1>1, <1>2, <1>3, <1>4, <1>7 DEF LastOut, Between
<1>8. CASE writer' = "check" /\ job' = job + 1
  <2>1. \A i \in DOMAIN wire : wire[i][1] < job'
    BY <1>5, <1>6, <1>8
  <2>2. Tip(wire, job', 0) /\ job' \in Nat
    BY <1>5, <1>8, <2>1, FreshTip
  <2>3. Gone' = 0
    BY <1>1, <1>8 DEF Gone, InDriver
  <2>4. \A i \in DOMAIN wire : wire[i][1] <= job'
    BY <1>6, <2>1, <2>2
  <2> QED BY <1>1, <1>2, <1>3, <1>4, <2>2, <2>3, <2>4, Numbers DEF LastOut
<1> QED BY <1>1, <1>2, <1>3, <1>4, <1>7, <1>8

\* A block refused for its session is reported as nothing.
LEMMA CheckKeeps == WriteTypes /\ WriterAtPlace /\ WireInv /\ WriterChecks => WireInv'
<1> SUFFICES ASSUME WriteTypes, WriterAtPlace, WireInv, WriterChecks, ~stray'
    PROVE  OneSend' /\ LastOut' /\ OrderOf(wire)' /\ WrittenOut'
  BY DEF WireInv
<1>1. /\ UNCHANGED <<sends, status, wire, stray, job, total>> /\ writer = "check"
      /\ \/ writer' = "issue" /\ written' = written
         \/ writer' = "done" /\ written' = [written EXCEPT ![job] = 0]
  BY DEF WriterChecks, Writes
<1>2. OneSend /\ LastOut /\ OrderOf(wire) /\ WrittenOut
  BY <1>1 DEF WireInv
<1>3. OneSend'
  BY <1>1, <1>2 DEF OneSend, InDriver
<1>4. LastOut'
  BY <1>1, <1>2, LastOutKept DEF Gone, InDriver, Between
<1>5. WrittenOut'
  <2>1. \A h \in Jobs : Count(wire, h) \in Nat
    BY CountType DEF WriteTypes
  <2>2. \A h \in Jobs : written'[h] \in {0, written[h]}
    BY <1>1 DEF WriteTypes
  <2> QED BY <1>1, <1>2, <2>1, <2>2 DEF WrittenOut
<1> QED BY <1>1, <1>2, <1>3, <1>4, <1>5

\* An attempt done at once, also short, continues the block; one that is pending has
\* sent nothing yet; one refused reports what went before.
LEMMA IssueKeeps == WriteTypes /\ WriterAtPlace /\ WireInv /\ WriterIssues => WireInv'
<1> SUFFICES ASSUME WriteTypes, WriterAtPlace, WireInv, WriterIssues, ~stray'
    PROVE  OneSend' /\ LastOut' /\ OrderOf(wire)' /\ WrittenOut'
  BY DEF WireInv
<1>1. writer = "issue" /\ job' = job /\ (stray' = stray \/ stray' = (stray \/ sends # <<>>))
  BY DEF WriterIssues, Writes, Advances, Returns
<1>2. OneSend /\ LastOut /\ OrderOf(wire) /\ WrittenOut /\ stray' = stray
  BY <1>1 DEF WireInv, WriteTypes
<1>3. job \in Jobs /\ total \in 0 .. BlockBytes /\ total < BlockBytes /\ total \in Nat
      /\ wire \in Seq(Byte) /\ sends \in Seq(Send) /\ BlockBytes \in Nat
  BY <1>1, Numbers DEF WriterAtPlace, WriteTypes, Between
<1>4. sends = <<>>
  BY <1>1, <1>2 DEF OneSend, InDriver
<1>5. Gone = total /\ Tip(wire, job, total) /\ Count(wire, job) = total
  <2>1. Gone = total
    BY <1>1 DEF Gone, InDriver
  <2>2. Tip(wire, job, Gone)
    BY <1>1, <1>2 DEF LastOut, Between
  <2> QED BY <2>1, <2>2 DEF Tip
<1>6. \A h \in Jobs : Count(wire, h) <= Count(wire, h)
  <2>1. \A h \in Jobs : Count(wire, h) \in Nat
    BY <1>3, CountType
  <2> QED BY <2>1
<1>7. CASE /\ Writes("issue", "done") /\ Returns(total)
           /\ UNCHANGED <<sends, status, total, iteration, wire>>
  <2>1. writer' = "done" /\ sends' = <<>> /\ wire' = wire
    BY <1>4, <1>7 DEF Writes
  <2>2. OneSend'
    BY <2>1 DEF OneSend, InDriver
  <2>3. LastOut'
    BY <1>1, <1>2, <2>1, LastOutKept DEF Between
  <2>4. WrittenOut'
    BY <1>2, <1>3, <1>5, <1>6, <1>7, <2>1, ReturnsOut
  <2> QED BY <1>2, <2>1, <2>2, <2>3, <2>4
<1>8. CASE /\ Writes("issue", "store")
           /\ sends' = Append(sends, [job |-> job, first |-> total + 1, next |-> total + 1,
                                      cancelled |-> FALSE])
           /\ status' = [state |-> "pending", count |-> 0]
           /\ UNCHANGED <<total, iteration, wire, written, stray>>
  <2>1. writer' = "store" /\ wire' = wire /\ written' = written /\ total' = total
    BY <1>8 DEF Writes
  <2>2. sends' = <<[job |-> job, first |-> total + 1, next |-> total + 1, cancelled |-> FALSE]>>
    BY <1>4, <1>8
  <2>3. sends' # <<>> /\ Len(sends') = 1 /\ sends'[1].job = job /\ sends'[1].first = total + 1
        /\ sends'[1].next = total + 1
    BY <2>2
  <2>4. "write" \notin events'
    BY DEF WriterIssues
  <2>5. OneSend'
    BY <1>1, <2>1, <2>3, <2>4 DEF OneSend, InDriver
  <2>6. Gone' = Gone
    BY <1>3, <1>5, <2>1, <2>3 DEF Gone, InDriver
  <2>7. LastOut'
    BY <1>1, <1>2, <2>1, <2>6, LastOutKept DEF Between
  <2>8. WrittenOut'
    BY <1>2, <2>1, WrittenKept
  <2> QED BY <1>2, <2>1, <2>5, <2>7, <2>8
<1>9. ASSUME NEW n \in 0 .. BlockBytes - total, Advances("issue", n),
             wire' = wire \o [i \in 1 .. n |-> <<job, total + i>>], UNCHANGED <<sends, status>>
      PROVE  OneSend' /\ LastOut' /\ OrderOf(wire)' /\ WrittenOut'
  <2> DEFINE e == [i \in 1 .. n |-> <<job, total + i>>]
  <2>1. n \in Nat /\ total + n \in 0 .. BlockBytes
    BY <1>3
  <2>2. e \in Seq(Byte) /\ wire' \in Seq(Byte)
    BY <1>3, <1>9, WholeTake
  <2>3. Len(e) = n /\ \A i \in 1 .. n : e[i] = <<job, total + i>>
    BY <2>1
  <2> HIDE DEF e
  <2>4. wire' = wire \o e
    BY <1>9 DEF e
  <2>5. Extends(wire', wire, job, total, n)
    <3>1. Len(wire) \in Nat /\ Len(wire') = Len(wire) + n
      <4>1. wire \in Seq(Byte) /\ e \in Seq(Byte) /\ Len(e) = n
        BY <1>3, <2>2, <2>3 DEF e
      <4>2. Len(wire \o e) = Len(wire) + Len(e) /\ Len(wire) \in Nat
        BY <4>1
      <4> QED BY <2>4, <4>1, <4>2
    <3>2. \A i \in 1 .. Len(wire) : wire'[i] = wire[i]
      BY <1>3, <2>2, <2>4
    <3>3. ASSUME NEW i \in 1 .. n PROVE wire'[Len(wire) + i] = e[i]
      BY <1>3, <2>1, <2>2, <2>3, <2>4, <3>1
    <3> QED BY <2>3, <3>1, <3>2, <3>3 DEF Extends
  <2>6. OrderOf(wire') /\ Tip(wire', job, total + n)
    BY <1>2, <1>3, <1>5, <2>1, <2>2, <2>5, TipExtends
  <2>7. Count(wire', job) = total + n /\ \A h \in Jobs : Count(wire, h) <= Count(wire', h)
    BY <1>3, <1>5, <2>1, <2>2, <2>5, CountExtends
  <2>8. total' = total + n /\ sends' = <<>>
        /\ \/ writer' = "issue" /\ UNCHANGED <<written, stray>>
           \/ writer' = "done" /\ Returns(total + n)
    BY <1>4, <1>9 DEF Advances, Writes
  <2>9. OneSend'
    BY <2>8 DEF OneSend, InDriver
  <2>10. LastOut'
    <3>1. writer' = "issue" => Gone' = total + n
      BY <2>8 DEF Gone, InDriver
    <3>2. \A i \in DOMAIN wire' : wire'[i][1] <= job
      BY <2>6 DEF Tip
    <3> QED BY <1>1, <2>1, <2>6, <2>8, <3>1, <3>2 DEF LastOut, Between
  <2>11. WrittenOut'
    <3>1. CASE UNCHANGED <<written, stray>>
      <4>1. \A h \in Jobs : Count(wire, h) \in Nat /\ Count(wire', h) \in Nat /\ written[h] \in Int
        <5>1. \A h \in Jobs : written[h] \in -1 .. BlockBytes
          BY DEF WriteTypes
        <5>2. \A h \in Jobs : Count(wire, h) \in Nat /\ Count(wire', h) \in Nat
          BY <1>3, <2>2, CountType
        <5> QED BY <5>1, <5>2
      <4> QED BY <1>2, <2>7, <3>1, <4>1 DEF WrittenOut
    <3>2. CASE Returns(total + n)
      <4>1. Count(wire', job) >= total + n
        BY <2>1, <2>7
      <4> QED BY <1>2, <1>3, <2>1, <2>2, <2>7, <3>2, <4>1, ReturnsOut
    <3> QED BY <2>8, <3>1, <3>2
  <2> QED BY <2>6, <2>9, <2>10, <2>11
<1> QED BY <1>7, <1>8, <1>9 DEF WriterIssues

\* A write given up reports the attempts before, which is no more than went out.
LEMMA SettleKeeps == WriteTypes /\ WriterAtPlace /\ WireInv /\ WriterSettles => WireInv'
<1> SUFFICES ASSUME WriteTypes, WriterAtPlace, WireInv, WriterSettles, ~stray'
    PROVE  OneSend' /\ LastOut' /\ OrderOf(wire)' /\ WrittenOut'
  BY DEF WireInv
<1>1. /\ writer = "settle" /\ writer' = "done" /\ Returns(total)
      /\ UNCHANGED <<sends, status, job, total, wire>>
  BY DEF WriterSettles, Writes
<1>2. sends = <<>> /\ ~stray
  BY <1>1 DEF Returns
<1>3. OneSend /\ LastOut /\ OrderOf(wire) /\ WrittenOut
  BY <1>2 DEF WireInv
<1>4. job \in Jobs /\ total \in 0 .. BlockBytes /\ wire \in Seq(Byte) /\ status.count \in 0 .. BlockBytes
  BY <1>1 DEF WriterAtPlace, WriteTypes, Between
<1>5. Count(wire, job) >= total
  <2>1. Gone = total + status.count
    BY <1>1, <1>2 DEF Gone, InDriver
  <2>2. Count(wire, job) = Gone
    BY <1>1, <1>3 DEF LastOut, Between, Tip
  <2> QED BY <1>4, <2>1, <2>2, Numbers
<1>6. \A h \in Jobs : Count(wire, h) <= Count(wire', h)
  <2>1. \A h \in Jobs : Count(wire, h) \in Nat
    BY <1>4, CountType
  <2> QED BY <1>1, <2>1
<1>7. OneSend'
  BY <1>1, <1>2 DEF OneSend, InDriver
<1>8. LastOut'
  BY <1>1, <1>3, LastOutKept DEF Between
<1>9. WrittenOut'
  BY <1>1, <1>3, <1>4, <1>5, <1>6, ReturnsOut
<1> QED BY <1>1, <1>3, <1>7, <1>8, <1>9

\* A completion counts what its request sent, so the next attempt begins behind it.
LEMMA ReapKeeps == WriteTypes /\ WriterAtPlace /\ WireInv /\ WriterReaps => WireInv'
<1> SUFFICES ASSUME WriteTypes, WriterAtPlace, WireInv, WriterReaps, ~stray'
    PROVE  OneSend' /\ LastOut' /\ OrderOf(wire)' /\ WrittenOut'
  BY DEF WireInv
<1> DEFINE n == IF status.count < BlockBytes - total THEN status.count ELSE BlockBytes - total
<1>1. /\ UNCHANGED <<sends, status, job, wire>>
      /\ Advances("reap", n) \/ (Writes("reap", "done") /\ Returns(total) /\ total' = total)
  BY DEF WriterReaps
<1>2. writer = "reap" /\ ~stray
  BY <1>1 DEF Advances, Writes, Returns
<1>3. OneSend /\ LastOut /\ OrderOf(wire) /\ WrittenOut
  BY <1>2 DEF WireInv
<1>4. /\ job \in Jobs /\ total \in 0 .. BlockBytes /\ wire \in Seq(Byte)
      /\ status.count \in 0 .. BlockBytes /\ BlockBytes \in Nat /\ total \in Nat
      /\ status.count \in Nat
  BY <1>2, Numbers DEF WriterAtPlace, WriteTypes, Between
<1>5. sends = <<>> /\ Gone = total + status.count
  BY <1>2, <1>3 DEF Gone, OneSend, InDriver
<1>6. Gone <= BlockBytes /\ Tip(wire, job, Gone) /\ Count(wire, job) = Gone
  BY <1>2, <1>3 DEF LastOut, Between, Tip
<1>7. n = status.count
  BY <1>4, <1>5, <1>6
<1> HIDE DEF n
<1>8. \A h \in Jobs : Count(wire, h) <= Count(wire', h)
  <2>1. \A h \in Jobs : Count(wire, h) \in Nat
    BY <1>4, CountType
  <2> QED BY <1>1, <2>1
<1>9. CASE Writes("reap", "done") /\ Returns(total) /\ total' = total
  <2>1. writer' = "done"
    BY <1>9 DEF Writes
  <2>2. OneSend'
    BY <1>1, <1>5, <2>1 DEF OneSend, InDriver
  <2>3. LastOut'
    BY <1>1, <1>3, <2>1, LastOutKept DEF Between
  <2>4. Count(wire, job) >= total
    BY <1>4, <1>5, <1>6
  <2>5. WrittenOut'
    BY <1>1, <1>3, <1>4, <1>8, <1>9, <2>4, ReturnsOut
  <2> QED BY <1>1, <1>3, <2>2, <2>3, <2>5
<1>10. CASE Advances("reap", n)
  <2>1. total' = total + n /\ (writer' \in {"issue", "done"})
        /\ \/ writer' = "issue" /\ UNCHANGED <<written, stray>>
           \/ writer' = "done" /\ Returns(total + n)
    BY <1>10 DEF Advances, Writes
  <2>2. OneSend'
    BY <1>1, <1>5, <2>1 DEF OneSend, InDriver
  <2>3. LastOut'
    <3>1. writer' = "issue" => Gone' = total + n
      BY <2>1 DEF Gone, InDriver
    <3> QED BY <1>1, <1>2, <1>3, <1>5, <1>7, <2>1, <3>1, LastOutKept DEF Between
  <2>4. WrittenOut'
    <3>1. total + n \in 0 .. BlockBytes /\ Count(wire, job) >= total + n
      BY <1>4, <1>5, <1>6, <1>7
    <3>2. CASE UNCHANGED <<written, stray>>
      BY <1>1, <1>3, <3>2, WrittenKept
    <3>3. CASE Returns(total + n)
      BY <1>1, <1>3, <1>4, <1>8, <3>1, <3>3, ReturnsOut
    <3> QED BY <2>1, <3>2, <3>3
  <2> QED BY <1>1, <1>3, <2>2, <2>3, <2>4
<1> QED BY <1>1, <1>9, <1>10

\* The driver sends the next byte of the attempt under way, or ends it with the count.
LEMMA DriverKeeps == WriteTypes /\ WriterAtPlace /\ WireInv /\ (DriverSends \/ DriverEndsSend) => WireInv'
<1> SUFFICES ASSUME WriteTypes, WriterAtPlace, WireInv, DriverSends \/ DriverEndsSend, ~stray'
    PROVE  OneSend' /\ LastOut' /\ OrderOf(wire)' /\ WrittenOut'
  BY DEF WireInv
<1>1. /\ UNCHANGED <<writer, job, total, written, stray>> /\ sends # <<>>
  BY DEF DriverSends, DriverEndsSend, threads
<1>2. OneSend /\ LastOut /\ OrderOf(wire) /\ WrittenOut
  BY <1>1 DEF WireInv
<1>3. /\ writer \in InDriver /\ Len(sends) = 1 /\ sends[1].job = job /\ sends[1].first = total + 1
      /\ "write" \notin events
  BY <1>1, <1>2 DEF OneSend
<1>4. /\ job \in Jobs /\ total \in Nat /\ wire \in Seq(Byte) /\ sends \in Seq(Send)
      /\ BlockBytes \in Nat
  BY <1>3, Numbers DEF WriterAtPlace, WriteTypes, Between, InDriver
<1>5. Head(sends) = sends[1] /\ sends[1] \in Send /\ sends[1].next \in Nat /\ sends[1].next >= 1
      /\ 1 \in DOMAIN sends
  <2>0. sends \in Seq(Send) /\ Len(sends) = 1
    BY <1>3, <1>4
  <2>1. 1 \in DOMAIN sends /\ Head(sends) = sends[1] /\ sends[1] \in Send
    BY <2>0
  <2> QED BY <1>4, <2>1 DEF Send
<1>6. Gone = sends[1].next - 1 /\ Tip(wire, job, Gone) /\ Gone <= BlockBytes /\ writer \notin Between
  <2>1. writer \notin Between
    BY <1>3 DEF Between, InDriver
  <2> QED BY <1>1, <1>2, <1>3, <2>1 DEF Gone, LastOut
<1>7. CASE DriverSends
  <2>1. /\ Head(sends).next <= BlockBytes /\ wire' = Append(wire, <<Head(sends).job, Head(sends).next>>)
        /\ sends' = [sends EXCEPT ![1].next = @ + 1] /\ UNCHANGED <<events, status>>
    BY <1>7 DEF DriverSends
  <2>2. /\ Len(sends') = 1 /\ sends'[1].next = sends[1].next + 1 /\ sends'[1].job = job
        /\ sends'[1].first = total + 1 /\ sends' # <<>>
    <3>1. /\ sends' \in Seq(Send) /\ Len(sends') = Len(sends) /\ sends'[1].next = sends[1].next + 1
          /\ sends'[1].job = sends[1].job /\ sends'[1].first = sends[1].first
      BY <1>1, <1>4, <2>1, OneMoreOut
    <3>2. sends' # <<>>
      <4>1. sends' \in Seq(Send) /\ Len(sends') = 1
        BY <1>3, <3>1
      <4> DEFINE t == sends'
      <4>2. t \in Seq(Send) /\ Len(t) = 1
        BY <4>1
      <4> HIDE DEF t
      <4>3. t # <<>>
        BY <4>2
      <4> QED BY <4>3 DEF t
    <3> QED BY <1>3, <3>1, <3>2
  <2> DEFINE p == sends[1].next - 1
  <2>3. p \in Nat /\ p + 1 = sends[1].next /\ Gone = p
    BY <1>5, <1>6
  <2>4. wire' = Append(wire, <<job, p + 1>>)
    BY <1>3, <1>5, <2>1, <2>3
  <2>5. p + 1 <= BlockBytes
    BY <1>5, <2>1, <2>3
  <2> HIDE DEF p
  <2>6. <<job, p + 1>> \in Byte
    BY <1>4, <2>3, <2>5 DEF Byte
  <2>7. wire' \in Seq(Byte) /\ Extends(wire', wire, job, p, 1)
    BY <1>4, <2>3, <2>4, <2>6 DEF Extends
  <2>8. OrderOf(wire') /\ Tip(wire', job, p + 1)
    BY <1>2, <1>4, <1>6, <2>3, <2>7, TipExtends
  <2>9. \A h \in Jobs : Count(wire, h) <= Count(wire', h)
    BY <1>4, <2>3, <2>7, CountExtends
  <2>10. OneSend'
    BY <1>1, <1>3, <2>1, <2>2 DEF OneSend
  <2>11. Gone' = p + 1
    BY <1>1, <1>3, <1>5, <2>2, <2>3 DEF Gone
  <2>12. LastOut'
    <3>1. \A i \in DOMAIN wire' : wire'[i][1] <= job
      BY <2>8 DEF Tip
    <3> QED BY <1>1, <2>5, <2>8, <2>11, <3>1 DEF LastOut
  <2>13. WrittenOut'
    <3>1. \A h \in Jobs : Count(wire, h) \in Nat /\ Count(wire', h) \in Nat /\ written[h] \in Int
      <4>1. \A h \in Jobs : written[h] \in -1 .. BlockBytes
        BY DEF WriteTypes
      <4>2. \A h \in Jobs : Count(wire, h) \in Nat /\ Count(wire', h) \in Nat
        BY <1>4, <2>7, CountType
      <4> QED BY <4>1, <4>2
    <3> QED BY <1>1, <1>2, <2>9, <3>1 DEF WrittenOut
  <2> QED BY <2>8, <2>10, <2>12, <2>13
<1>8. CASE DriverEndsSend
  <2>1. wire' = wire /\ sends' = Tail(sends)
        /\ \E state \in {"ok", "failed"} :
             status' = [state |-> state, count |-> Head(sends).next - Head(sends).first]
    BY <1>8 DEF DriverEndsSend
  <2>2. sends' = <<>>
    BY <1>3, <1>4, <2>1
  <2>3. status'.count = sends[1].next - (total + 1)
    BY <1>3, <1>5, <2>1
  <2>4. OneSend'
    BY <2>2 DEF OneSend
  <2>5. Gone' = Gone
    <3>1. Gone' = total + (sends[1].next - (total + 1))
      BY <1>1, <1>3, <2>2, <2>3 DEF Gone
    <3> QED BY <1>4, <1>5, <1>6, <3>1
  <2>6. LastOut'
    BY <1>1, <1>2, <1>6, <2>1, <2>5, LastOutKept
  <2>7. WrittenOut'
    BY <1>1, <1>2, <2>1, WrittenKept
  <2> QED BY <1>2, <2>1, <2>4, <2>6, <2>7
<1> QED BY <1>7, <1>8

\* A close ends the account.
LEMMA CloseKeeps == SessionAtPlace /\ CloseEnds => WireInv'
<1> SUFFICES ASSUME SessionAtPlace, CloseEnds
    PROVE  OneSend' /\ LastOut' /\ OrderOf(wire)' /\ WrittenOut'
  BY DEF WireInv
<1>1. /\ wire' = <<>> /\ sends' = <<>> /\ job' = 0 /\ written' = [j \in Jobs |-> -1]
      /\ dispatcher = "joinReader" /\ writer' = writer
  BY DEF CloseEnds, EndOfHistory, Goes
<1>2. writer' = "none"
  BY <1>1 DEF SessionAtPlace, NoWriter
<1>3. OneSend' /\ LastOut' /\ OrderOf(wire)'
  BY <1>1, <1>2 DEF OneSend, LastOut, OrderOf, InDriver, Between
<1>4. \A j \in Jobs : Count(wire', j) \in Nat
  <2>1. wire' \in Seq(Byte)
    BY <1>1
  <2> QED BY <2>1, CountType
<1>5. WrittenOut'
  BY <1>1, <1>4 DEF WrittenOut
<1> QED BY <1>3, <1>5

\* Every step keeps WireInv.
LEMMA WireStep == BackendInv /\ WireInv /\ [Next]_vars => WireInv'
<1> SUFFICES ASSUME BackendInv, WireInv, [Next]_vars PROVE WireInv'
  OBVIOUS
<1>0. WriteTypes /\ WriterAtPlace /\ SessionAtPlace
  BY DEF BackendInv, ReadsInv
<1>1. CASE WriterPops \/ WriterChecks \/ WriterIssues
  BY <1>0, <1>1, PopKeeps, CheckKeeps, IssueKeeps
<1>2. CASE WriterSettles \/ WriterReaps \/ DriverSends \/ DriverEndsSend
  BY <1>0, <1>2, SettleKeeps, ReapKeeps, DriverKeeps
<1>3. CASE CloseEnds
  BY <1>0, <1>3, CloseKeeps
<1>4. CASE WriterTests \/ WriterStores \/ WriterWaits \/ WriterCancels
  <2>1. SameSends
    BY <1>4 DEF WriterTests, WriterStores, WriterWaits, WriterCancels, SameSends, writeVars
  <2>2. Stays
    BY <1>4 DEF WriterTests, WriterStores, WriterWaits, WriterCancels, Stays, Writes, Between, InDriver
  <2>3. "write" \in events' => "write" \in events
    BY <1>4 DEF WriterTests, WriterStores, WriterWaits, WriterCancels
  <2> QED BY <1>0, <2>1, <2>2, <2>3, QuietKeeps
<1>5. CASE SameSends /\ (writer' = writer \/ StartWriter) /\ ("write" \in events' => "write" \in events)
  <2>1. Stays
    BY <1>0, <1>5 DEF StartWriter, Stays, Goes, SessionAtPlace, NoWriter, Between
  <2> QED BY <1>0, <1>5, <2>1, QuietKeeps
<1>6. CASE UNCHANGED vars
  BY <1>6 DEF vars, threads, writeVars, WireInv, OneSend, LastOut, Gone, OrderOf, WrittenOut, Tip, Count
<1> QED BY <1>1, <1>2, <1>3, <1>4, <1>5, <1>6, OthersSend, OthersEvent DEF Writer

-----------------------------------------------------------------------------
(* Theorems.                                                               *)

\* The invariants hold in a backend that was never opened.
LEMMA InitBackend == Init => BackendInv /\ WireInv
<1> SUFFICES ASSUME Init PROVE BackendInv /\ WireInv
  OBVIOUS
<1>1. ControlTypes /\ ReadTypes /\ WriteTypes
  BY InitTypes
<1>2. SessionAtPlace
  BY DEF Init, SessionAtPlace, NoWriter
<1>3. ReaderAtPlace
  BY DEF Init, ReaderAtPlace, Idle
<1>4. ReaderGoneIsKnown
  BY DEF Init, ReaderGoneIsKnown
<1>5. WriterAtPlace
  BY Numbers DEF Init, WriterAtPlace, Between
<1>6. sends = <<>> /\ wire = <<>> /\ writer = "none" /\ written = [j \in Jobs |-> -1]
  BY DEF Init
<1>7. OneSend /\ LastOut /\ OrderOf(wire)
  BY <1>6 DEF OneSend, LastOut, OrderOf, InDriver, Between
<1>8. \A j \in Jobs : Count(wire, j) \in Nat
  BY <1>1, CountType DEF WriteTypes
<1>9. WrittenOut
  BY <1>6, <1>8 DEF WrittenOut
<1> QED BY <1>1, <1>2, <1>3, <1>4, <1>5, <1>7, <1>9 DEF BackendInv, ReadsInv, WireInv

\* Every step keeps the invariants together.
LEMMA BackendStep == BackendInv /\ WireInv /\ [Next]_vars => BackendInv' /\ WireInv'
<1> SUFFICES ASSUME BackendInv, WireInv, [Next]_vars PROVE BackendInv' /\ WireInv'
  OBVIOUS
<1>1. ReadsInv /\ WriteTypes /\ WriterAtPlace
  BY DEF BackendInv
<1>2. ControlTypes /\ ReadTypes /\ ReaderAtPlace /\ SessionAtPlace
  BY <1>1 DEF ReadsInv
<1>3. ControlTypes' /\ ReadTypes'
  BY <1>2, ControlStep, ReadTypesStep
<1>4. SessionAtPlace' /\ ReaderAtPlace' /\ ReaderGoneIsKnown'
  BY <1>1, SessionStep, ReaderStep, GoneStep
<1>5. WriteTypes' /\ WriterAtPlace' /\ WireInv'
  BY <1>1, <1>2, WriteTypesStep, WriterStep, WireStep
<1> QED BY <1>3, <1>4, <1>5 DEF BackendInv, ReadsInv

\* The inductive invariant, for every length of block, number of attempts, blocks and
\* bytes.
THEOREM BackendInvariant == Spec => [](BackendInv /\ WireInv)
BY InitBackend, BackendStep, PTL DEF Spec

\* No byte the driver moved into a read is lost in the backend, and a read thread that is
\* gone was stopped or has reported its fault and marked the port (run_read_loop,
\* serial_backend_win.cpp).
THEOREM ReadsAreExact == Spec => []ReadsExact
<1>1. BackendInv => ReadsExact
  BY TypesSplit DEF BackendInv, ReadsInv, ReadsExact, ReadsDelivered, ReaderAtPlace
<1> QED BY <1>1, BackendInvariant, PTL

\* What went out and what write() reported of it agree, over short, cut and retried
\* writes, as long as no request of an earlier write() is left with the driver.
THEOREM WritesAreExact == Spec => []WritesExact
<1>1. WireInv => WritesExact
  <2> SUFFICES ASSUME WireInv PROVE WireInOrder /\ WrittenWasSent
    BY DEF WritesExact
  <2>1. WireInOrder
    BY DEF WireInv, WireInOrder, OrderOf
  <2>2. WrittenWasSent
    BY CountSent DEF WireInv, WrittenWasSent, WrittenOut
  <2> QED BY <2>1, <2>2
<1> QED BY <1>1, BackendInvariant, PTL

\* The two parts of ReaderEndsClean, as predicates of a step.
CompletedStep == reader \notin {"none", "failed"} /\ reader' = "none" => read.state \in {"none", "pending"}
FaultStep == /\ delivered' > delivered => ~fault
             /\ fault' /\ ~fault => ~stop \/ bounded

\* Each step of the read thread ends clean.
LEMMA EndsCleanStep == ReadsInv /\ [Next]_vars => CompletedStep /\ FaultStep
<1> SUFFICES ASSUME ReadsInv, [Next]_vars PROVE CompletedStep /\ FaultStep
  OBVIOUS
<1> USE DEF CompletedStep, FaultStep, ReadsInv, ReaderAtPlace, readVars
<1>0. delivered \in Nat
  BY Numbers DEF ReadTypes
<1>1. CASE ReaderLoop \/ ReaderArms \/ ReaderWakes
  BY <1>0, <1>1 DEF ReaderLoop, ReaderArms, ReaderWakes, Reads, Idle
<1>2. CASE ReaderIssue
  BY <1>0, <1>2 DEF ReaderIssue, Reads
<1>3. CASE ReaderGivesUp
  BY <1>0, <1>3 DEF ReaderGivesUp, Reads
<1>4. CASE ReaderDecides
  BY <1>0, <1>4 DEF ReaderDecides, Reads
<1>5. CASE ReaderReaps
  BY <1>0, <1>5 DEF ReaderReaps, Reads
<1>6. CASE ReaderFails
  BY <1>0, <1>6 DEF ReaderFails, Reads
<1>7. CASE DriverMoves \/ DriverEndsRead
  BY <1>0, <1>7 DEF DriverMoves, DriverEndsRead, threads
<1>8. CASE Open
  BY <1>0, <1>8 DEF Open
<1>9. CASE CloseEnds
  <2>1. delivered' = 0 /\ fault' = FALSE /\ reader' = reader
    BY <1>9 DEF CloseEnds, EndOfHistory
  <2> QED BY <1>0, <2>1
<1>10. CASE UNCHANGED <<readVars, reader>> \/ UNCHANGED vars
  BY <1>0, <1>10 DEF vars, threads
<1> QED BY <1>1, <1>2, <1>3, <1>4, <1>5, <1>6, <1>7, <1>8, <1>9, <1>10, OthersRead DEF Reader

\* A read thread ends with nothing left to deliver, nothing is delivered behind the report
\* of a fault, and no close is reported as one.
THEOREM ReaderIsClean == Spec => ReaderEndsClean
<1>1. BackendInv /\ [Next]_vars => [CompletedStep]_vars /\ [FaultStep]_vars
  BY EndsCleanStep DEF BackendInv
<1>2. Spec => [][CompletedStep]_vars /\ [][FaultStep]_vars
  BY <1>1, BackendInvariant, PTL DEF Spec
<1>3. [][CompletedStep]_vars => CompletedIsReaped
  BY PTL DEF CompletedStep, CompletedIsReaped
<1>4. [][FaultStep]_vars => FaultIsLast
  BY PTL DEF FaultStep, FaultIsLast
<1> QED BY <1>2, <1>3, <1>4 DEF ReaderEndsClean
===============================================================================
