--------------------------- MODULE TxPipelineProofs ---------------------------
(***************************************************************************)
(* Theorems about TxPipeline, for every number of blocks, sends, sessions, *)
(* templates and ring slots.                                               *)
(***************************************************************************)
EXTENDS TxPipelineInv, SequenceTheorems, FiniteSetTheorems, TLAPS

-----------------------------------------------------------------------------
(* Queues.                                                                 *)

\* Putting an event into a queue adds it and moves none of the others.
LEMMA AppendLemma ==
  ASSUME NEW S, NEW s \in Seq(S), NEW e \in S
  PROVE  /\ Append(s, e) \in Seq(S)
         /\ In(Append(s, e)) = In(s) \cup {e}
         /\ DOMAIN Append(s, e) = DOMAIN s \cup {Len(s) + 1}
         /\ Len(s) + 1 \notin DOMAIN s
         /\ \A i \in DOMAIN s : Append(s, e)[i] = s[i]
         /\ Append(s, e)[Len(s) + 1] = e
<1>1. Len(s) \in Nat /\ DOMAIN s = 1 .. Len(s)
  OBVIOUS
<1>2. /\ Append(s, e) \in Seq(S) /\ Len(Append(s, e)) = Len(s) + 1
      /\ \A i \in 1 .. Len(s) : Append(s, e)[i] = s[i]
      /\ Append(s, e)[Len(s) + 1] = e
  OBVIOUS
<1>3. DOMAIN Append(s, e) = 1 .. (Len(s) + 1)
  BY <1>2
<1>4. DOMAIN Append(s, e) = DOMAIN s \cup {Len(s) + 1} /\ Len(s) + 1 \notin DOMAIN s
  BY <1>1, <1>3
<1>5. In(Append(s, e)) = In(s) \cup {e}
  BY <1>1, <1>2, <1>4 DEF In
<1> QED BY <1>1, <1>2, <1>4, <1>5

\* Taking the first event leaves the others, each one place further on.
LEMMA TailLemma ==
  ASSUME NEW S, NEW s \in Seq(S), s # <<>>
  PROVE  /\ Tail(s) \in Seq(S) /\ Head(s) \in S
         /\ In(s) = In(Tail(s)) \cup {Head(s)}
         /\ \A i \in DOMAIN Tail(s) : i + 1 \in DOMAIN s /\ i + 1 # 1 /\ Tail(s)[i] = s[i + 1]
         /\ 1 \in DOMAIN s /\ s[1] = Head(s)
         /\ DOMAIN Tail(s) \subseteq Nat
<1>1. Len(s) \in Nat \ {0} /\ DOMAIN s = 1 .. Len(s)
  OBVIOUS
<1>2. /\ Tail(s) \in Seq(S) /\ Len(Tail(s)) = Len(s) - 1
      /\ \A i \in 1 .. (Len(s) - 1) : Tail(s)[i] = s[i + 1]
      /\ Head(s) = s[1] /\ Head(s) \in S
  BY <1>1
<1>3. DOMAIN Tail(s) = 1 .. (Len(s) - 1)
  BY <1>1, <1>2
<1>4. \A i \in DOMAIN s : i = 1 \/ (i - 1 \in DOMAIN Tail(s) /\ Tail(s)[i - 1] = s[i])
  BY <1>1, <1>2, <1>3
<1>5. \A i \in DOMAIN Tail(s) : i + 1 \in DOMAIN s /\ i + 1 # 1 /\ Tail(s)[i] = s[i + 1]
  BY <1>1, <1>2, <1>3
<1>6. 1 \in DOMAIN s /\ s[1] = Head(s)
  BY <1>1, <1>2
<1>7. ASSUME NEW i \in DOMAIN s PROVE s[i] \in In(Tail(s)) \cup {Head(s)}
  <2>1. CASE i = 1
    BY <2>1, <1>6
  <2>2. CASE i - 1 \in DOMAIN Tail(s) /\ Tail(s)[i - 1] = s[i]
    BY <2>2 DEF In
  <2> QED BY <2>1, <2>2, <1>4
<1>8. In(Tail(s)) \cup {Head(s)} \subseteq In(s)
  BY <1>5, <1>6 DEF In
<1>9. In(s) = In(Tail(s)) \cup {Head(s)}
  BY <1>7, <1>8 DEF In
<1> QED BY <1>1, <1>2, <1>3, <1>5, <1>6, <1>9

\* A packet in hand is a sequence of one; queueing it is appending it.
LEMMA OneLemma ==
  ASSUME NEW S, NEW s \in Seq(S), Len(s) = 1
  PROVE  /\ s[1] \in S /\ In(s) = {s[1]} /\ 1 \in DOMAIN s /\ s # <<>>
         /\ \A T : \A t \in Seq(T) : S \subseteq T => t \o s = Append(t, s[1])
<1>1. DOMAIN s = {1} /\ s[1] \in S
  OBVIOUS
<1>2. ASSUME NEW T, NEW t \in Seq(T), S \subseteq T PROVE t \o s = Append(t, s[1])
  <2>1. s = <<s[1]>> /\ s[1] \in T
    BY <1>1, <1>2
  <2>2. \A e \in T : t \o <<e>> = Append(t, e)
    BY <1>2, AppendIsConcat
  <2> QED BY <2>1, <2>2
<1> QED BY <1>1, <1>2 DEF In

\* A sequence of one, and the empty one.
LEMMA SingleLemma ==
  ASSUME NEW S, NEW e \in S
  PROVE  <<e>> \in Seq(S) /\ Len(<<e>>) = 1 /\ <<e>>[1] = e /\ In(<<e>>) = {e}
BY DEF In

\* The empty sequence is in every set of sequences.
LEMMA EmptyLemma == \A S : <<>> \in Seq(S) /\ In(<<>>) = {}
BY DEF In

\* What the blocks and the gate see of packets.
LEMMA PacketLemma ==
  ASSUME NEW s \in Seq(Packet)
  PROVE  /\ BlocksOf(s) \subseteq Blocks
         /\ IsAuto(s) # {} <=> \E p \in In(s) : p.id = 0
         /\ Stamped(s) <=> \A p \in In(s) : p.gen = p.session
<1>1. DOMAIN s = 1 .. Len(s) /\ \A i \in DOMAIN s : s[i] \in Packet
  OBVIOUS
<1> QED BY <1>1 DEF BlocksOf, IsAuto, Stamped, In, Packet

\* Signals queued, as elements.
LEMMA QueuedLemma == \A signal : Queued(signal) <=> signal \in In(high)
BY DEF Queued, In

\* A tick is no template, and no event of teardown is one.
LEMMA KindsLemma == /\ Tick \notin Config
                    /\ \A c \in Config : c # Bare("close") /\ c # Bare("fault") /\ c # Bare("none")
                    /\ Bare("close") # Bare("fault") /\ Bare("none") # Bare("close")
                    /\ Bare("none") # Bare("fault")
                    /\ Config \subseteq Tasks
<1>1. \A c \in Config : c.kind \in {"on", "invalid", "off"}
  BY DEF Config, Template, Off, Bare
<1>2. Tick.kind = "tick" /\ \A k : Bare(k).kind = k
  BY DEF Tick, Bare
<1> QED BY <1>1, <1>2 DEF Tasks

-----------------------------------------------------------------------------
(* Frames: which actions touch a queue.                                    *)

\* Only the calls, a failed write and the lifecycle handlers touch the signals.
LEMMA HighFrame ==
  ASSUME [Next]_vars
  PROVE  \/ UNCHANGED high
         \/ OpenCall \/ CloseCall \/ WriteFails
         \/ DispatchOpen \/ DispatchClose \/ DispatchFault
<1> USE DEF port, queues, auto, dispT, writerT, abiT, history
<1>1. CASE UNCHANGED vars
  BY <1>1 DEF vars
<1>2. CASE Caller
  BY <1>2 DEF Caller, CloseReturns, SendCall, SendStamp, SendSubmit, ConfigCall, ConfigSubmit
<1>3. CASE Timer
  BY <1>3 DEF Timer, TimerTick, TimerArm, TimerSubmit
<1>4. CASE Lifecycle
  BY <1>4 DEF Lifecycle, OpenDone, StopTimer, StopWriter, JoinWriter
<1>5. CASE Sender
  BY <1>5 DEF Sender, DispatchSend, DispatchTick, DispatchConfig, ReplaceTemplate
<1>6. CASE Writer
  BY <1>6 DEF Writer, WriterPop, WriterCheck, WriteSucceeds, WriterRelease, WriterStops
<1> QED BY <1>1, <1>2, <1>3, <1>4, <1>5, <1>6 DEF Next

\* User sends are queued by the caller and taken by SendAo.
LEMMA NormalFrame ==
  ASSUME [Next]_vars
  PROVE  UNCHANGED normal \/ SendSubmit \/ DispatchSend
<1> USE DEF port, queues, auto, dispT, writerT, abiT, history
<1>1. CASE UNCHANGED vars
  BY <1>1 DEF vars
<1>2. CASE Caller
  BY <1>2 DEF Caller, OpenCall, CloseCall, CloseReturns, SendCall, SendStamp, ConfigCall,
              ConfigSubmit
<1>3. CASE Timer
  BY <1>3 DEF Timer, TimerTick, TimerArm, TimerSubmit
<1>4. CASE Lifecycle
  BY <1>4 DEF Lifecycle, DispatchOpen, OpenDone, DispatchClose, DispatchFault, StopTimer,
              StopWriter, JoinWriter
<1>5. CASE Sender
  BY <1>5 DEF Sender, DispatchTick, DispatchConfig, ReplaceTemplate
<1>6. CASE Writer
  BY <1>6 DEF Writer, WriterPop, WriterCheck, WriteSucceeds, WriteFails, WriterRelease,
              WriterStops
<1> QED BY <1>1, <1>2, <1>3, <1>4, <1>5, <1>6 DEF Next

\* Ticks and templates come from the timer and the caller and go to AutoSendAo.
LEMMA LowFrame ==
  ASSUME [Next]_vars
  PROVE  UNCHANGED low \/ ConfigSubmit \/ TimerSubmit \/ DispatchTick \/ DispatchConfig
<1> USE DEF port, queues, auto, dispT, writerT, abiT, history
<1>1. CASE UNCHANGED vars
  BY <1>1 DEF vars
<1>2. CASE Caller
  BY <1>2 DEF Caller, OpenCall, CloseCall, CloseReturns, SendCall, SendStamp, SendSubmit,
              ConfigCall
<1>3. CASE Timer
  BY <1>3 DEF Timer, TimerTick, TimerArm
<1>4. CASE Lifecycle
  BY <1>4 DEF Lifecycle, DispatchOpen, OpenDone, DispatchClose, DispatchFault, StopTimer,
              StopWriter, JoinWriter
<1>5. CASE Sender
  BY <1>5 DEF Sender, DispatchSend, ReplaceTemplate
<1>6. CASE Writer
  BY <1>6 DEF Writer, WriterPop, WriterCheck, WriteSucceeds, WriteFails, WriterRelease,
              WriterStops
<1> QED BY <1>1, <1>2, <1>3, <1>4, <1>5, <1>6 DEF Next

\* The ring of the writer has two producers, one consumer and three ends.
LEMMA JobsFrame ==
  ASSUME [Next]_vars
  PROVE  UNCHANGED jobs \/ OpenDone \/ JoinWriter \/ DispatchSend \/ DispatchTick
         \/ WriterPop \/ WriterStops
<1> USE DEF port, queues, auto, dispT, writerT, abiT, history
<1>1. CASE UNCHANGED vars
  BY <1>1 DEF vars
<1>2. CASE Caller
  BY <1>2 DEF Caller, OpenCall, CloseCall, CloseReturns, SendCall, SendStamp, SendSubmit,
              ConfigCall, ConfigSubmit
<1>3. CASE Timer
  BY <1>3 DEF Timer, TimerTick, TimerArm, TimerSubmit
<1>4. CASE Lifecycle
  BY <1>4 DEF Lifecycle, DispatchOpen, DispatchClose, DispatchFault, StopTimer, StopWriter
<1>5. CASE Sender
  BY <1>5 DEF Sender, DispatchConfig, ReplaceTemplate
<1>6. CASE Writer
  BY <1>6 DEF Writer, WriterCheck, WriteSucceeds, WriteFails, WriterRelease
<1> QED BY <1>1, <1>2, <1>3, <1>4, <1>5, <1>6 DEF Next

\* The writer thread moves itself, but for its start and its join.
LEMMA WriterFrame ==
  ASSUME [Next]_vars
  PROVE  UNCHANGED <<writer, job>> \/ OpenDone \/ JoinWriter \/ Writer
<1> USE DEF port, queues, auto, dispT, writerT, abiT, history
<1>1. CASE UNCHANGED vars
  BY <1>1 DEF vars
<1>2. CASE Caller
  BY <1>2 DEF Caller, OpenCall, CloseCall, CloseReturns, SendCall, SendStamp, SendSubmit,
              ConfigCall, ConfigSubmit
<1>3. CASE Timer
  BY <1>3 DEF Timer, TimerTick, TimerArm, TimerSubmit
<1>4. CASE Lifecycle
  BY <1>4 DEF Lifecycle, DispatchOpen, DispatchClose, DispatchFault, StopTimer, StopWriter
<1>5. CASE Sender
  BY <1>5 DEF Sender, DispatchSend, DispatchTick, DispatchConfig, ReplaceTemplate
<1> QED BY <1>1, <1>2, <1>3, <1>4, <1>5 DEF Next

\* The published state, the session numbers and the Dispatcher's place.
LEMMA PortFrame ==
  ASSUME [Next]_vars
  PROVE  \/ UNCHANGED <<port, dispatcher, task>>
         \/ Lifecycle \/ DispatchConfig \/ ReplaceTemplate
<1> USE DEF queues, auto, dispT, writerT, abiT, history
<1>1. CASE UNCHANGED vars
  BY <1>1 DEF vars
<1>2. CASE Caller
  BY <1>2 DEF Caller, OpenCall, CloseCall, CloseReturns, SendCall, SendStamp, SendSubmit,
              ConfigCall, ConfigSubmit
<1>3. CASE Timer
  BY <1>3 DEF Timer, TimerTick, TimerArm, TimerSubmit
<1>5. CASE Sender
  BY <1>5 DEF Sender, DispatchSend, DispatchTick
<1>6. CASE Writer
  BY <1>6 DEF Writer, WriterPop, WriterCheck, WriteSucceeds, WriteFails, WriterRelease,
              WriterStops
<1> QED BY <1>1, <1>2, <1>3, <1>5, <1>6 DEF Next

\* What the caller holds is its own.
LEMMA CallerFrame ==
  ASSUME [Next]_vars
  PROVE  UNCHANGED <<abi, packet, accepted>> \/ Caller
<1> USE DEF port, queues, auto, dispT, writerT, abiT, history
<1>1. CASE UNCHANGED vars
  BY <1>1 DEF vars
<1>3. CASE Timer
  BY <1>3 DEF Timer, TimerTick, TimerArm, TimerSubmit
<1>4. CASE Lifecycle
  BY <1>4 DEF Lifecycle, DispatchOpen, OpenDone, DispatchClose, DispatchFault, StopTimer,
              StopWriter, JoinWriter
<1>5. CASE Sender
  BY <1>5 DEF Sender, DispatchSend, DispatchTick, DispatchConfig, ReplaceTemplate
<1>6. CASE Writer
  BY <1>6 DEF Writer, WriterPop, WriterCheck, WriteSucceeds, WriteFails, WriterRelease,
              WriterStops
<1> QED BY <1>1, <1>3, <1>4, <1>5, <1>6 DEF Next

\* Who takes blocks from the pool and who returns them.
LEMMA BlocksFrame ==
  ASSUME [Next]_vars
  PROVE  \/ UNCHANGED <<freeBlocks, template>>
         \/ SendCall \/ SendSubmit \/ ConfigCall \/ ConfigSubmit \/ JoinWriter
         \/ DispatchSend \/ DispatchTick \/ DispatchConfig \/ ReplaceTemplate
         \/ WriterRelease \/ WriterStops
<1> USE DEF port, queues, auto, dispT, writerT, abiT, history
<1>1. CASE UNCHANGED vars
  BY <1>1 DEF vars
<1>2. CASE Caller
  BY <1>2 DEF Caller, OpenCall, CloseCall, CloseReturns, SendStamp
<1>3. CASE Timer
  BY <1>3 DEF Timer, TimerTick, TimerArm, TimerSubmit
<1>4. CASE Lifecycle
  BY <1>4 DEF Lifecycle, DispatchOpen, OpenDone, DispatchClose, DispatchFault, StopTimer, StopWriter
<1>5. CASE Sender
  BY <1>5 DEF Sender
<1>6. CASE Writer
  BY <1>6 DEF Writer, WriterPop, WriterCheck, WriteSucceeds, WriteFails
<1> QED BY <1>1, <1>2, <1>3, <1>4, <1>5, <1>6 DEF Next

\* Who arms and opens the gate, and moves the timer thread.
LEMMA AutoFrame ==
  ASSUME [Next]_vars
  PROVE  \/ UNCHANGED <<armed, timer>>
         \/ Timer \/ StopTimer \/ JoinWriter \/ DispatchTick \/ ReplaceTemplate
         \/ WriterRelease \/ WriterStops
<1> USE DEF port, queues, auto, dispT, writerT, abiT, history
<1>1. CASE UNCHANGED vars
  BY <1>1 DEF vars
<1>2. CASE Caller
  BY <1>2 DEF Caller, OpenCall, CloseCall, CloseReturns, SendCall, SendStamp, SendSubmit,
              ConfigCall, ConfigSubmit
<1>4. CASE Lifecycle
  BY <1>4 DEF Lifecycle, DispatchOpen, OpenDone, DispatchClose, DispatchFault, StopWriter
<1>5. CASE Sender
  BY <1>5 DEF Sender, DispatchSend, DispatchConfig
<1>6. CASE Writer
  BY <1>6 DEF Writer, WriterPop, WriterCheck, WriteSucceeds, WriteFails
<1> QED BY <1>1, <1>2, <1>4, <1>5, <1>6 DEF Next

-----------------------------------------------------------------------------
(* Types.                                                                  *)

\* Generations and ids stay numbers.
LEMMA NumbersStep == NumbersOK /\ [Next]_vars => NumbersOK'
<1> SUFFICES ASSUME NumbersOK, [Next]_vars PROVE NumbersOK'
  OBVIOUS
<1> USE DEF NumbersOK
<1>1. accepted' = accepted \/ accepted' = accepted + 1
  <2>1. CASE Caller
    BY <2>1 DEF Caller, OpenCall, CloseCall, CloseReturns, SendCall, SendStamp, SendSubmit,
                ConfigCall, ConfigSubmit, history
  <2> QED BY <2>1, CallerFrame
<1>2. /\ generation' \in {generation, generation + 1, openGeneration'}
      /\ openGeneration' \in {openGeneration, openGeneration + 1}
  <2> USE DEF port
  <2>1. CASE Lifecycle
    BY <2>1 DEF Lifecycle, DispatchOpen, OpenDone, DispatchClose, DispatchFault, StopTimer,
                StopWriter, JoinWriter
  <2>2. CASE DispatchConfig \/ ReplaceTemplate
    BY <2>2 DEF DispatchConfig, ReplaceTemplate
  <2> QED BY <2>1, <2>2, PortFrame
<1> QED BY <1>1, <1>2

\* The signal queue stays one.
LEMMA HighStep ==
  ASSUME high \in Seq({"open", "close", "fault"}), [Next]_vars
  PROVE  high' \in Seq({"open", "close", "fault"})
<1>1. CASE OpenCall \/ CloseCall
  BY <1>1 DEF OpenCall, CloseCall
<1>2. CASE WriteFails
  BY <1>2 DEF WriteFails, ReportFault
<1>3. CASE DispatchOpen \/ DispatchClose \/ DispatchFault
  <2>1. high # <<>> /\ high' = Tail(high)
    BY <1>3 DEF DispatchOpen, DispatchClose, DispatchFault, Dispatch
  <2> QED BY <2>1
<1> QED BY <1>1, <1>2, <1>3, HighFrame

\* The queue of SendAo stays one of packets.
LEMMA NormalStep ==
  ASSUME QueuesOK, PacketOK, [Next]_vars
  PROVE  normal' \in Seq(Packet)
<1> USE DEF QueuesOK
<1>1. CASE SendSubmit
  <2>1. packet \in Seq(Packet)
    BY <1>1 DEF SendSubmit, Idle, PacketOK
  <2>2. normal \o packet \in Seq(Packet)
    BY <2>1, ConcatProperties
  <2> QED BY <1>1, <2>2 DEF SendSubmit
<1>2. CASE DispatchSend
  BY <1>2 DEF DispatchSend
<1> QED BY <1>1, <1>2, NormalFrame

\* The queue of AutoSendAo stays one of ticks and templates.
LEMMA LowStep ==
  ASSUME QueuesOK, PacketOK, [Next]_vars
  PROVE  low' \in Seq(Config \cup {Tick})
<1> USE DEF QueuesOK
<1>1. CASE ConfigSubmit
  <2>1. packet \in Seq(Config \cup {Tick})
    BY <1>1 DEF ConfigSubmit, Idle, PacketOK
  <2>2. low \o packet \in Seq(Config \cup {Tick})
    BY <2>1, ConcatProperties
  <2> QED BY <1>1, <2>2 DEF ConfigSubmit
<1>2. CASE TimerSubmit
  <2>1. Append(low, Tick) \in Seq(Config \cup {Tick})
    BY AppendProperties
  <2>2. low' = Append(low, Tick) \/ low' = low
    BY <1>2 DEF TimerSubmit
  <2> QED BY <2>1, <2>2
<1>3. CASE DispatchTick \/ DispatchConfig
  <2>1. low # <<>> /\ low' = Tail(low)
    BY <1>3 DEF DispatchTick, DispatchConfig
  <2> QED BY <2>1, TailLemma
<1> QED BY <1>1, <1>2, <1>3, LowFrame

\* The ring of the writer stays one of packets.
LEMMA JobsStep ==
  ASSUME QueuesOK, NumbersOK, BlocksOK, [Next]_vars
  PROVE  jobs' \in Seq(Packet)
<1> USE DEF QueuesOK
<1>1. CASE OpenDone
  <2>1. jobs' = <<>> \/ jobs' = jobs
    BY <1>1 DEF OpenDone
  <2> QED BY <2>1, EmptyLemma
<1>2. CASE JoinWriter \/ WriterStops
  <2>1. jobs' = <<>>
    BY <1>2 DEF JoinWriter, WriterStops, LeavesNoJob
  <2> QED BY <2>1, EmptyLemma
<1>3. CASE DispatchSend
  <2>1. Head(normal) \in Packet
    BY <1>3 DEF DispatchSend
  <2>2. jobs' = jobs \/ jobs' = Append(jobs, Head(normal))
    BY <1>3 DEF DispatchSend, Enqueue
  <2>3. Append(jobs, Head(normal)) \in Seq(Packet)
    BY <2>1, AppendProperties
  <2> QED BY <2>2, <2>3
<1>4. CASE DispatchTick
  <2>1. CASE jobs' = jobs
    BY <2>1
  <2>2. CASE jobs' # jobs
    <3>1. PICK b \in freeBlocks :
            jobs' = Append(jobs, [id |-> 0, block |-> b, gen |-> generation,
                                  session |-> openGeneration])
      BY <1>4, <2>2 DEF DispatchTick, Enqueue
    <3>2. [id |-> 0, block |-> b, gen |-> generation, session |-> openGeneration] \in Packet
      BY DEF NumbersOK, BlocksOK, Packet
    <3> QED BY <3>1, <3>2, AppendProperties
  <2> QED BY <2>1, <2>2
<1>5. CASE WriterPop
  BY <1>5 DEF WriterPop
<1> QED BY <1>1, <1>2, <1>3, <1>4, <1>5, JobsFrame

\* The Dispatcher has a task it knows.
LEMMA TaskStep ==
  ASSUME QueuesOK, [Next]_vars
  PROVE  task' \in Tasks
<1> USE DEF QueuesOK
<1>1. {Bare("none"), Bare("close"), Bare("fault")} \subseteq Tasks /\ Config \subseteq Tasks
  BY DEF Tasks
<1>2. CASE Lifecycle
  BY <1>1, <1>2 DEF Lifecycle, DispatchOpen, OpenDone, DispatchClose, DispatchFault, StopTimer,
                    StopWriter, JoinWriter, TearDown, dispT
<1>3. CASE DispatchConfig
  <2>1. Head(low) \in Config
    BY <1>3 DEF DispatchConfig
  <2> QED BY <2>1, <1>1, <1>3 DEF DispatchConfig, TearDown, dispT
<1>4. CASE ReplaceTemplate
  BY <1>1, <1>4 DEF ReplaceTemplate
<1> QED BY <1>2, <1>3, <1>4, PortFrame

\* A packet being made or stamped is one packet.
LEMMA PacketStep ==
  ASSUME PacketOK, NumbersOK, BlocksOK, [Next]_vars
  PROVE  PacketOK'
<1> USE DEF PacketOK
<1>1. CASE UNCHANGED <<abi, packet, accepted>>
  BY <1>1
<1>2. CASE Caller
  <2>1. CASE SendCall
    <3>1. PICK b \in freeBlocks : packet' = <<[id |-> accepted + 1, block |-> b, gen |-> 0,
                                              session |-> openGeneration]>>
      BY <2>1 DEF SendCall
    <3>2. [id |-> accepted + 1, block |-> b, gen |-> 0, session |-> openGeneration] \in Packet
      BY DEF NumbersOK, BlocksOK, Packet
    <3> QED BY <2>1, <3>1, <3>2 DEF SendCall
  <2>2. CASE SendStamp
    <3>1. packet[1] \in Packet
      BY <2>2 DEF SendStamp
    <3>2. [packet[1] EXCEPT !.gen = generation] \in Packet
      BY <3>1 DEF Packet, NumbersOK
    <3> QED BY <2>2, <3>2 DEF SendStamp
  <2>3. CASE ConfigCall
    <3>1. PICK c \in Config : packet' = <<c>>
      BY <2>3 DEF ConfigCall, Config, Template, BlocksOK
    <3> QED BY <2>3, <3>1 DEF ConfigCall
  <2>4. CASE OpenCall \/ CloseCall
    BY <2>4 DEF OpenCall, CloseCall
  <2>5. CASE CloseReturns \/ SendSubmit \/ ConfigSubmit
    BY <2>5 DEF CloseReturns, SendSubmit, ConfigSubmit, Idle
  <2> QED BY <1>2, <2>1, <2>2, <2>3, <2>4, <2>5 DEF Caller
<1> QED BY <1>1, <1>2, CallerFrame

\* The job of the writer thread is there exactly between its pop and its release.
LEMMA JobAtPlaceStep ==
  ASSUME QueuesOK, JobAtPlace, WriterAtPlace, [Next]_vars
  PROVE  JobAtPlace'
<1> USE DEF JobAtPlace
<1>1. CASE OpenDone
  <2>1. writer = "off" /\ job' = job
    BY <1>1, KindsLemma DEF OpenDone, WriterAtPlace, Ending
  <2>2. \/ writer' = "loop"
        \/ writer' = writer /\ jobs' = jobs
    BY <1>1 DEF OpenDone
  <2> QED BY <2>1, <2>2
<1>2. CASE JoinWriter
  BY <1>2 DEF JoinWriter, LeavesNoJob
<1>3. CASE Writer
  <2>1. CASE WriterPop
    <3>1. Head(jobs) \in Packet
      BY <2>1, TailLemma DEF WriterPop, QueuesOK
    <3> QED BY <2>1, <3>1, SingleLemma DEF WriterPop
  <2>2. CASE WriterCheck
    BY <2>2 DEF WriterCheck
  <2>3. CASE WriteSucceeds \/ WriteFails
    BY <2>3 DEF WriteSucceeds, WriteFails
  <2>4. CASE WriterRelease
    BY <2>4 DEF WriterRelease
  <2>5. CASE WriterStops
    BY <2>5 DEF WriterStops
  <2> QED BY <1>3, <2>1, <2>2, <2>3, <2>4, <2>5 DEF Writer
<1>4. CASE UNCHANGED <<writer, job>>
  <2>1. writer = "off" => jobs' = jobs \/ jobs' = <<>>
    <3>1. CASE DispatchSend \/ DispatchTick
      BY <3>1 DEF DispatchSend, DispatchTick, Enqueue, Enqueueable
    <3>2. CASE OpenDone \/ JoinWriter
      BY <3>2 DEF OpenDone, JoinWriter, LeavesNoJob
    <3>3. CASE WriterPop \/ WriterStops
      BY <3>3 DEF WriterPop, WriterStops
    <3> QED BY <3>1, <3>2, <3>3, JobsFrame
  <2> QED BY <1>4, <2>1
<1> QED BY <1>1, <1>2, <1>3, <1>4, WriterFrame

\* The writer is started with its session and gone when the teardown is done.
LEMMA WriterAtPlaceStep ==
  ASSUME QueuesOK, WriterAtPlace, JobAtPlace, [Next]_vars
  PROVE  WriterAtPlace'
<1> USE DEF WriterAtPlace, Ending
<1>1. writer' # "off" => writer # "off" \/ OpenDone
  <2>1. CASE Writer
    BY <2>1 DEF Writer, WriterPop, WriterCheck, WriteSucceeds, WriteFails, WriterRelease, WriterStops
  <2>2. CASE JoinWriter
    BY <2>2 DEF JoinWriter
  <2> QED BY <2>1, <2>2, WriterFrame
<1>2. CASE UNCHANGED <<port, dispatcher, task>>
  <2>1. ~OpenDone
    BY <1>2 DEF OpenDone
  <2> QED BY <1>1, <1>2, <2>1 DEF port
<1>3. CASE Lifecycle
  <2>1. CASE DispatchOpen
    BY <2>1 DEF DispatchOpen, Dispatch, writerT
  <2>2. CASE OpenDone
    BY <2>2, KindsLemma DEF OpenDone
  <2>3. CASE DispatchClose
    BY <2>3, KindsLemma DEF DispatchClose, Dispatch, TearDown, writerT, dispT
  <2>4. CASE DispatchFault
    BY <2>4, KindsLemma DEF DispatchFault, Dispatch, TearDown, writerT, dispT
  <2>5. CASE StopTimer
    BY <2>5 DEF StopTimer, TimerJoined, port, writerT
  <2>6. CASE StopWriter
    BY <2>6 DEF StopWriter, port
  <2>7. CASE JoinWriter
    BY <2>7, KindsLemma DEF JoinWriter
  <2> QED BY <1>3, <2>1, <2>2, <2>3, <2>4, <2>5, <2>6, <2>7 DEF Lifecycle
<1>4. CASE DispatchConfig
  BY <1>4, KindsLemma DEF DispatchConfig, TearDown, port, writerT, dispT
<1>5. CASE ReplaceTemplate
  <2>1. ~Ending
    BY <1>5, KindsLemma DEF ReplaceTemplate
  <2>2. UNCHANGED <<portState, writer>> /\ dispatcher' = "idle" /\ task' = Bare("none")
    BY <1>5 DEF ReplaceTemplate, port, writerT
  <2> QED BY <2>1, <2>2, KindsLemma
<1> QED BY <1>2, <1>3, <1>4, <1>5, PortFrame

\* Only blocks of the pool come back to it, and only one becomes the template.
LEMMA BlocksStep ==
  ASSUME Types, JobAtPlace, [Next]_vars
  PROVE  BlocksOK'
<1> USE DEF Types, BlocksOK
<1>1. \A c \in Config : HeldBy(c) \subseteq Blocks
  BY DEF HeldBy, Config, Template, Off, Bare
<1>2. \A p \in Packet : p.block \in Blocks
  BY DEF Packet
<1>3. \A p \in Packet : BlocksOf(<<p>>) \subseteq Blocks
  BY SingleLemma, PacketLemma
<1>4. CASE UNCHANGED <<freeBlocks, template>>
  BY <1>4
<1>5. CASE SendCall \/ DispatchTick
  BY <1>5 DEF SendCall, DispatchTick, auto
<1>6. CASE SendSubmit
  <2>1. BlocksOf(packet) \subseteq Blocks
    BY <1>6, PacketLemma DEF SendSubmit, Idle, PacketOK
  <2> QED BY <1>6, <2>1 DEF SendSubmit, auto
<1>7. CASE ConfigCall
  BY <1>7 DEF ConfigCall, auto
<1>8. CASE ConfigSubmit
  <2>1. HeldBy(packet[1]) \subseteq Blocks
    BY <1>1, <1>8, OneLemma DEF ConfigSubmit, Idle, PacketOK
  <2> QED BY <1>8, <2>1 DEF ConfigSubmit, auto
<1>9. CASE JoinWriter \/ WriterStops
  <2>1. BlocksOf(jobs) \subseteq Blocks
    BY PacketLemma DEF QueuesOK
  <2> QED BY <1>9, <2>1 DEF JoinWriter, WriterStops, LeavesNoJob, Reject
<1>10. CASE DispatchSend
  <2>1. Head(normal) \in Packet
    BY <1>10, TailLemma DEF DispatchSend, QueuesOK
  <2> QED BY <1>2, <1>3, <1>10, <2>1 DEF DispatchSend, Discard, Reject, auto
<1>11. CASE DispatchConfig
  <2>1. Head(low).kind = "invalid" => Head(low).block \in Blocks
    BY <1>11 DEF DispatchConfig, Config, Template, Off, Bare
  <2> QED BY <1>11, <2>1 DEF DispatchConfig, auto
<1>12. CASE ReplaceTemplate
  <2>1. HeldBy(task) \subseteq Blocks
    BY <1>1, <1>12 DEF ReplaceTemplate
  <2> QED BY <1>12, <2>1 DEF ReplaceTemplate
<1>13. CASE WriterRelease
  <2>1. BlocksOf(job) \subseteq Blocks /\ job[1] \in Packet
    BY <1>13, PacketLemma, OneLemma DEF WriterRelease, JobAtPlace
  <2> QED BY <1>2, <1>13, <2>1 DEF WriterRelease, Discard, Reject
<1> QED BY <1>4, <1>5, <1>6, <1>7, <1>8, <1>9, <1>10, <1>11, <1>12, <1>13, BlocksFrame

\* Every step keeps the parts of the inductive invariant together.
LEMMA PipelineStep == PipelineInv /\ [Next]_vars => PipelineInv'
<1> SUFFICES ASSUME PipelineInv, [Next]_vars PROVE PipelineInv'
  OBVIOUS
<1> USE DEF PipelineInv, Types
<1>1. NumbersOK' /\ PacketOK' /\ BlocksOK'
  BY NumbersStep, PacketStep, BlocksStep
<1>2. QueuesOK'
  BY HighStep, NormalStep, LowStep, JobsStep, TaskStep DEF QueuesOK
<1>3. JobAtPlace' /\ WriterAtPlace'
  BY JobAtPlaceStep, WriterAtPlaceStep
<1> QED BY <1>1, <1>2, <1>3

\* Threads hand each other only what they may, and the writer thread holds a
\* job, and lives, only where its session allows.
THEOREM PipelineInvariant == Spec => []PipelineInv
<1>1. Init => PipelineInv
  <2> SUFFICES ASSUME Init PROVE PipelineInv
    OBVIOUS
  <2> USE DEF Init
  <2>1. NumbersOK /\ BlocksOK /\ PacketOK
    BY DEF NumbersOK, BlocksOK, PacketOK
  <2>2. QueuesOK
    BY EmptyLemma, KindsLemma DEF QueuesOK, Tasks
  <2>3. JobAtPlace /\ WriterAtPlace
    BY KindsLemma DEF JobAtPlace, WriterAtPlace, Ending
  <2> QED BY <2>1, <2>2, <2>3 DEF PipelineInv, Types
<1> QED BY <1>1, PipelineStep, PTL DEF Spec

\* "close returns => no pending Tx": in CLOSED the writer is joined, its ring is
\* empty and it holds no job.
THEOREM ClosedMeansNoTx == Spec => []CloseMeansNoTx
<1>1. PipelineInv => CloseMeansNoTx
  BY DEF PipelineInv, JobAtPlace, WriterAtPlace, CloseMeansNoTx
<1> QED BY <1>1, PipelineInvariant, PTL

-----------------------------------------------------------------------------
(* The gate of automatic sends.                                            *)

\* A queued tick, and an automatic packet the writer has yet to release.
TickQueued  == Tick \in In(low)
AutoWaiting == \E p \in In(jobs) \cup In(job) : p.id = 0

\* What must be on the way while the gate is armed.
OnTheWay == timer = "submit" \/ TickQueued \/ AutoWaiting

\* GateHeld in terms of elements rather than places.
LEMMA GateLemma == PipelineInv => (GateHeld <=> (armed => OnTheWay))
<1> SUFFICES ASSUME PipelineInv PROVE GateHeld <=> (armed => OnTheWay)
  OBVIOUS
<1>1. jobs \in Seq(Packet) /\ job \in Seq(Packet)
  BY EmptyLemma DEF PipelineInv, Types, QueuesOK, JobAtPlace
<1>2. TickQueued <=> \E i \in DOMAIN low : low[i] = Tick
  BY DEF TickQueued, In
<1>3. AutoWaiting <=> IsAuto(jobs) \cup IsAuto(job) # {}
  BY <1>1, PacketLemma DEF AutoWaiting
<1> QED BY <1>2, <1>3, Zenon DEF GateHeld, OnTheWay

\* The same of the next state.
LEMMA GateLemmaNext == PipelineInv' => (GateHeld' <=> (armed' => OnTheWay'))
BY GateLemma, PTL

\* A tick leaves its queue when it is dispatched.
LEMMA TickStays ==
  ASSUME PipelineInv, [Next]_vars, TickQueued, ~DispatchTick
  PROVE  TickQueued'
<1>1. low \in Seq(Config \cup {Tick})
  BY DEF PipelineInv, Types, QueuesOK
<1>2. CASE UNCHANGED low
  BY <1>2 DEF TickQueued
<1>3. CASE ConfigSubmit
  <2>1. packet \in Seq(Config) /\ Len(packet) = 1
    BY <1>3 DEF ConfigSubmit, Idle, PipelineInv, Types, PacketOK
  <2>2. low \o packet = Append(low, packet[1]) /\ packet[1] \in Config
    BY <1>1, <2>1, OneLemma
  <2>3. In(low) \subseteq In(low \o packet)
    BY <1>1, <2>2, AppendLemma
  <2> QED BY <1>3, <2>3 DEF ConfigSubmit, TickQueued
<1>4. CASE TimerSubmit
  <2>1. In(low) \subseteq In(Append(low, Tick))
    BY <1>1, AppendLemma
  <2> QED BY <1>4, <2>1 DEF TimerSubmit, TickQueued
<1>5. CASE DispatchConfig
  <2>1. low # <<>> /\ low' = Tail(low) /\ Head(low) # Tick
    BY <1>5, KindsLemma DEF DispatchConfig
  <2> QED BY <1>1, <2>1, TailLemma DEF TickQueued
<1> QED BY <1>2, <1>3, <1>4, <1>5, LowFrame

\* An automatic packet waits for the writer until the writer releases it.
LEMMA AutoStays ==
  ASSUME PipelineInv, [Next]_vars, AutoWaiting
  PROVE  AutoWaiting' \/ JoinWriter \/ WriterStops \/ WriterRelease
<1>1. jobs \in Seq(Packet)
  BY DEF PipelineInv, Types, QueuesOK
<1>2. PICK p \in In(jobs) \cup In(job) : p.id = 0
  BY DEF AutoWaiting
<1>3. CASE OpenDone
  <2>1. writer = "off"
    BY <1>3, KindsLemma DEF OpenDone, PipelineInv, WriterAtPlace, Ending
  <2>2. jobs = <<>> /\ job = <<>>
    BY <2>1 DEF PipelineInv, JobAtPlace
  <2> QED BY <1>2, <2>2, EmptyLemma
<1>4. CASE DispatchSend \/ DispatchTick
  <2>1. In(jobs) \subseteq In(jobs') /\ job' = job
    <3>1. CASE DispatchSend
      <4>1. Head(normal) \in Packet
        BY <3>1, TailLemma DEF DispatchSend, PipelineInv, Types, QueuesOK
      <4>2. In(jobs) \subseteq In(Append(jobs, Head(normal)))
        BY <1>1, <4>1, AppendLemma
      <4> QED BY <3>1, <4>2 DEF DispatchSend, Enqueue
    <3>2. CASE DispatchTick
      <4>1. CASE jobs' # jobs
        <5>1. PICK b \in freeBlocks :
                jobs' = Append(jobs, [id |-> 0, block |-> b, gen |-> generation,
                                      session |-> openGeneration])
          BY <3>2, <4>1 DEF DispatchTick, Enqueue
        <5>2. [id |-> 0, block |-> b, gen |-> generation, session |-> openGeneration] \in Packet
          BY DEF PipelineInv, Types, NumbersOK, BlocksOK, Packet
        <5>3. In(jobs) \subseteq In(jobs')
          BY <1>1, <5>1, <5>2, AppendLemma
        <5> QED BY <3>2, <5>3 DEF DispatchTick
      <4> QED BY <3>2, <4>1 DEF DispatchTick
    <3> QED BY <1>4, <3>1, <3>2
  <2>2. In(job') = In(job)
    BY <2>1 DEF In
  <2>3. p \in In(jobs') \cup In(job')
    BY <1>2, <2>1, <2>2
  <2>4. In(jobs)' = In(jobs') /\ In(job)' = In(job')
    BY DEF In
  <2> QED BY <1>2, <2>3, <2>4 DEF AutoWaiting
<1>5. CASE WriterPop
  <2>1. job = <<>>
    BY <1>5 DEF WriterPop, PipelineInv, JobAtPlace
  <2>2. /\ In(jobs) = In(Tail(jobs)) \cup {Head(jobs)} /\ Head(jobs) \in Packet
        /\ jobs' = Tail(jobs) /\ job' = <<Head(jobs)>>
    BY <1>1, <1>5, TailLemma DEF WriterPop
  <2>3. In(<<Head(jobs)>>) = {Head(jobs)}
    BY <2>2, SingleLemma
  <2>4. In(job) = {}
    BY <2>1, EmptyLemma
  <2>5. p \in In(Tail(jobs)) \cup In(<<Head(jobs)>>)
    BY <1>2, <2>2, <2>3, <2>4
  <2>6. In(jobs)' = In(Tail(jobs)) /\ In(job)' = In(<<Head(jobs)>>)
    BY <2>2 DEF In
  <2> QED BY <1>2, <2>5, <2>6 DEF AutoWaiting
<1>6. CASE UNCHANGED <<jobs, job>>
  BY <1>6 DEF AutoWaiting, In
<1>7. UNCHANGED job \/ OpenDone \/ WriterPop \/ JoinWriter \/ WriterStops \/ WriterRelease
  <2>1. CASE Writer
    BY <2>1 DEF Writer, WriterCheck, WriteSucceeds, WriteFails
  <2> QED BY <2>1, WriterFrame
<1>8. CASE UNCHANGED job
  BY <1>3, <1>4, <1>5, <1>6, <1>8, JobsFrame
<1> QED BY <1>3, <1>5, <1>7, <1>8

\* Every step that takes away what an armed gate waits for puts something else
\* in its place, or opens the gate.
LEMMA GateStep == PipelineInv /\ GateHeld /\ [Next]_vars => GateHeld'
<1> SUFFICES ASSUME PipelineInv, GateHeld, [Next]_vars, armed' PROVE OnTheWay'
  BY PipelineStep, GateLemmaNext, Zenon
<1>1. armed => OnTheWay
  BY GateLemma
<1>2. TickQueued => TickQueued' \/ DispatchTick
  BY TickStays
<1>3. AutoWaiting => AutoWaiting' \/ JoinWriter \/ WriterStops \/ WriterRelease
  BY AutoStays
<1>4. jobs \in Seq(Packet) /\ low \in Seq(Config \cup {Tick})
  BY DEF PipelineInv, Types, QueuesOK
<1>5. CASE TimerArm
  <2>1. armed \/ timer' = "submit"
    BY <1>5 DEF TimerArm
  <2>2. timer # "submit" /\ ~DispatchTick /\ ~JoinWriter /\ ~WriterStops /\ ~WriterRelease
    BY <1>5 DEF TimerArm, DispatchTick, JoinWriter, WriterStops, WriterRelease, abiT, writerT, dispT
  <2> QED BY <1>1, <1>2, <1>3, <2>1, <2>2, Zenon DEF OnTheWay
<1>6. CASE TimerSubmit
  <2>1. low' = Append(low, Tick)
    BY <1>6 DEF TimerSubmit
  <2>2. Tick \in In(low')
    BY <1>4, <2>1, AppendLemma
  <2>3. TickQueued'
    BY <2>2 DEF TickQueued, In
  <2> QED BY <2>3 DEF OnTheWay
<1>7. CASE JoinWriter \/ WriterStops
  <2>1. /\ armed' = (armed /\ \A i \in DOMAIN jobs : jobs[i].id # 0)
        /\ UNCHANGED <<timer, low>> /\ job = <<>>
    BY <1>7 DEF JoinWriter, WriterStops, LeavesNoJob, queues, PipelineInv, JobAtPlace
  <2>2. armed /\ \A i \in DOMAIN jobs : jobs[i].id # 0
    BY <2>1, Zenon
  <2>3. ~AutoWaiting
    BY <2>1, <2>2, EmptyLemma DEF AutoWaiting, In
  <2> QED BY <1>1, <2>1, <2>2, <2>3 DEF OnTheWay, TickQueued, In
<1>8. CASE WriterRelease
  <2>1. /\ armed' = (armed /\ job[1].id # 0)
        /\ UNCHANGED <<timer, low, jobs>>
    BY <1>8 DEF WriterRelease, queues
  <2>2. armed /\ job[1].id # 0
    BY <2>1, Zenon
  <2>3. In(job) = {job[1]}
    BY <1>8, OneLemma DEF WriterRelease, PipelineInv, JobAtPlace
  <2>4. AutoWaiting => AutoWaiting'
    BY <2>1, <2>2, <2>3 DEF AutoWaiting, In
  <2> QED BY <1>1, <2>1, <2>2, <2>4 DEF OnTheWay, TickQueued, In
<1>9. CASE DispatchTick
  <2>1. PICK b \in freeBlocks :
          jobs' = Append(jobs, [id |-> 0, block |-> b, gen |-> generation,
                                session |-> openGeneration])
    BY <1>9 DEF DispatchTick, Enqueue
  <2>2. [id |-> 0, block |-> b, gen |-> generation, session |-> openGeneration] \in Packet
    BY DEF PipelineInv, Types, NumbersOK, BlocksOK, Packet
  <2>3. [id |-> 0, block |-> b, gen |-> generation, session |-> openGeneration] \in In(jobs')
    BY <1>4, <2>1, <2>2, AppendLemma
  <2>4. AutoWaiting'
    BY <2>3 DEF AutoWaiting, In
  <2> QED BY <2>4 DEF OnTheWay
<1>10. CASE ReplaceTemplate
  BY <1>10, Zenon DEF ReplaceTemplate
<1>11. CASE UNCHANGED <<armed, timer>>
  <2>1. armed
    BY <1>11
  <2> QED BY <1>1, <1>2, <1>3, <1>7, <1>8, <1>9, <1>11, <2>1 DEF OnTheWay
<1>12. CASE StopTimer
  <2>1. armed /\ timer # "submit"
    BY <1>12 DEF StopTimer, TimerJoined
  <2> QED BY <1>1, <1>2, <1>3, <1>7, <1>8, <1>9, <2>1 DEF OnTheWay
<1>13. CASE TimerTick
  <2>1. armed /\ timer # "submit"
    BY <1>13 DEF TimerTick
  <2> QED BY <1>1, <1>2, <1>3, <1>7, <1>8, <1>9, <2>1 DEF OnTheWay
<1> QED BY <1>5, <1>6, <1>7, <1>8, <1>9, <1>10, <1>11, <1>12, <1>13, AutoFrame DEF Timer

\* The gate of automatic sends is armed only while the timer thread, a queued
\* tick or a packet in the writer's hands will open it again.
THEOREM GateAlwaysHeld == Spec => []GateHeld
<1>1. Init => GateHeld
  BY Zenon DEF Init, GateHeld
<1> QED BY <1>1, GateStep, PipelineInvariant, PTL DEF Spec

-----------------------------------------------------------------------------
(* Sessions, when the caller waits for CLOSED.                             *)

\* Queueing a signal adds it, and keeps it single if it was not there.
LEMMA SignalAppend ==
  ASSUME high \in Seq({"open", "close", "fault"}), NEW e \in {"open", "close", "fault"},
         high' = Append(high, e)
  PROVE  \A s : /\ Queued(s)' <=> Queued(s) \/ s = e
                /\ AtMostOne(s) /\ (s # e \/ ~Queued(s)) => AtMostOne(s)'
<1>1. /\ In(high') = In(high) \cup {e}
      /\ DOMAIN high' = DOMAIN high \cup {Len(high) + 1}
      /\ \A i \in DOMAIN high : high'[i] = high[i]
      /\ high'[Len(high) + 1] = e
  BY AppendLemma
<1>2. ASSUME NEW s PROVE Queued(s)' <=> Queued(s) \/ s = e
  BY <1>1 DEF Queued, In
<1>3. ASSUME NEW s, AtMostOne(s), s # e \/ ~Queued(s) PROVE AtMostOne(s)'
  BY <1>1, <1>3 DEF Queued, AtMostOne
<1> QED BY <1>2, <1>3

\* Taking a signal removes it; a single one is then gone.
LEMMA SignalTail ==
  ASSUME high \in Seq({"open", "close", "fault"}), high # <<>>, high' = Tail(high)
  PROVE  \A s : /\ Queued(s) <=> Queued(s)' \/ s = Head(high)
                /\ AtMostOne(s) => AtMostOne(s)'
                /\ AtMostOne(s) /\ s = Head(high) => ~Queued(s)'
<1>1. /\ In(high) = In(high') \cup {Head(high)}
      /\ \A i \in DOMAIN high' : i + 1 \in DOMAIN high /\ i + 1 # 1 /\ high'[i] = high[i + 1]
      /\ 1 \in DOMAIN high /\ high[1] = Head(high)
      /\ DOMAIN high' \subseteq Nat
  BY TailLemma
<1>2. ASSUME NEW s PROVE Queued(s) <=> Queued(s)' \/ s = Head(high)
  BY <1>1 DEF Queued, In
<1>3. ASSUME NEW s, AtMostOne(s) PROVE AtMostOne(s)'
  <2>1. \A i, j \in DOMAIN high' : i \in Nat /\ j \in Nat /\ (i + 1 = j + 1 => i = j)
    BY <1>1
  <2> QED BY <1>1, <1>3, <2>1 DEF AtMostOne
<1>4. ASSUME NEW s, AtMostOne(s), s = Head(high) PROVE ~Queued(s)'
  BY <1>1, <1>4 DEF AtMostOne, Queued
<1> QED BY <1>2, <1>3, <1>4

\* Only the calls put an open or a close into the queue; taking a single one
\* leaves none.
LEMMA SignalFrame ==
  ASSUME PipelineInv, [Next]_vars
  PROVE  \A s \in {"open", "close"} :
           /\ Queued(s)' => \/ Queued(s)
                            \/ s = "open" /\ OpenCall
                            \/ s = "close" /\ CloseCall
           /\ AtMostOne(s) => \/ AtMostOne(s)'
                              \/ s = "open" /\ OpenCall /\ Queued(s)
                              \/ s = "close" /\ CloseCall /\ Queued(s)
           /\ AtMostOne(s) /\ s = "open" /\ DispatchOpen => ~Queued(s)'
           /\ AtMostOne(s) /\ s = "close" /\ DispatchClose => ~Queued(s)'
<1>1. high \in Seq({"open", "close", "fault"})
  BY DEF PipelineInv, Types, QueuesOK
<1>2. CASE UNCHANGED high
  <2>1. ~DispatchOpen /\ ~DispatchClose
    BY <1>1, <1>2 DEF DispatchOpen, DispatchClose, Dispatch
  <2> QED BY <1>2, <2>1 DEF Queued, AtMostOne
<1>3. CASE OpenCall
  <2>1. high' = Append(high, "open") /\ ~DispatchOpen /\ ~DispatchClose
    BY <1>1, <1>3 DEF OpenCall, DispatchOpen, DispatchClose, Dispatch
  <2> QED BY <1>1, <1>3, <2>1, SignalAppend
<1>4. CASE CloseCall
  <2>1. high' = Append(high, "close") /\ ~DispatchOpen /\ ~DispatchClose
    BY <1>1, <1>4 DEF CloseCall, DispatchOpen, DispatchClose, Dispatch
  <2> QED BY <1>1, <1>4, <2>1, SignalAppend
<1>5. CASE WriteFails
  <2>1. ~DispatchOpen /\ ~DispatchClose
    BY <1>5 DEF WriteFails, DispatchOpen, DispatchClose, writerT
  <2>2. CASE high' = Append(high, "fault")
    BY <1>1, <2>1, <2>2, SignalAppend
  <2> QED BY <1>2, <1>5, <2>2 DEF WriteFails, ReportFault
<1>6. CASE DispatchOpen \/ DispatchClose \/ DispatchFault
  <2>1. /\ high # <<>> /\ high' = Tail(high)
        /\ DispatchOpen => Head(high) = "open"
        /\ DispatchClose => Head(high) = "close"
    BY <1>6 DEF DispatchOpen, DispatchClose, DispatchFault, Dispatch
  <2> QED BY <1>1, <2>1, SignalTail
<1> QED BY <1>2, <1>3, <1>4, <1>5, <1>6, HighFrame

\* Who moves the state of the port, its numbers and the task of the Dispatcher.
LEMMA PortMoves ==
  ASSUME PipelineInv, [Next]_vars
  PROVE  /\ generation' # generation \/ openGeneration' # openGeneration
              => OpenDone \/ (JoinWriter /\ task = Bare("close"))
         /\ dispatcher' = "open" => dispatcher = "open" \/ DispatchOpen
         /\ portState' = "OPEN" => portState = "OPEN" \/ OpenDone
         /\ task' = Bare("close") => task = Bare("close") \/ DispatchClose
         /\ portState' # portState => \/ DispatchOpen \/ OpenDone
                                      \/ DispatchClose /\ task' = Bare("close")
                                      \/ DispatchFault /\ portState = "OPEN" /\ portState' = "FAULT"
                                      \/ JoinWriter /\ task = Bare("close")
<1> USE DEF port, dispT
<1>1. CASE UNCHANGED <<port, dispatcher, task>>
  BY <1>1
<1>2. CASE Lifecycle
  BY <1>2, KindsLemma
     DEF Lifecycle, DispatchOpen, OpenDone, DispatchClose, DispatchFault, StopTimer, StopWriter,
         JoinWriter, TearDown
<1>3. CASE DispatchConfig
  BY <1>3, KindsLemma DEF DispatchConfig, TearDown
<1>4. CASE ReplaceTemplate
  BY <1>4, KindsLemma DEF ReplaceTemplate
<1> QED BY <1>1, <1>2, <1>3, <1>4, PortFrame

\* One open at a time.
LEMMA OpenAloneStep ==
  ASSUME PipelineInv, OpenAlone, [Next]_vars
  PROVE  OpenAlone'
<1> USE DEF OpenAlone
<1>1. dispatcher = "open" => portState = "OPENING"
  BY DEF PipelineInv, WriterAtPlace
<1>2. CASE OpenCall
  <2>1. /\ ~Queued("open") /\ dispatcher # "open" /\ portState # "OPEN"
        /\ UNCHANGED <<portState, dispatcher>> /\ abi' = "idle"
    BY <1>2 DEF OpenCall, OpenPending, port, dispT
  <2>2. AtMostOne("open")'
    BY <2>1, SignalFrame
  <2> QED BY <2>1, <2>2
<1>3. CASE ~OpenCall
  <2>1. AtMostOne("open")' /\ (Queued("open")' => Queued("open"))
        /\ (DispatchOpen => ~Queued("open")' /\ portState' # "OPEN")
    BY <1>3, SignalFrame DEF DispatchOpen
  <2>2. Queued("open")' => dispatcher' # "open" /\ portState' # "OPEN"
    BY <2>1, PortMoves DEF OpenDone
  <2>3. OpenPending' => OpenPending
    BY <2>1, PortMoves DEF OpenPending, DispatchOpen, Dispatch, Queued
  <2>4. ASSUME abi' # "idle" PROVE ~OpenPending' \/ abi' = "submitConfig"
    <3>1. CASE abi' = abi
      BY <2>3, <2>4, <3>1
    <3>2. CASE CloseCall
      BY <2>3, <3>2 DEF CloseCall
    <3>3. CASE SendCall
      <4>1. ~OpenPending
        BY <1>1, <3>3 DEF SendCall, OpenPending
      <4> QED BY <2>3, <4>1
    <3>4. CASE SendStamp
      <4>1. ~OpenPending
        BY <3>4 DEF SendStamp
      <4> QED BY <2>3, <4>1
    <3>5. CASE ConfigCall
      BY <3>5 DEF ConfigCall
    <3>6. CASE CloseReturns \/ SendSubmit \/ ConfigSubmit
      BY <2>4, <3>6 DEF CloseReturns, SendSubmit, ConfigSubmit, Idle
    <3> QED BY <1>3, <3>1, <3>2, <3>3, <3>4, <3>5, <3>6, CallerFrame DEF Caller
  <2> QED BY <2>1, <2>2, <2>4
<1> QED BY <1>2, <1>3

\* The caller waits for the close it has asked for.
LEMMA CloseAwaitedStep ==
  ASSUME CloseWaits, PipelineInv, OpenAlone, CloseAwaited, [Next]_vars
  PROVE  CloseAwaited'
<1> USE DEF CloseAwaited
<1>1. dispatcher \in {"idle", "open"} => task # Bare("close")
  BY KindsLemma DEF PipelineInv, WriterAtPlace
<1>2. CASE CloseCall
  <2>1. /\ ~Queued("close") /\ portState \in {"OPEN", "FAULT"} /\ abi' = "closing"
        /\ UNCHANGED <<portState, task>>
    BY <1>2 DEF CloseCall, port, dispT
  <2>2. AtMostOne("close")'
    BY <2>1, SignalFrame
  <2> QED BY <2>1, <2>2
<1>3. CASE ~CloseCall
  <2>1. /\ AtMostOne("close")' /\ (Queued("close")' => Queued("close"))
        /\ DispatchClose => ~Queued("close")' /\ Queued("close")
    <3>1. DispatchClose => Queued("close")
      BY DEF DispatchClose, Dispatch, Queued, PipelineInv, Types, QueuesOK
    <3> QED BY <1>3, <3>1, SignalFrame
  <2>2. task' = Bare("close") => task = Bare("close") \/ DispatchClose
    BY PortMoves
  <2>3. ClosePending' => ClosePending
    BY <2>1, <2>2 DEF ClosePending
  <2>4. ClosePending => abi' = "closing"
    <3> SUFFICES ASSUME ClosePending PROVE abi' = "closing"
      OBVIOUS
    <3>1. abi = "closing" /\ portState # "CLOSED"
      BY DEF ClosePending
    <3>2. CASE Caller
      BY <3>1, <3>2 DEF Caller, OpenCall, CloseCall, CloseReturns, SendCall, SendStamp, SendSubmit,
                        ConfigCall, ConfigSubmit, Idle
    <3> QED BY <3>1, <3>2, CallerFrame
  <2>5. Queued("close")' => portState' \in {"OPEN", "FAULT"} /\ task' # Bare("close")
    <3> SUFFICES ASSUME Queued("close")' PROVE portState' \in {"OPEN", "FAULT"} /\ task' # Bare("close")
      OBVIOUS
    <3>1. portState \in {"OPEN", "FAULT"} /\ task # Bare("close") /\ ~DispatchClose
      BY <2>1
    <3>2. ~OpenPending
      BY <2>1 DEF OpenAlone, ClosePending
    <3>3. ~DispatchOpen /\ ~OpenDone
      BY <3>2 DEF OpenPending, DispatchOpen, Dispatch, OpenDone, Queued, PipelineInv, Types, QueuesOK
    <3> QED BY <2>2, <3>1, <3>3, PortMoves
  <2>6. task' = Bare("close") => portState' = "CLOSING"
    <3>1. CASE DispatchClose
      BY <1>1, <3>1 DEF DispatchClose, Dispatch, dispT
    <3>2. CASE task = Bare("close")
      <4>1. portState = "CLOSING" /\ ~DispatchOpen /\ ~OpenDone /\ ~DispatchFault
        BY <1>1, <3>2 DEF DispatchOpen, DispatchFault, Dispatch, OpenDone
      <4>2. JoinWriter => task' # Bare("close")
        BY KindsLemma DEF JoinWriter
      <4> QED BY <3>1, <4>1, <4>2, PortMoves
    <3> QED BY <2>2, <3>1, <3>2
  <2> QED BY <2>1, <2>3, <2>4, <2>5, <2>6
<1> QED BY <1>2, <1>3

\* A session keeps its number until its writer is gone.
LEMMA GenerationStep ==
  ASSUME PipelineInv, CloseAwaited, GenerationAtPlace, [Next]_vars
  PROVE  GenerationAtPlace'
<1> USE DEF GenerationAtPlace
<1>1. dispatcher = "open" => writer = "off" /\ portState = "OPENING"
  BY KindsLemma DEF PipelineInv, WriterAtPlace, Ending
<1>2. CASE OpenDone
  BY <1>1, <1>2 DEF OpenDone
<1>3. CASE JoinWriter /\ task = Bare("close")
  BY <1>3, KindsLemma DEF JoinWriter
<1>4. CASE ~OpenDone /\ ~(JoinWriter /\ task = Bare("close"))
  <2>1. UNCHANGED <<generation, openGeneration>> /\ (portState' = "OPEN" => portState = "OPEN")
    BY <1>4, PortMoves
  <2>2. CASE UNCHANGED <<writer, job>>
    BY <2>1, <2>2
  <2>3. CASE JoinWriter
    BY <2>1, <2>3 DEF JoinWriter
  <2>4. CASE Writer
    BY <2>1, <2>4 DEF Writer, WriterPop, WriterCheck, WriteSucceeds, WriteFails, WriterRelease,
                      WriterStops
  <2> QED BY <1>4, <2>2, <2>3, <2>4, WriterFrame
<1> QED BY <1>2, <1>3, <1>4

\* Stamped packets stay so in any queue.
LEMMA StampedAppend ==
  ASSUME NEW s \in Seq(Packet), NEW p \in Packet, Stamped(s), p.gen = p.session
  PROVE  Stamped(Append(s, p))
<1>1. Append(s, p) \in Seq(Packet) /\ In(Append(s, p)) = In(s) \cup {p}
  BY AppendLemma
<1> QED BY <1>1, PacketLemma

\* What is left of a stamped queue is stamped, and so is what is taken.
LEMMA StampedTail ==
  ASSUME NEW s \in Seq(Packet), s # <<>>, Stamped(s)
  PROVE  Stamped(Tail(s)) /\ Head(s).gen = Head(s).session
<1>1. Tail(s) \in Seq(Packet) /\ In(s) = In(Tail(s)) \cup {Head(s)}
  BY TailLemma
<1> QED BY <1>1, PacketLemma

\* A packet by itself.
LEMMA StampedOne ==
  ASSUME NEW p \in Packet
  PROVE  Stamped(<<p>>) <=> p.gen = p.session
<1>1. <<p>> \in Seq(Packet) /\ In(<<p>>) = {p}
  BY SingleLemma
<1> QED BY <1>1, PacketLemma

\* No packet at all.
LEMMA StampedNone == Stamped(<<>>)
BY DEF Stamped

\* A packet is stamped with the generation of the session that accepted it.
LEMMA PacketsStep ==
  ASSUME PipelineInv, OpenAlone, CloseAwaited, GenerationAtPlace, PacketsStamped, [Next]_vars
  PROVE  PacketsStamped'
<1> USE DEF PacketsStamped
<1>1. normal \in Seq(Packet) /\ jobs \in Seq(Packet)
  BY DEF PipelineInv, Types, QueuesOK
<1>2. Stamped(normal')
  <2>1. CASE UNCHANGED normal
    BY <2>1
  <2>2. CASE SendSubmit
    <3>1. packet \in Seq(Packet) /\ Len(packet) = 1 /\ Stamped(packet)
      BY <2>2 DEF SendSubmit, Idle, PipelineInv, Types, PacketOK
    <3>2. packet[1] \in Packet /\ packet[1].gen = packet[1].session
      BY <3>1, OneLemma, PacketLemma
    <3>3. normal \o packet = Append(normal, packet[1])
      BY <1>1, <3>1, OneLemma
    <3>4. Stamped(normal \o packet)
      BY <1>1, <3>2, <3>3, StampedAppend
    <3> QED BY <2>1, <2>2, <3>4 DEF SendSubmit
  <2>3. CASE DispatchSend
    BY <1>1, <2>3, StampedTail DEF DispatchSend
  <2> QED BY <2>1, <2>2, <2>3, NormalFrame
<1>3. Stamped(jobs')
  <2>1. CASE OpenDone \/ JoinWriter \/ WriterStops
    <3>1. jobs' = <<>> \/ jobs' = jobs
      BY <2>1 DEF OpenDone, JoinWriter, WriterStops, LeavesNoJob
    <3> QED BY <3>1, StampedNone
  <2>2. CASE DispatchSend
    <3>1. Head(normal) \in Packet /\ Head(normal).gen = Head(normal).session
      BY <1>1, <2>2, TailLemma, StampedTail DEF DispatchSend
    <3>2. Stamped(Append(jobs, Head(normal)))
      BY <1>1, <3>1, StampedAppend
    <3> QED BY <2>2, <3>2 DEF DispatchSend, Enqueue
  <2>3. CASE DispatchTick /\ jobs' # jobs
    <3>1. PICK b \in freeBlocks :
            jobs' = Append(jobs, [id |-> 0, block |-> b, gen |-> generation,
                                  session |-> openGeneration])
      BY <2>3 DEF DispatchTick, Enqueue
    <3>2. [id |-> 0, block |-> b, gen |-> generation, session |-> openGeneration] \in Packet
      BY DEF PipelineInv, Types, NumbersOK, BlocksOK, Packet
    <3>3. generation = openGeneration
      BY <2>3 DEF DispatchTick, GenerationAtPlace
    <3> QED BY <1>1, <3>1, <3>2, <3>3, StampedAppend
  <2>4. CASE WriterPop
    BY <1>1, <2>4, StampedTail DEF WriterPop
  <2> QED BY <2>1, <2>2, <2>3, <2>4, JobsFrame
<1>4. Stamped(job')
  <2>1. CASE WriterPop
    <3>1. Head(jobs) \in Packet /\ Head(jobs).gen = Head(jobs).session
      BY <1>1, <2>1, TailLemma, StampedTail DEF WriterPop
    <3> QED BY <2>1, <3>1, StampedOne DEF WriterPop
  <2>2. CASE WriterRelease
    BY <2>2, StampedNone DEF WriterRelease
  <2>3. CASE UNCHANGED job
    BY <2>3
  <2>4. CASE ~WriterPop /\ ~WriterRelease
    <3>1. Writer \/ OpenDone \/ JoinWriter => job' = job
      BY <2>4 DEF Writer, WriterCheck, WriteSucceeds, WriteFails, WriterStops, OpenDone, JoinWriter
    <3> QED BY <2>3, <3>1, WriterFrame
  <2> QED BY <2>1, <2>2, <2>4
<1>5. ASSUME abi' = "stamp" PROVE packet'[1].session = generation'
  <2>1. CASE UNCHANGED <<abi, packet, accepted>>
    <3>1. ~OpenPending /\ ~ClosePending
      BY <1>5, <2>1 DEF OpenAlone, CloseAwaited
    <3>2. generation' = generation
      BY <3>1, PortMoves DEF OpenPending, ClosePending, OpenDone
    <3> QED BY <1>5, <2>1, <3>2
  <2>2. CASE Caller
    <3>1. SendCall
      BY <1>5, <2>2 DEF Caller, OpenCall, CloseCall, CloseReturns, SendStamp, SendSubmit,
                        ConfigCall, ConfigSubmit, Idle
    <3>2. packet'[1].session = openGeneration
      BY <3>1 DEF SendCall
    <3>3. generation = openGeneration /\ generation' = generation
      BY <3>1 DEF SendCall, GenerationAtPlace, port
    <3> QED BY <3>2, <3>3
  <2> QED BY <2>1, <2>2, CallerFrame
<1>6. ASSUME abi' = "submit" PROVE Stamped(packet')
  <2>1. CASE UNCHANGED <<abi, packet, accepted>>
    BY <1>6, <2>1
  <2>2. CASE Caller
    <3>1. SendStamp
      BY <1>6, <2>2 DEF Caller, OpenCall, CloseCall, CloseReturns, SendCall, SendSubmit,
                        ConfigCall, ConfigSubmit, Idle
    <3>2. packet[1] \in Packet
      BY <3>1, OneLemma DEF SendStamp, PipelineInv, Types, PacketOK
    <3>3. packet[1].session = generation
      BY <3>1 DEF SendStamp
    <3>4. /\ [packet[1] EXCEPT !.gen = generation] \in Packet
          /\ [packet[1] EXCEPT !.gen = generation].gen = generation
          /\ [packet[1] EXCEPT !.gen = generation].session = generation
      BY <3>2, <3>3 DEF Packet, PipelineInv, Types, NumbersOK
    <3> QED BY <3>1, <3>4, StampedOne DEF SendStamp
  <2> QED BY <2>1, <2>2, CallerFrame
<1>7. /\ Stamped(normal)' = Stamped(normal') /\ Stamped(jobs)' = Stamped(jobs')
      /\ Stamped(job)' = Stamped(job') /\ Stamped(packet)' = Stamped(packet')
  BY DEF Stamped
<1> QED BY <1>2, <1>3, <1>4, <1>5, <1>6, <1>7

\* Every step keeps the numbering of sessions, given that the caller waits.
LEMMA SessionsStep == CloseWaits /\ PipelineInv /\ SessionsInv /\ [Next]_vars => SessionsInv'
BY OpenAloneStep, CloseAwaitedStep, GenerationStep, PacketsStep DEF SessionsInv

\* The sessions and the packets keep their numbers straight when the caller
\* waits for CLOSED.
THEOREM SessionsInvariant ==
  ASSUME CloseWaits = TRUE
  PROVE  Spec => []SessionsInv
<1>1. Init => SessionsInv
  <2> SUFFICES ASSUME Init PROVE SessionsInv
    OBVIOUS
  <2>1. /\ high = <<>> /\ normal = <<>> /\ jobs = <<>> /\ job = <<>> /\ abi = "idle"
        /\ dispatcher = "idle" /\ portState = "CLOSED" /\ writer = "off" /\ task = Bare("none")
    BY DEF Init
  <2>2. OpenAlone /\ CloseAwaited
    BY <2>1, KindsLemma DEF OpenAlone, CloseAwaited, ClosePending, OpenPending, AtMostOne, Queued
  <2>3. GenerationAtPlace /\ PacketsStamped
    BY <2>1, StampedNone DEF GenerationAtPlace, PacketsStamped
  <2> QED BY <2>2, <2>3 DEF SessionsInv
<1>2. CloseWaits
  OBVIOUS
<1>3. PipelineInv /\ SessionsInv /\ [Next]_vars => SessionsInv'
  BY <1>2, SessionsStep
<1> QED BY <1>1, <1>3, PipelineInvariant, PTL DEF Spec

\* "Late events are rejected": when the caller waits for CLOSED, whatever else
\* is in flight, a packet is written to the device only in the session that
\* accepted it.
THEOREM SessionsDoNotMix ==
  ASSUME CloseWaits = TRUE
  PROVE  Spec => WrittenInItsSession
<1>1. PipelineInv /\ SessionsInv => (WriteSucceeds => job[1].session = openGeneration)
  <2> SUFFICES ASSUME PipelineInv, SessionsInv, WriteSucceeds PROVE job[1].session = openGeneration
    OBVIOUS
  <2>1. writer = "write"
    BY DEF WriteSucceeds
  <2>2. job[1].gen = generation /\ generation = openGeneration
    BY <2>1 DEF SessionsInv, GenerationAtPlace
  <2>3. 1 \in DOMAIN job
    BY <2>1, OneLemma DEF PipelineInv, JobAtPlace
  <2>4. job[1].gen = job[1].session
    BY <2>3 DEF SessionsInv, PacketsStamped, Stamped
  <2> QED BY <2>2, <2>4
<1>2. PipelineInv /\ SessionsInv => [WriteSucceeds => job[1].session = openGeneration]_vars
  BY <1>1
<1> QED BY <1>2, PipelineInvariant, SessionsInvariant, PTL DEF WrittenInItsSession

-----------------------------------------------------------------------------
(* Blocks and who has them.                                                *)

\* What an event carries.
LEMMA CarriedLemma ==
  /\ \A p \in Packet : Carried(p) = {p.block} /\ p.block \in Blocks
  /\ \A t \in Template : Carried(t) = {t.block} /\ t.block \in Blocks
  /\ \A k : Carried(Bare(k)) = {} /\ Bare(k).kind = k
<1>1. ASSUME NEW p \in Packet PROVE Carried(p) = {p.block} /\ p.block \in Blocks
  <2>1. DOMAIN p = {"id", "block", "gen", "session"}
    BY DEF Packet
  <2> QED BY <2>1 DEF Carried, Packet
<1>2. ASSUME NEW t \in Template PROVE Carried(t) = {t.block} /\ t.block \in Blocks
  <2>1. DOMAIN t = {"kind", "block"}
    BY DEF Template
  <2> QED BY <2>1 DEF Carried, Template
<1>3. ASSUME NEW k PROVE Carried(Bare(k)) = {} /\ Bare(k).kind = k
  <2>1. DOMAIN Bare(k) = {"kind"}
    BY DEF Bare
  <2> QED BY <2>1 DEF Carried, Bare
<1> QED BY <1>1, <1>2, <1>3

\* An event that may be with AutoSendAo has the block HeldBy says.
LEMMA ConfigLemma ==
  /\ \A c \in Config : Carried(c) = HeldBy(c) /\ (c.kind = "invalid" => Carried(c) = {c.block})
  /\ Carried(Tick) = {} /\ Carried(Bare("none")) = {}
<1>1. ASSUME NEW c \in Config PROVE Carried(c) = HeldBy(c) /\ (c.kind = "invalid" => Carried(c) = {c.block})
  <2>1. CASE c \in Template
    <3>1. c.kind \in {"on", "invalid"} /\ Off.kind = "off"
      BY <2>1, CarriedLemma DEF Template, Off
    <3> QED BY <2>1, <3>1, CarriedLemma DEF HeldBy
  <2>2. CASE c = Off
    BY <2>2, CarriedLemma DEF HeldBy, Off
  <2> QED BY <2>1, <2>2 DEF Config
<1> QED BY <1>1, CarriedLemma DEF Tick

\* Queueing an event brings its block.
LEMMA BlockAppend ==
  ASSUME NEW S, NEW s \in Seq(S), NEW e \in S
  PROVE  /\ BlocksIn(Append(s, e)) = BlocksIn(s) \cup Carried(e)
         /\ OneEach(s) /\ Carried(e) \cap BlocksIn(s) = {} => OneEach(Append(s, e))
<1> DEFINE t == Append(s, e)
<1>1. /\ In(t) = In(s) \cup {e} /\ DOMAIN t = DOMAIN s \cup {Len(s) + 1}
      /\ Len(s) + 1 \notin DOMAIN s /\ t[Len(s) + 1] = e
      /\ \A i \in DOMAIN s : t[i] = s[i]
  BY AppendLemma
<1> HIDE DEF t
<1>2. BlocksIn(t) = BlocksIn(s) \cup Carried(e)
  BY <1>1 DEF BlocksIn
<1>3. ASSUME OneEach(s), Carried(e) \cap BlocksIn(s) = {} PROVE OneEach(t)
  <2>1. \A i \in DOMAIN s : Carried(s[i]) \subseteq BlocksIn(s)
    BY DEF BlocksIn, In
  <2>2. \A i \in DOMAIN s : Carried(s[i]) \cap Carried(e) = {}
    BY <2>1, <1>3
  <2> QED BY <1>1, <1>3, <2>2 DEF OneEach
<1> QED BY <1>2, <1>3 DEF t

\* Taking an event takes its block.
LEMMA BlockTail ==
  ASSUME NEW S, NEW s \in Seq(S), s # <<>>
  PROVE  /\ BlocksIn(s) = BlocksIn(Tail(s)) \cup Carried(Head(s))
         /\ OneEach(s) => OneEach(Tail(s)) /\ Carried(Head(s)) \cap BlocksIn(Tail(s)) = {}
<1> DEFINE t == Tail(s)
<1> DEFINE h == Head(s)
<1>1. /\ In(s) = In(t) \cup {h} /\ 1 \in DOMAIN s /\ s[1] = h /\ DOMAIN t \subseteq Nat
      /\ \A i \in DOMAIN t : i + 1 \in DOMAIN s /\ i + 1 # 1 /\ t[i] = s[i + 1]
  BY TailLemma
<1> HIDE DEF t, h
<1>2. BlocksIn(s) = BlocksIn(t) \cup Carried(h)
  BY <1>1 DEF BlocksIn
<1>3. ASSUME OneEach(s) PROVE OneEach(t)
  <2> SUFFICES ASSUME NEW i \in DOMAIN t, NEW j \in DOMAIN t, Carried(t[i]) \cap Carried(t[j]) # {}
               PROVE  i = j
    BY DEF OneEach
  <2>1. i + 1 = j + 1 /\ i \in Nat /\ j \in Nat
    BY <1>1, <1>3 DEF OneEach
  <2> QED BY <2>1
<1>4. ASSUME OneEach(s) PROVE Carried(h) \cap BlocksIn(t) = {}
  <2>1. \A i \in DOMAIN t : Carried(s[1]) \cap Carried(s[i + 1]) = {}
    BY <1>1, <1>4 DEF OneEach
  <2>2. \A i \in DOMAIN t : Carried(h) \cap Carried(t[i]) = {}
    BY <1>1, <2>1
  <2> QED BY <2>2 DEF BlocksIn, In
<1> QED BY <1>2, <1>3, <1>4 DEF t, h

\* One event, or none.
LEMMA BlockOne ==
  /\ \A S : \A s \in Seq(S) : Len(s) = 1 => BlocksIn(s) = Carried(s[1])
  /\ BlocksIn(<<>>) = {} /\ OneEach(<<>>)
  /\ \A S : \A e \in S : BlocksIn(<<e>>) = Carried(e)
<1>1. ASSUME NEW S, NEW s \in Seq(S), Len(s) = 1 PROVE BlocksIn(s) = Carried(s[1])
  BY <1>1, OneLemma DEF BlocksIn
<1>2. BlocksIn(<<>>) = {} /\ OneEach(<<>>)
  BY EmptyLemma DEF BlocksIn, OneEach
<1>3. ASSUME NEW S, NEW e \in S PROVE BlocksIn(<<e>>) = Carried(e)
  BY SingleLemma DEF BlocksIn
<1> QED BY <1>1, <1>2, <1>3

\* Packets carry the blocks that are released with them.
LEMMA BlocksOfLemma == \A s \in Seq(Packet) : BlocksOf(s) = BlocksIn(s) /\ BlocksIn(s) \subseteq Blocks
<1> SUFFICES ASSUME NEW s \in Seq(Packet) PROVE BlocksOf(s) = BlocksIn(s) /\ BlocksIn(s) \subseteq Blocks
  OBVIOUS
<1>1. DOMAIN s = 1 .. Len(s) /\ \A i \in DOMAIN s : s[i] \in Packet
  OBVIOUS
<1>2. \A i \in DOMAIN s : Carried(s[i]) = {s[i].block}
  BY <1>1, CarriedLemma
<1>3. BlocksOf(s) = BlocksIn(s)
  <2>1. \A b : b \in BlocksOf(s) <=> \E i \in DOMAIN s : s[i].block = b
    BY <1>1 DEF BlocksOf
  <2>2. \A b : b \in BlocksIn(s) <=> \E i \in DOMAIN s : b \in Carried(s[i])
    BY DEF BlocksIn, In
  <2>3. \A b, i : i \in DOMAIN s => (b \in Carried(s[i]) <=> s[i].block = b)
    BY <1>2
  <2>4. \A b : b \in BlocksOf(s) <=> b \in BlocksIn(s)
    BY <2>1, <2>2, <2>3
  <2> QED BY <2>4, Zenon
<1> QED BY <1>3, PacketLemma

-----------------------------------------------------------------------------
(* Each step moves a block from one place to another, or none.             *)

\* What the places hold.
PlaceSets == <<freeBlocks, template, BlocksIn(normal), BlocksIn(low), BlocksIn(jobs), BlocksIn(job),
               BlocksIn(packet), Carried(task)>>

\* Where nothing moves, nothing changes.
LEMMA SamePlaces == OnePlace /\ UNCHANGED PlaceSets => OnePlace'
BY DEF OnePlace, PlacesOf, PlaceSets, Bit

\* The types of what events are taken from.
LEMMA PipelineTypes ==
  ASSUME PipelineInv
  PROVE  /\ normal \in Seq(Packet) /\ low \in Seq(Config \cup {Tick}) /\ jobs \in Seq(Packet)
         /\ job \in Seq(Packet) /\ (job # <<>> => Len(job) = 1)
         /\ freeBlocks \subseteq Blocks /\ template \subseteq Blocks /\ task \in Tasks
BY EmptyLemma DEF PipelineInv, Types, QueuesOK, BlocksOK, JobAtPlace

\* The caller takes a block for its packet, and queues or returns it.
LEMMA CallerBlocks == PipelineInv /\ BlocksInv /\ Caller => BlocksInv'
<1> SUFFICES ASSUME PipelineInv, BlocksInv, Caller PROVE BlocksInv'
  OBVIOUS
<1> USE DEF BlocksInv
<1>0. UNCHANGED <<template, jobs, job, task>>
  BY DEF Caller, OpenCall, CloseCall, CloseReturns, SendCall, SendStamp, SendSubmit, ConfigCall, ConfigSubmit,
         auto, writerT, dispT
<1>a. BlocksIn(<<>>) = {}
  BY BlockOne
<1>1. CASE OpenCall \/ CloseCall \/ CloseReturns
  <2>1. UNCHANGED <<freeBlocks, normal, low>> /\ packet = <<>> /\ packet' = <<>>
        /\ abi' \in {"idle", "closing"}
    BY <1>1 DEF OpenCall, CloseCall, CloseReturns, Idle, queues
  <2>2. OnePlace'
    BY <1>0, <2>1, SamePlaces DEF PlaceSets
  <2> QED BY <1>0, <2>1, <2>2
<1>2. CASE SendCall
  <2>1. PICK b \in freeBlocks :
          /\ freeBlocks' = freeBlocks \ {b}
          /\ packet' = <<[id |-> accepted + 1, block |-> b, gen |-> 0, session |-> openGeneration]>>
    BY <1>2 DEF SendCall
  <2>2. UNCHANGED <<normal, low>> /\ abi' = "stamp" /\ packet = <<>>
    BY <1>2 DEF SendCall, queues
  <2>3. [id |-> accepted + 1, block |-> b, gen |-> 0, session |-> openGeneration] \in Packet
    BY PipelineTypes DEF PipelineInv, Types, NumbersOK, Packet
  <2>4. BlocksIn(packet') = {b}
    BY <2>1, <2>3, BlockOne, CarriedLemma
  <2>5. OnePlace'
    BY <1>0, <1>a, <2>1, <2>2, <2>4 DEF OnePlace, PlacesOf, Bit
  <2> QED BY <1>0, <2>2, <2>5
<1>3. CASE SendStamp
  <2>1. /\ UNCHANGED <<freeBlocks, normal, low>> /\ abi' = "submit"
        /\ packet' = <<[packet[1] EXCEPT !.gen = generation]>>
        /\ packet \in Seq(Packet) /\ Len(packet) = 1
    BY <1>3 DEF SendStamp, queues, PipelineInv, Types, PacketOK
  <2>2. packet[1] \in Packet
    BY <2>1
  <2>3. /\ [packet[1] EXCEPT !.gen = generation] \in Packet
        /\ [packet[1] EXCEPT !.gen = generation].block = packet[1].block
    BY <2>2 DEF PipelineInv, Types, NumbersOK, Packet
  <2>4. BlocksIn(packet') = {packet[1].block} /\ BlocksIn(packet) = {packet[1].block}
    BY <2>1, <2>2, <2>3, BlockOne, CarriedLemma
  <2>5. OnePlace'
    BY <1>0, <2>1, <2>4, SamePlaces DEF PlaceSets
  <2> QED BY <1>0, <2>1, <2>5
<1>4. CASE SendSubmit
  <2>1. /\ UNCHANGED low /\ abi' = "idle" /\ packet' = <<>> /\ packet \in Seq(Packet) /\ Len(packet) = 1
    BY <1>4 DEF SendSubmit, Idle, PipelineInv, Types, PacketOK
  <2>2. /\ packet[1] \in Packet /\ normal \o packet = Append(normal, packet[1])
        /\ BlocksIn(packet) = Carried(packet[1])
    BY <2>1, OneLemma, PipelineTypes, BlockOne
  <2>3. Carried(packet[1]) = {packet[1].block} /\ packet[1].block \in Blocks
    BY <2>2, CarriedLemma
  <2>4. CASE normal' = normal \o packet /\ UNCHANGED freeBlocks
    <3>1. packet[1].block \notin BlocksIn(normal)
      BY <2>2, <2>3 DEF OnePlace, PlacesOf, Bit
    <3>2. BlocksIn(normal') = BlocksIn(normal) \cup {packet[1].block} /\ OneEach(normal')
      BY <2>2, <2>3, <2>4, <3>1, BlockAppend, PipelineTypes
    <3>3. OnePlace'
      BY <1>0, <1>a, <2>1, <2>2, <2>3, <2>4, <3>2 DEF OnePlace, PlacesOf, Bit
    <3> QED BY <1>0, <2>1, <3>2, <3>3
  <2>5. CASE freeBlocks' = freeBlocks \cup BlocksOf(packet) /\ UNCHANGED normal
    <3>1. freeBlocks' = freeBlocks \cup {packet[1].block}
      BY <2>1, <2>2, <2>3, <2>5, BlocksOfLemma
    <3>3. OnePlace'
      BY <1>0, <1>a, <2>1, <2>2, <2>3, <2>5, <3>1 DEF OnePlace, PlacesOf, Bit
    <3> QED BY <1>0, <2>1, <2>5, <3>3
  <2> QED BY <1>4, <2>4, <2>5 DEF SendSubmit
<1>5. CASE ConfigCall
  <2>1. UNCHANGED <<normal, low>> /\ abi' = "submitConfig" /\ packet = <<>>
    BY <1>5 DEF ConfigCall, queues
  <2>2. CASE packet' = <<Off>> /\ UNCHANGED freeBlocks
    <3>1. BlocksIn(packet') = {}
      BY <2>2, BlockOne, CarriedLemma DEF Off, Config
    <3>2. OnePlace'
      BY <1>0, <1>a, <2>1, <2>2, <3>1, SamePlaces DEF PlaceSets
    <3> QED BY <1>0, <2>1, <3>2
  <2>3. CASE \E b \in freeBlocks, kind \in {"on", "invalid"} :
                freeBlocks' = freeBlocks \ {b} /\ packet' = <<[kind |-> kind, block |-> b]>>
    <3>1. PICK b \in freeBlocks, kind \in {"on", "invalid"} :
            freeBlocks' = freeBlocks \ {b} /\ packet' = <<[kind |-> kind, block |-> b]>>
      BY <2>3
    <3>2. [kind |-> kind, block |-> b] \in Template /\ [kind |-> kind, block |-> b].block = b
      BY PipelineTypes DEF Template
    <3>3. BlocksIn(packet') = {b}
      BY <3>1, <3>2, BlockOne, CarriedLemma
    <3>4. OnePlace'
      BY <1>0, <1>a, <2>1, <3>1, <3>3 DEF OnePlace, PlacesOf, Bit
    <3> QED BY <1>0, <2>1, <3>4
  <2> QED BY <1>5, <2>2, <2>3 DEF ConfigCall
<1>6. CASE ConfigSubmit
  <2>1. /\ UNCHANGED normal /\ abi' = "idle" /\ packet' = <<>> /\ packet \in Seq(Config) /\ Len(packet) = 1
    BY <1>6 DEF ConfigSubmit, Idle, PipelineInv, Types, PacketOK
  <2>2. /\ packet[1] \in Config /\ low \o packet = Append(low, packet[1])
        /\ BlocksIn(packet) = Carried(packet[1])
    BY <2>1, OneLemma, PipelineTypes, BlockOne
  <2>3. Carried(packet[1]) = HeldBy(packet[1]) /\ Carried(packet[1]) \subseteq Blocks
    <3>1. Carried(packet[1]) = HeldBy(packet[1])
      BY <2>2, ConfigLemma
    <3>2. CASE packet[1] \in Template
      BY <3>1, <3>2, CarriedLemma
    <3>3. CASE packet[1] = Off
      BY <3>1, <3>3, CarriedLemma DEF Off
    <3> QED BY <2>2, <3>1, <3>2, <3>3 DEF Config
  <2>4. CASE low' = low \o packet /\ UNCHANGED freeBlocks
    <3>1. Carried(packet[1]) \cap BlocksIn(low) = {}
      BY <2>2, <2>3 DEF OnePlace, PlacesOf, Bit
    <3>2. BlocksIn(low') = BlocksIn(low) \cup Carried(packet[1]) /\ OneEach(low')
      <4>1. low \in Seq(Config \cup {Tick}) /\ packet[1] \in Config \cup {Tick}
        BY <2>2, PipelineTypes
      <4>2. /\ BlocksIn(Append(low, packet[1])) = BlocksIn(low) \cup Carried(packet[1])
            /\ OneEach(Append(low, packet[1]))
        BY <4>1, <3>1, BlockAppend
      <4> QED BY <4>2, <2>2, <2>4
    <3>3. OnePlace'
      BY <1>0, <1>a, <2>1, <2>2, <2>4, <3>2 DEF OnePlace, PlacesOf, Bit
    <3> QED BY <1>0, <2>1, <3>2, <3>3
  <2>5. CASE freeBlocks' = freeBlocks \cup HeldBy(packet[1]) /\ UNCHANGED low
    <3>3. OnePlace'
      BY <1>0, <1>a, <2>1, <2>2, <2>3, <2>5 DEF OnePlace, PlacesOf, Bit
    <3> QED BY <1>0, <2>1, <2>5, <3>3
  <2> QED BY <1>6, <2>4, <2>5 DEF ConfigSubmit
<1> QED BY <1>1, <1>2, <1>3, <1>4, <1>5, <1>6 DEF Caller

\* SendAo and AutoSendAo hand a block to the writer, give it back, or keep it as template.
LEMMA SenderBlocks == PipelineInv /\ BlocksInv /\ Sender => BlocksInv'
<1> SUFFICES ASSUME PipelineInv, BlocksInv, Sender PROVE BlocksInv'
  OBVIOUS
<1> USE DEF BlocksInv
<1>0. UNCHANGED <<packet, job, abi>>
  BY DEF Sender, DispatchSend, DispatchTick, DispatchConfig, ReplaceTemplate, writerT, abiT
<1>1. CASE DispatchSend
  <2> DEFINE p == Head(normal)
  <2>1. UNCHANGED <<low, template, task>> /\ normal # <<>> /\ normal' = Tail(normal)
    BY <1>1 DEF DispatchSend, auto, dispT
  <2>2. /\ p \in Packet /\ BlocksIn(normal) = BlocksIn(normal') \cup Carried(p) /\ OneEach(normal')
        /\ Carried(p) \cap BlocksIn(normal') = {}
    BY <2>1, PipelineTypes, BlockTail, TailLemma
  <2>3. Carried(p) = {p.block} /\ p.block \in Blocks
    BY <2>2, CarriedLemma
  <2>4. BlocksOf(<<p>>) = {p.block}
    BY <2>2, <2>3, BlocksOfLemma, BlockOne, SingleLemma
  <2>5. \/ freeBlocks' = freeBlocks \cup {p.block} /\ UNCHANGED jobs
        \/ jobs' = Append(jobs, p) /\ UNCHANGED freeBlocks
    BY <2>4, <1>1 DEF DispatchSend, Discard, Reject, Enqueue
  <2> HIDE DEF p
  <2>6. CASE freeBlocks' = freeBlocks \cup {p.block} /\ UNCHANGED jobs
    <3>1. OnePlace'
      BY <1>0, <2>1, <2>2, <2>3, <2>6 DEF OnePlace, PlacesOf, Bit
    <3> QED BY <1>0, <2>1, <2>2, <2>6, <3>1
  <2>7. CASE jobs' = Append(jobs, p) /\ UNCHANGED freeBlocks
    <3>1. p.block \notin BlocksIn(jobs)
      BY <2>2, <2>3 DEF OnePlace, PlacesOf, Bit
    <3>2. BlocksIn(jobs') = BlocksIn(jobs) \cup {p.block} /\ OneEach(jobs')
      BY <2>2, <2>3, <2>7, <3>1, BlockAppend, PipelineTypes
    <3>3. OnePlace'
      BY <1>0, <2>1, <2>2, <2>3, <2>7, <3>2 DEF OnePlace, PlacesOf, Bit
    <3> QED BY <1>0, <2>1, <2>2, <3>2, <3>3
  <2> QED BY <2>5, <2>6, <2>7
<1>2. CASE DispatchTick
  <2>1. UNCHANGED <<normal, template, task>> /\ low # <<>> /\ low' = Tail(low) /\ Head(low) = Tick
    BY <1>2 DEF DispatchTick, dispT
  <2>2. BlocksIn(low') = BlocksIn(low) /\ OneEach(low')
    <3>1. low \in Seq(Config \cup {Tick}) /\ Carried(Head(low)) = {}
      BY <2>1, PipelineTypes, ConfigLemma
    <3>2. BlocksIn(low) = BlocksIn(Tail(low)) \cup Carried(Head(low)) /\ OneEach(Tail(low))
      BY <2>1, <3>1, BlockTail
    <3> QED BY <2>1, <3>1, <3>2
  <2>3. CASE UNCHANGED <<freeBlocks, jobs>>
    <3>1. OnePlace'
      BY <1>0, <2>1, <2>2, <2>3, SamePlaces DEF PlaceSets
    <3> QED BY <1>0, <2>1, <2>2, <2>3, <3>1
  <2>4. CASE \E b \in freeBlocks :
               /\ Enqueue([id |-> 0, block |-> b, gen |-> generation, session |-> openGeneration])
               /\ freeBlocks' = freeBlocks \ {b}
    <3>1. PICK b \in freeBlocks :
            /\ jobs' = Append(jobs, [id |-> 0, block |-> b, gen |-> generation, session |-> openGeneration])
            /\ freeBlocks' = freeBlocks \ {b}
      BY <2>4 DEF Enqueue
    <3>2. [id |-> 0, block |-> b, gen |-> generation, session |-> openGeneration] \in Packet
      BY PipelineTypes DEF PipelineInv, Types, NumbersOK, Packet
    <3>3. Carried([id |-> 0, block |-> b, gen |-> generation, session |-> openGeneration]) = {b}
      BY <3>2, CarriedLemma
    <3>4. b \in Blocks /\ b \notin BlocksIn(jobs)
      <4>1. b \in Blocks /\ b \in freeBlocks
        BY PipelineTypes
      <4>2. PlacesOf(b) = 1
        BY <4>1 DEF OnePlace
      <4> QED BY <4>1, <4>2 DEF PlacesOf, Bit
    <3>5. BlocksIn(jobs') = BlocksIn(jobs) \cup {b} /\ OneEach(jobs')
      BY <3>1, <3>2, <3>3, <3>4, BlockAppend, PipelineTypes
    <3>6. OnePlace'
      BY <1>0, <2>1, <2>2, <3>1, <3>5 DEF OnePlace, PlacesOf, Bit
    <3> QED BY <1>0, <2>1, <2>2, <3>5, <3>6
  <2> QED BY <1>2, <2>3, <2>4 DEF DispatchTick
<1>3. CASE DispatchConfig
  <2> DEFINE c == Head(low)
  <2>1. UNCHANGED <<normal, template, jobs>> /\ low # <<>> /\ low' = Tail(low) /\ c \in Config
        /\ task = Bare("none")
    BY <1>3 DEF DispatchConfig, auto, writerT, PipelineInv, WriterAtPlace
  <2>2. /\ BlocksIn(low) = BlocksIn(low') \cup Carried(c) /\ OneEach(low')
        /\ Carried(c) \cap BlocksIn(low') = {}
    BY <2>1, PipelineTypes, BlockTail
  <2>3. Carried(task) = {} /\ (c.kind = "invalid" => Carried(c) = {c.block})
    BY <2>1, ConfigLemma
  <2>4. \/ freeBlocks' = freeBlocks \cup Carried(c) /\ UNCHANGED task
        \/ task' = c /\ UNCHANGED freeBlocks
    BY <2>3, <1>3 DEF DispatchConfig, TearDown, dispT
  <2> HIDE DEF c
  <2>5. OnePlace'
    <3>1. CASE freeBlocks' = freeBlocks \cup Carried(c) /\ UNCHANGED task
      BY <1>0, <2>1, <2>2, <2>3, <3>1 DEF OnePlace, PlacesOf, Bit
    <3>2. CASE task' = c /\ UNCHANGED freeBlocks
      BY <1>0, <2>1, <2>2, <2>3, <3>2 DEF OnePlace, PlacesOf, Bit
    <3> QED BY <2>4, <3>1, <3>2
  <2> QED BY <1>0, <2>1, <2>2, <2>5
<1>4. CASE ReplaceTemplate
  <2>1. /\ UNCHANGED <<normal, low, jobs>> /\ freeBlocks' = freeBlocks \cup template
        /\ template' = HeldBy(task) /\ task \in Config /\ task' = Bare("none")
    BY <1>4 DEF ReplaceTemplate, queues, writerT
  <2>2. HeldBy(task) = Carried(task) /\ Carried(task') = {}
    BY <2>1, ConfigLemma
  <2>3. OnePlace'
    BY <1>0, <2>1, <2>2 DEF OnePlace, PlacesOf, Bit
  <2> QED BY <1>0, <2>1, <2>3
<1> QED BY <1>1, <1>2, <1>3, <1>4 DEF Sender

\* What an end leaves on the ring of the writer goes back to the pool.
LEMMA LeavesBlocks ==
  ASSUME PipelineInv, BlocksInv, LeavesNoJob,
         UNCHANGED <<template, normal, low, job, packet, abi>>, Carried(task') = Carried(task)
  PROVE  BlocksInv'
<1>1. jobs' = <<>> /\ freeBlocks' = freeBlocks \cup BlocksIn(jobs) /\ BlocksIn(<<>>) = {} /\ OneEach(<<>>)
  BY PipelineTypes, BlocksOfLemma, BlockOne DEF LeavesNoJob, Reject
<1>2. OnePlace'
  BY <1>1 DEF BlocksInv, OnePlace, PlacesOf, Bit
<1> QED BY <1>1, <1>2 DEF BlocksInv

\* The writer pops a job, releases its block, and leaves the ring empty.
LEMMA WriterBlocks == PipelineInv /\ BlocksInv /\ Writer => BlocksInv'
<1> SUFFICES ASSUME PipelineInv, BlocksInv, Writer PROVE BlocksInv'
  OBVIOUS
<1>0. UNCHANGED <<packet, abi, template, normal, low, task>>
  BY DEF Writer, WriterPop, WriterCheck, WriteSucceeds, WriteFails, WriterRelease, WriterStops, queues, auto,
         dispT, abiT
<1>1. CASE WriterPop
  <2> DEFINE p == Head(jobs)
  <2>1. jobs # <<>> /\ jobs' = Tail(jobs) /\ job' = <<p>> /\ job = <<>> /\ UNCHANGED freeBlocks
    BY <1>1 DEF WriterPop, PipelineInv, JobAtPlace
  <2>2. /\ p \in Packet /\ BlocksIn(jobs) = BlocksIn(jobs') \cup Carried(p)
        /\ OneEach(jobs) => OneEach(jobs') /\ Carried(p) \cap BlocksIn(jobs') = {}
    BY <2>1, PipelineTypes, BlockTail, TailLemma
  <2>3. BlocksIn(job') = Carried(p) /\ BlocksIn(job) = {}
    BY <2>1, <2>2, BlockOne
  <2> HIDE DEF p
  <2>4. OnePlace'
    BY <1>0, <2>1, <2>2, <2>3 DEF BlocksInv, OnePlace, PlacesOf, Bit
  <2> QED BY <1>0, <2>2, <2>4 DEF BlocksInv
<1>2. CASE WriterCheck \/ WriteSucceeds \/ WriteFails
  <2>1. UNCHANGED <<jobs, job, freeBlocks>>
    BY <1>2 DEF WriterCheck, WriteSucceeds, WriteFails
  <2> QED BY <1>0, <2>1, SamePlaces DEF BlocksInv, PlaceSets
<1>3. CASE WriterRelease
  <2>1. UNCHANGED jobs /\ job' = <<>> /\ job \in Seq(Packet) /\ Len(job) = 1
    BY <1>3 DEF WriterRelease, PipelineInv, JobAtPlace
  <2>2. /\ BlocksIn(<<>>) = {} /\ BlocksIn(job) = Carried(job[1]) /\ BlocksOf(job) = BlocksIn(job)
        /\ Carried(job[1]) = {job[1].block}
    BY <2>1, BlockOne, BlocksOfLemma, OneLemma, CarriedLemma
  <2>3. freeBlocks' = freeBlocks \cup BlocksIn(job)
    BY <2>2, <1>3 DEF WriterRelease, Reject, Discard
  <2>4. OnePlace'
    BY <1>0, <2>1, <2>2, <2>3 DEF BlocksInv, OnePlace, PlacesOf, Bit
  <2> QED BY <1>0, <2>1, <2>4 DEF BlocksInv
<1>4. CASE WriterStops
  BY <1>0, <1>4, LeavesBlocks DEF WriterStops
<1> QED BY <1>1, <1>2, <1>3, <1>4 DEF Writer

\* The lifecycle moves no block, but that the join of the writer returns what it left.
LEMMA LifecycleBlocks == PipelineInv /\ BlocksInv /\ (Lifecycle \/ Timer \/ UNCHANGED vars) => BlocksInv'
<1> SUFFICES ASSUME PipelineInv, BlocksInv, Lifecycle \/ Timer \/ UNCHANGED vars PROVE BlocksInv'
  OBVIOUS
<1>0. Carried(Bare("close")) = {} /\ Carried(Bare("fault")) = {} /\ Carried(Bare("none")) = {}
  BY CarriedLemma
<1>1. CASE JoinWriter
  <2>1. task \in {Bare("close"), Bare("fault")} /\ task' = Bare("none")
    BY <1>1 DEF JoinWriter
  <2> QED BY <1>0, <1>1, <2>1, LeavesBlocks DEF JoinWriter, queues, abiT
<1>2. CASE OpenDone
  <2>1. jobs = <<>> /\ (jobs' = <<>> \/ jobs' = jobs)
    BY <1>2, KindsLemma DEF OpenDone, PipelineInv, WriterAtPlace, JobAtPlace, Ending
  <2>2. UNCHANGED <<freeBlocks, template, normal, low, job, packet, abi, task, jobs>>
    BY <1>2, <2>1 DEF OpenDone, queues, auto, abiT
  <2> QED BY <2>2, SamePlaces DEF BlocksInv, PlaceSets
<1>3. CASE DispatchOpen \/ DispatchClose \/ DispatchFault \/ StopTimer \/ StopWriter
  <2>1. UNCHANGED <<freeBlocks, template, normal, low, job, packet, abi, jobs>>
    BY <1>3 DEF DispatchOpen, DispatchClose, DispatchFault, StopTimer, StopWriter, queues, auto, abiT, writerT
  <2>2. \/ UNCHANGED task
        \/ task = Bare("none") /\ task' \in {Bare("close"), Bare("fault")}
    BY <1>3 DEF DispatchOpen, DispatchClose, DispatchFault, Dispatch, TearDown, StopTimer, StopWriter, dispT,
                PipelineInv, WriterAtPlace
  <2> QED BY <1>0, <2>1, <2>2, SamePlaces DEF BlocksInv, PlaceSets
<1>4. CASE Timer
  <2>1. UNCHANGED <<freeBlocks, template, normal, job, packet, abi, jobs, task>>
    BY <1>4 DEF Timer, TimerTick, TimerArm, TimerSubmit, queues, dispT, writerT, abiT
  <2>2. low' = low \/ low' = Append(low, Tick)
    BY <1>4 DEF Timer, TimerTick, TimerArm, TimerSubmit, queues
  <2>3. BlocksIn(low') = BlocksIn(low) /\ (OneEach(low) => OneEach(low'))
    <3>1. low \in Seq(Config \cup {Tick}) /\ Tick \in Config \cup {Tick} /\ Carried(Tick) = {}
      BY PipelineTypes, ConfigLemma
    <3>2. /\ BlocksIn(Append(low, Tick)) = BlocksIn(low) \cup Carried(Tick)
          /\ OneEach(low) /\ Carried(Tick) \cap BlocksIn(low) = {} => OneEach(Append(low, Tick))
      BY <3>1, BlockAppend
    <3> QED BY <2>2, <3>1, <3>2
  <2> QED BY <2>1, <2>3, SamePlaces DEF BlocksInv, PlaceSets
<1>5. CASE UNCHANGED vars
  <2>1. UNCHANGED <<freeBlocks, template, normal, low, job, packet, abi, task, jobs>>
    BY <1>5 DEF vars, queues, auto, dispT, writerT, abiT
  <2> QED BY <2>1, SamePlaces DEF BlocksInv, PlaceSets
<1> QED BY <1>1, <1>2, <1>3, <1>4, <1>5 DEF Lifecycle

\* Every step keeps each block in one place.
LEMMA BlocksInvStep == PipelineInv /\ BlocksInv /\ [Next]_vars => BlocksInv'
BY CallerBlocks, SenderBlocks, WriterBlocks, LifecycleBlocks DEF Next

\* At the start the pool has them all.
LEMMA BlocksInit == Init => BlocksInv
BY BlockOne, ConfigLemma DEF Init, BlocksInv, OnePlace, PlacesOf, Bit

\* The places of an event are counted by whether its block is there.
LEMMA PlacesLemma ==
  ASSUME NEW name, NEW s, OneEach(s), NEW b
  PROVE  IF b \in BlocksIn(s) THEN \E h : Places(name, s, b) = {h} ELSE Places(name, s, b) = {}
<1>1. \A i \in DOMAIN s : (b \in Carried(s[i]) <=> "block" \in DOMAIN s[i] /\ s[i].block = b)
  BY DEF Carried
<1>2. Places(name, s, b) = {<<name, i>> : i \in {j \in DOMAIN s : b \in Carried(s[j])}}
  BY <1>1 DEF Places
<1>3. ASSUME b \in BlocksIn(s) PROVE \E h : Places(name, s, b) = {h}
  <2>1. PICK i \in DOMAIN s : b \in Carried(s[i])
    BY <1>3 DEF BlocksIn, In
  <2>2. \A j \in DOMAIN s : b \in Carried(s[j]) => j = i
    BY <2>1 DEF OneEach
  <2>3. {j \in DOMAIN s : b \in Carried(s[j])} = {i}
    BY <2>1, <2>2
  <2>4. {<<name, x>> : x \in {i}} = {<<name, i>>}
    OBVIOUS
  <2>5. Places(name, s, b) = {<<name, i>>}
    BY <1>2, <2>3, <2>4
  <2> QED BY <2>5
<1>4. ASSUME b \notin BlocksIn(s) PROVE Places(name, s, b) = {}
  <2>1. \A j \in DOMAIN s : b \notin Carried(s[j])
    BY <1>4 DEF BlocksIn, In
  <2> QED BY <1>2, <2>1
<1> QED BY <1>3, <1>4

\* Each block has one holder.
LEMMA BlocksExactLemma == PipelineInv /\ BlocksInv => BlocksConserved
<1> SUFFICES ASSUME PipelineInv, BlocksInv, NEW b \in Blocks PROVE Cardinality(Holders(b)) = 1
  BY DEF BlocksConserved
<1> DEFINE tasks == IF task \in Config THEN <<task>> ELSE <<>>
<1>1. OneEach(normal) /\ OneEach(low) /\ OneEach(jobs) /\ OneEach(job) /\ OneEach(packet) /\ OneEach(tasks)
  <2>1. \A s : Len(s) = 1 /\ DOMAIN s = {1} => OneEach(s)
    BY DEF OneEach
  <2>2. OneEach(job)
    <3>1. Len(job) = 1 => DOMAIN job = {1}
      BY PipelineTypes
    <3>2. CASE job = <<>>
      BY <3>2, BlockOne
    <3>3. CASE job # <<>>
      <4>1. Len(job) = 1
        BY <3>3, PipelineTypes
      <4> QED BY <2>1, <3>1, <4>1
    <3> QED BY <3>2, <3>3
  <2>3. OneEach(packet)
    BY <2>1, BlockOne DEF BlocksInv, PipelineInv, Types, PacketOK
  <2>4. OneEach(tasks)
    BY <2>1, BlockOne
  <2> QED BY <2>2, <2>3, <2>4 DEF BlocksInv
<1>2. BlocksIn(tasks) = Carried(task)
  <2>1. task \in Config => BlocksIn(tasks) = Carried(task)
    BY BlockOne
  <2>2. task \notin Config => tasks = <<>> /\ Carried(task) = {}
    BY PipelineTypes, CarriedLemma DEF Tasks
  <2> QED BY <2>1, <2>2, BlockOne
<1> HIDE DEF tasks
<1> DEFINE inT == {<<"template", t>> : t \in template \cap {b}}
<1> DEFINE inF == {<<"free", f>> : f \in freeBlocks \cap {b}}
<1>3. /\ IF b \in template THEN \E h : inT = {h} ELSE inT = {}
      /\ IF b \in freeBlocks THEN \E h : inF = {h} ELSE inF = {}
  <2>1. \A name, s : IF b \in s THEN {<<name, x>> : x \in s \cap {b}} = {<<name, b>>}
                                ELSE {<<name, x>> : x \in s \cap {b}} = {}
    OBVIOUS
  <2>2. IF b \in template THEN inT = {<<"template", b>>} ELSE inT = {}
    BY <2>1
  <2>3. IF b \in freeBlocks THEN inF = {<<"free", b>>} ELSE inF = {}
    BY <2>1
  <2> HIDE DEF inT, inF
  <2> QED BY <2>2, <2>3
<1> HIDE DEF inT, inF
<1> DEFINE n == Places("normal", normal, b)
           l == Places("low", low, b)
           r == Places("jobs", jobs, b)
           j == Places("job", job, b)
           p == Places("packet", packet, b)
           k == Places("task", tasks, b)
<1>4. Holders(b) = n \cup l \cup r \cup j \cup p \cup k \cup inT \cup inF
  BY DEF Holders, inT, inF, tasks
<1>5. /\ IF b \in BlocksIn(normal) THEN \E h : n = {h} ELSE n = {}
      /\ IF b \in BlocksIn(low) THEN \E h : l = {h} ELSE l = {}
      /\ IF b \in BlocksIn(jobs) THEN \E h : r = {h} ELSE r = {}
      /\ IF b \in BlocksIn(job) THEN \E h : j = {h} ELSE j = {}
      /\ IF b \in BlocksIn(packet) THEN \E h : p = {h} ELSE p = {}
      /\ IF b \in Carried(task) THEN \E h : k = {h} ELSE k = {}
  BY <1>1, <1>2, PlacesLemma
<1> HIDE DEF n, l, r, j, p, k
<1>6. PlacesOf(b) = 1
  BY DEF BlocksInv, OnePlace
<1>7. \E h : Holders(b) = {h}
  <2>1. \/ b \in freeBlocks \/ b \in template \/ b \in BlocksIn(normal) \/ b \in BlocksIn(low)
        \/ b \in BlocksIn(jobs) \/ b \in BlocksIn(job) \/ b \in BlocksIn(packet) \/ b \in Carried(task)
    BY <1>6 DEF PlacesOf, Bit
  <2>2. CASE b \in freeBlocks
    <3>1. n = {} /\ l = {} /\ r = {} /\ j = {} /\ p = {} /\ k = {} /\ inT = {}
      BY <1>3, <1>5, <1>6, <2>2 DEF PlacesOf, Bit
    <3> QED BY <3>1, <1>3, <1>4, <2>2
  <2>3. CASE b \in template
    <3>1. n = {} /\ l = {} /\ r = {} /\ j = {} /\ p = {} /\ k = {} /\ inF = {}
      BY <1>3, <1>5, <1>6, <2>3 DEF PlacesOf, Bit
    <3> QED BY <3>1, <1>3, <1>4, <2>3
  <2>4. CASE b \in BlocksIn(normal)
    <3>1. inF = {} /\ l = {} /\ r = {} /\ j = {} /\ p = {} /\ k = {} /\ inT = {}
      BY <1>3, <1>5, <1>6, <2>4 DEF PlacesOf, Bit
    <3> QED BY <3>1, <1>4, <1>5, <2>4
  <2>5. CASE b \in BlocksIn(low)
    <3>1. n = {} /\ inF = {} /\ r = {} /\ j = {} /\ p = {} /\ k = {} /\ inT = {}
      BY <1>3, <1>5, <1>6, <2>5 DEF PlacesOf, Bit
    <3> QED BY <3>1, <1>4, <1>5, <2>5
  <2>6. CASE b \in BlocksIn(jobs)
    <3>1. n = {} /\ l = {} /\ inF = {} /\ j = {} /\ p = {} /\ k = {} /\ inT = {}
      BY <1>3, <1>5, <1>6, <2>6 DEF PlacesOf, Bit
    <3> QED BY <3>1, <1>4, <1>5, <2>6
  <2>7. CASE b \in BlocksIn(job)
    <3>1. n = {} /\ l = {} /\ r = {} /\ inF = {} /\ p = {} /\ k = {} /\ inT = {}
      BY <1>3, <1>5, <1>6, <2>7 DEF PlacesOf, Bit
    <3> QED BY <3>1, <1>4, <1>5, <2>7
  <2>8. CASE b \in BlocksIn(packet)
    <3>1. n = {} /\ l = {} /\ r = {} /\ j = {} /\ inF = {} /\ k = {} /\ inT = {}
      BY <1>3, <1>5, <1>6, <2>8 DEF PlacesOf, Bit
    <3> QED BY <3>1, <1>4, <1>5, <2>8
  <2>9. CASE b \in Carried(task)
    <3>1. n = {} /\ l = {} /\ r = {} /\ j = {} /\ p = {} /\ inF = {} /\ inT = {}
      BY <1>3, <1>5, <1>6, <2>9 DEF PlacesOf, Bit
    <3> QED BY <3>1, <1>4, <1>5, <2>9
  <2> QED BY <2>1, <2>2, <2>3, <2>4, <2>5, <2>6, <2>7, <2>8, <2>9
<1> QED BY <1>7, FS_Singleton

-----------------------------------------------------------------------------
(* The ids of the user sends among packets.                                *)

\* The places of user sends, and which of them a place is.
Users(packets) == {i \in DOMAIN packets : packets[i].id > 0}
Rank(users, i) == Cardinality({j \in users : j <= i})

\* Ranks number the elements of a finite set of numbers.
LEMMA RankLemma ==
  ASSUME NEW users, IsFiniteSet(users), users \subseteq Nat
  PROVE  /\ Cardinality(users) \in Nat
         /\ \A i \in users : Rank(users, i) \in 1 .. Cardinality(users)
         /\ \A i, j \in users : Rank(users, i) = Rank(users, j) => i = j
         /\ \A n \in 1 .. Cardinality(users) : \E i \in users : Rank(users, i) = n
<1> DEFINE upTo(i) == {j \in users : j <= i}
<1>0. \A i \in users : i \in Nat
  OBVIOUS
<1>1. Cardinality(users) \in Nat
  BY FS_CardinalityType
<1>2. ASSUME NEW i \in users
      PROVE  IsFiniteSet(upTo(i)) /\ Rank(users, i) \in Nat /\ Rank(users, i) <= Cardinality(users)
             /\ Rank(users, i) # 0
  <2>1. upTo(i) \in SUBSET users /\ i \in upTo(i)
    OBVIOUS
  <2>2. IsFiniteSet(upTo(i)) /\ Cardinality(upTo(i)) <= Cardinality(users)
    BY <2>1, FS_Subset
  <2>3. Cardinality(upTo(i)) \in Nat /\ Cardinality(upTo(i)) # 0
    BY <2>1, <2>2, FS_CardinalityType, FS_EmptySet
  <2> QED BY <2>2, <2>3 DEF Rank
<1>3. ASSUME NEW i \in users, NEW j \in users, i < j PROVE Rank(users, i) # Rank(users, j)
  <2>1. \A z \in users : z <= i => z <= j
    BY <1>0, <1>3
  <2>3. i \in Nat /\ j \in Nat /\ ~(j <= i) /\ j <= j
    BY <1>0, <1>3
  <2>4. upTo(i) \in SUBSET upTo(j) /\ j \in upTo(j) /\ j \notin upTo(i)
    BY <2>1, <2>3
  <2>2. Cardinality(upTo(j)) = Cardinality(upTo(i)) => upTo(j) = upTo(i)
    BY <2>4, <1>2, FS_Subset
  <2> QED BY <2>4, <2>2 DEF Rank
<1>4. \A i, j \in users : Rank(users, i) = Rank(users, j) => i = j
  <2> SUFFICES ASSUME NEW i \in users, NEW j \in users, Rank(users, i) = Rank(users, j) PROVE i = j
    OBVIOUS
  <2>1. i < j \/ j < i \/ i = j
    BY <1>0
  <2> QED BY <2>1, <1>3
<1> HIDE DEF upTo
<1> DEFINE ranks == {Rank(users, i) : i \in users}
<1> DEFINE f == [i \in users |-> Rank(users, i)]
<1>5. IsFiniteSet(ranks) /\ Cardinality(ranks) = Cardinality(users)
  <2>1. f \in [users -> ranks] /\ \A i \in users : f[i] = Rank(users, i)
    OBVIOUS
  <2>2. f \in Injection(users, ranks)
    BY <2>1, <1>4 DEF Injection, IsInjective
  <2>3. f \in Surjection(users, ranks)
    BY <2>1 DEF Surjection
  <2>4. ExistsBijection(users, ranks)
    BY <2>2, <2>3 DEF ExistsBijection, Bijection
  <2> QED BY <2>4, FS_Bijection
<1>6. /\ IsFiniteSet(1 .. Cardinality(users)) /\ ranks \in SUBSET (1 .. Cardinality(users))
      /\ Cardinality(1 .. Cardinality(users)) = Cardinality(users)
  <2>1. /\ IsFiniteSet(1 .. Cardinality(users))
        /\ Cardinality(1 .. Cardinality(users)) =
             IF 1 > Cardinality(users) THEN 0 ELSE Cardinality(users) - 1 + 1
    BY <1>1, FS_Interval
  <2>2. \A i \in users : Rank(users, i) \in 1 .. Cardinality(users)
    BY <1>1, <1>2
  <2> QED BY <1>1, <2>1, <2>2
<1>7. ranks = 1 .. Cardinality(users)
  BY <1>5, <1>6, FS_Subset
<1> QED BY <1>1, <1>2, <1>4, <1>7

\* UserIds has the ids of the user sends and nothing else, each from a place of its own.
LEMMA UserIdsLemma ==
  ASSUME NEW s \in Seq(Packet)
  PROVE  /\ UserIds(s) \in Seq(Nat)
         /\ In(UserIds(s)) = {p.id : p \in {q \in In(s) : q.id > 0}}
         /\ \A k, l \in DOMAIN UserIds(s) : UserIds(s)[k] = UserIds(s)[l] =>
              \/ k = l
              \/ \E i, j \in Users(s) : i # j /\ s[i].id = s[j].id
<1> DEFINE users == Users(s)
<1> DEFINE nth(n) == CHOOSE i \in users : Rank(users, i) = n
<1> DEFINE count == Cardinality(users)
<1>1. DOMAIN s = 1 .. Len(s) /\ Len(s) \in Nat /\ \A i \in DOMAIN s : s[i].id \in Nat
  <2>1. DOMAIN s = 1 .. Len(s) /\ Len(s) \in Nat /\ \A i \in DOMAIN s : s[i] \in Packet
    OBVIOUS
  <2> QED BY <2>1 DEF Packet
<1>2. IsFiniteSet(users) /\ users \subseteq Nat /\ users \subseteq DOMAIN s
  <2>1. users \in SUBSET (1 .. Len(s)) /\ 1 \in Int /\ Len(s) \in Int
    BY <1>1 DEF Users
  <2>2. IsFiniteSet(1 .. Len(s))
    BY <2>1, FS_Interval
  <2>3. IsFiniteSet(users)
    BY <2>1, <2>2, FS_Subset
  <2>4. 1 .. Len(s) \subseteq Nat
    BY <1>1
  <2> QED BY <1>1, <2>1, <2>3, <2>4
<1>3. UserIds(s) = [n \in 1 .. count |-> s[nth(n)].id]
  BY DEF UserIds, Users, Rank
<1>4. /\ count \in Nat /\ \A i \in users : Rank(users, i) \in 1 .. count
      /\ \A i, j \in users : Rank(users, i) = Rank(users, j) => i = j
      /\ \A n \in 1 .. count : \E i \in users : Rank(users, i) = n
  BY <1>2, RankLemma
<1> HIDE DEF users, count
<1>5. \A n \in 1 .. count : nth(n) \in users /\ Rank(users, nth(n)) = n
  BY <1>4
<1>6. \A i \in users : nth(Rank(users, i)) = i
  BY <1>4, <1>5
<1> HIDE DEF nth
<1>7. /\ DOMAIN UserIds(s) = 1 .. count
      /\ \A n \in 1 .. count : UserIds(s)[n] = s[nth(n)].id /\ s[nth(n)].id \in Nat
  BY <1>1, <1>2, <1>3, <1>5
<1>8. UserIds(s) \in Seq(Nat)
  <2>1. [n \in 1 .. count |-> s[nth(n)].id] \in Seq(Nat)
    BY <1>4, <1>7
  <2> QED BY <2>1, <1>3
<1>9. In(UserIds(s)) = {p.id : p \in {q \in In(s) : q.id > 0}}
  <2>1. ASSUME NEW n \in 1 .. count PROVE UserIds(s)[n] \in {p.id : p \in {q \in In(s) : q.id > 0}}
    <3>1. nth(n) \in DOMAIN s /\ s[nth(n)].id > 0
      BY <1>2, <1>5 DEF users, Users
    <3>2. s[nth(n)] \in In(s)
      BY <3>1 DEF In
    <3> QED BY <3>1, <3>2, <1>7
  <2>2. ASSUME NEW q \in In(s), q.id > 0 PROVE q.id \in In(UserIds(s))
    <3>1. PICK i \in DOMAIN s : s[i] = q
      BY DEF In
    <3>2. i \in users
      BY <2>2, <3>1 DEF users, Users
    <3>3. Rank(users, i) \in 1 .. count /\ UserIds(s)[Rank(users, i)] = q.id
      BY <1>4, <1>6, <1>7, <3>1, <3>2
    <3> QED BY <3>3, <1>7 DEF In
  <2>3. In(UserIds(s)) \subseteq {p.id : p \in {q \in In(s) : q.id > 0}}
    BY <2>1, <1>7 DEF In
  <2> QED BY <2>2, <2>3
<1>10. ASSUME NEW k \in DOMAIN UserIds(s), NEW l \in DOMAIN UserIds(s), UserIds(s)[k] = UserIds(s)[l], k # l
       PROVE  \E i, j \in Users(s) : i # j /\ s[i].id = s[j].id
  <2>1. nth(k) \in users /\ nth(l) \in users /\ nth(k) # nth(l) /\ s[nth(k)].id = s[nth(l)].id
    BY <1>5, <1>7, <1>10
  <2> QED BY <2>1 DEF users
<1> QED BY <1>8, <1>9, <1>10

\* Of one packet, that is its id or nothing.
LEMMA UserIdsOne ==
  ASSUME NEW s \in Seq(Packet), Len(s) = 1
  PROVE  UserIds(s) = IF s[1].id > 0 THEN <<s[1].id>> ELSE <<>>
<1> DEFINE u == UserIds(s)
<1>1. DOMAIN s = {1} /\ In(s) = {s[1]} /\ s[1].id \in Nat
  <2>1. DOMAIN s = {1} /\ s[1] \in Packet
    OBVIOUS
  <2> QED BY <2>1, OneLemma DEF Packet
<1>2. /\ u \in Seq(Nat) /\ In(u) = {p.id : p \in {q \in In(s) : q.id > 0}}
      /\ \A k, l \in DOMAIN u : u[k] = u[l] => k = l \/ \E i, j \in Users(s) : i # j
  BY UserIdsLemma
<1>3. Users(s) \subseteq {1}
  BY <1>1 DEF Users
<1> HIDE DEF u
<1>4. DOMAIN u = 1 .. Len(u) /\ Len(u) \in Nat /\ \A k \in DOMAIN u : u[k] \in In(u)
  BY <1>2 DEF In
<1>5. CASE s[1].id > 0
  <2>1. In(u) = {s[1].id}
    BY <1>1, <1>2, <1>5
  <2>2. \A k, l \in DOMAIN u : k = l
    BY <1>2, <1>3, <1>4, <2>1
  <2>3. \E k \in DOMAIN u : u[k] = s[1].id
    BY <2>1 DEF In
  <2>4. Len(u) = 1
    <3>1. Len(u) # 0
      BY <1>4, <2>3
    <3>2. ~(Len(u) >= 2)
      <4>1. Len(u) >= 2 => 1 \in DOMAIN u /\ 2 \in DOMAIN u /\ 1 # 2
        BY <1>4
      <4> QED BY <4>1, <2>2
    <3> QED BY <1>4, <3>1, <3>2
  <2>5. u[1] = s[1].id
    BY <1>4, <2>2, <2>3, <2>4
  <2>6. u = <<s[1].id>>
    BY <1>2, <2>4, <2>5
  <2> QED BY <1>5, <2>6 DEF u
<1>6. CASE ~(s[1].id > 0)
  <2>1. In(u) = {}
    BY <1>1, <1>2, <1>6
  <2>2. Len(u) = 0
    <3>1. Len(u) >= 1 => 1 \in DOMAIN u
      BY <1>4
    <3>2. 1 \notin DOMAIN u
      BY <1>4, <2>1
    <3> QED BY <1>4, <3>1, <3>2
  <2>3. u = <<>>
    BY <1>2, <2>2
  <2> QED BY <1>6, <2>3 DEF u
<1> QED BY <1>5, <1>6

-----------------------------------------------------------------------------
(* Ids on their way to the device.                                         *)

\* A queue in order stays one when a later packet comes.
LEMMA OrderAppend ==
  ASSUME NEW s \in Seq(Packet), NEW e \in Packet, Ordered(s), Ahead(In(s), {e})
  PROVE  Ordered(Append(s, e)) /\ Append(s, e) \in Seq(Packet) /\ In(Append(s, e)) = In(s) \cup {e}
<1> DEFINE t == Append(s, e)
<1>1. /\ t \in Seq(Packet) /\ In(t) = In(s) \cup {e} /\ DOMAIN t = DOMAIN s \cup {Len(s) + 1}
      /\ t[Len(s) + 1] = e /\ \A i \in DOMAIN s : t[i] = s[i]
  BY AppendLemma
<1>2. DOMAIN s = 1 .. Len(s) /\ Len(s) \in Nat
  OBVIOUS
<1> HIDE DEF t
<1>3. ASSUME NEW i \in DOMAIN t, NEW j \in DOMAIN t, i < j, User(t[i]), User(t[j]) PROVE t[i].id < t[j].id
  <2>1. i \in DOMAIN s
    BY <1>1, <1>2, <1>3
  <2>2. CASE j \in DOMAIN s
    BY <1>1, <1>3, <2>1, <2>2 DEF Ordered
  <2>3. CASE j = Len(s) + 1
    <3>1. s[i] \in In(s) /\ t[i] = s[i] /\ t[j] = e
      BY <1>1, <2>1, <2>3 DEF In
    <3> QED BY <3>1, <1>3 DEF Ahead
  <2> QED BY <1>1, <2>2, <2>3
<1> QED BY <1>1, <1>3 DEF Ordered, t

\* And when its first one goes, which was ahead of the others.
LEMMA OrderTail ==
  ASSUME NEW s \in Seq(Packet), s # <<>>, Ordered(s)
  PROVE  /\ Ordered(Tail(s)) /\ Tail(s) \in Seq(Packet) /\ Head(s) \in Packet
         /\ In(s) = In(Tail(s)) \cup {Head(s)} /\ Ahead({Head(s)}, In(Tail(s)))
<1> DEFINE t == Tail(s)
<1>1. /\ t \in Seq(Packet) /\ Head(s) \in Packet /\ In(s) = In(t) \cup {Head(s)}
      /\ \A i \in DOMAIN t : i + 1 \in DOMAIN s /\ i + 1 # 1 /\ t[i] = s[i + 1]
      /\ 1 \in DOMAIN s /\ s[1] = Head(s)
  BY TailLemma
<1>2. DOMAIN t = 1 .. Len(t) /\ Len(t) \in Nat
  BY <1>1
<1> HIDE DEF t
<1>3. ASSUME NEW i \in DOMAIN t, NEW j \in DOMAIN t, i < j, User(t[i]), User(t[j]) PROVE t[i].id < t[j].id
  <2>1. i + 1 < j + 1
    BY <1>2, <1>3
  <2> QED BY <1>1, <1>3, <2>1 DEF Ordered
<1>4. ASSUME NEW i \in DOMAIN t, User(s[1]), User(t[i]) PROVE s[1].id < t[i].id
  <2>1. 1 < i + 1
    BY <1>2
  <2> QED BY <1>1, <1>4, <2>1 DEF Ordered
<1>5. Ahead({Head(s)}, In(t))
  BY <1>1, <1>4 DEF Ahead, In
<1> QED BY <1>1, <1>3, <1>5 DEF Ordered, t

\* A ledger continued has the entries of both.
LEMMA LedgerConcat ==
  ASSUME NEW s \in Seq(Nat), NEW t \in Seq(Nat)
  PROVE  s \o t \in Seq(Nat) /\ In(s \o t) = In(s) \cup In(t)
<1>1. /\ s \o t \in Seq(Nat) /\ Len(s \o t) = Len(s) + Len(t) /\ Len(s) \in Nat /\ Len(t) \in Nat
      /\ \A i \in 1 .. Len(s \o t) : (s \o t)[i] = IF i <= Len(s) THEN s[i] ELSE t[i - Len(s)]
  BY ConcatProperties
<1> DEFINE u == s \o t
<1>2. DOMAIN u = 1 .. (Len(s) + Len(t)) /\ DOMAIN s = 1 .. Len(s) /\ DOMAIN t = 1 .. Len(t)
  BY <1>1
<1>3. \A i \in 1 .. (Len(s) + Len(t)) : u[i] = IF i <= Len(s) THEN s[i] ELSE t[i - Len(s)]
  BY <1>1
<1> HIDE DEF u
<1>4. ASSUME NEW i \in DOMAIN u PROVE u[i] \in In(s) \cup In(t)
  <2>1. CASE i <= Len(s)
    BY <1>1, <1>2, <1>3, <2>1 DEF In
  <2>2. CASE ~(i <= Len(s))
    <3>1. i - Len(s) \in DOMAIN t /\ u[i] = t[i - Len(s)]
      BY <1>1, <1>2, <1>3, <2>2
    <3> QED BY <3>1 DEF In
  <2> QED BY <2>1, <2>2
<1>5. ASSUME NEW i \in DOMAIN s PROVE s[i] \in In(u)
  <2>1. i \in DOMAIN u /\ u[i] = s[i]
    BY <1>1, <1>2, <1>3
  <2> QED BY <2>1 DEF In
<1>6. ASSUME NEW i \in DOMAIN t PROVE t[i] \in In(u)
  <2>1. i + Len(s) \in DOMAIN u /\ u[i + Len(s)] = t[i]
    BY <1>1, <1>2, <1>3
  <2> QED BY <2>1 DEF In
<1>7. In(u) = In(s) \cup In(t)
  BY <1>4, <1>5, <1>6 DEF In
<1> QED BY <1>1, <1>7 DEF u

\* Packets leave the queues, and nothing is entered.
LEMMA Fewer ==
  ASSUME SendsInv, Ordered(normal'), Ordered(jobs'), In(normal') \subseteq In(normal),
         In(jobs') \subseteq In(jobs), In(job') \subseteq In(job), ToWrite' \subseteq ToWrite,
         UNCHANGED <<wire, dropped, unreported, accepted>>, NextId'
  PROVE  SendsInv'
<1>1. InOrder'
  BY DEF SendsInv, InOrder, Ahead
<1>2. InFlight' \subseteq InFlight
  BY DEF InFlight
<1> QED BY <1>1, <1>2 DEF SendsInv, LedgerOK, Unsettled

\* Packets are given up that were not yet with the device: the stream charges them.
GivesUp(packets) ==
  /\ packets \in Seq(Packet) /\ In(packets) \subseteq ToWrite /\ Ordered(packets)
  /\ dropped' = dropped \o UserIds(packets) /\ unreported' \subseteq unreported \cup In(UserIds(packets))
  /\ \A p \in In(packets), q \in InFlight' : User(p) => p.id # q.id
  /\ InFlight' \subseteq InFlight /\ ToWrite' \subseteq ToWrite
  /\ UNCHANGED <<wire, accepted>>

\* The ids that are given up are new to both ledgers.
LEMMA GivenUp ==
  ASSUME SendsInv, NEW packets, GivesUp(packets)
  PROVE  /\ UserIds(packets) \in Seq(Nat) /\ LedgerOK' /\ Unsettled'
         /\ \A id \in In(UserIds(packets)) : id \in 1 .. accepted \ (In(wire) \cup In(dropped))
<1> USE DEF SendsInv
<1>1. /\ UserIds(packets) \in Seq(Nat)
      /\ In(UserIds(packets)) = {p.id : p \in {q \in In(packets) : q.id > 0}}
  BY UserIdsLemma DEF GivesUp
<1>2. ToWrite \subseteq InFlight
  BY DEF ToWrite, InFlight
<1>3. dropped' \in Seq(Nat) /\ In(dropped') = In(dropped) \cup In(UserIds(packets))
  BY <1>1, LedgerConcat DEF GivesUp, LedgerOK
<1>4. \A p \in In(packets) : p.id \in Nat
  <2>1. \A i \in DOMAIN packets : packets[i] \in Packet
    BY DEF GivesUp
  <2> QED BY <2>1 DEF In, Packet
<1>5. ASSUME NEW id \in In(UserIds(packets)) PROVE id \in 1 .. accepted \ (In(wire) \cup In(dropped))
  <2>1. PICK p \in In(packets) : p.id = id /\ User(p)
    BY <1>1 DEF User
  <2>2. p \in ToWrite /\ p \in InFlight /\ id \in Nat /\ id > 0
    BY <1>2, <1>4, <2>1 DEF GivesUp, User
  <2>3. id <= accepted /\ id \notin In(dropped)
    BY <2>1, <2>2 DEF Unsettled
  <2>4. \A w \in In(wire) : w < id /\ w \in Nat
    BY <2>1, <2>2 DEF Unsettled, LedgerOK
  <2>5. id \notin In(wire)
    BY <2>2, <2>4
  <2> QED BY <2>2, <2>3, <2>5 DEF LedgerOK
<1>6. LedgerOK'
  <2>1. In(wire)' \cup In(dropped)' \cup unreported' \subseteq 1 .. accepted'
    BY <1>3, <1>5 DEF GivesUp, LedgerOK
  <2> QED BY <1>3, <2>1 DEF GivesUp, LedgerOK
<1>7. Unsettled'
  <2>1. \A q \in InFlight' : q.id \notin In(UserIds(packets))
    BY <1>1 DEF GivesUp, User
  <2>2. \A q \in InFlight' : q.id <= accepted' /\ q.id \notin In(dropped')
    BY <1>3, <2>1 DEF GivesUp, Unsettled
  <2>3. \A id \in In(wire'), q \in ToWrite' : User(q) => id < q.id
    BY DEF GivesUp, Unsettled
  <2> QED BY <2>2, <2>3 DEF Unsettled
<1> QED BY <1>1, <1>5, <1>6, <1>7

\* The ids of packets in the queues are numbers.
LEMMA IdsAreNumbers ==
  ASSUME PipelineInv
  PROVE  \A p \in InFlight : p \in Packet /\ p.id \in Nat
<1>1. \A i \in DOMAIN normal : normal[i] \in Packet
  BY PipelineTypes
<1>2. \A i \in DOMAIN jobs : jobs[i] \in Packet
  BY PipelineTypes
<1>3. \A i \in DOMAIN job : job[i] \in Packet
  BY PipelineTypes
<1>4. \A p \in InFlight : p \in Packet
  BY <1>1, <1>2, <1>3 DEF InFlight, In
<1> QED BY <1>4 DEF Packet

\* The caller numbers its packet, and the number is taken when it is queued.
LEMMA CallerSends == PipelineInv /\ SendsInv /\ Caller => SendsInv'
<1> SUFFICES ASSUME PipelineInv, SendsInv, Caller PROVE SendsInv'
  OBVIOUS
<1>0. UNCHANGED <<jobs, job, writer, wire, dropped, unreported>>
  BY DEF Caller, OpenCall, CloseCall, CloseReturns, SendCall, SendStamp, SendSubmit, ConfigCall, ConfigSubmit,
         writerT, history
<1>1. CASE UNCHANGED <<normal, accepted>> /\ NextId'
  <2>1. ToWrite' = ToWrite
    BY <1>0, <1>1 DEF ToWrite
  <2> QED BY <1>0, <1>1, <2>1, Fewer DEF SendsInv, InOrder
<1>2. CASE OpenCall \/ CloseCall \/ CloseReturns \/ ConfigCall \/ ConfigSubmit
  <2>1. UNCHANGED <<normal, accepted>> /\ abi' \in {"idle", "closing", "submitConfig"}
    BY <1>2 DEF OpenCall, CloseCall, CloseReturns, ConfigCall, ConfigSubmit, Idle, queues, history
  <2> QED BY <1>1, <2>1 DEF NextId
<1>3. CASE SendCall
  <2>1. PICK b \in freeBlocks :
          packet' = <<[id |-> accepted + 1, block |-> b, gen |-> 0, session |-> openGeneration]>>
    BY <1>3 DEF SendCall
  <2>2. UNCHANGED <<normal, accepted>> /\ packet'[1].id = accepted + 1
    BY <2>1, <1>3 DEF SendCall, queues, history
  <2> QED BY <1>1, <2>2 DEF NextId
<1>4. CASE SendStamp
  <2>1. packet \in Seq(Packet) /\ Len(packet) = 1 /\ packet' = <<[packet[1] EXCEPT !.gen = generation]>>
    BY <1>4 DEF SendStamp, PipelineInv, Types, PacketOK
  <2>2. packet[1] \in Packet
    BY <2>1
  <2>3. [packet[1] EXCEPT !.gen = generation].id = packet[1].id
    BY <2>2 DEF Packet
  <2>5. packet'[1].id = packet[1].id
    BY <2>1, <2>3
  <2>4. UNCHANGED <<normal, accepted>> /\ packet'[1].id = packet[1].id /\ abi = "stamp"
    BY <2>5, <1>4 DEF SendStamp, queues, history
  <2> QED BY <1>1, <2>4 DEF NextId, SendsInv
<1>5. CASE SendSubmit
  <2>1. abi = "submit" /\ abi' = "idle" /\ packet \in Seq(Packet) /\ Len(packet) = 1
    BY <1>5 DEF SendSubmit, Idle, PipelineInv, Types, PacketOK
  <2>2. CASE UNCHANGED <<normal, accepted>>
    BY <1>1, <2>1, <2>2 DEF NextId
  <2>3. CASE normal' = normal \o packet /\ accepted' = accepted + 1
    <3> DEFINE e == packet[1]
    <3>1. normal' = Append(normal, e) /\ e \in Packet /\ e.id = accepted + 1
      BY <2>1, <2>3, OneLemma, PipelineTypes DEF SendsInv, NextId
    <3>2. normal \in Seq(Packet) /\ accepted \in Nat
      BY PipelineTypes DEF SendsInv, LedgerOK
    <3> HIDE DEF e
    <3>3. \A p \in InFlight : p.id < e.id
      BY <3>1, <3>2, IdsAreNumbers DEF SendsInv, Unsettled
    <3>4. /\ Ordered(normal') /\ In(normal') = In(normal) \cup {e}
      <4>1. Ahead(In(normal), {e}) /\ Ordered(normal)
        BY <3>3 DEF Ahead, InFlight, SendsInv, InOrder
      <4> QED BY <3>1, <3>2, <4>1, OrderAppend
    <3>5. InFlight' = InFlight \cup {e} /\ ToWrite' = ToWrite \cup {e}
      BY <1>0, <3>4 DEF InFlight, ToWrite
    <3>6. InOrder'
      BY <1>0, <3>3, <3>4 DEF SendsInv, InOrder, Ahead, InFlight
    <3>7. LedgerOK'
      <4>1. 1 .. accepted \subseteq 1 .. accepted'
        BY <2>3, <3>2
      <4> QED BY <1>0, <2>3, <3>2, <4>1 DEF SendsInv, LedgerOK
    <3>8. Unsettled'
      <4>1. e.id \notin In(dropped) /\ \A id \in In(wire) : id < e.id
        BY <3>1, <3>2 DEF SendsInv, LedgerOK
      <4>2. \A p \in InFlight : p.id <= accepted'
        BY <2>3, <3>2, IdsAreNumbers DEF SendsInv, Unsettled
      <4>3. e.id <= accepted'
        BY <2>3, <3>1, <3>2
      <4> QED BY <1>0, <3>5, <4>1, <4>2, <4>3 DEF SendsInv, Unsettled
    <3>9. NextId'
      BY <2>1 DEF NextId
    <3> QED BY <3>6, <3>7, <3>8, <3>9 DEF SendsInv
  <2> QED BY <2>2, <2>3, <1>5 DEF SendSubmit
<1> QED BY <1>2, <1>3, <1>4, <1>5 DEF Caller

\* What an action that moves a send gives up.
Gives(packets) == SendsInv /\ GivesUp(packets) /\ InOrder' /\ NextId'

\* Such an action keeps the sends in order.
LEMMA GivesSends == ASSUME NEW packets, Gives(packets) PROVE SendsInv'
BY GivenUp DEF Gives, SendsInv

\* SendAo hands the first send to the writer, or gives it up.
LEMMA DispatchSends ==
  ASSUME PipelineInv, SendsInv, DispatchSend
  PROVE  \/ SendsInv' /\ UNCHANGED <<wire, dropped, accepted>>
         \/ Gives(<<Head(normal)>>)
<1> DEFINE p == Head(normal)
<1>0. UNCHANGED <<job, writer, wire, accepted, abi, packet>> /\ normal # <<>> /\ normal' = Tail(normal)
  BY DEF DispatchSend, abiT
<1>1. /\ Ordered(normal') /\ p \in Packet /\ In(normal) = In(normal') \cup {p} /\ Ahead({p}, In(normal'))
      /\ normal \in Seq(Packet) /\ jobs \in Seq(Packet)
  BY <1>0, PipelineTypes, OrderTail DEF SendsInv, InOrder
<1>2. \/ jobs' = Append(jobs, p) /\ UNCHANGED <<dropped, unreported>>
      \/ /\ dropped' = dropped \o UserIds(<<p>>) /\ UNCHANGED jobs
         /\ unreported' = unreported \/ unreported' = unreported \cup ({p.id} \ {0})
  BY DEF DispatchSend, Discard, Reject, Enqueue
<1> HIDE DEF p
<1>3. NextId'
  BY <1>0 DEF SendsInv, NextId
<1>4. CASE jobs' = Append(jobs, p) /\ UNCHANGED <<dropped, unreported>>
  <2>1. Ahead(In(jobs), {p})
    BY <1>1 DEF SendsInv, InOrder, Ahead
  <2>2. Ordered(jobs') /\ In(jobs') = In(jobs) \cup {p}
    BY <1>1, <1>4, <2>1, OrderAppend DEF SendsInv, InOrder
  <2>3. InFlight' = InFlight /\ ToWrite' = ToWrite
    BY <1>0, <1>1, <2>2 DEF InFlight, ToWrite
  <2>4. InOrder'
    BY <1>0, <1>1, <2>2 DEF SendsInv, InOrder, Ahead
  <2> QED BY <1>0, <1>3, <1>4, <2>3, <2>4 DEF SendsInv, LedgerOK, Unsettled
<1>5. CASE /\ dropped' = dropped \o UserIds(<<p>>) /\ UNCHANGED jobs
           /\ unreported' = unreported \/ unreported' = unreported \cup ({p.id} \ {0})
  <2>1. <<p>> \in Seq(Packet) /\ In(<<p>>) = {p} /\ Len(<<p>>) = 1 /\ <<p>>[1] = p /\ p.id \in Nat
    BY <1>1, SingleLemma DEF Packet
  <2>2. UserIds(<<p>>) = IF p.id > 0 THEN <<p.id>> ELSE <<>>
    BY <2>1, UserIdsOne
  <2>3. unreported' \subseteq unreported \cup In(UserIds(<<p>>))
    BY <1>5, <2>1, <2>2, SingleLemma DEF In
  <2>4. Ordered(<<p>>)
    BY <2>1 DEF Ordered
  <2>5. \A q \in InFlight' : User(p) => p.id # q.id
    <3>1. \A q \in InFlight' : q \in In(normal') \cup In(jobs) \cup In(job)
      BY <1>0, <1>5 DEF InFlight
    <3>2. \A q \in In(normal') : User(p) => q.id # p.id
      BY <1>1, <2>1 DEF Ahead, User
    <3>3. \A q \in In(jobs) \cup In(job) : User(p) => q.id # p.id
      BY <1>1, <2>1 DEF SendsInv, InOrder, Ahead, User
    <3> QED BY <3>1, <3>2, <3>3
  <2>6. /\ InFlight' \subseteq InFlight /\ ToWrite' \subseteq ToWrite /\ p \in ToWrite
    BY <1>0, <1>1, <1>5 DEF InFlight, ToWrite
  <2>7. GivesUp(<<p>>)
    BY <1>0, <1>5, <2>1, <2>3, <2>4, <2>5, <2>6 DEF GivesUp
  <2>8. InOrder'
    BY <1>0, <1>1, <1>5 DEF SendsInv, InOrder, Ahead
  <2> QED BY <1>3, <2>7, <2>8 DEF Gives, p
<1> QED BY <1>0, <1>2, <1>4, <1>5

\* The other senders touch the jobs only to add an automatic packet.
LEMMA TickSends ==
  ASSUME PipelineInv, SendsInv, DispatchTick \/ DispatchConfig \/ ReplaceTemplate
  PROVE  SendsInv' /\ UNCHANGED <<wire, dropped, accepted>>
<1>0. UNCHANGED <<normal, job, writer, wire, dropped, unreported, accepted, abi, packet>>
  BY DEF DispatchTick, DispatchConfig, ReplaceTemplate, queues, writerT, abiT, history
<1>1. NextId'
  BY <1>0 DEF SendsInv, NextId
<1>2. CASE UNCHANGED jobs
  <2>1. ToWrite' = ToWrite
    BY <1>0, <1>2 DEF ToWrite
  <2> QED BY <1>0, <1>1, <1>2, <2>1, Fewer DEF SendsInv, InOrder
<1>3. CASE DispatchTick /\ jobs' # jobs
  <2>1. PICK b \in freeBlocks :
          jobs' = Append(jobs, [id |-> 0, block |-> b, gen |-> generation, session |-> openGeneration])
    BY <1>3 DEF DispatchTick, Enqueue
  <2> DEFINE e == [id |-> 0, block |-> b, gen |-> generation, session |-> openGeneration]
  <2>2. e \in Packet /\ e.id = 0 /\ jobs \in Seq(Packet)
    BY PipelineTypes DEF PipelineInv, Types, NumbersOK, Packet
  <2>3. jobs' = Append(jobs, e)
    BY <2>1
  <2> HIDE DEF e
  <2>4. ~User(e)
    BY <2>2 DEF User
  <2>5. Ordered(jobs') /\ In(jobs') = In(jobs) \cup {e}
    BY <2>2, <2>3, <2>4, OrderAppend DEF SendsInv, InOrder, Ahead
  <2>6. InFlight' = InFlight \cup {e} /\ ToWrite' = ToWrite \cup {e}
    BY <1>0, <2>5 DEF InFlight, ToWrite
  <2>7. InOrder'
    BY <1>0, <2>4, <2>5 DEF SendsInv, InOrder, Ahead
  <2>8. e.id <= accepted /\ e.id \notin In(dropped)
    BY <2>2 DEF SendsInv, LedgerOK
  <2>9. Unsettled'
    BY <1>0, <2>4, <2>6, <2>8 DEF SendsInv, Unsettled
  <2> QED BY <1>0, <1>1, <2>7, <2>9 DEF SendsInv, LedgerOK
<1>4. DispatchTick \/ UNCHANGED jobs
  BY DEF DispatchConfig, ReplaceTemplate, writerT
<1> QED BY <1>0, <1>2, <1>3, <1>4

\* What an end leaves on the ring is given up.
LEMMA LeavesSends ==
  ASSUME PipelineInv, SendsInv, LeavesNoJob, job = <<>>,
         UNCHANGED <<normal, job, wire, accepted, abi, packet>>
  PROVE  Gives(jobs)
<1>1. /\ jobs' = <<>> /\ dropped' = dropped \o UserIds(jobs) /\ UNCHANGED unreported
      /\ In(<<>>) = {} /\ jobs \in Seq(Packet)
  BY EmptyLemma, PipelineTypes DEF LeavesNoJob, Reject
<1>2. InFlight' = In(normal) /\ ToWrite' = In(normal) /\ In(jobs) \cup In(normal) = ToWrite
      /\ In(normal) \subseteq InFlight
  BY <1>1 DEF InFlight, ToWrite
<1>3. \A p \in In(jobs), q \in InFlight' : User(p) => p.id # q.id
  <2>1. \A p \in In(jobs), q \in In(normal) : p.id \in Nat /\ q.id \in Nat
    BY IdsAreNumbers DEF InFlight
  <2>2. \A p \in In(jobs), q \in In(normal) : User(p) /\ User(q) => p.id < q.id
    BY DEF SendsInv, InOrder, Ahead
  <2> QED BY <1>2, <2>1, <2>2 DEF User
<1>4. Ordered(<<>>)
  BY DEF Ordered
<1>5. InOrder' /\ NextId'
  BY <1>1, <1>4 DEF SendsInv, InOrder, Ahead, NextId
<1>6. GivesUp(jobs)
  BY <1>1, <1>2, <1>3 DEF GivesUp, SendsInv, InOrder
<1> QED BY <1>5, <1>6 DEF Gives

\* The writer takes the first job, and writes its id or gives it up.
LEMMA WriterSends ==
  ASSUME PipelineInv, SendsInv, Writer
  PROVE  \/ SendsInv' /\ UNCHANGED <<wire, dropped, accepted>>
         \/ \E packets : Gives(packets)
         \/ /\ SendsInv' /\ UNCHANGED <<dropped, accepted>>
            /\ \E id \in 1 .. accepted \ In(dropped) :
                 wire' = Append(wire, id) /\ \A other \in In(wire) : other < id
<1>0. UNCHANGED <<normal, accepted, abi, packet>>
  BY DEF Writer, WriterPop, WriterCheck, WriteSucceeds, WriteFails, WriterRelease, WriterStops, queues, abiT,
         history
<1>1. NextId'
  BY <1>0 DEF SendsInv, NextId
<1>2. CASE WriterPop
  <2> DEFINE p == Head(jobs)
  <2>1. /\ jobs # <<>> /\ jobs' = Tail(jobs) /\ job' = <<p>> /\ job = <<>> /\ writer' = "check"
        /\ UNCHANGED <<wire, dropped, unreported>> /\ jobs \in Seq(Packet)
    BY <1>2, PipelineTypes DEF WriterPop, PipelineInv, JobAtPlace, history
  <2>2. /\ Ordered(jobs') /\ p \in Packet /\ In(jobs) = In(jobs') \cup {p} /\ Ahead({p}, In(jobs'))
    BY <2>1, OrderTail DEF SendsInv, InOrder
  <2>3. In(job') = {p} /\ In(job) = {}
    BY <2>1, <2>2, SingleLemma, EmptyLemma
  <2> HIDE DEF p
  <2>4. InFlight' = InFlight /\ ToWrite' = ToWrite
    BY <1>0, <2>1, <2>2, <2>3 DEF InFlight, ToWrite
  <2>5. InOrder'
    BY <1>0, <2>2, <2>3 DEF SendsInv, InOrder, Ahead
  <2> QED BY <1>0, <1>1, <2>1, <2>4, <2>5 DEF SendsInv, LedgerOK, Unsettled
<1>3. CASE WriterCheck \/ WriteFails
  <2>1. UNCHANGED <<jobs, job, wire, dropped, unreported>> /\ writer # "written"
    BY <1>3 DEF WriterCheck, WriteFails, history
  <2>2. ToWrite' \subseteq ToWrite
    BY <1>0, <2>1 DEF ToWrite
  <2> QED BY <1>0, <1>1, <2>1, <2>2, Fewer DEF SendsInv, InOrder
<1>4. CASE WriteSucceeds
  <2> DEFINE p == job[1]
  <2>1. /\ UNCHANGED <<jobs, job, dropped, unreported>> /\ writer = "write" /\ writer' = "written"
        /\ wire' = wire \o UserIds(job) /\ job \in Seq(Packet) /\ Len(job) = 1
    BY <1>4 DEF WriteSucceeds, PipelineInv, JobAtPlace
  <2>2. In(job) = {p} /\ p \in Packet /\ p.id \in Nat
    <3>1. In(job) = {p} /\ p \in Packet
      BY <2>1, OneLemma
    <3> QED BY <3>1 DEF Packet
  <2>3. UserIds(job) = IF p.id > 0 THEN <<p.id>> ELSE <<>>
    BY <2>1, UserIdsOne
  <2> HIDE DEF p
  <2>4. InFlight' = InFlight /\ ToWrite' = In(normal) \cup In(jobs) /\ ToWrite = ToWrite' \cup {p}
    BY <1>0, <2>1, <2>2 DEF InFlight, ToWrite
  <2>5. InOrder'
    BY <1>0, <2>1 DEF SendsInv, InOrder
  <2>6. CASE ~(p.id > 0)
    <3>1. wire' = wire
      BY <2>1, <2>3, <2>6 DEF SendsInv, LedgerOK
    <3> QED BY <1>0, <1>1, <2>1, <2>4, <3>1, Fewer DEF SendsInv, InOrder
  <2>7. CASE p.id > 0
    <3>1. wire \in Seq(Nat) /\ <<p.id>> \in Seq(Nat) /\ In(<<p.id>>) = {p.id}
      BY <2>2, SingleLemma DEF SendsInv, LedgerOK
    <3>2. wire' = Append(wire, p.id)
      BY <2>1, <2>2, <2>3, <2>7, <3>1, AppendIsConcat
    <3>3. wire' \in Seq(Nat) /\ In(wire') = In(wire) \cup {p.id}
      BY <2>2, <3>1, <3>2, AppendLemma
    <3>4. p.id \in 1 .. accepted \ In(dropped) /\ \A other \in In(wire) : other < p.id
      <4>1. p \in InFlight /\ p \in ToWrite /\ User(p)
        BY <2>2, <2>4, <2>7 DEF InFlight, User
      <4> QED BY <4>1, <2>2, <2>7 DEF SendsInv, Unsettled, LedgerOK
    <3>5. LedgerOK'
      BY <1>0, <2>1, <3>3, <3>4 DEF SendsInv, LedgerOK
    <3>6. \A q \in ToWrite' : User(q) => p.id < q.id
      BY <2>2, <2>4, <2>7 DEF SendsInv, InOrder, Ahead, User
    <3>7. Unsettled'
      BY <1>0, <2>1, <2>4, <3>3, <3>6 DEF SendsInv, Unsettled
    <3>8. SendsInv' /\ UNCHANGED <<dropped, accepted>>
      BY <1>0, <1>1, <2>1, <2>5, <3>5, <3>7 DEF SendsInv
    <3> QED BY <3>2, <3>4, <3>8
  <2> QED BY <2>6, <2>7
<1>5. CASE WriterRelease
  <2> DEFINE p == job[1]
  <2>1. /\ UNCHANGED <<jobs, wire>> /\ job' = <<>> /\ writer' = "loop" /\ job \in Seq(Packet) /\ Len(job) = 1
        /\ In(<<>>) = {}
    BY <1>5, EmptyLemma DEF WriterRelease, PipelineInv, JobAtPlace
  <2>2. In(job) = {p} /\ p \in Packet /\ p.id \in Nat /\ job = <<p>>
    <3>1. In(job) = {p} /\ p \in Packet
      BY <2>1, OneLemma
    <3>2. job = <<p>>
      BY <2>1
    <3> QED BY <3>1, <3>2 DEF Packet
  <2>3. UserIds(job) = IF p.id > 0 THEN <<p.id>> ELSE <<>>
    BY <2>1, UserIdsOne
  <2>4. \/ writer = "written" /\ UNCHANGED <<dropped, unreported>>
        \/ /\ writer # "written" /\ dropped' = dropped \o UserIds(job)
           /\ unreported' = unreported \/ unreported' = unreported \cup ({p.id} \ {0})
    BY <2>2, <1>5 DEF WriterRelease, Reject, Discard
  <2> HIDE DEF p
  <2>5. InFlight' \subseteq InFlight /\ ToWrite' = In(normal) \cup In(jobs) /\ ToWrite' \subseteq ToWrite
        /\ InFlight' = In(normal) \cup In(jobs)
    BY <1>0, <2>1 DEF InFlight, ToWrite
  <2>6. InOrder'
    BY <1>0, <2>1 DEF SendsInv, InOrder, Ahead
  <2>7. CASE writer = "written" /\ UNCHANGED <<dropped, unreported>>
    BY <1>0, <1>1, <2>1, <2>5, <2>7, Fewer DEF SendsInv, InOrder
  <2>8. CASE /\ writer # "written" /\ dropped' = dropped \o UserIds(job)
             /\ unreported' = unreported \/ unreported' = unreported \cup ({p.id} \ {0})
    <3>1. p \in ToWrite
      BY <2>2, <2>8 DEF ToWrite
    <3>2. unreported' \subseteq unreported \cup In(UserIds(job))
      BY <2>2, <2>3, <2>8, SingleLemma DEF In
    <3>3. \A q \in InFlight' : User(p) => p.id # q.id
      <4>1. \A q \in InFlight' : q \in In(normal) \cup In(jobs)
        BY <2>5
      <4>2. \A q \in In(normal) \cup In(jobs) : User(p) => p.id # q.id
        BY <2>2 DEF SendsInv, InOrder, Ahead, User
      <4> QED BY <4>1, <4>2
    <3>4. Ordered(job)
      BY <2>1 DEF Ordered
    <3>5. GivesUp(job)
      BY <1>0, <2>1, <2>2, <2>5, <2>8, <3>1, <3>2, <3>3, <3>4 DEF GivesUp
    <3> QED BY <1>1, <2>6, <3>5 DEF Gives
  <2> QED BY <2>4, <2>7, <2>8
<1>6. CASE WriterStops
  <2>1. job = <<>> /\ job' = job /\ UNCHANGED <<wire, normal, accepted, abi, packet>> /\ LeavesNoJob
    BY <1>0, <1>6 DEF WriterStops, PipelineInv, JobAtPlace
  <2> QED BY <2>1, LeavesSends
<1> QED BY <1>2, <1>3, <1>4, <1>5, <1>6 DEF Writer

\* The lifecycle gives up what the join finds on the ring.
LEMMA LifecycleSends ==
  ASSUME PipelineInv, SendsInv, Lifecycle \/ Timer \/ UNCHANGED vars
  PROVE  \/ SendsInv' /\ UNCHANGED <<wire, dropped, accepted>>
         \/ Gives(jobs)
<1>0. UNCHANGED <<normal, wire, accepted, abi, packet>>
  BY DEF Lifecycle, DispatchOpen, OpenDone, DispatchClose, DispatchFault, StopTimer, StopWriter, JoinWriter,
         Timer, TimerTick, TimerArm, TimerSubmit, vars, queues, history, abiT
<1>1. NextId'
  BY <1>0 DEF SendsInv, NextId
<1>2. CASE JoinWriter
  <2>1. job = <<>> /\ job' = job /\ LeavesNoJob
    BY <1>2 DEF JoinWriter, PipelineInv, JobAtPlace
  <2> QED BY <1>0, <2>1, LeavesSends
<1>3. CASE ~JoinWriter
  <2>1. UNCHANGED <<jobs, job, dropped, unreported>> /\ (writer' = "written" <=> writer = "written")
    <3>1. CASE OpenDone
      <4>1. jobs = <<>> /\ writer = "off"
        BY <3>1, KindsLemma DEF OpenDone, PipelineInv, WriterAtPlace, JobAtPlace, Ending
      <4> QED BY <3>1, <4>1 DEF OpenDone, history
    <3>2. CASE DispatchOpen \/ DispatchClose \/ DispatchFault \/ StopTimer \/ StopWriter
      BY <3>2 DEF DispatchOpen, DispatchClose, DispatchFault, StopTimer, StopWriter, writerT, history
    <3>3. CASE Timer \/ UNCHANGED vars
      BY <3>3 DEF Timer, TimerTick, TimerArm, TimerSubmit, vars, writerT, history
    <3> QED BY <1>3, <3>1, <3>2, <3>3 DEF Lifecycle
  <2>2. ToWrite' = ToWrite
    BY <1>0, <2>1 DEF ToWrite
  <2> QED BY <1>0, <1>1, <2>1, <2>2, Fewer DEF SendsInv, InOrder
<1> QED BY <1>2, <1>3

\* Each step keeps the ids in order and settled once.
LEMMA SendsStep == PipelineInv /\ SendsInv /\ [Next]_vars => SendsInv'
<1> SUFFICES ASSUME PipelineInv, SendsInv, [Next]_vars PROVE SendsInv'
  OBVIOUS
<1>1. CASE Sender
  <2>1. CASE DispatchSend
    BY <2>1, DispatchSends, GivesSends
  <2>2. CASE DispatchTick \/ DispatchConfig \/ ReplaceTemplate
    BY <2>2, TickSends
  <2> QED BY <1>1, <2>1, <2>2 DEF Sender
<1>2. CASE Writer
  BY <1>2, WriterSends, GivesSends
<1>3. CASE Lifecycle \/ Timer \/ UNCHANGED vars
  BY <1>3, LifecycleSends, GivesSends
<1> QED BY <1>1, <1>2, <1>3, CallerSends DEF Next

\* At the start there is none.
LEMMA SendsInit == Init => SendsInv
<1> SUFFICES ASSUME Init PROVE SendsInv
  OBVIOUS
<1>1. In(<<>>) = {} /\ Ordered(<<>>) /\ <<>> \in Seq(Nat)
  BY EmptyLemma DEF Ordered
<1> QED BY <1>1 DEF Init, SendsInv, InOrder, LedgerOK, Unsettled, NextId, InFlight, ToWrite, Ahead

-----------------------------------------------------------------------------
(* The remaining types.                                                    *)

\* Each step keeps them.
LEMMA ScalarsStep == PipelineInv /\ ScalarsOK /\ [Next]_vars => ScalarsOK'
<1> SUFFICES ASSUME PipelineInv, ScalarsOK, [Next]_vars PROVE ScalarsOK'
  OBVIOUS
<1> USE DEF ScalarsOK
<1>1. portState' \in {"CLOSED", "OPENING", "OPEN", "CLOSING", "FAULT"}
      /\ dispatcher' \in {"idle", "open", "stopTimer", "stopWriter", "joinWriter"}
  <2>1. CASE Lifecycle
    BY <2>1 DEF Lifecycle, DispatchOpen, OpenDone, DispatchClose, DispatchFault, TearDown, StopTimer,
                StopWriter, JoinWriter, port, dispT
  <2>2. CASE DispatchConfig \/ ReplaceTemplate
    BY <2>2 DEF DispatchConfig, ReplaceTemplate, TearDown, port, dispT
  <2> QED BY <2>1, <2>2, PortFrame DEF port
<1>2. timer' \in {"off", "sleep", "tick", "submit"}
  <2>1. CASE Timer
    BY <2>1 DEF Timer, TimerTick, TimerArm, TimerSubmit
  <2>2. CASE StopTimer \/ JoinWriter \/ DispatchTick \/ ReplaceTemplate \/ WriterRelease \/ WriterStops
    BY <2>2 DEF StopTimer, JoinWriter, DispatchTick, ReplaceTemplate, WriterRelease, WriterStops
  <2> QED BY <2>1, <2>2, AutoFrame
<1>3. armed' \in BOOLEAN
  <2>1. CASE Timer
    BY <2>1 DEF Timer, TimerTick, TimerArm, TimerSubmit
  <2>2. CASE StopTimer \/ DispatchTick \/ ReplaceTemplate
    BY <2>2 DEF StopTimer, DispatchTick, ReplaceTemplate
  <2>3. CASE JoinWriter \/ WriterRelease \/ WriterStops
    <3>1. \/ armed' = (armed /\ \A i \in DOMAIN jobs : jobs[i].id # 0)
          \/ armed' = (armed /\ job[1].id # 0)
      BY <2>3 DEF JoinWriter, WriterRelease, WriterStops, LeavesNoJob
    <3> QED BY <3>1, Zenon
  <2> QED BY <2>1, <2>2, <2>3, AutoFrame
<1>4. streak' \in Nat /\ stop' \in BOOLEAN
  <2>1. CASE Writer
    BY <2>1 DEF Writer, WriterPop, WriterCheck, WriteSucceeds, WriteFails, WriterRelease, WriterStops
  <2>2. CASE Lifecycle
    <3>1. streak' = streak /\ (stop' = stop \/ stop' = FALSE \/ stop' = (stop \/ writer # "off"))
      BY <2>2 DEF Lifecycle, DispatchOpen, OpenDone, DispatchClose, DispatchFault, StopTimer, StopWriter,
                  JoinWriter, writerT
    <3> QED BY <3>1
  <2>3. CASE Caller \/ Timer \/ Sender \/ UNCHANGED vars
    <3>1. CASE Caller \/ Timer
      BY <3>1 DEF Caller, OpenCall, CloseCall, CloseReturns, SendCall, SendStamp, SendSubmit,
                  ConfigCall, ConfigSubmit, Timer, TimerTick, TimerArm, TimerSubmit, writerT
    <3>2. CASE Sender \/ UNCHANGED vars
      BY <3>2 DEF Sender, DispatchSend, DispatchTick, DispatchConfig, ReplaceTemplate, writerT, vars
    <3> QED BY <2>3, <3>1, <3>2
  <2> QED BY <2>1, <2>2, <2>3 DEF Next
<1>5. Len(jobs') <= JobBound
  <2>0. jobs \in Seq(Packet) /\ Len(jobs) \in Nat /\ JobBound \in Nat \ {0} /\ Len(<<>>) = 0
    BY PipelineTypes, TxPipelineAssumption
  <2>1. CASE OpenDone \/ JoinWriter \/ WriterStops
    BY <2>0, <2>1 DEF OpenDone, JoinWriter, WriterStops, LeavesNoJob
  <2>2. CASE WriterPop
    BY <2>0, <2>2 DEF WriterPop
  <2>3. CASE DispatchSend \/ DispatchTick
    <3>1. UNCHANGED jobs \/ (Len(jobs) < JobBound /\ \E e : jobs' = Append(jobs, e))
      BY <2>3 DEF DispatchSend, DispatchTick, Enqueue, Enqueueable
    <3> QED BY <2>0, <3>1
  <2> QED BY <2>1, <2>2, <2>3, JobsFrame
<1>6. calls' \in [open : 0 .. OpenBound, config : 0 .. ConfigBound]
  <2>0. OpenBound \in Nat /\ ConfigBound \in Nat
    BY TxPipelineAssumption
  <2>1. CASE OpenCall
    BY <2>0, <2>1 DEF OpenCall
  <2>2. CASE ConfigCall
    BY <2>0, <2>2 DEF ConfigCall
  <2>3. CASE CloseCall \/ CloseReturns \/ SendCall \/ SendStamp \/ SendSubmit \/ ConfigSubmit
    BY <2>3 DEF CloseCall, CloseReturns, SendCall, SendStamp, SendSubmit, ConfigSubmit
  <2>4. CASE Timer \/ Lifecycle
    BY <2>4 DEF Timer, TimerTick, TimerArm, TimerSubmit, Lifecycle, DispatchOpen, OpenDone, DispatchClose,
                DispatchFault, StopTimer, StopWriter, JoinWriter, abiT
  <2>5. CASE Sender \/ UNCHANGED vars
    BY <2>5 DEF Sender, DispatchSend, DispatchTick, DispatchConfig, ReplaceTemplate, vars, abiT
  <2>6. CASE Writer
    BY <2>6 DEF Writer, WriterPop, WriterCheck, WriteSucceeds, WriteFails, WriterRelease, WriterStops, abiT
  <2> QED BY <2>1, <2>2, <2>3, <2>4, <2>5, <2>6 DEF Next, Caller
<1> QED BY <1>1, <1>2, <1>3, <1>4, <1>5, <1>6

\* At the start nothing runs.
LEMMA ScalarsInit == Init => ScalarsOK
<1> SUFFICES ASSUME Init PROVE ScalarsOK
  OBVIOUS
<1>1. Len(<<>>) <= JobBound
  <2>1. Len(<<>>) = 0 /\ JobBound \in Nat
    BY TxPipelineAssumption
  <2> QED BY <2>1
<1>2. [open |-> 0, config |-> 0] \in [open : 0 .. OpenBound, config : 0 .. ConfigBound]
  <2>1. 0 \in 0 .. OpenBound /\ 0 \in 0 .. ConfigBound
    BY TxPipelineAssumption
  <2> QED BY <2>1
<1> QED BY <1>1, <1>2 DEF Init, ScalarsOK

-----------------------------------------------------------------------------
(* Theorems about blocks and sends.                                        *)

SendingInv == PipelineInv /\ BlocksInv /\ SendsInv /\ ScalarsOK

\* The invariants of the pipeline hold together.
LEMMA SendingAlways == Spec => []SendingInv
<1>1. Init => BlocksInv /\ SendsInv /\ ScalarsOK
  BY BlocksInit, SendsInit, ScalarsInit
<1>2. PipelineInv /\ BlocksInv /\ SendsInv /\ ScalarsOK /\ [Next]_vars => BlocksInv' /\ SendsInv' /\ ScalarsOK'
  BY BlocksInvStep, SendsStep, ScalarsStep
<1> QED BY <1>1, <1>2, PipelineInvariant, PTL DEF Spec, SendingInv

\* A ledger is a sequence of what its entries are.
LEMMA LedgerType == ASSUME NEW S, NEW s \in Seq(S), NEW T, In(s) \subseteq T PROVE s \in Seq(T)
<1>1. DOMAIN s = 1 .. Len(s) /\ Len(s) \in Nat /\ \A i \in DOMAIN s : s[i] \in T
  BY DEF In
<1>2. s = [i \in 1 .. Len(s) |-> s[i]]
  OBVIOUS
<1> QED BY <1>1, <1>2

\* Each TX block has one holder, the pool among them, through refusals, template changes and
\* teardown, and everything has its type: for any number of blocks, sends and sessions.
THEOREM PipelineIsExact == Spec => []PipelineExact
<1>1. SendingInv => PipelineExact
  <2> SUFFICES ASSUME SendingInv PROVE PipelineExact
    OBVIOUS
  <2> USE DEF SendingInv
  <2>1. wire \in Seq(1 .. accepted) /\ dropped \in Seq(1 .. accepted) /\ unreported \subseteq 1 .. accepted
    <3>1. wire \in Seq(Nat) /\ dropped \in Seq(Nat) /\ In(wire) \subseteq 1 .. accepted
          /\ In(dropped) \subseteq 1 .. accepted /\ unreported \subseteq 1 .. accepted
      BY DEF SendsInv, LedgerOK
    <3> QED BY <3>1, LedgerType
  <2>2. packet \in Seq(Packet \cup Config)
    <3>1. packet = <<>> \/ packet \in Seq(Packet) \/ packet \in Seq(Config)
      BY DEF BlocksInv, PipelineInv, Types, PacketOK
    <3>2. CASE packet = <<>>
      BY <3>2
    <3>3. CASE packet \in Seq(Packet)
      <4>1. \A i \in DOMAIN packet : packet[i] \in Packet
        BY <3>3
      <4> QED BY <4>1, <3>3, LedgerType DEF In
    <3>4. CASE packet \in Seq(Config)
      <4>1. \A i \in DOMAIN packet : packet[i] \in Config
        BY <3>4
      <4> QED BY <4>1, <3>4, LedgerType DEF In
    <3> QED BY <3>1, <3>2, <3>3, <3>4
  <2>3. BlocksConserved
    BY BlocksExactLemma
  <2>4. job \in Seq(Packet)
    BY PipelineTypes
  <2>5. /\ {generation, openGeneration, streak, accepted} \subseteq Nat
        /\ high \in Seq({"open", "close", "fault"}) /\ normal \in Seq(Packet)
        /\ low \in Seq(Config \cup {Tick}) /\ freeBlocks \subseteq Blocks /\ template \subseteq Blocks
        /\ task \in Tasks /\ jobs \in Seq(Packet)
    BY DEF PipelineInv, Types, NumbersOK, QueuesOK, BlocksOK, ScalarsOK
  <2>6. /\ writer \in {"off", "loop", "check", "write", "written", "failed", "stale", "exited"}
        /\ abi \in {"idle", "stamp", "submit", "submitConfig", "closing"}
    BY DEF PipelineInv, JobAtPlace, BlocksInv
  <2>7. TypeOK
    BY <2>1, <2>2, <2>4, <2>5, <2>6 DEF TypeOK, ScalarsOK
  <2> QED BY <2>3, <2>7 DEF PipelineExact
<1> QED BY <1>1, SendingAlways, PTL

\* The entries of the ledger a step adds.
LEMMA NewLemma ==
  ASSUME NEW s \in Seq(Nat), NEW t \in Seq(Nat)
  PROVE  SubSeq(s \o t, Len(s) + 1, Len(s \o t)) = t
<1> DEFINE w == s \o t
           m == Len(s) + 1
           n == Len(w)
           u == SubSeq(w, m, n)
<1>1. /\ w \in Seq(Nat) /\ Len(w) = Len(s) + Len(t)
      /\ \A i \in 1 .. Len(s) + Len(t) : w[i] = IF i <= Len(s) THEN s[i] ELSE t[i - Len(s)]
  BY ConcatProperties
<1> HIDE DEF w
<1>2. Len(s) \in Nat /\ Len(t) \in Nat
  OBVIOUS
<1>3. m \in Int /\ n \in Int /\ n = Len(s) + Len(t) /\ 1 <= m /\ n = Len(w)
  BY <1>1, <1>2
<1>4. n - m + 1 = Len(t) /\ (IF m <= n THEN n - m + 1 ELSE 0) = Len(t)
  BY <1>2, <1>3
<1> HIDE DEF m, n
<1>5. ASSUME NEW i \in m .. n PROVE w[i] \in Nat
  <2>1. i \in 1 .. Len(w)
    BY <1>3
  <2> QED BY <1>1, <2>1
<1>6. /\ u \in Seq(Nat) /\ Len(u) = (IF m <= n THEN n - m + 1 ELSE 0)
      /\ \A i \in 1 .. n - m + 1 : u[i] = w[m + i - 1]
  BY <1>3, <1>5, SubSeqProperties
<1> HIDE DEF u
<1>7. Len(u) = Len(t) /\ \A i \in 1 .. Len(t) : u[i] = w[m + i - 1]
  BY <1>4, <1>6
<1>8. ASSUME NEW i \in 1 .. Len(t) PROVE w[m + i - 1] = t[i]
  <2>1. m + i - 1 = Len(s) + i
    BY <1>2 DEF m
  <2> DEFINE k == Len(s) + i
  <2>2. k \in 1 .. Len(s) + Len(t) /\ ~(k <= Len(s)) /\ k - Len(s) = i
    BY <1>2
  <2> HIDE DEF k
  <2>3. w[k] = IF k <= Len(s) THEN s[k] ELSE t[k - Len(s)]
    BY <1>1, <2>2
  <2>4. w[k] = t[i]
    BY <2>2, <2>3
  <2> QED BY <2>1, <2>4 DEF k
<1>9. \A i \in 1 .. Len(u) : u[i] = t[i]
  BY <1>7, <1>8
<1>10. u = t
  BY <1>6, <1>7, <1>9, SeqEqual
<1> QED BY <1>10 DEF u, w, m, n

\* A step that gives up packets charges each of their ids once.
LEMMA GivesStep ==
  ASSUME PipelineInv, NEW packets, Gives(packets)
  PROVE  Stream!Next
<1> DEFINE lost == UserIds(packets)
<1>1. /\ lost \in Seq(Nat) /\ dropped' = dropped \o lost /\ dropped \in Seq(Nat) /\ packets \in Seq(Packet)
      /\ \A id \in In(lost) : id \in 1 .. accepted \ (In(wire) \cup In(dropped))
      /\ UNCHANGED <<wire, accepted>> /\ Ordered(packets)
  BY GivenUp DEF Gives, GivesUp, SendsInv, LedgerOK
<1>2. \A i, j \in DOMAIN lost : lost[i] = lost[j] =>
        i = j \/ \E k, l \in Users(packets) : k # l /\ packets[k].id = packets[l].id
  BY <1>1, UserIdsLemma
<1>3. ASSUME NEW k \in Users(packets), NEW l \in Users(packets), k # l PROVE packets[k].id # packets[l].id
  <2>1. /\ k \in DOMAIN packets /\ l \in DOMAIN packets /\ k \in Nat /\ l \in Nat
        /\ User(packets[k]) /\ User(packets[l]) /\ packets[k] \in Packet /\ packets[l] \in Packet
    BY <1>1 DEF Users, User
  <2>2. packets[k].id \in Nat /\ packets[l].id \in Nat /\ (k < l \/ l < k)
    BY <1>3, <2>1 DEF Packet
  <2>3. packets[k].id < packets[l].id \/ packets[l].id < packets[k].id
    BY <1>1, <2>1, <2>2 DEF Ordered
  <2> QED BY <2>2, <2>3
<1> HIDE DEF lost
<1>4. Stream!NewEntries = lost
  BY <1>1, NewLemma DEF Stream!NewEntries
<1>5. /\ DOMAIN lost = 1 .. Len(lost) /\ DOMAIN wire = 1 .. Len(wire) /\ DOMAIN dropped = 1 .. Len(dropped)
  BY <1>1 DEF Gives, SendsInv, LedgerOK
<1>6. Stream!Members(dropped) = In(dropped) /\ Stream!Members(wire) = In(wire)
  BY <1>5 DEF Stream!Members, In
<1>7. \A i \in 1 .. Len(lost) : lost[i] \in 1 .. accepted' \ (In(dropped) \cup In(wire))
  BY <1>1, <1>5 DEF In
<1>8. Stream!Extends(lost)
  BY <1>1, <1>2, <1>3, <1>5, <1>6, <1>7 DEF Stream!Extends
<1> QED BY <1>1, <1>4, <1>8 DEF Stream!Next

\* A call may accept a send, and charges nothing.
LEMMA AcceptStep ==
  ASSUME PipelineInv, SendsInv, Caller
  PROVE  [Stream!Next]_Stream!vars
<1>1. UNCHANGED <<wire, dropped>> /\ (accepted' = accepted \/ accepted' = accepted + 1)
  BY DEF Caller, OpenCall, CloseCall, CloseReturns, SendCall, SendStamp, SendSubmit, ConfigCall, ConfigSubmit,
         history
<1>2. CASE accepted' = accepted
  BY <1>1, <1>2 DEF Stream!vars
<1>3. CASE accepted' = accepted + 1
  <2>1. dropped \in Seq(Nat) /\ <<>> \in Seq(Nat) /\ Len(<<>>) = 0
    BY DEF SendsInv, LedgerOK
  <2>2. dropped' = dropped \o <<>>
    BY <1>1, <2>1
  <2>3. Stream!NewEntries = <<>>
    BY <2>1, <2>2, NewLemma DEF Stream!NewEntries
  <2>4. 1 .. Len(<<>>) = {}
    BY <2>1
  <2>5. Stream!Extends(<<>>)
    BY <2>2, <2>4 DEF Stream!Extends
  <2> QED BY <1>1, <1>3, <2>3, <2>5 DEF Stream!Next, Stream!Receive
<1> QED BY <1>1, <1>2, <1>3

\* Each step of TxPipeline is a step of the stream of sends, or leaves it alone.
LEMMA StreamStep == PipelineInv /\ SendsInv /\ [Next]_vars => [Stream!Next]_Stream!vars
<1> SUFFICES ASSUME PipelineInv, SendsInv, [Next]_vars PROVE [Stream!Next]_Stream!vars
  OBVIOUS
<1>0. UNCHANGED <<wire, dropped, accepted>> => [Stream!Next]_Stream!vars
  BY DEF Stream!vars
<1>1. CASE Sender
  <2>1. CASE DispatchSend
    BY <1>0, <2>1, DispatchSends, GivesStep
  <2>2. CASE DispatchTick \/ DispatchConfig \/ ReplaceTemplate
    BY <1>0, <2>2, TickSends
  <2> QED BY <1>1, <2>1, <2>2 DEF Sender
<1>2. CASE Writer
  <2>1. ASSUME NEW id \in 1 .. accepted \ In(dropped), UNCHANGED <<dropped, accepted>>,
               wire' = Append(wire, id), \A other \in In(wire) : other < id
        PROVE  Stream!Next
    <3>1. DOMAIN wire = 1 .. Len(wire) /\ DOMAIN dropped = 1 .. Len(dropped)
      BY DEF SendsInv, LedgerOK
    <3>2. Stream!Members(dropped) = In(dropped) /\ Stream!Members(wire) = In(wire)
      BY <3>1 DEF Stream!Members, In
    <3>3. Stream!Show(id)
      BY <2>1, <3>2 DEF Stream!Show
    <3> QED BY <3>3 DEF Stream!Next
  <2> QED BY <1>0, <1>2, <2>1, WriterSends, GivesStep
<1>3. CASE Lifecycle \/ Timer \/ UNCHANGED vars
  BY <1>0, <1>3, LifecycleSends, GivesStep
<1> QED BY <1>1, <1>2, <1>3, AcceptStep DEF Next

\* What xcom_send accepted is a stream for the device: written in the order of the calls, each
\* at most once, none that was given up, and each that was given up is charged once.
THEOREM SendsAreStream == Spec => ImplementsStream
<1>1. Init => Stream!Init
  BY DEF Init, Stream!Init
<1>2. Spec => []SendingInv
  BY SendingAlways
<1>3. SendingInv /\ [Next]_vars => [Stream!Next]_Stream!vars
  BY StreamStep DEF SendingInv
<1>4. Spec => Stream!Spec
  BY <1>1, <1>2, <1>3, PTL DEF Spec, Stream!Spec
<1> QED BY <1>4 DEF ImplementsStream
===============================================================================
