---------------------------- MODULE CoreLifeProofs ----------------------------
(***************************************************************************)
(* Proofs about CoreLife and DiagLog: a core that is gone leaves nothing   *)
(* behind, its parts end in the order they need each other, no accepted    *)
(* block is dropped silently, no producer works on a diagnostic writer     *)
(* that is gone, and that writer takes every record but those of its last  *)
(* pass; for any number of controls, blocks and records.                   *)
(***************************************************************************)
EXTENDS CoreLife, TLAPS

-----------------------------------------------------------------------------
(* The inductive invariants.                                               *)

\* Boot, and the stages of shutdown from which a part of the core is gone.
Unbooted == {"none"} \cup Boot
LogGone == {"drain", "diagStop", "joinDiag", "handle", "destructor"}
ReaderGone == {"log", "joinLog"} \cup LogGone
WriterGone == {"admission", "reader", "joinReader"} \cup ReaderGone
DispatcherGone == {"pools", "writer", "joinWriter"} \cup WriterGone

\* The Dispatcher runs from the last step of boot to its join; the gate of the observer
\* is open only while nobody has told it to stop.
LoopInv ==
  /\ ~started => dispatcher = "none"
  /\ caller \in Unbooted \cup DispatcherGone => ~started
  /\ gate => /\ started /\ runtime /\ dispatcher # "none"
             /\ caller \in {"ready", "timer", "joinTimer", "gate"}

\* Only the Dispatcher starts the threads of a session; shutdown joins each once.
SessionInv ==
  /\ caller \in Unbooted => timer = "none"
  /\ caller \in Unbooted \cup WriterGone => writer = "none"
  /\ caller \in Unbooted \cup ReaderGone => reader = "none"
  /\ caller \in Unbooted \cup LogGone => log = "none"

\* The slots are taken from create to destroy, the diagnostic writer from its start to
\* its join.
SlotsInv ==
  /\ core <=> caller # "none"
  /\ caller \in {"none", "destructor"} => ~handle
  /\ bound = slot
  /\ caller \in {"none", "bind", "rx", "diag", "handle", "destructor"} => ~slot
  /\ ~slot => thread = "none"

\* A block that is not written has a writer, or its close ran out of time.
LogInv ==
  /\ log = "stop" => caller = "joinLog"
  /\ caller = "joinLog" => log # "run"
  /\ raw > 0 => log = "run" \/ late
  /\ caller \in Unbooted \cup (LogGone \ {"drain"}) => raw = 0
  /\ lost > 0 => late

\* A thread that has pushed a record lives until it has signalled.
OwedInv ==
  /\ owed \subseteq {"dispatcher", "reader", "writer"}
  /\ "dispatcher" \in owed => dispatcher # "none"
  /\ "reader" \in owed => reader # "none"
  /\ "writer" \in owed => writer # "none"
  /\ ~slot => owed = {}

\* What a pass of the diagnostic writer has not taken was pushed during the pass.
PassInv ==
  /\ ~drained => batch = 0
  /\ ~drained /\ thread \in {"normal", "stop", "sizes"} => Elements(critical) \subseteq fresh
  /\ ~drained /\ thread \in {"stop", "sizes"} => Elements(normal) \subseteq fresh

CoreInv == TypeOK /\ LoopInv /\ SessionInv /\ SlotsInv /\ LogInv /\ OwedInv /\ PassInv

-----------------------------------------------------------------------------
(* The diagnostic writer.                                                  *)

\* What the bounds are.
LEMMA Bounds ==
  /\ LaneCapacity \in Nat /\ LaneCapacity >= 1 /\ DrainBatch \in Nat /\ DrainBatch >= 1
  /\ FileLines \in Nat /\ FileLines >= 1 /\ RecordBound \in Nat /\ RecordBound >= 1
  /\ PostBound \in Nat /\ RawBound \in Nat
  /\ {"dispatcher", "reader", "writer"} \subseteq Emitters
BY DiagAssumption, CoreAssumption

\* What the diagnostic writer and its producers do in a step of the core.
Whos == {"dispatcher", "reader", "writer"}
Pushes == \E who \in Whos, lane \in Lanes : Emit(who, lane)
Dies == dead' = TRUE /\ UNCHANGED <<storage, lanes, wake, owed, quit, thread, locals>>
DiagMoves == Starts \/ AsksToStop \/ Ends \/ Pushes \/ Dies \/ Signal \/ Writes \/ UNCHANGED diagVars

\* Every step of the core is one of these for the diagnostic writer.
LEMMA DiagFrame == Next => DiagMoves
<1> USE DEF DiagMoves
<1>1. ASSUME Create \/ BootBinds \/ BootPool \/ BootStart \/ Post \/ LogOpen \/ Destroy
      PROVE  UNCHANGED diagVars
  BY <1>1 DEF Create, BootBinds, BootPool, BootStart, Post, LogOpen, Destroy
<1>2. ASSUME \E at \in Boot : BootFails(at) PROVE UNCHANGED diagVars
  BY <1>2 DEF BootFails
<1>3. ASSUME BootDiag PROVE UNCHANGED diagVars \/ Starts
  BY <1>3 DEF BootDiag, StartFails
<1>4. ASSUME QuitTimer \/ QuitDispatcher \/ ReleasePools \/ QuitWriter \/ QuitReader \/ QuitLog \/ Free
      PROVE  UNCHANGED diagVars
  BY <1>4 DEF QuitTimer, QuitDispatcher, ReleasePools, QuitWriter, QuitReader, QuitLog, Free
<1>5. ASSUME QuitDiag PROVE UNCHANGED diagVars \/ AsksToStop \/ Ends
  BY <1>5 DEF QuitDiag
<1>6. ASSUME DispatchOpen \/ CloseSession PROVE UNCHANGED diagVars \/ Pushes
  <2>1. ASSUME NEW lane \in Lanes, Tells("dispatcher", lane) PROVE UNCHANGED diagVars \/ Pushes
    BY <2>1 DEF Tells, Pushes, Whos
  <2>2. "normal" \in Lanes /\ "critical" \in Lanes
    BY DEF Lanes
  <2>3. UNCHANGED diagVars \/ \E lane \in Lanes : Tells("dispatcher", lane)
    BY <1>6, <2>2 DEF DispatchOpen, CloseSession
  <2> QED BY <2>1, <2>3
<1>7. ASSUME DispatchClose \/ DispatchAuto \/ SetTimer \/ DispatcherEnds PROVE UNCHANGED diagVars
  BY <1>7 DEF DispatchClose, DispatchAuto, SetTimer, DispatcherEnds
<1>8. ASSUME Timer \/ ReaderReads \/ ReaderFaults \/ LogWrites PROVE UNCHANGED diagVars
  BY <1>8 DEF Timer, ReaderReads, ReaderFaults, LogWrites
<1>9. ASSUME ReaderEmits \/ Writer PROVE UNCHANGED diagVars \/ Pushes
  BY <1>9 DEF ReaderEmits, Writer, Pushes, Whos, Lanes
<1>10. ASSUME JoinsTwice PROVE Dies
  BY <1>10 DEF JoinsTwice, Dies
<1>11. ASSUME Diag PROVE Writes \/ Signal
  BY <1>11 DEF Diag
<1> QED BY <1>1, <1>2, <1>3, <1>4, <1>5, <1>6, <1>7, <1>8, <1>9, <1>10, <1>11
           DEF Next, Live, Calls, Tear, Dispatcher

\* The lanes take what is pushed and give what is taken.
LEMMA TailKeeps ==
  ASSUME NEW S, NEW lane \in Seq(S), lane # <<>>
  PROVE  Tail(lane) \in Seq(S) /\ Len(Tail(lane)) = Len(lane) - 1 /\ Elements(Tail(lane)) \subseteq Elements(lane)
<1>1. Tail(lane) \in Seq(S) /\ Len(Tail(lane)) = Len(lane) - 1 /\ Len(lane) \in Nat
  BY DEF Elements
<1>2. \A i \in 1 .. Len(Tail(lane)) : Tail(lane)[i] = lane[i + 1] /\ i + 1 \in 1 .. Len(lane)
  BY <1>1
<1> QED BY <1>1, <1>2 DEF Elements

\* A push adds one element at the end.
LEMMA AppendKeeps ==
  ASSUME NEW S, NEW lane \in Seq(S), NEW e \in S
  PROVE  /\ Append(lane, e) \in Seq(S) /\ Len(Append(lane, e)) = Len(lane) + 1
         /\ Elements(Append(lane, e)) \subseteq Elements(lane) \cup {e}
<1>1. Append(lane, e) \in Seq(S) /\ Len(Append(lane, e)) = Len(lane) + 1 /\ Len(lane) \in Nat
  OBVIOUS
<1>2. \A i \in 1 .. Len(lane) : Append(lane, e)[i] = lane[i]
  OBVIOUS
<1>3. Append(lane, e)[Len(lane) + 1] = e
  OBVIOUS
<1>4. ASSUME NEW i \in 1 .. Len(Append(lane, e)) PROVE Append(lane, e)[i] \in Elements(lane) \cup {e}
  <2>1. i = Len(lane) + 1 \/ i \in 1 .. Len(lane)
    BY <1>1
  <2> QED BY <1>2, <1>3, <2>1 DEF Elements
<1>5. Elements(Append(lane, e)) \subseteq Elements(lane) \cup {e}
  BY <1>4 DEF Elements
<1> QED BY <1>1, <1>5

\* The diagnostic writer keeps its types.
LEMMA DiagTypes == DiagTypeOK /\ DiagMoves => DiagTypeOK'
<1> SUFFICES ASSUME DiagTypeOK, DiagMoves PROVE DiagTypeOK'
  OBVIOUS
<1> USE Bounds DEF storage, lanes, locals
<1>0. critical \in Seq(Records) /\ normal \in Seq(Records) /\ Len(critical) \in Nat /\ Len(normal) \in Nat
      /\ file \in NoFile .. FileLines /\ NoFile = -1
  BY DEF DiagTypeOK, NoFile
<1>1. CASE Starts
  <2>1. <<1>> \in Seq(Records) /\ Len(<<1>>) = 1
    BY DEF Records
  <2>2. 1 \in 0 .. RecordBound /\ {1} \subseteq Records /\ 0 \in 0 .. DrainBatch
    BY DEF Records
  <2>3. file' \in NoFile .. FileLines
    BY <1>0, <1>1 DEF Starts
  <2>4. <<>> \in Seq(Records) /\ Len(<<>>) = 0
    OBVIOUS
  <2>5. /\ slot' = TRUE /\ bound' = TRUE /\ quit' = FALSE /\ thread' = "critical" /\ batch' = 0
        /\ drained' = FALSE /\ stopSeen' = FALSE /\ wake' = TRUE /\ owed' = {} /\ records' = 1
        /\ fresh' = {1} /\ dead' = dead
    BY <1>1 DEF Starts
  <2>6. critical' = <<>> /\ normal' = <<1>>
    BY <1>1 DEF Starts
  <2>7. critical' \in Seq(Records) /\ normal' \in Seq(Records) /\ Len(critical') <= LaneCapacity /\ Len(normal') <= LaneCapacity
    BY <2>1, <2>4, <2>6
  <2>8. dead \in BOOLEAN
    BY DEF DiagTypeOK
  <2> QED BY <2>2, <2>3, <2>5, <2>7, <2>8 DEF DiagTypeOK
<1>2. CASE AsksToStop
  BY <1>2 DEF AsksToStop, DiagTypeOK
<1>3. CASE Ends
  <2>1. 0 \in 0 .. RecordBound /\ NoFile \in NoFile .. FileLines /\ <<>> \in Seq(Records) /\ Len(<<>>) = 0
    BY <1>0
  <2>2. critical' = <<>> /\ normal' = <<>> /\ file' = NoFile /\ records' = 0
    BY <1>3 DEF Ends
  <2>3. slot' = FALSE /\ bound' = FALSE /\ wake' = FALSE /\ quit' = FALSE /\ fresh' = {}
    BY <1>3 DEF Ends
  <2>4. UNCHANGED <<owed, thread, locals, dead>>
    BY <1>3 DEF Ends
  <2>5. critical' \in Seq(Records) /\ normal' \in Seq(Records) /\ Len(critical') <= LaneCapacity /\ Len(normal') <= LaneCapacity
    BY <2>1, <2>2
  <2> QED BY <2>1, <2>2, <2>3, <2>4, <2>5 DEF DiagTypeOK
<1>4. CASE Pushes
  <2>1. PICK who \in Whos, lane \in Lanes : Emit(who, lane)
    BY <1>4 DEF Pushes
  <2>2. records \in 0 .. RecordBound /\ records < RecordBound /\ records' = records + 1
    BY <2>1 DEF Emit, Room, Push, DiagTypeOK
  <2>3. records' \in Records /\ records' \in 0 .. RecordBound
    BY <2>2 DEF Records
  <2>4. owed' \subseteq Emitters /\ fresh' \subseteq Records
    BY <2>1, <2>3 DEF Emit, Push, DiagTypeOK, Whos
  <2>5. critical' \in Seq(Records) /\ Len(critical') <= LaneCapacity
    <3>1. CASE lane = "critical"
      <4>1. critical' = Append(critical, records') /\ Len(critical) < LaneCapacity
        BY <2>1, <3>1 DEF Emit, Push, Room
      <4> QED BY <1>0, <2>3, <4>1, AppendKeeps
    <3>2. CASE lane # "critical"
      BY <2>1, <3>2 DEF Emit, Push, DiagTypeOK
    <3> QED BY <3>1, <3>2
  <2>6. normal' \in Seq(Records) /\ Len(normal') <= LaneCapacity
    <3>1. CASE lane = "normal"
      <4>1. normal' = Append(normal, records') /\ Len(normal) < LaneCapacity
        BY <2>1, <3>1 DEF Emit, Push, Room
      <4> QED BY <1>0, <2>3, <4>1, AppendKeeps
    <3>2. CASE lane # "normal"
      BY <2>1, <3>2 DEF Emit, Push, DiagTypeOK
    <3> QED BY <3>1, <3>2
  <2>7. UNCHANGED <<storage, wake, quit, thread, locals, dead>>
    BY <2>1 DEF Emit, Push
  <2> QED BY <2>3, <2>4, <2>5, <2>6, <2>7 DEF DiagTypeOK
<1>5. CASE Dies
  BY <1>5 DEF Dies, DiagTypeOK
<1>6. CASE Signal
  BY <1>6 DEF Signal, DiagTypeOK
<1>7. CASE Writes
  <2>1. ASSUME WritesLine PROVE file' \in NoFile .. FileLines /\ dead' \in BOOLEAN
    BY <1>0, <2>1 DEF WritesLine, NewFile, DiagTypeOK
  <2>2. CASE PopCritical
    <3>1. critical # <<>> => Tail(critical) \in Seq(Records) /\ Len(Tail(critical)) = Len(critical) - 1
      BY <1>0, TailKeeps
    <3>2. critical' \in Seq(Records) /\ Len(critical') <= LaneCapacity
      BY <1>0, <2>2, <3>1 DEF PopCritical, DiagTypeOK
    <3>3. file' \in NoFile .. FileLines /\ dead' \in BOOLEAN
      BY <2>1, <2>2 DEF PopCritical, DiagTypeOK
    <3>4. drained' \in BOOLEAN /\ thread' \in {"critical", "normal"}
      BY <2>2 DEF PopCritical, DiagTypeOK, At
    <3>5. batch' \in 0 .. DrainBatch
      <4>1. batch \in 0 .. DrainBatch
        BY DEF DiagTypeOK
      <4>2. batch' = batch \/ (batch < DrainBatch /\ batch' = batch + 1)
        BY <2>2 DEF PopCritical
      <4> QED BY <4>1, <4>2
    <3>6. UNCHANGED <<slot, bound, normal, records, fresh, wake, owed, quit, stopSeen>>
      BY <2>2 DEF PopCritical
    <3> QED BY <3>2, <3>3, <3>4, <3>5, <3>6 DEF DiagTypeOK
  <2>3. CASE PopNormal
    <3>1. normal # <<>> => Tail(normal) \in Seq(Records) /\ Len(Tail(normal)) = Len(normal) - 1
      BY <1>0, TailKeeps
    <3>2. normal' \in Seq(Records) /\ Len(normal') <= LaneCapacity
      BY <1>0, <2>3, <3>1 DEF PopNormal, DiagTypeOK
    <3>3. file' \in NoFile .. FileLines /\ dead' \in BOOLEAN
      BY <2>1, <2>3 DEF PopNormal, DiagTypeOK
    <3>4. drained' \in BOOLEAN /\ thread' = "stop"
      BY <2>3 DEF PopNormal, DiagTypeOK, At
    <3> QED BY <2>3, <3>2, <3>3, <3>4 DEF PopNormal, DiagTypeOK
  <2>4. CASE LoadStop
    BY <2>4 DEF LoadStop, DiagTypeOK, At
  <2>5. CASE EndPass
    <3>1. PICK to \in {"none", "critical", "wait"} : Turn(to)
      BY <2>5 DEF EndPass
    <3>2. 0 \in 0 .. DrainBatch /\ fresh' \subseteq Records
      BY <3>1 DEF Turn, DiagTypeOK
    <3> QED BY <3>1, <3>2 DEF Turn, At, DiagTypeOK
  <2>6. CASE Awake
    BY <2>6 DEF Awake, DiagTypeOK, At
  <2> QED BY <1>7, <2>2, <2>3, <2>4, <2>5, <2>6 DEF Writes
<1>8. CASE UNCHANGED diagVars
  BY <1>8 DEF diagVars, DiagTypeOK
<1> QED BY <1>1, <1>2, <1>3, <1>4, <1>5, <1>6, <1>7, <1>8 DEF DiagMoves

\* What a pass has not taken was pushed while it ran: a pop ends the claim for this
\* pass, a lane found empty starts it, a push adds to both sides.
LEMMA PassStep == DiagTypeOK /\ PassInv /\ DiagMoves => PassInv'
<1> SUFFICES ASSUME DiagTypeOK, PassInv, DiagMoves PROVE PassInv'
  OBVIOUS
<1> USE DEF storage, lanes, locals
<1>0. critical \in Seq(Records) /\ normal \in Seq(Records) /\ drained \in BOOLEAN /\ batch \in Nat
  BY Bounds DEF DiagTypeOK
<1>1. CASE Starts
  BY <1>1 DEF Starts, PassInv
<1>2. CASE AsksToStop \/ Dies \/ Signal
  BY <1>2 DEF AsksToStop, Dies, Signal, PassInv
<1>3. CASE Ends
  BY <1>3 DEF Ends, PassInv
<1>4. CASE Pushes
  <2>1. PICK who \in Whos, lane \in Lanes : Emit(who, lane)
    BY <1>4 DEF Pushes
  <2>2. fresh' = fresh \cup {records'} /\ UNCHANGED <<thread, locals>>
    BY <2>1 DEF Emit, Push
  <2>3. records' \in Records
    BY <2>1, Bounds DEF Emit, Push, Room, Records, DiagTypeOK
  <2>4. Elements(critical') \subseteq Elements(critical) \cup {records'}
    <3>1. critical' = critical \/ critical' = Append(critical, records')
      BY <2>1 DEF Emit, Push
    <3> QED BY <1>0, <2>3, <3>1, AppendKeeps
  <2>5. Elements(normal') \subseteq Elements(normal) \cup {records'}
    <3>1. normal' = normal \/ normal' = Append(normal, records')
      BY <2>1 DEF Emit, Push
    <3> QED BY <1>0, <2>3, <3>1, AppendKeeps
  <2> QED BY <2>2, <2>4, <2>5 DEF PassInv
<1>5. CASE PopCritical
  <2>1. CASE drained' = TRUE
    BY <2>1 DEF PassInv
  <2>2. CASE UNCHANGED <<critical, batch, drained>> /\ (batch = DrainBatch \/ critical = <<>>)
    <3>1. UNCHANGED <<normal, fresh>> /\ thread' = "normal"
      BY <1>5, <2>2 DEF PopCritical, At
    <3>2. ~drained => critical = <<>>
      BY <2>2, Bounds DEF PassInv
    <3>3. critical = <<>> => Elements(critical) = {}
      BY DEF Elements
    <3> QED BY <2>2, <3>1, <3>2, <3>3 DEF PassInv
  <2> QED BY <1>5, <2>1, <2>2 DEF PopCritical
<1>6. CASE PopNormal
  <2>1. CASE drained' = TRUE
    BY <2>1 DEF PassInv
  <2>2. CASE UNCHANGED <<normal, drained>> /\ normal = <<>>
    <3>1. UNCHANGED <<critical, fresh, batch>> /\ thread = "normal" /\ thread' = "stop"
      BY <1>6 DEF PopNormal, At
    <3>2. Elements(normal) = {}
      BY <2>2 DEF Elements
    <3> QED BY <2>2, <3>1, <3>2 DEF PassInv
  <2> QED BY <1>6, <2>1, <2>2 DEF PopNormal
<1>7. CASE LoadStop
  BY <1>7 DEF LoadStop, At, PassInv
<1>8. CASE EndPass
  <2>1. PICK to \in {"none", "critical", "wait"} : Turn(to)
    BY <1>8 DEF EndPass
  <2> QED BY <2>1 DEF Turn, At, PassInv
<1>9. CASE Awake
  BY <1>9 DEF Awake, At, PassInv
<1>10. CASE UNCHANGED diagVars
  BY <1>10 DEF diagVars, PassInv
<1> QED BY <1>1, <1>2, <1>3, <1>4, <1>5, <1>6, <1>7, <1>8, <1>9, <1>10 DEF DiagMoves, Writes


-----------------------------------------------------------------------------
(* The types of the core.                                                  *)

Stages == {"none", "ready"} \cup Boot \cup Teardown
Events == Controls \cup {"tick", "fault"}

CoreFlags ==
  /\ core \in BOOLEAN /\ handle \in BOOLEAN /\ started \in BOOLEAN /\ gate \in BOOLEAN
  /\ pool \in BOOLEAN /\ runtime \in BOOLEAN /\ port \in BOOLEAN /\ admission \in BOOLEAN
  /\ timerStop \in BOOLEAN /\ readerStop \in BOOLEAN /\ writerStop \in BOOLEAN /\ late \in BOOLEAN

CorePlaces ==
  /\ dispatcher \in {"none", "idle", "arm", "launch", "off", "disarm", "cut"}
  /\ timer \in {"none", "sleep", "submit"} /\ reader \in {"none", "read", "wait", "fault"}
  /\ writer \in {"none", "run"} /\ log \in {"none", "run", "stop"}

CoreCounts ==
  queue \in Seq(Events) /\ posts \in 0 .. PostBound /\ raw \in 0 .. RawBound /\ lost \in 0 .. RawBound

\* TypeOK is these parts.
LEMMA TypesAre == TypeOK <=> caller \in Stages /\ CoreFlags /\ CorePlaces /\ CoreCounts /\ DiagTypeOK
BY DEF TypeOK, Stages, Events, CoreFlags, CorePlaces, CoreCounts

\* What is left of a queue is a queue.
LEMMA TailTakes ==
  ASSUME NEW S, NEW q \in Seq(S), q # <<>>
  PROVE  Tail(q) \in Seq(S)
OBVIOUS

\* The caller is somewhere in boot, ready or shutdown.
LEMMA StageStep == caller \in Stages /\ Next => caller' \in Stages
<1> SUFFICES ASSUME caller \in Stages, Next PROVE caller' \in Stages
  OBVIOUS
<1> USE DEF Goes, Stages, Boot, Teardown
<1>1. CASE Create
  BY <1>1 DEF Create
<1>2. CASE BootBinds
  BY <1>2 DEF BootBinds
<1>3. CASE BootDiag
  BY <1>3 DEF BootDiag
<1>4. CASE BootPool
  BY <1>4 DEF BootPool
<1>5. CASE BootStart
  BY <1>5 DEF BootStart
<1>6. CASE Post
  BY <1>6 DEF Post
<1>7. CASE LogOpen
  BY <1>7 DEF LogOpen
<1>8. CASE Destroy
  BY <1>8 DEF Destroy
<1>9. CASE \E at \in Boot : BootFails(at)
  BY <1>9 DEF BootFails
<1>10. CASE QuitTimer
  BY <1>10 DEF QuitTimer
<1>11. CASE QuitDispatcher
  BY <1>11 DEF QuitDispatcher
<1>12. CASE ReleasePools
  BY <1>12 DEF ReleasePools
<1>13. CASE QuitWriter
  BY <1>13 DEF QuitWriter
<1>14. CASE QuitReader
  BY <1>14 DEF QuitReader
<1>15. CASE QuitLog
  BY <1>15 DEF QuitLog
<1>16. CASE QuitDiag
  BY <1>16 DEF QuitDiag
<1>17. CASE Free
  BY <1>17 DEF Free
<1>18. CASE DispatchOpen
  BY <1>18 DEF DispatchOpen, Acts
<1>19. CASE DispatchClose
  BY <1>19 DEF DispatchClose, Acts
<1>20. CASE CloseSession
  BY <1>20 DEF CloseSession, Acts
<1>21. CASE DispatchAuto
  BY <1>21 DEF DispatchAuto, Acts
<1>22. CASE SetTimer
  BY <1>22 DEF SetTimer, Acts
<1>23. CASE DispatcherEnds
  BY <1>23 DEF DispatcherEnds
<1>24. CASE Timer
  BY <1>24 DEF Timer
<1>25. CASE ReaderReads
  BY <1>25 DEF ReaderReads
<1>26. CASE ReaderFaults
  BY <1>26 DEF ReaderFaults
<1>27. CASE ReaderEmits
  BY <1>27 DEF ReaderEmits
<1>28. CASE Writer
  BY <1>28 DEF Writer
<1>29. CASE LogWrites
  BY <1>29 DEF LogWrites
<1>30. CASE JoinsTwice
  BY <1>30 DEF JoinsTwice
<1>31. CASE Diag
  BY <1>31 DEF Diag
<1> QED BY <1>1, <1>2, <1>3, <1>4, <1>5, <1>6, <1>7, <1>8, <1>9, <1>10, <1>11, <1>12, <1>13, <1>14, <1>15, <1>16, <1>17, <1>18, <1>19, <1>20, <1>21, <1>22, <1>23, <1>24, <1>25, <1>26, <1>27, <1>28, <1>29, <1>30, <1>31
           DEF Next, Live, Calls, Tear, Dispatcher

\* Flags stay flags.
LEMMA FlagStep == CoreFlags /\ Next => CoreFlags'
<1> SUFFICES ASSUME CoreFlags, Next PROVE CoreFlags'
  OBVIOUS
<1> USE DEF slots, loop, events, session, auto, files, CoreFlags
<1>1. CASE Create
  BY <1>1 DEF Create
<1>2. CASE BootBinds
  BY <1>2 DEF BootBinds
<1>3. CASE BootDiag
  BY <1>3 DEF BootDiag
<1>4. CASE BootPool
  BY <1>4 DEF BootPool
<1>5. CASE BootStart
  BY <1>5 DEF BootStart
<1>6. CASE Post
  BY <1>6 DEF Post
<1>7. CASE LogOpen
  BY <1>7 DEF LogOpen
<1>8. CASE Destroy
  BY <1>8 DEF Destroy
<1>9. CASE \E at \in Boot : BootFails(at)
  BY <1>9 DEF BootFails
<1>10. CASE QuitTimer
  <2>0. UNCHANGED <<core, handle, started, gate, pool, runtime, port, admission, readerStop, writerStop, late>>
    BY <1>10 DEF QuitTimer
  <2>1. timerStop' \in BOOLEAN
    BY <1>10 DEF QuitTimer
  <2> QED BY <2>0, <2>1, Zenon
<1>11. CASE QuitDispatcher
  <2>0. UNCHANGED <<core, handle, pool, port, admission, timerStop, readerStop, writerStop, late>>
    BY <1>11 DEF QuitDispatcher
  <2>1. gate' \in BOOLEAN
    BY <1>11 DEF QuitDispatcher
  <2>2. started' \in BOOLEAN
    BY <1>11 DEF QuitDispatcher
  <2>3. runtime' \in BOOLEAN
    BY <1>11 DEF QuitDispatcher
  <2> QED BY <2>0, <2>1, <2>2, <2>3, Zenon
<1>12. CASE ReleasePools
  BY <1>12 DEF ReleasePools
<1>13. CASE QuitWriter
  <2>0. UNCHANGED <<core, handle, started, gate, pool, runtime, port, admission, timerStop, readerStop, late>>
    BY <1>13 DEF QuitWriter
  <2>1. writerStop' \in BOOLEAN
    BY <1>13 DEF QuitWriter
  <2> QED BY <2>0, <2>1, Zenon
<1>14. CASE QuitReader
  <2>0. UNCHANGED <<core, handle, started, gate, pool, runtime, port, timerStop, writerStop, late>>
    BY <1>14 DEF QuitReader
  <2>1. admission' \in BOOLEAN
    BY <1>14 DEF QuitReader
  <2>2. readerStop' \in BOOLEAN
    BY <1>14 DEF QuitReader
  <2> QED BY <2>0, <2>1, <2>2, Zenon
<1>15. CASE QuitLog
  <2>0. UNCHANGED <<core, handle, started, gate, pool, runtime, port, admission, timerStop, readerStop, writerStop>>
    BY <1>15 DEF QuitLog
  <2>1. late' \in BOOLEAN
    BY <1>15 DEF QuitLog
  <2> QED BY <2>0, <2>1, Zenon
<1>16. CASE QuitDiag
  BY <1>16 DEF QuitDiag
<1>17. CASE Free
  <2>0. UNCHANGED <<started, gate, pool, runtime>>
    BY <1>17 DEF Free
  <2>1. handle' \in BOOLEAN
    BY <1>17 DEF Free
  <2>2. timerStop' \in BOOLEAN
    BY <1>17 DEF Free
  <2>3. core' \in BOOLEAN
    BY <1>17 DEF Free
  <2>4. port' \in BOOLEAN
    BY <1>17 DEF Free
  <2>5. admission' \in BOOLEAN
    BY <1>17 DEF Free
  <2>6. readerStop' \in BOOLEAN
    BY <1>17 DEF Free
  <2>7. writerStop' \in BOOLEAN
    BY <1>17 DEF Free
  <2>8. late' \in BOOLEAN
    BY <1>17 DEF Free
  <2> QED BY <2>0, <2>1, <2>2, <2>3, <2>4, <2>5, <2>6, <2>7, <2>8, Zenon
<1>18. CASE DispatchOpen
  <2>0. UNCHANGED <<core, handle, started, gate, pool, runtime, timerStop, late>>
    BY <1>18 DEF DispatchOpen, Acts
  <2>1. port' \in BOOLEAN
    BY <1>18 DEF DispatchOpen, Acts
  <2>2. admission' \in BOOLEAN
    BY <1>18 DEF DispatchOpen, Acts
  <2>3. readerStop' \in BOOLEAN
    BY <1>18 DEF DispatchOpen, Acts
  <2>4. writerStop' \in BOOLEAN
    BY <1>18 DEF DispatchOpen, Acts
  <2> QED BY <2>0, <2>1, <2>2, <2>3, <2>4, Zenon
<1>19. CASE DispatchClose
  <2>0. UNCHANGED <<core, handle, started, gate, pool, runtime, port, admission, readerStop, writerStop, late>>
    BY <1>19 DEF DispatchClose, Acts
  <2>1. timerStop' \in BOOLEAN
    BY <1>19 DEF DispatchClose, Acts
  <2> QED BY <2>0, <2>1, Zenon
<1>20. CASE CloseSession
  <2>0. UNCHANGED <<core, handle, started, gate, pool, runtime, timerStop, late>>
    BY <1>20 DEF CloseSession, Acts
  <2>1. admission' \in BOOLEAN
    BY <1>20 DEF CloseSession, Acts
  <2>2. writerStop' \in BOOLEAN
    BY <1>20 DEF CloseSession, Acts
  <2>3. readerStop' \in BOOLEAN
    BY <1>20 DEF CloseSession, Acts
  <2>4. port' \in BOOLEAN
    BY <1>20 DEF CloseSession, Acts
  <2> QED BY <2>0, <2>1, <2>2, <2>3, <2>4, Zenon
<1>21. CASE DispatchAuto
  <2>0. UNCHANGED <<core, handle, started, gate, pool, runtime, port, admission, readerStop, writerStop, late>>
    BY <1>21 DEF DispatchAuto, Acts
  <2>1. timerStop' \in BOOLEAN
    BY <1>21 DEF DispatchAuto, Acts
  <2> QED BY <2>0, <2>1, Zenon
<1>22. CASE SetTimer
  <2>0. UNCHANGED <<core, handle, started, gate, pool, runtime, port, admission, readerStop, writerStop, late>>
    BY <1>22 DEF SetTimer, Acts
  <2>1. timerStop' \in BOOLEAN
    BY <1>22 DEF SetTimer, Acts
  <2> QED BY <2>0, <2>1, Zenon
<1>23. CASE DispatcherEnds
  BY <1>23 DEF DispatcherEnds
<1>24. CASE Timer
  BY <1>24 DEF Timer
<1>25. CASE ReaderReads
  BY <1>25 DEF ReaderReads
<1>26. CASE ReaderFaults
  BY <1>26 DEF ReaderFaults
<1>27. CASE ReaderEmits
  BY <1>27 DEF ReaderEmits
<1>28. CASE Writer
  BY <1>28 DEF Writer
<1>29. CASE LogWrites
  BY <1>29 DEF LogWrites
<1>30. CASE JoinsTwice
  BY <1>30 DEF JoinsTwice
<1>31. CASE Diag
  BY <1>31 DEF Diag
<1> QED BY <1>1, <1>2, <1>3, <1>4, <1>5, <1>6, <1>7, <1>8, <1>9, <1>10, <1>11, <1>12, <1>13, <1>14, <1>15, <1>16, <1>17, <1>18, <1>19, <1>20, <1>21, <1>22, <1>23, <1>24, <1>25, <1>26, <1>27, <1>28, <1>29, <1>30, <1>31
           DEF Next, Live, Calls, Tear, Dispatcher

\* Every thread is at one of its places.
LEMMA PlaceStep == CorePlaces /\ Next => CorePlaces'
<1> SUFFICES ASSUME CorePlaces, Next PROVE CorePlaces'
  OBVIOUS
<1> USE DEF slots, loop, events, session, auto, files, CorePlaces
<1>1. CASE Create \/ BootBinds
  BY <1>1 DEF Create, BootBinds
<1>2. CASE BootDiag \/ BootPool
  BY <1>2 DEF BootDiag, BootPool
<1>3. CASE BootStart \/ Post
  BY <1>3 DEF BootStart, Post
<1>4. CASE LogOpen \/ Destroy
  BY <1>4 DEF LogOpen, Destroy
<1>5. CASE \E at \in Boot : BootFails(at)
  BY <1>5 DEF BootFails
<1>6. CASE QuitTimer
  BY <1>6 DEF QuitTimer
<1>7. CASE QuitDispatcher
  BY <1>7 DEF QuitDispatcher
<1>8. CASE ReleasePools
  BY <1>8 DEF ReleasePools
<1>9. CASE QuitWriter
  BY <1>9 DEF QuitWriter
<1>10. CASE QuitReader
  BY <1>10 DEF QuitReader
<1>11. CASE QuitLog
  BY <1>11 DEF QuitLog
<1>12. CASE QuitDiag
  BY <1>12 DEF QuitDiag
<1>13. CASE Free
  BY <1>13 DEF Free
<1>14. CASE DispatchOpen \/ DispatchClose
  BY <1>14 DEF DispatchOpen, Acts, DispatchClose
<1>15. CASE CloseSession
  BY <1>15 DEF CloseSession, Acts
<1>16. CASE DispatchAuto \/ SetTimer
  BY <1>16 DEF DispatchAuto, Acts, SetTimer
<1>17. CASE DispatcherEnds \/ Timer
  BY <1>17 DEF DispatcherEnds, Timer
<1>18. CASE ReaderReads \/ ReaderFaults
  BY <1>18 DEF ReaderReads, ReaderFaults
<1>19. CASE ReaderEmits \/ Writer
  BY <1>19 DEF ReaderEmits, Writer
<1>20. CASE LogWrites \/ JoinsTwice
  BY <1>20 DEF LogWrites, JoinsTwice
<1>21. CASE Diag
  BY <1>21 DEF Diag
<1> QED BY <1>1, <1>2, <1>3, <1>4, <1>5, <1>6, <1>7, <1>8, <1>9, <1>10, <1>11, <1>12, <1>13, <1>14, <1>15, <1>16, <1>17, <1>18, <1>19, <1>20, <1>21
           DEF Next, Live, Calls, Tear, Dispatcher

\* The queue holds events, the counters stay within their bounds.
LEMMA CountStep == CoreCounts /\ Next => CoreCounts'
<1> SUFFICES ASSUME CoreCounts, Next PROVE CoreCounts'
  OBVIOUS
<1>a. queue \in Seq(Events) /\ <<>> \in Seq(Events)
  BY DEF CoreCounts
<1>b. queue # <<>> => Tail(queue) \in Seq(Events)
  BY <1>a, TailTakes
<1>c. ASSUME NEW e \in Events PROVE Append(queue, e) \in Seq(Events)
  BY <1>a
<1>d. ASSUME NEW e \in Events, Submits(e) PROVE queue' \in Seq(Events)
  BY <1>a, <1>c, <1>d DEF Submits
<1>e. /\ Controls \subseteq Events /\ "tick" \in Events /\ "fault" \in Events
      /\ 0 \in 0 .. PostBound /\ 0 \in 0 .. RawBound /\ RawBound \in Nat /\ PostBound \in Nat
  BY Bounds DEF Events, Controls
<1>f. posts \in 0 .. PostBound /\ raw \in 0 .. RawBound /\ lost \in 0 .. RawBound
  BY DEF CoreCounts
<1> USE DEF slots, loop, events, session, auto, files
<1>1. CASE Create
  BY <1>1, <1>a, <1>b, <1>e, <1>f DEF Create, CoreCounts
<1>2. CASE BootBinds
  BY <1>2, <1>a, <1>b, <1>e, <1>f DEF BootBinds, CoreCounts
<1>3. CASE BootDiag
  BY <1>3, <1>a, <1>b, <1>e, <1>f DEF BootDiag, CoreCounts
<1>4. CASE BootPool
  BY <1>4, <1>a, <1>b, <1>e, <1>f DEF BootPool, CoreCounts
<1>5. CASE BootStart
  BY <1>5, <1>a, <1>b, <1>e, <1>f DEF BootStart, CoreCounts
<1>6. CASE Post
  BY <1>6, <1>a, <1>b, <1>e, <1>f, <1>c DEF Post, CoreCounts
<1>7. CASE LogOpen
  BY <1>7, <1>a, <1>b, <1>e, <1>f DEF LogOpen, CoreCounts
<1>8. CASE Destroy
  BY <1>8, <1>a, <1>b, <1>e, <1>f DEF Destroy, CoreCounts
<1>9. CASE \E at \in Boot : BootFails(at)
  BY <1>9, <1>a, <1>b, <1>e, <1>f DEF BootFails, CoreCounts
<1>10. CASE QuitTimer
  BY <1>10, <1>a, <1>b, <1>e, <1>f DEF QuitTimer, CoreCounts
<1>11. CASE QuitDispatcher
  BY <1>11, <1>a, <1>b, <1>e, <1>f DEF QuitDispatcher, CoreCounts
<1>12. CASE ReleasePools
  BY <1>12, <1>a, <1>b, <1>e, <1>f DEF ReleasePools, CoreCounts
<1>13. CASE QuitWriter
  BY <1>13, <1>a, <1>b, <1>e, <1>f DEF QuitWriter, CoreCounts
<1>14. CASE QuitReader
  BY <1>14, <1>a, <1>b, <1>e, <1>f DEF QuitReader, CoreCounts
<1>15. CASE QuitLog
  BY <1>15, <1>a, <1>b, <1>e, <1>f DEF QuitLog, CoreCounts
<1>16. CASE QuitDiag
  BY <1>16, <1>a, <1>b, <1>e, <1>f DEF QuitDiag, CoreCounts
<1>17. CASE Free
  BY <1>17, <1>a, <1>b, <1>e, <1>f DEF Free, CoreCounts
<1>18. CASE DispatchOpen
  BY <1>18, <1>a, <1>b, <1>e, <1>f DEF DispatchOpen, Acts, CoreCounts
<1>19. CASE DispatchClose
  BY <1>19, <1>a, <1>b, <1>e, <1>f DEF DispatchClose, Acts, CoreCounts
<1>20. CASE CloseSession
  BY <1>20, <1>a, <1>b, <1>e, <1>f DEF CloseSession, Acts, CoreCounts
<1>21. CASE DispatchAuto
  BY <1>21, <1>a, <1>b, <1>e, <1>f DEF DispatchAuto, Acts, CoreCounts
<1>22. CASE SetTimer
  BY <1>22, <1>a, <1>b, <1>e, <1>f DEF SetTimer, Acts, CoreCounts
<1>23. CASE DispatcherEnds
  BY <1>23, <1>a, <1>b, <1>e, <1>f DEF DispatcherEnds, CoreCounts
<1>24. CASE Timer
  BY <1>24, <1>a, <1>b, <1>e, <1>f, <1>d DEF Timer, CoreCounts
<1>25. CASE ReaderReads
  BY <1>25, <1>a, <1>b, <1>e, <1>f DEF ReaderReads, CoreCounts
<1>26. CASE ReaderFaults
  BY <1>26, <1>a, <1>b, <1>e, <1>f, <1>d DEF ReaderFaults, CoreCounts
<1>27. CASE ReaderEmits
  BY <1>27, <1>a, <1>b, <1>e, <1>f DEF ReaderEmits, CoreCounts
<1>28. CASE Writer
  BY <1>28, <1>a, <1>b, <1>e, <1>f DEF Writer, CoreCounts
<1>29. CASE LogWrites
  BY <1>29, <1>a, <1>b, <1>e, <1>f DEF LogWrites, CoreCounts
<1>30. CASE JoinsTwice
  BY <1>30, <1>a, <1>b, <1>e, <1>f DEF JoinsTwice, CoreCounts
<1>31. CASE Diag
  BY <1>31, <1>a, <1>b, <1>e, <1>f DEF Diag, CoreCounts
<1> QED BY <1>1, <1>2, <1>3, <1>4, <1>5, <1>6, <1>7, <1>8, <1>9, <1>10, <1>11, <1>12, <1>13, <1>14, <1>15, <1>16, <1>17, <1>18, <1>19, <1>20, <1>21, <1>22, <1>23, <1>24, <1>25, <1>26, <1>27, <1>28, <1>29, <1>30, <1>31
           DEF Next, Live, Calls, Tear, Dispatcher

\* Every step of the core keeps its types.
LEMMA CoreTypes == TypeOK /\ Next => TypeOK'
<1>1. TypeOK' <=> caller' \in Stages /\ CoreFlags' /\ CorePlaces' /\ CoreCounts' /\ DiagTypeOK'
  BY DEF TypeOK, Stages, Events, CoreFlags, CorePlaces, CoreCounts
<1> QED BY <1>1, TypesAre, StageStep, FlagStep, PlaceStep, CountStep, DiagFrame, DiagTypes

-----------------------------------------------------------------------------
(* The parts of the core and their order.                                  *)

\* The Dispatcher is there from BootStart to the join; the gate closes before that.
LEMMA LoopStep == CoreFlags /\ LoopInv /\ Next => LoopInv'
<1> SUFFICES ASSUME CoreFlags, LoopInv, Next PROVE LoopInv'
  OBVIOUS
<1> USE DEF slots, loop, events, session, auto, files, Goes, Boot, Unbooted, LogGone, ReaderGone, WriterGone, DispatcherGone, LoopInv
<1>1. CASE Create
  BY <1>1 DEF Create
<1>2. CASE BootBinds
  BY <1>2 DEF BootBinds
<1>3. CASE BootDiag
  BY <1>3 DEF BootDiag
<1>4. CASE BootPool
  BY <1>4 DEF BootPool
<1>5. CASE BootStart
  BY <1>5 DEF BootStart
<1>6. CASE Post
  BY <1>6 DEF Post
<1>7. CASE LogOpen
  BY <1>7 DEF LogOpen
<1>8. CASE Destroy
  BY <1>8 DEF Destroy
<1>9. CASE \E at \in Boot : BootFails(at)
  BY <1>9 DEF BootFails
<1>10. CASE QuitTimer
  BY <1>10 DEF QuitTimer
<1>11. CASE QuitDispatcher
  BY <1>11 DEF QuitDispatcher
<1>12. CASE ReleasePools
  BY <1>12 DEF ReleasePools
<1>13. CASE QuitWriter
  BY <1>13 DEF QuitWriter
<1>14. CASE QuitReader
  BY <1>14 DEF QuitReader
<1>15. CASE QuitLog
  BY <1>15 DEF QuitLog
<1>16. CASE QuitDiag
  BY <1>16 DEF QuitDiag
<1>17. CASE Free
  BY <1>17 DEF Free
<1>18. CASE DispatchOpen
  BY <1>18 DEF DispatchOpen, Acts
<1>19. CASE DispatchClose
  BY <1>19 DEF DispatchClose, Acts
<1>20. CASE CloseSession
  BY <1>20 DEF CloseSession, Acts
<1>21. CASE DispatchAuto
  BY <1>21 DEF DispatchAuto, Acts
<1>22. CASE SetTimer
  BY <1>22 DEF SetTimer, Acts
<1>23. CASE DispatcherEnds
  BY <1>23 DEF DispatcherEnds
<1>24. CASE Timer
  BY <1>24 DEF Timer
<1>25. CASE ReaderReads
  BY <1>25 DEF ReaderReads
<1>26. CASE ReaderFaults
  BY <1>26 DEF ReaderFaults
<1>27. CASE ReaderEmits
  BY <1>27 DEF ReaderEmits
<1>28. CASE Writer
  BY <1>28 DEF Writer
<1>29. CASE LogWrites
  BY <1>29 DEF LogWrites
<1>30. CASE JoinsTwice
  BY <1>30 DEF JoinsTwice
<1>31. CASE Diag
  BY <1>31 DEF Diag
<1> QED BY <1>1, <1>2, <1>3, <1>4, <1>5, <1>6, <1>7, <1>8, <1>9, <1>10, <1>11, <1>12, <1>13, <1>14, <1>15, <1>16, <1>17, <1>18, <1>19, <1>20, <1>21, <1>22, <1>23, <1>24, <1>25, <1>26, <1>27, <1>28, <1>29, <1>30, <1>31
           DEF Next, Live, Calls, Tear, Dispatcher

\* Only a Dispatcher that runs starts the threads of a session, and it is joined
\* before the first of them is.
LEMMA SessionStep == LoopInv /\ SessionInv /\ Next => SessionInv'
<1> SUFFICES ASSUME LoopInv, SessionInv, Next PROVE SessionInv'
  OBVIOUS
<1>0. dispatcher # "none" => caller \notin Unbooted \cup DispatcherGone
  BY DEF LoopInv
<1> USE DEF slots, loop, events, session, auto, files, Goes, Boot, Unbooted, LogGone, ReaderGone, WriterGone, DispatcherGone, SessionInv
<1>1. CASE Create
  BY <1>1, <1>0 DEF Create
<1>2. CASE BootBinds
  BY <1>2, <1>0 DEF BootBinds
<1>3. CASE BootDiag
  BY <1>3, <1>0 DEF BootDiag
<1>4. CASE BootPool
  BY <1>4, <1>0 DEF BootPool
<1>5. CASE BootStart
  BY <1>5, <1>0 DEF BootStart
<1>6. CASE Post
  BY <1>6, <1>0 DEF Post
<1>7. CASE LogOpen
  BY <1>7, <1>0 DEF LogOpen
<1>8. CASE Destroy
  BY <1>8, <1>0 DEF Destroy
<1>9. CASE \E at \in Boot : BootFails(at)
  BY <1>9, <1>0 DEF BootFails
<1>10. CASE QuitTimer
  BY <1>10, <1>0 DEF QuitTimer
<1>11. CASE QuitDispatcher
  BY <1>11, <1>0 DEF QuitDispatcher
<1>12. CASE ReleasePools
  BY <1>12, <1>0 DEF ReleasePools
<1>13. CASE QuitWriter
  BY <1>13, <1>0 DEF QuitWriter
<1>14. CASE QuitReader
  BY <1>14, <1>0 DEF QuitReader
<1>15. CASE QuitLog
  BY <1>15, <1>0 DEF QuitLog
<1>16. CASE QuitDiag
  BY <1>16, <1>0 DEF QuitDiag
<1>17. CASE Free
  BY <1>17, <1>0 DEF Free
<1>18. CASE DispatchOpen
  BY <1>18, <1>0 DEF DispatchOpen, Acts
<1>19. CASE DispatchClose
  BY <1>19, <1>0 DEF DispatchClose, Acts
<1>20. CASE CloseSession
  BY <1>20, <1>0 DEF CloseSession, Acts
<1>21. CASE DispatchAuto
  BY <1>21, <1>0 DEF DispatchAuto, Acts
<1>22. CASE SetTimer
  BY <1>22, <1>0 DEF SetTimer, Acts
<1>23. CASE DispatcherEnds
  BY <1>23, <1>0 DEF DispatcherEnds
<1>24. CASE Timer
  BY <1>24, <1>0 DEF Timer
<1>25. CASE ReaderReads
  BY <1>25, <1>0 DEF ReaderReads
<1>26. CASE ReaderFaults
  BY <1>26, <1>0 DEF ReaderFaults
<1>27. CASE ReaderEmits
  BY <1>27, <1>0 DEF ReaderEmits
<1>28. CASE Writer
  BY <1>28, <1>0 DEF Writer
<1>29. CASE LogWrites
  BY <1>29, <1>0 DEF LogWrites
<1>30. CASE JoinsTwice
  BY <1>30, <1>0 DEF JoinsTwice
<1>31. CASE Diag
  BY <1>31, <1>0 DEF Diag
<1> QED BY <1>1, <1>2, <1>3, <1>4, <1>5, <1>6, <1>7, <1>8, <1>9, <1>10, <1>11, <1>12, <1>13, <1>14, <1>15, <1>16, <1>17, <1>18, <1>19, <1>20, <1>21, <1>22, <1>23, <1>24, <1>25, <1>26, <1>27, <1>28, <1>29, <1>30, <1>31
           DEF Next, Live, Calls, Tear, Dispatcher

\* A producer that pushes owes the signal, and moves neither slot nor thread.
LEMMA EmitKeeps ==
  ASSUME NEW who, NEW lane, Emit(who, lane)
  PROVE  UNCHANGED <<slot, bound, thread>> /\ owed' = owed \cup {who} /\ bound
BY DEF Emit, Room, Push, storage

\* So does one whose record may be refused.
LEMMA TellsKeep ==
  ASSUME NEW who, NEW lane, Tells(who, lane)
  PROVE  /\ UNCHANGED <<slot, bound, thread>>
         /\ owed' = owed \/ (owed' = owed \cup {who} /\ bound)
BY EmitKeeps DEF Tells, diagVars, storage

\* The writer thread takes no slot and owes no signal.
LEMMA WritesKeep == Writes => UNCHANGED <<slot, bound, owed>> /\ thread # "none"
<1>1. PopCritical => UNCHANGED <<slot, bound, owed>> /\ thread # "none"
  BY DEF PopCritical, At
<1>2. PopNormal => UNCHANGED <<slot, bound, owed>> /\ thread # "none"
  BY DEF PopNormal, At
<1>3. LoadStop \/ Awake => UNCHANGED <<slot, bound, owed>> /\ thread # "none"
  BY DEF LoadStop, Awake, At, storage
<1>4. ASSUME NEW to, Turn(to) PROVE UNCHANGED <<slot, bound, owed>> /\ thread # "none"
  BY <1>4 DEF Turn, At, storage
<1> QED BY <1>1, <1>2, <1>3, <1>4 DEF Writes, EndPass

\* A signal is one less owed.
LEMMA SignalKeeps == Signal => UNCHANGED <<slot, bound, thread>> /\ owed' \subseteq owed
BY DEF Signal, storage

\* What a step of the Dispatcher, the reader or the writer keeps of it.
LEMMA OthersKeep ==
  Next => \/ Calls \/ Tear \/ Diag
          \/ JoinsTwice
          \/ UNCHANGED <<caller, core, handle>> /\ UNCHANGED <<slot, bound, thread>>
<1> SUFFICES ASSUME Next, ~Calls, ~Tear, ~Diag, ~JoinsTwice
             PROVE  UNCHANGED <<caller, core, handle>> /\ UNCHANGED <<slot, bound, thread>>
  OBVIOUS
<1> USE DEF slots
<1>1. CASE DispatchOpen
  BY <1>1, TellsKeep DEF DispatchOpen, Acts, diagVars, storage
<1>2. CASE CloseSession
  BY <1>2, TellsKeep DEF CloseSession, Acts, diagVars, storage
<1>3. CASE DispatchClose \/ DispatchAuto \/ SetTimer \/ DispatcherEnds
  BY <1>3 DEF DispatchClose, DispatchAuto, SetTimer, DispatcherEnds, Acts, diagVars, storage
<1>4. CASE Timer \/ ReaderReads \/ ReaderFaults \/ LogWrites
  BY <1>4 DEF Timer, ReaderReads, ReaderFaults, LogWrites, diagVars, storage
<1>5. CASE ReaderEmits \/ Writer
  BY <1>5, EmitKeeps DEF ReaderEmits, Writer, diagVars, storage
<1> QED BY <1>1, <1>2, <1>3, <1>4, <1>5 DEF Next, Live, Dispatcher

\* The slots follow the caller from create to destroy.
LEMMA SlotsStep == CoreFlags /\ DiagTypeOK /\ SlotsInv /\ Next => SlotsInv'
<1> SUFFICES ASSUME CoreFlags, DiagTypeOK, SlotsInv, Next PROVE SlotsInv'
  OBVIOUS
<1> USE DEF slots, Goes, Boot, Unbooted, LogGone, ReaderGone, WriterGone, DispatcherGone, diagVars, storage, SlotsInv
<1>1. CASE Create
  BY <1>1 DEF Create
<1>2. CASE BootBinds
  BY <1>2 DEF BootBinds
<1>3. CASE BootPool
  BY <1>3 DEF BootPool
<1>4. CASE BootDiag
  <2>1. CASE StartFails
    BY <1>4, <2>1 DEF BootDiag, StartFails
  <2>2. CASE Starts
    BY <1>4, <2>2 DEF BootDiag, Starts
  <2> QED BY <1>4, <2>1, <2>2 DEF BootDiag
<1>5. CASE BootStart
  BY <1>5 DEF BootStart
<1>6. CASE Post
  BY <1>6 DEF Post
<1>7. CASE LogOpen
  BY <1>7 DEF LogOpen
<1>8. CASE Destroy
  BY <1>8 DEF Destroy
<1>9. CASE \E at \in Boot : BootFails(at)
  BY <1>9 DEF BootFails
<1>10. CASE QuitTimer
  BY <1>10 DEF QuitTimer
<1>11. CASE QuitDispatcher
  BY <1>11 DEF QuitDispatcher
<1>12. CASE ReleasePools
  BY <1>12 DEF ReleasePools
<1>13. CASE QuitWriter
  BY <1>13 DEF QuitWriter
<1>14. CASE QuitReader
  BY <1>14 DEF QuitReader
<1>15. CASE QuitLog
  BY <1>15 DEF QuitLog
<1>16. CASE QuitDiag
  <2>1. CASE Goes("diagStop", "joinDiag") /\ (AsksToStop \/ UNCHANGED diagVars)
    BY <1>16, <2>1 DEF QuitDiag, AsksToStop
  <2>2. CASE Goes("joinDiag", "handle") /\ Ends
    BY <1>16, <2>2 DEF QuitDiag, Ends
  <2> QED BY <1>16, <2>1, <2>2 DEF QuitDiag
<1>17. CASE Free
  BY <1>17 DEF Free
<1>18. CASE Diag
  BY <1>18, WritesKeep, SignalKeeps DEF Diag
<1>19. CASE JoinsTwice
  BY <1>19 DEF JoinsTwice
<1>20. CASE UNCHANGED <<caller, core, handle>> /\ UNCHANGED <<slot, bound, thread>>
  BY <1>20
<1> QED BY OthersKeep, <1>1, <1>2, <1>3, <1>4, <1>5, <1>6, <1>7, <1>8, <1>9, <1>10, <1>11, <1>12, <1>13, <1>14, <1>15, <1>16, <1>17, <1>18, <1>19, <1>20 DEF Calls, Tear

\* A block waits only for a log writer that runs, or the close ran out of time.
LEMMA LogStep == CoreCounts /\ SessionInv /\ LogInv /\ Next => LogInv'
<1> SUFFICES ASSUME CoreCounts, SessionInv, LogInv, Next PROVE LogInv'
  OBVIOUS
<1> USE DEF slots, loop, events, session, auto, files, Goes, Boot, Unbooted, LogGone, ReaderGone, WriterGone, DispatcherGone, LogInv
<1>1. CASE Create
  BY <1>1 DEF Create
<1>2. CASE BootBinds
  BY <1>2 DEF BootBinds
<1>3. CASE BootDiag
  BY <1>3 DEF BootDiag
<1>4. CASE BootPool
  BY <1>4 DEF BootPool
<1>5. CASE BootStart
  BY <1>5 DEF BootStart
<1>6. CASE Post
  BY <1>6 DEF Post
<1>7. CASE LogOpen
  BY <1>7 DEF LogOpen
<1>8. CASE Destroy
  BY <1>8 DEF Destroy
<1>9. CASE \E at \in Boot : BootFails(at)
  BY <1>9 DEF BootFails
<1>10. CASE QuitTimer
  BY <1>10 DEF QuitTimer
<1>11. CASE QuitDispatcher
  BY <1>11 DEF QuitDispatcher
<1>12. CASE ReleasePools
  BY <1>12 DEF ReleasePools
<1>13. CASE QuitWriter
  BY <1>13 DEF QuitWriter
<1>14. CASE QuitReader
  BY <1>14 DEF QuitReader
<1>15. CASE QuitLog
  <2>1. CASE caller = "log"
    BY <1>15, <2>1 DEF QuitLog, LogInv, CoreCounts
  <2>2. CASE caller = "joinLog"
    BY <1>15, <2>2 DEF QuitLog, LogInv, CoreCounts
  <2>3. CASE caller = "drain"
    BY <1>15, <2>3 DEF QuitLog, LogInv, CoreCounts, SessionInv
  <2> QED BY <1>15, <2>1, <2>2, <2>3 DEF QuitLog
<1>16. CASE QuitDiag
  BY <1>16 DEF QuitDiag
<1>17. CASE Free
  BY <1>17 DEF Free
<1>18. CASE DispatchOpen
  BY <1>18 DEF DispatchOpen, Acts
<1>19. CASE DispatchClose
  BY <1>19 DEF DispatchClose, Acts
<1>20. CASE CloseSession
  BY <1>20 DEF CloseSession, Acts
<1>21. CASE DispatchAuto
  BY <1>21 DEF DispatchAuto, Acts
<1>22. CASE SetTimer
  BY <1>22 DEF SetTimer, Acts
<1>23. CASE DispatcherEnds
  BY <1>23 DEF DispatcherEnds
<1>24. CASE Timer
  BY <1>24 DEF Timer
<1>25. CASE ReaderReads
  <2>1. raw' # raw => log = "run" /\ reader # "none"
    BY <1>25 DEF ReaderReads
  <2>2. UNCHANGED <<caller, log, lost, late>>
    BY <1>25 DEF ReaderReads
  <2> QED BY <2>1, <2>2 DEF LogInv, SessionInv
<1>26. CASE ReaderFaults
  BY <1>26 DEF ReaderFaults
<1>27. CASE ReaderEmits
  BY <1>27 DEF ReaderEmits
<1>28. CASE Writer
  BY <1>28 DEF Writer
<1>29. CASE LogWrites
  BY <1>29 DEF LogWrites
<1>30. CASE JoinsTwice
  BY <1>30 DEF JoinsTwice
<1>31. CASE Diag
  BY <1>31 DEF Diag
<1> QED BY <1>1, <1>2, <1>3, <1>4, <1>5, <1>6, <1>7, <1>8, <1>9, <1>10, <1>11, <1>12, <1>13, <1>14, <1>15, <1>16, <1>17, <1>18, <1>19, <1>20, <1>21, <1>22, <1>23, <1>24, <1>25, <1>26, <1>27, <1>28, <1>29, <1>30, <1>31
           DEF Next, Live, Calls, Tear, Dispatcher

\* Whoever owes a signal is there: a thread ends only when it owes none, and the slot
\* goes when all three are gone.
LEMMA OwedStep == LoopInv /\ SessionInv /\ SlotsInv /\ OwedInv /\ Next => OwedInv'
<1> SUFFICES ASSUME LoopInv, SessionInv, SlotsInv, OwedInv, Next PROVE OwedInv'
  OBVIOUS
<1> USE DEF slots, loop, events, session, auto, files, Goes, diagVars, storage, OwedInv
<1>1. CASE Create
  BY <1>1 DEF Create
<1>2. CASE BootBinds
  BY <1>2 DEF BootBinds
<1>3. CASE BootDiag
  BY <1>3 DEF BootDiag, StartFails, Starts
<1>4. CASE BootPool
  BY <1>4 DEF BootPool
<1>5. CASE BootStart
  BY <1>5 DEF BootStart
<1>6. CASE Post
  BY <1>6 DEF Post
<1>7. CASE LogOpen
  BY <1>7 DEF LogOpen
<1>8. CASE Destroy
  BY <1>8 DEF Destroy
<1>9. CASE \E at \in Boot : BootFails(at)
  BY <1>9 DEF BootFails
<1>10. CASE QuitTimer
  BY <1>10 DEF QuitTimer
<1>11. CASE QuitDispatcher
  BY <1>11 DEF QuitDispatcher
<1>12. CASE ReleasePools
  BY <1>12 DEF ReleasePools
<1>13. CASE QuitWriter
  BY <1>13 DEF QuitWriter
<1>14. CASE QuitReader
  BY <1>14 DEF QuitReader
<1>15. CASE QuitLog
  BY <1>15 DEF QuitLog
<1>16. CASE QuitDiag
  <2>1. CASE caller = "diagStop"
    BY <1>16, <2>1 DEF QuitDiag, AsksToStop
  <2>2. CASE caller = "joinDiag"
    <3>1. dispatcher = "none" /\ reader = "none" /\ writer = "none"
      BY <2>2 DEF LoopInv, SessionInv, DispatcherGone, WriterGone, ReaderGone, LogGone
    <3>2. owed = {}
      BY <3>1
    <3>3. UNCHANGED <<owed, dispatcher, reader, writer>>
      BY <1>16, <2>2 DEF QuitDiag, Ends
    <3> QED BY <3>2, <3>3
  <2> QED BY <1>16, <2>1, <2>2 DEF QuitDiag
<1>17. CASE Free
  BY <1>17 DEF Free
<1>18. CASE DispatchOpen
  <2>1. UNCHANGED <<slot, bound>> /\ (owed' = owed \/ (owed' = owed \cup {"dispatcher"} /\ bound))
    BY <1>18, TellsKeep DEF DispatchOpen
  <2>2. dispatcher' = "idle"
    BY <1>18 DEF DispatchOpen, Acts
  <2>3. (reader' = "read" /\ writer' = "run") \/ UNCHANGED <<reader, writer>>
    BY <1>18 DEF DispatchOpen
  <2> QED BY <2>1, <2>2, <2>3 DEF SlotsInv
<1>19. CASE DispatchClose
  BY <1>19 DEF DispatchClose, Acts
<1>20. CASE CloseSession
  <2>1. UNCHANGED <<slot, bound>> /\ (owed' = owed \/ (owed' = owed \cup {"dispatcher"} /\ bound))
    BY <1>20, TellsKeep DEF CloseSession
  <2>2. dispatcher' # "none" /\ UNCHANGED <<reader, writer>>
    BY <1>20 DEF CloseSession, Acts
  <2> QED BY <2>1, <2>2 DEF SlotsInv
<1>21. CASE DispatchAuto
  BY <1>21 DEF DispatchAuto, Acts
<1>22. CASE SetTimer
  BY <1>22 DEF SetTimer, Acts
<1>23. CASE DispatcherEnds
  BY <1>23 DEF DispatcherEnds
<1>24. CASE Timer
  BY <1>24 DEF Timer
<1>25. CASE ReaderReads
  BY <1>25 DEF ReaderReads
<1>26. CASE ReaderFaults
  BY <1>26 DEF ReaderFaults
<1>27. CASE ReaderEmits
  <2>1. UNCHANGED <<slot, bound>> /\ owed' = owed \cup {"reader"} /\ bound /\ reader = "read"
    BY <1>27, EmitKeeps DEF ReaderEmits
  <2>2. UNCHANGED <<dispatcher, reader, writer>>
    BY <1>27 DEF ReaderEmits
  <2> QED BY <2>1, <2>2 DEF SlotsInv
<1>28. CASE Writer
  <2>1. CASE Emit("writer", "critical") /\ UNCHANGED writer
    <3>1. UNCHANGED <<slot, bound>> /\ owed' = owed \cup {"writer"} /\ bound /\ writer = "run"
      BY <1>28, <2>1, EmitKeeps DEF Writer
    <3>2. UNCHANGED <<dispatcher, reader, writer>>
      BY <1>28, <2>1 DEF Writer
    <3> QED BY <3>1, <3>2 DEF SlotsInv
  <2>2. CASE writer' = "none" /\ UNCHANGED diagVars
    BY <1>28, <2>2 DEF Writer
  <2> QED BY <1>28, <2>1, <2>2 DEF Writer
<1>29. CASE LogWrites
  BY <1>29 DEF LogWrites
<1>30. CASE JoinsTwice
  BY <1>30 DEF JoinsTwice
<1>31. CASE Diag
  <2>1. UNCHANGED slot /\ owed' \subseteq owed
    BY <1>31, WritesKeep, SignalKeeps DEF Diag
  <2>2. UNCHANGED <<dispatcher, reader, writer>>
    BY <1>31 DEF Diag
  <2> QED BY <2>1, <2>2
<1> QED BY <1>1, <1>2, <1>3, <1>4, <1>5, <1>6, <1>7, <1>8, <1>9, <1>10, <1>11, <1>12, <1>13, <1>14, <1>15, <1>16, <1>17, <1>18, <1>19, <1>20, <1>21, <1>22, <1>23, <1>24, <1>25, <1>26, <1>27, <1>28, <1>29, <1>30, <1>31
           DEF Next, Live, Calls, Tear, Dispatcher

-----------------------------------------------------------------------------
(* The theorems.                                                           *)

\* Before the first core there is nothing.
LEMMA InitCore == Init => CoreInv
<1> SUFFICES ASSUME Init PROVE CoreInv
  OBVIOUS
<1>1. CoreFlags /\ CorePlaces /\ caller \in Stages
  BY DEF Init, CoreFlags, CorePlaces, Stages
<1>2. CoreCounts
  <2>1. 0 \in 0 .. PostBound /\ 0 \in 0 .. RawBound /\ <<>> \in Seq(Events)
    BY Bounds
  <2> QED BY <2>1 DEF Init, CoreCounts
<1>3. DiagTypeOK
  <2>1. file \in NoFile .. FileLines
    BY Bounds DEF Init, DiagInit, NoFile
  <2>2. critical = <<>> /\ normal = <<>> /\ <<>> \in Seq(Records) /\ Len(<<>>) = 0
    BY DEF Init, DiagInit
  <2>3. critical \in Seq(Records) /\ normal \in Seq(Records) /\ Len(critical) <= LaneCapacity /\ Len(normal) <= LaneCapacity
    BY <2>2, Bounds
  <2>4. 0 \in 0 .. DrainBatch /\ 0 \in 0 .. RecordBound
    BY Bounds
  <2> QED BY <2>1, <2>3, <2>4 DEF Init, DiagInit, DiagTypeOK
<1>4. TypeOK
  BY <1>1, <1>2, <1>3, TypesAre
<1>5. LoopInv /\ SessionInv
  BY DEF Init, LoopInv, SessionInv, Unbooted, Boot
<1>6. SlotsInv /\ LogInv
  <2>1. SlotsInv
    BY DEF Init, DiagInit, SlotsInv
  <2>2. caller = "none" /\ log = "none" /\ raw = 0 /\ lost = 0
    BY DEF Init
  <2> QED BY <2>1, <2>2 DEF LogInv
<1>7. OwedInv /\ PassInv
  BY DEF Init, DiagInit, OwedInv, PassInv
<1> QED BY <1>4, <1>5, <1>6, <1>7 DEF CoreInv

\* The invariant is inductive.
LEMMA CoreStep == CoreInv /\ [Next]_vars => CoreInv'
<1>1. ASSUME CoreInv, Next PROVE CoreInv'
  <2>1. TypeOK'
    BY <1>1, CoreTypes DEF CoreInv
  <2>2. CoreFlags /\ CoreCounts /\ DiagTypeOK
    BY <1>1, TypesAre DEF CoreInv
  <2>3. LoopInv' /\ SessionInv'
    BY <1>1, <2>2, LoopStep, SessionStep DEF CoreInv
  <2>4. SlotsInv' /\ LogInv' /\ OwedInv'
    BY <1>1, <2>2, SlotsStep, LogStep, OwedStep DEF CoreInv
  <2>5. PassInv'
    BY <1>1, <2>2, DiagFrame, PassStep DEF CoreInv
  <2> QED BY <2>1, <2>3, <2>4, <2>5 DEF CoreInv
<1>2. ASSUME CoreInv, UNCHANGED vars PROVE CoreInv'
  <2> USE <1>2 DEF vars, slots, loop, events, session, auto, files
  <2>1. UNCHANGED diagVars
    OBVIOUS
  <2>2. DiagMoves
    BY <2>1 DEF DiagMoves
  <2>3. CoreFlags' /\ CorePlaces' /\ CoreCounts' /\ caller' \in Stages
    BY TypesAre DEF CoreInv, CoreFlags, CorePlaces, CoreCounts
  <2>4. TypeOK'
    <3>1. TypeOK' <=> caller' \in Stages /\ CoreFlags' /\ CorePlaces' /\ CoreCounts' /\ DiagTypeOK'
      BY DEF TypeOK, Stages, Events, CoreFlags, CorePlaces, CoreCounts
    <3> QED BY <2>2, <2>3, <3>1, TypesAre, DiagTypes DEF CoreInv
  <2>5. LoopInv' /\ SessionInv' /\ LogInv'
    BY DEF CoreInv, LoopInv, SessionInv, LogInv
  <2>6. SlotsInv' /\ OwedInv'
    BY <2>1 DEF CoreInv, SlotsInv, OwedInv, diagVars, storage
  <2>7. PassInv'
    BY <2>2, TypesAre, PassStep DEF CoreInv
  <2> QED BY <2>4, <2>5, <2>6, <2>7 DEF CoreInv
<1> QED BY <1>1, <1>2

\* What the invariant says of shutdown: what shutdown has passed is gone.
LEMMA CoreSays == CoreInv => LifeExact
<1> SUFFICES ASSUME CoreInv PROVE LifeExact
  OBVIOUS
<1> USE DEF CoreInv
<1>1. NothingOutlives
  BY DEF NothingOutlives, LoopInv, SessionInv, SlotsInv, Unbooted
<1>2. GateMeansRunning
  BY DEF GateMeansRunning, LoopInv, SlotsInv
<1>3. OneCloser
  <2> SUFFICES ASSUME caller \in {"pools", "writer", "joinWriter", "admission", "reader", "joinReader"}
               PROVE  dispatcher = "none"
    BY DEF OneCloser
  <2>1. caller \in DispatcherGone
    BY DEF DispatcherGone, WriterGone
  <2> QED BY <2>1 DEF LoopInv
<1>4. AcceptedIsWritten
  BY DEF AcceptedIsWritten, LogInv
<1>5. NoLateProducer
  BY DEF NoLateProducer, OwedInv
<1> QED BY <1>1, <1>2, <1>3, <1>4, <1>5 DEF LifeExact

\* Parts, slots, blocks, signals and passes are as the invariants above say.
THEOREM CoreInvariant == Spec => []CoreInv
BY InitCore, CoreStep, PTL DEF Spec

\* Boot and shutdown keep their order at every step, whatever step of boot failed and
\* whatever the threads were at when shutdown began: nothing outlives the core, no two
\* threads close the same thing, no accepted block is dropped silently, no producer works
\* on a diagnostic writer that is gone.
THEOREM LifeIsExact == Spec => []LifeExact
BY CoreInvariant, CoreSays, PTL

\* A pass that ends the thread has taken what was there before it.
LEMMA LastPass ==
  ASSUME DiagTypeOK, PassInv, DiagMoves, thread # "none", thread' = "none"
  PROVE  Elements(critical) \cup Elements(normal) \subseteq fresh
<1>1. CASE Starts \/ AsksToStop \/ Ends \/ Dies \/ Signal \/ UNCHANGED diagVars
  BY <1>1 DEF Starts, AsksToStop, Ends, Dies, Signal, diagVars
<1>2. CASE Pushes
  BY <1>2, EmitKeeps DEF Pushes
<1>3. CASE PopCritical \/ PopNormal \/ LoadStop \/ Awake
  BY <1>3 DEF PopCritical, PopNormal, LoadStop, Awake, At
<1>4. CASE EndPass
  <2>1. thread = "sizes" /\ (~drained \/ (critical = <<>> /\ normal = <<>>))
    BY <1>4 DEF EndPass, Turn, At
  <2>2. CASE ~drained
    BY <2>1, <2>2 DEF PassInv
  <2>3. CASE critical = <<>> /\ normal = <<>>
    BY <2>3 DEF Elements
  <2> QED BY <2>1, <2>2, <2>3
<1> QED BY <1>1, <1>2, <1>3, <1>4 DEF DiagMoves, Writes

\* A diagnostic writer that is told to stop leaves no record but those that were pushed
\* during its last pass, for lanes, batches and files of any size.
THEOREM LastPassOnly == Spec => OnlyLastPassIsLost
<1>1. ASSUME CoreInv, [Next]_vars
      PROVE  [thread # "none" /\ thread' = "none" => Elements(critical) \cup Elements(normal) \subseteq fresh]_diagVars
  <2>1. UNCHANGED vars => UNCHANGED diagVars
    BY DEF vars
  <2>2. Next => DiagMoves
    BY DiagFrame
  <2>3. DiagTypeOK /\ PassInv
    BY <1>1, TypesAre DEF CoreInv
  <2> QED BY <1>1, <2>1, <2>2, <2>3, LastPass
<1> QED BY <1>1, CoreInvariant, PTL DEF Spec, OnlyLastPassIsLost
===============================================================================
