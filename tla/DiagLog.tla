------------------------------ MODULE DiagLog ------------------------------
(***************************************************************************)
(* DiagnosticWriter: producers push records into two lanes and signal an   *)
(* auto-reset event, one thread writes them to a file of bounded size.     *)
(* The lanes belong to coact::diag::Logger (external): a full lane refuses *)
(* a record.  CoreLife starts and stops it.                                *)
(***************************************************************************)
EXTENDS Integers, Sequences

CONSTANTS
  Emitters,       \* threads that emit
  LaneCapacity,   \* kNormalCap, kCriticalCap
  DrainBatch,     \* kCriticalDrainBatch
  FileLines,      \* kDefaultMaxBytes, in lines
  RecordBound     \* bound: records of one life of the writer

ASSUME DiagAssumption ==
  /\ LaneCapacity \in Nat \ {0} /\ DrainBatch \in Nat \ {0} /\ FileLines \in Nat \ {0}
  /\ RecordBound \in Nat \ {0}

VARIABLES
  slot, bound,     \* Impl::slot() is occupied; impl_ is set
  file,            \* fp_: lines in the file, or NoFile
  critical, normal,  \* the lanes
  wake,            \* wake_ is signalled
  owed,            \* the producers that pushed and have not signalled yet
  quit,            \* stop_requested_
  thread,          \* where the writer thread is
  batch, drained, stopSeen,  \* its locals
  records,         \* history: records accepted
  fresh,           \* history: records pushed since the thread began this pass
  dead             \* the process was ended: undefined behaviour of a library call

storage == <<slot, bound, file>>
lanes == <<critical, normal, records, fresh>>
locals == <<batch, drained, stopSeen>>
diagVars == <<storage, lanes, wake, owed, quit, thread, locals, dead>>

NoFile == -1
Lanes == {"critical", "normal"}
Records == 1 .. RecordBound

DiagTypeOK ==
  /\ slot \in BOOLEAN /\ bound \in BOOLEAN /\ file \in NoFile .. FileLines
  /\ critical \in Seq(Records) /\ normal \in Seq(Records)
  /\ Len(critical) <= LaneCapacity /\ Len(normal) <= LaneCapacity
  /\ wake \in BOOLEAN /\ owed \subseteq Emitters /\ quit \in BOOLEAN
  /\ thread \in {"none", "critical", "normal", "stop", "sizes", "wait"}
  /\ batch \in 0 .. DrainBatch /\ drained \in BOOLEAN /\ stopSeen \in BOOLEAN
  /\ records \in 0 .. RecordBound /\ fresh \subseteq Records /\ dead \in BOOLEAN

DiagInit ==
  /\ slot = FALSE /\ bound = FALSE /\ file = NoFile /\ critical = <<>> /\ normal = <<>>
  /\ wake = FALSE /\ owed = {} /\ quit = FALSE /\ thread = "none"
  /\ batch = 0 /\ drained = FALSE /\ stopSeen = FALSE /\ records = 0 /\ fresh = {}
  /\ dead = FALSE

-----------------------------------------------------------------------------
(* start, shutdown                                                         *)

\* Nothing comes of it: told to be off, or the event, the lanes or the thread fail.
StartFails == UNCHANGED diagVars

\* The file may be missing; the first record is the writer's own.
Starts ==
  /\ slot' = TRUE /\ bound' = TRUE /\ file' \in {0, NoFile}
  /\ quit' = FALSE /\ thread' = "critical" /\ batch' = 0 /\ drained' = FALSE
  /\ stopSeen' = FALSE /\ wake' = TRUE /\ owed' = {} /\ critical' = <<>> /\ normal' = <<1>>
  /\ records' = 1 /\ fresh' = {1} /\ dead' = dead

AsksToStop ==
  /\ quit' = TRUE /\ wake' = TRUE
  /\ UNCHANGED <<storage, lanes, owed, thread, locals, dead>>

\* The thread is joined; the file and the slot go.
Ends ==
  /\ thread = "none"
  /\ slot' = FALSE /\ bound' = FALSE /\ file' = NoFile /\ critical' = <<>> /\ normal' = <<>>
  /\ wake' = FALSE /\ quit' = FALSE /\ records' = 0 /\ fresh' = {}
  /\ UNCHANGED <<owed, thread, locals, dead>>

-----------------------------------------------------------------------------
(* A producer: emit                                                        *)

Room(lane) ==
  bound /\ records < RecordBound /\ Len(IF lane = "critical" THEN critical ELSE normal) < LaneCapacity

Push(lane) ==
  /\ records' = records + 1 /\ fresh' = fresh \cup {records'}
  /\ critical' = IF lane = "critical" THEN Append(critical, records') ELSE critical
  /\ normal' = IF lane = "normal" THEN Append(normal, records') ELSE normal
  /\ UNCHANGED <<storage, wake, quit, thread, locals, dead>>

\* Mutation: the signal is left out.
EmitSilent(who, lane) == Room(lane) /\ Push(lane) /\ UNCHANGED owed

\* Pushed under the lock of the lanes; a full lane refuses.
Emit(who, lane) == Room(lane) /\ Push(lane) /\ owed' = owed \cup {who}

Signal ==
  /\ \E who \in owed : owed' = owed \ {who}
  /\ wake' = TRUE
  /\ UNCHANGED <<storage, lanes, quit, thread, locals, dead>>

-----------------------------------------------------------------------------
(* The writer thread                                                       *)

At(from, to) == thread = from /\ thread' = to

\* rotate: a full file is replaced by a new one, which may not open; then the line
\* is written to no file, which ends the process or is ignored.
NewFile ==
  \/ file' = 1 /\ UNCHANGED dead
  \/ file' = NoFile /\ dead' \in BOOLEAN

\* emit_line
WritesLine ==
  \/ file = NoFile /\ UNCHANGED <<file, dead>>
  \/ file # NoFile /\ file < FileLines /\ file' = file + 1 /\ UNCHANGED dead
  \/ file = FileLines /\ NewFile

PopCritical ==
  /\ \/ /\ batch < DrainBatch /\ critical # <<>> /\ At("critical", "critical")
        /\ critical' = Tail(critical) /\ batch' = batch + 1 /\ drained' = TRUE /\ WritesLine
     \/ /\ batch = DrainBatch \/ critical = <<>>
        /\ At("critical", "normal") /\ UNCHANGED <<critical, batch, drained, file, dead>>
  /\ UNCHANGED <<slot, bound, normal, records, fresh, wake, owed, quit, stopSeen>>

\* Mutation: a writer told to stop takes critical records only.
PopNormalWhileRunning ==
  /\ At("normal", "stop")
  /\ IF normal = <<>> \/ quit THEN UNCHANGED <<normal, drained, file, dead>>
     ELSE normal' = Tail(normal) /\ drained' = TRUE /\ WritesLine
  /\ UNCHANGED <<slot, bound, critical, records, fresh, wake, owed, quit, batch, stopSeen>>

PopNormal ==
  /\ At("normal", "stop")
  /\ IF normal = <<>> THEN UNCHANGED <<normal, drained, file, dead>>
     ELSE normal' = Tail(normal) /\ drained' = TRUE /\ WritesLine
  /\ UNCHANGED <<slot, bound, critical, records, fresh, wake, owed, quit, batch, stopSeen>>

LoadStop ==
  /\ At("stop", "sizes") /\ stopSeen' = quit
  /\ UNCHANGED <<storage, lanes, wake, owed, quit, batch, drained, dead>>

\* A pass ends: the thread ends, waits, or goes round again.
Turn(to) ==
  /\ At("sizes", to) /\ batch' = 0 /\ drained' = FALSE /\ stopSeen' = FALSE
  /\ fresh' = IF to = "critical" THEN {} ELSE fresh
  /\ UNCHANGED <<storage, critical, normal, records, wake, owed, quit, dead>>

EndPass ==
  \/ stopSeen /\ (~drained \/ (critical = <<>> /\ normal = <<>>)) /\ Turn("none")
  \/ drained /\ ~(stopSeen /\ critical = <<>> /\ normal = <<>>) /\ Turn("critical")
  \/ ~drained /\ ~stopSeen /\ Turn("wait")

\* Auto-reset.
Awake ==
  /\ At("wait", "critical") /\ wake /\ wake' = FALSE /\ fresh' = {}
  /\ UNCHANGED <<storage, critical, normal, records, owed, quit, locals, dead>>

Writes == PopCritical \/ PopNormal \/ LoadStop \/ EndPass \/ Awake

-----------------------------------------------------------------------------
(* Properties                                                              *)

Elements(lane) == {lane[i] : i \in 1 .. Len(lane)}

\* A writer that is told to stop leaves no record behind but such as were pushed
\* during its last pass.
OnlyLastPassIsLost ==
  [][thread # "none" /\ thread' = "none" => Elements(critical) \cup Elements(normal) \subseteq fresh]_diagVars

\* No signal is lost: a record is taken, unless the process ends.
RecordsAreTaken == critical # <<>> \/ normal # <<>> ~> ((critical = <<>> /\ normal = <<>>) \/ dead)

\* A producer never works on a writer that is gone.
NoLateProducer == ~slot => owed = {}

-----------------------------------------------------------------------------
(* What comments say and the code does not do                              *)

\* A file that cannot be opened makes the sink fail, no more.
SinkOnlyFails == ~dead

\* A writer that is told to stop leaves no record behind.
StopDrains ==
  [][thread # "none" /\ thread' = "none" => critical = <<>> /\ normal = <<>>]_diagVars

=============================================================================
