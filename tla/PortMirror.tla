------------------------------ MODULE PortMirror ------------------------------
(***************************************************************************)
(* The Lua mirror of the port (view_model.lua) and the poll of window.lua  *)
(* that drives it, over the part of the core a client sees: the published  *)
(* state, the generation, the result of the last open, and signals that    *)
(* the Dispatcher takes in order.  The window of grace after a fault       *)
(* exists in the mirror alone: its driver closes and reopens the port      *)
(* until a session of a newer generation shows up or the window expires.   *)
(* The handlers of the core are coarser here than in SerialLifecycle, and  *)
(* none of its signals is refused.                                         *)
(***************************************************************************)
EXTENDS Naturals, Sequences

CONSTANTS
  ClickBound,   \* bound: opens and closes the user asks for
  FaultBound,   \* bound: faults the native threads report
  RenameBound,  \* bound: devices that come back under another name
  QueueBound    \* bound: no poll begins with this many signals queued

VARIABLES
  portState,       \* CoreCtx::port_state
  generation,      \* CoreCtx::generation
  openGeneration,  \* CoreCtx::open_generation
  lastOpen,        \* CoreCtx::last_open_result
  cancelOpen,      \* CoreCtx::cancel_open
  queue,           \* signals waiting for the Dispatcher
  dispatcher,      \* where it is in a handler
  live,            \* the native threads of a session run
  faults,          \* faults reported so far
  mirror,          \* Hsm.state
  mirrorGen,       \* Hsm.generation
  ui,              \* where the UI thread is
  snapshot,        \* the snapshot of this poll
  lastSeen,        \* Window.port_state
  watchdog,        \* the state whose watchdog is armed, or "none"
  grace,           \* _reconnect_deadline is set
  phase,           \* _reconnect_phase: "none" or "open"
  pending,         \* _reconnect_pending
  clicks, renames, \* clicks and renames so far
  asked,           \* history: "open", "close", or "shown": the port the user closed is shown up
  fell             \* history: the generation went backwards

coreVars == <<portState, generation, openGeneration, lastOpen, cancelOpen, queue, dispatcher,
              live, faults, fell>>
hsmVars == <<mirror, mirrorGen>>
pollVars == <<snapshot, lastSeen, watchdog>>
driverVars == <<grace, phase, pending, renames>>
vars == <<coreVars, hsmVars, ui, pollVars, driverVars, clicks, asked>>

PortStates == {"CLOSED", "OPENING", "OPEN", "CLOSING", "FAULT"}
MirrorStates == PortStates \cup {"RECONNECTING"}

TypeOK ==
  /\ portState \in PortStates /\ generation \in Nat /\ openGeneration \in Nat
  /\ lastOpen \in {"ok", "busy", "fail"} /\ cancelOpen \in BOOLEAN
  /\ queue \in Seq({"Open", "Close", "Fault"})
  /\ dispatcher \in {"idle", "native", "judge", "publishOpen", "teardown", "publishClosed"}
  /\ live \in BOOLEAN /\ faults \in 0 .. FaultBound
  /\ mirror \in MirrorStates /\ mirrorGen \in Nat
  /\ ui \in {"idle", "closing", "poll", "snapshot", "drive", "reset", "latch"}
  /\ snapshot \in [state : PortStates, gen : Nat] /\ lastSeen \in PortStates
  /\ watchdog \in {"none", "OPENING", "CLOSING"}
  /\ grace \in BOOLEAN /\ phase \in {"none", "open"} /\ pending \in BOOLEAN
  /\ clicks \in 0 .. ClickBound /\ renames \in 0 .. RenameBound
  /\ asked \in {"open", "close", "shown"} /\ fell \in BOOLEAN

Init ==
  /\ portState = "CLOSED" /\ generation = 0 /\ openGeneration = 0
  /\ lastOpen = "fail" /\ cancelOpen = FALSE /\ queue = <<>> /\ dispatcher = "idle"
  /\ live = FALSE /\ faults = 0
  /\ mirror = "CLOSED" /\ mirrorGen = 0 /\ ui = "idle"
  /\ snapshot = [state |-> "CLOSED", gen |-> 0] /\ lastSeen = "CLOSED" /\ watchdog = "none"
  /\ grace = FALSE /\ phase = "none" /\ pending = FALSE
  /\ clicks = 0 /\ renames = 0 /\ asked = "open" /\ fell = FALSE

-----------------------------------------------------------------------------
(* The core, as the ABI shows it                                           *)

Take(sig) ==
  dispatcher = "idle" /\ queue # <<>> /\ Head(queue) = sig /\ queue' = Tail(queue)

DispatchOpen ==
  /\ Take("Open")
  /\ IF portState \in {"CLOSED", "FAULT"} THEN portState' = "OPENING" /\ dispatcher' = "native"
                                          ELSE UNCHANGED <<portState, dispatcher>>
  /\ UNCHANGED <<generation, openGeneration, lastOpen, cancelOpen, live, faults, fell>>

NativeOpen ==
  /\ dispatcher = "native" /\ dispatcher' = "judge"
  /\ lastOpen' \in {"ok", "fail"} /\ live' = (lastOpen' = "ok")
  /\ UNCHANGED <<portState, generation, openGeneration, cancelOpen, queue, faults, fell>>

\* The open failed, was cancelled, or is committed: the generation first.
Judge ==
  /\ dispatcher = "judge"
  /\ \/ /\ lastOpen = "fail" /\ portState' = "CLOSED" /\ dispatcher' = "idle"
        /\ UNCHANGED <<generation, openGeneration, cancelOpen, queue, fell>>
     \/ /\ lastOpen = "ok" /\ cancelOpen /\ cancelOpen' = FALSE
        /\ portState' = "CLOSING" /\ queue' = Append(queue, "Close") /\ dispatcher' = "idle"
        /\ UNCHANGED <<generation, openGeneration, fell>>
     \/ /\ lastOpen = "ok" /\ ~cancelOpen /\ dispatcher' = "publishOpen"
        /\ openGeneration' = openGeneration + 1 /\ generation' = openGeneration + 1
        /\ fell' = (fell \/ openGeneration + 1 < generation)
        /\ UNCHANGED <<portState, cancelOpen, queue>>
  /\ UNCHANGED <<lastOpen, live, faults>>

PublishOpen ==
  /\ dispatcher = "publishOpen" /\ dispatcher' = "idle" /\ portState' = "OPEN"
  /\ UNCHANGED <<generation, openGeneration, lastOpen, cancelOpen, queue, live, faults, fell>>

DispatchClose ==
  /\ Take("Close")
  /\ IF portState = "CLOSED" THEN UNCHANGED <<portState, dispatcher, live>>
     ELSE portState' = "CLOSING" /\ dispatcher' = "teardown" /\ live' = FALSE
  /\ UNCHANGED <<generation, openGeneration, lastOpen, cancelOpen, faults, fell>>

CommitClose ==
  /\ dispatcher = "teardown" /\ dispatcher' = "publishClosed" /\ generation' = generation + 1
  /\ UNCHANGED <<portState, openGeneration, lastOpen, cancelOpen, queue, live, faults, fell>>

PublishClosed ==
  /\ dispatcher = "publishClosed" /\ dispatcher' = "idle" /\ portState' = "CLOSED"
  /\ UNCHANGED <<generation, openGeneration, lastOpen, cancelOpen, queue, live, faults, fell>>

\* A fault ends an open session, cuts a close short, and is nothing elsewhere.
DispatchFault ==
  /\ Take("Fault")
  /\ portState' = CASE portState = "OPEN" -> "FAULT" [] portState = "CLOSING" -> "CLOSED"
                    [] OTHER -> portState
  /\ live' = (live /\ portState \notin {"OPEN", "CLOSING"})
  /\ UNCHANGED <<generation, openGeneration, lastOpen, cancelOpen, dispatcher, faults, fell>>

Dispatch == DispatchOpen \/ NativeOpen \/ Judge \/ PublishOpen \/ DispatchClose \/ CommitClose
              \/ PublishClosed \/ DispatchFault

ReportFault ==
  /\ live /\ faults < FaultBound /\ faults' = faults + 1 /\ queue' = Append(queue, "Fault")
  /\ UNCHANGED <<portState, generation, openGeneration, lastOpen, cancelOpen, dispatcher, live,
                 fell>>

-----------------------------------------------------------------------------
(* The calls of the ABI the UI thread makes                                *)

OpenAccepted == portState \in {"CLOSED", "FAULT"} /\ lastOpen # "busy"

QueueOpen ==
  /\ IF OpenAccepted
     THEN lastOpen' = "busy" /\ cancelOpen' = FALSE /\ queue' = Append(queue, "Open")
     ELSE UNCHANGED <<lastOpen, cancelOpen, queue>>
  /\ UNCHANGED <<portState, generation, openGeneration, dispatcher, live, faults, fell>>

CloseIsIdle == portState = "CLOSED" /\ lastOpen # "busy"

\* xcom_close up to its wait, which ends with CLOSED or at any moment.
QueueClose ==
  /\ IF CloseIsIdle THEN UNCHANGED <<cancelOpen, queue>>
     ELSE /\ cancelOpen' = (cancelOpen \/ portState = "OPENING" \/ lastOpen = "busy")
          /\ queue' = Append(queue, "Close")
  /\ UNCHANGED <<portState, generation, openGeneration, lastOpen, dispatcher, live, faults, fell>>

OpenFailed == portState \notin {"OPEN", "OPENING"} /\ lastOpen # "busy"

-----------------------------------------------------------------------------
(* The UI thread                                                           *)

\* Window:core_open: the intent, taken back if the request is not queued; then a poll.
UserOpens ==
  /\ ui = "idle" /\ clicks < ClickBound /\ clicks' = clicks + 1
  /\ mirror \in {"CLOSED", "FAULT"}
  /\ QueueOpen /\ mirror' = IF OpenAccepted THEN "OPENING" ELSE mirror
  /\ asked' = "open" /\ ui' = "poll"
  /\ UNCHANGED <<mirrorGen, pollVars, driverVars>>

\* Window:core_close.
UserCloses ==
  /\ ui = "idle" /\ clicks < ClickBound /\ clicks' = clicks + 1
  /\ mirror \in {"OPEN", "OPENING", "FAULT", "RECONNECTING"} /\ mirror' = "CLOSING"
  /\ QueueClose /\ ui' = IF CloseIsIdle THEN "poll" ELSE "closing"
  /\ asked' = "close"
  /\ UNCHANGED <<mirrorGen, pollVars, driverVars>>

CloseReturns ==
  /\ ui = "closing" /\ ui' = "poll"
  /\ UNCHANGED <<coreVars, hsmVars, pollVars, driverVars, clicks, asked>>

\* poll_status begins: watchdogs are armed or dropped, and the generation is read.
PollBegins ==
  /\ ui \in {"idle", "poll"} /\ ui' = "snapshot" /\ Len(queue) < QueueBound
  /\ watchdog' = IF mirror \in {"OPENING", "CLOSING"} THEN mirror ELSE "none"
  /\ snapshot' = [snapshot EXCEPT !.gen = generation]
  /\ UNCHANGED <<coreVars, hsmVars, lastSeen, driverVars, clicks, asked>>

\* A state that should pass did not: the mirror gives it up.
WatchdogFires ==
  /\ ui \in {"idle", "poll"} /\ ui' = "idle"
  /\ mirror = watchdog /\ (mirror = "CLOSING" => lastSeen # "CLOSING")
  /\ mirror' = "FAULT" /\ watchdog' = "none"
  /\ UNCHANGED <<coreVars, mirrorGen, snapshot, lastSeen, driverVars, clicks, asked>>

Shown == asked' = IF asked = "close" /\ mirror' \in {"OPEN", "OPENING"} THEN "shown" ELSE asked

\* Mutation: a state of the generation the mirror has is taken for stale.
FollowNewer(s) ==
  /\ IF snapshot.gen > mirrorGen THEN mirror' = s /\ mirrorGen' = snapshot.gen ELSE UNCHANGED hsmVars
  /\ Shown

\* Hsm:on_port_state outside the window of grace.
Follow(s) ==
  /\ IF snapshot.gen >= mirrorGen THEN mirror' = s /\ mirrorGen' = snapshot.gen ELSE UNCHANGED hsmVars
  /\ Shown

\* Mutation: a window the mirror has left is not dropped.
OpenStill == grace

\* The window is a window only while the mirror is RECONNECTING.
Open == grace /\ mirror = "RECONNECTING"

\* The state is read: a fault of a session that was up opens the window.
WindowOpens ==
  /\ ui = "snapshot" /\ portState = "FAULT" /\ ~Open /\ mirror \in {"OPEN", "OPENING"}
  /\ IF snapshot.gen >= mirrorGen THEN mirror' = "RECONNECTING" /\ mirrorGen' = snapshot.gen
                              ELSE UNCHANGED hsmVars
  /\ grace' = TRUE /\ phase' = "none" /\ pending' = FALSE /\ ui' = "drive"
  /\ snapshot' = [snapshot EXCEPT !.state = portState] /\ lastSeen' = portState
  /\ UNCHANGED <<coreVars, watchdog, renames, clicks, asked>>

WindowStays ==
  /\ ui = "snapshot" /\ Open /\ ui' = "drive"
  /\ snapshot' = [snapshot EXCEPT !.state = portState] /\ lastSeen' = portState
  /\ UNCHANGED <<coreVars, hsmVars, watchdog, driverVars, clicks, asked>>

DriverEnds == grace' = FALSE /\ phase' = "none" /\ pending' = FALSE

\* Any other snapshot is followed, and a window the mirror has left is dropped.
SnapshotFollowed ==
  /\ ui = "snapshot" /\ ~Open /\ ~(portState = "FAULT" /\ mirror \in {"OPEN", "OPENING"})
  /\ Follow(portState) /\ DriverEnds /\ ui' = "idle"
  /\ snapshot' = [snapshot EXCEPT !.state = portState] /\ lastSeen' = portState
  /\ UNCHANGED <<coreVars, watchdog, renames, clicks>>

-----------------------------------------------------------------------------
(* _drive_reconnect                                                        *)

\* The window is over: FAULT, and a snapshot that is none is followed at once.
WindowExpires ==
  /\ ui = "drive" /\ Open /\ ui' = "idle" /\ DriverEnds
  /\ IF snapshot.state # "FAULT" /\ snapshot.gen >= mirrorGen
     THEN mirror' = snapshot.state /\ mirrorGen' = snapshot.gen
     ELSE mirror' = "FAULT" /\ UNCHANGED mirrorGen
  /\ Shown
  /\ UNCHANGED <<coreVars, pollVars, renames, clicks>>

AfterDrive == IF snapshot.state = "FAULT" THEN "idle" ELSE "latch"

\* An attempt begins with a close, and begins anew when the device has another name.
DriverCloses ==
  /\ ui = "drive"
  /\ \/ phase = "none" /\ UNCHANGED renames
     \/ phase = "open" /\ renames < RenameBound /\ renames' = renames + 1
  /\ QueueClose /\ phase' = "open" /\ pending' = FALSE
  /\ ui' = IF CloseIsIdle THEN AfterDrive ELSE "reset"
  /\ UNCHANGED <<hsmVars, pollVars, grace, clicks, asked>>

ResetReturns ==
  /\ ui = "reset" /\ ui' = AfterDrive
  /\ UNCHANGED <<coreVars, hsmVars, pollVars, driverVars, clicks, asked>>

DriverOpens ==
  /\ ui = "drive" /\ phase = "open" /\ ~pending /\ ui' = AfterDrive
  /\ QueueOpen /\ pending' = OpenAccepted
  /\ UNCHANGED <<hsmVars, pollVars, grace, phase, renames, clicks, asked>>

\* The attempt is given up on a definite failure.
DriverProbes ==
  /\ ui = "drive" /\ phase = "open" /\ pending /\ ui' = AfterDrive
  /\ IF OpenFailed THEN pending' = FALSE /\ phase' = "none" ELSE UNCHANGED <<pending, phase>>
  /\ UNCHANGED <<coreVars, hsmVars, pollVars, grace, renames, clicks, asked>>

Drive == WindowExpires \/ DriverCloses \/ ResetReturns \/ DriverOpens \/ DriverProbes

\* Only a session of a newer generation ends the window.
Latch ==
  /\ ui = "latch" /\ ui' = "idle"
  /\ IF snapshot.state \in {"OPEN", "OPENING"} /\ snapshot.gen > mirrorGen
     THEN mirror' = snapshot.state /\ mirrorGen' = snapshot.gen /\ DriverEnds
     ELSE UNCHANGED <<hsmVars, grace, phase, pending>>
  /\ Shown /\ UNCHANGED <<coreVars, pollVars, renames, clicks>>

Poll == PollBegins \/ WatchdogFires \/ WindowOpens \/ WindowStays \/ SnapshotFollowed
          \/ Drive \/ Latch \/ CloseReturns

Ui == Poll \/ UserOpens \/ UserCloses

CoreStep == (Dispatch \/ ReportFault)
              /\ UNCHANGED <<hsmVars, ui, pollVars, driverVars, clicks, asked>>

Next == CoreStep \/ Ui
Spec == Init /\ [][Next]_vars

CoreDispatches == Dispatch /\ UNCHANGED <<hsmVars, ui, pollVars, driverVars, clicks, asked>>

\* The Dispatcher and the poll timer go on, and the window of grace runs out.
FairSpec == Spec /\ WF_vars(CoreDispatches) /\ WF_vars(Poll) /\ SF_vars(WindowExpires)

-----------------------------------------------------------------------------
(* Properties                                                              *)

\* The mirror comes to show what the core shows, whatever snapshots it missed or read
\* half before and half after a step, as long as the generation does not fall.
MirrorFollows == <>[](mirror = portState \/ fell)

\* A window of grace is always driven, so that it ends in a session or runs out.
WindowIsDriven == ui = "idle" /\ mirror = "RECONNECTING" => grace

Reopens == ui = "drive" /\ lastOpen # "busy" /\ lastOpen' = "busy"

\* The driver reopens a port the user closed only if it was shown up since.
ReopensForUser == [][Reopens => asked # "close"]_vars

\* The mirror and its driver follow the core and the user.
MirrorTrue == MirrorFollows /\ [](TypeOK /\ WindowIsDriven) /\ ReopensForUser

-----------------------------------------------------------------------------
(* Claims that do not hold: runs that check them end in a violation.       *)

\* Every notification carries a generation at least that of the one before
\* (docs/performance.md:83).
GenerationNeverFalls == [][generation' >= generation]_vars

\* The mirror replays what the core publishes (view_model.lua:29-31), without the
\* hypothesis of MirrorFollows.
MirrorAlwaysFollows == <>[](mirror = portState)

\* A port the user asked to close is not reopened (window.lua:3981-3987).
ClosedStaysClosed == [][Reopens => asked = "open"]_vars

\* The driver cancels no open but its own (window.lua:4000-4004).
CancelsItsOwn == [][ui = "drive" /\ ~cancelOpen /\ cancelOpen' => phase = "open"]_vars

===============================================================================
