------------------------------- MODULE MCParts -------------------------------
(***************************************************************************)
(* The parts of the core that keep to themselves, each checked alone: a    *)
(* behaviour is one of the pool (FixedPool), of the error ring, of the     *)
(* periodic timer, of the display formatter, of the thread observer, of    *)
(* the lines beside the data, or of the Lua mirror of the port.            *)
(***************************************************************************)
EXTENDS FixedPool, FiniteSets

CONSTANTS
  Producers, Size, Width, PushBound,             \* ErrorRing
  Intervals, TimeBound, StartBound,              \* PeriodicTimer
  Bytes, BlockMax, StreamBound, ToggleBound,     \* RxText
  Timeout, LongPark, Groups,                     \* ThreadHealth
  Kinds, HoldBits, ErrorBound, ToggleBoundOfLines, \* LineStatus
  ClickBound, FaultBound, RenameBound, QueueBound \* PortMirror

VARIABLES
  part,   \* the part this behaviour is about
  enqueuePos, dequeuePos, slots, dropped, at, position, report, consumer, pushes, reserved,
  taken,
  now, interval, stopRequested, signalled, worker, deadline, owner, wanted, starts, base,
  strip, pendingCr, hexView, toggles, stream, shown, hexStream, hexShown,
  alive, age, doing, port, virtual, parked, since, running, check, seen, faulted, reported,
  truth,
  state, lineVirtual, flow, linePort, open, handshake, reader, lineReport, latched, holds, level,
  lastHolds, lastModem, counts, modemLines, recorded, caller, answer, raised, missed, toggled,
  driven,
  portState, generation, openGeneration, lastOpen, cancelOpen, queue, dispatcher, live, faults,
  mirror, mirrorGen, ui, snapshot, lastSeen, watchdog, grace, phase, pending, clicks, renames, asked,
  fell

ringVars == <<enqueuePos, dequeuePos, slots, dropped, at, position, report, consumer, pushes,
              reserved, taken>>
timerVars == <<now, interval, stopRequested, signalled, worker, deadline, owner, wanted, starts,
               base>>
textVars == <<strip, pendingCr, hexView, toggles, stream, shown, hexStream, hexShown>>
healthVars == <<alive, age, doing, port, virtual, parked, since, running, check, seen, faulted,
                reported, truth>>
lineVars == <<state, lineVirtual, flow, linePort, open, handshake, reader, lineReport, latched,
              holds, level, lastHolds, lastModem, counts, modemLines, recorded, caller, answer,
              raised, missed, toggled, driven>>
mirrorVars == <<portState, generation, openGeneration, lastOpen, cancelOpen, queue, dispatcher,
                live, faults, mirror, mirrorGen, ui, snapshot, lastSeen, watchdog, grace, phase,
                pending, clicks, renames, asked, fell>>

Ring == INSTANCE ErrorRing
Timer == INSTANCE PeriodicTimer
Lines == INSTANCE RxText
Health == INSTANCE ThreadHealth
Beside == INSTANCE LineStatus WITH
  virtual <- lineVirtual, port <- linePort, report <- lineReport, toggles <- toggled,
  ToggleBound <- ToggleBoundOfLines
Mirror == INSTANCE PortMirror

Parts == {"pool", "ring", "timer", "text", "health", "lines", "mirror"}

ThreeOrdered == <<3, 2, 1>>

ASSUME PartsAssumption ==
  /\ Size \in Nat /\ Size >= 2 /\ Width \in Nat /\ PushBound \in Nat
  /\ Width % Size = 0 /\ Width > 2 * (PushBound + Size) /\ IsFiniteSet(Producers)
  /\ IsFiniteSet(Kinds) /\ ErrorBound \in Nat /\ ToggleBoundOfLines \in Nat
  /\ TimeBound \in Nat /\ StartBound \in Nat /\ Timeout \in Nat /\ LongPark \in Nat
  /\ ClickBound \in Nat /\ FaultBound \in Nat /\ RenameBound \in Nat
  /\ Intervals \subseteq Nat \ {0} /\ Bytes \subseteq Lines!Classes

\* The other parts rest in one of their initial states.
AllInit ==
  /\ part \in Parts
  /\ Init /\ Ring!Init /\ Timer!Init /\ Lines!Init /\ Health!Init /\ Beside!Init /\ Mirror!Init
  /\ part # "ring" => enqueuePos = 0
  /\ part # "health" => alive = CHOOSE group \in Groups : TRUE
  /\ part # "pool" => link = [b \in Blocks |-> IF b = 3 THEN Nil ELSE b + 1]

AllNext ==
  /\ part' = part
  /\ \/ part = "pool" /\ Next
        /\ UNCHANGED <<ringVars, timerVars, textVars, healthVars, lineVars, mirrorVars>>
     \/ part = "ring" /\ Ring!Next
        /\ UNCHANGED <<vars, timerVars, textVars, healthVars, lineVars, mirrorVars>>
     \/ part = "timer" /\ Timer!Next
        /\ UNCHANGED <<vars, ringVars, textVars, healthVars, lineVars, mirrorVars>>
     \/ part = "text" /\ Lines!Next
        /\ UNCHANGED <<vars, ringVars, timerVars, healthVars, lineVars, mirrorVars>>
     \/ part = "health" /\ Health!Next
        /\ UNCHANGED <<vars, ringVars, timerVars, textVars, lineVars, mirrorVars>>
     \/ part = "lines" /\ Beside!Next
        /\ UNCHANGED <<vars, ringVars, timerVars, textVars, healthVars, mirrorVars>>
     \/ part = "mirror" /\ Mirror!Next
        /\ UNCHANGED <<vars, ringVars, timerVars, textVars, healthVars, lineVars>>

allVars == <<part, vars, ringVars, timerVars, textVars, healthVars, lineVars, mirrorVars>>

\* Threads do not stop between two steps, the caller polls again and again, and the
\* window of grace runs out.
AllSpec ==
  /\ AllInit /\ [][AllNext]_allVars
  /\ \A p \in Producers : WF_ringVars(part = "ring" /\ (Ring!Fill(p) \/ Ring!Publish(p)))
  /\ WF_ringVars(part = "ring" /\ Ring!Take)
  /\ WF_timerVars(part = "timer" /\ Timer!Worker)
  /\ WF_timerVars(part = "timer" /\ Timer!Join)
  /\ WF_healthVars(part = "health" /\ Health!Check)
  /\ WF_mirrorVars(part = "mirror" /\ Mirror!CoreDispatches)
  /\ WF_mirrorVars(part = "mirror" /\ Mirror!Poll)
  /\ SF_mirrorVars(part = "mirror" /\ Mirror!WindowExpires)

-----------------------------------------------------------------------------
(* Properties: those of FixedPool under their own names, and of the others *)

\* ErrorRing: every report is taken whole, once and in order, or counted as dropped,
\* and none is dropped while there is room.
RingExact == Ring!RingExact

\* PeriodicTimer: deadlines stay on the grid of the worker, without a burst after a
\* late callback.
DeadlinesRight == Timer!DeadlinesRight

\* RxText: the text view is the stream read as a whole wherever blocks are cut, and
\* the hex view shows every byte.
ViewsFaithful == Lines!ViewsFaithful

\* ThreadHealth: a report of a stall or of a long wait is about one.
ReportsAreReal == Health!ReportsAreReal

\* LineStatus: errors, modem inputs and the answer of xcom_set_lines are what happened.
LinesTrue == Beside!LinesTrue

\* PortMirror: the mirror shows in the end what the core shows, and what it reopens the
\* user has not closed.
MirrorTrue == Mirror!MirrorTrue

\* What each part began ends: reserved reports are taken, start and stop of the timer
\* return, a thread that is stuck is reported.
PartsSettle == Ring!AllTaken /\ Timer!StopReturns /\ Health!WedgeReported

=============================================================================
