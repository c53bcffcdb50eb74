---------------------------- MODULE PeriodicTimer ----------------------------
(***************************************************************************)
(* PeriodicTimer: a thread that calls back on a grid of deadlines.  The    *)
(* callback may take longer than the interval; deadlines that passed       *)
(* meanwhile are skipped, not made up for.  start and stop are called by   *)
(* one thread, and both join the old worker first.                         *)
(***************************************************************************)
EXTENDS Integers

CONSTANTS
  Intervals,    \* intervals start is called with, naturals above 0
  TimeBound,    \* bound: the time up to which the model runs
  StartBound    \* bound: calls of start

VARIABLES
  now,            \* monotonic_ns
  interval,       \* interval_ns_
  stopRequested,  \* stop_requested_
  signalled,      \* wake_event_, auto reset
  worker,         \* where the worker thread is
  deadline,       \* deadline_ns
  owner,          \* where the caller of start and stop is
  wanted,         \* the interval start was called with, 0 for stop
  starts,         \* calls of start so far
  base            \* history: when the worker began

vars == <<now, interval, stopRequested, signalled, worker, deadline, owner, wanted, starts,
          base>>

TypeOK ==
  /\ now \in 0 .. TimeBound /\ interval \in Intervals \cup {0}
  /\ stopRequested \in BOOLEAN /\ signalled \in BOOLEAN
  /\ worker \in {"none", "begin", "test", "wait", "callback", "gone"}
  /\ deadline \in Nat /\ owner \in {"idle", "join"}
  /\ wanted \in Intervals \cup {0} /\ starts \in 0 .. StartBound
  /\ base \in Nat

Init ==
  /\ now = 0 /\ interval = 0 /\ stopRequested = FALSE /\ signalled = FALSE
  /\ worker = "none" /\ deadline = 0 /\ owner = "idle" /\ wanted = 0 /\ starts = 0
  /\ base = 0

Elapse ==
  /\ now < TimeBound /\ now' = now + 1
  /\ UNCHANGED <<interval, stopRequested, signalled, worker, deadline, owner, wanted, starts,
                 base>>

\* Mutation: the event is left alone, the worker sleeps on.
CallSilent(i) ==
  /\ owner = "idle" /\ owner' = "join" /\ wanted' = i
  /\ i > 0 => starts < StartBound
  /\ starts' = IF i > 0 THEN starts + 1 ELSE starts
  /\ stopRequested' = TRUE
  /\ UNCHANGED <<now, interval, signalled, worker, deadline, base>>

\* start(i) and stop() begin alike; stop asks for nothing.
Call(i) ==
  /\ owner = "idle" /\ owner' = "join" /\ wanted' = i
  /\ i > 0 => starts < StartBound
  /\ starts' = IF i > 0 THEN starts + 1 ELSE starts
  /\ stopRequested' = TRUE /\ signalled' = TRUE
  /\ UNCHANGED <<now, interval, worker, deadline, base>>

\* Mutation: start does not wait for the old worker.
JoinNot ==
  /\ owner = "join" /\ owner' = "idle"
  /\ interval' = wanted
  /\ IF wanted = 0 THEN worker' = worker /\ UNCHANGED <<stopRequested, signalled>>
     ELSE /\ worker' = IF worker \in {"none", "gone"} THEN "begin" ELSE worker
          /\ stopRequested' = FALSE /\ signalled' = FALSE
  /\ UNCHANGED <<now, deadline, wanted, starts, base>>

\* The old worker is joined; start then makes a new one, if it can.
Join ==
  /\ owner = "join" /\ worker \in {"none", "gone"} /\ owner' = "idle"
  /\ IF wanted = 0 THEN worker' = "none" /\ UNCHANGED <<stopRequested, signalled>>
     ELSE worker' \in {"begin", "none"} /\ stopRequested' = FALSE /\ signalled' = FALSE
  /\ interval' = IF worker' = "begin" THEN wanted ELSE 0
  /\ UNCHANGED <<now, deadline, wanted, starts, base>>

Begin ==
  /\ worker = "begin" /\ worker' = "test"
  /\ base' = now /\ deadline' = now + interval
  /\ UNCHANGED <<now, interval, stopRequested, signalled, owner, wanted, starts>>

Test ==
  /\ worker = "test"
  /\ worker' = IF stopRequested THEN "gone" ELSE IF now < deadline THEN "wait" ELSE "callback"
  /\ UNCHANGED <<now, interval, stopRequested, signalled, deadline, owner, wanted, starts,
                 base>>

\* WaitForSingleObject returns for the event or for the time.
Wake ==
  /\ worker = "wait" /\ (signalled \/ now >= deadline) /\ worker' = "test"
  /\ signalled' \in {signalled /\ now >= deadline, FALSE}
  /\ UNCHANGED <<now, interval, stopRequested, deadline, owner, wanted, starts, base>>

\* Mutation: deadlines that have passed are all served.
TickBurst ==
  /\ worker = "callback" /\ worker' = "test"
  /\ deadline' = deadline + interval
  /\ UNCHANGED <<now, interval, stopRequested, signalled, owner, wanted, starts, base>>

\* The callback returns; the next deadline is the next point of the grid.
Tick ==
  /\ worker = "callback" /\ worker' = "test"
  /\ deadline' = LET next == deadline + interval
                 IN IF next <= now THEN next + ((now - next) \div interval + 1) * interval
                    ELSE next
  /\ UNCHANGED <<now, interval, stopRequested, signalled, owner, wanted, starts, base>>

Worker == Begin \/ Test \/ Wake \/ Tick
Next == Elapse \/ Join \/ Worker \/ \E i \in Intervals \cup {0} : Call(i)
Spec == Init /\ [][Next]_vars

-----------------------------------------------------------------------------
(* Properties                                                              *)

Ticking == worker \in {"test", "wait", "callback"}

\* Deadlines stay on the grid the worker began, however late a callback is, and
\* while another start is on its way.
OnGrid == Ticking => interval > 0 /\ (deadline - base) % interval = 0 /\ deadline > base

\* A late callback is not made up for by a burst: when it returns, the next
\* deadline is the first grid point still ahead.
NoBurst ==
  [][worker = "callback" /\ worker' = "test" =>
       /\ deadline' > now
       /\ deadline' = deadline + interval \/ deadline' - interval <= now]_vars

\* Deadlines are those of the grid, each at most once.
DeadlinesRight == [](TypeOK /\ OnGrid) /\ NoBurst

\* stop and start return: the worker ends its wait and is joined.
StopReturns == owner = "join" ~> owner = "idle"

=============================================================================
