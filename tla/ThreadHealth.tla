----------------------------- MODULE ThreadHealth -----------------------------
(***************************************************************************)
(* ThreadHealth: three threads stamp the time once per turn of their loop; *)
(* xcom_get_snapshot reads the stamps, with the flags that excuse a thread *)
(* from beating, and reports a stamp that is too old once per episode.     *)
(* Stamps are kept as their age.  The thread that polls is the one that    *)
(* destroys the core, so no poll sees a thread stop.                       *)
(* A poll takes no time, and no thread but one that is stuck, blocked,     *)
(* waiting or in a long call goes without a beat for as long as Timeout.   *)
(***************************************************************************)
EXTENDS Integers

CONSTANTS
  Timeout,   \* k...BeatTimeoutMs, in ticks of the model's clock
  LongPark,  \* kDispatcherParkedInfoMs
  Groups     \* bound: the sets of threads that run together, the others rest

Watched == {"reader", "dispatcher", "writer"}

VARIABLES
  alive,     \* the threads that run, one of Groups
  age,       \* now minus the stamp, counted up to Timeout + 1; None before a beat
  doing,     \* where each thread is
  port,      \* port_state: closed, open, or moving (OPENING, CLOSING, FAULT)
  virtual,   \* virtual_port
  parked,    \* dispatcher_parked, log_writer_parked
  since,     \* now minus dispatcher_parked_since_ms, or None for its zero
  running,   \* log_writer_running
  check,     \* the poll: what it does next
  seen,      \* the flags and the stamp it has loaded
  faulted,   \* LivenessState::faulted
  reported,  \* ParkWatchState::reported
  truth      \* history: where the thread was when its flag and its stamp were loaded

vars == <<alive, age, doing, port, virtual, parked, since, running, check, seen, faulted, reported,
          truth>>

None == -1
Nothing == [port |-> "closed", excused |-> FALSE, flag |-> FALSE, age |-> None]
Older(n, limit) == IF n = None \/ n > limit THEN n ELSE n + 1

\* Where a thread may stay as long as it likes, where it stays for less than
\* Timeout, and where it is for an instant.
Long == {"none", "wait", "stuck", "blocked", "write", "opening", "closing"}
Turn == {"driver", "act", "work"}
Instant == {"loop", "flag", "woken", "clear", "unset", "begin", "settled", "change", "late"}
Places == Long \cup Turn \cup Instant

TypeOK ==
  /\ alive \in Groups
  /\ age \in [Watched -> None .. Timeout + 1]
  /\ doing \in [Watched -> Places]
  /\ port \in {"closed", "moving", "open"} /\ virtual \in BOOLEAN
  /\ parked \in [{"dispatcher", "writer"} -> BOOLEAN] /\ since \in None .. LongPark + 1
  /\ running \in BOOLEAN
  /\ check \in {"idle", "reader", "dispatcher", "beat", "park", "since", "writer", "stamp", "flag"}
  /\ seen \in [port : {"closed", "moving", "open"}, excused : BOOLEAN, flag : BOOLEAN,
               age : None .. Timeout + 1]
  /\ faulted \in [Watched -> BOOLEAN] /\ reported \in BOOLEAN
  /\ truth \subseteq Places

Init ==
  /\ alive \in Groups
  /\ age = [t \in Watched |-> None]
  /\ doing = [t \in Watched |-> IF t = "dispatcher" THEN "loop" ELSE "none"]
  /\ port = "closed" /\ virtual = FALSE
  /\ parked = [t \in {"dispatcher", "writer"} |-> FALSE] /\ since = None /\ running = FALSE
  /\ check = "idle" /\ seen = Nothing
  /\ faulted = [t \in Watched |-> FALSE] /\ reported = FALSE /\ truth = {}

observer == <<alive, check, seen, faulted, reported, truth>>

Goes(t, from, to) == t \in alive /\ doing[t] = from /\ doing' = [doing EXCEPT ![t] = to]
Beats(t) == age' = [age EXCEPT ![t] = 0]

Tick ==
  /\ check = "idle"
  /\ \A t \in Watched :
       t \notin alive \/ doing[t] \in Long \/ (doing[t] \in Turn /\ age[t] # None /\ age[t] < Timeout)
  /\ age' = [t \in Watched |-> Older(age[t], Timeout)] /\ since' = Older(since, LongPark)
  /\ UNCHANGED <<doing, port, virtual, parked, running, observer>>

-----------------------------------------------------------------------------
(* The serial read thread                                                  *)

ReaderTurns ==
  /\ \/ Goes("reader", "begin", "driver") \/ Goes("reader", "loop", "driver")
  /\ Beats("reader")
  /\ UNCHANGED <<port, virtual, parked, since, running, observer>>

\* ReadFile returns within its tick, unless the driver keeps the request; the
\* bytes may have to wait for a block while the disk is stalled.
ReaderReads ==
  /\ \/ Goes("reader", "driver", "loop") \/ Goes("reader", "driver", "stuck")
     \/ Goes("reader", "driver", "blocked") \/ Goes("reader", "stuck", "loop")
     \/ Goes("reader", "blocked", "loop")
  /\ UNCHANGED <<age, port, virtual, parked, since, running, observer>>

\* serial_fault_callback latches FAULT and the thread ends.
ReaderFaults ==
  /\ Goes("reader", "driver", "none") /\ port = "open" /\ port' = "moving"
  /\ UNCHANGED <<age, virtual, parked, since, running, observer>>

-----------------------------------------------------------------------------
(* The Dispatcher                                                          *)

\* Every action beats first, and takes little time unless it opens or closes.
ActionBegins ==
  /\ \/ Goes("dispatcher", "loop", "act") \/ Goes("dispatcher", "loop", "change")
  /\ Beats("dispatcher")
  /\ UNCHANGED <<port, virtual, parked, since, running, observer>>

ActionEnds ==
  /\ \/ Goes("dispatcher", "act", "loop") \/ Goes("dispatcher", "act", "stuck")
     \/ Goes("dispatcher", "stuck", "loop") \/ Goes("dispatcher", "settled", "loop")
  /\ UNCHANGED <<age, port, virtual, parked, since, running, observer>>

\* owner_open: the reader's stamp is seeded before the port is opened.
Open ==
  /\ Goes("dispatcher", "change", "opening") /\ port = "closed" /\ port' = "moving"
  /\ virtual' \in BOOLEAN /\ Beats("reader")
  /\ UNCHANGED <<parked, since, running, observer>>

OpenEnds ==
  /\ doing["dispatcher"] = "opening"
  /\ \E ok \in BOOLEAN :
       /\ port' = IF ok THEN "open" ELSE "closed"
       /\ doing' = [doing EXCEPT !["dispatcher"] = "settled",
                                 !["reader"] = IF ok /\ ~virtual THEN "begin" ELSE @]
  /\ UNCHANGED <<age, virtual, parked, since, running, observer>>

Close ==
  /\ Goes("dispatcher", "change", "closing") /\ port # "closed" /\ port' = "moving"
  /\ UNCHANGED <<age, virtual, parked, since, running, observer>>

\* The backend has joined the reader.
CloseEnds ==
  /\ doing["dispatcher"] = "closing" /\ port' = "closed"
  /\ doing' = [doing EXCEPT !["dispatcher"] = "settled", !["reader"] = "none"]
  /\ UNCHANGED <<age, virtual, parked, since, running, observer>>

\* wait_dispatcher: since, then parked, the wait, the beat, parked, since.
WaitBegins ==
  /\ \/ /\ Goes("dispatcher", "loop", "flag") /\ since' = 0 /\ UNCHANGED parked
     \/ /\ Goes("dispatcher", "flag", "wait")
        /\ parked' = [parked EXCEPT !["dispatcher"] = TRUE] /\ UNCHANGED since
  /\ UNCHANGED <<age, port, virtual, running, observer>>

\* Mutation: parked is cleared before the beat.
WaitEndsBackwards ==
  /\ \/ Goes("dispatcher", "wait", "woken") /\ UNCHANGED <<age, parked, since>>
     \/ /\ Goes("dispatcher", "woken", "clear")
        /\ parked' = [parked EXCEPT !["dispatcher"] = FALSE] /\ UNCHANGED <<age, since>>
     \/ Goes("dispatcher", "clear", "unset") /\ Beats("dispatcher") /\ UNCHANGED <<parked, since>>
     \/ Goes("dispatcher", "unset", "loop") /\ since' = None /\ UNCHANGED <<age, parked>>
  /\ UNCHANGED <<port, virtual, running, observer>>

WaitEnds ==
  /\ \/ Goes("dispatcher", "wait", "woken") /\ UNCHANGED <<age, parked, since>>
     \/ Goes("dispatcher", "woken", "clear") /\ Beats("dispatcher") /\ UNCHANGED <<parked, since>>
     \/ /\ Goes("dispatcher", "clear", "unset")
        /\ parked' = [parked EXCEPT !["dispatcher"] = FALSE] /\ UNCHANGED <<age, since>>
     \/ Goes("dispatcher", "unset", "loop") /\ since' = None /\ UNCHANGED <<age, parked>>
  /\ UNCHANGED <<port, virtual, running, observer>>

-----------------------------------------------------------------------------
(* The log writer                                                          *)

\* Mutation: the gate stays down.
WriterStartsSilent ==
  /\ Goes("writer", "none", "loop")
  /\ UNCHANGED <<age, port, virtual, parked, since, running, observer>>

WriterStarts ==
  /\ Goes("writer", "none", "loop") /\ running' = TRUE
  /\ UNCHANGED <<age, port, virtual, parked, since, observer>>

WriterTurns ==
  /\ Goes("writer", "loop", "work") \/ Goes("writer", "late", "work")
  /\ Beats("writer")
  /\ UNCHANGED <<port, virtual, parked, since, running, observer>>

\* A job or a block is done; write_all beats before every WriteFile.
WriterWorks ==
  /\ \/ Goes("writer", "work", "loop") /\ UNCHANGED age
     \/ Goes("writer", "work", "write") /\ Beats("writer")
     \/ Goes("writer", "write", "work") /\ Beats("writer")
     \/ Goes("writer", "work", "stuck") /\ UNCHANGED age
     \/ Goes("writer", "stuck", "loop") /\ UNCHANGED age
  /\ UNCHANGED <<port, virtual, parked, since, running, observer>>

WriterWaits ==
  /\ \/ Goes("writer", "work", "wait") /\ parked' = [parked EXCEPT !["writer"] = TRUE]
     \/ Goes("writer", "wait", "woken") /\ UNCHANGED parked
     \/ Goes("writer", "woken", "late") /\ parked' = [parked EXCEPT !["writer"] = FALSE]
  /\ UNCHANGED <<age, port, virtual, since, running, observer>>

threads == <<alive, age, doing, port, virtual, parked, since, running>>

-----------------------------------------------------------------------------
(* check_thread_health                                                     *)

\* Where t is at the first load, and at a second.
First(t) == truth' = {doing[t]}
Second(t) == truth' = truth \cup {doing[t]}

\* liveness_evaluate
Judge(t, n, excused) ==
  faulted' = [faulted EXCEPT ![t] = n # None /\ ~excused /\ n > Timeout]

CheckBegins ==
  /\ check = "idle" /\ check' = "reader"
  /\ First("reader") /\ seen' = [seen EXCEPT !.port = port]
  /\ UNCHANGED <<threads, faulted, reported>>

CheckReader ==
  /\ check = "reader" /\ check' = "dispatcher"
  /\ Second("reader") /\ Judge("reader", age["reader"], ~(seen.port = "open" /\ ~virtual))
  /\ UNCHANGED <<threads, seen, reported>>

\* The flag is loaded before the stamp.
CheckDispatcher ==
  /\ check = "dispatcher" /\ check' = "beat"
  /\ First("dispatcher")
  /\ seen' = [seen EXCEPT !.excused = seen.port = "moving" \/ parked["dispatcher"]]
  /\ UNCHANGED <<threads, faulted, reported>>

CheckBeat ==
  /\ check = "beat" /\ check' = "park"
  /\ Second("dispatcher") /\ Judge("dispatcher", age["dispatcher"], seen.excused)
  /\ seen' = Nothing /\ UNCHANGED <<threads, reported>>

CheckPark ==
  /\ check = "park" /\ check' = "since"
  /\ First("dispatcher") /\ seen' = [seen EXCEPT !.flag = parked["dispatcher"]]
  /\ UNCHANGED <<threads, faulted, reported>>

\* Mutation: the start of the wait is believed without the flag.
CheckSinceAlone ==
  /\ check = "since" /\ check' = "writer"
  /\ reported' = (since # None /\ since > LongPark) /\ Second("dispatcher")
  /\ seen' = Nothing /\ UNCHANGED <<threads, faulted>>

\* liveness_evaluate_park
LongParked == since # None /\ since > LongPark

CheckSince ==
  /\ check = "since" /\ check' = "writer"
  /\ reported' = (seen.flag /\ LongParked)
  /\ Second("dispatcher")
  /\ seen' = Nothing /\ UNCHANGED <<threads, faulted>>

\* Stamp and flag are two arguments of one call, loaded in either order.
CheckWriter ==
  /\ check = "writer" /\ check' \in {"stamp", "flag"} /\ First("writer")
  /\ seen' = IF check' = "flag" THEN [seen EXCEPT !.age = age["writer"]]
             ELSE [seen EXCEPT !.flag = parked["writer"]]
  /\ UNCHANGED <<threads, faulted, reported>>

CheckWriterEnds ==
  /\ check \in {"stamp", "flag"} /\ check' = "idle" /\ Second("writer")
  /\ \/ check = "flag" /\ Judge("writer", seen.age, ~running \/ parked["writer"])
     \/ check = "stamp" /\ Judge("writer", age["writer"], ~running \/ seen.flag)
  /\ seen' = Nothing /\ UNCHANGED <<threads, reported>>

Reader == ReaderTurns \/ ReaderReads \/ ReaderFaults
Dispatcher ==
  \/ ActionBegins \/ ActionEnds \/ Open \/ OpenEnds \/ Close \/ CloseEnds \/ WaitBegins
  \/ WaitEnds
Writer == WriterStarts \/ WriterTurns \/ WriterWorks \/ WriterWaits
Check ==
  \/ CheckBegins \/ CheckReader \/ CheckDispatcher \/ CheckBeat \/ CheckPark \/ CheckSince
  \/ CheckWriter \/ CheckWriterEnds
Next == Tick \/ Reader \/ Dispatcher \/ Writer \/ Check
Spec == Init /\ [][Next]_vars

-----------------------------------------------------------------------------
(* Properties                                                              *)

Stalls(t) == faulted'[t] /\ ~faulted[t]

\* A report of a stall is about a stall.  The reader was stuck in the driver,
\* blocked behind a stalled disk or not yet at its first beat; the Dispatcher was
\* stuck, or just out of a long open or close; the writer was in one long WriteFile
\* or stuck, or left its wait while it was looked at.  In no other place, and above
\* all in no wait and no open or close, is a thread reported.
StallIsReal ==
  [][/\ Stalls("reader") => truth' \cap {"stuck", "blocked", "loop", "begin"} # {}
     /\ Stalls("dispatcher") => truth' \cap {"stuck", "loop", "flag", "settled"} # {}
     /\ Stalls("writer") => ~(truth' \subseteq {"wait", "woken"}) /\ truth' # {"work"}]_vars

\* A long wait is reported as such only while the Dispatcher waits, or when it
\* left the wait under the eyes of the poll.
LongParkIsReal ==
  [][reported' /\ ~reported => truth' \cap {"wait", "woken", "clear"} # {}]_vars

\* What the observer reports is so.
ReportsAreReal == []TypeOK /\ StallIsReal /\ LongParkIsReal

\* A thread that is stuck past the timeout is reported: unless the port is between
\* two states, where nothing is reported of the reader and the Dispatcher.
WedgeReported ==
  \A t \in Watched :
    (doing[t] = "stuck" /\ age[t] # None /\ age[t] > Timeout)
      ~> (faulted[t] \/ doing[t] # "stuck" \/ port = "moving")

\* An old stamp means the thread is stuck inside the driver: a reader that waits
\* for the disk is not reported.
OldStampMeansDriver == [][Stalls("reader") => "blocked" \notin truth']_vars

=============================================================================
