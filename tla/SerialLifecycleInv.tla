------------------------- MODULE SerialLifecycleInv -------------------------
(***************************************************************************)
(* The inductive invariant of SerialLifecycle behind its resource, open    *)
(* exclusion and refinement properties: what the port's state, the         *)
(* Dispatcher's place and the caller's place say of each other when fault  *)
(* signals are not refused, one kind of port is used and the caller waits  *)
(* for each open to resolve (Steady).  SerialLifecycleProofs proves it.    *)
(***************************************************************************)
EXTENDS SerialLifecycle

Steady == Ports = {"com"} /\ ~EagerClient /\ "Fault" \notin Refusable

TearingDown == dispatcher \in {"stopAdmission", "joinWriter", "closeBackend", "readmit"}
Empty       == ~handle /\ reader = "none" /\ writer = "none"
Complete    == handle /\ reader # "none" /\ writer # "none"

\* No refused fault, so nothing stores over the published state.
Undisturbed ==
  /\ portState = state
  /\ reader \notin {"store", "latch"} /\ writer \notin {"store", "latch"}
  /\ ~faultPending
  /\ port = "com" /\ wanted = "com"

\* The state each place of the Dispatcher stands for.
StateAtPlace ==
  /\ dispatcher = "openEdge" => state \in {"CLOSED", "FAULT"}
  /\ dispatcher \in {"openNative", "openWriter", "judge", "takeCancel", "openDone", "cancel"}
       <=> state = "OPENING"
  /\ dispatcher \in {"handOff", "cancelFault", "closeDone"} => state = "CLOSING"
  /\ TearingDown =>
       \/ after = "idle" /\ state \in {"CLOSED", "FAULT"}
       \/ after \in {"closeDone", "cancelFault"} /\ state = "CLOSING"
  /\ state = "OPEN" => Idle
  /\ admission <=> dispatcher \notin {"joinWriter", "closeBackend", "readmit"}

\* What the native session holds at each place.
ResourcesAtPlace ==
  /\ dispatcher \in {"idle", "openEdge", "openNative"} /\ state \notin {"OPEN", "CLOSING"}
       => Empty
  /\ dispatcher = "openWriter" => handle /\ reader # "none" /\ writer = "none"
  /\ dispatcher \in {"judge", "takeCancel", "openDone"} =>
       IF lastOpen = "ok" THEN Complete ELSE Empty
  /\ dispatcher = "closeBackend" => writer = "none"
  /\ dispatcher \in {"readmit", "closeDone", "cancelFault"} => Empty
  /\ state = "OPEN" => Complete

\* A read thread that ended under an open or opening session has its signal queued.
ReaderReported ==
  /\ dispatcher \in {"openWriter", "judge", "takeCancel", "openDone"} \/ state = "OPEN"
  /\ reader = "exited"
  => Queued("Fault")

\* The sentinel stands exactly while a request is on its way to its result.
OpenOnItsWay == \/ abi = "openSubmit"
                \/ Queued("Open")
                \/ dispatcher \in {"openEdge", "openNative", "openWriter"}
Sentinel == lastOpen = "busy" <=> OpenOnItsWay

\* The port is down, or on its way down with nothing left to reverse it.
Down == \/ state \in {"CLOSED", "FAULT"}
        \/ state = "CLOSING" /\ (TearingDown \/ dispatcher \in {"closeDone", "cancelFault"})

\* An open whose busy tests passed, or that is queued, finds the port down.
Committed == \/ abi = "openCheck" /\ seen \in {"CLOSED", "FAULT"}
             \/ abi \in {"openArm", "openSubmit"}
             \/ Queued("Open")

AtMostOneOpen ==
  \A i, j \in DOMAIN queue : queue[i].sig = "Open" /\ queue[j].sig = "Open" => i = j

\* One open at a time, from the caller's busy tests to the Dispatcher's result.
OneOpen ==
  /\ abi \in {"openCheck", "openArm"} => lastOpen # "busy"
  /\ Committed => Down
  /\ abi = "openSubmit" => ~Queued("Open") /\ ~OpenInProgress
  /\ Queued("Open") => ~OpenInProgress
  /\ AtMostOneOpen

SessionInv ==
  Undisturbed /\ StateAtPlace /\ ResourcesAtPlace /\ ReaderReported /\ Sentinel /\ OneOpen
=============================================================================
