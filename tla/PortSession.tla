----------------------------- MODULE PortSession -----------------------------
(***************************************************************************)
(* What a client of xcom_core may rely on about a port: the published      *)
(* state moves along the edges below only, OPEN always stands for a        *)
(* session that holds the device, a device is never acquired twice, and    *)
(* none of the passing states lasts.  SerialLifecycle implements it.       *)
(***************************************************************************)
VARIABLES
  view,  \* the published port state
  held   \* the native device handle is held

portVars == <<view, held>>

PortInit == view = "CLOSED" /\ held = FALSE

Reopen  == view \in {"CLOSED", "FAULT"} /\ ~held /\ view' = "OPENING" /\ UNCHANGED held
Acquire == view = "OPENING" /\ ~held /\ held' = TRUE /\ UNCHANGED view
GiveUp  == view = "OPENING" /\ held /\ held' = FALSE /\ UNCHANGED view
Commit  == view = "OPENING" /\ held /\ view' = "OPEN" /\ UNCHANGED held
Fail    == view = "OPENING" /\ ~held /\ view' = "CLOSED" /\ UNCHANGED held

\* A close or a cancelled open; a fault of a session that is up.
BeginClose == view \in {"OPENING", "OPEN", "FAULT"} /\ view' = "CLOSING" /\ UNCHANGED held
Break      == view \in {"OPENING", "OPEN"} /\ view' = "FAULT" /\ UNCHANGED held

Release == view \in {"CLOSING", "FAULT", "CLOSED"} /\ held /\ held' = FALSE /\ UNCHANGED view

\* CLOSED is published with the device released, or cut short by a fault.
EndClose   == view = "CLOSING" /\ ~held /\ view' = "CLOSED" /\ UNCHANGED held
CutClose   == view = "CLOSING" /\ held /\ view' = "CLOSED" /\ UNCHANGED held
CancelLost == view = "CLOSING" /\ ~held /\ view' = "FAULT" /\ UNCHANGED held

Settle == Commit \/ Fail \/ BeginClose \/ Break
Finish == EndClose \/ CutClose \/ CancelLost

PortNext == Reopen \/ Acquire \/ GiveUp \/ Settle \/ Release \/ Finish

PortSafe == PortInit /\ [][PortNext]_portVars

\* OPENING and CLOSING end, and a device that is not in use is let go.
PortFair == /\ WF_portVars(view = "OPENING" /\ Settle)
            /\ WF_portVars(Finish)
            /\ WF_portVars(Release)

PortSpec == PortSafe /\ PortFair
==============================================================================
