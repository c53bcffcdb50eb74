------------------------------ MODULE LineStatus ------------------------------
(***************************************************************************)
(* The lines beside the data: errors and holds the driver latches, modem   *)
(* inputs, and the two outputs DTR and RTS.  The read thread polls them    *)
(* after a completed read, a send that timed out samples them, the caller  *)
(* sets the outputs, while the Dispatcher opens and closes the port.       *)
(* There is one caller: it opens and sets lines one after the other.       *)
(***************************************************************************)
EXTENDS Integers, FiniteSets

CONSTANTS
  Kinds,       \* errors the core counts: frame, parity, overrun, break
  HoldBits,    \* holds of ClearCommError
  ErrorBound,  \* bound: errors the line raises
  ToggleBound  \* bound: changes of holds and of the modem inputs

VARIABLES
  state,      \* port_state: closed, open, or closing (CLOSING and FAULT)
  virtual, flow,  \* virtual_port; cfg_flow_control = 1
  port, open, handshake,  \* port_.valid(), open_, rts_handshake_
  reader,     \* the read thread: none, idle, or about to publish
  report,     \* what it publishes
  latched, holds, level,  \* the driver: latched errors, holds, modem inputs
  lastHolds, lastModem,   \* last_holds_, last_modem_
  counts, modemLines,     \* the metrics
  recorded,   \* the latest report wrote a kLineError record
  caller, answer,         \* xcom_set_lines: where it is, its result
  raised, missed, toggles, driven  \* history: errors raised; errors cleared uncounted;
                          \* changes; outputs this call has set

link == <<state, virtual, flow, port, open, handshake>>
poll == <<reader, report, lastHolds, lastModem>>
device == <<latched, holds, level, raised, toggles>>
metrics == <<counts, modemLines, recorded>>
call == <<caller, answer, driven>>
vars == <<link, poll, device, metrics, missed, call>>

Levels == {"low", "high"}
Outputs == {"dtr", "rts"}
Quiet == [errors |-> {}, rise |-> FALSE, modem |-> "none"]

TypeOK ==
  /\ state \in {"closed", "open", "closing"} /\ virtual \in BOOLEAN /\ flow \in BOOLEAN
  /\ port \in BOOLEAN /\ open \in BOOLEAN /\ handshake \in BOOLEAN
  /\ reader \in {"none", "idle", "publish"}
  /\ report \in [errors : SUBSET Kinds, rise : BOOLEAN, modem : Levels \cup {"none"}]
  /\ latched \subseteq Kinds /\ holds \subseteq HoldBits /\ level \in Levels
  /\ lastHolds \subseteq HoldBits /\ lastModem \in Levels \cup {"none"}
  /\ counts \in [Kinds -> 0 .. ErrorBound] /\ raised \in [Kinds -> 0 .. ErrorBound]
  /\ missed \in [Kinds -> 0 .. ErrorBound]
  /\ modemLines \in Levels \cup {"none"}
  /\ recorded \in BOOLEAN /\ toggles \in 0 .. ToggleBound
  /\ caller \in {"idle", "check", "dtr", "rts", "end"}
  /\ answer \in {"ok", "unsupported", "io", "not_open"} /\ driven \subseteq Outputs

Init ==
  /\ state = "closed" /\ virtual = FALSE /\ flow = FALSE /\ port = FALSE /\ open = FALSE
  /\ handshake = FALSE /\ reader = "none" /\ report = Quiet
  /\ latched = {} /\ holds = {} /\ level = "low" /\ lastHolds = {} /\ lastModem = "none"
  /\ counts = [k \in Kinds |-> 0] /\ raised = [k \in Kinds |-> 0]
  /\ missed = [k \in Kinds |-> 0] /\ modemLines = "none" /\ recorded = FALSE
  /\ toggles = 0
  /\ caller = "idle" /\ answer = "ok" /\ driven = {}

-----------------------------------------------------------------------------
(* The device and its driver (external)                                    *)

Errors == {e \in Kinds \X (1 .. ErrorBound) : e[2] <= raised[e[1]]}

\* ClearCommError latches a kind, it does not count.
Raise(k) ==
  /\ port /\ k \notin latched /\ Cardinality(Errors) < ErrorBound
  /\ latched' = latched \cup {k} /\ raised' = [raised EXCEPT ![k] = @ + 1]
  /\ UNCHANGED <<link, poll, holds, level, toggles, metrics, missed, call>>

Changes ==
  /\ toggles < ToggleBound /\ toggles' = toggles + 1
  /\ \/ holds' \in SUBSET HoldBits \ {holds} /\ level' = level
     \/ level' \in Levels \ {level} /\ holds' = holds
  /\ UNCHANGED <<link, poll, latched, raised, metrics, missed, call>>

\* The errors in ks are cleared and nobody is told.
Clears(ks) == missed' = [k \in Kinds |-> IF k \in ks THEN missed[k] + 1 ELSE missed[k]]

-----------------------------------------------------------------------------
(* The read thread and the writer                                          *)

\* Mutation: without a change of holds or inputs the errors are not looked at.
PollQuietly ==
  /\ reader = "idle"
  /\ \E modem \in {level, "none"} :
       /\ lastModem' = modem
       /\ IF (holds = lastHolds \/ holds = {}) /\ modem = lastModem
          THEN UNCHANGED <<reader, report>>
          ELSE /\ reader' = "publish"
               /\ report' = [errors |-> latched, modem |-> modem,
                             rise |-> holds # lastHolds /\ holds # {}]
  /\ lastHolds' = holds /\ latched' = {}
  /\ UNCHANGED <<link, holds, level, raised, toggles, metrics, missed, call>>

\* poll_line_status; GetCommModemStatus may fail.
Poll ==
  /\ reader = "idle"
  /\ \E modem \in {level, "none"} :
       /\ lastModem' = modem
       /\ IF latched = {} /\ (holds = lastHolds \/ holds = {}) /\ modem = lastModem
          THEN UNCHANGED <<reader, report>>
          ELSE /\ reader' = "publish"
               /\ report' = [errors |-> latched, modem |-> modem,
                             rise |-> holds # lastHolds /\ holds # {}]
  /\ lastHolds' = holds /\ latched' = {}
  /\ UNCHANGED <<link, holds, level, raised, toggles, metrics, missed, call>>

Milestone(n) == n \in {2 ^ i : i \in 0 .. ErrorBound}

\* The sink of the core: the level, then line_status_ingress if there is anything.
Publish ==
  /\ reader = "publish" /\ reader' = "idle" /\ report' = Quiet
  /\ modemLines' = report.modem
  /\ counts' = [k \in Kinds |-> IF k \in report.errors THEN counts[k] + 1 ELSE counts[k]]
  /\ recorded' = ((report.errors # {} \/ report.rise) /\ \E k \in Kinds : Milestone(counts'[k]))
  /\ UNCHANGED <<link, lastHolds, lastModem, device, missed, call>>

\* capture_line_status of a send that timed out: the holds are read, the latch is lost.
Sample ==
  /\ port /\ state # "closed" /\ latched # {}
  /\ Clears(latched) /\ latched' = {}
  /\ UNCHANGED <<link, poll, holds, level, raised, toggles, metrics, call>>

\* The read thread ends on a fault.
ReaderFaults ==
  /\ reader = "idle" /\ reader' = "none" /\ open' = FALSE
  /\ UNCHANGED <<state, virtual, flow, port, handshake, report, lastHolds, lastModem, device,
                 metrics, missed, call>>

-----------------------------------------------------------------------------
(* The Dispatcher                                                          *)

\* Mutation: the level of the last session stays.
OpenKeepsLevel ==
  /\ state = "closed" /\ caller = "idle"
  /\ state' = "open" /\ virtual' = FALSE /\ flow' \in BOOLEAN
  /\ port' = TRUE /\ open' = TRUE /\ handshake' = flow' /\ reader' = "idle"
  /\ lastHolds' = {} /\ lastModem' = "none"
  /\ UNCHANGED <<report, device, metrics, missed, call>>

\* A port whose DCB reads back as asked; under RTS/CTS the driver has RTS.
\* modem_lines is zeroed before the read thread is there.
Open ==
  /\ state = "closed" /\ caller = "idle"
  /\ state' = "open" /\ flow' \in BOOLEAN /\ virtual' \in BOOLEAN
  /\ IF virtual' THEN UNCHANGED <<poll, port, open, handshake, modemLines>>
     ELSE /\ port' = TRUE /\ open' = TRUE /\ handshake' = flow' /\ reader' = "idle"
          /\ lastHolds' = {} /\ lastModem' = "none" /\ modemLines' = "none"
          /\ UNCHANGED report
  /\ UNCHANGED <<device, counts, recorded, missed, call>>

\* A request, a device, a DCB or a read-back that is refused.
OpenFails ==
  /\ state = "closed" /\ caller = "idle" /\ modemLines' = "none"
  /\ UNCHANGED <<link, poll, device, counts, recorded, missed, call>>

Close ==
  /\ state = "open" /\ state' = "closing" /\ modemLines' = "none"
  /\ UNCHANGED <<virtual, flow, port, open, handshake, poll, device, counts, recorded,
                 missed, call>>

\* The reader is joined between two polls; the handle goes.
CloseEnds ==
  /\ state = "closing" /\ reader # "publish" /\ state' = "closed"
  /\ reader' = "none" /\ port' = FALSE /\ open' = FALSE
  /\ Clears(latched) /\ latched' = {}
  /\ UNCHANGED <<virtual, flow, handshake, report, lastHolds, lastModem, holds, level, raised,
                 toggles, metrics, call>>

-----------------------------------------------------------------------------
(* xcom_set_lines                                                          *)

Calls(from, to) == caller = from /\ caller' = to

Ask ==
  /\ Calls("idle", "check") /\ state = "open"
  /\ answer' = "ok" /\ driven' = {}
  /\ UNCHANGED <<link, poll, device, metrics, missed>>

CheckOpen ==
  /\ \/ Calls("check", "dtr") /\ ~virtual /\ open /\ UNCHANGED answer
     \/ Calls("check", "end") /\ (virtual \/ ~open) /\ answer' = "not_open"
  /\ UNCHANGED <<driven, link, poll, device, metrics, missed>>

\* EscapeCommFunction on the handle as it is now: applied or refused.
Drives(o) ==
  /\ port
  /\ \/ driven' = driven \cup {o} /\ UNCHANGED answer
     \/ answer' = (IF answer = "ok" THEN "io" ELSE answer) /\ UNCHANGED driven

\* No handle: found closed, or closed between the test and the use.
DrivesNothing ==
  /\ ~port /\ \E result \in {"not_open", "io"} : answer' = (IF answer = "ok" THEN result ELSE answer)
  /\ UNCHANGED driven

SetDtr ==
  /\ Calls("dtr", "rts") /\ (Drives("dtr") \/ DrivesNothing)
  /\ UNCHANGED <<link, poll, device, metrics, missed>>

\* Mutation: what became of DTR is forgotten when RTS is refused.
SetRtsForgets ==
  /\ Calls("rts", "end")
  /\ \/ ~handshake /\ Drives("rts")
     \/ DrivesNothing
     \/ port /\ handshake /\ answer' = "unsupported" /\ UNCHANGED driven
  /\ UNCHANGED <<link, poll, device, metrics, missed>>

\* Under RTS/CTS the driver has RTS; a failure of DTR outranks that.
SetRts ==
  /\ Calls("rts", "end")
  /\ \/ ~handshake /\ Drives("rts")
     \/ DrivesNothing
     \/ /\ port /\ handshake /\ UNCHANGED driven
        /\ answer' = IF answer = "ok" THEN "unsupported" ELSE answer
  /\ UNCHANGED <<link, poll, device, metrics, missed>>

Return ==
  /\ Calls("end", "idle")
  /\ answer' = IF flow /\ (virtual \/ answer \notin {"io", "not_open"}) THEN "unsupported"
               ELSE answer
  /\ driven' = {}
  /\ UNCHANGED <<link, poll, device, metrics, missed>>

SetLines == Ask \/ CheckOpen \/ SetDtr \/ SetRts \/ Return
Dispatcher == Open \/ OpenFails \/ Close \/ CloseEnds
Reader == Poll \/ Publish \/ ReaderFaults
Next == Changes \/ Reader \/ Sample \/ Dispatcher \/ SetLines \/ \E k \in Kinds : Raise(k)
Spec == Init /\ [][Next]_vars

-----------------------------------------------------------------------------
(* Properties                                                              *)

\* What xcom_set_lines answers is what became of the outputs, also when the port is
\* closed under it: OK is both as wanted, UNSUPPORTED is DTR set and RTS left alone.
AnswerIsTrue ==
  [][caller = "end" /\ caller' = "idle" =>
       /\ answer' = "ok" => driven = Outputs
       /\ answer' = "unsupported" /\ ~virtual => driven = {"dtr"}]_vars

\* Every error the line raised is latched, on its way or counted, or it was cleared
\* by the sample of a send that timed out or by the end of the session.
ErrorsCounted ==
  \A k \in Kinds :
    raised[k] = counts[k] + missed[k] + (IF k \in latched THEN 1 ELSE 0)
                + (IF k \in report.errors THEN 1 ELSE 0)

\* modem_lines in an open session is what this session's read thread sampled last.
ModemIsLast ==
  state = "open" /\ ~virtual /\ reader = "idle" => modemLines = lastModem

\* What a caller is told of the lines is what became of them.
LinesTrue == [](TypeOK /\ ErrorsCounted /\ ModemIsLast) /\ AnswerIsTrue

-----------------------------------------------------------------------------
(* What comments say and the code does not do                              *)

\* A record is written at the first and then only at power-of-two hits of a kind.
RecordsAreSparse ==
  [][reader = "publish" /\ reader' = "idle" /\ recorded' =>
       \E k \in Kinds : counts'[k] > counts[k] /\ Milestone(counts'[k])]_vars

\* A hold is counted on a rising edge only.
HoldMeansRise ==
  [][report'.rise /\ ~report.rise => holds \ lastHolds # {}]_vars

\* A closed port has no sample of the modem inputs.
ClosedHasNoSample == state = "closed" => modemLines = "none"

=============================================================================
