---------------------------- MODULE TxPipelineInv ----------------------------
(***************************************************************************)
(* The inductive invariants of TxPipeline: where the writer thread and its *)
(* jobs may be at each place of the Dispatcher, which session a packet's   *)
(* generation stands for when the caller waits for CLOSED, who has each TX *)
(* block, and in which order sends are on their way.  TxPipelineProofs     *)
(* proves them.                                                            *)
(***************************************************************************)
EXTENDS TxPipeline

\* What the threads hand to each other, history left out.
NumbersOK == generation \in Nat /\ openGeneration \in Nat /\ accepted \in Nat
BlocksOK  == freeBlocks \subseteq Blocks /\ template \subseteq Blocks
QueuesOK  == /\ high \in Seq({"open", "close", "fault"})
             /\ normal \in Seq(Packet) /\ low \in Seq(Config \cup {Tick})
             /\ jobs \in Seq(Packet) /\ task \in Tasks
PacketOK  == /\ abi \in {"stamp", "submit"} => packet \in Seq(Packet) /\ Len(packet) = 1
             /\ abi = "submitConfig" => packet \in Seq(Config) /\ Len(packet) = 1
Types == NumbersOK /\ BlocksOK /\ QueuesOK /\ PacketOK

\* The job of the writer thread, at each of its places.
JobAtPlace ==
  /\ writer \in {"off", "loop", "exited"} => job = <<>>
  /\ writer \in {"check", "write", "written", "failed", "stale"} =>
       job \in Seq(Packet) /\ Len(job) = 1
  /\ writer \in {"off", "loop", "exited", "check", "write", "written", "failed", "stale"}
  /\ writer = "off" => jobs = <<>>

\* A writer lives in an open session or in one being torn down.
Ending == task \in {Bare("close"), Bare("fault")}
WriterAtPlace ==
  /\ writer # "off" => portState = "OPEN" \/ Ending
  /\ dispatcher \in {"idle", "open"} => task = Bare("none")
  /\ dispatcher = "open" => portState = "OPENING"
  /\ portState = "CLOSED" => ~Ending

PipelineInv == Types /\ JobAtPlace /\ WriterAtPlace

-----------------------------------------------------------------------------
AtMostOne(signal) == \A i, j \in DOMAIN high : high[i] = signal /\ high[j] = signal => i = j

\* One open at a time, from the call to its result, and not over an open port.
OpenAlone == /\ AtMostOne("open")
             /\ Queued("open") => dispatcher # "open" /\ portState # "OPEN"
             /\ abi # "idle" => ~OpenPending \/ abi = "submitConfig"

\* The caller that closes waits until the close is done.
ClosePending == Queued("close") \/ task = Bare("close")
CloseAwaited ==
  /\ AtMostOne("close")
  /\ ClosePending => abi = "closing"
  /\ Queued("close") => portState \in {"OPEN", "FAULT"} /\ task # Bare("close")
  /\ task = Bare("close") => portState = "CLOSING"

\* The number of the session is the generation while it lives.
GenerationAtPlace ==
  /\ portState = "OPEN" \/ writer # "off" => generation = openGeneration
  /\ writer = "write" => job[1].gen = generation

\* Every packet carries the generation of the session it is meant for.
Stamped(packets) == \A i \in DOMAIN packets : packets[i].gen = packets[i].session
PacketsStamped ==
  /\ Stamped(normal) /\ Stamped(jobs) /\ Stamped(job)
  /\ abi = "submit" => Stamped(packet)
  /\ abi = "stamp" => packet[1].session = generation

SessionsInv == OpenAlone /\ CloseAwaited /\ GenerationAtPlace /\ PacketsStamped

-----------------------------------------------------------------------------
\* The elements of a sequence.
In(s) == {s[i] : i \in DOMAIN s}

\* The block of a packet or a template; an off event, a tick and a task of teardown have none.
Carried(e) == IF "block" \in DOMAIN e THEN {e.block} ELSE {}
BlocksIn(events) == UNION {Carried(e) : e \in In(events)}
OneEach(events) == \A i, j \in DOMAIN events : Carried(events[i]) \cap Carried(events[j]) # {} => i = j

\* Each block is in one place, and there once.
Bit(claim) == IF claim THEN 1 ELSE 0
PlacesOf(b) ==
  Bit(b \in freeBlocks) + Bit(b \in template) + Bit(b \in BlocksIn(normal)) + Bit(b \in BlocksIn(low))
  + Bit(b \in BlocksIn(jobs)) + Bit(b \in BlocksIn(job)) + Bit(b \in BlocksIn(packet))
  + Bit(b \in Carried(task))
OnePlace == \A b \in Blocks : PlacesOf(b) = 1
BlocksInv == /\ OnePlace /\ OneEach(normal) /\ OneEach(low) /\ OneEach(jobs)
             /\ abi \in {"idle", "closing"} => packet = <<>>
             /\ abi \in {"idle", "stamp", "submit", "submitConfig", "closing"}

\* User sends are in the order of their ids, along each queue and from one to the next.
User(p) == p.id > 0
Ordered(packets) ==
  \A i, j \in DOMAIN packets :
    i < j /\ User(packets[i]) /\ User(packets[j]) => packets[i].id < packets[j].id
Ahead(first, second) == \A p \in first, q \in second : User(p) /\ User(q) => p.id < q.id

\* What is accepted and not yet settled; what the device has yet to take.
InFlight == In(normal) \cup In(jobs) \cup In(job)
ToWrite  == In(normal) \cup In(jobs) \cup IF writer = "written" THEN {} ELSE In(job)
InOrder  == /\ Ordered(normal) /\ Ordered(jobs)
            /\ Ahead(In(job), In(jobs) \cup In(normal)) /\ Ahead(In(jobs), In(normal))
LedgerOK == /\ wire \in Seq(Nat) /\ dropped \in Seq(Nat) /\ accepted \in Nat
            /\ In(wire) \cup In(dropped) \cup unreported \subseteq 1 .. accepted
Unsettled == /\ \A p \in InFlight : p.id <= accepted /\ p.id \notin In(dropped)
             /\ \A id \in In(wire), p \in ToWrite : User(p) => id < p.id
NextId   == abi \in {"stamp", "submit"} => packet[1].id = accepted + 1
SendsInv == InOrder /\ LedgerOK /\ Unsettled /\ NextId

\* Flags, bounds and places.
ScalarsOK ==
  /\ portState \in {"CLOSED", "OPENING", "OPEN", "CLOSING", "FAULT"} /\ streak \in Nat
  /\ armed \in BOOLEAN /\ stop \in BOOLEAN
  /\ timer \in {"off", "sleep", "tick", "submit"}
  /\ dispatcher \in {"idle", "open", "stopTimer", "stopWriter", "joinWriter"}
  /\ Len(jobs) <= JobBound
  /\ calls \in [open : 0 .. OpenBound, config : 0 .. ConfigBound]
==============================================================================
