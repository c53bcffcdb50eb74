---------------------------- MODULE RxFanoutProofs ----------------------------
(***************************************************************************)
(* BlocksAccounted, FileLossless and ImplementsFile hold of RxFanout for   *)
(* any number of segments, log calls and blocks and any reserve.  The      *)
(* invariants are about who has a block (LanesInv), where each id is       *)
(* (StreamInv) and what a call in flight means (CallInv).                  *)
(***************************************************************************)
EXTENDS RxFanout, SequenceTheorems, FiniteSetTheorems, TLAPS

-----------------------------------------------------------------------------
(* The inductive invariants.                                               *)

\* Values, but for the bounds of refs and leases.
LanesOK ==
  /\ refs \in [Blocks -> Int] /\ raw \in Seq(Ref) /\ display \in Seq(Ref) /\ held \in Seq(Ref)
  /\ block \in Seq([ref : Ref, shared : BOOLEAN]) /\ leases \in Int
JobsOK == /\ jobs \in Seq(Job) /\ job \in Seq(Job) /\ ticket \in Nat /\ calls \in Nat
          /\ answers \in SUBSET (Nat \X {"ok", "busy", "fail", "cancelled"})
IdsOK  == received \in Nat /\ logged \in SUBSET Nat /\ written \in Seq(Nat) /\ charged \in Seq(Nat)
FlagsOK ==
  /\ portOpen \in BOOLEAN /\ paused \in BOOLEAN /\ accepting \in BOOLEAN /\ wake \in BOOLEAN
  /\ stopping \in BOOLEAN /\ file \in BOOLEAN /\ leased \in BOOLEAN /\ final \in BOOLEAN
  /\ gaveUp \in BOOLEAN
PlacesOK ==
  /\ reader \in {"idle", "lease", "recheck", "alloc", "wait", "pushRaw", "pushDisplay",
                 "wakeLog", "unlease"}
  /\ writer \in {"loop", "parked", "open", "close", "drain", "write", "exited"}
  /\ abi \in {"idle", "wait", "leases", "stop", "join", "drain", "done"}
Types == LanesOK /\ JobsOK /\ IdsOK /\ FlagsOK /\ PlacesOK

\* The read thread has a block exactly while it queues it, and with a lease it waits.
Pushing == reader \in {"pushRaw", "pushDisplay"}
ReaderAtPlace ==
  /\ IF Pushing THEN Len(block) = 1 /\ block[1].ref.id = received ELSE block = <<>>
  /\ reader \in {"wait", "pushRaw", "wakeLog", "unlease"} => leased
  /\ reader = "pushDisplay" => block[1].shared
  /\ reader # "idle" => received > 0
  /\ final => reader = "idle" /\ ~portOpen

\* The count of leases is the lease of the read thread.
HasLease == \/ reader = "recheck"
            \/ leased /\ reader \in {"alloc", "wait", "pushRaw", "pushDisplay", "wakeLog", "unlease"}
LeaseExact == leases = Bit(HasLease)

\* The writer has a reference while it writes and a job while it works on one.
WriterAtPlace ==
  /\ IF writer = "write" THEN Len(held) = 1 ELSE held = <<>>
  /\ writer \in {"open", "close", "drain"} => job # <<>>
  /\ writer \in {"loop", "parked", "exited"} => job = <<>>
  /\ job # <<>> => Len(job) = 1 /\ job[1].kind = IF writer = "open" THEN "open" ELSE "close"

PlacesInv == Types /\ ReaderAtPlace /\ LeaseExact /\ WriterAtPlace

\* Each lane has a block at most once: queued, with its consumer, or about to be queued.
Distinct(s) == \A i, j \in DOMAIN s : s[i].block = s[j].block => i = j
InRawLane(b) == \/ b \in BlocksOf(raw) \cup BlocksOf(held)
                \/ reader = "pushRaw" /\ block[1].ref.block = b
InDisplayLane(b) == \/ b \in BlocksOf(display)
                    \/ Pushing /\ block[1].shared /\ block[1].ref.block = b
OnceInLane ==
  /\ Distinct(raw) /\ Distinct(display) /\ BlocksOf(raw) \cap BlocksOf(held) = {}
  /\ reader = "pushRaw" => block[1].ref.block \notin BlocksOf(raw) \cup BlocksOf(held)
  /\ Pushing /\ block[1].shared => block[1].ref.block \notin BlocksOf(display)
RefsCounted == \A b \in Blocks : refs[b] = Bit(InRawLane(b)) + Bit(InDisplayLane(b))
LanesInv == OnceInLane /\ RefsCounted

\* Ids go through the raw lane in order; a charged one is nowhere else.
NotYetQueued == reader \in {"lease", "recheck", "alloc", "wait", "pushRaw"}
Increasing(s) == \A i, j \in DOMAIN s : i < j => s[i].id < s[j].id
InRaw == Members(raw) \cup Members(held)
IdsInOrder ==
  /\ Increasing(raw)
  /\ \A r \in InRaw : r.id \in 1 .. received /\ r.id \notin Members(charged)
  /\ \A h \in Members(held), r \in Members(raw) : h.id < r.id
  /\ \A id \in Members(written), r \in InRaw : id < r.id
  /\ Members(written) \cup Members(charged) \cup logged \subseteq 1 .. received
  /\ Members(written) \cap Members(charged) = {}
  /\ NotYetQueued => /\ \A r \in InRaw : r.id < received
                     /\ received \notin Members(written) \cup Members(charged)

\* What was taken under a lease is in the raw lane, in the file, or charged.
Taken == \/ reader \in {"wakeLog", "unlease"}
         \/ reader = "pushDisplay" /\ leased
InLane(id) == \E r \in InRaw : r.id = id
Settled(id) == InLane(id) \/ id \in Members(written) \cup Members(charged)
LoggedSettled == /\ \A id \in logged : Settled(id) \/ (reader # "idle" /\ id = received)
                 /\ Taken => Settled(received)

\* A segment that is not leased is not among those the display shares with the log.
NotLogged == \/ reader \in {"lease", "recheck"}
             \/ reader \in {"alloc", "pushDisplay"} /\ ~leased
IdsOnDisplay ==
  /\ \A r \in Members(display) : r.id \in 1 .. received
  /\ NotYetQueued \/ Pushing => \A r \in Members(display) : r.id < received
  /\ NotLogged => received \notin logged

StreamInv == IdsInOrder /\ LoggedSettled /\ IdsOnDisplay

\* The share of the display, with the block the read thread is about to share.
ShareInHand == IF Pushing /\ leased /\ block[1].shared THEN {block[1].ref.block} ELSE {}
ReserveHeld ==
  Cardinality(SharedWithDisplay \cup ShareInHand) <= Cardinality(Blocks) - Reserve

\* Tickets grow; the writer stops only in shutdown.
Jobs == Members(jobs) \cup Members(job)
TicketsInv ==
  /\ stopping <=> abi \in {"join", "done"}
  /\ writer = "exited" => stopping
  /\ abi \in {"stop", "join", "done"} => final
  /\ abi = "idle" => ~final
  /\ \A a \in answers : a[1] <= ticket
  /\ \A j \in Jobs : j.ticket <= ticket

\* Until a call gives up: one job at a time, its caller waits for it, a Close is queued
\* with admission closed and no lease out, and what is leased or queued has a file.
Answered == \E a \in answers : a[1] = ticket
OneJob ==
  /\ Len(jobs) + Len(job) <= 1
  /\ \A j \in Jobs : /\ abi = "wait" /\ j.ticket = ticket /\ ~Answered
                     /\ j.kind = "close" => leases = 0 /\ ~accepting
                     /\ final => j.kind = "close"
FileThere ==
  /\ accepting => file
  /\ leased /\ reader \in {"alloc", "wait", "pushRaw"} => file
  /\ raw # <<>> \/ held # <<>> => file
OkIsTrue ==
  abi = "wait" /\ <<ticket, "ok">> \in answers => accepting \/ (leases = 0 /\ ~file)
NotAdmitted == abi = "leases" \/ final => ~accepting
CallInv ==
  ~gaveUp => OneJob /\ FileThere /\ NotAdmitted /\ OkIsTrue

-----------------------------------------------------------------------------
(* Queues of references, jobs and ids.                                     *)

\* Putting an element at the end adds it.
LEMMA MembersAppend ==
  ASSUME NEW S, NEW s \in Seq(S), NEW e \in S
  PROVE  /\ Append(s, e) \in Seq(S) /\ Members(Append(s, e)) = Members(s) \cup {e}
         /\ Members(s) \subseteq S /\ Append(s, e) # <<>> /\ Len(Append(s, e)) = Len(s) + 1
<1>1. /\ Len(s) \in Nat /\ Append(s, e) \in Seq(S) /\ Len(Append(s, e)) = Len(s) + 1
      /\ \A i \in 1 .. Len(s) : Append(s, e)[i] = s[i] /\ s[i] \in S
      /\ Append(s, e)[Len(s) + 1] = e
  OBVIOUS
<1>2. 1 .. Len(s) + 1 = 1 .. Len(s) \cup {Len(s) + 1}
  BY <1>1
<1> QED BY <1>1, <1>2 DEF Members

\* Taking the first one leaves the others, each a place further on.
LEMMA MembersTail ==
  ASSUME NEW S, NEW s \in Seq(S), s # <<>>
  PROVE  /\ Tail(s) \in Seq(S) /\ Head(s) \in S /\ Members(s) = Members(Tail(s)) \cup {Head(s)}
         /\ Len(s) \in Nat \ {0} /\ Head(s) = s[1] /\ Len(Tail(s)) = Len(s) - 1
         /\ \A i \in 1 .. Len(s) - 1 : Tail(s)[i] = s[i + 1] /\ i + 1 \in 1 .. Len(s)
         /\ <<Head(s)>> \in Seq(S) /\ Members(<<Head(s)>>) = {Head(s)} /\ Len(<<Head(s)>>) = 1
<1>1. /\ Tail(s) \in Seq(S) /\ Head(s) \in S /\ Len(Tail(s)) = Len(s) - 1
      /\ Len(s) \in Nat \ {0} /\ Head(s) = s[1]
      /\ \A i \in 1 .. Len(s) - 1 : Tail(s)[i] = s[i + 1] /\ i + 1 \in 1 .. Len(s)
  OBVIOUS
<1>2. \A i \in 1 .. Len(s) : i = 1 \/ (i - 1 \in 1 .. Len(s) - 1 /\ Tail(s)[i - 1] = s[i])
  BY <1>1
<1>3. ASSUME NEW i \in 1 .. Len(s) PROVE s[i] \in Members(Tail(s)) \cup {Head(s)}
  BY <1>1, <1>2 DEF Members
<1>4. Members(Tail(s)) \cup {Head(s)} \subseteq Members(s)
  BY <1>1 DEF Members
<1>5. <<Head(s)>> \in Seq(S) /\ Members(<<Head(s)>>) = {Head(s)} /\ Len(<<Head(s)>>) = 1
  BY <1>1 DEF Members
<1> QED BY <1>1, <1>3, <1>4, <1>5 DEF Members

\* A sequence of one.
LEMMA MembersOne ==
  ASSUME NEW S, NEW s \in Seq(S)
  PROVE  /\ Members(s) \subseteq S /\ Len(s) \in Nat /\ (Len(s) = 0 <=> s = <<>>)
         /\ Members(s) = {} <=> s = <<>>
         /\ Len(s) = 1 => s[1] \in S /\ Members(s) = {s[1]} /\ s # <<>>
<1>1. Len(s) \in Nat /\ (Len(s) = 0 <=> s = <<>>) /\ \A i \in 1 .. Len(s) : s[i] \in S
  OBVIOUS
<1>2. Len(s) = 1 => 1 .. Len(s) = {1}
  BY <1>1
<1>3. Members(s) = {} <=> 1 .. Len(s) = {}
  BY DEF Members
<1>4. 1 .. Len(s) = {} <=> Len(s) = 0
  BY <1>1
<1> QED BY <1>1, <1>2, <1>3, <1>4 DEF Members

\* The empty sequence has no members, and is a sequence of anything.
LEMMA MembersEmpty == Members(<<>>) = {} /\ Len(<<>>) = 0 /\ \A S : <<>> \in Seq(S)
BY DEF Members

\* A concatenation has the members of both.
LEMMA MembersConcat ==
  ASSUME NEW S, NEW s \in Seq(S), NEW t \in Seq(S)
  PROVE  s \o t \in Seq(S) /\ Members(s \o t) = Members(s) \cup Members(t)
<1>1. /\ s \o t \in Seq(S) /\ Len(s \o t) = Len(s) + Len(t) /\ Len(s) \in Nat /\ Len(t) \in Nat
      /\ \A i \in 1 .. Len(s \o t) : (s \o t)[i] = IF i <= Len(s) THEN s[i] ELSE t[i - Len(s)]
  BY ConcatProperties
<1>2. ASSUME NEW i \in 1 .. Len(s \o t) PROVE (s \o t)[i] \in Members(s) \cup Members(t)
  <2>1. i \in 1 .. Len(s) \/ i - Len(s) \in 1 .. Len(t)
    BY <1>1
  <2>2. i \in 1 .. Len(s) => (s \o t)[i] = s[i]
    BY <1>1
  <2>3. i \notin 1 .. Len(s) => (s \o t)[i] = t[i - Len(s)]
    BY <1>1
  <2> QED BY <2>1, <2>2, <2>3 DEF Members
<1>3. ASSUME NEW i \in 1 .. Len(s) PROVE s[i] \in Members(s \o t)
  <2>1. i \in 1 .. Len(s \o t) /\ (s \o t)[i] = s[i]
    BY <1>1
  <2> QED BY <2>1 DEF Members
<1>4. ASSUME NEW i \in 1 .. Len(t) PROVE t[i] \in Members(s \o t)
  <2>1. /\ i + Len(s) \in 1 .. Len(s \o t) /\ ~(i + Len(s) <= Len(s)) /\ i + Len(s) - Len(s) = i
    BY <1>1
  <2>2. (s \o t)[i + Len(s)] = t[i]
    BY <2>1, <1>1
  <2> QED BY <2>1, <2>2 DEF Members
<1> QED BY <1>1, <1>2, <1>3, <1>4 DEF Members

\* The ids of references.
LEMMA IdsLemma ==
  ASSUME NEW s \in Seq(Ref)
  PROVE  /\ Ids(s) \in Seq(Nat) /\ Len(Ids(s)) = Len(s)
         /\ \A i \in 1 .. Len(s) : Ids(s)[i] = s[i].id /\ s[i] \in Members(s)
         /\ Members(Ids(s)) = {r.id : r \in Members(s)}
<1>0. Len(s) \in Nat /\ \A i \in 1 .. Len(s) : s[i] \in Ref
  OBVIOUS
<1>1. Len(s) \in Nat /\ \A i \in 1 .. Len(s) : s[i].id \in Nat
  BY <1>0 DEF Ref
<1>2. Ids(s) \in [1 .. Len(s) -> Nat] /\ \A i \in 1 .. Len(s) : Ids(s)[i] = s[i].id
  BY <1>1 DEF Ids
<1>3. Ids(s) \in Seq(Nat) /\ Len(Ids(s)) = Len(s)
  BY <1>1, <1>2
<1> QED BY <1>2, <1>3 DEF Members

\* A queue of distinct blocks in the order of ids stays one when a new last reference comes.
LEMMA RefAppend ==
  ASSUME NEW s \in Seq(Ref), NEW r \in Ref
  PROVE  /\ BlocksOf(Append(s, r)) = BlocksOf(s) \cup {r.block}
         /\ Distinct(s) /\ r.block \notin BlocksOf(s) => Distinct(Append(s, r))
         /\ Increasing(s) /\ (\A q \in Members(s) : q.id < r.id) => Increasing(Append(s, r))
<1>1. Members(Append(s, r)) = Members(s) \cup {r} /\ Members(s) \subseteq Ref
  BY MembersAppend
<1>2. BlocksOf(Append(s, r)) = BlocksOf(s) \cup {r.block}
  BY <1>1 DEF BlocksOf
<1>3. /\ Len(s) \in Nat /\ DOMAIN s = 1 .. Len(s)
      /\ DOMAIN Append(s, r) = 1 .. Len(s) + 1
      /\ \A i \in 1 .. Len(s) : Append(s, r)[i] = s[i] /\ s[i] \in Ref
      /\ Append(s, r)[Len(s) + 1] = r
  OBVIOUS
<1>4. \A i \in 1 .. Len(s) + 1 : i \in 1 .. Len(s) \/ i = Len(s) + 1
  BY <1>3
<1>5. \A i \in 1 .. Len(s) : s[i] \in Members(s) /\ s[i].block \in BlocksOf(s)
  BY DEF Members, BlocksOf
<1>6. ASSUME Distinct(s), r.block \notin BlocksOf(s) PROVE Distinct(Append(s, r))
  BY <1>3, <1>4, <1>5, <1>6 DEF Distinct
<1>7. ASSUME Increasing(s), \A q \in Members(s) : q.id < r.id PROVE Increasing(Append(s, r))
  <2>1. SUFFICES ASSUME NEW i \in 1 .. Len(s) + 1, NEW j \in 1 .. Len(s) + 1, i < j
                 PROVE  Append(s, r)[i].id < Append(s, r)[j].id
    BY <1>3 DEF Increasing
  <2>2. i \in 1 .. Len(s)
    BY <2>1, <1>3
  <2>3. CASE j \in 1 .. Len(s)
    BY <2>1, <2>2, <2>3, <1>3, <1>7 DEF Increasing
  <2>4. CASE j = Len(s) + 1
    BY <2>1, <2>2, <2>4, <1>3, <1>5, <1>7
  <2> QED BY <2>3, <2>4, <1>4
<1> QED BY <1>2, <1>6, <1>7

\* And when its first one goes.
LEMMA RefTail ==
  ASSUME NEW s \in Seq(Ref), s # <<>>
  PROVE  /\ BlocksOf(s) = BlocksOf(Tail(s)) \cup {Head(s).block} /\ BlocksOf(s) \subseteq Blocks
         /\ Distinct(s) => Distinct(Tail(s)) /\ Head(s).block \notin BlocksOf(Tail(s))
         /\ Increasing(s) => Increasing(Tail(s)) /\ \A q \in Members(Tail(s)) : Head(s).id < q.id
<1>1. /\ Tail(s) \in Seq(Ref) /\ Head(s) \in Ref /\ Members(s) = Members(Tail(s)) \cup {Head(s)}
      /\ Len(s) \in Nat \ {0} /\ Head(s) = s[1] /\ Len(Tail(s)) = Len(s) - 1
      /\ \A i \in 1 .. Len(s) - 1 : Tail(s)[i] = s[i + 1] /\ i + 1 \in 1 .. Len(s)
  BY MembersTail
<1>2. BlocksOf(s) = BlocksOf(Tail(s)) \cup {Head(s).block}
  BY <1>1 DEF BlocksOf
<1>3. BlocksOf(s) \subseteq Blocks
  <2>1. Members(s) \subseteq Ref
    BY MembersOne
  <2> QED BY <2>1 DEF BlocksOf, Ref
<1>4. /\ DOMAIN s = 1 .. Len(s) /\ DOMAIN Tail(s) = 1 .. Len(s) - 1
      /\ \A i \in 1 .. Len(s) - 1 : 1 < i + 1 /\ \A j \in 1 .. Len(s) - 1 : i < j => i + 1 < j + 1
      /\ \A i, j \in 1 .. Len(s) - 1 : i + 1 = j + 1 => i = j
      /\ 1 \in 1 .. Len(s)
  BY <1>1
<1>5. ASSUME Distinct(s) PROVE Distinct(Tail(s)) /\ Head(s).block \notin BlocksOf(Tail(s))
  <2>1. Distinct(Tail(s))
    BY <1>1, <1>4, <1>5 DEF Distinct
  <2>2. ASSUME NEW i \in 1 .. Len(s) - 1 PROVE Tail(s)[i].block # Head(s).block
    <3>1. i + 1 \in DOMAIN s /\ i + 1 # 1 /\ 1 \in DOMAIN s
      BY <1>1, <1>4
    <3> QED BY <3>1, <1>1, <1>5 DEF Distinct
  <2> QED BY <2>1, <2>2, <1>1 DEF BlocksOf, Members
<1>6. ASSUME Increasing(s)
      PROVE  Increasing(Tail(s)) /\ \A q \in Members(Tail(s)) : Head(s).id < q.id
  <2>1. Increasing(Tail(s))
    BY <1>1, <1>4, <1>6 DEF Increasing
  <2>2. ASSUME NEW i \in 1 .. Len(s) - 1 PROVE Head(s).id < Tail(s)[i].id
    <3>1. i + 1 \in DOMAIN s /\ 1 < i + 1 /\ 1 \in DOMAIN s
      BY <1>1, <1>4
    <3> QED BY <3>1, <1>1, <1>6 DEF Increasing
  <2> QED BY <2>1, <2>2, <1>1 DEF Members
<1> QED BY <1>2, <1>3, <1>5, <1>6

\* An empty queue of references has no block and is in order.
LEMMA RefEmpty == BlocksOf(<<>>) = {} /\ Distinct(<<>>) /\ Increasing(<<>>)
BY DEF BlocksOf, Members, Distinct, Increasing

\* A queue of one reference.
LEMMA RefOne ==
  ASSUME NEW s \in Seq(Ref), Len(s) = 1
  PROVE  s[1] \in Ref /\ Members(s) = {s[1]} /\ BlocksOf(s) = {s[1].block} /\ Distinct(s)
<1>1. s[1] \in Ref /\ Members(s) = {s[1]} /\ DOMAIN s = {1}
  BY MembersOne
<1> QED BY <1>1 DEF BlocksOf, Distinct

\* With distinct blocks, the references of one are counted by whether it is there.
LEMMA CountLemma ==
  ASSUME NEW s \in Seq(Ref), Distinct(s), NEW b
  PROVE  Cardinality({i \in DOMAIN s : s[i].block = b}) = Bit(b \in BlocksOf(s))
<1> DEFINE Places == {i \in DOMAIN s : s[i].block = b}
<1>1. DOMAIN s = 1 .. Len(s)
  OBVIOUS
<1>2. CASE b \in BlocksOf(s)
  <2>1. PICK i \in DOMAIN s : s[i].block = b
    BY <1>1, <1>2 DEF BlocksOf, Members
  <2>2. Places = {i}
    BY <2>1 DEF Distinct
  <2> QED BY <2>2, <1>2, FS_Singleton DEF Bit
<1>3. CASE b \notin BlocksOf(s)
  <2>1. Places = {}
    BY <1>1, <1>3 DEF BlocksOf, Members
  <2> QED BY <2>1, <1>3, FS_EmptySet DEF Bit
<1> QED BY <1>2, <1>3

-----------------------------------------------------------------------------
(* Frames: which actions touch what.                                       *)

\* The segment in hand and its lease belong to the read thread.
LEMMA ReaderFrame ==
  ASSUME [Next]_vars
  PROVE  Reader \/ UNCHANGED <<readerT, received, logged, leases>>
<1> USE DEF lane, log, writerT, abiT, history
<1>1. CASE UNCHANGED vars
  BY <1>1 DEF vars
<1>2. CASE Display \/ Session
  BY <1>2 DEF Display, Session, DisplayReleases, TogglePause, ClosePort, OpenPort
<1>3. CASE LogWriter
  BY <1>3 DEF LogWriter, TakeJob, ProcessOpen, CloseStopsAdmission, TakeRaw, CloseFile, WriteRaw,
              AbandonRaw, Park, Unpark, Stop
<1>4. CASE Caller
  BY <1>4 DEF Caller, OpenLog, CloseLog, LeasesGone, TimeOut, JobDone, Shutdown, StopWriter, DrainLane
<1> QED BY <1>1, <1>2, <1>3, <1>4 DEF Next

\* Who queues, takes and releases references, and who settles an id.
Consumes == DisplayReleases \/ TakeRaw \/ WriteRaw \/ AbandonRaw \/ Stop \/ DrainLane

\* Every step is one of the read thread, one that takes references out, or leaves lanes, ids
\* and the hand of the read thread alone.
LEMMA LaneFrame ==
  ASSUME [Next]_vars
  PROVE  Reader \/ Consumes \/ UNCHANGED <<lane, readerT, held, history>>
         \/ (TimeOut /\ UNCHANGED <<lane, readerT, held, received, logged, written, charged>>)
<1> USE DEF writerT, Consumes
<1>1. CASE UNCHANGED vars
  BY <1>1 DEF vars
<1>2. CASE Display \/ Session
  BY <1>2 DEF Display, Session, TogglePause, ClosePort, OpenPort
<1>3. CASE LogWriter
  BY <1>3 DEF LogWriter, TakeJob, ProcessOpen, CloseStopsAdmission, CloseFile, Park, Unpark, Answer
<1>4. CASE Caller
  BY <1>4 DEF Caller, OpenLog, CloseLog, LeasesGone, TimeOut, JobDone, Shutdown, StopWriter, abiT
<1> QED BY <1>1, <1>2, <1>3, <1>4 DEF Next

\* The writer moves itself.
LEMMA WriterFrame ==
  ASSUME [Next]_vars
  PROVE  LogWriter \/ UNCHANGED <<writerT, file, answers>>
<1> USE DEF log, lane, readerT, history
<1>1. CASE UNCHANGED vars
  BY <1>1 DEF vars
<1>2. CASE Display \/ Session
  BY <1>2 DEF Display, Session, DisplayReleases, TogglePause, ClosePort, OpenPort
<1>3. CASE Reader
  BY <1>3 DEF Reader, Ingress, Deliver, LeaseRefused, LeaseCounted, LeaseConfirmed, LeaseWithdrawn,
              Alloc, AllocFails, WaitEnds, PushRaw, PushDisplay, WakeLog, Unlease
<1>4. CASE Caller
  BY <1>4 DEF Caller, OpenLog, CloseLog, LeasesGone, TimeOut, JobDone, Shutdown, StopWriter, DrainLane
<1> QED BY <1>1, <1>2, <1>3, <1>4 DEF Next

\* The caller moves itself.
LEMMA CallerFrame ==
  ASSUME [Next]_vars
  PROVE  Caller \/ UNCHANGED <<abiT, stopping, gaveUp>>
<1> USE DEF log, lane, readerT, writerT, history
<1>1. CASE UNCHANGED vars
  BY <1>1 DEF vars
<1>2. CASE Display \/ Session
  BY <1>2 DEF Display, Session, DisplayReleases, TogglePause, ClosePort, OpenPort
<1>3. CASE Reader
  BY <1>3 DEF Reader, Ingress, Deliver, LeaseRefused, LeaseCounted, LeaseConfirmed, LeaseWithdrawn,
              Alloc, AllocFails, WaitEnds, PushRaw, PushDisplay, WakeLog, Unlease
<1>4. CASE LogWriter
  BY <1>4 DEF LogWriter, TakeJob, ProcessOpen, CloseStopsAdmission, TakeRaw, CloseFile, WriteRaw,
              AbandonRaw, Park, Unpark, Stop
<1> QED BY <1>1, <1>2, <1>3, <1>4 DEF Next

\* Jobs are queued by the caller, taken and cancelled by the writer.
LEMMA JobsFrame ==
  ASSUME [Next]_vars
  PROVE  TakeJob \/ Stop \/ OpenLog \/ LeasesGone \/ UNCHANGED jobs
<1> USE DEF log, lane, readerT, writerT, history
<1>1. CASE UNCHANGED vars
  BY <1>1 DEF vars
<1>2. CASE Display \/ Session
  BY <1>2 DEF Display, Session, DisplayReleases, TogglePause, ClosePort, OpenPort
<1>3. CASE Reader
  BY <1>3 DEF Reader, Ingress, Deliver, LeaseRefused, LeaseCounted, LeaseConfirmed, LeaseWithdrawn,
              Alloc, AllocFails, WaitEnds, PushRaw, PushDisplay, WakeLog, Unlease
<1>4. CASE LogWriter
  BY <1>4 DEF LogWriter, ProcessOpen, CloseStopsAdmission, TakeRaw, CloseFile, WriteRaw,
              AbandonRaw, Park, Unpark
<1>5. CASE Caller
  BY <1>5 DEF Caller, CloseLog, TimeOut, JobDone, Shutdown, StopWriter, DrainLane
<1> QED BY <1>1, <1>2, <1>3, <1>4, <1>5 DEF Next

-----------------------------------------------------------------------------
(* Types and places.                                                       *)

\* Flags.
LEMMA FlagsStep == FlagsOK /\ [Next]_vars => FlagsOK'
<1> SUFFICES ASSUME FlagsOK, [Next]_vars PROVE FlagsOK'
  OBVIOUS
<1> USE DEF FlagsOK, log, readerT, writerT, abiT, history
<1>1. CASE UNCHANGED vars
  BY <1>1 DEF vars
<1>2. CASE Display \/ Session
  <2>1. CASE Display
    BY <2>1 DEF Display, DisplayReleases, TogglePause
  <2>2. CASE Session
    <3>1. CASE ClosePort
      BY <3>1 DEF ClosePort
    <3>2. CASE OpenPort
      BY <3>2 DEF OpenPort
    <3> QED BY <2>2, <3>1, <3>2 DEF Session
  <2> QED BY <1>2, <2>1, <2>2
<1>3. CASE Reader
  <2>1. CASE Deliver \/ LeaseRefused \/ LeaseCounted \/ LeaseConfirmed \/ LeaseWithdrawn
    <3>1. CASE Deliver
      BY <3>1 DEF Deliver
    <3>2. CASE LeaseRefused
      BY <3>2 DEF LeaseRefused
    <3>3. CASE LeaseCounted
      BY <3>3 DEF LeaseCounted
    <3>4. CASE LeaseConfirmed
      BY <3>4 DEF LeaseConfirmed
    <3>5. CASE LeaseWithdrawn
      BY <3>5 DEF LeaseWithdrawn
    <3> QED BY <2>1, <3>1, <3>2, <3>3, <3>4, <3>5
  <2>2. CASE Alloc \/ AllocFails \/ WaitEnds
    BY <2>2 DEF Alloc, AllocFails, WaitEnds
  <2>3. CASE PushRaw \/ PushDisplay \/ WakeLog \/ Unlease
    <3>1. CASE PushRaw
      BY <3>1 DEF PushRaw
    <3>2. CASE PushDisplay
      BY <3>2 DEF PushDisplay
    <3>3. CASE WakeLog
      BY <3>3 DEF WakeLog
    <3>4. CASE Unlease
      BY <3>4 DEF Unlease
    <3> QED BY <2>3, <3>1, <3>2, <3>3, <3>4
  <2> QED BY <1>3, <2>1, <2>2, <2>3 DEF Reader, Ingress
<1>4. CASE LogWriter
  <2>1. CASE TakeJob \/ ProcessOpen \/ CloseStopsAdmission \/ TakeRaw \/ CloseFile
    <3>1. CASE TakeJob
      BY <3>1 DEF TakeJob
    <3>2. CASE ProcessOpen
      BY <3>2 DEF ProcessOpen
    <3>3. CASE CloseStopsAdmission
      BY <3>3 DEF CloseStopsAdmission
    <3>4. CASE TakeRaw
      BY <3>4 DEF TakeRaw
    <3>5. CASE CloseFile
      BY <3>5 DEF CloseFile
    <3> QED BY <2>1, <3>1, <3>2, <3>3, <3>4, <3>5
  <2>2. CASE WriteRaw \/ AbandonRaw \/ Park \/ Unpark \/ Stop
    <3>1. CASE WriteRaw
      BY <3>1 DEF WriteRaw
    <3>2. CASE AbandonRaw
      BY <3>2 DEF AbandonRaw
    <3>3. CASE Park
      BY <3>3 DEF Park
    <3>4. CASE Unpark
      BY <3>4 DEF Unpark
    <3>5. CASE Stop
      BY <3>5 DEF Stop
    <3> QED BY <2>2, <3>1, <3>2, <3>3, <3>4, <3>5
  <2> QED BY <1>4, <2>1, <2>2 DEF LogWriter
<1>5. CASE Caller
  <2>1. CASE OpenLog \/ CloseLog \/ LeasesGone
    <3>1. CASE OpenLog
      BY <3>1 DEF OpenLog, SubmitJob
    <3>2. CASE CloseLog
      BY <3>2 DEF CloseLog, SubmitJob
    <3>3. CASE LeasesGone
      BY <3>3 DEF LeasesGone, SubmitJob
    <3> QED BY <2>1, <3>1, <3>2, <3>3
  <2>2. ASSUME NEW status, JobDone(status) PROVE FlagsOK'
    BY <2>2 DEF JobDone
  <2>3. CASE TimeOut \/ Shutdown \/ StopWriter \/ DrainLane
    <3>1. CASE TimeOut
      BY <3>1 DEF TimeOut
    <3>2. CASE Shutdown
      BY <3>2 DEF Shutdown
    <3>3. CASE StopWriter
      BY <3>3 DEF StopWriter
    <3>4. CASE DrainLane
      BY <3>4 DEF DrainLane
    <3> QED BY <2>3, <3>1, <3>2, <3>3, <3>4
  <2> QED BY <1>5, <2>1, <2>2, <2>3 DEF Caller
<1> QED BY <1>1, <1>2, <1>3, <1>4, <1>5 DEF Next

\* Places.
LEMMA PlacesStep == Types /\ [Next]_vars => PlacesOK'
<1> SUFFICES ASSUME Types, [Next]_vars PROVE PlacesOK'
  OBVIOUS
<1> USE DEF Types, PlacesOK
<1>1. reader' \in {"idle", "lease", "recheck", "alloc", "wait", "pushRaw", "pushDisplay",
                   "wakeLog", "unlease"}
  BY ReaderFrame DEF Reader, Ingress, Deliver, LeaseRefused, LeaseCounted, LeaseConfirmed,
     LeaseWithdrawn, Alloc, AllocFails, WaitEnds, PushRaw, PushDisplay, WakeLog, Unlease, Read,
     Claim, readerT
<1>2. writer' \in {"loop", "parked", "open", "close", "drain", "write", "exited"}
  <2>1. CASE TakeJob
    <3>1. Head(jobs) \in Job
      BY <2>1, MembersTail DEF TakeJob, JobsOK
    <3>2. Head(jobs).kind \in {"open", "close"}
      BY <3>1 DEF Job
    <3> QED BY <2>1, <3>2 DEF TakeJob
  <2>2. CASE LogWriter
    BY <2>1, <2>2 DEF LogWriter, ProcessOpen, CloseStopsAdmission, TakeRaw, CloseFile, WriteRaw,
                      AbandonRaw, Park, Unpark, Stop, Written
  <2> QED BY <2>2, WriterFrame DEF writerT
<1>3. abi' \in {"idle", "wait", "leases", "stop", "join", "drain", "done"}
  BY CallerFrame DEF Caller, OpenLog, CloseLog, LeasesGone, TimeOut, JobDone, Shutdown, StopWriter,
                     DrainLane, SubmitJob, Return, abiT
<1> QED BY <1>1, <1>2, <1>3

\* Jobs, tickets and answers.
LEMMA JobsStep == Types /\ WriterAtPlace /\ [Next]_vars => JobsOK'
<1> SUFFICES ASSUME Types, WriterAtPlace, [Next]_vars PROVE JobsOK'
  OBVIOUS
<1> USE DEF Types, JobsOK
<1>1. ticket' \in Nat /\ calls' \in Nat
  <2>1. CASE OpenLog \/ LeasesGone
    BY <2>1 DEF OpenLog, LeasesGone, SubmitJob
  <2>2. CASE CloseLog \/ TimeOut \/ Shutdown \/ StopWriter \/ DrainLane
    BY <2>2 DEF CloseLog, TimeOut, Shutdown, StopWriter, DrainLane
  <2>3. ASSUME NEW status, JobDone(status) PROVE ticket' \in Nat /\ calls' \in Nat
    BY <2>3 DEF JobDone
  <2> QED BY <2>1, <2>2, <2>3, CallerFrame DEF Caller, abiT
<1>2. jobs' \in Seq(Job)
  <2>1. CASE TakeJob
    BY <2>1, MembersTail DEF TakeJob
  <2>2. CASE Stop
    BY <2>2, MembersEmpty DEF Stop
  <2>3. CASE OpenLog \/ LeasesGone
    <3>1. PICK kind \in {"open", "close"} : SubmitJob(kind)
      BY <2>3 DEF OpenLog, LeasesGone
    <3>2. [kind |-> kind, ticket |-> ticket + 1] \in Job
      BY DEF Job
    <3> QED BY <3>1, <3>2, MembersAppend DEF SubmitJob
  <2> QED BY <2>1, <2>2, <2>3, JobsFrame
<1>3. job' \in Seq(Job)
  <2>1. CASE TakeJob
    BY <2>1, MembersTail DEF TakeJob
  <2>2. CASE job' = <<>> \/ job' = job
    BY <2>2, MembersEmpty
  <2>3. CASE LogWriter
    BY <2>1, <2>2, <2>3 DEF LogWriter, ProcessOpen, CloseStopsAdmission, TakeRaw, CloseFile, WriteRaw,
              AbandonRaw, Park, Unpark, Stop, Answer, writerT
  <2> QED BY <2>2, <2>3, WriterFrame DEF writerT
<1>4. answers' \in SUBSET (Nat \X {"ok", "busy", "fail", "cancelled"})
  <2>1. CASE ProcessOpen \/ CloseFile
    <3>0. Len(job) = 1
      BY <2>1 DEF ProcessOpen, CloseFile, WriterAtPlace
    <3>1. job[1] \in Job /\ job[1].ticket \in Nat
      <4>1. job[1] \in Job
        BY <3>0, MembersOne
      <4> QED BY <4>1 DEF Job
    <3>2. PICK status \in {"ok", "busy", "fail"} : Answer(status)
      BY <2>1 DEF ProcessOpen, CloseFile
    <3> QED BY <3>1, <3>2 DEF Answer
  <2>2. CASE Stop
    <3>1. Members(jobs) \subseteq Job
      BY MembersOne
    <3>2. \A j \in Members(jobs) : <<j.ticket, "cancelled">> \in Nat \X {"ok", "busy", "fail", "cancelled"}
      BY <3>1 DEF Job
    <3> QED BY <2>2, <3>2 DEF Stop
  <2>3. CASE LogWriter
    BY <2>1, <2>2, <2>3 DEF LogWriter, TakeJob, CloseStopsAdmission, TakeRaw, WriteRaw, AbandonRaw, Park, Unpark
  <2> QED BY <2>3, WriterFrame
<1> QED BY <1>1, <1>2, <1>3, <1>4

\* References in the lanes and counts.
LEMMA LanesStep == Types /\ ReaderAtPlace /\ WriterAtPlace /\ [Next]_vars => LanesOK'
<1> SUFFICES ASSUME Types, ReaderAtPlace, WriterAtPlace, [Next]_vars PROVE LanesOK'
  OBVIOUS
<1> USE DEF Types, LanesOK
<1>0. leases' \in {leases, leases + 1, leases - 1}
  BY ReaderFrame DEF Reader, Ingress, Deliver, LeaseRefused, LeaseCounted, LeaseConfirmed,
     LeaseWithdrawn, Alloc, AllocFails, WaitEnds, PushRaw, PushDisplay, WakeLog, Unlease, log
<1>1. CASE UNCHANGED <<lane, readerT, held>>
  BY <1>1, <1>0 DEF lane, readerT
<1>2. CASE Reader
  <2> USE DEF lane, log, writerT
  <2>1. CASE Alloc
    <3>1. PICK b \in Blocks, shared \in BOOLEAN :
            /\ block' = <<[ref |-> [block |-> b, id |-> received], shared |-> shared]>>
            /\ refs' = [refs EXCEPT ![b] = IF leased /\ shared THEN 2 ELSE 1]
      <4>1. (CHOOSE free \in FreeBlocks : TRUE) \in Blocks /\ (~leased \/ Spare >= Reserve) \in BOOLEAN
        BY <2>1 DEF Alloc, FreeBlocks
      <4> QED BY <4>1, <2>1 DEF Alloc, Claim
    <3>2. [ref |-> [block |-> b, id |-> received], shared |-> shared] \in [ref : Ref, shared : BOOLEAN]
      BY DEF Ref, IdsOK
    <3> QED BY <2>1, <3>1, <3>2 DEF Alloc
  <2>2. CASE PushRaw \/ PushDisplay
    <3>1. Len(block) = 1
      BY <2>2 DEF PushRaw, PushDisplay, ReaderAtPlace, Pushing
    <3>2. block[1].ref \in Ref
      <4>1. block[1] \in [ref : Ref, shared : BOOLEAN]
        BY <3>1, MembersOne
      <4> QED BY <4>1
    <3>3. Append(raw, block[1].ref) \in Seq(Ref) /\ Append(display, block[1].ref) \in Seq(Ref)
      BY <3>2, MembersAppend
    <3>4. /\ raw' \in {raw, Append(raw, block[1].ref)}
          /\ display' \in {display, Append(display, block[1].ref)}
          /\ block' \in {block, <<>>} /\ refs' = refs
      BY <2>2 DEF PushRaw, PushDisplay
    <3> QED BY <2>2, <3>3, <3>4, <1>0, MembersEmpty DEF PushRaw, PushDisplay
  <2> QED BY <1>2, <2>1, <2>2 DEF Reader, Ingress, Deliver, LeaseRefused, LeaseCounted, LeaseConfirmed,
              LeaseWithdrawn, AllocFails, WaitEnds, WakeLog, Unlease
<1>3. CASE Consumes
  <2>0. leases' \in Int /\ \A b \in Blocks : Release(b) => refs' \in [Blocks -> Int]
    BY <1>0 DEF Release
  <2> USE <2>0 DEF readerT
  <2>1. CASE DisplayReleases
    <3>1. Head(display) \in Ref /\ Tail(display) \in Seq(Ref)
      BY <2>1, MembersTail DEF DisplayReleases
    <3>2. Head(display).block \in Blocks
      BY <3>1 DEF Ref
    <3>3. /\ Release(Head(display).block) /\ display' = Tail(display)
          /\ UNCHANGED <<raw, held, block>>
      BY <2>1 DEF DisplayReleases, writerT
    <3> QED BY <3>1, <3>2, <3>3
  <2>2. CASE TakeRaw
    BY <2>2, MembersTail DEF TakeRaw
  <2>3. CASE WriteRaw \/ AbandonRaw
    <3>1. held[1] \in Ref
      BY <2>3, MembersOne DEF WriteRaw, AbandonRaw, WriterAtPlace
    <3> QED BY <2>3, <3>1, MembersEmpty DEF WriteRaw, AbandonRaw, Ref
  <2>4. CASE Stop \/ DrainLane
    <3>1. refs' \in [Blocks -> Int]
      <4>1. \A b : Bit(b \in BlocksOf(raw)) \in Int /\ Bit(b \in BlocksOf(display)) \in Int
        BY DEF Bit
      <4> QED BY <2>4, <4>1 DEF Stop, DrainLane
    <3>2. raw' = <<>> /\ display' \in {display, <<>>} /\ UNCHANGED <<held, block>>
      BY <2>4 DEF Stop, DrainLane, writerT
    <3> QED BY <3>1, <3>2, MembersEmpty
  <2> QED BY <1>3, <2>1, <2>2, <2>3, <2>4 DEF Consumes
<1> QED BY <1>1, <1>2, <1>3, LaneFrame

\* Ids.
LEMMA IdsStep == Types /\ WriterAtPlace /\ [Next]_vars => IdsOK'
<1> SUFFICES ASSUME Types, WriterAtPlace, [Next]_vars PROVE IdsOK'
  OBVIOUS
<1> USE DEF Types, IdsOK
<1>1. CASE UNCHANGED <<received, logged, written, charged>>
  BY <1>1
<1>2. CASE Reader
  <2>1. received' \in Nat /\ (charged' = charged \/ charged' = Append(charged, received'))
    BY <1>2 DEF Reader, Ingress, Deliver, LeaseRefused, LeaseCounted, LeaseConfirmed, LeaseWithdrawn,
              Alloc, AllocFails, WaitEnds, PushRaw, PushDisplay, WakeLog, Unlease, history
  <2>2. Append(charged, received') \in Seq(Nat)
    BY <2>1, MembersAppend
  <2> QED BY <1>2, <2>1, <2>2 DEF Reader, Ingress, Deliver, LeaseRefused, LeaseCounted, LeaseConfirmed,
              LeaseWithdrawn, Alloc, AllocFails, WaitEnds, PushRaw, PushDisplay, WakeLog, Unlease, history
<1>3. CASE Consumes
  <2>1. CASE DisplayReleases \/ TakeRaw
    BY <2>1 DEF DisplayReleases, TakeRaw, history
  <2>2. CASE WriteRaw \/ AbandonRaw
    <3>1. held[1].id \in Nat
      BY <2>2, RefOne DEF WriteRaw, AbandonRaw, WriterAtPlace, LanesOK, Ref
    <3>2. Append(charged, held[1].id) \in Seq(Nat) /\ Append(written, held[1].id) \in Seq(Nat)
      BY <3>1, MembersAppend
    <3> QED BY <2>2, <3>2 DEF WriteRaw, AbandonRaw
  <2>3. CASE Stop \/ DrainLane
    <3>1. charged \o Ids(raw) \in Seq(Nat)
      BY IdsLemma, MembersConcat DEF LanesOK
    <3> QED BY <2>3, <3>1 DEF Stop, DrainLane
  <2> QED BY <1>3, <2>1, <2>2, <2>3 DEF Consumes
<1> QED BY <1>1, <1>2, <1>3, LaneFrame DEF history

\* Where the read thread is and what it has there.
LEMMA ReaderAtPlaceStep == Types /\ ReaderAtPlace /\ [Next]_vars => ReaderAtPlace'
<1> SUFFICES ASSUME Types, ReaderAtPlace, [Next]_vars PROVE ReaderAtPlace'
  OBVIOUS
<1> USE DEF Types, ReaderAtPlace, Pushing
<1>1. CASE UNCHANGED <<readerT, received, final, portOpen>>
  BY <1>1 DEF readerT
<1>2. CASE Reader
  <2> USE DEF Read, abiT
  <2>1. CASE Deliver
    BY <2>1 DEF Deliver, IdsOK
  <2>2. CASE Alloc
    BY <2>2 DEF Alloc, Claim, history
  <2>3. CASE PushRaw \/ PushDisplay
    BY <2>3 DEF PushRaw, PushDisplay, PlacesOK, history
  <2> QED BY <1>2, <2>1, <2>2, <2>3
          DEF Reader, Ingress, LeaseRefused, LeaseCounted, LeaseConfirmed, LeaseWithdrawn,
              AllocFails, WaitEnds, WakeLog, Unlease, history
<1>3. CASE Session
  BY <1>3 DEF Session, ClosePort, OpenPort, readerT, history, abiT
<1>4. CASE Shutdown
  BY <1>4 DEF Shutdown, readerT, history
<1>5. CASE UNCHANGED <<readerT, received, logged, leases>> /\ ~Session /\ ~Shutdown
  <2>1. UNCHANGED <<final, portOpen>>
    BY <1>5, ReaderFrame DEF Next, vars, Reader, Ingress, Deliver, LeaseRefused, LeaseCounted, LeaseConfirmed,
         LeaseWithdrawn, Alloc, AllocFails, WaitEnds, PushRaw, PushDisplay, WakeLog, Unlease,
         Display, DisplayReleases, TogglePause, LogWriter, TakeJob, ProcessOpen, CloseStopsAdmission, TakeRaw,
         CloseFile, WriteRaw, AbandonRaw, Park, Unpark, Stop, Caller, OpenLog, CloseLog, LeasesGone, TimeOut,
         JobDone, StopWriter, DrainLane, abiT
  <2> QED BY <1>5, <2>1, <1>1
<1> QED BY <1>2, <1>3, <1>4, <1>5, ReaderFrame

\* The count of leases follows the read thread.
LEMMA LeaseStep == Types /\ ReaderAtPlace /\ LeaseExact /\ [Next]_vars => LeaseExact'
<1> SUFFICES ASSUME Types, ReaderAtPlace, LeaseExact, [Next]_vars PROVE LeaseExact'
  OBVIOUS
<1> USE DEF Types, LeaseExact, HasLease, Bit
<1>1. CASE UNCHANGED <<readerT, received, logged, leases>>
  BY <1>1 DEF readerT
<1>2. CASE Reader
  <2> USE DEF Read, log, PlacesOK, LanesOK
  <2>1. CASE LeaseRefused \/ LeaseCounted \/ LeaseConfirmed \/ LeaseWithdrawn
    BY <2>1 DEF LeaseRefused, LeaseCounted, LeaseConfirmed, LeaseWithdrawn
  <2>2. CASE Alloc
    BY <2>2 DEF Alloc, Claim
  <2>3. CASE Deliver \/ AllocFails \/ WaitEnds
    BY <2>3 DEF Deliver, AllocFails, WaitEnds
  <2>4. CASE PushRaw \/ PushDisplay \/ WakeLog \/ Unlease
    BY <2>4 DEF PushRaw, PushDisplay, WakeLog, Unlease, ReaderAtPlace
  <2> QED BY <1>2, <2>1, <2>2, <2>3, <2>4 DEF Reader, Ingress
<1> QED BY <1>1, <1>2, ReaderFrame

\* Where the writer is and what it has there.
LEMMA WriterAtPlaceStep == Types /\ WriterAtPlace /\ [Next]_vars => WriterAtPlace'
<1> SUFFICES ASSUME Types, WriterAtPlace, [Next]_vars PROVE WriterAtPlace'
  OBVIOUS
<1> USE DEF Types, WriterAtPlace, LanesOK, JobsOK
<1>1. CASE LogWriter
  <2>1. CASE TakeJob
    <3>1. Head(jobs) \in Job /\ Len(job') = 1 /\ job'[1] = Head(jobs) /\ job' # <<>>
      BY <2>1, MembersTail DEF TakeJob
    <3>2. Head(jobs).kind \in {"open", "close"}
      BY <3>1 DEF Job
    <3> QED BY <2>1, <3>1, <3>2 DEF TakeJob
  <2>2. CASE TakeRaw
    <3>1. Len(held') = 1
      BY <2>2, MembersTail DEF TakeRaw
    <3> QED BY <2>2, <3>1 DEF TakeRaw
  <2>3. CASE ProcessOpen \/ CloseFile
    BY <2>3 DEF ProcessOpen, CloseFile, Answer
  <2>4. CASE WriteRaw \/ AbandonRaw
    BY <2>4 DEF WriteRaw, AbandonRaw, Written
  <2> QED BY <1>1, <2>1, <2>2, <2>3, <2>4 DEF LogWriter, CloseStopsAdmission, Park, Unpark, Stop
<1> QED BY <1>1, WriterFrame DEF writerT

\* At the start everybody is at rest.
LEMMA PlacesInit == Init => PlacesInv
<1> SUFFICES ASSUME Init PROVE PlacesInv
  OBVIOUS
<1> USE MembersEmpty DEF Init
<1>1. LanesOK /\ JobsOK
  BY DEF LanesOK, JobsOK
<1>2. IdsOK /\ FlagsOK /\ PlacesOK
  BY DEF IdsOK, FlagsOK, PlacesOK
<1>3. ReaderAtPlace /\ LeaseExact /\ WriterAtPlace
  BY DEF ReaderAtPlace, Pushing, LeaseExact, HasLease, Bit, WriterAtPlace
<1> QED BY <1>1, <1>2, <1>3 DEF PlacesInv, Types

\* Types and places are invariant.
LEMMA PlacesAlways == Spec => []PlacesInv
<1>1. PlacesInv /\ [Next]_vars => PlacesInv'
  BY FlagsStep, PlacesStep, JobsStep, LanesStep, IdsStep, ReaderAtPlaceStep, LeaseStep, WriterAtPlaceStep
  DEF PlacesInv, Types
<1> QED BY <1>1, PlacesInit, PTL DEF Spec

-----------------------------------------------------------------------------
(* Blocks: each lane has one once, and its references are counted.         *)

\* The block in hand, and what it is made of.
LEMMA InHand ==
  ASSUME PlacesInv, Pushing
  PROVE  /\ block[1].ref \in Ref /\ block[1].ref.block \in Blocks /\ block[1].ref.id = received
         /\ block[1].shared \in BOOLEAN
<1>1. Len(block) = 1 /\ block[1].ref.id = received /\ block \in Seq([ref : Ref, shared : BOOLEAN])
  BY DEF PlacesInv, ReaderAtPlace, Types, LanesOK
<1>2. block[1] \in [ref : Ref, shared : BOOLEAN]
  BY <1>1, MembersOne
<1>3. block[1].ref \in Ref /\ block[1].shared \in BOOLEAN
  BY <1>2
<1> QED BY <1>1, <1>3 DEF Ref

\* The reference the writer works on.
LEMMA HeldOne ==
  ASSUME PlacesInv, writer = "write"
  PROVE  /\ held[1] \in Ref /\ held[1].block \in Blocks /\ held[1].id \in Nat
         /\ Members(held) = {held[1]} /\ BlocksOf(held) = {held[1].block}
<1>1. Len(held) = 1 /\ held \in Seq(Ref)
  BY DEF PlacesInv, WriterAtPlace, Types, LanesOK
<1>2. held[1] \in Ref /\ Members(held) = {held[1]} /\ BlocksOf(held) = {held[1].block}
  BY <1>1, RefOne
<1> QED BY <1>2 DEF Ref

\* The read thread at work, with no block before or after.
LEMMA QuietReader ==
  ASSUME PlacesInv, Reader
  PROVE  Alloc \/ PushRaw \/ PushDisplay \/ (UNCHANGED <<lane, held, block>> /\ ~Pushing /\ ~Pushing')
<1> USE DEF writerT, Read, Pushing
<1>1. CASE Deliver \/ LeaseRefused \/ LeaseCounted \/ LeaseConfirmed \/ LeaseWithdrawn
  BY <1>1 DEF Deliver, LeaseRefused, LeaseCounted, LeaseConfirmed, LeaseWithdrawn
<1>2. CASE AllocFails \/ WaitEnds \/ WakeLog \/ Unlease
  BY <1>2 DEF AllocFails, WaitEnds, WakeLog, Unlease
<1> QED BY <1>1, <1>2 DEF Reader, Ingress

\* A block that is claimed was nowhere.
LEMMA ClaimLemma ==
  ASSUME PlacesInv, LanesInv, Alloc
  PROVE  \E b \in Blocks, shared \in BOOLEAN :
           /\ ~InRawLane(b) /\ ~InDisplayLane(b) /\ b \in FreeBlocks
           /\ refs' = [refs EXCEPT ![b] = IF leased /\ shared THEN 2 ELSE 1]
           /\ ~leased => shared
           /\ leased /\ shared => Spare >= Reserve
           /\ block' # <<>> /\ block'[1].ref.block = b /\ block'[1].ref.id = received
           /\ block'[1].shared = shared
           /\ reader' = IF leased THEN "pushRaw" ELSE "pushDisplay"
           /\ UNCHANGED <<raw, display, held, leased, received>>
<1> DEFINE b == CHOOSE free \in FreeBlocks : TRUE
           shared == (~leased \/ Spare >= Reserve)
<1>1. b \in FreeBlocks /\ b \in Blocks /\ refs[b] = 0 /\ shared \in BOOLEAN
  BY DEF Alloc, FreeBlocks
<1>2. ~InRawLane(b) /\ ~InDisplayLane(b)
  BY <1>1 DEF LanesInv, RefsCounted, Bit
<1>3. /\ refs' = [refs EXCEPT ![b] = IF leased /\ shared THEN 2 ELSE 1]
      /\ block' = <<[ref |-> [block |-> b, id |-> received], shared |-> shared]>>
      /\ reader' = IF leased THEN "pushRaw" ELSE "pushDisplay"
      /\ UNCHANGED <<raw, display, held, leased, received>>
  BY DEF Alloc, Claim, writerT, history
<1>4. (~leased => shared) /\ (leased /\ shared => Spare >= Reserve)
  OBVIOUS
<1> HIDE DEF b, shared
<1> QED BY <1>1, <1>2, <1>3, <1>4

\* Claiming a block and queueing it.
LEMMA ReaderLanes == PlacesInv /\ LanesInv /\ Reader => LanesInv'
<1> SUFFICES ASSUME PlacesInv, LanesInv, Reader PROVE LanesInv'
  OBVIOUS
<1> USE DEF LanesInv
<1>1. CASE UNCHANGED <<lane, held, block>> /\ ~Pushing /\ ~Pushing'
  BY <1>1 DEF OnceInLane, RefsCounted, InRawLane, InDisplayLane, Pushing, lane
<1>2. CASE Alloc
  <2>1. PICK b \in Blocks, shared \in BOOLEAN :
           /\ ~InRawLane(b) /\ ~InDisplayLane(b)
           /\ refs' = [refs EXCEPT ![b] = IF leased /\ shared THEN 2 ELSE 1]
           /\ ~leased => shared
           /\ block'[1].ref.block = b /\ block'[1].shared = shared
           /\ reader' = IF leased THEN "pushRaw" ELSE "pushDisplay"
           /\ UNCHANGED <<raw, display, held, leased>>
    BY <1>2, ClaimLemma
  <2>2. reader = "alloc"
    BY <1>2 DEF Alloc
  <2>3. OnceInLane'
    BY <2>1, <2>2 DEF OnceInLane, InRawLane, InDisplayLane, Pushing
  <2>4. ASSUME NEW x \in Blocks PROVE (refs[x] = Bit(InRawLane(x)) + Bit(InDisplayLane(x)))'
    <3>1. refs[x] = Bit(InRawLane(x)) + Bit(InDisplayLane(x)) /\ refs \in [Blocks -> Int]
      BY DEF RefsCounted, PlacesInv, Types, LanesOK
    <3>2. CASE x = b
      <4>1. InRawLane(x)' <=> leased
        BY <2>1, <2>2, <3>2 DEF InRawLane
      <4>2. InDisplayLane(x)' <=> shared
        BY <2>1, <2>2, <3>2 DEF InDisplayLane, Pushing
      <4>3. refs'[x] = IF leased /\ shared THEN 2 ELSE 1
        BY <2>1, <3>1, <3>2
      <4>4. CASE leased
        BY <4>1, <4>2, <4>3, <4>4 DEF Bit
      <4>5. CASE ~leased
        BY <4>1, <4>2, <4>3, <4>5, <2>1 DEF Bit
      <4> QED BY <4>4, <4>5
    <3>3. CASE x # b
      <4>1. (InRawLane(x)' <=> InRawLane(x)) /\ (InDisplayLane(x)' <=> InDisplayLane(x))
        BY <2>1, <2>2, <3>3 DEF InRawLane, InDisplayLane, Pushing
      <4>2. refs'[x] = refs[x]
        BY <2>1, <3>1, <3>3
      <4> QED BY <4>1, <4>2, <3>1 DEF Bit
    <3> QED BY <3>2, <3>3
  <2> QED BY <2>3, <2>4 DEF RefsCounted
<1>3. CASE PushRaw
  <2>1. Pushing /\ reader = "pushRaw"
    BY <1>3 DEF PushRaw, Pushing
  <2> DEFINE r == block[1].ref
  <2>2. r \in Ref /\ raw \in Seq(Ref)
    BY <2>1, InHand DEF PlacesInv, Types, LanesOK
  <2>3. raw' = Append(raw, r) /\ UNCHANGED <<refs, display, held>>
    BY <1>3 DEF PushRaw, writerT
  <2>4. BlocksOf(raw') = BlocksOf(raw) \cup {r.block} /\ Distinct(raw')
    BY <2>1, <2>2, <2>3, RefAppend DEF OnceInLane
  <2>5. IF block[1].shared THEN reader' = "pushDisplay" /\ block' = block
                           ELSE reader' = "wakeLog" /\ block' = <<>>
    BY <1>3 DEF PushRaw
  <2> HIDE DEF r
  <2>6. OnceInLane'
    BY <2>1, <2>3, <2>4, <2>5 DEF OnceInLane, Pushing, r
  <2>7. ASSUME NEW x \in Blocks
        PROVE (InRawLane(x)' <=> InRawLane(x)) /\ (InDisplayLane(x)' <=> InDisplayLane(x))
    BY <2>1, <2>3, <2>4, <2>5 DEF InRawLane, InDisplayLane, Pushing, r
  <2> QED BY <2>3, <2>6, <2>7 DEF RefsCounted, Bit
<1>4. CASE PushDisplay
  <2>1. Pushing /\ reader = "pushDisplay" /\ block[1].shared
    BY <1>4 DEF PushDisplay, Pushing, PlacesInv, ReaderAtPlace
  <2> DEFINE r == block[1].ref
  <2>2. r \in Ref /\ display \in Seq(Ref)
    BY <2>1, InHand DEF PlacesInv, Types, LanesOK
  <2>3. display' = Append(display, r) /\ UNCHANGED <<refs, raw, held>> /\ reader' \in {"wakeLog", "idle"}
    BY <1>4 DEF PushDisplay, writerT
  <2>4. BlocksOf(display') = BlocksOf(display) \cup {r.block} /\ Distinct(display')
    BY <2>1, <2>2, <2>3, RefAppend DEF OnceInLane
  <2> HIDE DEF r
  <2>6. OnceInLane'
    BY <2>1, <2>3, <2>4 DEF OnceInLane, Pushing
  <2>7. ASSUME NEW x \in Blocks
        PROVE (InRawLane(x)' <=> InRawLane(x)) /\ (InDisplayLane(x)' <=> InDisplayLane(x))
    BY <2>1, <2>3, <2>4 DEF InRawLane, InDisplayLane, Pushing, r
  <2> QED BY <2>3, <2>6, <2>7 DEF RefsCounted, Bit
<1> QED BY <1>1, <1>2, <1>3, <1>4, QuietReader

\* Releasing the reference of one lane.
LEMMA ReleaseLemma ==
  ASSUME PlacesInv, NEW b \in Blocks, Release(b)
  PROVE  /\ refs'[b] = refs[b] - 1 /\ \A x \in Blocks : x # b => refs'[x] = refs[x]
         /\ \A x \in Blocks : refs[x] \in Int
BY DEF PlacesInv, Types, LanesOK, Release

\* The consumers of the lanes, and the ends of the writer and of the lane.
LEMMA ConsumesLanes == PlacesInv /\ LanesInv /\ Consumes => LanesInv'
<1> SUFFICES ASSUME PlacesInv, LanesInv, Consumes PROVE LanesInv'
  OBVIOUS
<1> USE DEF LanesInv
<1>0. raw \in Seq(Ref) /\ display \in Seq(Ref) /\ held \in Seq(Ref) /\ refs \in [Blocks -> Int]
  BY DEF PlacesInv, Types, LanesOK
<1>1. CASE DisplayReleases
  <2> DEFINE d == Head(display)
  <2>1. /\ display # <<>> /\ display' = Tail(display) /\ Release(d.block)
        /\ UNCHANGED <<raw, held, reader, block>>
    BY <1>1 DEF DisplayReleases, readerT, writerT
  <2>2. /\ BlocksOf(display) = BlocksOf(display') \cup {d.block} /\ Distinct(display')
        /\ d.block \notin BlocksOf(display') /\ d.block \in Blocks
    BY <1>0, <2>1, RefTail DEF OnceInLane
  <2> HIDE DEF d
  <2>3. OnceInLane'
    BY <2>1, <2>2 DEF OnceInLane, Pushing
  <2>4. ASSUME NEW x \in Blocks
        PROVE  /\ InRawLane(x)' <=> InRawLane(x)
               /\ InDisplayLane(x)' <=> InDisplayLane(x) /\ x # d.block
               /\ x = d.block => InDisplayLane(x)
    BY <2>1, <2>2 DEF InRawLane, InDisplayLane, OnceInLane, Pushing
  <2> QED BY <2>1, <2>2, <2>3, <2>4, ReleaseLemma DEF RefsCounted, Bit
<1>2. CASE TakeRaw
  <2>1. /\ raw # <<>> /\ raw' = Tail(raw) /\ held' = <<Head(raw)>> /\ held = <<>>
        /\ UNCHANGED <<refs, display, reader, block>>
    BY <1>2 DEF TakeRaw, readerT, PlacesInv, WriterAtPlace
  <2>2. /\ BlocksOf(raw) = BlocksOf(raw') \cup {Head(raw).block} /\ Distinct(raw')
        /\ Head(raw).block \notin BlocksOf(raw')
    BY <1>0, <2>1, RefTail DEF OnceInLane
  <2>3. BlocksOf(held') = {Head(raw).block} /\ BlocksOf(held) = {}
    <3>1. Members(held') = {Head(raw)}
      BY <1>0, <2>1, MembersTail
    <3> QED BY <2>1, <3>1, RefEmpty DEF BlocksOf
  <2>4. OnceInLane'
    BY <2>1, <2>2, <2>3 DEF OnceInLane, Pushing
  <2>5. ASSUME NEW x \in Blocks
        PROVE (InRawLane(x)' <=> InRawLane(x)) /\ (InDisplayLane(x)' <=> InDisplayLane(x))
    BY <2>1, <2>2, <2>3 DEF InRawLane, InDisplayLane, Pushing
  <2> QED BY <2>1, <2>4, <2>5 DEF RefsCounted, Bit
<1>3. CASE WriteRaw \/ AbandonRaw
  <2> DEFINE h == held[1]
  <2>1. /\ writer = "write" /\ held' = <<>> /\ Release(h.block)
        /\ UNCHANGED <<raw, display, reader, block>>
    BY <1>3 DEF WriteRaw, AbandonRaw, readerT
  <2>2. BlocksOf(held) = {h.block} /\ h.block \in Blocks /\ BlocksOf(held') = {}
    BY <2>1, HeldOne, RefEmpty
  <2> HIDE DEF h
  <2>3. OnceInLane'
    BY <2>1, <2>2 DEF OnceInLane, Pushing
  <2>4. ASSUME NEW x \in Blocks
        PROVE  /\ InDisplayLane(x)' <=> InDisplayLane(x)
               /\ InRawLane(x)' <=> InRawLane(x) /\ x # h.block
               /\ x = h.block => InRawLane(x)
    BY <2>1, <2>2 DEF InRawLane, InDisplayLane, OnceInLane, Pushing
  <2> QED BY <2>1, <2>2, <2>3, <2>4, ReleaseLemma DEF RefsCounted, Bit
<1>4. CASE Stop
  <2>1. /\ raw' = <<>> /\ held = <<>> /\ UNCHANGED <<display, held, reader, block>>
        /\ refs' = [b \in Blocks |-> refs[b] - Bit(b \in BlocksOf(raw))]
    BY <1>4 DEF Stop, readerT, PlacesInv, WriterAtPlace
  <2>2. BlocksOf(held) = {} /\ BlocksOf(raw') = {} /\ Distinct(raw')
    BY <2>1, RefEmpty
  <2>3. OnceInLane'
    BY <2>1, <2>2 DEF OnceInLane, Pushing
  <2>4. ASSUME NEW x \in Blocks
        PROVE  /\ InDisplayLane(x)' <=> InDisplayLane(x)
               /\ InRawLane(x)' <=> InRawLane(x) /\ x \notin BlocksOf(raw)
               /\ x \in BlocksOf(raw) => InRawLane(x)
    BY <2>1, <2>2 DEF InRawLane, InDisplayLane, OnceInLane, Pushing
  <2> QED BY <1>0, <2>1, <2>3, <2>4 DEF RefsCounted, Bit
<1>5. CASE DrainLane
  <2>1. /\ raw' = <<>> /\ display' = <<>> /\ held = <<>> /\ UNCHANGED <<held, reader, block>>
        /\ refs' = [b \in Blocks |-> refs[b] - Bit(b \in BlocksOf(raw)) - Bit(b \in BlocksOf(display))]
    BY <1>5 DEF DrainLane, readerT, writerT, PlacesInv, WriterAtPlace
  <2>2. /\ BlocksOf(held) = {} /\ BlocksOf(raw') = {} /\ Distinct(raw')
        /\ BlocksOf(display') = {} /\ Distinct(display')
    BY <2>1, RefEmpty
  <2>3. OnceInLane'
    BY <2>1, <2>2 DEF OnceInLane, Pushing
  <2>4. ASSUME NEW x \in Blocks
        PROVE  /\ InDisplayLane(x)' <=> InDisplayLane(x) /\ x \notin BlocksOf(display)
               /\ x \in BlocksOf(display) => InDisplayLane(x)
               /\ InRawLane(x)' <=> InRawLane(x) /\ x \notin BlocksOf(raw)
               /\ x \in BlocksOf(raw) => InRawLane(x)
    BY <2>1, <2>2 DEF InRawLane, InDisplayLane, OnceInLane, Pushing
  <2> QED BY <1>0, <2>1, <2>3, <2>4 DEF RefsCounted, Bit
<1> QED BY <1>1, <1>2, <1>3, <1>4, <1>5 DEF Consumes

\* Each step keeps each block at most once in each lane, and counted.
LEMMA LanesInvStep == PlacesInv /\ LanesInv /\ [Next]_vars => LanesInv'
<1> SUFFICES ASSUME PlacesInv, LanesInv, UNCHANGED <<lane, readerT, held>> PROVE LanesInv'
  BY ReaderLanes, ConsumesLanes, LaneFrame
<1> QED BY DEF LanesInv, OnceInLane, RefsCounted, InRawLane, InDisplayLane, Pushing, lane, readerT

\* At the start no lane has a block.
LEMMA LanesInit == Init => LanesInv
BY RefEmpty DEF Init, LanesInv, OnceInLane, RefsCounted, InRawLane, InDisplayLane, Pushing, Bit

\* Counted by holders, that is RefsExact.
LEMMA LanesExact == PlacesInv /\ LanesInv => RefsExact
<1> SUFFICES ASSUME PlacesInv, LanesInv, NEW b \in Blocks PROVE refs[b] = HoldersOf(b)
  BY DEF RefsExact
<1>1. raw \in Seq(Ref) /\ display \in Seq(Ref) /\ held \in Seq(Ref)
  BY DEF PlacesInv, Types, LanesOK
<1>2. Distinct(held)
  <2>1. CASE writer = "write"
    BY <2>1, <1>1, RefOne DEF PlacesInv, WriterAtPlace
  <2>2. CASE writer # "write"
    BY <2>2, RefEmpty DEF PlacesInv, WriterAtPlace
  <2> QED BY <2>1, <2>2
<1>3. /\ Cardinality({i \in DOMAIN raw : raw[i].block = b}) = Bit(b \in BlocksOf(raw))
      /\ Cardinality({i \in DOMAIN display : display[i].block = b}) = Bit(b \in BlocksOf(display))
      /\ Cardinality({i \in DOMAIN held : held[i].block = b}) = Bit(b \in BlocksOf(held))
  BY <1>1, <1>2, CountLemma DEF LanesInv, OnceInLane
<1>4. refs[b] = Bit(InRawLane(b)) + Bit(InDisplayLane(b))
  BY DEF LanesInv, RefsCounted
<1>5. (block # <<>>) = Pushing
  <2>1. Pushing => block # <<>>
    BY DEF PlacesInv, ReaderAtPlace
  <2>2. ~Pushing => block = <<>>
    BY DEF PlacesInv, ReaderAtPlace
  <2> QED BY <2>1, <2>2 DEF Pushing
<1>6. Bit(InRawLane(b)) = Bit(b \in BlocksOf(raw)) + Bit(b \in BlocksOf(held))
                          + Bit(reader = "pushRaw" /\ block[1].ref.block = b)
  BY DEF LanesInv, OnceInLane, InRawLane, Bit
<1>7. Bit(InDisplayLane(b)) = Bit(b \in BlocksOf(display))
                              + Bit(Pushing /\ block[1].shared /\ block[1].ref.block = b)
  BY DEF LanesInv, OnceInLane, InDisplayLane, Bit
<1>8. Bit(reader = "pushRaw" /\ block[1].ref.block = b)
      + Bit(Pushing /\ block[1].shared /\ block[1].ref.block = b)
      = Bit(Pushing /\ block[1].ref.block = b)
        + Bit(Pushing /\ block[1].ref.block = b /\ block[1].shared /\ reader = "pushRaw")
  BY DEF Bit, Pushing, PlacesInv, ReaderAtPlace
<1>9. HoldersOf(b) = Bit(b \in BlocksOf(raw)) + Bit(b \in BlocksOf(display))
                     + Bit(b \in BlocksOf(held)) + Bit(Pushing /\ block[1].ref.block = b)
                     + Bit(Pushing /\ block[1].ref.block = b /\ block[1].shared /\ reader = "pushRaw")
  BY <1>3, <1>5 DEF HoldersOf
<1>10. /\ Bit(b \in BlocksOf(raw)) \in Int /\ Bit(b \in BlocksOf(display)) \in Int
       /\ Bit(b \in BlocksOf(held)) \in Int /\ Bit(Pushing /\ block[1].ref.block = b) \in Int
       /\ Bit(Pushing /\ block[1].shared /\ block[1].ref.block = b) \in Int
       /\ Bit(reader = "pushRaw" /\ block[1].ref.block = b) \in Int
       /\ Bit(Pushing /\ block[1].ref.block = b /\ block[1].shared /\ reader = "pushRaw") \in Int
  BY DEF Bit
<1> QED BY <1>4, <1>6, <1>7, <1>8, <1>9, <1>10

-----------------------------------------------------------------------------
(* Ids: in order, once, and none lost that was leased.                     *)

\* What StreamInv speaks of.
LEMMA StreamTypes ==
  ASSUME PlacesInv
  PROVE  /\ raw \in Seq(Ref) /\ display \in Seq(Ref) /\ held \in Seq(Ref)
         /\ written \in Seq(Nat) /\ charged \in Seq(Nat) /\ received \in Nat /\ logged \subseteq Nat
         /\ Members(raw) \subseteq Ref /\ Members(display) \subseteq Ref /\ Members(held) \subseteq Ref
         /\ InRaw \subseteq Ref /\ \A r \in Ref : r.id \in Nat
         /\ Members(written) \subseteq Nat /\ Members(charged) \subseteq Nat
         /\ reader # "idle" => received \in 1 .. received
<1>1. /\ raw \in Seq(Ref) /\ display \in Seq(Ref) /\ held \in Seq(Ref)
      /\ written \in Seq(Nat) /\ charged \in Seq(Nat) /\ received \in Nat /\ logged \subseteq Nat
      /\ reader # "idle" => received > 0
  BY DEF PlacesInv, Types, LanesOK, IdsOK, ReaderAtPlace
<1>2. Members(raw) \subseteq Ref /\ Members(display) \subseteq Ref /\ Members(held) \subseteq Ref
  BY <1>1, MembersOne
<1>3. Members(written) \subseteq Nat /\ Members(charged) \subseteq Nat
  BY <1>1, MembersOne
<1> QED BY <1>1, <1>2, <1>3 DEF Ref, InRaw

\* An id put at the end of a ledger is a member of it.
LEMMA IdAppend ==
  ASSUME NEW s \in Seq(Nat), NEW id \in Nat
  PROVE  Members(Append(s, id)) = Members(s) \cup {id}
BY MembersAppend

\* A segment comes: every id is older.
LEMMA DeliverStream == PlacesInv /\ StreamInv /\ Deliver => StreamInv'
<1> SUFFICES ASSUME PlacesInv, StreamInv, Deliver PROVE StreamInv'
  OBVIOUS
<1> USE DEF StreamInv
<1>1. /\ reader = "idle" /\ received' = received + 1 /\ reader' \in {"idle", "lease"}
      /\ UNCHANGED <<raw, held, display, logged, written, leased>>
      /\ \/ charged' = charged /\ reader' = "lease"
         \/ charged' = Append(charged, received') /\ reader' = "idle"
  BY DEF Deliver, lane, writerT
<1>2. received' \in Nat /\ \A id \in 1 .. received : id \in 1 .. received' /\ id < received'
  BY <1>1, StreamTypes
<1>3. /\ received' \in 1 .. received'
      /\ reader' = "lease" => Members(charged') = Members(charged)
      /\ reader' = "idle" => Members(charged') = Members(charged) \cup {received'}
  <2>1. Members(Append(charged, received')) = Members(charged) \cup {received'}
    BY <1>2, StreamTypes, IdAppend
  <2>2. 1 <= received'
    BY <1>1, StreamTypes
  <2>3. reader' = "lease" => charged' = charged
    BY <1>1
  <2>4. reader' = "idle" => charged' = Append(charged, received')
    BY <1>1
  <2>5. received' \in 1 .. received'
    BY <1>2, <2>2
  <2> QED BY <2>1, <2>3, <2>4, <2>5
<1>4. reader' = "idle" \/ reader' = "lease"
  BY <1>1
<1>5. /\ \A r \in InRaw : r.id \in 1 .. received'
      /\ \A id \in Members(written) \cup Members(charged) : id \in 1 .. received
      /\ InRaw' = InRaw
  BY <1>1, <1>2 DEF IdsInOrder, InRaw
<1>6. received' \notin 1 .. received
  BY <1>2, StreamTypes
<1>7. IdsInOrder'
  <2>1. Increasing(raw')
    BY <1>1 DEF IdsInOrder
  <2>2. \A r \in InRaw' : r.id \in 1 .. received' /\ r.id \notin Members(charged') /\ r.id < received'
    BY <1>2, <1>3, <1>4, <1>5, <1>6 DEF IdsInOrder
  <2>3. Members(written') \cup Members(charged') \cup logged' \subseteq 1 .. received'
    BY <1>1, <1>2, <1>3, <1>4 DEF IdsInOrder
  <2>4. Members(written') \cap Members(charged') = {}
    BY <1>1, <1>3, <1>4, <1>5, <1>6 DEF IdsInOrder
  <2>5. NotYetQueued' => received' \notin Members(written') \cup Members(charged')
    BY <1>1, <1>3, <1>5, <1>6 DEF NotYetQueued
  <2> QED BY <1>1, <2>1, <2>2, <2>3, <2>4, <2>5 DEF IdsInOrder, InRaw
<1>8. LoggedSettled'
  BY <1>1, <1>3, <1>4, <1>5 DEF LoggedSettled, Taken, Settled, InLane
<1>9. IdsOnDisplay'
  BY <1>1, <1>2, <1>6 DEF IdsOnDisplay, IdsInOrder
<1> QED BY <1>7, <1>8, <1>9

\* The lease is decided, waited for and given back, and a block is claimed.
LEMMA LeaseStream ==
  ASSUME PlacesInv, StreamInv,
         LeaseRefused \/ LeaseCounted \/ LeaseConfirmed \/ LeaseWithdrawn \/ Alloc \/ WaitEnds
         \/ WakeLog \/ Unlease
  PROVE  StreamInv'
<1> USE DEF StreamInv
<1>1. /\ UNCHANGED <<raw, held, display, written, charged, received>>
      /\ reader # "idle" /\ (reader' = "idle" => reader = "unlease")
      /\ logged' = logged \/ (LeaseConfirmed /\ logged' = logged \cup {received})
      /\ NotYetQueued' => NotYetQueued
      /\ Taken' => Taken
      /\ Pushing' => reader = "alloc"
      /\ NotLogged' => NotLogged /\ logged' = logged
  <2> USE DEF Read, lane, writerT, history, NotYetQueued, Taken, Pushing, NotLogged
  <2>1. CASE LeaseRefused \/ LeaseCounted \/ LeaseConfirmed \/ LeaseWithdrawn
    BY <2>1 DEF LeaseRefused, LeaseCounted, LeaseConfirmed, LeaseWithdrawn
  <2>2. CASE Alloc
    BY <2>2 DEF Alloc, Claim
  <2>3. CASE WaitEnds \/ WakeLog \/ Unlease
    BY <2>3 DEF WaitEnds, WakeLog, Unlease, PlacesInv, ReaderAtPlace
  <2> QED BY <2>1, <2>2, <2>3
<1>2. received \in 1 .. received /\ InRaw' = InRaw
  BY <1>1, StreamTypes DEF InRaw
<1>3. IdsInOrder'
  BY <1>1, <1>2 DEF IdsInOrder
<1>4. LoggedSettled'
  <2>1. \A id : Settled(id)' <=> Settled(id)
    BY <1>1, <1>2 DEF Settled, InLane
  <2>2. reader' = "idle" => Taken
    BY <1>1 DEF Taken
  <2> QED BY <1>1, <2>1, <2>2 DEF LoggedSettled
<1>5. IdsOnDisplay'
  BY <1>1 DEF IdsOnDisplay, NotYetQueued
<1> QED BY <1>3, <1>4, <1>5

\* No block and no wait: the segment is charged.
LEMMA AllocFailsStream == PlacesInv /\ StreamInv /\ AllocFails => StreamInv'
<1> SUFFICES ASSUME PlacesInv, StreamInv, AllocFails PROVE StreamInv'
  OBVIOUS
<1> USE DEF StreamInv
<1>1. /\ reader = "alloc" /\ UNCHANGED <<raw, held, display, written, received, logged, leased>>
      /\ \/ reader' = "wait" /\ charged' = charged /\ leased
         \/ reader' = "unlease" /\ charged' = Append(charged, received)
         \/ reader' = "idle" /\ charged' = Append(charged, received)
  BY DEF AllocFails, lane, writerT
<1>2. received \in 1 .. received /\ InRaw' = InRaw
  BY <1>1, StreamTypes DEF InRaw
<1>3. /\ reader' = "wait" => Members(charged') = Members(charged)
      /\ reader' # "wait" => Members(charged') = Members(charged) \cup {received}
      /\ reader' \in {"wait", "unlease", "idle"}
  <2>1. Members(Append(charged, received)) = Members(charged) \cup {received}
    BY StreamTypes, IdAppend
  <2> QED BY <1>1, <2>1
<1>4. \A r \in InRaw : r.id # received
  BY <1>1, StreamTypes DEF IdsInOrder, NotYetQueued
<1>5. IdsInOrder'
  <2>1. CASE reader' = "wait"
    BY <1>1, <1>2, <1>3, <2>1 DEF IdsInOrder, NotYetQueued
  <2>2. CASE reader' # "wait"
    BY <1>1, <1>2, <1>3, <1>4, <2>2 DEF IdsInOrder, NotYetQueued
  <2> QED BY <2>1, <2>2
<1>6. LoggedSettled'
  BY <1>1, <1>2, <1>3 DEF LoggedSettled, Taken, Settled, InLane
<1>7. IdsOnDisplay'
  BY <1>1 DEF IdsOnDisplay, NotYetQueued, Pushing, NotLogged
<1> QED BY <1>5, <1>6, <1>7

\* The segment goes to the lanes.
LEMMA PushStream == PlacesInv /\ StreamInv /\ (PushRaw \/ PushDisplay) => StreamInv'
<1> SUFFICES ASSUME PlacesInv, StreamInv, PushRaw \/ PushDisplay PROVE StreamInv'
  OBVIOUS
<1> USE DEF StreamInv
<1> DEFINE r == block[1].ref
<1>0. Pushing /\ r \in Ref /\ r.id = received /\ received \in 1 .. received
  BY InHand, StreamTypes DEF PushRaw, PushDisplay, Pushing
<1>1. CASE PushRaw
  <2>1. /\ reader = "pushRaw" /\ raw' = Append(raw, r)
        /\ UNCHANGED <<held, display, written, charged, received, logged, leased>>
        /\ leased /\ reader' \in {"pushDisplay", "wakeLog"}
    BY <1>1 DEF PushRaw, writerT, history, PlacesInv, ReaderAtPlace
  <2> HIDE DEF r
  <2>2. Members(raw') = Members(raw) \cup {r} /\ InRaw' = InRaw \cup {r}
    BY <1>0, <2>1, StreamTypes, MembersAppend DEF InRaw
  <2>3. \A q \in InRaw : q.id < r.id
    BY <1>0, <2>1 DEF IdsInOrder, NotYetQueued
  <2>4. Increasing(raw')
    BY <1>0, <2>1, <2>3, StreamTypes, RefAppend DEF IdsInOrder, InRaw
  <2>5. IdsInOrder'
    <3>1. \A q \in InRaw' : q.id \in 1 .. received' /\ q.id \notin Members(charged')
      BY <1>0, <2>1, <2>2 DEF IdsInOrder, NotYetQueued
    <3>2. \A h \in Members(held'), q \in Members(raw') : h.id < q.id
      BY <1>0, <2>1, <2>2, <2>3 DEF IdsInOrder, InRaw
    <3>3. \A id \in Members(written'), q \in InRaw' : id < q.id
      <4>1. \A id \in Members(written) : id \in 1 .. received /\ id # received
        BY <2>1 DEF IdsInOrder, NotYetQueued
      <4>2. \A id \in Members(written) : id < r.id
        BY <4>1, <1>0, StreamTypes
      <4> QED BY <2>1, <2>2, <4>2 DEF IdsInOrder
    <3> QED BY <2>1, <2>4, <3>1, <3>2, <3>3 DEF IdsInOrder, NotYetQueued
  <2>6. LoggedSettled'
    <3>1. Settled(received)' /\ \A id : Settled(id) => Settled(id)'
      BY <1>0, <2>1, <2>2 DEF Settled, InLane
    <3> QED BY <2>1, <3>1 DEF LoggedSettled, Taken
  <2>7. IdsOnDisplay'
    BY <2>1 DEF IdsOnDisplay, NotYetQueued, Pushing, NotLogged
  <2> QED BY <2>5, <2>6, <2>7
<1>2. CASE PushDisplay
  <2>1. /\ reader = "pushDisplay" /\ display' = Append(display, r)
        /\ UNCHANGED <<raw, held, written, charged, received, logged, leased>>
        /\ reader' = IF leased THEN "wakeLog" ELSE "idle"
    BY <1>2 DEF PushDisplay, writerT, history
  <2> HIDE DEF r
  <2>2. Members(display') = Members(display) \cup {r} /\ InRaw' = InRaw
    BY <1>0, <2>1, StreamTypes, MembersAppend DEF InRaw
  <2>3. IdsInOrder'
    BY <2>1, <2>2 DEF IdsInOrder, NotYetQueued
  <2>4. LoggedSettled'
    <3>1. \A id : Settled(id)' <=> Settled(id)
      BY <2>1, <2>2 DEF Settled, InLane
    <3>2. CASE leased
      BY <2>1, <3>1, <3>2 DEF LoggedSettled, Taken
    <3>3. CASE ~leased
      <4>1. received \notin logged
        BY <2>1, <3>3 DEF IdsOnDisplay, NotLogged
      <4> QED BY <2>1, <3>1, <3>3, <4>1 DEF LoggedSettled, Taken
    <3> QED BY <3>2, <3>3
  <2>5. IdsOnDisplay'
    BY <1>0, <2>1, <2>2 DEF IdsOnDisplay, NotYetQueued, Pushing, NotLogged
  <2> QED BY <2>3, <2>4, <2>5
<1> QED BY <1>1, <1>2

\* The writer takes the oldest reference, writes it or charges it; the ends charge the rest.
LEMMA ConsumesStream == PlacesInv /\ StreamInv /\ Consumes => StreamInv'
<1> SUFFICES ASSUME PlacesInv, StreamInv, Consumes PROVE StreamInv'
  OBVIOUS
<1> USE DEF StreamInv
<1>1. CASE DisplayReleases
  <2>1. /\ display # <<>> /\ display' = Tail(display)
        /\ UNCHANGED <<raw, held, written, charged, received, logged, leased, reader>>
    BY <1>1 DEF DisplayReleases, readerT, writerT, history
  <2>2. Members(display') \subseteq Members(display) /\ InRaw' = InRaw
    BY <2>1, StreamTypes, MembersTail DEF InRaw
  <2>3. IdsInOrder' /\ LoggedSettled'
    BY <2>1, <2>2 DEF IdsInOrder, LoggedSettled, NotYetQueued, Taken, Settled, InLane
  <2>4. IdsOnDisplay'
    BY <2>1, <2>2 DEF IdsOnDisplay, NotYetQueued, Pushing, NotLogged
  <2> QED BY <2>3, <2>4
<1>2. CASE ~DisplayReleases
  <2>1. /\ display' = display \/ display' = <<>>
        /\ UNCHANGED <<received, logged, leased, reader>>
    BY <1>2 DEF Consumes, TakeRaw, WriteRaw, AbandonRaw, Stop, DrainLane, readerT, history
  <2>2. IdsOnDisplay'
    BY <2>1, MembersEmpty DEF IdsOnDisplay, NotYetQueued, Pushing, NotLogged
  <2>3. CASE TakeRaw
    <3>1. /\ raw # <<>> /\ raw' = Tail(raw) /\ held' = <<Head(raw)>> /\ held = <<>>
          /\ UNCHANGED <<written, charged>>
      BY <2>3 DEF TakeRaw, history, PlacesInv, WriterAtPlace
    <3>2. /\ Members(held') = {Head(raw)} /\ Members(held) = {}
          /\ Members(raw) = Members(raw') \cup {Head(raw)}
      BY <3>1, StreamTypes, MembersTail, MembersEmpty
    <3>3. Increasing(raw') /\ \A q \in Members(raw') : Head(raw).id < q.id
      BY <3>1, StreamTypes, RefTail DEF IdsInOrder
    <3>4. InRaw' = InRaw
      BY <3>2 DEF InRaw
    <3>5. IdsInOrder'
      BY <2>1, <3>1, <3>2, <3>3, <3>4 DEF IdsInOrder, NotYetQueued
    <3>6. LoggedSettled'
      BY <2>1, <3>1, <3>4 DEF LoggedSettled, Taken, Settled, InLane
    <3> QED BY <2>2, <3>5, <3>6
  <2>4. CASE WriteRaw \/ AbandonRaw
    <3> DEFINE h == held[1]
    <3>1. /\ writer = "write" /\ held' = <<>> /\ raw' = raw
          /\ \/ written' = Append(written, h.id) /\ charged' = charged
             \/ charged' = Append(charged, h.id) /\ written' = written
      BY <2>4 DEF WriteRaw, AbandonRaw
    <3>2. Members(held) = {h} /\ h.id \in Nat /\ Members(held') = {}
      BY <3>1, HeldOne, MembersEmpty
    <3> HIDE DEF h
    <3>3. InRaw' = Members(raw) /\ InRaw = Members(raw) \cup {h}
      BY <3>1, <3>2 DEF InRaw
    <3>4. \/ Members(written') = Members(written) \cup {h.id} /\ Members(charged') = Members(charged)
          \/ Members(charged') = Members(charged) \cup {h.id} /\ Members(written') = Members(written)
      <4>1. /\ Members(Append(written, h.id)) = Members(written) \cup {h.id}
            /\ Members(Append(charged, h.id)) = Members(charged) \cup {h.id}
        BY <3>2, StreamTypes, IdAppend
      <4> QED BY <3>1, <4>1
    <3>5. /\ h.id \in 1 .. received /\ h.id \notin Members(charged)
          /\ \A q \in Members(raw) : h.id < q.id /\ q.id # h.id
          /\ \A id \in Members(written) : id < h.id /\ id # h.id
      BY <3>2, <3>3, StreamTypes DEF IdsInOrder
    <3>6. NotYetQueued => h.id # received
      BY <3>2, <3>3, StreamTypes DEF IdsInOrder
    <3>7. IdsInOrder'
      <4>1. Increasing(raw')
        BY <3>1 DEF IdsInOrder
      <4>2. \A q \in InRaw' : q.id \in 1 .. received' /\ q.id \notin Members(charged')
        BY <2>1, <3>3, <3>4, <3>5 DEF IdsInOrder
      <4>3. \A id \in Members(written'), q \in InRaw' : id < q.id
        BY <3>3, <3>4, <3>5 DEF IdsInOrder
      <4>4. Members(written') \cup Members(charged') \cup logged' \subseteq 1 .. received'
        BY <2>1, <3>4, <3>5 DEF IdsInOrder
      <4>5. Members(written') \cap Members(charged') = {}
        BY <3>4, <3>5 DEF IdsInOrder
      <4>6. NotYetQueued' => /\ \A q \in InRaw' : q.id < received'
                             /\ received' \notin Members(written') \cup Members(charged')
        BY <2>1, <3>3, <3>4, <3>6 DEF IdsInOrder, NotYetQueued
      <4> QED BY <3>2, <4>1, <4>2, <4>3, <4>4, <4>5, <4>6 DEF IdsInOrder
    <3>8. LoggedSettled'
      <4>1. ASSUME NEW id, Settled(id) PROVE Settled(id)'
        BY <3>3, <3>4, <4>1 DEF Settled, InLane
      <4> QED BY <2>1, <4>1 DEF LoggedSettled, Taken
    <3> QED BY <2>2, <3>7, <3>8
  <2>5. CASE Stop \/ DrainLane
    <3>1. raw' = <<>> /\ held' = <<>> /\ held = <<>> /\ written' = written /\ charged' = charged \o Ids(raw)
      BY <2>5 DEF Stop, DrainLane, PlacesInv, WriterAtPlace, writerT
    <3>2. /\ Members(charged') = Members(charged) \cup {r.id : r \in Members(raw)}
          /\ InRaw' = {} /\ InRaw = Members(raw)
      <4>1. Ids(raw) \in Seq(Nat) /\ Members(Ids(raw)) = {r.id : r \in Members(raw)}
        BY StreamTypes, IdsLemma
      <4> QED BY <3>1, <4>1, StreamTypes, MembersConcat, MembersEmpty DEF InRaw
    <3>3. \A id \in Members(written) : \A r \in Members(raw) : id # r.id
      BY <3>2, StreamTypes DEF IdsInOrder
    <3>4. IdsInOrder'
      <4>1. NotYetQueued' => received' \notin Members(written') \cup Members(charged')
        <5>1. NotYetQueued => \A r \in Members(raw) : r.id # received
          BY <3>2, StreamTypes DEF IdsInOrder
        <5> QED BY <2>1, <3>1, <3>2, <5>1 DEF IdsInOrder, NotYetQueued
      <4>2. Members(written') \cup Members(charged') \cup logged' \subseteq 1 .. received'
        BY <2>1, <3>1, <3>2 DEF IdsInOrder
      <4>3. Members(written') \cap Members(charged') = {}
        BY <3>1, <3>2, <3>3 DEF IdsInOrder
      <4> QED BY <3>1, <3>2, <4>1, <4>2, <4>3, MembersEmpty, RefEmpty DEF IdsInOrder
    <3>5. LoggedSettled'
      <4>1. ASSUME NEW id, Settled(id) PROVE Settled(id)'
        BY <3>1, <3>2, <4>1 DEF Settled, InLane
      <4> QED BY <2>1, <4>1 DEF LoggedSettled, Taken
    <3> QED BY <2>2, <3>4, <3>5
  <2> QED BY <1>2, <2>3, <2>4, <2>5 DEF Consumes
<1> QED BY <1>1, <1>2

\* Each step keeps the ids in order, settled and apart.
LEMMA StreamStep == PlacesInv /\ StreamInv /\ [Next]_vars => StreamInv'
<1> SUFFICES ASSUME PlacesInv, StreamInv, [Next]_vars PROVE StreamInv'
  OBVIOUS
<1>1. CASE Reader
  BY <1>1, DeliverStream, LeaseStream, AllocFailsStream, PushStream DEF Reader, Ingress
<1>2. CASE Consumes
  BY <1>2, ConsumesStream
<1>3. CASE UNCHANGED <<lane, readerT, held, received, logged, written, charged>>
  BY <1>3 DEF StreamInv, IdsInOrder, LoggedSettled, IdsOnDisplay, InRaw, NotYetQueued, Taken, Settled,
              InLane, NotLogged, Pushing, lane, readerT
<1> QED BY <1>1, <1>2, <1>3, LaneFrame DEF history

\* At the start no id was given.
LEMMA StreamInit == Init => StreamInv
BY MembersEmpty, RefEmpty DEF Init, StreamInv, IdsInOrder, LoggedSettled, IdsOnDisplay, InRaw, NotYetQueued,
   Taken, NotLogged, Pushing

-----------------------------------------------------------------------------
(* The reserve.                                                            *)

Share == SharedWithDisplay \cup ShareInHand

\* What the display shares with the log is in use.
LEMMA ShareLemma ==
  ASSUME PlacesInv, LanesInv
  PROVE  Share \subseteq Blocks \ FreeBlocks /\ SharedWithDisplay \subseteq Blocks
<1>1. ASSUME NEW b \in SharedWithDisplay PROVE b \in Blocks /\ InDisplayLane(b)
  <2>1. PICK r \in Members(display) : b = r.block
    BY DEF SharedWithDisplay
  <2>2. r \in Ref
    BY StreamTypes
  <2> QED BY <2>1, <2>2 DEF Ref, InDisplayLane, BlocksOf
<1>2. ASSUME NEW b \in ShareInHand PROVE b \in Blocks /\ InDisplayLane(b)
  BY InHand DEF ShareInHand, InDisplayLane
<1>3. \A b \in Blocks : InDisplayLane(b) => refs[b] # 0
  BY DEF LanesInv, RefsCounted, Bit
<1> QED BY <1>1, <1>2, <1>3 DEF Share, FreeBlocks

\* Only a claim above the reserve adds to it.
LEMMA ShareGrows ==
  ASSUME PlacesInv, LanesInv, StreamInv, [Next]_vars
  PROVE  \/ Share' \subseteq Share
         \/ \E b \in FreeBlocks : Spare >= Reserve /\ Share' \subseteq Share \cup {b}
<1> USE DEF Share
<1>1. CASE Reader
  <2>1. CASE Alloc
    <3>1. PICK b \in Blocks, shared \in BOOLEAN :
           /\ b \in FreeBlocks
           /\ leased /\ shared => Spare >= Reserve
           /\ block'[1].ref.block = b /\ block'[1].shared = shared
           /\ UNCHANGED <<display, leased>>
      BY <2>1, ClaimLemma
    <3>2. logged' = logged /\ reader = "alloc"
      BY <2>1 DEF Alloc, history
    <3>3. SharedWithDisplay' = SharedWithDisplay
      BY <3>1, <3>2 DEF SharedWithDisplay
    <3>4. ShareInHand' \subseteq {b} /\ (ShareInHand' # {} => leased /\ shared)
      BY <3>1 DEF ShareInHand
    <3>5. CASE leased /\ shared
      BY <3>1, <3>3, <3>4, <3>5
    <3>6. CASE ~(leased /\ shared)
      BY <3>3, <3>4, <3>6
    <3> QED BY <3>5, <3>6
  <2>2. CASE PushRaw
    <3>1. /\ UNCHANGED <<display, logged, leased>> /\ reader = "pushRaw"
          /\ \/ block[1].shared /\ reader' = "pushDisplay" /\ block' = block
             \/ reader' = "wakeLog"
      BY <2>2 DEF PushRaw, history
    <3>2. SharedWithDisplay' = SharedWithDisplay
      BY <3>1 DEF SharedWithDisplay
    <3>3. ShareInHand' \subseteq ShareInHand
      BY <3>1 DEF ShareInHand, Pushing
    <3> QED BY <3>2, <3>3
  <2>3. CASE PushDisplay
    <3> DEFINE r == block[1].ref
    <3>1. /\ display' = Append(display, r) /\ UNCHANGED <<logged, leased>>
          /\ reader = "pushDisplay" /\ ~Pushing' /\ block[1].shared
      BY <2>3 DEF PushDisplay, history, Pushing, PlacesInv, ReaderAtPlace
    <3>2. r \in Ref /\ r.id = received
      BY <3>1, InHand DEF Pushing
    <3>3. Members(display') = Members(display) \cup {r}
      BY <3>1, <3>2, MembersAppend, StreamTypes
    <3>4. SharedWithDisplay' = SharedWithDisplay \cup (IF r.id \in logged THEN {r.block} ELSE {})
      BY <3>1, <3>3 DEF SharedWithDisplay
    <3>5. r.id \in logged => leased
      BY <3>1, <3>2 DEF StreamInv, IdsOnDisplay, NotLogged
    <3>6. leased => ShareInHand = {r.block}
      BY <3>1 DEF ShareInHand, Pushing
    <3>7. ShareInHand' = {}
      BY <3>1 DEF ShareInHand
    <3> QED BY <3>4, <3>5, <3>6, <3>7
  <2>4. CASE UNCHANGED <<lane, held, block>> /\ ~Pushing /\ ~Pushing'
    <3>1. logged' = logged \/ (logged' = logged \cup {received} /\ reader = "recheck")
      BY <1>1 DEF Reader, Ingress, Deliver, LeaseRefused, LeaseCounted, LeaseConfirmed,
         LeaseWithdrawn, Alloc, AllocFails, WaitEnds, PushRaw, PushDisplay, WakeLog, Unlease, history, Read
    <3>2. reader = "recheck" => \A r \in Members(display) : r.id # received
      BY StreamTypes DEF StreamInv, IdsOnDisplay, NotYetQueued
    <3>3. SharedWithDisplay' = SharedWithDisplay
      BY <2>4, <3>1, <3>2 DEF SharedWithDisplay, lane
    <3> QED BY <2>4, <3>3 DEF ShareInHand
  <2> QED BY <1>1, <2>1, <2>2, <2>3, <2>4, QuietReader
<1>2. CASE UNCHANGED <<readerT, received, logged, leases>> /\ ~DisplayReleases
  <2>1. display' \in {display, <<>>}
    BY <1>2, LaneFrame DEF Consumes, TakeRaw, WriteRaw, AbandonRaw, Stop, DrainLane, Reader, Ingress, Deliver,
       LeaseRefused, LeaseCounted, LeaseConfirmed, LeaseWithdrawn, Alloc, AllocFails, WaitEnds, PushRaw,
       PushDisplay, WakeLog, Unlease, readerT, lane, history, Read
  <2>2. Members(display') \subseteq Members(display)
    BY <2>1, MembersEmpty
  <2> QED BY <1>2, <2>2 DEF SharedWithDisplay, ShareInHand, Pushing, readerT
<1>3. CASE DisplayReleases
  <2>1. display # <<>> /\ display' = Tail(display) /\ UNCHANGED <<readerT, logged>>
    BY <1>3 DEF DisplayReleases, history
  <2>2. Members(display') \subseteq Members(display)
    BY <2>1, StreamTypes, MembersTail
  <2> QED BY <2>1, <2>2 DEF SharedWithDisplay, ShareInHand, Pushing, readerT
<1> QED BY <1>1, <1>2, <1>3, ReaderFrame

\* So the blocks that are free then, but for the one claimed, are not in it.
LEMMA ReserveStep == PlacesInv /\ LanesInv /\ StreamInv /\ ReserveHeld /\ [Next]_vars => ReserveHeld'
<1> SUFFICES ASSUME PlacesInv, LanesInv, StreamInv, ReserveHeld, [Next]_vars PROVE ReserveHeld'
  OBVIOUS
<1>1. Cardinality(Share) <= Cardinality(Blocks) - Reserve
  BY DEF ReserveHeld, Share
<1>2. /\ IsFiniteSet(Blocks) /\ Cardinality(Blocks) \in Nat /\ Reserve \in Nat
      /\ IsFiniteSet(Share) /\ IsFiniteSet(FreeBlocks)
  <2>1. IsFiniteSet(Blocks) /\ Reserve \in 0 .. Cardinality(Blocks)
    BY RxFanoutAssumption
  <2> QED BY <2>1, ShareLemma, FS_Subset, FS_CardinalityType DEF FreeBlocks
<1>3. CASE Share' \subseteq Share
  <2>1. IsFiniteSet(Share') /\ Cardinality(Share') <= Cardinality(Share)
    BY <1>2, <1>3, FS_Subset
  <2>2. Cardinality(Share') \in Nat /\ Cardinality(Share) \in Nat
    BY <1>2, <2>1, FS_CardinalityType
  <2>3. Cardinality(Share') <= Cardinality(Blocks) - Reserve
    BY <1>1, <1>2, <2>1, <2>2
  <2> QED BY <2>3 DEF ReserveHeld, Share
<1>4. CASE \E b \in FreeBlocks : Spare >= Reserve /\ Share' \subseteq Share \cup {b}
  <2>1. PICK b \in FreeBlocks : Spare >= Reserve /\ Share' \subseteq Share \cup {b}
    BY <1>4
  <2> DEFINE rest == FreeBlocks \ {b}
  <2>2. Cardinality(rest) = Spare /\ IsFiniteSet(rest)
    BY <1>2, <2>1, FS_RemoveElement DEF Spare
  <2>3. Share' \subseteq Blocks \ rest /\ rest \subseteq Blocks
    BY <2>1, ShareLemma DEF FreeBlocks
  <2> HIDE DEF rest
  <2>4. Cardinality(Blocks \ rest) = Cardinality(Blocks) - Cardinality(rest) /\ IsFiniteSet(Blocks \ rest)
    <3>1. Blocks \cap rest = rest
      BY <2>3
    <3>2. IsFiniteSet(Blocks \ rest) /\ Cardinality(Blocks \ rest) = Cardinality(Blocks) - Cardinality(Blocks \cap rest)
      BY <1>2, FS_Difference
    <3> QED BY <3>1, <3>2
  <2>5. IsFiniteSet(Share') /\ Cardinality(Share') <= Cardinality(Blocks \ rest)
    BY <2>3, <2>4, FS_Subset
  <2>6. Cardinality(Share') \in Nat /\ Cardinality(rest) \in Nat
    BY <2>2, <2>5, FS_CardinalityType
  <2>7. Cardinality(Share') <= Cardinality(Blocks) - Reserve
    BY <1>2, <2>1, <2>2, <2>4, <2>5, <2>6
  <2> QED BY <2>7 DEF ReserveHeld, Share
<1> QED BY <1>3, <1>4, ShareGrows

\* At the start nothing is shared, and the reserve is at most what the lane has.
LEMMA ReserveInit == Init => ReserveHeld
<1> SUFFICES ASSUME Init PROVE ReserveHeld
  OBVIOUS
<1>1. SharedWithDisplay = {} /\ ShareInHand = {}
  BY MembersEmpty DEF Init, SharedWithDisplay, ShareInHand, Pushing
<1>2. Cardinality({}) = 0 /\ Reserve \in 0 .. Cardinality(Blocks) /\ Cardinality(Blocks) \in Nat
  BY RxFanoutAssumption, FS_EmptySet, FS_CardinalityType
<1>3. SharedWithDisplay \cup ShareInHand = {}
  BY <1>1
<1>4. Cardinality(SharedWithDisplay \cup ShareInHand) = 0
  BY <1>2, <1>3
<1>5. 0 <= Cardinality(Blocks) - Reserve
  BY <1>2
<1> QED BY <1>4, <1>5 DEF ReserveHeld

\* So the blocks in use by both lanes leave the reserve.
LEMMA ReserveLemma == PlacesInv /\ LanesInv /\ ReserveHeld => ReserveKept
<1> SUFFICES ASSUME PlacesInv, LanesInv, ReserveHeld PROVE ReserveKept
  OBVIOUS
<1>1. IsFiniteSet(Share) /\ SharedWithDisplay \subseteq Share
  BY ShareLemma, RxFanoutAssumption, FS_Subset DEF Share
<1>2. /\ Cardinality(SharedWithDisplay) <= Cardinality(Share)
      /\ Cardinality(SharedWithDisplay) \in Nat /\ Cardinality(Share) \in Nat
  BY <1>1, FS_Subset, FS_CardinalityType
<1>3. Reserve \in Nat /\ Cardinality(Blocks) \in Nat
  BY RxFanoutAssumption, FS_CardinalityType
<1> QED BY <1>2, <1>3 DEF ReserveHeld, ReserveKept, Share

-----------------------------------------------------------------------------
(* Calls.                                                                  *)

\* Jobs as they are queued, taken and answered.
LEMMA JobLemma ==
  ASSUME PlacesInv
  PROVE  /\ jobs \in Seq(Job) /\ job \in Seq(Job) /\ ticket \in Nat /\ Jobs \subseteq Job
         /\ Len(jobs) \in Nat /\ Len(job) \in Nat
         /\ Jobs = {} <=> jobs = <<>> /\ job = <<>>
         /\ job # <<>> => job[1] \in Jobs /\ Members(job) = {job[1]} /\ Len(job) = 1
         /\ jobs # <<>> => Members(jobs) # {} /\ Len(jobs) >= 1
         /\ \A a \in answers : a[1] \in Nat
<1>1. /\ jobs \in Seq(Job) /\ job \in Seq(Job) /\ ticket \in Nat
      /\ job # <<>> => Len(job) = 1
      /\ answers \in SUBSET (Nat \X {"ok", "busy", "fail", "cancelled"})
  BY DEF PlacesInv, Types, JobsOK, WriterAtPlace
<1>2. /\ Members(jobs) \subseteq Job /\ Members(job) \subseteq Job
      /\ Len(jobs) \in Nat /\ Len(job) \in Nat
      /\ (Len(jobs) = 0 <=> jobs = <<>>) /\ (Members(jobs) = {} <=> jobs = <<>>)
      /\ Members(job) = {} <=> job = <<>>
      /\ job # <<>> => Members(job) = {job[1]}
  BY <1>1, MembersOne
<1> QED BY <1>1, <1>2 DEF Jobs

\* Who answers, and with what.
LEMMA AnswersStep ==
  ASSUME PlacesInv, [Next]_vars
  PROVE  \/ UNCHANGED answers
         \/ ProcessOpen /\ job # <<>> /\ \E s : answers' = answers \cup {<<job[1].ticket, s>>}
         \/ CloseFile /\ job # <<>> /\ \E s : answers' = answers \cup {<<job[1].ticket, s>>}
         \/ Stop /\ answers' = answers \cup {<<j.ticket, "cancelled">> : j \in Members(jobs)}
<1>1. CASE ProcessOpen \/ CloseFile
  BY <1>1 DEF ProcessOpen, CloseFile, Answer, PlacesInv, WriterAtPlace
<1>2. CASE Stop
  BY <1>2 DEF Stop
<1>3. CASE LogWriter
  BY <1>1, <1>2, <1>3 DEF LogWriter, TakeJob, CloseStopsAdmission, TakeRaw, WriteRaw, AbandonRaw, Park, Unpark
<1> QED BY <1>3, WriterFrame

\* How the jobs in flight change.
LEMMA JobsChange ==
  ASSUME PlacesInv, [Next]_vars
  PROVE  \/ Jobs' \subseteq Jobs /\ Len(jobs') + Len(job') <= Len(jobs) + Len(job)
         \/ /\ OpenLog \/ LeasesGone
            /\ Len(jobs') + Len(job') = Len(jobs) + Len(job) + 1 /\ ticket' = ticket + 1
            /\ Jobs' = Jobs \cup {[kind |-> IF OpenLog THEN "open" ELSE "close", ticket |-> ticket + 1]}
<1>1. CASE TakeJob
  <2>1. jobs # <<>> /\ job' = <<Head(jobs)>> /\ jobs' = Tail(jobs)
    BY <1>1 DEF TakeJob
  <2>2. /\ Members(jobs) = Members(jobs') \cup {Head(jobs)} /\ Members(job') = {Head(jobs)}
        /\ Len(jobs') = Len(jobs) - 1 /\ Len(job') = 1 /\ Len(jobs) \in Nat
    BY <2>1, JobLemma, MembersTail
  <2>3. Len(job) \in Nat
    BY JobLemma
  <2> QED BY <2>2, <2>3 DEF Jobs
<1>2. CASE ProcessOpen \/ CloseFile
  <2>1. job' = <<>> /\ jobs' = jobs
    BY <1>2 DEF ProcessOpen, CloseFile, Answer
  <2> QED BY <2>1, JobLemma, MembersEmpty DEF Jobs
<1>3. CASE Stop
  <2>1. jobs' = <<>> /\ job' = job
    BY <1>3 DEF Stop
  <2> QED BY <2>1, JobLemma, MembersEmpty DEF Jobs
<1>4. CASE OpenLog \/ LeasesGone
  <2> DEFINE j == [kind |-> IF OpenLog THEN "open" ELSE "close", ticket |-> ticket + 1]
  <2>1. ~(OpenLog /\ LeasesGone)
    BY DEF OpenLog, LeasesGone
  <2>2. jobs' = Append(jobs, j) /\ job' = job /\ ticket' = ticket + 1
    BY <1>4, <2>1 DEF OpenLog, LeasesGone, SubmitJob, writerT
  <2>3. j \in Job
    BY JobLemma DEF Job
  <2> HIDE DEF j
  <2>4. Members(jobs') = Members(jobs) \cup {j} /\ Len(jobs') = Len(jobs) + 1
    BY <2>2, <2>3, JobLemma, MembersAppend
  <2>5. Len(jobs) \in Nat /\ Len(job) \in Nat
    BY JobLemma
  <2>6. Len(jobs') + Len(job') = Len(jobs) + Len(job) + 1 /\ Jobs' = Jobs \cup {j}
    BY <2>2, <2>4, <2>5 DEF Jobs
  <2> QED BY <1>4, <2>2, <2>6 DEF j
<1>5. CASE LogWriter /\ ~TakeJob /\ ~ProcessOpen /\ ~CloseFile /\ ~Stop
  <2>1. job' = job /\ jobs' = jobs
    BY <1>5 DEF LogWriter, CloseStopsAdmission, TakeRaw, WriteRaw, AbandonRaw, Park, Unpark, log
  <2> QED BY <2>1, JobLemma DEF Jobs
<1>6. CASE UNCHANGED <<writerT, jobs>>
  <2>1. job' = job /\ jobs' = jobs
    BY <1>6 DEF writerT
  <2> QED BY <2>1, JobLemma DEF Jobs
<1> QED BY <1>1, <1>2, <1>3, <1>4, <1>5, <1>6, WriterFrame, JobsFrame DEF LogWriter

\* Each step keeps the tickets growing and the writer alive until shutdown.
LEMMA TicketsStep == PlacesInv /\ TicketsInv /\ [Next]_vars => TicketsInv'
<1> SUFFICES ASSUME PlacesInv, TicketsInv, [Next]_vars PROVE TicketsInv'
  OBVIOUS
<1> USE DEF TicketsInv
<1>1. /\ stopping' <=> abi' \in {"join", "done"}
      /\ stopping => stopping'
      /\ abi' \in {"stop", "join", "done"} => final'
      /\ abi' = "idle" => ~final'
      /\ ticket' = ticket \/ ticket' = ticket + 1
  <2>1. CASE OpenLog \/ CloseLog \/ LeasesGone
    BY <2>1 DEF OpenLog, CloseLog, LeasesGone, SubmitJob, PlacesInv, Types, FlagsOK
  <2>2. ASSUME TimeOut \/ \E status : JobDone(status)
        PROVE  UNCHANGED <<stopping, final, ticket>> /\ abi \in {"wait", "leases"} /\ Return
    BY <2>2 DEF TimeOut, JobDone, log
  <2>3. CASE TimeOut \/ \E status : JobDone(status)
    BY <2>2, <2>3 DEF Return
  <2>4. CASE Shutdown \/ StopWriter \/ DrainLane
    BY <2>4 DEF Shutdown, StopWriter, DrainLane, log
  <2> QED BY <2>1, <2>3, <2>4, CallerFrame DEF Caller, abiT
<1>2. writer' = "exited" => stopping
  <2>1. CASE TakeJob
    <3>1. Head(jobs) \in Job
      BY <2>1, JobLemma, MembersTail DEF TakeJob
    <3>2. Head(jobs).kind \in {"open", "close"}
      BY <3>1 DEF Job
    <3> QED BY <2>1, <3>2 DEF TakeJob
  <2> QED BY <2>1, WriterFrame DEF LogWriter, ProcessOpen, CloseStopsAdmission, TakeRaw, CloseFile, WriteRaw,
                   AbandonRaw, Park, Unpark, Stop, Written, writerT
<1>3. ticket \in Nat /\ \A j \in Jobs : j.ticket \in Nat
  BY JobLemma DEF Job
<1>4. \A j \in Jobs' : j.ticket <= ticket'
  BY <1>1, <1>3, JobsChange
<1>5. \A a \in answers' : a[1] <= ticket'
  <2>1. \A a \in answers : a[1] <= ticket'
    BY <1>1, <1>3, JobLemma
  <2>2. ASSUME NEW a \in answers' \ answers PROVE \E j \in Jobs : a[1] = j.ticket
    BY AnswersStep, JobLemma DEF Jobs
  <2>3. \A j \in Jobs : j.ticket <= ticket'
    BY <1>1, <1>3
  <2> QED BY <2>1, <2>2, <2>3
<1> QED BY <1>1, <1>2, <1>4, <1>5

\* No call in flight, no job; a job in flight keeps the caller where it is.
LEMMA Waiting ==
  ASSUME PlacesInv, TicketsInv, CallInv, ~gaveUp
  PROVE  /\ abi # "wait" => Jobs = {}
         /\ Answered => Jobs = {}
         /\ stopping => Jobs = {}
         /\ leases # 0 \/ accepting => \A j \in Jobs : j.kind # "close"
         /\ job # <<>> => jobs = <<>> /\ job[1].ticket = ticket /\ abi = "wait"
         /\ Len(jobs) \in Nat /\ Len(job) \in Nat
<1>1. OneJob
  BY DEF CallInv
<1>2. job # <<>> => jobs = <<>> /\ job[1].ticket = ticket /\ abi = "wait"
  <2>1. ASSUME job # <<>>, jobs # <<>> PROVE FALSE
    <3>1. Len(job) = 1 /\ Len(jobs) >= 1 /\ Len(jobs) \in Nat
      BY <2>1, JobLemma
    <3> QED BY <1>1, <3>1 DEF OneJob
  <2> QED BY <2>1, <1>1, JobLemma DEF OneJob
<1> QED BY <1>1, <1>2, JobLemma DEF OneJob, TicketsInv

\* One job at a time.
LEMMA OneJobStep ==
  ASSUME PlacesInv, TicketsInv, CallInv, ~gaveUp, ~gaveUp', [Next]_vars
  PROVE  OneJob'
<1>1. OneJob /\ NotAdmitted
  BY DEF CallInv
<1>2. CASE OpenLog \/ LeasesGone
  <2> DEFINE j == [kind |-> IF OpenLog THEN "open" ELSE "close", ticket |-> ticket + 1]
  <2>1. /\ abi # "wait" /\ abi' = "wait" /\ UNCHANGED <<leases, accepting, answers, final>>
        /\ ~OpenLog => leases = 0 /\ abi = "leases"
        /\ OpenLog => abi = "idle"
    BY <1>2 DEF OpenLog, LeasesGone, SubmitJob
  <2>2. Jobs = {} /\ jobs = <<>> /\ job = <<>>
    BY <2>1, Waiting, JobLemma
  <2>3. Jobs' = {j} /\ Len(jobs') + Len(job') = 1 /\ ticket' = ticket + 1
    <3>1. Jobs = {} /\ Len(jobs) + Len(job) = 0 /\ Jobs # {j}
      BY <2>2, MembersEmpty
    <3>3. ticket' = ticket + 1
      BY <1>2 DEF OpenLog, LeasesGone, SubmitJob
    <3>5. Jobs' # {}
      <4>1. jobs' = Append(jobs, [kind |-> "open", ticket |-> ticket + 1])
            \/ jobs' = Append(jobs, [kind |-> "close", ticket |-> ticket + 1])
        BY <1>2 DEF OpenLog, LeasesGone, SubmitJob
      <4>2. \A kind \in {"open", "close"} : [kind |-> kind, ticket |-> ticket + 1] \in Job
        BY JobLemma DEF Job
      <4>3. [kind |-> "open", ticket |-> ticket + 1] \in Job /\ [kind |-> "close", ticket |-> ticket + 1] \in Job
        BY <4>2
      <4>4. Members(jobs') # {}
        <5>1. \A e \in Job : Members(Append(jobs, e)) = Members(jobs) \cup {e}
          <6>1. jobs \in Seq(Job)
            BY JobLemma
          <6> QED BY <6>1, MembersAppend
        <5> QED BY <4>1, <4>3, <5>1
      <4> QED BY <4>4 DEF Jobs
    <3> QED BY <3>1, <3>3, <3>5, JobsChange
  <2>4. j.ticket = ticket' /\ (j.kind = "close" => leases = 0 /\ ~accepting) /\ (final => j.kind = "close")
    BY <2>1, <2>3, <1>1 DEF NotAdmitted, TicketsInv
  <2>5. ~Answered'
    <3>1. \A a \in answers : a[1] <= ticket /\ a[1] \in Nat
      BY JobLemma DEF TicketsInv
    <3>2. \A a \in answers : a[1] # ticket'
      BY <2>3, <3>1, JobLemma
    <3> QED BY <2>1, <3>2 DEF Answered
  <2> HIDE DEF j
  <2> QED BY <2>1, <2>3, <2>4, <2>5 DEF OneJob
<1>3. CASE Jobs' \subseteq Jobs /\ Len(jobs') + Len(job') <= Len(jobs) + Len(job)
  <2>0. Len(jobs) \in Nat /\ Len(job) \in Nat /\ Len(jobs') \in Nat /\ Len(job') \in Nat
    <3>1. jobs' \in Seq(Job) /\ job' \in Seq(Job)
      BY JobsStep DEF PlacesInv, Types, JobsOK
    <3> QED BY <3>1, Waiting, MembersOne
  <2>1. Len(jobs') + Len(job') <= 1
    BY <1>1, <1>3, <2>0 DEF OneJob
  <2>2. SUFFICES ASSUME Jobs' # {}
                 PROVE  /\ abi' = "wait" /\ ticket' = ticket /\ ~Answered' /\ final' = final
                        /\ \A j \in Jobs : j.kind = "close" => leases' = 0 /\ ~accepting'
    BY <1>1, <1>3, <2>1 DEF OneJob
  <2>3. Jobs # {} /\ abi = "wait" /\ ~Answered /\ ~stopping
    BY <1>1, <1>3, <2>2, Waiting DEF OneJob
  <2>4. abi' = "wait" /\ UNCHANGED <<ticket, final>> /\ ~Caller
    <3>1. ~(OpenLog \/ CloseLog \/ LeasesGone \/ Shutdown \/ StopWriter \/ DrainLane)
      BY <2>3 DEF OpenLog, CloseLog, LeasesGone, Shutdown, StopWriter, DrainLane
    <3>2. ASSUME NEW status PROVE ~JobDone(status)
      BY <2>3 DEF JobDone, Answered
    <3>3. ~TimeOut
      BY DEF TimeOut
    <3>4. ~Caller
      BY <3>1, <3>2, <3>3 DEF Caller
    <3> QED BY <3>4, <2>3, CallerFrame DEF abiT
  <2>5. ~Answered'
    <3>1. CASE UNCHANGED answers
      BY <3>1, <2>3, <2>4 DEF Answered
    <3>2. CASE Stop
      BY <3>2, <2>3 DEF Stop
    <3>3. CASE (ProcessOpen \/ CloseFile) /\ job # <<>>
      <4>1. job' = <<>> /\ jobs' = jobs /\ jobs = <<>>
        BY <3>3, Waiting DEF ProcessOpen, CloseFile, Answer
      <4> QED BY <4>1, <2>2, MembersEmpty DEF Jobs
    <3> QED BY <3>1, <3>2, <3>3, AnswersStep
  <2>6. ASSUME NEW j \in Jobs, j.kind = "close" PROVE leases' = 0 /\ ~accepting'
    <3>1. leases = 0 /\ ~accepting
      BY <1>1, <2>6 DEF OneJob
    <3>2. leases' = 0
      <4>1. CASE Reader
        <5>1. ~HasLease
          BY <3>1 DEF PlacesInv, LeaseExact, Bit
        <5> QED BY <4>1, <3>1, <5>1 DEF Reader, Ingress, Deliver, LeaseRefused, LeaseCounted, LeaseConfirmed,
              LeaseWithdrawn, Alloc, AllocFails, WaitEnds, PushRaw, PushDisplay, WakeLog, Unlease, Read, log,
              HasLease, PlacesInv, ReaderAtPlace
      <4> QED BY <3>1, <4>1, ReaderFrame
    <3>3. ~accepting'
      <4>1. ~ProcessOpen
        <5>1. ASSUME ProcessOpen PROVE FALSE
          <6>1. job # <<>> /\ job[1].kind = "open"
            BY <5>1 DEF ProcessOpen, PlacesInv, WriterAtPlace
          <6>2. jobs = <<>> /\ Members(job) = {job[1]}
            BY <6>1, Waiting, JobLemma
          <6> QED BY <6>1, <6>2, <2>6, MembersEmpty DEF Jobs
        <5> QED BY <5>1
      <4>2. CASE Reader
        BY <4>2, <3>1 DEF Reader, Ingress, Deliver, LeaseRefused, LeaseCounted, LeaseConfirmed,
              LeaseWithdrawn, Alloc, AllocFails, WaitEnds, PushRaw, PushDisplay, WakeLog, Unlease, log
      <4>3. CASE LogWriter
        BY <4>1, <4>3, <3>1 DEF LogWriter, TakeJob, CloseStopsAdmission, TakeRaw, CloseFile, WriteRaw,
              AbandonRaw, Park, Unpark, Stop, log
      <4>4. CASE Display \/ Session \/ UNCHANGED vars
        BY <4>4, <3>1 DEF Display, Session, DisplayReleases, TogglePause, ClosePort, OpenPort, vars, log
      <4> QED BY <2>4, <4>2, <4>3, <4>4 DEF Next
    <3> QED BY <3>2, <3>3
  <2> QED BY <2>4, <2>5, <2>6
<1> QED BY <1>2, <1>3, JobsChange

\* While admission is open, and while something leased is on its way, there is a file.
LEMMA FileThereStep ==
  ASSUME PlacesInv, TicketsInv, CallInv, ~gaveUp, ~gaveUp', [Next]_vars
  PROVE  FileThere'
<1>1. FileThere /\ OneJob /\ NotAdmitted
  BY DEF CallInv
<1> USE DEF FileThere
<1>2. CASE Reader
  <2>1. file' = file /\ accepting' = accepting /\ held' = held
    BY <1>2 DEF Reader, Ingress, Deliver, LeaseRefused, LeaseCounted, LeaseConfirmed, LeaseWithdrawn,
       Alloc, AllocFails, WaitEnds, PushRaw, PushDisplay, WakeLog, Unlease, log, writerT
  <2>2. raw' # <<>> => raw # <<>> \/ (reader = "pushRaw" /\ leased)
    BY <1>2 DEF Reader, Ingress, Deliver, LeaseRefused, LeaseCounted, LeaseConfirmed, LeaseWithdrawn,
       Alloc, AllocFails, WaitEnds, PushRaw, PushDisplay, WakeLog, Unlease, lane, PlacesInv, ReaderAtPlace
  <2>3. leased' /\ reader' \in {"alloc", "wait", "pushRaw"}
          => accepting \/ (leased /\ reader \in {"alloc", "wait", "pushRaw"})
    BY <1>2 DEF Reader, Ingress, Deliver, LeaseRefused, LeaseCounted, LeaseConfirmed, LeaseWithdrawn,
       Alloc, AllocFails, WaitEnds, PushRaw, PushDisplay, WakeLog, Unlease, Read, Claim
  <2> QED BY <1>1, <2>1, <2>2, <2>3
<1>3. CASE LogWriter
  <2>0. UNCHANGED <<reader, leased>>
    BY <1>3 DEF LogWriter, TakeJob, ProcessOpen, CloseStopsAdmission, TakeRaw, CloseFile, WriteRaw,
              AbandonRaw, Park, Unpark, Stop, readerT
  <2>1. CASE ProcessOpen
    BY <2>0, <2>1, <1>1 DEF ProcessOpen, lane
  <2>2. CASE CloseFile
    <3>1. job # <<>> /\ job[1].kind = "close" /\ held = <<>> /\ held' = <<>> /\ raw' = raw
      BY <2>2 DEF CloseFile, PlacesInv, WriterAtPlace, lane
    <3>2. leases = 0 /\ ~accepting /\ accepting' = accepting
      BY <2>2, <3>1, <1>1, JobLemma DEF OneJob, CloseFile
    <3>3. ~(leased /\ reader \in {"alloc", "wait", "pushRaw"})
      BY <3>2 DEF PlacesInv, LeaseExact, HasLease, Bit
    <3>4. raw = <<>>
      BY <2>2, <1>1 DEF CloseFile
    <3> QED BY <2>0, <3>1, <3>2, <3>3, <3>4
  <2>3. CASE Stop
    <3>1. final /\ reader = "idle" /\ ~accepting
      BY <2>3, <1>1 DEF Stop, TicketsInv, PlacesInv, ReaderAtPlace, NotAdmitted
    <3>2. held = <<>> /\ held' = <<>> /\ raw' = <<>> /\ accepting' = accepting
      BY <2>3 DEF Stop, PlacesInv, WriterAtPlace
    <3> QED BY <2>0, <3>1, <3>2
  <2>4. CASE TakeRaw
    BY <2>0, <2>4, <1>1 DEF TakeRaw, log
  <2>5. CASE WriteRaw \/ AbandonRaw
    BY <2>0, <2>5, <1>1 DEF WriteRaw, AbandonRaw, log
  <2>6. CASE TakeJob \/ CloseStopsAdmission \/ Park \/ Unpark
    BY <2>0, <2>6, <1>1 DEF TakeJob, CloseStopsAdmission, Park, Unpark, lane, log
  <2> QED BY <1>3, <2>1, <2>2, <2>3, <2>4, <2>5, <2>6 DEF LogWriter
<1>4. CASE Caller
  <2>1. file' = file /\ (accepting' => accepting) /\ UNCHANGED <<reader, leased, held>> /\ raw' \in {raw, <<>>}
    BY <1>4 DEF Caller, OpenLog, CloseLog, LeasesGone, TimeOut, JobDone, Shutdown, StopWriter, DrainLane,
       SubmitJob, lane, log, readerT, writerT
  <2> QED BY <2>1, <1>1
<1>5. CASE Display \/ Session \/ UNCHANGED vars
  BY <1>5, <1>1 DEF Display, Session, DisplayReleases, TogglePause, ClosePort, OpenPort, vars, log, lane,
     readerT, writerT
<1> QED BY <1>2, <1>3, <1>4, <1>5 DEF Next

\* Admission is closed where a close waits for the leases.
LEMMA NotAdmittedStep ==
  ASSUME PlacesInv, TicketsInv, CallInv, ~gaveUp, ~gaveUp', [Next]_vars
  PROVE  NotAdmitted'
<1>1. OneJob /\ NotAdmitted
  BY DEF CallInv
<1> USE DEF NotAdmitted
<1>2. CASE ProcessOpen
  <2>1. job # <<>> /\ job[1].kind = "open" /\ UNCHANGED <<abi, final>>
    BY <1>2 DEF ProcessOpen, PlacesInv, WriterAtPlace, abiT
  <2>2. abi = "wait" /\ ~final
    BY <2>1, <1>1, JobLemma DEF OneJob
  <2> QED BY <2>1, <2>2
<1>3. CASE Caller
  BY <1>3, <1>1 DEF Caller, OpenLog, CloseLog, LeasesGone, TimeOut, JobDone, Shutdown, StopWriter, DrainLane,
     SubmitJob, Return, log
<1>4. CASE UNCHANGED <<abiT, stopping, gaveUp>> /\ ~ProcessOpen
  <2>1. accepting' => accepting
    BY <1>3, <1>4 DEF Next, Reader, Ingress, Deliver, LeaseRefused, LeaseCounted, LeaseConfirmed,
       LeaseWithdrawn, Alloc, AllocFails, WaitEnds, PushRaw, PushDisplay, WakeLog, Unlease,
       LogWriter, TakeJob, CloseStopsAdmission, TakeRaw, CloseFile, WriteRaw, AbandonRaw, Park, Unpark, Stop,
       Caller, OpenLog, CloseLog, LeasesGone, TimeOut, JobDone, Shutdown, StopWriter, DrainLane,
       Display, Session, DisplayReleases, TogglePause, ClosePort, OpenPort, vars, log
  <2> QED BY <1>4, <2>1, <1>1 DEF abiT
<1> QED BY <1>2, <1>3, <1>4, CallerFrame

\* An OK that the caller has not seen yet is still true.
LEMMA OkIsTrueStep ==
  ASSUME PlacesInv, TicketsInv, CallInv, ~gaveUp, ~gaveUp', [Next]_vars
  PROVE  OkIsTrue'
<1>1. OneJob /\ OkIsTrue
  BY DEF CallInv
<1>2. SUFFICES ASSUME abi' = "wait", <<ticket', "ok">> \in answers'
               PROVE  accepting' \/ (leases' = 0 /\ ~file')
  BY DEF OkIsTrue
<1>3. CASE ProcessOpen
  <2>1. job # <<>> /\ job[1].ticket = ticket
    BY <1>3, Waiting DEF ProcessOpen, PlacesInv, WriterAtPlace
  <2>2. ~Answered
    BY <2>1, <1>1, JobLemma DEF OneJob
  <2>3. <<ticket, "ok">> \notin answers /\ ticket' = ticket
    BY <2>2, <1>3 DEF Answered, ProcessOpen, abiT
  <2>4. Answer("ok")
    BY <1>2, <1>3, <2>1, <2>3 DEF ProcessOpen, Answer
  <2>5. <<ticket, "ok">> # <<ticket, "busy">> /\ <<ticket, "ok">> # <<ticket, "fail">>
    OBVIOUS
  <2> QED BY <1>2, <1>3, <2>1, <2>3, <2>5 DEF ProcessOpen, Answer
<1>4. CASE CloseFile
  <2>1. job # <<>> /\ job[1].kind = "close"
    BY <1>4 DEF CloseFile, PlacesInv, WriterAtPlace
  <2>2. leases = 0 /\ leases' = leases /\ file' = FALSE
    BY <1>4, <2>1, <1>1, JobLemma DEF OneJob, CloseFile
  <2> QED BY <2>2
<1>5. CASE Stop
  <2>1. stopping /\ UNCHANGED abi
    BY <1>5 DEF Stop, abiT
  <2> QED BY <2>1, <1>2 DEF TicketsInv
<1>6. CASE OpenLog \/ LeasesGone
  <2>1. ticket' = ticket + 1 /\ answers' = answers /\ ticket \in Nat
    BY <1>6, JobLemma DEF OpenLog, LeasesGone, SubmitJob
  <2>2. <<ticket', "ok">>[1] = ticket'
    OBVIOUS
  <2>3. ticket' <= ticket
    BY <1>2, <2>1, <2>2 DEF TicketsInv
  <2> QED BY <2>1, <2>3
<1>7. CASE answers' = answers /\ ~OpenLog /\ ~LeasesGone /\ ~ProcessOpen /\ ~CloseFile /\ ~Stop
  <2>1. abi = "wait" /\ ticket' = ticket /\ ~Caller
    <3>1. ~(CloseLog \/ TimeOut \/ Shutdown \/ StopWriter \/ DrainLane)
      BY <1>2 DEF CloseLog, TimeOut, Shutdown, StopWriter, DrainLane
    <3>2. ASSUME NEW status PROVE ~JobDone(status)
      BY <1>2 DEF JobDone, Return
    <3>3. ~Caller
      BY <1>7, <3>1, <3>2 DEF Caller
    <3> QED BY <1>2, <3>3, CallerFrame DEF abiT
  <2>2. Answered /\ (accepting \/ (leases = 0 /\ ~file))
    <3>1. <<ticket, "ok">> \in answers /\ <<ticket, "ok">>[1] = ticket
      BY <1>2, <1>7, <2>1
    <3> QED BY <1>1, <2>1, <3>1 DEF OkIsTrue, Answered
  <2>3. Jobs = {} /\ job = <<>>
    BY <2>2, Waiting, JobLemma
  <2>4. CASE Reader
    <3>1. file' = file /\ accepting' = accepting
      BY <2>4 DEF Reader, Ingress, Deliver, LeaseRefused, LeaseCounted, LeaseConfirmed, LeaseWithdrawn,
         Alloc, AllocFails, WaitEnds, PushRaw, PushDisplay, WakeLog, Unlease, log
    <3>2. CASE accepting
      BY <3>1, <3>2
    <3>3. CASE ~accepting
      <4>1. leases = 0 /\ ~HasLease
        BY <2>2, <3>3 DEF PlacesInv, LeaseExact, Bit
      <4>2. leases' = 0
        BY <2>4, <3>3, <4>1 DEF Reader, Ingress, Deliver, LeaseRefused, LeaseCounted, LeaseConfirmed,
              LeaseWithdrawn, Alloc, AllocFails, WaitEnds, PushRaw, PushDisplay, WakeLog, Unlease, Read, log,
              HasLease, PlacesInv, ReaderAtPlace
      <4> QED BY <2>2, <3>1, <3>3, <4>2
    <3> QED BY <3>2, <3>3
  <2>5. CASE LogWriter
    BY <1>7, <2>2, <2>3, <2>5 DEF LogWriter, TakeJob, CloseStopsAdmission, TakeRaw, WriteRaw,
              AbandonRaw, Park, Unpark, log, PlacesInv, WriterAtPlace
  <2>6. CASE Display \/ Session \/ UNCHANGED vars
    BY <2>2, <2>6 DEF Display, Session, DisplayReleases, TogglePause, ClosePort, OpenPort, vars, log
  <2> QED BY <2>1, <2>4, <2>5, <2>6 DEF Next
<1> QED BY <1>3, <1>4, <1>5, <1>6, <1>7, AnswersStep

\* While no call has given up, each step keeps one job in flight, the file under what is
\* leased, and the truth of an OK.
LEMMA CallStep == PlacesInv /\ TicketsInv /\ CallInv /\ [Next]_vars => CallInv'
<1> SUFFICES ASSUME PlacesInv, TicketsInv, CallInv, [Next]_vars, ~gaveUp' PROVE CallInv'
  BY DEF CallInv
<1>1. ~gaveUp
  <2>1. gaveUp' = gaveUp \/ gaveUp' = TRUE
    BY CallerFrame DEF Caller, OpenLog, CloseLog, LeasesGone, TimeOut, JobDone, Shutdown, StopWriter,
                       DrainLane, history
  <2> QED BY <2>1
<1> QED BY <1>1, OneJobStep, FileThereStep, NotAdmittedStep, OkIsTrueStep DEF CallInv

\* At the start no call is in flight.
LEMMA CallInit == Init => TicketsInv /\ CallInv
<1> SUFFICES ASSUME Init PROVE TicketsInv /\ CallInv
  OBVIOUS
<1>1. Jobs = {} /\ Len(jobs) = 0 /\ Len(job) = 0
  BY MembersEmpty DEF Init, Jobs
<1>2. TicketsInv
  BY <1>1 DEF Init, TicketsInv
<1>3. OneJob /\ FileThere /\ NotAdmitted /\ OkIsTrue
  BY <1>1 DEF Init, OneJob, FileThere, NotAdmitted, OkIsTrue
<1> QED BY <1>2, <1>3 DEF CallInv

-----------------------------------------------------------------------------
(* Theorems.                                                               *)

FanoutInv == PlacesInv /\ LanesInv /\ StreamInv /\ ReserveHeld /\ TicketsInv /\ CallInv

\* The inductive invariant of the fan-out holds in every reachable state.
LEMMA FanoutAlways == Spec => []FanoutInv
<1>1. Init => FanoutInv
  BY PlacesInit, LanesInit, StreamInit, ReserveInit, CallInit DEF FanoutInv
<1>2. PlacesInv /\ [Next]_vars => PlacesInv'
  BY PlacesStep, FlagsStep, JobsStep, LanesStep, IdsStep, ReaderAtPlaceStep, LeaseStep, WriterAtPlaceStep
  DEF PlacesInv, Types
<1>3. FanoutInv /\ [Next]_vars => FanoutInv'
  BY <1>2, LanesInvStep, StreamStep, ReserveStep, TicketsStep, CallStep DEF FanoutInv
<1> QED BY <1>1, <1>3, PTL DEF Spec

\* Every reference of a block has one holder and every holder a reference, a block is
\* free exactly when nobody has it, and what the display shares with the log leaves
\* the reserve (rx_block_lane.hpp): for any number of blocks and any reserve.
THEOREM BlocksAreAccounted == Spec => []BlocksAccounted
<1>1. FanoutInv => BlocksAccounted
  <2> SUFFICES ASSUME FanoutInv PROVE BlocksAccounted
    OBVIOUS
  <2> USE DEF FanoutInv
  <2>1. refs \in [Blocks -> 0 .. 2] /\ leases \in 0 .. 1
    <3>1. refs \in [Blocks -> Int] /\ \A b \in Blocks : refs[b] \in 0 .. 2
      <4>1. \A b \in Blocks : Bit(InRawLane(b)) \in {0, 1} /\ Bit(InDisplayLane(b)) \in {0, 1}
        BY DEF Bit
      <4>2. refs \in [Blocks -> Int]
        BY DEF PlacesInv, Types, LanesOK
      <4>3. ASSUME NEW b \in Blocks PROVE refs[b] \in 0 .. 2
        <5>1. refs[b] = Bit(InRawLane(b)) + Bit(InDisplayLane(b))
          BY DEF LanesInv, RefsCounted
        <5> QED BY <5>1, <4>1
      <4> QED BY <4>2, <4>3
    <3> QED BY <3>1 DEF PlacesInv, LeaseExact, Bit
  <2>2. TypeOK
    BY <2>1 DEF TypeOK, PlacesInv, Types, LanesOK, JobsOK, IdsOK, FlagsOK, PlacesOK
  <2> QED BY <2>2, LanesExact, ReserveLemma DEF BlocksAccounted
<1> QED BY <1>1, FanoutAlways, PTL

\* A segment that got a lease is with a thread, on the raw ring, in the file or in the
\* ledger, and none is written where no file is, until a call has given up.
LEMMA LoggedLemma == FanoutInv => LoggedAccounted /\ NoRawWithoutFile
<1> SUFFICES ASSUME FanoutInv PROVE LoggedAccounted /\ NoRawWithoutFile
  OBVIOUS
<1> USE DEF FanoutInv
<1>1. \A id : InLane(id) => id \in Members(Ids(raw)) \cup Members(Ids(held))
  BY StreamTypes, IdsLemma DEF InLane, InRaw
<1>2. LoggedAccounted
  BY <1>1 DEF LoggedAccounted, InTheLane, StreamInv, LoggedSettled, Settled
<1>3. NoRawWithoutFile
  <2>1. writer = "write" => held # <<>>
    BY MembersEmpty DEF PlacesInv, WriterAtPlace
  <2> QED BY <2>1 DEF NoRawWithoutFile, CallInv, FileThere
<1> QED BY <1>2, <1>3

\* The file lane loses nothing in silence, and an OK close has flushed: while no call has
\* given up, the lease is what close waits for and the job what its caller waits for.
THEOREM FileLaneIsLossless == Spec => FileLossless
<1>1. FanoutInv /\ [Next]_vars =>
        [JobDone("ok") /\ ~accepting /\ ~gaveUp => leases = 0 /\ raw = <<>> /\ held = <<>> /\ ~file]_vars
  <2> SUFFICES ASSUME FanoutInv, JobDone("ok"), ~accepting, ~gaveUp
               PROVE  leases = 0 /\ raw = <<>> /\ held = <<>> /\ ~file
    OBVIOUS
  <2>1. leases = 0 /\ ~file
    BY DEF FanoutInv, CallInv, OkIsTrue, JobDone
  <2> QED BY <2>1 DEF FanoutInv, CallInv, FileThere
<1>2. Spec => [][JobDone("ok") /\ ~accepting /\ ~gaveUp =>
                   leases = 0 /\ raw = <<>> /\ held = <<>> /\ ~file]_vars
  BY <1>1, FanoutAlways, PTL DEF Spec
<1>3. Spec => CloseFlushes
  BY <1>2 DEF CloseFlushes
<1>4. Spec => [](LoggedAccounted /\ NoRawWithoutFile)
  BY LoggedLemma, FanoutAlways, PTL
<1> QED BY <1>3, <1>4 DEF FileLossless

\* The entries of the ledger a step adds.
LEMMA NewLemma ==
  ASSUME NEW s \in Seq(Nat), NEW t \in Seq(Nat)
  PROVE  SubSeq(s \o t, Len(s) + 1, Len(s \o t)) = t
<1> DEFINE w == s \o t
           m == Len(s) + 1
           n == Len(w)
           u == SubSeq(w, m, n)
<1>1. /\ w \in Seq(Nat) /\ Len(w) = Len(s) + Len(t)
      /\ \A i \in 1 .. Len(s) + Len(t) : w[i] = IF i <= Len(s) THEN s[i] ELSE t[i - Len(s)]
  BY ConcatProperties
<1> HIDE DEF w
<1>2. Len(s) \in Nat /\ Len(t) \in Nat
  OBVIOUS
<1>3. m \in Int /\ n \in Int /\ n = Len(s) + Len(t) /\ 1 <= m /\ n = Len(w)
  BY <1>1, <1>2
<1>4. n - m + 1 = Len(t) /\ (IF m <= n THEN n - m + 1 ELSE 0) = Len(t)
  BY <1>2, <1>3
<1> HIDE DEF m, n
<1>5. ASSUME NEW i \in m .. n PROVE w[i] \in Nat
  <2>1. i \in 1 .. Len(w)
    BY <1>3
  <2> QED BY <1>1, <2>1
<1>6. /\ u \in Seq(Nat) /\ Len(u) = (IF m <= n THEN n - m + 1 ELSE 0)
      /\ \A i \in 1 .. n - m + 1 : u[i] = w[m + i - 1]
  BY <1>3, <1>5, SubSeqProperties
<1> HIDE DEF u
<1>7. Len(u) = Len(t) /\ \A i \in 1 .. Len(t) : u[i] = w[m + i - 1]
  BY <1>4, <1>6
<1>8. ASSUME NEW i \in 1 .. Len(t) PROVE w[m + i - 1] = t[i]
  <2>1. m + i - 1 = Len(s) + i
    BY <1>2 DEF m
  <2> DEFINE k == Len(s) + i
  <2>2. k \in 1 .. Len(s) + Len(t) /\ ~(k <= Len(s)) /\ k - Len(s) = i
    BY <1>2
  <2> HIDE DEF k
  <2>3. w[k] = IF k <= Len(s) THEN s[k] ELSE t[k - Len(s)]
    BY <1>1, <2>2
  <2>4. w[k] = t[i]
    BY <2>2, <2>3
  <2> QED BY <2>1, <2>4 DEF k
<1>9. \A i \in 1 .. Len(u) : u[i] = t[i]
  BY <1>7, <1>8
<1>10. u = t
  BY <1>6, <1>7, <1>9, SeqEqual
<1> QED BY <1>10 DEF u, w, m, n

\* A step that charges what is new and distinct is one of the stream.
LEMMA ChargeStep ==
  ASSUME FanoutInv, IdsOK', NEW lost \in Seq(Nat), charged' = charged \o lost, UNCHANGED written,
         \A i \in 1 .. Len(lost) : lost[i] \in 1 .. received' \ (Members(charged) \cup Members(written)),
         \A i, j \in 1 .. Len(lost) : lost[i] = lost[j] => i = j,
         received' \in {received, received + 1}
  PROVE  File!Next
<1>1. charged \in Seq(Nat)
  BY DEF FanoutInv, PlacesInv, Types, IdsOK
<1>2. File!NewEntries = lost
  BY <1>1, NewLemma DEF File!NewEntries
<1>3. File!Members(charged) = Members(charged) /\ File!Members(written) = Members(written)
  BY DEF File!Members, Members
<1>4. File!Extends(lost)
  BY <1>3 DEF File!Extends
<1> QED BY <1>2, <1>4 DEF File!Next, File!Receive

\* A step that receives and charges nothing.
LEMMA ChargeNone ==
  ASSUME FanoutInv, IdsOK', charged' = charged, UNCHANGED written, received' = received + 1
  PROVE  File!Next
<1>1. charged \in Seq(Nat)
  BY DEF FanoutInv, PlacesInv, Types, IdsOK
<1>2. charged' = charged \o <<>> /\ Len(<<>>) = 0 /\ <<>> \in Seq(Nat)
  BY <1>1
<1>3. 1 .. Len(<<>>) = {}
  BY <1>2
<1> QED BY <1>2, <1>3, ChargeStep

\* A step that charges one new id.
LEMMA ChargeOne ==
  ASSUME FanoutInv, IdsOK', NEW e \in Nat, charged' = Append(charged, e), UNCHANGED written,
         e \in 1 .. received', e \notin Members(charged) \cup Members(written),
         received' \in {received, received + 1}
  PROVE  File!Next
<1>1. charged \in Seq(Nat)
  BY DEF FanoutInv, PlacesInv, Types, IdsOK
<1>2. Append(charged, e) = charged \o <<e>>
  BY <1>1, AppendIsConcat
<1>3. <<e>> \in Seq(Nat) /\ Len(<<e>>) = 1 /\ <<e>>[1] = e
  OBVIOUS
<1>4. 1 .. Len(<<e>>) = {1}
  BY <1>3
<1>5. /\ \A i \in 1 .. Len(<<e>>) : <<e>>[i] \in 1 .. received' \ (Members(charged) \cup Members(written))
      /\ \A i, j \in 1 .. Len(<<e>>) : <<e>>[i] = <<e>>[j] => i = j
  BY <1>3, <1>4
<1> QED BY <1>2, <1>3, <1>5, ChargeStep

\* Each step of RxFanout is a step of the stream, or leaves it alone.
LEMMA FileStep == FanoutInv /\ FanoutInv' /\ [Next]_vars => [File!Next]_File!vars
<1> SUFFICES ASSUME FanoutInv, FanoutInv', [Next]_vars PROVE [File!Next]_File!vars
  OBVIOUS
<1> USE DEF FanoutInv
<1>0. IdsOK' /\ IdsOK /\ PlacesInv /\ StreamInv
  BY DEF PlacesInv, Types
<1>1. CASE UNCHANGED <<received, written, charged>>
  BY <1>1 DEF File!vars
<1>2. CASE Deliver
  <2>1. received' = received + 1 /\ written' = written
        /\ (charged' = charged \/ charged' = Append(charged, received'))
    BY <1>2 DEF Deliver
  <2>2. CASE charged' = charged
    BY <1>0, <2>1, <2>2, ChargeNone
  <2>3. CASE charged' = Append(charged, received')
    <3>1. received' \in Nat /\ charged \in Seq(Nat)
      BY <1>0 DEF IdsOK
    <3>2. received' \in 1 .. received' /\ received' \notin 1 .. received
      BY <2>1, <1>0 DEF IdsOK
    <3>3. received' \notin Members(charged) \cup Members(written)
      BY <3>2, <1>0 DEF StreamInv, IdsInOrder
    <3> QED BY <1>0, <2>1, <2>3, <3>1, <3>2, <3>3, ChargeOne
  <2> QED BY <2>1, <2>2, <2>3
<1>3. CASE AllocFails
  <2>1. UNCHANGED <<received, written>> /\ reader = "alloc"
        /\ (charged' = charged \/ charged' = Append(charged, received))
    BY <1>3 DEF AllocFails
  <2>2. CASE charged' = charged
    BY <2>1, <2>2 DEF File!vars
  <2>3. CASE charged' = Append(charged, received)
    <3>1. received \in Nat /\ charged \in Seq(Nat) /\ received \in 1 .. received
      BY <1>0, <2>1, StreamTypes DEF IdsOK
    <3>2. received \notin Members(charged) \cup Members(written)
      BY <2>1, <1>0 DEF StreamInv, IdsInOrder, NotYetQueued
    <3> QED BY <1>0, <2>1, <2>3, <3>1, <3>2, ChargeOne
  <2> QED BY <2>1, <2>2, <2>3
<1>4. CASE WriteRaw
  <2>1. /\ writer = "write" /\ written' = Append(written, held[1].id)
        /\ UNCHANGED <<received, charged>>
    BY <1>4 DEF WriteRaw
  <2>2. held[1] \in InRaw
    BY <2>1, HeldOne DEF InRaw
  <2>3. /\ held[1].id \in 1 .. received /\ held[1].id \notin Members(charged)
        /\ \A id \in Members(written) : id < held[1].id
    BY <2>2, <1>0 DEF StreamInv, IdsInOrder
  <2>4. File!Show(held[1].id)
    BY <2>1, <2>3 DEF File!Show, File!Members, Members
  <2> QED BY <2>3, <2>4 DEF File!Next
<1>5. CASE AbandonRaw
  <2>1. /\ writer = "write" /\ charged' = Append(charged, held[1].id)
        /\ UNCHANGED <<received, written>>
    BY <1>5 DEF AbandonRaw
  <2>2. held[1] \in InRaw /\ held[1].id \in Nat /\ Members(held) = {held[1]}
    BY <2>1, HeldOne DEF InRaw
  <2>3. held[1].id \in 1 .. received /\ held[1].id \notin Members(charged) \cup Members(written)
    <3>1. \A id \in Members(written) : id < held[1].id /\ id # held[1].id
      BY <2>2, <1>0, StreamTypes DEF StreamInv, IdsInOrder
    <3> QED BY <2>2, <3>1, <1>0 DEF StreamInv, IdsInOrder
  <2> QED BY <1>0, <2>1, <2>2, <2>3, ChargeOne
<1>6. CASE Stop \/ DrainLane
  <2>1. charged' = charged \o Ids(raw) /\ UNCHANGED <<received, written>>
    BY <1>6 DEF Stop, DrainLane
  <2>2. /\ Ids(raw) \in Seq(Nat) /\ Len(Ids(raw)) = Len(raw)
        /\ \A i \in 1 .. Len(raw) : Ids(raw)[i] = raw[i].id /\ raw[i] \in Members(raw)
    BY StreamTypes, IdsLemma
  <2>3. \A r \in Members(raw) : r.id \in 1 .. received /\ r.id \notin Members(charged) \cup Members(written)
    <3>1. \A id \in Members(written), r \in Members(raw) : id < r.id /\ id # r.id
      BY <1>0, StreamTypes DEF StreamInv, IdsInOrder, InRaw
    <3> QED BY <3>1, <1>0 DEF StreamInv, IdsInOrder, InRaw
  <2>4. ASSUME NEW i \in 1 .. Len(raw), NEW j \in 1 .. Len(raw), Ids(raw)[i] = Ids(raw)[j] PROVE i = j
    <3>1. raw[i].id = raw[j].id /\ raw[i].id \in Nat
      BY <2>2, <2>4, StreamTypes
    <3>2. DOMAIN raw = 1 .. Len(raw)
      BY StreamTypes
    <3>3. i < j => raw[i].id < raw[j].id
      BY <3>2, <1>0 DEF StreamInv, IdsInOrder, Increasing
    <3>4. j < i => raw[j].id < raw[i].id
      BY <3>2, <1>0 DEF StreamInv, IdsInOrder, Increasing
    <3> QED BY <3>1, <3>3, <3>4
  <2>5. \A i \in 1 .. Len(Ids(raw)) : Ids(raw)[i] \in 1 .. received' \ (Members(charged) \cup Members(written))
    BY <2>1, <2>2, <2>3
  <2>6. received' \in {received, received + 1}
    BY <2>1
  <2> QED BY <1>0, <2>1, <2>2, <2>4, <2>5, <2>6, ChargeStep
<1>7. CASE Reader /\ ~Deliver /\ ~AllocFails
  <2>1. UNCHANGED <<received, written, charged>>
    BY <1>7 DEF Reader, Ingress, LeaseRefused, LeaseCounted, LeaseConfirmed, LeaseWithdrawn, Alloc, WaitEnds,
                PushRaw, PushDisplay, WakeLog, Unlease, history
  <2> QED BY <2>1, <1>1
<1>8. CASE Consumes /\ ~WriteRaw /\ ~AbandonRaw /\ ~Stop /\ ~DrainLane
  <2>1. UNCHANGED <<received, written, charged>>
    BY <1>8 DEF Consumes, DisplayReleases, TakeRaw, history
  <2> QED BY <2>1, <1>1
<1> QED BY <1>1, <1>2, <1>3, <1>4, <1>5, <1>6, <1>7, <1>8, LaneFrame DEF history

\* What is in the file is a stream of what was received: in order, each id once, none that
\* was charged, and each loss charged once.
THEOREM FileIsStream == Spec => ImplementsFile
<1>1. Init => File!Init
  BY DEF Init, File!Init
<1>2. Spec => []FanoutInv
  BY FanoutAlways
<1>3. FanoutInv /\ FanoutInv' /\ [Next]_vars => [File!Next]_File!vars
  BY FileStep
<1>4. Spec => File!Spec
  BY <1>1, <1>2, <1>3, PTL DEF Spec, File!Spec
<1> QED BY <1>4 DEF ImplementsFile
===============================================================================
