---------------------------- MODULE FileJobsProofs ----------------------------
(***************************************************************************)
(* RequestsExact, LogExact and FilesWhole hold of FileJobs for any bounds, *)
(* any number of completion objects and payloads of any size.  The         *)
(* invariants say where the two threads are (PlacesInv), who holds what    *)
(* (CountsInv, TicketInv), in which order ids are (OrderInv), where a log  *)
(* byte is (LogInv) and what a temporary file holds (FilesInv).            *)
(***************************************************************************)
EXTENDS FileJobs, FiniteSetTheorems, TLAPS

-----------------------------------------------------------------------------
(* The inductive invariants.                                               *)

\* Values, but for the bounds that follow from the counts.
ControlOK == running \in BOOLEAN /\ stopping \in BOOLEAN /\ accepting \in BOOLEAN /\ final \in BOOLEAN
QueuesOK ==
  /\ jobs \in Seq(Job) /\ job \in Seq(Job) /\ ticket \in Seq(Job) /\ Len(jobs) <= JobBound
  /\ waiters \in [Waiters -> [refs : Int, status : Status \cup {"none"}]]
  /\ completions \in Seq([id : Nat, status : Status])
  /\ blocks \in Int /\ pending \in Int /\ offset \in 0 .. Size /\ calls \in Nat
PlacesOK ==
  /\ writer \in {"loop", "job", "write", "flush", "move", "exited"}
  /\ caller \in {"idle", "wait", "stop", "join", "down"}
FileOK ==
  /\ file \in BOOLEAN /\ stream \in Seq([id : Nat, parts : Seq(Nat)]) /\ Len(stream) <= 1
  /\ DOMAIN temps \subseteq Nat /\ temps \in [DOMAIN temps -> Temp]
  /\ destination \in [bytes : Seq(Nat \X Nat), flushed : BOOLEAN, parts : Seq(Nat)]
LogOK == log \in Seq(Nat \X Nat) /\ admitted \in SUBSET Nat /\ charged \in SUBSET (Nat \X Nat)
Types == ControlOK /\ QueuesOK /\ PlacesOK /\ FileOK /\ LogOK

\* The writer has a job unless it looks for one, and it is the one of its place.
WriterAtPlace ==
  /\ Len(job) = IF writer \in {"loop", "exited"} THEN 0 ELSE 1
  /\ writer \in {"loop", "job", "exited"} => offset = 0
  /\ writer = "write" => job[1].kind \in {"append", "atomic", "add"}
  /\ writer \in {"flush", "move"} => job[1].kind \in {"atomic", "commit"}

\* A writer that was never started has seen nothing.
NothingAsked ==
  /\ jobs = <<>> /\ writer = "loop" /\ stream = <<>> /\ DOMAIN temps = {} /\ ~file
  /\ caller \in {"idle", "down"}

\* The caller waits with its job; it stops the writer last, which leaves nothing behind.
CallerAtPlace ==
  /\ Len(ticket) = IF caller = "wait" THEN 1 ELSE 0
  /\ caller = "idle" => ~final
  /\ calls <= CallBound + 1 /\ (~final => calls <= CallBound)
  /\ stopping => caller \in {"join", "down"}
  /\ caller \in {"stop", "join"} => running
  /\ writer = "exited" => stopping /\ jobs = <<>> /\ ~file /\ stream = <<>>
  /\ ~running => NothingAsked \/ caller = "down"
  /\ caller = "down" => ~running /\ (writer = "exited" \/ NothingAsked)

\* A temporary file is the open stream's or the one of the job in hand.
OpenIds == {stream[i].id : i \in DOMAIN stream}
JobTemps == IF writer \in {"write", "flush", "move"} /\ Working({"atomic"}) THEN {job[1].id} ELSE {}
TempsInv == DOMAIN temps = OpenIds \cup JobTemps /\ OpenIds \cap JobTemps = {}

\* The job in hand that needs the stream has it.
StreamInHand ==
  writer \in {"write", "flush", "move"} /\ Working({"add", "commit"}) => IsOpen(job[1].stream)

PlacesInv == Types /\ WriterAtPlace /\ CallerAtPlace /\ TempsInv /\ StreamInHand

\* How many elements of a queue are in a set, and the sets that are counted.
Count(s, S) == Cardinality({i \in DOMAIN s : s[i] \in S})
Requests == {j \in Job : Async(j)}
Owners == {j \in Job : j.owned}
JobsOf(w) == {j \in Job : j.waiter = w}

\* What each reservation, block and reference stands for; a waiter has one job at most.
Undone(S) == Count(jobs, S) + Count(job, S)
PendingInv == pending = Undone(Requests) + Len(completions) /\ pending <= CompletionBound
BlocksInv == blocks + Undone(Owners) = DataBlocks /\ blocks >= 0
WaitersInv ==
  \A w \in Waiters : /\ waiters[w].refs = Undone(JobsOf(w)) + Count(ticket, JobsOf(w))
                     /\ Undone(JobsOf(w)) <= 1
CountsInv == PendingInv /\ BlocksInv /\ WaitersInv

\* Requests are answered in the order they were made, and so are jobs.
Rising(s) == \A i, k \in DOMAIN s : i < k => s[i].id < s[k].id
OrderInv ==
  /\ Rising(jobs) /\ Rising(completions)
  /\ \A i \in DOMAIN jobs : jobs[i].id <= calls
  /\ \A i \in DOMAIN job : job[i].id <= calls /\ \A k \in DOMAIN jobs : job[i].id < jobs[k].id
  /\ \A i \in DOMAIN completions :
       /\ \A k \in DOMAIN jobs : completions[i].id < jobs[k].id
       /\ \A k \in DOMAIN job : completions[i].id < job[k].id
       /\ completions[i].id <= calls

\* A job that has the waiter of the caller is the caller's.
TicketInv ==
  ticket # <<>> =>
    /\ ticket[1].waiter \in Waiters /\ ticket[1].id <= calls
    /\ \A i \in DOMAIN jobs : jobs[i].waiter = ticket[1].waiter => jobs[i] = ticket[1]
    /\ \A i \in DOMAIN job : job[i].waiter = ticket[1].waiter => job[i] = ticket[1]

\* Each byte admitted is in one place; those to be written come after those that are.
Payload(id) == {<<id, k>> : k \in 1 .. Size}
Owed(s) == UNION {Payload(s[i].id) : i \in {k \in DOMAIN s : s[k].kind = "append"}}
Rest(n) == {<<job[1].id, k>> : k \in n + 1 .. Size}
InHand == IF Working({"append"}) THEN Rest(offset) ELSE {}
Accepted(ids) == UNION {Payload(id) : id \in ids}
AccountInv ==
  /\ Accepted(admitted) = ToSet(log) \cup charged \cup Owed(jobs) \cup InHand
  /\ ToSet(log) \cap charged = {} /\ ToSet(log) \cap (Owed(jobs) \cup InHand) = {}
  /\ charged \cap (Owed(jobs) \cup InHand) = {}
  /\ \A id \in admitted : id <= calls
LogOrderInv ==
  /\ LogInOrder
  /\ \A i \in DOMAIN log : \A b \in Owed(jobs) \cup InHand : Before(log[i], b)

\* A flush or close that was done has every earlier append behind it.
SyncInv ==
  ticket # <<>> /\ ticket[1].kind \in {"flush", "close"} /\ waiters[ticket[1].waiter].status = "ok"
    => \A id \in admitted : id < ticket[1].id => Payload(id) \subseteq ToSet(log) \cup charged
LogInv == AccountInv /\ LogOrderInv /\ SyncInv

\* What is in them: whole parts, but for the one in hand.
Unwritten == IF writer = "write" /\ Working({"add"}) THEN Size - offset ELSE 0
StreamContents ==
  stream # <<>> =>
    /\ Filled(temps[stream[1].id].bytes, stream[1].parts, Size * Len(stream[1].parts) - Unwritten)
    /\ writer = "write" /\ Working({"add"}) =>
         stream[1].parts # <<>> /\ stream[1].parts[Len(stream[1].parts)] = job[1].id
AtomicContents == JobTemps # {} => Filled(temps[job[1].id].bytes, <<job[1].id>>, offset)
BeforeMove ==
  /\ writer \in {"flush", "move"} /\ Working({"atomic"}) => offset = Size
  /\ writer = "move" => temps[Number(job[1])].flushed
ContentsInv == StreamContents /\ AtomicContents /\ BeforeMove
FilesInv == ContentsInv /\ DestinationWhole

-----------------------------------------------------------------------------
(* Queues and counts.                                                      *)

\* A number for a condition.
Bit(P) == IF P THEN 1 ELSE 0

\* What putting an element at the end of a queue does.
LEMMA AppendLemma ==
  ASSUME NEW S, NEW s \in Seq(S), NEW e \in S
  PROVE  /\ Append(s, e) \in Seq(S) /\ Len(s) \in Nat /\ Len(Append(s, e)) = Len(s) + 1
         /\ Append(s, e) # <<>>
         /\ DOMAIN s = 1 .. Len(s) /\ DOMAIN Append(s, e) = DOMAIN s \cup {Len(s) + 1}
         /\ Len(s) + 1 \notin DOMAIN s
         /\ \A i \in DOMAIN s : Append(s, e)[i] = s[i] /\ s[i] \in S /\ i < Len(s) + 1
         /\ Append(s, e)[Len(s) + 1] = e
<1>1. /\ Append(s, e) \in Seq(S) /\ Len(s) \in Nat /\ Len(Append(s, e)) = Len(s) + 1
      /\ DOMAIN s = 1 .. Len(s) /\ DOMAIN Append(s, e) = 1 .. Len(s) + 1
      /\ \A i \in 1 .. Len(s) : Append(s, e)[i] = s[i] /\ s[i] \in S
      /\ Append(s, e)[Len(s) + 1] = e /\ Append(s, e) # <<>>
  OBVIOUS
<1>2. /\ 1 .. Len(s) + 1 = 1 .. Len(s) \cup {Len(s) + 1} /\ Len(s) + 1 \notin 1 .. Len(s)
      /\ \A i \in 1 .. Len(s) : i < Len(s) + 1
  BY <1>1
<1> QED BY <1>1, <1>2

\* What taking the first one does.
LEMMA TailLemma ==
  ASSUME NEW S, NEW s \in Seq(S), s # <<>>
  PROVE  /\ Tail(s) \in Seq(S) /\ Head(s) \in S /\ Head(s) = s[1] /\ 1 \in DOMAIN s
         /\ Len(s) \in Nat \ {0} /\ Len(Tail(s)) = Len(s) - 1
         /\ DOMAIN s = 1 .. Len(s) /\ DOMAIN Tail(s) = 1 .. Len(s) - 1
         /\ \A i \in DOMAIN Tail(s) : i + 1 \in DOMAIN s /\ Tail(s)[i] = s[i + 1]
         /\ \A i \in DOMAIN s : i = 1 \/ i - 1 \in DOMAIN Tail(s)
<1>1. /\ Tail(s) \in Seq(S) /\ Head(s) \in S /\ Len(Tail(s)) = Len(s) - 1
      /\ Len(s) \in Nat \ {0} /\ Head(s) = s[1]
      /\ DOMAIN s = 1 .. Len(s) /\ DOMAIN Tail(s) = 1 .. Len(s) - 1
      /\ \A i \in 1 .. Len(s) - 1 : Tail(s)[i] = s[i + 1] /\ i + 1 \in 1 .. Len(s)
  OBVIOUS
<1>2. \A i \in 1 .. Len(s) : i = 1 \/ i - 1 \in 1 .. Len(s) - 1
  BY <1>1
<1> QED BY <1>1, <1>2

\* A queue of one at most.
LEMMA ShortLemma ==
  ASSUME NEW S, NEW s \in Seq(S)
  PROVE  /\ Len(s) \in Nat /\ (Len(s) = 0 <=> s = <<>>) /\ DOMAIN s = 1 .. Len(s)
         /\ \A i \in DOMAIN s : s[i] \in S
         /\ Len(s) = 1 => s[1] \in S /\ s = <<s[1]>> /\ DOMAIN s = {1} /\ s # <<>>
<1>1. Len(s) \in Nat /\ (Len(s) = 0 <=> s = <<>>) /\ \A i \in 1 .. Len(s) : s[i] \in S
  OBVIOUS
<1>2. DOMAIN s = 1 .. Len(s)
  OBVIOUS
<1>3. ASSUME Len(s) = 1 PROVE s[1] \in S /\ s = <<s[1]>> /\ DOMAIN s = {1} /\ s # <<>>
  <2>1. s[1] \in S /\ 1 .. Len(s) = {1}
    BY <1>1, <1>3
  <2>2. <<s[1]>> \in Seq(S) /\ Len(<<s[1]>>) = 1 /\ <<s[1]>>[1] = s[1]
    BY <2>1
  <2>3. s = <<s[1]>>
    BY <1>3, <2>1, <2>2
  <2> QED BY <1>1, <1>2, <1>3, <2>1, <2>3
<1> QED BY <1>1, <1>2, <1>3

\* A queue of one, and the empty one.
LEMMA OneLemma ==
  ASSUME NEW S, NEW e \in S
  PROVE  <<e>> \in Seq(S) /\ Len(<<e>>) = 1 /\ <<e>>[1] = e /\ DOMAIN <<e>> = {1} /\ <<e>> # <<>>
OBVIOUS

\* The empty queue.
LEMMA EmptyLemma == Len(<<>>) = 0 /\ DOMAIN <<>> = {} /\ \A S : <<>> \in Seq(S)
OBVIOUS

\* A count is a number, at most the length.
LEMMA CountType ==
  ASSUME NEW s \in Seq(Job), NEW S
  PROVE  Count(s, S) \in Nat /\ IsFiniteSet({i \in DOMAIN s : s[i] \in S})
         /\ IsFiniteSet(DOMAIN s)
<1>1. DOMAIN s = 1 .. Len(s) /\ Len(s) \in Nat
  OBVIOUS
<1>2. IsFiniteSet(DOMAIN s)
  BY <1>1, FS_Interval
<1>3. {i \in DOMAIN s : s[i] \in S} \in SUBSET DOMAIN s
  OBVIOUS
<1>4. IsFiniteSet({i \in DOMAIN s : s[i] \in S})
  BY <1>2, <1>3, FS_Subset
<1> QED BY <1>2, <1>4, FS_CardinalityType DEF Count

\* One more when an element of the set is put in.
LEMMA CountAppend ==
  ASSUME NEW s \in Seq(Job), NEW e \in Job, NEW S
  PROVE  Count(Append(s, e), S) = Count(s, S) + Bit(e \in S)
<1> DEFINE A == {i \in DOMAIN s : s[i] \in S}
           B == {i \in DOMAIN Append(s, e) : Append(s, e)[i] \in S}
<1>0. Count(s, S) = Cardinality(A) /\ Count(Append(s, e), S) = Cardinality(B)
  BY DEF Count
<1>1. /\ DOMAIN Append(s, e) = DOMAIN s \cup {Len(s) + 1} /\ Len(s) + 1 \notin DOMAIN s
      /\ \A i \in DOMAIN s : Append(s, e)[i] = s[i]
      /\ Append(s, e)[Len(s) + 1] = e
  BY AppendLemma
<1>2. IsFiniteSet(A) /\ Cardinality(A) \in Nat
  BY CountType, FS_CardinalityType
<1> HIDE DEF A, B
<1>3. CASE e \in S
  <2>1. B = A \cup {Len(s) + 1} /\ Len(s) + 1 \notin A
    BY <1>1, <1>3 DEF A, B
  <2>2. Cardinality(B) = Cardinality(A) + 1
    BY <2>1, <1>2, FS_AddElement
  <2> QED BY <2>2, <1>0, <1>3 DEF Bit
<1>4. CASE e \notin S
  <2>1. B = A
    BY <1>1, <1>4 DEF A, B
  <2> QED BY <2>1, <1>0, <1>2, <1>4 DEF Bit
<1> QED BY <1>3, <1>4

\* One less when one is taken.
LEMMA CountTail ==
  ASSUME NEW s \in Seq(Job), s # <<>>, NEW S
  PROVE  Count(s, S) = Count(Tail(s), S) + Bit(Head(s) \in S)
<1> DEFINE A == {i \in DOMAIN Tail(s) : Tail(s)[i] \in S}
           B == {i \in DOMAIN s : s[i] \in S}
           R == B \ {1}
           shift == [i \in A |-> i + 1]
<1>0. Count(Tail(s), S) = Cardinality(A) /\ Count(s, S) = Cardinality(B)
  BY DEF Count
<1>1. /\ Tail(s) \in Seq(Job) /\ Head(s) = s[1] /\ 1 \in DOMAIN s
      /\ Len(s) \in Nat \ {0}
      /\ DOMAIN s = 1 .. Len(s) /\ DOMAIN Tail(s) = 1 .. Len(s) - 1
      /\ \A i \in DOMAIN Tail(s) : i + 1 \in DOMAIN s /\ Tail(s)[i] = s[i + 1]
      /\ \A i \in DOMAIN s : i = 1 \/ i - 1 \in DOMAIN Tail(s)
  BY TailLemma
<1>2. IsFiniteSet(A) /\ IsFiniteSet(B) /\ IsFiniteSet(R)
  <2>1. IsFiniteSet(A) /\ IsFiniteSet(B)
    BY <1>1, CountType
  <2> HIDE DEF A, B
  <2> QED BY <2>1, FS_RemoveElement
<1>3. shift \in Bijection(A, R)
  <2>1. A \subseteq Nat \ {0} /\ B \subseteq Nat \ {0}
    BY <1>1
  <2>2. \A i \in A : i + 1 \in R
    BY <1>1, <2>1
  <2>3. \A k \in R : k - 1 \in A /\ (k - 1) + 1 = k
    <3>1. SUFFICES ASSUME NEW k \in R PROVE k - 1 \in A /\ (k - 1) + 1 = k
      OBVIOUS
    <3>2. k \in DOMAIN s /\ k # 1 /\ s[k] \in S /\ k \in Nat
      BY <2>1
    <3>3. k - 1 \in DOMAIN Tail(s) /\ (k - 1) + 1 = k
      BY <1>1, <3>2
    <3>4. Tail(s)[k - 1] = s[k]
      BY <1>1, <3>3
    <3> QED BY <3>2, <3>3, <3>4
  <2>4. \A i, k \in A : i + 1 = k + 1 => i = k
    BY <2>1
  <2>5. shift \in [A -> R] /\ \A i \in A : shift[i] = i + 1
    BY <2>2
  <2>6. shift \in Surjection(A, R)
    <3>1. \A k \in R : shift[k - 1] = k /\ k - 1 \in A
      BY <2>3, <2>5
    <3> QED BY <2>5, <3>1 DEF Surjection
  <2>7. shift \in Injection(A, R)
    <3>1. \A i, k \in A : shift[i] = shift[k] => i = k
      BY <2>4, <2>5
    <3>2. shift \in [A -> R]
      BY <2>5
    <3> HIDE DEF shift, A, R
    <3> QED BY <3>1, <3>2 DEF Injection, IsInjective
  <2> QED BY <2>6, <2>7 DEF Bijection
<1>4. Cardinality(R) = Cardinality(A)
  <2> HIDE DEF A, R
  <2>1. ExistsBijection(A, R)
    BY <1>3 DEF ExistsBijection
  <2>2. IsFiniteSet(A)
    BY <1>2
  <2> QED BY <2>1, <2>2, FS_Bijection
<1>5. Cardinality(A) \in Nat /\ Cardinality(B) \in Nat
  BY <1>2, FS_CardinalityType
<1> HIDE DEF A, B
<1>6. CASE Head(s) \in S
  <2>1. 1 \in B
    BY <1>1, <1>6 DEF B
  <2>2. Cardinality(R) = Cardinality(B) - 1
    BY <2>1, <1>2, FS_RemoveElement
  <2> QED BY <2>2, <1>0, <1>4, <1>5, <1>6 DEF Bit
<1>7. CASE Head(s) \notin S
  <2>1. R = B
    BY <1>1, <1>7 DEF B
  <2> HIDE DEF R
  <2> QED BY <2>1, <1>0, <1>4, <1>5, <1>7 DEF Bit
<1> QED BY <1>6, <1>7

\* None in an empty queue.
LEMMA CountEmpty == \A S : Count(<<>>, S) = 0
BY FS_EmptySet DEF Count

\* One or none in a queue of one.
LEMMA CountOne ==
  ASSUME NEW e \in Job, NEW S
  PROVE  Count(<<e>>, S) = Bit(e \in S)
<1>1. Append(<<>>, e) = <<e>> /\ <<>> \in Seq(Job)
  OBVIOUS
<1>2. Count(<<e>>, S) = Count(<<>>, S) + Bit(e \in S)
  BY <1>1, CountAppend
<1> QED BY <1>2, CountEmpty DEF Bit

\* A queue with no element in the set, and one with one.
LEMMA CountZero ==
  ASSUME NEW s \in Seq(Job), NEW S
  PROVE  Count(s, S) = 0 <=> \A i \in DOMAIN s : s[i] \notin S
<1> DEFINE A == {i \in DOMAIN s : s[i] \in S}
<1>1. IsFiniteSet(A)
  BY CountType
<1>2. Cardinality(A) = 0 <=> A = {}
  BY <1>1, FS_EmptySet
<1> QED BY <1>2 DEF Count

\* A queue and the job in hand are counted together.
LEMMA CountLive ==
  ASSUME NEW s \in Seq(Job), NEW t \in Seq(Job), Len(t) <= 1, NEW S
  PROVE  Count(s \o t, S) = Count(s, S) + Count(t, S)
<1>1. Len(t) = 0 \/ Len(t) = 1
  <2> DEFINE n == Len(t)
  <2>1. n \in Nat /\ n <= 1
    BY ShortLemma
  <2> HIDE DEF n
  <2>2. n = 0 \/ n = 1
    BY <2>1
  <2> QED BY <2>2 DEF n
<1>2. Count(s, S) \in Nat
  BY CountType
<1>3. CASE Len(t) = 0
  <2>1. t = <<>>
    BY <1>3, ShortLemma
  <2>2. s \o t = s
    BY <2>1
  <2> QED BY <2>1, <2>2, <1>2, CountEmpty
<1>4. CASE Len(t) = 1
  <2>1. t = <<t[1]>> /\ t[1] \in Job
    BY <1>4, ShortLemma
  <2>2. s \o <<t[1]>> = Append(s, t[1])
    BY <2>1
  <2>3. Count(Append(s, t[1]), S) = Count(s, S) + Bit(t[1] \in S)
    BY <2>1, CountAppend
  <2>4. Count(t, S) = Bit(t[1] \in S)
    BY <2>1, CountOne
  <2>5. s \o t = Append(s, t[1])
    BY <2>1, <2>2
  <2> QED BY <2>3, <2>4, <2>5
<1> QED BY <1>1, <1>3, <1>4

-----------------------------------------------------------------------------
(* What a step does to the queues and the accounts.                        *)

\* The caller queues a job and waits for it, appends, makes a request; or queues nothing.
AskSync(j) ==
  /\ HasRoom /\ jobs' = Append(jobs, j) /\ calls' = calls + 1 /\ j.id = calls + 1
  /\ j.waiter \in IdleWaiters /\ ~j.owned /\ j.kind \in {"open", "flush", "close"}
  /\ waiters' = [waiters EXCEPT ![j.waiter] = [refs |-> 2, status |-> "none"]]
  /\ caller = "idle" /\ ticket' = <<j>>
  /\ UNCHANGED <<blocks, pending, completions, writer, job, offset, storage, admitted, charged>>
AskAppend(j) ==
  /\ HasRoom /\ jobs' = Append(jobs, j) /\ calls' = calls + 1 /\ j.id = calls + 1
  /\ j.waiter = "none" /\ j.owned /\ j.kind = "append"
  /\ blocks > 0 /\ blocks' = blocks - 1 /\ admitted' = admitted \cup {calls + 1}
  /\ UNCHANGED <<waiters, pending, completions, writer, job, offset, storage, charged, ticket>>
AskFile(j) ==
  /\ HasRoom /\ jobs' = Append(jobs, j) /\ calls' = calls + 1 /\ j.id = calls + 1
  /\ j.waiter = "none" /\ Async(j)
  /\ pending < CompletionBound /\ pending' = pending + 1
  /\ (j.owned => blocks > 0) /\ blocks' = IF j.owned THEN blocks - 1 ELSE blocks
  /\ UNCHANGED <<waiters, completions, writer, job, offset, storage, charged, admitted, ticket>>
AskNothing ==
  /\ calls' \in {calls, calls + 1}
  /\ UNCHANGED <<jobs, waiters, blocks, pending, completions, writer, job, offset, storage, ticket>>
  /\ \/ UNCHANGED <<admitted, charged>>
     \/ /\ calls' = calls + 1 /\ admitted' = admitted \cup {calls + 1}
        /\ charged' = charged \cup ToSet(Bytes(calls + 1))
Asks == (\E j \in Job : AskSync(j) \/ AskAppend(j) \/ AskFile(j)) \/ AskNothing

\* The wait of a call ends.
WaitEnds ==
  /\ ticket # <<>> /\ ticket' = <<>>
  /\ waiters' = [waiters EXCEPT ![ticket[1].waiter].refs = @ - 1]
  /\ UNCHANGED <<jobs, blocks, pending, completions, writer, job, offset, storage, calls,
                 admitted, charged>>

\* The writer finishes its job; goes on with it; or leaves the queues alone.
Finishes ==
  \E status \in Status :
    Done(status) /\ Len(job) = 1 /\ (job[1].kind = "append" /\ status = "ok" => offset = Size)
GoesOn == \E pc \in {"write", "flush", "move"} : Goto(pc) /\ offset' = offset /\ Len(job) = 1

\* Every job the caller makes is one.
LEMMA NewJobLemma ==
  ASSUME Types, NEW kind \in Kinds, NEW s \in Nat, NEW w \in Waiters \cup {"none"}, NEW owned \in BOOLEAN
  PROVE  /\ NewJob(kind, s, w, owned) \in Job /\ NewJob(kind, s, w, owned).kind = kind
         /\ NewJob(kind, s, w, owned).id = calls + 1 /\ NewJob(kind, s, w, owned).waiter = w
         /\ NewJob(kind, s, w, owned).owned = owned
<1>1. calls + 1 \in Nat
  BY DEF Types, QueuesOK
<1> QED BY <1>1 DEF NewJob, Job

\* A call that waits queues its job or changes nothing.
LEMMA SyncShape ==
  ASSUME Types, CallerAtPlace, NEW kind \in {"open", "flush", "close"}, SubmitSync(kind), calls' = calls + 1,
         caller = "idle",
         UNCHANGED <<blocks, pending, completions, writer, job, offset, storage, admitted, charged>>
  PROVE  Asks
<1>1. CASE IdleWaiters # {} /\ HasRoom
  <2> DEFINE w == CHOOSE free \in IdleWaiters : TRUE
             j == NewJob(kind, 0, w, FALSE)
  <2>1. w \in IdleWaiters
    BY <1>1
  <2>2. w \in Waiters
    BY <2>1 DEF IdleWaiters
  <2>3. j \in Job /\ j.kind = kind /\ j.id = calls + 1 /\ j.waiter = w /\ j.owned = FALSE
    <3>1. kind \in Kinds /\ w \in Waiters \cup {"none"}
      BY <2>2 DEF Kinds
    <3> HIDE DEF w, j
    <3>2. j = [kind |-> kind, id |-> calls + 1, stream |-> 0, waiter |-> w, owned |-> FALSE]
      BY DEF j, NewJob
    <3>3. calls + 1 \in Nat /\ 0 \in Nat
      BY DEF Types, QueuesOK
    <3> QED BY <3>1, <3>2, <3>3 DEF Job
  <2>4. /\ waiters' = [waiters EXCEPT ![w] = [refs |-> 2, status |-> "none"]]
        /\ jobs' = Append(jobs, j) /\ ticket' = <<j>>
    BY <1>1 DEF SubmitSync
  <2> HIDE DEF w, j
  <2>5. AskSync(j)
    BY <1>1, <2>1, <2>3, <2>4 DEF AskSync
  <2> QED BY <2>3, <2>5 DEF Asks
<1>2. CASE ~(IdleWaiters # {} /\ HasRoom)
  BY <1>2 DEF SubmitSync, Asks, AskNothing
<1> QED BY <1>1, <1>2

\* What the caller does to the queues.
LEMMA CallerShape == Types /\ CallerAtPlace /\ Caller => Asks \/ TakeCompletion \/ WaitEnds
<1> SUFFICES ASSUME Types, CallerAtPlace, Caller PROVE Asks \/ TakeCompletion \/ WaitEnds
  OBVIOUS
<1>1. CASE OpenLog
  <2>1. CASE accepting
    BY <1>1, <2>1 DEF OpenLog, Call, Asks, AskNothing
  <2>2. CASE ~accepting
    BY <1>1, <2>2, SyncShape DEF OpenLog, Call
  <2> QED BY <2>1, <2>2
<1>2. CASE FlushLog
  BY <1>2, SyncShape DEF FlushLog, Call
<1>3. CASE CloseLog
  BY <1>3, SyncShape DEF CloseLog, Call, storage
<1>4. CASE Shutdown
  <2>1. CASE running
    BY <1>4, <2>1, SyncShape DEF Shutdown
  <2>2. CASE ~running
    BY <1>4, <2>2 DEF Shutdown, Asks, AskNothing
  <2> QED BY <2>1, <2>2
<1>5. CASE AppendLog
  <2>1. CASE blocks > 0 /\ HasRoom
    <3> DEFINE j == NewJob("append", 0, "none", TRUE)
    <3>1. j \in Job /\ j.kind = "append" /\ j.id = calls + 1 /\ j.waiter = "none" /\ j.owned
      <4>1. "append" \in Kinds /\ "none" \in Waiters \cup {"none"} /\ TRUE \in BOOLEAN /\ 0 \in Nat
        BY DEF Kinds
      <4>2. calls + 1 \in Nat
        BY DEF Types, QueuesOK
      <4>3. j = [kind |-> "append", id |-> calls + 1, stream |-> 0, waiter |-> "none", owned |-> TRUE]
        BY DEF NewJob
      <4> HIDE DEF j
      <4> QED BY <4>1, <4>2, <4>3 DEF Job
    <3>2. jobs' = Append(jobs, j)
      BY <1>5, <2>1 DEF AppendLog
    <3> HIDE DEF j
    <3>3. AskAppend(j)
      BY <1>5, <2>1, <3>1, <3>2 DEF AppendLog, Call, AskAppend, callerT
    <3> QED BY <3>1, <3>3 DEF Asks
  <2>2. CASE ~(blocks > 0 /\ HasRoom)
    BY <1>5, <2>2 DEF AppendLog, Call, callerT, Asks, AskNothing
  <2> QED BY <2>1, <2>2
<1>6. ASSUME NEW kind \in {"atomic", "begin", "add", "commit", "abort"}, NEW s \in Nat,
             NEW owned \in BOOLEAN, SubmitFile(kind, s, owned)
      PROVE  Asks
  <2>1. CASE pending < CompletionBound /\ HasRoom /\ (owned => blocks > 0)
    <3> DEFINE j == NewJob(kind, s, "none", owned)
    <3>1. j \in Job /\ j.kind = kind /\ j.id = calls + 1 /\ j.waiter = "none" /\ j.owned = owned
      <4>1. kind \in Kinds /\ "none" \in Waiters \cup {"none"}
        BY DEF Kinds
      <4> QED BY <4>1, NewJobLemma
    <3>2. /\ jobs' = Append(jobs, j) /\ pending' = pending + 1
          /\ blocks' = IF owned THEN blocks - 1 ELSE blocks
      BY <1>6, <2>1 DEF SubmitFile
    <3> HIDE DEF j
    <3>3. AskFile(j)
      BY <1>6, <2>1, <3>1, <3>2 DEF SubmitFile, Call, AskFile, callerT, Async
    <3> QED BY <3>1, <3>3 DEF Asks
  <2>2. CASE ~(pending < CompletionBound /\ HasRoom /\ (owned => blocks > 0))
    BY <1>6, <2>2 DEF SubmitFile, Call, callerT, Asks, AskNothing
  <2> QED BY <2>1, <2>2
<1>7. CASE \E owned \in BOOLEAN : SubmitFile("atomic", 0, owned)
  BY <1>6, <1>7
<1>8. CASE \E kind \in {"begin", "add", "commit", "abort"}, s \in StreamIds : SubmitFile(kind, s, FALSE)
  BY <1>6, <1>8, FileJobsAssumption
<1>9. CASE JobDone \/ TimeOut
  <2>1. ticket # <<>>
    <3>1. Len(ticket) = 1 /\ ticket \in Seq(Job)
      BY <1>9 DEF JobDone, TimeOut, CallerAtPlace, Types, QueuesOK
    <3> QED BY <3>1, ShortLemma
  <2> QED BY <1>9, <2>1 DEF JobDone, TimeOut, WaitEnds
<1>10. CASE StopWriter \/ Join
  BY <1>10 DEF StopWriter, Join, Asks, AskNothing
<1> QED BY <1>1, <1>2, <1>3, <1>4, <1>5, <1>7, <1>8, <1>9, <1>10 DEF Caller

\* What the writer does to them.
LEMMA WriterShape == Types /\ WriterAtPlace /\ Writer =>
                       Finishes \/ GoesOn \/ TakeJob \/ Cancel \/ Exit
<1> SUFFICES ASSUME Types, WriterAtPlace, Writer PROVE Finishes \/ GoesOn \/ TakeJob \/ Cancel \/ Exit
  OBVIOUS
<1> USE DEF Types, PlacesOK, WriterAtPlace
<1>0. writer \in {"job", "write", "flush", "move"} => Len(job) = 1
  OBVIOUS
<1>1. \A kinds : Working(kinds) => job[1].kind \in kinds
  BY DEF Working
<1> USE DEF Status
<1>2. CASE RunOpen \/ RunFlush \/ RunClose
  <2>1. Working({"open"}) \/ Working({"flush"}) \/ Working({"close"})
    BY <1>2 DEF RunOpen, RunFlush, RunClose
  <2>2. job[1].kind # "append" /\ Len(job) = 1
    BY <1>0, <1>1, <1>2, <2>1 DEF RunOpen, RunFlush, RunClose
  <2>3. \E status \in Status : Done(status)
    BY <1>2 DEF RunOpen, RunFlush, RunClose
  <2> QED BY <2>2, <2>3 DEF Finishes
<1>3. CASE RunRefused
  <2>1. \E status \in Status : Done(status) /\ (job[1].kind = "append" => status # "ok")
    BY <1>1, <1>3 DEF RunRefused
  <2> QED BY <1>0, <1>3, <2>1 DEF Finishes, RunRefused
<1>4. CASE RunCreate
  <2>1. \/ Done("io")
        \/ Goto("write") /\ offset' = offset
        \/ Done("ok") /\ job[1].kind = "begin"
    BY <1>1, <1>4 DEF RunCreate
  <2> QED BY <1>0, <1>4, <2>1 DEF Finishes, GoesOn, RunCreate
<1>5. CASE RunAppend \/ RunAdd \/ RunCommit
  BY <1>0, <1>5 DEF RunAppend, RunAdd, RunCommit, GoesOn
<1>6. CASE Written
  <2>1. (Goto("flush") /\ offset' = offset) \/ (Done("ok") /\ offset = Size)
    BY <1>6 DEF Written
  <2> QED BY <1>0, <1>6, <2>1 DEF Finishes, GoesOn, Written
<1>7. CASE WriteFails \/ PutFails
  <2>1. Done("io")
    BY <1>7 DEF WriteFails, PutFails
  <2> QED BY <1>0, <1>7, <2>1 DEF Finishes, WriteFails, PutFails
<1>8. CASE MoveTemp \/ RunAbort
  <2>1. Done("ok") /\ job[1].kind # "append"
    BY <1>1, <1>8 DEF MoveTemp, RunAbort
  <2> QED BY <1>0, <1>8, <2>1 DEF Finishes, MoveTemp, RunAbort
<1>9. CASE FlushTemp
  <2>1. offset' = offset
    BY <1>9 DEF FlushTemp
  <2> QED BY <1>0, <1>9, <2>1 DEF FlushTemp, GoesOn
<1> QED BY <1>2, <1>3, <1>4, <1>5, <1>6, <1>7, <1>8, <1>9 DEF Writer

-----------------------------------------------------------------------------
(* Types, and where the threads are.                                       *)

\* The bytes of a payload.
LEMMA BytesLemma ==
  ASSUME NEW id \in Nat
  PROVE  /\ Bytes(id) \in Seq(Nat \X Nat) /\ Len(Bytes(id)) = Size /\ DOMAIN Bytes(id) = 1 .. Size
         /\ \A k \in 1 .. Size : Bytes(id)[k] = <<id, k>>
         /\ ToSet(Bytes(id)) = {<<id, k>> : k \in 1 .. Size}
         /\ ToSet(Bytes(id)) \subseteq Nat \X Nat
<1>1. Size \in Nat /\ Bytes(id) = [k \in 1 .. Size |-> <<id, k>>]
  BY FileJobsAssumption DEF Bytes
<1>2. Bytes(id) \in [1 .. Size -> Nat \X Nat] /\ \A k \in 1 .. Size : Bytes(id)[k] = <<id, k>>
  BY <1>1
<1>3. Bytes(id) \in Seq(Nat \X Nat) /\ Len(Bytes(id)) = Size /\ DOMAIN Bytes(id) = 1 .. Size
  BY <1>1, <1>2
<1>4. ToSet(Bytes(id)) = {<<id, k>> : k \in 1 .. Size}
  BY <1>2, <1>3 DEF ToSet
<1>5. {<<id, k>> : k \in 1 .. Size} \subseteq Nat \X Nat
  BY <1>1
<1> QED BY <1>2, <1>3, <1>4, <1>5

\* One side lets go of a completion object, or writes its answer and lets go.
LEMMA WaiterLemma ==
  ASSUME QueuesOK, NEW w, NEW status \in Status
  PROVE  /\ [waiters EXCEPT ![w].refs = @ - 1]
               \in [Waiters -> [refs : Int, status : Status \cup {"none"}]]
         /\ [waiters EXCEPT ![w] = [refs |-> @.refs - 1, status |-> status]]
               \in [Waiters -> [refs : Int, status : Status \cup {"none"}]]
<1> DEFINE S == [refs : Int, status : Status \cup {"none"}]
           a == [waiters[w] EXCEPT !.refs = @ - 1]
           b == [refs |-> waiters[w].refs - 1, status |-> status]
<1>1. waiters \in [Waiters -> S]
  BY DEF QueuesOK
<1>2. w \in Waiters => a \in S /\ b \in S
  BY <1>1
<1> HIDE DEF S, a, b
<1>3. [waiters EXCEPT ![w] = a] \in [Waiters -> S] /\ [waiters EXCEPT ![w] = b] \in [Waiters -> S]
  BY <1>1, <1>2
<1> QED BY <1>3 DEF S, a, b

\* What finish leaves is of its type.
LEMMA FinishTypes ==
  ASSUME Types, NEW j \in Job, NEW done \in 0 .. Size, NEW status \in Status, Finish(j, done, status)
  PROVE  /\ completions' \in Seq([id : Nat, status : Status]) /\ blocks' \in Int
         /\ waiters' \in [Waiters -> [refs : Int, status : Status \cup {"none"}]]
         /\ charged' \in SUBSET (Nat \X Nat)
<1> USE DEF Types, QueuesOK, LogOK
<1>1. j.id \in Nat /\ j.owned \in BOOLEAN
  BY DEF Job
<1>2. completions' \in Seq([id : Nat, status : Status])
  <2>1. [id |-> j.id, status |-> status] \in [id : Nat, status : Status]
    BY <1>1
  <2> DEFINE S == [id : Nat, status : Status]
             c == [id |-> j.id, status |-> status]
  <2>2. c \in S /\ completions \in Seq(S) /\ completions' = IF Async(j) THEN Append(completions, c) ELSE completions
    BY <2>1 DEF Finish
  <2> HIDE DEF S, c
  <2>3. Append(completions, c) \in Seq(S)
    BY <2>2
  <2> QED BY <2>2, <2>3 DEF S
<1>3. blocks' \in Int
  BY DEF Finish
<1>4. waiters' \in [Waiters -> [refs : Int, status : Status \cup {"none"}]]
  BY WaiterLemma DEF Finish
<1>5. charged' \in SUBSET (Nat \X Nat)
  <2>1. Size \in Nat /\ {<<j.id, k>> : k \in done + 1 .. Size} \subseteq Nat \X Nat
    BY <1>1, FileJobsAssumption
  <2> QED BY <2>1 DEF Finish
<1> QED BY <1>2, <1>3, <1>4, <1>5

\* A step keeps the flags Boolean.
LEMMA ControlStep == Types /\ [Next]_vars => ControlOK'
<1> SUFFICES ASSUME Types, [Next]_vars PROVE ControlOK'
  OBVIOUS
<1> USE DEF Types, ControlOK
<1>1. CASE Caller
  <2>1. CASE OpenLog \/ FlushLog \/ CloseLog \/ AppendLog \/ Shutdown
    BY <2>1 DEF OpenLog, FlushLog, CloseLog, AppendLog, Shutdown, Starts, control, callerT
  <2>2. ASSUME NEW kind, NEW s, NEW owned, SubmitFile(kind, s, owned) PROVE ControlOK'
    BY <2>2 DEF SubmitFile, Starts, callerT
  <2>3. CASE TakeCompletion \/ JobDone \/ TimeOut \/ StopWriter \/ Join
    BY <2>3 DEF TakeCompletion, JobDone, TimeOut, StopWriter, Join, control, callerT
  <2> QED BY <1>1, <2>1, <2>2, <2>3 DEF Caller
<1>2. CASE Writer
  <2>1. CASE TakeJob \/ Cancel \/ Exit
    BY <2>1 DEF TakeJob, Cancel, Exit, control, callerT
  <2>2. CASE RunOpen \/ RunFlush \/ RunClose
    BY <2>2 DEF RunOpen, RunFlush, RunClose, Done, Held, callerT
  <2>3. CASE RunRefused \/ RunCreate
    BY <2>3 DEF RunRefused, RunCreate, Done, Goto, Held, callerT
  <2>4. CASE RunAppend \/ RunAdd \/ RunCommit
    BY <2>4 DEF RunAppend, RunAdd, RunCommit, Goto, Held, callerT
  <2>5. CASE Written \/ WriteFails \/ PutFails
    BY <2>5 DEF Written, WriteFails, PutFails, Done, Goto, Held, callerT
  <2>6. CASE FlushTemp \/ MoveTemp \/ RunAbort
    BY <2>6 DEF FlushTemp, MoveTemp, RunAbort, Done, Goto, Held, callerT
  <2> QED BY <1>2, <2>1, <2>2, <2>3, <2>4, <2>5, <2>6 DEF Writer
<1>3. CASE WriteSome
  BY <1>3 DEF WriteSome, control, callerT
<1>4. CASE UNCHANGED vars
  BY <1>4 DEF vars, control, callerT
<1> QED BY <1>1, <1>2, <1>3, <1>4 DEF Next

\* Both threads stay at the places there are.
LEMMA PlacesStep == Types /\ WriterAtPlace /\ [Next]_vars => PlacesOK'
<1> SUFFICES ASSUME Types, WriterAtPlace, [Next]_vars PROVE PlacesOK'
  OBVIOUS
<1> USE DEF Types, PlacesOK
<1>1. CASE Caller
  <2>1. CASE OpenLog \/ FlushLog \/ CloseLog \/ AppendLog \/ Shutdown
    BY <2>1 DEF OpenLog, FlushLog, CloseLog, AppendLog, Shutdown, SubmitSync, callerT
  <2>2. ASSUME NEW kind, NEW s, NEW owned, SubmitFile(kind, s, owned) PROVE PlacesOK'
    BY <2>2 DEF SubmitFile, callerT
  <2>3. CASE TakeCompletion \/ JobDone \/ TimeOut \/ StopWriter \/ Join
    BY <2>3 DEF TakeCompletion, JobDone, TimeOut, StopWriter, Join, callerT
  <2> QED BY <1>1, <2>1, <2>2, <2>3 DEF Caller
<1>2. CASE Writer
  <2>1. CASE TakeJob \/ Cancel \/ Exit
    BY <2>1 DEF TakeJob, Cancel, Exit, callerT
  <2>2. CASE Finishes \/ GoesOn
    BY <2>2 DEF Finishes, GoesOn, Done, Goto, Held, callerT
  <2> QED BY <1>2, <2>1, <2>2, WriterShape DEF Types
<1>3. CASE WriteSome
  BY <1>3 DEF WriteSome, callerT
<1>4. CASE UNCHANGED vars
  BY <1>4 DEF vars, callerT
<1> QED BY <1>1, <1>2, <1>3, <1>4 DEF Next

\* The queues, the completion objects and the counts stay of their types.
LEMMA QueuesStep == Types /\ WriterAtPlace /\ CallerAtPlace /\ [Next]_vars => QueuesOK'
<1> SUFFICES ASSUME Types, WriterAtPlace, CallerAtPlace, [Next]_vars PROVE QueuesOK'
  OBVIOUS
<1>0. QueuesOK /\ Size \in Nat /\ JobBound \in Nat
  BY FileJobsAssumption DEF Types
<1>1. CASE Asks
  <2>1. ASSUME NEW j \in Job, AskSync(j) PROVE QueuesOK'
    <3>1. j.waiter \in Waiters /\ Append(jobs, j) \in Seq(Job) /\ Len(Append(jobs, j)) = Len(jobs) + 1
          /\ Len(jobs) \in Nat /\ <<j>> \in Seq(Job)
      BY <1>0, <2>1, AppendLemma DEF AskSync, IdleWaiters, QueuesOK
    <3>2. Len(jobs) + 1 <= JobBound
      BY <1>0, <2>1, <3>1 DEF AskSync, HasRoom
    <3>3. waiters' \in [Waiters -> [refs : Int, status : Status \cup {"none"}]]
      BY <1>0, <2>1, <3>1 DEF AskSync, QueuesOK
    <3> QED BY <1>0, <2>1, <3>1, <3>2, <3>3 DEF AskSync, QueuesOK
  <2>2. ASSUME NEW j \in Job, AskAppend(j) \/ AskFile(j) PROVE QueuesOK'
    <3>1. Append(jobs, j) \in Seq(Job) /\ Len(Append(jobs, j)) = Len(jobs) + 1 /\ Len(jobs) \in Nat
      BY <1>0, AppendLemma DEF QueuesOK
    <3>2. Len(jobs) + 1 <= JobBound
      BY <1>0, <2>2, <3>1 DEF AskAppend, AskFile, HasRoom
    <3>3. jobs' \in Seq(Job) /\ Len(jobs') <= JobBound /\ calls' \in Nat /\ blocks' \in Int
          /\ pending' \in Int
      <4>1. blocks' \in {blocks, blocks - 1} /\ pending' \in {pending, pending + 1}
        BY <2>2 DEF AskAppend, AskFile
      <4>2. jobs' = Append(jobs, j) /\ calls' = calls + 1
        BY <2>2 DEF AskAppend, AskFile
      <4> QED BY <1>0, <3>1, <3>2, <4>1, <4>2 DEF QueuesOK
    <3> QED BY <1>0, <2>2, <3>3 DEF AskAppend, AskFile, QueuesOK
  <2>3. CASE AskNothing
    BY <1>0, <2>3 DEF AskNothing, QueuesOK
  <2> QED BY <1>1, <2>1, <2>2, <2>3 DEF Asks
<1>2. CASE TakeCompletion
  <2> DEFINE S == [id : Nat, status : Status]
  <2>1. completions \in Seq(S) /\ completions # <<>>
    BY <1>0, <1>2 DEF TakeCompletion, QueuesOK
  <2> HIDE DEF S
  <2>2. Tail(completions) \in Seq(S)
    BY <2>1
  <2> QED BY <1>0, <1>2, <2>2 DEF TakeCompletion, QueuesOK, callerT, S
<1>3. CASE WaitEnds
  <2>1. waiters' \in [Waiters -> [refs : Int, status : Status \cup {"none"}]]
    <3>1. "ok" \in Status
      BY DEF Status
    <3> QED BY <1>0, <1>3, <3>1, WaiterLemma DEF WaitEnds
  <2>2. ticket' \in Seq(Job)
    BY <1>3, EmptyLemma DEF WaitEnds
  <2> QED BY <1>0, <1>3, <2>1, <2>2 DEF WaitEnds, QueuesOK
<1>4. CASE Finishes
  <2>1. PICK status \in Status : Done(status) /\ Len(job) = 1
    BY <1>4 DEF Finishes
  <2>2. job[1] \in Job /\ offset \in 0 .. Size /\ Finish(job[1], offset, status)
    BY <1>0, <2>1, ShortLemma DEF QueuesOK, Done
  <2>3. /\ completions' \in Seq([id : Nat, status : Status]) /\ blocks' \in Int
        /\ waiters' \in [Waiters -> [refs : Int, status : Status \cup {"none"}]]
    BY <2>2, FinishTypes
  <2>4. job' \in Seq(Job) /\ offset' \in 0 .. Size
    BY <1>0, <2>1, EmptyLemma DEF Done
  <2> QED BY <1>0, <2>1, <2>3, <2>4 DEF Done, Held, callerT, QueuesOK
<1>5. CASE GoesOn
  BY <1>0, <1>5 DEF GoesOn, Goto, Held, callerT, QueuesOK
<1>6. CASE TakeJob
  <2>1. /\ Tail(jobs) \in Seq(Job) /\ Head(jobs) \in Job /\ Len(Tail(jobs)) = Len(jobs) - 1
        /\ Len(jobs) \in Nat
    BY <1>0, <1>6, TailLemma DEF TakeJob, QueuesOK
  <2>2. <<Head(jobs)>> \in Seq(Job)
    BY <2>1, OneLemma
  <2> QED BY <1>0, <1>6, <2>1, <2>2 DEF TakeJob, QueuesOK, callerT
<1>7. CASE Cancel
  <2>1. /\ Tail(jobs) \in Seq(Job) /\ Head(jobs) \in Job /\ Len(Tail(jobs)) = Len(jobs) - 1
        /\ Len(jobs) \in Nat
    BY <1>0, <1>7, TailLemma DEF Cancel, QueuesOK
  <2>2. Finish(Head(jobs), 0, "timeout") /\ 0 \in 0 .. Size /\ "timeout" \in Status
    BY <1>0, <1>7 DEF Cancel, Status
  <2>3. /\ completions' \in Seq([id : Nat, status : Status]) /\ blocks' \in Int
        /\ waiters' \in [Waiters -> [refs : Int, status : Status \cup {"none"}]]
    BY <2>1, <2>2, FinishTypes
  <2> QED BY <1>0, <1>7, <2>1, <2>3 DEF Cancel, QueuesOK, callerT
<1>8. CASE Exit
  BY <1>0, <1>8 DEF Exit, QueuesOK, callerT
<1>9. CASE WriteSome
  BY <1>0, <1>9 DEF WriteSome, QueuesOK, callerT
<1>10. CASE UNCHANGED vars
  BY <1>0, <1>10 DEF vars, QueuesOK, callerT
<1> QED BY <1>1, <1>2, <1>3, <1>4, <1>5, <1>6, <1>7, <1>8, <1>9, <1>10, CallerShape, WriterShape DEF Next


\* Only a write changes the log, and only the writer's steps what is on disk.
LEMMA LogFrame == Caller \/ Writer => log' = log
<1> SUFFICES ASSUME Caller \/ Writer PROVE log' = log
  OBVIOUS
<1>1. CASE Caller
  <2>1. CASE OpenLog \/ FlushLog \/ CloseLog \/ AppendLog \/ Shutdown
    BY <2>1 DEF OpenLog, FlushLog, CloseLog, AppendLog, Shutdown, storage
  <2>2. ASSUME NEW kind, NEW s, NEW owned, SubmitFile(kind, s, owned) PROVE log' = log
    BY <2>2 DEF SubmitFile, storage
  <2>3. CASE TakeCompletion \/ JobDone \/ TimeOut \/ StopWriter \/ Join
    BY <2>3 DEF TakeCompletion, JobDone, TimeOut, StopWriter, Join, storage
  <2> QED BY <1>1, <2>1, <2>2, <2>3 DEF Caller
<1>2. CASE Writer
  <2>1. CASE TakeJob \/ Cancel \/ Exit \/ RunOpen \/ RunFlush \/ RunClose \/ RunRefused
    BY <2>1 DEF TakeJob, Cancel, Exit, RunOpen, RunFlush, RunClose, RunRefused, storage
  <2>2. CASE RunCreate \/ RunAppend \/ RunAdd \/ RunCommit \/ Written \/ WriteFails
    BY <2>2 DEF RunCreate, RunAppend, RunAdd, RunCommit, Written, WriteFails, storage
  <2>3. CASE PutFails \/ FlushTemp \/ MoveTemp \/ RunAbort
    BY <2>3 DEF PutFails, FlushTemp, MoveTemp, RunAbort
  <2> QED BY <1>2, <2>1, <2>2, <2>3 DEF Writer
<1> QED BY <1>1, <1>2

\* The caller touches neither the disk nor the job in hand.
LEMMA CallerStorage == Caller => UNCHANGED <<storage, writer, job, offset>>
<1> SUFFICES ASSUME Caller PROVE UNCHANGED <<storage, writer, job, offset>>
  OBVIOUS
<1>1. CASE OpenLog \/ FlushLog \/ CloseLog \/ AppendLog \/ Shutdown
  BY <1>1 DEF OpenLog, FlushLog, CloseLog, AppendLog, Shutdown
<1>2. ASSUME NEW kind, NEW s, NEW owned, SubmitFile(kind, s, owned)
      PROVE  UNCHANGED <<storage, writer, job, offset>>
  BY <1>2 DEF SubmitFile
<1>3. CASE TakeCompletion \/ JobDone \/ TimeOut \/ StopWriter \/ Join
  BY <1>3 DEF TakeCompletion, JobDone, TimeOut, StopWriter, Join
<1> QED BY <1>1, <1>2, <1>3 DEF Caller

\* A write puts the next bytes of the job at the end of the log or of its file.
Part(n) == SubSeq(Bytes(job[1].id), offset + 1, n)
\* These are as many bytes of its payload as were written, from where it was.
LEMMA PartLemma ==
  ASSUME Types, Len(job) = 1, NEW n \in offset + 1 .. Size
  PROVE  /\ n \in 0 .. Size /\ Part(n) \in Seq(Nat \X Nat) /\ Len(Part(n)) = n - offset
         /\ \A i \in 1 .. n - offset : Part(n)[i] = <<job[1].id, offset + i>>
<1>1. /\ offset \in 0 .. Size /\ Size \in Nat /\ job[1].id \in Nat
  <2>1. job[1] \in Job
    BY ShortLemma DEF Types, QueuesOK
  <2> QED BY <2>1, FileJobsAssumption DEF Types, QueuesOK, Job
<1>2. /\ Bytes(job[1].id) \in Seq(Nat \X Nat) /\ Len(Bytes(job[1].id)) = Size
      /\ \A k \in 1 .. Size : Bytes(job[1].id)[k] = <<job[1].id, k>>
  BY <1>1, BytesLemma
<1>3. n \in 0 .. Size /\ offset + 1 >= 1 /\ n <= Size /\ offset + 1 \in Int /\ n \in Int
  BY <1>1
<1> DEFINE s == Bytes(job[1].id)
<1> HIDE DEF s
<1>4. s \in Seq(Nat \X Nat) /\ Len(s) = Size
  BY <1>2 DEF s
<1>5. /\ SubSeq(s, offset + 1, n) \in Seq(Nat \X Nat) /\ Len(SubSeq(s, offset + 1, n)) = n - offset
      /\ \A i \in 1 .. n - offset : SubSeq(s, offset + 1, n)[i] = s[offset + i]
  BY <1>1, <1>3, <1>4
<1>6. \A i \in 1 .. n - offset : offset + i \in 1 .. Size
  BY <1>1, <1>3
<1> QED BY <1>2, <1>3, <1>5, <1>6 DEF s, Part

\* So a write is one of such a part.
LEMMA WriteShape ==
  ASSUME Types, WriterAtPlace, WriteSome
  PROVE  \E n \in offset + 1 .. Size :
           /\ Len(job) = 1 /\ offset' = n
           /\ IF Working({"append"})
              THEN log' = log \o Part(n) /\ UNCHANGED temps
              ELSE /\ Put(Number(job[1]), [bytes |-> temps[Number(job[1])].bytes \o Part(n),
                                           flushed |-> FALSE])
                   /\ UNCHANGED log
<1>1. Len(job) = 1
  BY DEF WriteSome, WriterAtPlace
<1> QED BY <1>1 DEF WriteSome, Part

\* The log and its accounts stay of their types.
LEMMA LogStep == Types /\ WriterAtPlace /\ CallerAtPlace /\ [Next]_vars => LogOK'
<1> SUFFICES ASSUME Types, WriterAtPlace, CallerAtPlace, [Next]_vars PROVE LogOK'
  OBVIOUS
<1>0. QueuesOK /\ LogOK /\ Size \in Nat /\ calls + 1 \in Nat
  BY FileJobsAssumption DEF Types, QueuesOK
<1>1. CASE Asks /\ Caller
  <2>1. ToSet(Bytes(calls + 1)) \subseteq Nat \X Nat
    BY <1>0, BytesLemma
  <2>2. log' = log
    BY <1>1, LogFrame
  <2>3. admitted' \in SUBSET Nat /\ charged' \in SUBSET (Nat \X Nat)
    BY <1>0, <1>1, <2>1 DEF Asks, AskSync, AskAppend, AskFile, AskNothing, LogOK
  <2> QED BY <1>0, <2>2, <2>3 DEF LogOK
<1>2. CASE (TakeCompletion \/ WaitEnds) /\ Caller
  <2>1. log' = log
    BY <1>2, LogFrame
  <2> QED BY <1>0, <1>2, <2>1 DEF TakeCompletion, WaitEnds, LogOK
<1>3. CASE Writer
  <2>1. log' = log
    BY <1>3, LogFrame
  <2>2. CASE GoesOn \/ TakeJob \/ Exit
    BY <1>0, <2>1, <2>2 DEF GoesOn, Goto, Held, TakeJob, Exit, LogOK
  <2>3. CASE Finishes
    <3>1. PICK status \in Status : Done(status) /\ Len(job) = 1
      BY <2>3 DEF Finishes
    <3>2. job[1] \in Job /\ offset \in 0 .. Size /\ Finish(job[1], offset, status)
      BY <1>0, <3>1, ShortLemma DEF QueuesOK, Done
    <3>3. charged' \in SUBSET (Nat \X Nat)
      BY <3>2, FinishTypes
    <3> QED BY <1>0, <2>1, <3>1, <3>3 DEF Done, Held, LogOK
  <2>4. CASE Cancel
    <3>1. Head(jobs) \in Job
      BY <1>0, <2>4, TailLemma DEF Cancel, QueuesOK
    <3>2. Finish(Head(jobs), 0, "timeout") /\ 0 \in 0 .. Size /\ "timeout" \in Status
      BY <1>0, <2>4 DEF Cancel, Status
    <3>3. charged' \in SUBSET (Nat \X Nat)
      BY <3>1, <3>2, FinishTypes
    <3> QED BY <1>0, <2>1, <2>4, <3>3 DEF Cancel, LogOK
  <2> QED BY <1>3, <2>2, <2>3, <2>4, WriterShape
<1>4. CASE WriteSome
  <2>1. PICK n \in offset + 1 .. Size :
          Len(job) = 1 /\ (log' = log \o Part(n) \/ log' = log)
    BY <1>4, WriteShape
  <2>2. Part(n) \in Seq(Nat \X Nat)
    BY <2>1, PartLemma
  <2> DEFINE S == Nat \X Nat
  <2> HIDE DEF S
  <2>3. log \in Seq(S) /\ Part(n) \in Seq(S)
    BY <1>0, <2>2 DEF LogOK, S
  <2>4. log \o Part(n) \in Seq(S)
    BY <2>3
  <2> QED BY <1>0, <1>4, <2>1, <2>3, <2>4 DEF WriteSome, LogOK, S
<1>5. CASE UNCHANGED vars
  BY <1>0, <1>5 DEF vars, storage, LogOK
<1> QED BY <1>1, <1>2, <1>3, <1>4, <1>5, CallerShape DEF Next

\* What Put and Delete leave are files.
LEMMA PutTypes ==
  ASSUME Types, NEW n \in Nat, NEW t \in Temp, Put(n, t)
  PROVE  /\ DOMAIN temps' = DOMAIN temps \cup {n} /\ temps' \in [DOMAIN temps' -> Temp]
         /\ DOMAIN temps' \subseteq Nat /\ temps'[n] = t
         /\ \A m \in DOMAIN temps \ {n} : temps'[m] = temps[m]
<1>1. DOMAIN temps \subseteq Nat /\ \A m \in DOMAIN temps : temps[m] \in Temp
  BY DEF Types, FileOK
<1>2. temps' = [m \in DOMAIN temps \cup {n} |-> IF m = n THEN t ELSE temps[m]]
  BY DEF Put
<1>3. DOMAIN temps' = DOMAIN temps \cup {n}
  BY <1>2
<1>4. \A m \in DOMAIN temps' : temps'[m] = IF m = n THEN t ELSE temps[m]
  BY <1>2
<1>5. temps' \in [DOMAIN temps \cup {n} -> Temp]
  BY <1>1, <1>2
<1> QED BY <1>1, <1>3, <1>4, <1>5

\* Deleting a file leaves the others.
LEMMA DeleteTypes ==
  ASSUME Types, NEW n, Delete(n)
  PROVE  /\ DOMAIN temps' = DOMAIN temps \ {n} /\ temps' \in [DOMAIN temps' -> Temp]
         /\ DOMAIN temps' \subseteq Nat
         /\ \A m \in DOMAIN temps \ {n} : temps'[m] = temps[m]
<1>1. DOMAIN temps \subseteq Nat /\ \A m \in DOMAIN temps : temps[m] \in Temp
  BY DEF Types, FileOK
<1>2. temps' = [m \in DOMAIN temps \ {n} |-> temps[m]]
  BY DEF Delete
<1>3. DOMAIN temps' = DOMAIN temps \ {n}
  BY <1>2
<1>4. \A m \in DOMAIN temps' : temps'[m] = temps[m]
  BY <1>2
<1>5. temps' \in [DOMAIN temps \ {n} -> Temp]
  BY <1>1, <1>2
<1> QED BY <1>1, <1>3, <1>4, <1>5

\* The stream is one or none.
Streams == [id : Nat, parts : Seq(Nat)]
\* With one, its number is the only open one.
LEMMA StreamLemma ==
  ASSUME NEW s \in Seq(Streams), Len(s) <= 1
  PROVE  /\ s = <<>> => {s[i].id : i \in DOMAIN s} = {}
         /\ s # <<>> => /\ Len(s) = 1 /\ s[1] \in Streams /\ s[1].id \in Nat /\ s[1].parts \in Seq(Nat)
                        /\ {s[i].id : i \in DOMAIN s} = {s[1].id}
<1> DEFINE n == Len(s)
<1>1. n \in Nat /\ (n = 0 <=> s = <<>>) /\ DOMAIN s = 1 .. n /\ n <= 1
  BY ShortLemma
<1> HIDE DEF n
<1>2. n = 0 \/ n = 1
  BY <1>1
<1>3. CASE n = 0
  BY <1>1, <1>3
<1>4. CASE n = 1
  <2>1. Len(s) = 1
    BY <1>4 DEF n
  <2>2. s[1] \in Streams /\ DOMAIN s = {1} /\ s # <<>>
    BY <2>1, ShortLemma
  <2>3. s[1].id \in Nat /\ s[1].parts \in Seq(Nat)
    BY <2>2 DEF Streams
  <2> QED BY <2>1, <2>2, <2>3
<1> QED BY <1>2, <1>3, <1>4

\* The job in hand.
LEMMA JobFacts ==
  ASSUME Types, WriterAtPlace, writer \notin {"loop", "exited"}
  PROVE  /\ job # <<>> /\ Len(job) = 1 /\ job[1] \in Job /\ job[1].id \in Nat /\ job[1].stream \in Nat
         /\ Number(job[1]) \in Nat /\ \A kinds : Working(kinds) <=> job[1].kind \in kinds
<1>1. Len(job) = 1
  BY DEF WriterAtPlace
<1>2. job # <<>> /\ job[1] \in Job
  BY <1>1, ShortLemma DEF Types, QueuesOK
<1>3. job[1].id \in Nat /\ job[1].stream \in Nat
  BY <1>2 DEF Job
<1> QED BY <1>1, <1>2, <1>3 DEF Working, Number

\* The file the job in hand writes is there.
LEMMA TempFacts ==
  ASSUME Types, WriterAtPlace, TempsInv, StreamInHand, writer \in {"write", "flush", "move"},
         ~Working({"append"})
  PROVE  /\ Number(job[1]) \in DOMAIN temps /\ temps[Number(job[1])] \in Temp
         /\ job[1].kind # "atomic" =>
              stream # <<>> /\ Number(job[1]) = stream[1].id /\ OpenIds = {stream[1].id} /\ JobTemps = {}
         /\ job[1].kind = "atomic" =>
              Number(job[1]) = job[1].id /\ JobTemps = {job[1].id} /\ job[1].id \notin OpenIds
<1>1. /\ job # <<>> /\ job[1].kind \in {"atomic", "add", "commit"}
      /\ \A kinds : Working(kinds) <=> job[1].kind \in kinds
  <2>1. \A kinds : Working(kinds) <=> job[1].kind \in kinds
    BY JobFacts
  <2> QED BY <2>1, JobFacts DEF WriterAtPlace
<1>2. CASE job[1].kind = "atomic"
  <2>1. JobTemps = {job[1].id} /\ Number(job[1]) = job[1].id
    BY <1>1, <1>2 DEF JobTemps, Number
  <2>2. job[1].id \in DOMAIN temps /\ job[1].id \notin OpenIds
    BY <2>1 DEF TempsInv
  <2> QED BY <1>2, <2>1, <2>2 DEF Types, FileOK
<1>3. CASE job[1].kind # "atomic"
  <2>1. JobTemps = {} /\ Number(job[1]) = job[1].stream /\ IsOpen(job[1].stream)
    BY <1>1, <1>3 DEF JobTemps, Number, StreamInHand
  <2>2. stream # <<>> /\ stream[1].id = job[1].stream
    BY <2>1 DEF IsOpen
  <2>3. OpenIds = {stream[1].id}
    BY <2>2, StreamLemma DEF Types, FileOK, Streams, OpenIds
  <2>4. stream[1].id \in DOMAIN temps
    BY <2>3 DEF TempsInv
  <2> QED BY <1>3, <2>1, <2>2, <2>3, <2>4 DEF Types, FileOK
<1> QED BY <1>2, <1>3

DiskInv == FileOK /\ TempsInv /\ StreamInHand
TempsFit == temps \in [DOMAIN temps -> Temp] /\ DOMAIN temps \subseteq Nat
RestOK ==
  /\ file \in BOOLEAN /\ stream \in Seq(Streams) /\ Len(stream) <= 1
  /\ destination \in [bytes : Seq(Nat \X Nat), flushed : BOOLEAN, parts : Seq(Nat)]

\* The types of the disk in two parts: the temporary files, and the rest.
LEMMA DiskParts == FileOK <=> RestOK /\ TempsFit
BY DEF FileOK, RestOK, TempsFit, Streams

\* Between two jobs nothing is in hand.
LEMMA AtRest ==
  ASSUME writer' \notin {"write", "flush", "move"}
  PROVE  JobTemps' = {} /\ StreamInHand'
BY DEF JobTemps, StreamInHand

\* Steps that leave the disk alone.
LEMMA DiskSame ==
  ASSUME PlacesInv, Caller \/ TakeJob \/ Cancel \/ RunOpen \/ RunFlush \/ RunClose \/ RunRefused \/ UNCHANGED vars
  PROVE  DiskInv'
<1> USE DEF PlacesInv, DiskInv
<1>0. CASE Caller \/ UNCHANGED vars
  <2>1. UNCHANGED <<storage, writer, job, offset>>
    BY <1>0, CallerStorage DEF vars
  <2> QED BY <2>1 DEF storage, Types, FileOK, TempsInv, OpenIds, JobTemps, StreamInHand, Working, IsOpen
<1>1. CASE ~(Caller \/ UNCHANGED vars)
  <2>1. /\ writer \notin {"write", "flush", "move"} /\ writer' \notin {"write", "flush", "move"}
        /\ UNCHANGED <<stream, temps, destination>>
    <3>1. CASE TakeJob \/ Cancel
      BY <3>1 DEF TakeJob, Cancel, storage
    <3>2. CASE RunOpen \/ RunFlush \/ RunClose
      BY <3>2 DEF RunOpen, RunFlush, RunClose, Done, storage
    <3>3. CASE RunRefused
      BY <3>3 DEF RunRefused, Done, storage
    <3> QED BY <1>1, <3>1, <3>2, <3>3
  <2>2. file' \in BOOLEAN
    <3>1. CASE TakeJob \/ Cancel \/ RunRefused
      BY <3>1 DEF TakeJob, Cancel, RunRefused, storage, Types, FileOK
    <3>2. CASE RunOpen \/ RunFlush \/ RunClose
      BY <3>2 DEF RunOpen, RunFlush, RunClose, storage, Types, FileOK
    <3> QED BY <1>1, <3>1, <3>2
  <2>3. FileOK'
    BY <2>1, <2>2 DEF Types, FileOK
  <2>4. JobTemps = {} /\ JobTemps' = {} /\ OpenIds' = OpenIds /\ StreamInHand'
    BY <2>1, AtRest DEF JobTemps, OpenIds
  <2> QED BY <2>1, <2>3, <2>4 DEF TempsInv
<1> QED BY <1>0, <1>1

\* Steps that go on with a job whose file is there.
LEMMA DiskOn ==
  ASSUME PlacesInv, RunAppend \/ RunCommit \/ RunAdd \/ Written \/ FlushTemp \/ WriteSome
  PROVE  DiskInv'
<1> USE DEF PlacesInv, DiskInv
<1>0. /\ Types /\ WriterAtPlace /\ FileOK /\ RestOK /\ TempsFit /\ TempsInv
      /\ writer \notin {"loop", "exited"}
  BY DiskParts DEF Types, RunAppend, RunCommit, RunAdd, Written, FlushTemp, WriteSome
<1>1. /\ job # <<>> /\ job[1] \in Job /\ \A kinds : Working(kinds) <=> job[1].kind \in kinds
      /\ job[1].id \in Nat /\ job[1].stream \in Nat
  BY <1>0, JobFacts
<1>2. CASE RunAppend
  <2>1. /\ job[1].kind = "append" /\ writer = "job" /\ writer' = "write" /\ job' = job
        /\ UNCHANGED storage
    BY <1>1, <1>2 DEF RunAppend, Goto
  <2>2. JobTemps = {} /\ JobTemps' = {} /\ OpenIds' = OpenIds /\ StreamInHand'
    BY <2>1 DEF JobTemps, OpenIds, StreamInHand, Working, storage
  <2> QED BY <1>0, <2>1, <2>2 DEF storage, FileOK, TempsInv
<1>3. CASE RunCommit
  <2>1. /\ job[1].kind = "commit" /\ writer = "job" /\ writer' = "flush" /\ job' = job
        /\ UNCHANGED storage /\ IsOpen(job[1].stream)
    BY <1>1, <1>3 DEF RunCommit, Goto
  <2>2. JobTemps = {} /\ JobTemps' = {} /\ OpenIds' = OpenIds /\ StreamInHand'
    BY <2>1 DEF JobTemps, OpenIds, StreamInHand, Working, storage, IsOpen
  <2> QED BY <1>0, <2>1, <2>2 DEF storage, FileOK, TempsInv
<1>4. CASE RunAdd
  <2> DEFINE t == [stream[1] EXCEPT !.parts = Append(@, job[1].id)]
  <2>1. /\ job[1].kind = "add" /\ writer = "job" /\ writer' = "write" /\ job' = job
        /\ UNCHANGED <<file, log, temps, destination>> /\ stream # <<>>
        /\ stream[1].id = job[1].stream /\ stream' = <<t>>
    BY <1>1, <1>4 DEF RunAdd, Goto, IsOpen
  <2>2. /\ stream[1] \in Streams /\ stream[1].parts \in Seq(Nat) /\ OpenIds = {stream[1].id}
        /\ stream[1].id \in Nat
    BY <1>0, <2>1, StreamLemma DEF RestOK, OpenIds
  <2>3. t \in Streams /\ t.id = stream[1].id
    <3>1. Append(stream[1].parts, job[1].id) \in Seq(Nat)
      BY <1>1, <2>2, AppendLemma
    <3> QED BY <2>2, <3>1 DEF Streams
  <2> HIDE DEF t
  <2>4. <<t>> \in Seq(Streams) /\ Len(<<t>>) = 1 /\ DOMAIN <<t>> = {1} /\ <<t>>[1] = t /\ <<t>> # <<>>
    BY <2>3, OneLemma
  <2>5. JobTemps = {} /\ JobTemps' = {} /\ OpenIds' = OpenIds /\ StreamInHand'
    <3>1. OpenIds' = {stream[1].id}
      BY <2>1, <2>3, <2>4 DEF OpenIds
    <3> QED BY <2>1, <2>2, <2>3, <2>4, <3>1 DEF JobTemps, StreamInHand, Working, IsOpen
  <2>6. RestOK' /\ TempsFit'
    BY <1>0, <2>1, <2>4 DEF RestOK, TempsFit
  <2>7. FileOK'
    BY <2>6 DEF FileOK, RestOK, TempsFit, Streams
  <2> QED BY <1>0, <2>1, <2>5, <2>7 DEF TempsInv
<1>5. CASE Written
  <2>1. writer = "write" /\ UNCHANGED storage
    BY <1>5 DEF Written
  <2>2. FileOK' /\ OpenIds' = OpenIds
    BY <1>0, <2>1 DEF storage, FileOK, OpenIds
  <2>3. CASE job[1].kind = "atomic"
    <3>1. writer' = "flush" /\ job' = job
      BY <1>1, <1>5, <2>3 DEF Written, Goto
    <3>2. JobTemps' = JobTemps /\ StreamInHand'
      BY <2>1, <2>3, <3>1 DEF JobTemps, StreamInHand, Working
    <3> QED BY <1>0, <2>1, <2>2, <3>2 DEF TempsInv, storage
  <2>4. CASE job[1].kind # "atomic"
    <3>1. writer' = "loop"
      BY <1>1, <1>5, <2>4 DEF Written, Done
    <3>2. JobTemps' = {} /\ StreamInHand'
      BY <3>1, AtRest
    <3>3. JobTemps = {}
      BY <1>1, <2>4 DEF JobTemps
    <3> QED BY <1>0, <2>1, <2>2, <3>2, <3>3 DEF TempsInv, storage
  <2> QED BY <2>3, <2>4
<1>6. CASE FlushTemp \/ (WriteSome /\ job[1].kind # "append")
  <2>1. /\ writer \in {"write", "flush"} /\ writer' \in {"write", "move"} /\ job' = job
        /\ UNCHANGED <<file, stream, destination>>
    BY <1>6 DEF FlushTemp, WriteSome, Goto
  <2>2. /\ Number(job[1]) \in DOMAIN temps /\ temps[Number(job[1])] \in Temp
        /\ Number(job[1]) \in Nat
    <3>1. ~Working({"append"})
      BY <1>0, <1>1, <1>6 DEF FlushTemp, WriterAtPlace
    <3> QED BY <1>0, <2>1, <3>1, TempFacts, JobFacts
  <2>3. \E t \in Temp : Put(Number(job[1]), t)
    <3>1. CASE FlushTemp
      <4>1. [temps[Number(job[1])] EXCEPT !.flushed = TRUE] \in Temp
        BY <2>2 DEF Temp
      <4> QED BY <3>1, <4>1 DEF FlushTemp
    <3>2. CASE WriteSome
      <4>0. ~Working({"append"})
        <5>1. writer = "write"
          BY <3>2 DEF WriteSome
        <5>2. job[1].kind # "append"
          BY <1>6, <5>1 DEF FlushTemp
        <5> QED BY <1>1, <5>2
      <4>1. PICK n \in offset + 1 .. Size :
              /\ Len(job) = 1
              /\ Put(Number(job[1]), [bytes |-> temps[Number(job[1])].bytes \o Part(n), flushed |-> FALSE])
        BY <1>0, <3>2, <4>0, WriteShape
      <4> DEFINE S == Nat \X Nat
                 b == temps[Number(job[1])].bytes
      <4>2. b \in Seq(S)
        BY <2>2 DEF Temp
      <4>3. Part(n) \in Seq(S)
        BY <1>0, <4>1, PartLemma
      <4> HIDE DEF S, b
      <4>4. b \o Part(n) \in Seq(S)
        BY <4>2, <4>3
      <4>5. [bytes |-> b \o Part(n), flushed |-> FALSE] \in Temp
        BY <4>4 DEF Temp, S
      <4> QED BY <4>1, <4>5 DEF b
    <3> QED BY <1>6, <3>1, <3>2
  <2>4. PICK t \in Temp : Put(Number(job[1]), t)
    BY <2>3
  <2>5. DOMAIN temps' = DOMAIN temps /\ TempsFit'
    BY <1>0, <2>2, <2>4, PutTypes DEF TempsFit
  <2>6. OpenIds' = OpenIds /\ JobTemps' = JobTemps /\ StreamInHand'
    BY <2>1 DEF OpenIds, JobTemps, StreamInHand, Working, IsOpen
  <2>7. FileOK'
    BY <1>0, <2>1, <2>5 DEF FileOK, TempsFit
  <2> QED BY <1>0, <2>5, <2>6, <2>7 DEF TempsInv
<1>7. CASE WriteSome /\ job[1].kind = "append"
  <2>1. UNCHANGED <<temps, file, stream, destination, writer, job>>
    BY <1>0, <1>1, <1>7, WriteShape DEF WriteSome
  <2> QED BY <1>0, <2>1 DEF FileOK, TempsInv, OpenIds, JobTemps, StreamInHand, Working, IsOpen
<1> QED BY <1>2, <1>3, <1>4, <1>5, <1>6, <1>7

\* Steps that create a file, replace the destination, or delete a file.
LEMMA DiskCreate ==
  ASSUME PlacesInv, RunCreate
  PROVE  DiskInv'
<1> USE DEF PlacesInv, DiskInv
<1>0. /\ Types /\ WriterAtPlace /\ FileOK /\ RestOK /\ TempsFit /\ TempsInv
      /\ writer = "job" /\ JobTemps = {}
  BY DiskParts DEF Types, RunCreate, JobTemps
<1>1. /\ job # <<>> /\ job[1] \in Job /\ \A kinds : Working(kinds) <=> job[1].kind \in kinds
      /\ job[1].id \in Nat /\ job[1].stream \in Nat /\ Number(job[1]) \in Nat
  BY <1>0, JobFacts
<1>2. UNCHANGED <<file, destination>>
  BY DEF RunCreate
<1>3. CASE Done("io") /\ UNCHANGED <<temps, stream>>
  <2>1. writer' = "loop" /\ UNCHANGED <<temps, stream>>
    BY <1>3 DEF Done
  <2>2. JobTemps' = {} /\ StreamInHand'
    BY <2>1, AtRest
  <2>3. FileOK' /\ OpenIds' = OpenIds
    BY <1>0, <1>2, <2>1 DEF FileOK, OpenIds
  <2> QED BY <1>0, <2>1, <2>2, <2>3 DEF TempsInv
<1>4. CASE ~(Done("io") /\ UNCHANGED <<temps, stream>>)
  <2>1. /\ ~IsOpen(Number(job[1])) /\ Put(Number(job[1]), Empty)
        /\ IF job[1].kind = "atomic"
           THEN Goto("write") /\ UNCHANGED stream
           ELSE Done("ok") /\ stream' = <<[id |-> job[1].stream, parts |-> <<>>]>>
    BY <1>4 DEF RunCreate
  <2>2. Empty \in Temp
    <3> DEFINE S == Nat \X Nat
    <3> HIDE DEF S
    <3>1. <<>> \in Seq(S)
      BY EmptyLemma
    <3> QED BY <3>1 DEF Empty, Temp, S
  <2>3. DOMAIN temps' = DOMAIN temps \cup {Number(job[1])} /\ TempsFit'
    BY <1>0, <1>1, <2>1, <2>2, PutTypes DEF TempsFit
  <2>4. CASE job[1].kind = "atomic"
    <3>1. Number(job[1]) = job[1].id /\ writer' = "write" /\ job' = job /\ stream' = stream
      BY <2>1, <2>4 DEF Number, Goto
    <3>2. JobTemps' = {job[1].id} /\ StreamInHand' /\ OpenIds' = OpenIds
      BY <1>1, <2>4, <3>1 DEF JobTemps, StreamInHand, Working, OpenIds
    <3>3. job[1].id \notin OpenIds
      <4>1. stream = <<>> \/ (stream # <<>> /\ stream[1].id # job[1].id)
        BY <2>1, <3>1 DEF IsOpen
      <4>2. stream = <<>> => OpenIds = {}
        BY <1>0, StreamLemma DEF RestOK, OpenIds
      <4>3. stream # <<>> => OpenIds = {stream[1].id}
        BY <1>0, StreamLemma DEF RestOK, OpenIds
      <4> QED BY <4>1, <4>2, <4>3
    <3>4. FileOK'
      BY <1>0, <1>2, <2>3, <3>1 DEF FileOK, TempsFit
    <3>5. TempsInv'
      BY <1>0, <2>3, <3>1, <3>2, <3>3 DEF TempsInv
    <3> QED BY <3>2, <3>4, <3>5
  <2>5. CASE job[1].kind # "atomic"
    <3> DEFINE t == [id |-> job[1].stream, parts |-> <<>>]
    <3>1. /\ Number(job[1]) = job[1].stream /\ writer' = "loop" /\ stream' = <<t>> /\ stream = <<>>
      BY <1>1, <2>1, <2>5 DEF Number, Done, RunCreate
    <3>2. t \in Streams /\ t.id = job[1].stream
      <4>1. <<>> \in Seq(Nat)
        BY EmptyLemma
      <4> QED BY <1>1, <4>1 DEF Streams
    <3> HIDE DEF t
    <3>3. <<t>> \in Seq(Streams) /\ Len(<<t>>) = 1 /\ DOMAIN <<t>> = {1} /\ <<t>>[1] = t
      BY <3>2, OneLemma
    <3>4. JobTemps' = {} /\ StreamInHand'
      BY <3>1, AtRest
    <3>5. OpenIds = {} /\ OpenIds' = {job[1].stream}
      BY <1>0, <3>1, <3>2, <3>3, StreamLemma DEF RestOK, OpenIds
    <3>6. RestOK'
      BY <1>0, <1>2, <3>1, <3>3 DEF RestOK
    <3>7. FileOK'
      BY <2>3, <3>6 DEF FileOK, RestOK, TempsFit, Streams
    <3> QED BY <1>0, <2>3, <3>1, <3>4, <3>5, <3>7 DEF TempsInv
  <2> QED BY <2>4, <2>5
<1> QED BY <1>3, <1>4

\* The bytes of a temporary file, moved into place.
LEMMA MoveTypes ==
  ASSUME PlacesInv, MoveTemp
  PROVE  destination' \in [bytes : Seq(Nat \X Nat), flushed : BOOLEAN, parts : Seq(Nat)]
<1> USE DEF PlacesInv
<1>0. /\ Types /\ WriterAtPlace /\ RestOK /\ TempsInv /\ StreamInHand /\ writer = "move"
  BY DiskParts DEF Types, MoveTemp
<1>1. /\ job[1].id \in Nat /\ \A kinds : Working(kinds) <=> job[1].kind \in kinds
      /\ job[1].kind \in {"atomic", "commit"}
  BY <1>0, JobFacts DEF WriterAtPlace
<1>2. temps[Number(job[1])] \in Temp
  BY <1>0, <1>1, TempFacts
<1>3. job[1].kind # "atomic" => stream[1].parts \in Seq(Nat)
  <2>1. job[1].kind # "atomic" => stream # <<>>
    BY <1>0, <1>1, TempFacts
  <2> QED BY <1>0, <2>1, StreamLemma DEF RestOK
<1>4. <<job[1].id>> \in Seq(Nat)
  BY <1>1, OneLemma
<1> DEFINE p == IF Working({"atomic"}) THEN <<job[1].id>> ELSE stream[1].parts
           b == temps[Number(job[1])].bytes
           f == temps[Number(job[1])].flushed
<1>5. p \in Seq(Nat)
  BY <1>1, <1>3, <1>4
<1>6. b \in Seq(Nat \X Nat) /\ f \in BOOLEAN
  BY <1>2 DEF Temp
<1>7. destination' = [bytes |-> b, flushed |-> f, parts |-> p]
  BY DEF MoveTemp
<1> HIDE DEF p, b, f
<1> QED BY <1>5, <1>6, <1>7

\* A job that ends after its file was begun: the file goes, and a stream with it.
LEMMA DiskDelete ==
  ASSUME PlacesInv, WriteFails \/ PutFails \/ MoveTemp
  PROVE  DiskInv'
<1> USE DEF PlacesInv, DiskInv
<1>0. /\ Types /\ WriterAtPlace /\ FileOK /\ RestOK /\ TempsFit /\ TempsInv
      /\ writer \in {"write", "flush", "move"}
  BY DiskParts DEF Types, WriteFails, PutFails, MoveTemp
<1>1. /\ \A kinds : Working(kinds) <=> job[1].kind \in kinds
      /\ job[1].kind \in {"append", "atomic", "add", "commit"}
      /\ job[1].kind = "append" => writer = "write"
      /\ job[1].kind = "commit" => writer # "write"
      /\ job[1].kind = "add" => writer = "write"
  BY <1>0, JobFacts DEF WriterAtPlace
<1>2. writer' = "loop" /\ file' = file
  BY DEF WriteFails, PutFails, MoveTemp, Done
<1>3. JobTemps' = {} /\ StreamInHand'
  BY <1>2, AtRest
<1>4. destination' \in [bytes : Seq(Nat \X Nat), flushed : BOOLEAN, parts : Seq(Nat)]
  <2>1. CASE MoveTemp
    BY <2>1, MoveTypes
  <2>2. CASE WriteFails \/ PutFails
    BY <1>0, <2>2 DEF WriteFails, PutFails, RestOK
  <2> QED BY <2>1, <2>2
<1>5. CASE job[1].kind = "append"
  <2>1. UNCHANGED <<stream, temps>>
    BY <1>1, <1>5 DEF WriteFails, PutFails, MoveTemp
  <2>2. JobTemps = {} /\ OpenIds' = OpenIds
    BY <1>1, <1>5, <2>1 DEF JobTemps, OpenIds
  <2>3. FileOK'
    BY <1>0, <1>2, <1>4, <2>1 DEF FileOK
  <2> QED BY <1>0, <1>3, <2>1, <2>2, <2>3 DEF TempsInv
<1>6. CASE job[1].kind = "atomic"
  <2>1. stream' = stream /\ Delete(Number(job[1]))
    BY <1>1, <1>6 DEF WriteFails, PutFails, MoveTemp
  <2>2. Number(job[1]) = job[1].id /\ JobTemps = {job[1].id} /\ job[1].id \notin OpenIds
    BY <1>0, <1>1, <1>6, TempFacts
  <2>3. DOMAIN temps' = DOMAIN temps \ {job[1].id} /\ TempsFit' /\ OpenIds' = OpenIds
    BY <1>0, <2>1, <2>2, DeleteTypes DEF TempsFit, OpenIds
  <2>4. FileOK'
    BY <1>0, <1>2, <1>4, <2>1, <2>3 DEF FileOK, TempsFit
  <2>5. TempsInv'
    BY <1>0, <1>3, <2>2, <2>3 DEF TempsInv
  <2> QED BY <1>3, <2>4, <2>5
<1>7. CASE job[1].kind \in {"add", "commit"}
  <2>1. stream' = <<>> /\ Delete(Number(job[1]))
    BY <1>1, <1>7 DEF WriteFails, PutFails, MoveTemp
  <2>2. Number(job[1]) = stream[1].id /\ JobTemps = {} /\ OpenIds = {stream[1].id}
    BY <1>0, <1>1, <1>7, TempFacts
  <2>3. DOMAIN temps' = DOMAIN temps \ {stream[1].id} /\ TempsFit'
    BY <1>0, <2>1, <2>2, DeleteTypes DEF TempsFit
  <2>4. OpenIds' = {} /\ RestOK'
    <3>1. Len(<<>>) = 0 /\ <<>> \in Seq(Streams) /\ DOMAIN <<>> = {}
      BY EmptyLemma
    <3> QED BY <1>0, <1>2, <1>4, <2>1, <3>1 DEF OpenIds, RestOK
  <2>5. FileOK'
    BY <2>3, <2>4 DEF FileOK, TempsFit, RestOK, Streams
  <2>6. TempsInv'
    BY <1>0, <1>3, <2>2, <2>3, <2>4 DEF TempsInv
  <2> QED BY <1>3, <2>5, <2>6
<1> QED BY <1>1, <1>5, <1>6, <1>7

\* An abort and the end of the thread close the stream and delete its file.
LEMMA DiskClose ==
  ASSUME PlacesInv, RunAbort \/ Exit
  PROVE  DiskInv'
<1> USE DEF PlacesInv, DiskInv
<1>0. /\ Types /\ WriterAtPlace /\ FileOK /\ RestOK /\ TempsFit /\ TempsInv
      /\ writer \in {"loop", "job"} /\ JobTemps = {}
  BY DiskParts DEF Types, RunAbort, Exit, JobTemps
<1>1. writer' \in {"loop", "exited"} /\ file' \in BOOLEAN /\ stream' = <<>> /\ destination' = destination
  BY <1>0 DEF RunAbort, Exit, Done, RestOK
<1>2. JobTemps' = {} /\ StreamInHand'
  BY <1>1, AtRest
<1>3. OpenIds' = {} /\ RestOK'
  <2>1. Len(<<>>) = 0 /\ <<>> \in Seq(Streams) /\ DOMAIN <<>> = {}
    BY EmptyLemma
  <2> QED BY <1>0, <1>1, <2>1 DEF OpenIds, RestOK
<1>4. DOMAIN temps' = {} /\ TempsFit'
  <2>1. CASE stream = <<>>
    <3>1. temps' = temps
      BY <2>1 DEF RunAbort, Exit, IsOpen
    <3>2. OpenIds = {}
      BY <1>0, <2>1, StreamLemma DEF RestOK, OpenIds
    <3> QED BY <1>0, <3>1, <3>2 DEF TempsFit, TempsInv
  <2>2. CASE stream # <<>>
    <3>1. Delete(stream[1].id)
      BY <2>2 DEF RunAbort, Exit, IsOpen
    <3>2. OpenIds = {stream[1].id}
      BY <1>0, <2>2, StreamLemma DEF RestOK, OpenIds
    <3>3. DOMAIN temps' = DOMAIN temps \ {stream[1].id} /\ TempsFit'
      BY <1>0, <3>1, DeleteTypes DEF TempsFit
    <3> QED BY <1>0, <3>2, <3>3 DEF TempsInv
  <2> QED BY <2>1, <2>2
<1>5. FileOK'
  BY <1>3, <1>4 DEF FileOK, TempsFit, RestOK, Streams
<1>6. TempsInv'
  BY <1>2, <1>3, <1>4 DEF TempsInv
<1> QED BY <1>2, <1>5, <1>6

\* Every step keeps the disk in order.
LEMMA DiskStep == PlacesInv /\ [Next]_vars => DiskInv'
BY DiskSame, DiskOn, DiskCreate, DiskDelete, DiskClose DEF Next, Writer

\* The writer's steps leave the caller alone, and only the last one ends the thread.
LEMMA WriterFrame ==
  Writer \/ WriteSome => /\ UNCHANGED <<running, stopping, caller, ticket, final, calls, admitted, pending>>
                         /\ writer' = "exited" => Exit
<1> SUFFICES ASSUME Writer \/ WriteSome
             PROVE  /\ UNCHANGED <<running, stopping, caller, ticket, final, calls, admitted, pending>>
                    /\ writer' = "exited" => Exit
  OBVIOUS
<1> USE DEF callerT, control, Held
<1>1. CASE TakeJob \/ Cancel
  BY <1>1 DEF TakeJob, Cancel
<1>2. CASE Exit
  BY <1>2 DEF Exit
<1>3. CASE RunOpen \/ RunFlush \/ RunClose
  BY <1>3 DEF RunOpen, RunFlush, RunClose, Done
<1>4. CASE RunRefused \/ RunCreate
  BY <1>4 DEF RunRefused, RunCreate, Done, Goto
<1>5. CASE RunAppend \/ RunAdd \/ RunCommit \/ Written
  BY <1>5 DEF RunAppend, RunAdd, RunCommit, Written, Done, Goto
<1>6. CASE WriteFails \/ PutFails \/ FlushTemp
  BY <1>6 DEF WriteFails, PutFails, FlushTemp, Done, Goto
<1>7. CASE MoveTemp \/ RunAbort
  BY <1>7 DEF MoveTemp, RunAbort, Done
<1>8. CASE WriteSome
  BY <1>8 DEF WriteSome
<1> QED BY <1>1, <1>2, <1>3, <1>4, <1>5, <1>6, <1>7, <1>8 DEF Writer

\* The writer has the job of its place after every step.
LEMMA WriterAtPlaceStep == PlacesInv /\ [Next]_vars => WriterAtPlace'
<1> SUFFICES ASSUME PlacesInv, [Next]_vars PROVE WriterAtPlace'
  OBVIOUS
<1>0. Types /\ WriterAtPlace /\ PlacesOK /\ QueuesOK
  BY DEF PlacesInv, Types
<1>1. CASE Caller \/ UNCHANGED vars
  <2>1. UNCHANGED <<writer, job, offset>>
    BY <1>1, CallerStorage DEF vars
  <2> QED BY <1>0, <2>1 DEF WriterAtPlace
<1>2. ASSUME writer' = "loop", job' = <<>>, offset' = 0 PROVE WriterAtPlace'
  BY <1>2, EmptyLemma DEF WriterAtPlace
<1>3. ASSUME Finishes PROVE WriterAtPlace'
  BY <1>2, <1>3 DEF Finishes, Done
<1>4. CASE TakeJob
  <2>1. Len(job') = 1 /\ writer' = "job" /\ offset' = offset /\ writer = "loop"
    <3>1. Head(jobs) \in Job
      BY <1>0, <1>4, TailLemma DEF TakeJob, QueuesOK
    <3> QED BY <1>4, <3>1, OneLemma DEF TakeJob
  <2> QED BY <1>0, <2>1 DEF WriterAtPlace
<1>5. CASE Cancel \/ Exit
  BY <1>0, <1>5 DEF Cancel, Exit, WriterAtPlace
<1>6. CASE WriteSome
  BY <1>0, <1>6 DEF WriteSome, WriterAtPlace
<1>7. ASSUME writer \notin {"loop", "exited"}
      PROVE  Len(job) = 1 /\ \A kinds : Working(kinds) <=> job[1].kind \in kinds
  BY <1>0, <1>7, JobFacts
<1>8. CASE RunOpen \/ RunFlush \/ RunClose
  BY <1>2, <1>8 DEF RunOpen, RunFlush, RunClose, Done
<1>9. CASE RunRefused \/ WriteFails \/ PutFails \/ MoveTemp \/ RunAbort
  BY <1>2, <1>9 DEF RunRefused, WriteFails, PutFails, MoveTemp, RunAbort, Done
<1>10. CASE RunCreate
  <2>1. CASE Done("io") \/ Done("ok")
    BY <1>2, <2>1 DEF Done
  <2>2. CASE ~(Done("io") \/ Done("ok"))
    BY <1>0, <1>7, <1>10, <2>2 DEF RunCreate, Goto, WriterAtPlace
  <2> QED BY <2>1, <2>2
<1>11. CASE RunAppend \/ RunAdd \/ RunCommit \/ FlushTemp
  BY <1>0, <1>7, <1>11 DEF RunAppend, RunAdd, RunCommit, FlushTemp, Goto, WriterAtPlace
<1>12. CASE Written
  <2>1. CASE Done("ok")
    BY <1>2, <2>1 DEF Done
  <2>2. CASE ~Done("ok")
    BY <1>0, <1>7, <1>12, <2>2 DEF Written, Goto, WriterAtPlace
  <2> QED BY <2>1, <2>2
<1> QED BY <1>1, <1>4, <1>5, <1>6, <1>8, <1>9, <1>10, <1>11, <1>12 DEF Next, Writer

\* The writer moves only when it was started.
LEMMA WriterRuns == PlacesInv /\ (Writer \/ WriteSome) => running /\ caller # "down" /\ writer # "exited"
<1> SUFFICES ASSUME PlacesInv, Writer \/ WriteSome PROVE running /\ caller # "down" /\ writer # "exited"
  OBVIOUS
<1> USE DEF PlacesInv, CallerAtPlace, NothingAsked
<1>1. CASE TakeJob \/ Cancel \/ Exit
  BY <1>1 DEF TakeJob, Cancel, Exit
<1>2. CASE ~(TakeJob \/ Cancel \/ Exit)
  <2>1. writer \in {"job", "write", "flush", "move"}
    BY <1>2 DEF Writer, RunOpen, RunFlush, RunClose, RunRefused, RunCreate, RunAppend, RunAdd, RunCommit,
                Written, WriteFails, PutFails, FlushTemp, MoveTemp, RunAbort, WriteSome
  <2> QED BY <2>1 DEF Types, ControlOK
<1> QED BY <1>1, <1>2

\* The caller stays where its flags say, and stops the writer before it is down.
LEMMA CallerAtPlaceStep == PlacesInv /\ [Next]_vars => CallerAtPlace'
<1> SUFFICES ASSUME PlacesInv, [Next]_vars PROVE CallerAtPlace'
  OBVIOUS
<1>0. /\ CallerAtPlace /\ ControlOK /\ PlacesOK /\ QueuesOK /\ CallBound \in Nat /\ calls \in Nat
      /\ Types /\ WriterAtPlace
  BY FileJobsAssumption DEF PlacesInv, Types, QueuesOK
<1>1. ASSUME Writer \/ WriteSome PROVE CallerAtPlace'
  <2>1. /\ UNCHANGED <<running, stopping, caller, ticket, final, calls>>
        /\ running /\ caller # "down" /\ writer # "exited"
    BY <1>1, WriterFrame, WriterRuns
  <2>2. writer' = "exited" => stopping /\ jobs' = <<>> /\ ~file' /\ stream' = <<>>
    BY <1>1, WriterFrame DEF Exit
  <2> QED BY <1>0, <2>1, <2>2 DEF CallerAtPlace
<1>2. ASSUME Caller PROVE UNCHANGED <<writer, file, stream, temps>>
  BY <1>2, CallerStorage DEF storage
<1>3. ASSUME NEW kind, Call \/ Shutdown, SubmitSync(kind), running', UNCHANGED stopping, Caller,
             calls' = calls + 1, final' \/ calls < CallBound
      PROVE  CallerAtPlace'
  <2>1. /\ caller = "idle" /\ ~final /\ calls' <= CallBound + 1 /\ (~final' => calls' <= CallBound) /\ ~stopping
    <3>1. caller = "idle" /\ ~final
      BY <1>3 DEF Call, Shutdown
    <3>2. ~stopping /\ calls <= CallBound
      BY <1>0, <3>1 DEF CallerAtPlace
    <3> QED BY <1>0, <1>3, <3>1, <3>2
  <2>2. /\ caller' = "wait" /\ Len(ticket') = 1
        \/ /\ ticket' = ticket /\ Len(ticket) = 0 /\ caller' = IF final' THEN "stop" ELSE "idle"
    <3>1. CASE IdleWaiters # {} /\ HasRoom
      <4> DEFINE w == CHOOSE free \in IdleWaiters : TRUE
                 j == NewJob(kind, 0, w, FALSE)
      <4>1. caller' = "wait" /\ ticket' = <<j>>
        BY <1>3, <3>1 DEF SubmitSync
      <4> HIDE DEF w, j
      <4> QED BY <4>1, OneLemma
    <3>2. CASE ~(IdleWaiters # {} /\ HasRoom)
      BY <1>0, <1>3, <2>1, <3>2 DEF SubmitSync, CallerAtPlace
    <3> QED BY <3>1, <3>2
  <2>3. final' \in BOOLEAN /\ writer' = writer /\ writer # "exited"
    <3>1. ControlOK'
      BY <1>0, ControlStep
    <3> QED BY <1>0, <1>2, <1>3, <2>1, <3>1 DEF CallerAtPlace, ControlOK
  <2> QED BY <1>0, <1>3, <2>1, <2>2, <2>3 DEF CallerAtPlace
<1>4. CASE OpenLog /\ ~accepting
  BY <1>3, <1>4 DEF OpenLog, Starts, Call, Caller
<1>5. CASE OpenLog /\ accepting
  <2>1. running' /\ UNCHANGED <<stopping, caller, ticket, writer>> /\ calls' = calls + 1 /\ calls < CallBound
        /\ caller = "idle" /\ ~final /\ ~final'
    BY <1>0, <1>2, <1>5 DEF OpenLog, Starts, Call, Caller
  <2> QED BY <1>0, <2>1 DEF CallerAtPlace
<1>6. CASE FlushLog \/ CloseLog
  <2>1. Call /\ UNCHANGED <<running, stopping>> /\ calls' = calls + 1 /\ running
    BY <1>6 DEF FlushLog, CloseLog, Call, control
  <2>3. ~final' /\ Caller
    BY <1>6 DEF FlushLog, CloseLog, Caller
  <2>2. SubmitSync("flush") \/ SubmitSync("close")
    BY <1>6 DEF FlushLog, CloseLog
  <2>4. running' /\ UNCHANGED stopping /\ calls < CallBound
    BY <2>1 DEF Call
  <2>5. ASSUME NEW kind, SubmitSync(kind) PROVE CallerAtPlace'
    BY <1>3, <2>1, <2>3, <2>4, <2>5
  <2> QED BY <2>2, <2>5
<1>7. CASE Shutdown /\ running
  <2>1. Shutdown /\ UNCHANGED <<running, stopping>> /\ calls' = calls + 1 /\ running /\ final'
    BY <1>7 DEF Shutdown
  <2>2. running' /\ UNCHANGED stopping /\ Caller /\ SubmitSync("close")
    <3>1. running' /\ UNCHANGED stopping /\ Caller
      BY <1>7, <2>1 DEF Caller
    <3>2. SubmitSync("close")
      BY <1>7 DEF Shutdown
    <3> QED BY <3>1, <3>2
  <2> QED BY <1>3, <2>1, <2>2
<1>8. CASE Shutdown /\ ~running
  <2>1. /\ UNCHANGED <<running, stopping, jobs, ticket, calls>> /\ caller = "idle" /\ ~final
        /\ caller' = "down" /\ final'
    BY <1>8 DEF Shutdown
  <2>2. UNCHANGED <<writer, file, stream, temps>>
    BY <1>2, <1>8 DEF Caller
  <2> QED BY <1>0, <1>8, <2>1, <2>2 DEF CallerAtPlace, NothingAsked
<1>9. CASE AppendLog
  <2>1. /\ UNCHANGED <<running, stopping, ticket, caller, final, writer>> /\ caller = "idle" /\ ~final
        /\ running /\ calls' = calls + 1 /\ calls < CallBound
    BY <1>2, <1>9 DEF AppendLog, Call, Caller, control, callerT
  <2> QED BY <1>0, <2>1 DEF CallerAtPlace
<1>10. ASSUME NEW kind \in {"atomic", "begin", "add", "commit", "abort"}, NEW s, NEW owned,
              SubmitFile(kind, s, owned), Caller
       PROVE  CallerAtPlace'
  <2>1. /\ UNCHANGED <<stopping, ticket, caller, final, writer>> /\ caller = "idle" /\ ~final
        /\ running' /\ calls' = calls + 1 /\ calls < CallBound
    BY <1>2, <1>10 DEF SubmitFile, Call, Ready, Starts, callerT
  <2> QED BY <1>0, <2>1 DEF CallerAtPlace
<1>11. CASE TakeCompletion
  <2>1. UNCHANGED <<running, stopping, jobs, ticket, caller, final, writer, file, stream, temps, calls>>
    BY <1>11 DEF TakeCompletion, control, callerT, storage
  <2> QED BY <1>0, <2>1 DEF CallerAtPlace, NothingAsked
<1>12. CASE JobDone \/ TimeOut
  <2>1. /\ UNCHANGED <<running, stopping, jobs, final, calls>> /\ caller = "wait"
        /\ caller' = IF final THEN "stop" ELSE "idle"
        /\ ticket' = <<>>
    BY <1>12 DEF JobDone, TimeOut, control
  <2>2. Len(ticket') = 0 /\ UNCHANGED <<writer, file, stream, temps>>
    BY <1>2, <1>12, <2>1, EmptyLemma DEF Caller
  <2>3. running
    BY <1>0, <2>1 DEF CallerAtPlace, NothingAsked, ControlOK
  <2> QED BY <1>0, <2>1, <2>2, <2>3 DEF CallerAtPlace, ControlOK
<1>13. CASE StopWriter
  <2>1. UNCHANGED <<running, jobs, ticket, final, calls, writer, file, stream>> /\ caller = "stop" /\ caller' = "join"
        /\ stopping'
    BY <1>13 DEF StopWriter, storage
  <2> QED BY <1>0, <2>1 DEF CallerAtPlace
<1>14. CASE Join
  <2>1. /\ UNCHANGED <<stopping, jobs, ticket, final, calls, writer, file, stream>> /\ caller = "join"
        /\ caller' = "down" /\ ~running' /\ writer = "exited"
    BY <1>14 DEF Join, storage
  <2> QED BY <1>0, <2>1 DEF CallerAtPlace
<1>15. CASE UNCHANGED vars
  BY <1>0, <1>15 DEF vars, control, callerT, storage, CallerAtPlace, NothingAsked
<1>16. ASSUME Caller PROVE CallerAtPlace'
  <2>1. CASE \E owned \in BOOLEAN : SubmitFile("atomic", 0, owned)
    BY <1>10, <1>16, <2>1
  <2>2. CASE \E kind \in {"begin", "add", "commit", "abort"}, s \in StreamIds : SubmitFile(kind, s, FALSE)
    BY <1>10, <1>16, <2>2
  <2> QED BY <1>4, <1>5, <1>6, <1>7, <1>8, <1>9, <1>11, <1>12, <1>13, <1>14, <1>16, <2>1, <2>2 DEF Caller
<1> QED BY <1>1, <1>15, <1>16 DEF Next

\* The initial state.
LEMMA PlacesInit == Init => PlacesInv
<1> SUFFICES ASSUME Init PROVE PlacesInv
  OBVIOUS
<1> DEFINE N == Nat \X Nat
<1>1. /\ \A S : <<>> \in Seq(S)
      /\ Len(<<>>) = 0 /\ DOMAIN <<>> = {}
  BY EmptyLemma
<1>2. ControlOK /\ PlacesOK
  BY DEF Init, ControlOK, PlacesOK
<1>3. QueuesOK
  <2>1. waiters \in [Waiters -> [refs : Int, status : Status \cup {"none"}]]
    BY DEF Init
  <2>2. JobBound \in Nat /\ DataBlocks \in Int /\ Size \in Nat
    BY FileJobsAssumption
  <2> QED BY <1>1, <2>1, <2>2 DEF Init, QueuesOK
<1>4. FileOK
  <2>1. DOMAIN temps = {}
    BY <1>1 DEF Init
  <2>2. temps \in [DOMAIN temps -> Temp]
    <3>1. temps \in Seq(Temp)
      BY <1>1 DEF Init
    <3> QED BY <3>1
  <2>3. destination \in [bytes : Seq(N), flushed : BOOLEAN, parts : Seq(Nat)]
    <3> HIDE DEF N
    <3> QED BY <1>1 DEF Init
  <2>4. file \in BOOLEAN /\ stream \in Seq([id : Nat, parts : Seq(Nat)]) /\ Len(stream) <= 1
    <3> DEFINE S == [id : Nat, parts : Seq(Nat)]
    <3> HIDE DEF S
    <3>1. stream = <<>> /\ file = FALSE
      BY DEF Init
    <3>2. stream \in Seq(S) /\ Len(stream) <= 1
      BY <1>1, <3>1
    <3> QED BY <3>1, <3>2 DEF S
  <2> QED BY <2>1, <2>2, <2>3, <2>4 DEF FileOK
<1>5. LogOK
  BY <1>1 DEF Init, LogOK
<1>6. WriterAtPlace
  BY <1>1 DEF Init, WriterAtPlace
<1>7. CallerAtPlace
  <2>1. CallBound \in Nat
    BY FileJobsAssumption
  <2> QED BY <1>1, <2>1 DEF Init, CallerAtPlace, NothingAsked
<1>8. TempsInv /\ StreamInHand
  BY <1>1 DEF Init, TempsInv, OpenIds, JobTemps, StreamInHand
<1> QED BY <1>2, <1>3, <1>4, <1>5, <1>6, <1>7, <1>8 DEF PlacesInv, Types

\* Every step keeps PlacesInv.
LEMMA PlacesInvStep == PlacesInv /\ [Next]_vars => PlacesInv'
<1> SUFFICES ASSUME PlacesInv, [Next]_vars PROVE PlacesInv'
  OBVIOUS
<1>1. Types /\ WriterAtPlace /\ CallerAtPlace
  BY DEF PlacesInv
<1>2. ControlOK' /\ PlacesOK' /\ QueuesOK' /\ LogOK'
  BY <1>1, ControlStep, PlacesStep, QueuesStep, LogStep
<1>3. WriterAtPlace' /\ CallerAtPlace' /\ DiskInv'
  BY WriterAtPlaceStep, CallerAtPlaceStep, DiskStep
<1> QED BY <1>2, <1>3 DEF PlacesInv, Types, DiskInv

\* So PlacesInv holds of every behaviour.
LEMMA PlacesAlways == Spec => []PlacesInv
BY PlacesInit, PlacesInvStep, PTL DEF Spec

-----------------------------------------------------------------------------
(* What the reservations, blocks and references stand for.                 *)

\* A job queued is one more to be done; one taken is still to be done; one finished is not.
LEMMA UndoneType ==
  ASSUME PlacesInv, NEW S
  PROVE  Undone(S) \in Nat /\ Count(jobs, S) \in Nat /\ Count(job, S) \in Nat /\ Count(ticket, S) \in Nat
<1>1. jobs \in Seq(Job) /\ job \in Seq(Job) /\ ticket \in Seq(Job)
  BY DEF PlacesInv, Types, QueuesOK
<1>2. Count(jobs, S) \in Nat /\ Count(job, S) \in Nat /\ Count(ticket, S) \in Nat
  BY <1>1, CountType
<1> QED BY <1>2 DEF Undone

\* A job queued is one more to do.
LEMMA UndoneQueued ==
  ASSUME PlacesInv, NEW S, NEW j \in Job, jobs' = Append(jobs, j), job' = job
  PROVE  Count(jobs', S) + Count(job', S) = Undone(S) + Bit(j \in S)
<1>1. jobs \in Seq(Job)
  BY DEF PlacesInv, Types, QueuesOK
<1>2. Count(jobs', S) = Count(jobs, S) + Bit(j \in S)
  BY <1>1, CountAppend
<1>3. Bit(j \in S) \in Int
  BY DEF Bit
<1> QED BY <1>2, <1>3, UndoneType DEF Undone

\* A job taken is still to be done.
LEMMA UndoneTaken ==
  ASSUME PlacesInv, NEW S, TakeJob
  PROVE  Count(jobs', S) + Count(job', S) = Undone(S)
<1>1. jobs \in Seq(Job) /\ jobs # <<>> /\ job \in Seq(Job) /\ Len(job) = 0
  BY DEF PlacesInv, Types, QueuesOK, WriterAtPlace, TakeJob
<1>2. job = <<>> /\ Tail(jobs) \in Seq(Job) /\ Head(jobs) \in Job
  BY <1>1, TailLemma, ShortLemma
<1>3. Count(jobs, S) = Count(Tail(jobs), S) + Bit(Head(jobs) \in S)
  BY <1>1, CountTail
<1>4. Count(job, S) = 0 /\ Count(<<Head(jobs)>>, S) = Bit(Head(jobs) \in S)
  BY <1>2, CountEmpty, CountOne
<1>5. Count(Tail(jobs), S) \in Nat /\ Bit(Head(jobs) \in S) \in Int
  <2>1. Count(Tail(jobs), S) \in Nat
    BY <1>2, CountType
  <2>2. Bit(Head(jobs) \in S) \in Int
    BY DEF Bit
  <2> QED BY <2>1, <2>2
<1>6. jobs' = Tail(jobs) /\ job' = <<Head(jobs)>>
  BY DEF TakeJob
<1> QED BY <1>3, <1>4, <1>5, <1>6, UndoneType DEF Undone

\* A job cancelled is not.
LEMMA UndoneCancelled ==
  ASSUME PlacesInv, NEW S, Cancel
  PROVE  /\ Count(jobs', S) + Count(job', S) = Undone(S) - Bit(Head(jobs) \in S)
         /\ Head(jobs) \in Job
<1>1. jobs \in Seq(Job) /\ jobs # <<>>
  BY DEF PlacesInv, Types, QueuesOK, WriterAtPlace, Cancel
<1>2. Tail(jobs) \in Seq(Job) /\ Head(jobs) \in Job
  BY <1>1, TailLemma
<1>3. Count(jobs, S) = Count(Tail(jobs), S) + Bit(Head(jobs) \in S)
  BY <1>1, CountTail
<1>4. Count(Tail(jobs), S) \in Nat /\ Bit(Head(jobs) \in S) \in Int
  <2>1. Count(Tail(jobs), S) \in Nat
    BY <1>2, CountType
  <2>2. Bit(Head(jobs) \in S) \in Int
    BY DEF Bit
  <2> QED BY <2>1, <2>2
<1>5. jobs' = Tail(jobs) /\ job' = job
  BY DEF Cancel
<1> QED BY <1>2, <1>3, <1>4, <1>5, UndoneType DEF Undone

\* Nor is one that the writer finished.
LEMMA UndoneFinished ==
  ASSUME PlacesInv, NEW S, Len(job) = 1, job' = <<>>, jobs' = jobs
  PROVE  /\ Count(jobs', S) + Count(job', S) = Undone(S) - Bit(job[1] \in S)
         /\ job[1] \in Job
<1>1. job \in Seq(Job)
  BY DEF PlacesInv, Types, QueuesOK
<1>2. job = <<job[1]>> /\ job[1] \in Job
  BY <1>1, ShortLemma
<1>3. Count(job, S) = Bit(job[1] \in S)
  BY <1>2, CountOne
<1>4. Count(job', S) = 0 /\ Bit(job[1] \in S) \in Int
  BY CountEmpty DEF Bit
<1> QED BY <1>2, <1>3, <1>4, UndoneType DEF Undone

\* finish gives back what the job held, once.
LEMMA FinishCounts ==
  ASSUME PlacesInv, CountsInv, NEW j \in Job, NEW done, NEW status \in Status, Finish(j, done, status),
         \A S : Count(jobs', S) + Count(job', S) = Undone(S) - Bit(j \in S),
         UNCHANGED <<pending, ticket>>
  PROVE  CountsInv'
<1> USE DEF PlacesInv, Types
<1>0. /\ Bit(j \in Requests) = Bit(Async(j)) /\ Bit(j \in Owners) = Bit(j.owned)
      /\ \A w : Bit(j \in JobsOf(w)) = Bit(j.waiter = w)
  BY DEF Requests, Owners, JobsOf, Bit
<1>1. Undone(Requests) \in Nat /\ Undone(Owners) \in Nat
  BY UndoneType
<1>2. PendingInv'
  <2> DEFINE S == [id : Nat, status : Status]
             c == [id |-> j.id, status |-> status]
  <2>1. completions \in Seq(S) /\ c \in S
    BY DEF QueuesOK, Job
  <2>2. completions' = IF Async(j) THEN Append(completions, c) ELSE completions
    BY DEF Finish
  <2> HIDE DEF S, c
  <2>3. Len(completions) \in Nat /\ Len(Append(completions, c)) = Len(completions) + 1
    BY <2>1, AppendLemma
  <2>4. Len(completions') = Len(completions) + Bit(Async(j))
    BY <2>2, <2>3 DEF Bit
  <2>5. Count(jobs', Requests) + Count(job', Requests) = Undone(Requests) - Bit(Async(j))
    BY <1>0
  <2>6. Bit(Async(j)) \in Int
    BY DEF Bit
  <2> QED BY <1>1, <2>3, <2>4, <2>5, <2>6 DEF CountsInv, PendingInv, Undone
<1>3. BlocksInv'
  <2>1. Count(jobs', Owners) + Count(job', Owners) = Undone(Owners) - Bit(j.owned)
    BY <1>0
  <2>2. blocks' = blocks + Bit(j.owned) /\ blocks \in Int /\ DataBlocks \in Int
    BY FileJobsAssumption DEF Finish, Bit, QueuesOK
  <2>3. Bit(j.owned) \in {0, 1}
    BY DEF Bit
  <2> QED BY <1>1, <2>1, <2>2, <2>3 DEF CountsInv, BlocksInv, Undone
<1>4. ASSUME NEW w \in Waiters
      PROVE  /\ waiters'[w].refs = Count(jobs', JobsOf(w)) + Count(job', JobsOf(w)) + Count(ticket', JobsOf(w))
             /\ Count(jobs', JobsOf(w)) + Count(job', JobsOf(w)) <= 1
  <2>1. Count(jobs', JobsOf(w)) + Count(job', JobsOf(w)) = Undone(JobsOf(w)) - Bit(j.waiter = w)
    BY <1>0
  <2>2. waiters'[w].refs = waiters[w].refs - Bit(j.waiter = w)
    <3>1. waiters \in [Waiters -> [refs : Int, status : Status \cup {"none"}]] /\ "none" \notin Waiters
      BY FileJobsAssumption DEF QueuesOK
    <3>2. CASE j.waiter = w
      BY <3>1, <3>2 DEF Finish, Bit
    <3>3. CASE j.waiter # w
      BY <3>1, <3>3 DEF Finish, Bit
    <3> QED BY <3>2, <3>3
  <2>3. Bit(j.waiter = w) \in {0, 1} /\ Undone(JobsOf(w)) \in Nat /\ Count(ticket, JobsOf(w)) \in Nat
    BY UndoneType DEF Bit
  <2>4. /\ waiters[w].refs = Undone(JobsOf(w)) + Count(ticket, JobsOf(w))
        /\ Undone(JobsOf(w)) <= 1
    BY DEF CountsInv, WaitersInv
  <2> QED BY <2>1, <2>2, <2>3, <2>4
<1> QED BY <1>2, <1>3, <1>4 DEF CountsInv, WaitersInv, Undone

\* Every step keeps the counts.
LEMMA CountsStep == PlacesInv /\ CountsInv /\ [Next]_vars => CountsInv'
<1> SUFFICES ASSUME PlacesInv, CountsInv, [Next]_vars PROVE CountsInv'
  OBVIOUS
<1>0. /\ QueuesOK /\ Types /\ WriterAtPlace /\ CallerAtPlace /\ CompletionBound \in Nat
      /\ "none" \notin Waiters
  BY FileJobsAssumption DEF PlacesInv, Types
<1>1. ASSUME UNCHANGED <<jobs, job, blocks, waiters, pending, completions, ticket>> PROVE CountsInv'
  BY <1>1 DEF CountsInv, PendingInv, BlocksInv, WaitersInv, Undone
<1>2. ASSUME NEW j \in Job, AskSync(j) PROVE CountsInv'
  <2>1. /\ jobs' = Append(jobs, j) /\ UNCHANGED <<job, blocks, pending, completions>>
        /\ ~(j \in Requests) /\ ~(j \in Owners)
        /\ j.waiter \in Waiters /\ waiters[j.waiter].refs = 0
    BY <1>2 DEF AskSync, IdleWaiters, Requests, Owners, Async
  <2>2. /\ Count(jobs', Requests) + Count(job', Requests) = Undone(Requests)
        /\ Count(jobs', Owners) + Count(job', Owners) = Undone(Owners)
    <3>1. Bit(j \in Requests) = 0 /\ Bit(j \in Owners) = 0
      BY <2>1 DEF Bit
    <3> QED BY <2>1, <3>1, UndoneQueued, UndoneType
  <2>3. PendingInv' /\ BlocksInv'
    BY <2>1, <2>2 DEF CountsInv, PendingInv, BlocksInv, Undone
  <2>4. ASSUME NEW w \in Waiters
        PROVE  /\ waiters'[w].refs = Count(jobs', JobsOf(w)) + Count(job', JobsOf(w)) + Count(ticket', JobsOf(w))
               /\ Count(jobs', JobsOf(w)) + Count(job', JobsOf(w)) <= 1
    <3>1. Count(jobs', JobsOf(w)) + Count(job', JobsOf(w)) = Undone(JobsOf(w)) + Bit(j \in JobsOf(w))
      BY <2>1, UndoneQueued
    <3>2. ticket = <<>> /\ ticket' = <<j>>
      BY <1>0, <1>2, ShortLemma DEF AskSync, CallerAtPlace, QueuesOK
    <3>3. Count(ticket, JobsOf(w)) = 0 /\ Count(ticket', JobsOf(w)) = Bit(j \in JobsOf(w))
      BY <3>2, CountEmpty, CountOne
    <3>4. /\ Undone(JobsOf(w)) \in Nat /\ waiters[w].refs = Undone(JobsOf(w)) + Count(ticket, JobsOf(w))
          /\ Undone(JobsOf(w)) <= 1
      BY UndoneType DEF CountsInv, WaitersInv
    <3>5. waiters' = [waiters EXCEPT ![j.waiter] = [refs |-> 2, status |-> "none"]]
      BY <1>2 DEF AskSync
    <3>6. CASE j.waiter = w
      <4>1. Bit(j \in JobsOf(w)) = 1
        BY <3>6 DEF JobsOf, Bit
      <4>2. waiters'[w].refs = 2 /\ waiters[w].refs = 0
        BY <1>0, <2>1, <3>5, <3>6 DEF QueuesOK
      <4> QED BY <3>1, <3>3, <3>4, <4>1, <4>2
    <3>7. CASE j.waiter # w
      <4>1. Bit(j \in JobsOf(w)) = 0
        BY <3>7 DEF JobsOf, Bit
      <4>2. waiters'[w] = waiters[w]
        BY <1>0, <2>1, <3>5, <3>7 DEF QueuesOK
      <4> QED BY <3>1, <3>3, <3>4, <4>1, <4>2
    <3> QED BY <3>6, <3>7
  <2> QED BY <2>3, <2>4 DEF CountsInv, WaitersInv, Undone
<1>3. ASSUME NEW j \in Job, AskAppend(j) \/ AskFile(j) PROVE CountsInv'
  <2>1. /\ jobs' = Append(jobs, j) /\ UNCHANGED <<job, completions, waiters, ticket>>
        /\ j.waiter = "none"
    BY <1>3 DEF AskAppend, AskFile
  <2>2. \A S : Count(jobs', S) + Count(job', S) = Undone(S) + Bit(j \in S)
    BY <2>1, UndoneQueued
  <2>3. Undone(Requests) \in Nat /\ Undone(Owners) \in Nat
    BY UndoneType
  <2>4. PendingInv'
    <3>1. pending' = pending + Bit(j \in Requests) /\ pending' <= CompletionBound
      <4>1. CASE AskAppend(j)
        BY <1>0, <4>1 DEF AskAppend, Requests, Async, Bit, CountsInv, PendingInv, QueuesOK
      <4>2. CASE AskFile(j)
        BY <1>0, <4>2 DEF AskFile, Requests, Bit, QueuesOK
      <4> QED BY <1>3, <4>1, <4>2
    <3>2. Bit(j \in Requests) \in Int /\ Len(completions) \in Nat
      BY <1>0 DEF Bit, QueuesOK
    <3> QED BY <1>0, <2>1, <2>2, <2>3, <3>1, <3>2 DEF CountsInv, PendingInv, Undone
  <2>5. BlocksInv'
    <3>1. blocks' = blocks - Bit(j \in Owners) /\ blocks' >= 0
      BY <1>0, <1>3 DEF AskAppend, AskFile, Owners, Bit, QueuesOK, CountsInv, BlocksInv
    <3>2. Bit(j \in Owners) \in Int /\ blocks \in Int
      BY <1>0 DEF Bit, QueuesOK
    <3> QED BY <2>2, <2>3, <3>1, <3>2 DEF CountsInv, BlocksInv, Undone
  <2>6. \A w \in Waiters : Count(jobs', JobsOf(w)) + Count(job', JobsOf(w)) = Undone(JobsOf(w))
    <3>1. \A w \in Waiters : Bit(j \in JobsOf(w)) = 0
      BY <1>0, <2>1 DEF JobsOf, Bit
    <3> QED BY <2>2, <3>1, UndoneType
  <2>7. WaitersInv'
    BY <2>1, <2>6 DEF CountsInv, WaitersInv, Undone
  <2> QED BY <2>4, <2>5, <2>7 DEF CountsInv
<1>4. CASE Asks
  <2>1. CASE AskNothing
    BY <1>1, <2>1 DEF AskNothing
  <2> QED BY <1>2, <1>3, <1>4, <2>1 DEF Asks
<1>5. CASE TakeCompletion
  <2>1. UNCHANGED <<jobs, job, blocks, waiters, ticket>> /\ pending' = pending - 1
    BY <1>5 DEF TakeCompletion, callerT
  <2>2. Len(completions') = Len(completions) - 1 /\ Len(completions) \in Nat
    <3> DEFINE S == [id : Nat, status : Status]
    <3>1. completions \in Seq(S) /\ completions # <<>> /\ completions' = Tail(completions)
      BY <1>0, <1>5 DEF TakeCompletion, QueuesOK
    <3> HIDE DEF S
    <3> QED BY <3>1, TailLemma
  <2>3. Undone(Requests) \in Nat
    BY UndoneType
  <2> QED BY <1>0, <2>1, <2>2, <2>3 DEF CountsInv, PendingInv, BlocksInv, WaitersInv, Undone
<1>6. CASE WaitEnds
  <2>1. /\ UNCHANGED <<jobs, job, blocks, pending, completions>> /\ ticket' = <<>> /\ ticket # <<>>
        /\ waiters' = [waiters EXCEPT ![ticket[1].waiter].refs = @ - 1]
    BY <1>6 DEF WaitEnds
  <2>2. ticket = <<ticket[1]>> /\ ticket[1] \in Job
    <3>1. Len(ticket) = 1
      BY <1>0, <2>1, ShortLemma DEF CallerAtPlace, QueuesOK
    <3> QED BY <1>0, <3>1, ShortLemma DEF QueuesOK
  <2> DEFINE v == ticket[1].waiter
  <2>3. ASSUME NEW w \in Waiters
        PROVE waiters'[w].refs = Undone(JobsOf(w)) + Count(ticket', JobsOf(w))
    <3>1. Count(ticket', JobsOf(w)) = 0 /\ Count(ticket, JobsOf(w)) = Bit(v = w)
      <4>1. Count(ticket, JobsOf(w)) = Bit(ticket[1] \in JobsOf(w))
        BY <2>2, CountOne
      <4>2. Bit(ticket[1] \in JobsOf(w)) = Bit(v = w)
        BY <2>2 DEF JobsOf, Bit
      <4> QED BY <2>1, <4>1, <4>2, CountEmpty
    <3>2. waiters'[w].refs = waiters[w].refs - Bit(v = w)
      <4>1. waiters \in [Waiters -> [refs : Int, status : Status \cup {"none"}]]
        BY <1>0 DEF QueuesOK
      <4> HIDE DEF v
      <4>2. waiters' = [waiters EXCEPT ![v].refs = @ - 1]
        BY <2>1 DEF v
      <4>3. CASE v = w
        BY <4>1, <4>2, <4>3 DEF Bit
      <4>4. CASE v # w
        BY <4>1, <4>2, <4>4 DEF Bit
      <4> QED BY <4>3, <4>4
    <3>3. waiters[w].refs = Undone(JobsOf(w)) + Count(ticket, JobsOf(w)) /\ Undone(JobsOf(w)) \in Nat
      BY UndoneType DEF CountsInv, WaitersInv
    <3>4. Bit(v = w) \in Int
      BY DEF Bit
    <3> QED BY <3>1, <3>2, <3>3, <3>4
  <2> QED BY <2>1, <2>3 DEF CountsInv, PendingInv, BlocksInv, WaitersInv, Undone
<1>7. CASE TakeJob
  <2>1. \A S : Count(jobs', S) + Count(job', S) = Undone(S)
    BY <1>7, UndoneTaken
  <2>2. UNCHANGED <<blocks, waiters, pending, completions, ticket>>
    BY <1>7 DEF TakeJob, callerT
  <2> QED BY <2>1, <2>2 DEF CountsInv, PendingInv, BlocksInv, WaitersInv, Undone
<1>8. CASE Cancel
  <2>1. /\ Head(jobs) \in Job
        /\ \A S : Count(jobs', S) + Count(job', S) = Undone(S) - Bit(Head(jobs) \in S)
    BY <1>8, UndoneCancelled
  <2>2. Finish(Head(jobs), 0, "timeout") /\ "timeout" \in Status /\ UNCHANGED <<pending, ticket>>
    BY <1>8 DEF Cancel, Status, callerT
  <2> QED BY <2>1, <2>2, FinishCounts
<1>9. CASE Finishes
  <2>1. PICK status \in Status : Done(status) /\ Len(job) = 1
    BY <1>9 DEF Finishes
  <2>2. job' = <<>> /\ UNCHANGED <<jobs, pending, ticket>> /\ Finish(job[1], offset, status)
    BY <2>1 DEF Done, Held, callerT
  <2>3. /\ job[1] \in Job
        /\ \A S : Count(jobs', S) + Count(job', S) = Undone(S) - Bit(job[1] \in S)
    BY <2>1, <2>2, UndoneFinished
  <2> QED BY <2>2, <2>3, FinishCounts
<1>10. CASE GoesOn
  BY <1>1, <1>10 DEF GoesOn, Goto, Held, callerT
<1>11. CASE Exit
  BY <1>1, <1>11 DEF Exit, callerT
<1>12. CASE WriteSome
  BY <1>1, <1>12 DEF WriteSome, callerT
<1>13. CASE UNCHANGED vars
  BY <1>1, <1>13 DEF vars, callerT
<1> QED BY <1>0, <1>4, <1>5, <1>6, <1>7, <1>8, <1>9, <1>10, <1>11, <1>12, <1>13, CallerShape, WriterShape DEF Next

\* Everything is as the counts say: types, reservations, references, and shutdown.
LEMMA CountsInit == Init => CountsInv
<1> SUFFICES ASSUME Init PROVE CountsInv
  OBVIOUS
<1>1. \A S : Undone(S) = 0 /\ Count(ticket, S) = 0
  BY CountEmpty DEF Init, Undone
<1>2. Len(completions) = 0
  BY EmptyLemma DEF Init
<1>3. DataBlocks \in Nat /\ CompletionBound \in Nat
  BY FileJobsAssumption
<1>4. PendingInv /\ BlocksInv
  BY <1>1, <1>2, <1>3 DEF Init, PendingInv, BlocksInv
<1>5. WaitersInv
  BY <1>1 DEF Init, WaitersInv
<1> QED BY <1>4, <1>5 DEF CountsInv

\* A queue in order stays so when a later one comes, and when its first one goes.
LEMMA RisingAppend ==
  ASSUME NEW S, \A e \in S : e.id \in Nat, NEW s \in Seq(S), NEW e \in S, Rising(s),
         \A i \in DOMAIN s : s[i].id < e.id
  PROVE  Rising(Append(s, e))
<1>1. /\ DOMAIN s = 1 .. Len(s) /\ DOMAIN Append(s, e) = DOMAIN s \cup {Len(s) + 1} /\ Len(s) \in Nat
      /\ \A i \in DOMAIN s : Append(s, e)[i] = s[i] /\ s[i] \in S /\ i < Len(s) + 1
      /\ Append(s, e)[Len(s) + 1] = e
  BY AppendLemma
<1>2. SUFFICES ASSUME NEW i \in DOMAIN Append(s, e), NEW k \in DOMAIN Append(s, e), i < k
               PROVE  Append(s, e)[i].id < Append(s, e)[k].id
  BY DEF Rising
<1>3. i \in DOMAIN s
  BY <1>1, <1>2
<1>4. CASE k \in DOMAIN s
  BY <1>1, <1>2, <1>3, <1>4 DEF Rising
<1>5. CASE k = Len(s) + 1
  BY <1>1, <1>3, <1>5
<1> QED BY <1>1, <1>4, <1>5

\* A rising queue that loses its first element rises.
LEMMA RisingTail ==
  ASSUME NEW S, NEW s \in Seq(S), s # <<>>, Rising(s)
  PROVE  Rising(Tail(s)) /\ \A i \in DOMAIN Tail(s) : Head(s).id < Tail(s)[i].id
<1>1. /\ Head(s) = s[1] /\ 1 \in DOMAIN s /\ Len(s) \in Nat \ {0}
      /\ DOMAIN s = 1 .. Len(s) /\ DOMAIN Tail(s) = 1 .. Len(s) - 1
      /\ \A i \in DOMAIN Tail(s) : i + 1 \in DOMAIN s /\ Tail(s)[i] = s[i + 1]
  BY TailLemma
<1>2. ASSUME NEW i \in DOMAIN Tail(s), NEW k \in DOMAIN Tail(s), i < k
      PROVE  Tail(s)[i].id < Tail(s)[k].id
  <2>1. i + 1 < k + 1 /\ i + 1 \in DOMAIN s /\ k + 1 \in DOMAIN s
    BY <1>1, <1>2
  <2> QED BY <1>1, <2>1 DEF Rising
<1>3. ASSUME NEW i \in DOMAIN Tail(s) PROVE Head(s).id < Tail(s)[i].id
  <2>1. 1 < i + 1 /\ i + 1 \in DOMAIN s
    BY <1>1
  <2> QED BY <1>1, <2>1 DEF Rising
<1> QED BY <1>2, <1>3 DEF Rising

\* A completion is the answer of a job.
Answer == [id : Nat, status : Status]

\* What a queue keeps when its first element goes.
LEMMA TailAll ==
  ASSUME NEW S, NEW s \in Seq(S), s # <<>>, NEW T, \A i \in DOMAIN s : s[i] \in T
  PROVE  Head(s) \in T /\ \A i \in DOMAIN Tail(s) : Tail(s)[i] \in T
BY TailLemma

\* The answer of the oldest job comes after the answers there are.
LEMMA FinishOrder ==
  ASSUME PlacesInv, OrderInv, NEW j \in Job, NEW done, NEW status \in Status, Finish(j, done, status),
         j.id <= calls, \A i \in DOMAIN completions : completions[i].id < j.id
  PROVE  /\ Rising(completions') /\ completions' \in Seq(Answer)
         /\ \A i \in DOMAIN completions' :
              completions'[i].id <= calls /\ (completions'[i].id = j.id \/ (i \in DOMAIN completions /\ completions'[i] = completions[i]))
<1> DEFINE c == [id |-> j.id, status |-> status]
<1>1. completions \in Seq(Answer) /\ c \in Answer /\ c.id = j.id /\ j.id \in Nat
  BY DEF PlacesInv, Types, QueuesOK, Answer, Job
<1>2. completions' = completions \/ completions' = Append(completions, c)
  BY DEF Finish
<1> HIDE DEF c
<1>3. CASE completions' = completions
  BY <1>1, <1>3 DEF OrderInv
<1>4. CASE completions' = Append(completions, c)
  <2>1. \A e \in Answer : e.id \in Nat
    BY DEF Answer
  <2>2. Rising(Append(completions, c))
    <3>1. Rising(completions) /\ \A i \in DOMAIN completions : completions[i].id < c.id
      BY <1>1 DEF OrderInv
    <3> QED BY <1>1, <2>1, <3>1, RisingAppend
  <2>3. /\ Append(completions, c) \in Seq(Answer)
        /\ DOMAIN Append(completions, c) = DOMAIN completions \cup {Len(completions) + 1}
        /\ \A i \in DOMAIN completions : Append(completions, c)[i] = completions[i]
        /\ Append(completions, c)[Len(completions) + 1] = c
    BY <1>1, AppendLemma
  <2>4. \A i \in DOMAIN completions : completions[i].id <= calls
    BY DEF OrderInv
  <2>5. ASSUME NEW i \in DOMAIN completions'
        PROVE  /\ completions'[i].id <= calls
               /\ completions'[i].id = j.id \/ (i \in DOMAIN completions /\ completions'[i] = completions[i])
    <3>1. CASE i \in DOMAIN completions
      BY <1>4, <2>3, <2>4, <3>1
    <3>2. CASE i = Len(completions) + 1
      <4>1. completions'[i] = c
        BY <1>4, <2>3, <3>2
      <4>2. completions'[i].id = j.id
        BY <1>1, <4>1
      <4> QED BY <4>2
    <3> QED BY <1>4, <2>3, <3>1, <3>2
  <2> QED BY <1>4, <2>2, <2>3, <2>5
<1> QED BY <1>2, <1>3, <1>4

\* Every step keeps the order.
LEMMA OrderStep == PlacesInv /\ OrderInv /\ [Next]_vars => OrderInv'
<1> SUFFICES ASSUME PlacesInv, OrderInv, [Next]_vars PROVE OrderInv'
  OBVIOUS
<1>0. /\ QueuesOK /\ Types /\ WriterAtPlace /\ CallerAtPlace /\ calls \in Nat
      /\ jobs \in Seq(Job) /\ job \in Seq(Job) /\ completions \in Seq(Answer)
      /\ \A j \in Job : j.id \in Nat
  BY DEF PlacesInv, Types, QueuesOK, Answer, Job
<1>a. /\ \A i \in DOMAIN jobs : jobs[i].id \in Nat
      /\ \A i \in DOMAIN job : job[i].id \in Nat
      /\ \A i \in DOMAIN completions : completions[i].id \in Nat
  <2>1. \A i \in DOMAIN completions : completions[i] \in Answer
    BY <1>0, ShortLemma
  <2>2. \A i \in DOMAIN jobs : jobs[i] \in Job
    BY <1>0, ShortLemma
  <2>3. \A i \in DOMAIN job : job[i] \in Job
    BY <1>0, ShortLemma
  <2> QED BY <1>0, <2>1, <2>2, <2>3 DEF Answer
<1>1. ASSUME UNCHANGED <<jobs, job, completions>>, calls' \in {calls, calls + 1} PROVE OrderInv'
  <2>1. \A n \in Nat : n <= calls => n <= calls'
    BY <1>0, <1>1
  <2> QED BY <1>1, <1>a, <2>1 DEF OrderInv
<1>2. ASSUME NEW j \in Job, AskSync(j) \/ AskAppend(j) \/ AskFile(j) PROVE OrderInv'
  <2>1. /\ jobs' = Append(jobs, j) /\ calls' = calls + 1 /\ j.id = calls + 1
        /\ UNCHANGED <<job, completions>>
    BY <1>2 DEF AskSync, AskAppend, AskFile
  <2>2. /\ DOMAIN jobs' = DOMAIN jobs \cup {Len(jobs) + 1}
        /\ \A i \in DOMAIN jobs : jobs'[i] = jobs[i]
        /\ jobs'[Len(jobs) + 1] = j
    BY <1>0, <2>1, AppendLemma
  <2>3. \A n \in Nat : n <= calls => n <= calls' /\ n < j.id
    BY <1>0, <2>1
  <2>4. Rising(jobs')
    <3>1. \A i \in DOMAIN jobs : jobs[i].id < j.id
      BY <1>a, <2>3 DEF OrderInv
    <3> QED BY <1>0, <2>1, <3>1, RisingAppend DEF OrderInv
  <2>5. \A i \in DOMAIN jobs' : jobs'[i].id <= calls'
    <3>1. j.id <= calls'
      BY <1>0, <2>1
    <3> QED BY <1>a, <2>2, <2>3, <3>1 DEF OrderInv
  <2>6. \A i \in DOMAIN job' : job'[i].id <= calls' /\ \A k \in DOMAIN jobs' : job'[i].id < jobs'[k].id
    BY <1>a, <2>1, <2>2, <2>3 DEF OrderInv
  <2>7. \A i \in DOMAIN completions' :
          /\ \A k \in DOMAIN jobs' : completions'[i].id < jobs'[k].id
          /\ \A k \in DOMAIN job' : completions'[i].id < job'[k].id
          /\ completions'[i].id <= calls'
    BY <1>a, <2>1, <2>2, <2>3 DEF OrderInv
  <2> QED BY <2>1, <2>4, <2>5, <2>6, <2>7 DEF OrderInv
<1>3. CASE Asks
  BY <1>1, <1>2, <1>3 DEF Asks, AskNothing
<1>4. CASE TakeCompletion
  <2>1. UNCHANGED <<jobs, job, calls>> /\ completions' = Tail(completions) /\ completions # <<>>
    BY <1>4 DEF TakeCompletion
  <2>2. Rising(completions')
    BY <1>0, <2>1, RisingTail DEF OrderInv
  <2>3. \A i \in DOMAIN completions' : i + 1 \in DOMAIN completions /\ completions'[i] = completions[i + 1]
    BY <1>0, <2>1, TailLemma
  <2> QED BY <2>1, <2>2, <2>3 DEF OrderInv
<1>5. CASE TakeJob
  <2>1. UNCHANGED <<completions, calls>> /\ jobs' = Tail(jobs) /\ jobs # <<>> /\ job' = <<Head(jobs)>>
    BY <1>5 DEF TakeJob
  <2>2. /\ Head(jobs) \in Job /\ Head(jobs) = jobs[1] /\ 1 \in DOMAIN jobs
        /\ \A i \in DOMAIN jobs' : i + 1 \in DOMAIN jobs /\ jobs'[i] = jobs[i + 1]
    BY <1>0, <2>1, TailLemma
  <2>3. Rising(jobs') /\ \A i \in DOMAIN jobs' : Head(jobs).id < jobs'[i].id
    BY <1>0, <2>1, RisingTail DEF OrderInv
  <2>4. DOMAIN job' = {1} /\ job'[1] = jobs[1]
    BY <2>1, <2>2, OneLemma
  <2> QED BY <2>1, <2>2, <2>3, <2>4 DEF OrderInv
<1>6. CASE Finishes
  <2>1. PICK status \in Status : Done(status) /\ Len(job) = 1
    BY <1>6 DEF Finishes
  <2>2. job' = <<>> /\ UNCHANGED <<jobs, calls>> /\ Finish(job[1], offset, status)
    BY <2>1 DEF Done, Held
  <2>3. job[1] \in Job /\ DOMAIN job = {1} /\ DOMAIN job' = {}
    BY <1>0, <2>1, <2>2, ShortLemma, EmptyLemma
  <2>4. job[1].id <= calls /\ (\A i \in DOMAIN completions : completions[i].id < job[1].id)
        /\ \A k \in DOMAIN jobs : job[1].id < jobs[k].id
    BY <2>3 DEF OrderInv
  <2>5. /\ Rising(completions')
        /\ \A i \in DOMAIN completions' :
             /\ completions'[i].id <= calls
             /\ completions'[i].id = job[1].id \/ (i \in DOMAIN completions /\ completions'[i] = completions[i])
    BY <2>2, <2>3, <2>4, FinishOrder
  <2>6. \A i \in DOMAIN completions' : \A k \in DOMAIN jobs : completions'[i].id < jobs[k].id
    BY <2>4, <2>5 DEF OrderInv
  <2> QED BY <2>2, <2>3, <2>5, <2>6 DEF OrderInv
<1>7. CASE Cancel
  <2>1. /\ UNCHANGED <<job, calls>> /\ jobs' = Tail(jobs) /\ jobs # <<>>
        /\ Finish(Head(jobs), 0, "timeout") /\ "timeout" \in Status
    BY <1>7 DEF Cancel, Status
  <2>2. /\ Head(jobs) \in Job /\ Head(jobs) = jobs[1] /\ 1 \in DOMAIN jobs
        /\ \A i \in DOMAIN jobs' : i + 1 \in DOMAIN jobs /\ jobs'[i] = jobs[i + 1]
    BY <1>0, <2>1, TailLemma
  <2>3. Rising(jobs') /\ \A i \in DOMAIN jobs' : Head(jobs).id < jobs'[i].id
    BY <1>0, <2>1, RisingTail DEF OrderInv
  <2>4. Head(jobs).id <= calls /\ (\A i \in DOMAIN completions : completions[i].id < Head(jobs).id)
    BY <2>2 DEF OrderInv
  <2>5. /\ Rising(completions')
        /\ \A i \in DOMAIN completions' :
             /\ completions'[i].id <= calls
             /\ completions'[i].id = Head(jobs).id \/ (i \in DOMAIN completions /\ completions'[i] = completions[i])
    BY <2>1, <2>2, <2>4, FinishOrder
  <2>6. \A i \in DOMAIN completions' : \A k \in DOMAIN jobs' : completions'[i].id < jobs'[k].id
    BY <2>2, <2>3, <2>5 DEF OrderInv
  <2>7. DOMAIN job' = {}
    <3>1. Len(job) = 0
      BY <1>0, <1>7 DEF WriterAtPlace, Cancel
    <3> QED BY <1>0, <2>1, <3>1, ShortLemma, EmptyLemma
  <2> QED BY <2>1, <2>2, <2>3, <2>5, <2>6, <2>7 DEF OrderInv
<1>8. CASE WaitEnds
  BY <1>1, <1>8 DEF WaitEnds
<1>9. CASE GoesOn
  BY <1>1, <1>9 DEF GoesOn, Goto, Held
<1>10. CASE Exit
  BY <1>1, <1>10 DEF Exit
<1>11. CASE WriteSome
  BY <1>1, <1>11 DEF WriteSome
<1>12. CASE UNCHANGED vars
  BY <1>1, <1>12 DEF vars
<1> QED BY <1>0, <1>3, <1>4, <1>5, <1>6, <1>7, <1>8, <1>9, <1>10, <1>11, <1>12, CallerShape, WriterShape DEF Next

\* Empty queues are in order.
LEMMA OrderInit == Init => OrderInv
BY EmptyLemma DEF Init, OrderInv, Rising

\* So the places, the counts and the order hold of every behaviour.
LEMMA CountsAlways == Spec => [](PlacesInv /\ CountsInv /\ OrderInv)
<1>1. Init => PlacesInv /\ CountsInv /\ OrderInv
  BY PlacesInit, CountsInit, OrderInit
<1>2. PlacesInv /\ CountsInv /\ OrderInv /\ [Next]_vars => (PlacesInv /\ CountsInv /\ OrderInv)'
  BY PlacesInvStep, CountsStep, OrderStep
<1> QED BY <1>1, <1>2, PTL DEF Spec

\* What is queued and what is in hand, as one queue.
LEMMA LiveLemma ==
  ASSUME PlacesInv
  PROVE  /\ Live \in Seq(Job) /\ \A S : Count(Live, S) = Undone(S)
         /\ \A k \in DOMAIN Live : \/ k \in DOMAIN jobs /\ Live[k] = jobs[k]
                                   \/ \E i \in DOMAIN job : Live[k] = job[i]
<1>1. jobs \in Seq(Job) /\ job \in Seq(Job) /\ Len(job) <= 1 /\ Len(job) \in {0, 1}
  <2>1. Len(job) \in {0, 1}
    BY DEF PlacesInv, WriterAtPlace
  <2>2. Len(job) <= 1
    BY <2>1
  <2> QED BY <2>1, <2>2 DEF PlacesInv, Types, QueuesOK
<1>2. Live \in Seq(Job)
  BY <1>1 DEF Live
<1>3. \A S : Count(Live, S) = Undone(S)
  BY <1>1, CountLive DEF Live, Undone
<1>4. \A k \in DOMAIN Live : (k \in DOMAIN jobs /\ Live[k] = jobs[k]) \/ \E i \in DOMAIN job : Live[k] = job[i]
  <2>1. CASE Len(job) = 0
    <3>1. job = <<>> /\ Live = jobs
      BY <1>1, <2>1, ShortLemma DEF Live
    <3> QED BY <3>1
  <2>2. CASE Len(job) = 1
    <3>1. job = <<job[1]>> /\ job[1] \in Job /\ DOMAIN job = {1}
      BY <1>1, <2>2, ShortLemma
    <3> DEFINE e == job[1]
    <3> HIDE DEF e
    <3>2. jobs \o <<e>> = Append(jobs, e) /\ e \in Job
      BY <1>1, <3>1 DEF e
    <3>3. Live = Append(jobs, e)
      BY <3>1, <3>2 DEF Live, e
    <3>4. /\ DOMAIN Live = DOMAIN jobs \cup {Len(jobs) + 1}
          /\ \A i \in DOMAIN jobs : Live[i] = jobs[i]
          /\ Live[Len(jobs) + 1] = e
      BY <1>1, <3>2, <3>3, AppendLemma
    <3> QED BY <3>1, <3>4 DEF e
  <2> QED BY <1>1, <2>1, <2>2
<1> QED BY <1>2, <1>3, <1>4

\* Counting by a condition is counting in the set of the jobs that meet it.
LEMMA CountIfLemma ==
  /\ \A s \in Seq(Job) : CountIf(s, Async) = Count(s, Requests)
  /\ \A s \in Seq(Job) : \A w : CountIf(s, LAMBDA j : j.waiter = w) = Count(s, JobsOf(w))
<1>1. ASSUME NEW s \in Seq(Job) PROVE CountIf(s, Async) = Count(s, Requests)
  <2>1. \A i \in DOMAIN s : s[i] \in Job
    BY ShortLemma
  <2>2. {i \in DOMAIN s : Async(s[i])} = {i \in DOMAIN s : s[i] \in Requests}
    BY <2>1 DEF Requests
  <2> QED BY <2>2 DEF CountIf, Count
<1>2. ASSUME NEW s \in Seq(Job), NEW w PROVE CountIf(s, LAMBDA j : j.waiter = w) = Count(s, JobsOf(w))
  <2>1. \A i \in DOMAIN s : s[i] \in Job
    BY ShortLemma
  <2>2. {i \in DOMAIN s : s[i].waiter = w} = {i \in DOMAIN s : s[i] \in JobsOf(w)}
    BY <2>1 DEF JobsOf
  <2> QED BY <2>2 DEF CountIf, Count
<1> QED BY <1>1, <1>2

\* The types, with the bounds that the counts give.
LEMMA TypesHold == PlacesInv /\ CountsInv => TypeOK
<1> SUFFICES ASSUME PlacesInv, CountsInv PROVE TypeOK
  OBVIOUS
<1>0. /\ Types /\ QueuesOK /\ ControlOK /\ PlacesOK /\ FileOK /\ LogOK
      /\ DataBlocks \in Nat /\ CompletionBound \in Nat /\ CallBound \in Nat
  BY FileJobsAssumption DEF PlacesInv, Types
<1>1. Len(completions) \in Nat /\ Undone(Requests) \in Nat /\ Undone(Owners) \in Nat
  <2>1. Len(completions) \in Nat
    BY <1>0, ShortLemma DEF QueuesOK
  <2> QED BY <2>1, UndoneType
<1>2. pending \in 0 .. CompletionBound /\ Len(completions) <= CompletionBound /\ blocks \in 0 .. DataBlocks
  BY <1>0, <1>1 DEF CountsInv, PendingInv, BlocksInv, QueuesOK
<1>3. waiters \in [Waiters -> [refs : 0 .. 2, status : Status \cup {"none"}]]
  <2>1. ASSUME NEW w \in Waiters PROVE waiters[w].refs \in 0 .. 2
    <3>1. Count(ticket, JobsOf(w)) \in {0, 1}
      <4>1. ticket \in Seq(Job) /\ Len(ticket) \in {0, 1}
        BY <1>0 DEF QueuesOK, PlacesInv, CallerAtPlace
      <4>2. CASE Len(ticket) = 0
        <5>1. ticket = <<>>
          BY <4>1, <4>2, ShortLemma
        <5> QED BY <5>1, CountEmpty
      <4>3. CASE Len(ticket) = 1
        <5>1. ticket = <<ticket[1]>> /\ ticket[1] \in Job
          BY <4>1, <4>3, ShortLemma
        <5>2. Count(ticket, JobsOf(w)) = Bit(ticket[1] \in JobsOf(w))
          BY <5>1, CountOne
        <5> QED BY <5>2 DEF Bit
      <4> QED BY <4>1, <4>2, <4>3
    <3> QED BY <3>1, UndoneType DEF CountsInv, WaitersInv
  <2>2. ASSUME NEW w \in Waiters PROVE waiters[w] \in [refs : 0 .. 2, status : Status \cup {"none"}]
    BY <1>0, <2>1 DEF QueuesOK
  <2> QED BY <1>0, <2>2 DEF QueuesOK
<1>4. Len(job) <= 1 /\ calls \in 0 .. CallBound + 1
  BY <1>0 DEF PlacesInv, WriterAtPlace, CallerAtPlace, QueuesOK
<1> QED BY <1>0, <1>2, <1>3, <1>4 DEF TypeOK, QueuesOK, ControlOK, PlacesOK, FileOK, LogOK

\* What the counts and the order say in the words of the specification.
LEMMA ReservationsHold == PlacesInv /\ CountsInv /\ OrderInv => ReservationsExact /\ WaiterRefsExact
<1> SUFFICES ASSUME PlacesInv, CountsInv, OrderInv PROVE ReservationsExact /\ WaiterRefsExact
  OBVIOUS
<1>0. completions \in Seq(Answer) /\ ticket \in Seq(Job) /\ jobs \in Seq(Job) /\ job \in Seq(Job)
  BY DEF PlacesInv, Types, QueuesOK, Answer
<1>1. pending = CountIf(Live, Async) + Len(completions)
  BY LiveLemma, CountIfLemma DEF CountsInv, PendingInv
<1>a. /\ DOMAIN completions = 1 .. Len(completions) /\ Len(completions) \in Nat
      /\ \A i \in DOMAIN completions : completions[i].id \in Nat
      /\ \A i \in DOMAIN jobs : jobs[i].id \in Nat
      /\ \A i \in DOMAIN job : job[i].id \in Nat
  <2>1. \A i \in DOMAIN completions : completions[i] \in Answer
    BY <1>0, ShortLemma
  <2>2. \A i \in DOMAIN jobs : jobs[i] \in Job
    BY <1>0, ShortLemma
  <2>3. \A i \in DOMAIN job : job[i] \in Job
    BY <1>0, ShortLemma
  <2> QED BY <1>0, <2>1, <2>2, <2>3 DEF Answer, Job
<1>2. ASSUME NEW i \in DOMAIN completions, NEW k \in DOMAIN completions, completions[i].id = completions[k].id
      PROVE  i = k
  <2>1. i \in Nat /\ k \in Nat
    BY <1>a
  <2>2. ~(i < k) /\ ~(k < i)
    BY <1>2, <1>a DEF OrderInv, Rising
  <2> QED BY <2>1, <2>2
<1>3. ASSUME NEW i \in DOMAIN completions, NEW k \in DOMAIN Live PROVE completions[i].id # Live[k].id
  <2>1. CASE k \in DOMAIN jobs /\ Live[k] = jobs[k]
    BY <1>a, <2>1 DEF OrderInv
  <2>2. CASE \E m \in DOMAIN job : Live[k] = job[m]
    BY <1>a, <2>2 DEF OrderInv
  <2> QED BY <2>1, <2>2, LiveLemma
<1>4. WaiterRefsExact
  <2>1. ASSUME NEW w \in Waiters
        PROVE  waiters[w].refs = CountIf(Live, LAMBDA j : j.waiter = w) + CountIf(ticket, LAMBDA j : j.waiter = w)
    BY <1>0, LiveLemma, CountIfLemma DEF CountsInv, WaitersInv
  <2> QED BY <2>1 DEF WaiterRefsExact
<1> QED BY <1>1, <1>2, <1>3, <1>4 DEF ReservationsExact

\* What is left when the caller is down.
LEMMA ShutdownHolds == PlacesInv /\ CountsInv => ShutdownReturnsAll
<1> SUFFICES ASSUME PlacesInv, CountsInv, caller = "down"
             PROVE  /\ jobs = <<>> /\ job = <<>> /\ blocks = DataBlocks /\ temps = <<>> /\ ~file
                    /\ \A w \in Waiters : waiters[w].refs = 0
                    /\ pending = Len(completions)
  BY DEF ShutdownReturnsAll
<1>0. Types /\ QueuesOK /\ FileOK
  BY DEF PlacesInv, Types
<1>1. jobs = <<>> /\ ~file /\ stream = <<>> /\ writer \in {"loop", "exited"}
  BY DEF PlacesInv, CallerAtPlace, NothingAsked
<1>2. job = <<>> /\ ticket = <<>>
  BY <1>0, <1>1, ShortLemma DEF QueuesOK, PlacesInv, WriterAtPlace, CallerAtPlace
<1>3. \A S : Undone(S) = 0 /\ Count(ticket, S) = 0
  BY <1>1, <1>2, CountEmpty DEF Undone
<1>4. blocks = DataBlocks /\ pending = Len(completions) /\ \A w \in Waiters : waiters[w].refs = 0
  <2>1. blocks \in Int /\ pending \in Int /\ Len(completions) \in Nat
    BY <1>0, ShortLemma DEF QueuesOK
  <2> QED BY <1>3, <2>1 DEF CountsInv, PendingInv, BlocksInv, WaitersInv
<1>5. DOMAIN temps = {}
  BY <1>1, EmptyLemma DEF PlacesInv, TempsInv, OpenIds, JobTemps
<1>6. temps = <<>>
  <2>1. temps \in [{} -> Temp]
    BY <1>0, <1>5 DEF FileOK
  <2>2. <<>> \in [{} -> Temp]
    <3>1. <<>> \in Seq(Temp)
      BY EmptyLemma
    <3> QED BY <3>1, EmptyLemma
  <2> QED BY <2>1, <2>2
<1> QED BY <1>1, <1>2, <1>4, <1>5, <1>6

\* Reservations, completion objects and blocks are counted right and come back at shutdown.
THEOREM RequestsCounted == Spec => []RequestsExact
<1>1. PlacesInv /\ CountsInv /\ OrderInv => RequestsExact
  BY TypesHold, ReservationsHold, ShutdownHolds DEF RequestsExact
<1> QED BY <1>1, CountsAlways, PTL

-----------------------------------------------------------------------------
(* The bytes of the log.                                                   *)

\* It stays so while the caller waits and the jobs are those there were, or have no waiter.
LEMMA TicketKept ==
  ASSUME PlacesInv, TicketInv, UNCHANGED ticket, calls' \in {calls, calls + 1},
         \A i \in DOMAIN jobs' : jobs'[i].waiter = "none" \/ \E k \in DOMAIN jobs : jobs'[i] = jobs[k],
         \A i \in DOMAIN job' : (\E k \in DOMAIN jobs : job'[i] = jobs[k]) \/ (\E k \in DOMAIN job : job'[i] = job[k])
  PROVE  TicketInv'
<1>0. CallerAtPlace /\ calls \in Nat /\ "none" \notin Waiters /\ ticket \in Seq(Job)
  BY FileJobsAssumption DEF PlacesInv, Types, QueuesOK
<1>1. SUFFICES ASSUME ticket # <<>> PROVE TicketInv'
  BY DEF TicketInv
<1>2. ticket[1] \in Job
  <2>1. Len(ticket) = 1
    BY <1>0, <1>1, ShortLemma DEF CallerAtPlace
  <2> QED BY <1>0, <2>1, ShortLemma
<1>3. ticket[1].id \in Nat
  BY <1>2 DEF Job
<1>4. ticket[1].id <= calls' /\ ticket[1].waiter \in Waiters
  BY <1>0, <1>1, <1>3 DEF TicketInv
<1>5. \A i \in DOMAIN jobs' : jobs'[i].waiter = ticket[1].waiter => jobs'[i] = ticket[1]
  BY <1>0, <1>1, <1>4 DEF TicketInv
<1>6. \A i \in DOMAIN job' : job'[i].waiter = ticket[1].waiter => job'[i] = ticket[1]
  BY <1>0, <1>1, <1>4 DEF TicketInv
<1> QED BY <1>4, <1>5, <1>6 DEF TicketInv

\* The job of a call that waits is the only one with its completion object.
LEMMA TicketStep == PlacesInv /\ CountsInv /\ TicketInv /\ [Next]_vars => TicketInv'
<1> SUFFICES ASSUME PlacesInv, CountsInv, TicketInv, [Next]_vars PROVE TicketInv'
  OBVIOUS
<1>0. /\ Types /\ WriterAtPlace /\ CallerAtPlace /\ calls \in Nat /\ "none" \notin Waiters
      /\ jobs \in Seq(Job) /\ job \in Seq(Job) /\ ticket \in Seq(Job)
  BY FileJobsAssumption DEF PlacesInv, Types, QueuesOK
<1>2. ASSUME NEW j \in Job, AskSync(j) PROVE TicketInv'
  <2>1. /\ jobs' = Append(jobs, j) /\ job' = job /\ calls' = calls + 1 /\ j.id = calls + 1 /\ ticket' = <<j>>
        /\ j.waiter \in Waiters /\ waiters[j.waiter].refs = 0
    BY <1>2 DEF AskSync, IdleWaiters
  <2>2. Count(jobs, JobsOf(j.waiter)) = 0 /\ Count(job, JobsOf(j.waiter)) = 0
    <3>1. Undone(JobsOf(j.waiter)) + Count(ticket, JobsOf(j.waiter)) = 0
      BY <2>1 DEF CountsInv, WaitersInv
    <3> QED BY <3>1, UndoneType DEF Undone
  <2>3. /\ \A i \in DOMAIN jobs : jobs[i].waiter # j.waiter
        /\ \A i \in DOMAIN job : job[i].waiter # j.waiter
    <3>1. /\ \A i \in DOMAIN jobs : jobs[i] \in Job /\ jobs[i] \notin JobsOf(j.waiter)
          /\ \A i \in DOMAIN job : job[i] \in Job /\ job[i] \notin JobsOf(j.waiter)
      BY <1>0, <2>2, CountZero, ShortLemma
    <3> QED BY <3>1 DEF JobsOf
  <2>4. /\ DOMAIN jobs' = DOMAIN jobs \cup {Len(jobs) + 1}
        /\ \A i \in DOMAIN jobs : jobs'[i] = jobs[i]
        /\ jobs'[Len(jobs) + 1] = j
    BY <1>0, <2>1, AppendLemma
  <2>5. ticket'[1] = j /\ ticket'[1].id <= calls'
    BY <1>0, <2>1, OneLemma
  <2> QED BY <2>1, <2>3, <2>4, <2>5 DEF TicketInv
<1>3. ASSUME NEW j \in Job, AskAppend(j) \/ AskFile(j) PROVE TicketInv'
  <2>1. /\ jobs' = Append(jobs, j) /\ UNCHANGED <<job, ticket>> /\ calls' = calls + 1 /\ j.waiter = "none"
    BY <1>3 DEF AskAppend, AskFile
  <2>2. /\ DOMAIN jobs' = DOMAIN jobs \cup {Len(jobs) + 1}
        /\ \A i \in DOMAIN jobs : jobs'[i] = jobs[i]
        /\ jobs'[Len(jobs) + 1] = j
    BY <1>0, <2>1, AppendLemma
  <2> QED BY TicketKept, <2>1, <2>2
<1>4. CASE Asks
  <2>1. CASE AskNothing
    <3> QED BY TicketKept, <2>1 DEF AskNothing
  <2> QED BY <1>2, <1>3, <1>4, <2>1 DEF Asks
<1>5. CASE TakeCompletion
  <2> QED BY TicketKept, <1>5 DEF TakeCompletion, callerT
<1>6. CASE WaitEnds
  BY <1>6 DEF WaitEnds, TicketInv
<1>7. CASE TakeJob \/ Cancel
  <2>1. /\ UNCHANGED <<ticket, calls>> /\ jobs' = Tail(jobs) /\ jobs # <<>>
        /\ job' = <<Head(jobs)>> \/ job' = job
    BY <1>7 DEF TakeJob, Cancel, callerT
  <2>2. /\ Head(jobs) \in Job /\ Head(jobs) = jobs[1] /\ 1 \in DOMAIN jobs
        /\ \A i \in DOMAIN jobs' : i + 1 \in DOMAIN jobs /\ jobs'[i] = jobs[i + 1]
    BY <1>0, <2>1, TailLemma
  <2>3. DOMAIN <<Head(jobs)>> = {1} /\ <<Head(jobs)>>[1] = jobs[1]
    BY <2>2, OneLemma
  <2> QED BY TicketKept, <2>1, <2>2, <2>3
<1>8. CASE Finishes
  <2>1. UNCHANGED <<ticket, calls, jobs>> /\ job' = <<>>
    BY <1>8 DEF Finishes, Done, Held, callerT
  <2> QED BY TicketKept, <2>1, EmptyLemma
<1>9. CASE GoesOn \/ Exit \/ WriteSome \/ UNCHANGED vars
  <2>1. UNCHANGED <<ticket, calls, jobs, job>>
    BY <1>9 DEF GoesOn, Goto, Held, Exit, WriteSome, vars, callerT
  <2> QED BY TicketKept, <2>1
<1> QED BY <1>0, <1>4, <1>5, <1>6, <1>7, <1>8, <1>9, CallerShape, WriterShape DEF Next

\* Nobody waits at first.
LEMMA TicketInit == Init => TicketInv
BY DEF Init, TicketInv

\* The bytes a queue owes.
LEMMA OwedAppend ==
  ASSUME NEW s \in Seq(Job), NEW j \in Job
  PROVE  Owed(Append(s, j)) = Owed(s) \cup (IF j.kind = "append" THEN Payload(j.id) ELSE {})
<1>1. /\ DOMAIN Append(s, j) = DOMAIN s \cup {Len(s) + 1} /\ Len(s) + 1 \notin DOMAIN s
      /\ \A i \in DOMAIN s : Append(s, j)[i] = s[i]
      /\ Append(s, j)[Len(s) + 1] = j
  BY AppendLemma
<1>2. Owed(s) \subseteq Owed(Append(s, j))
  BY <1>1 DEF Owed
<1>3. j.kind = "append" => Payload(j.id) \subseteq Owed(Append(s, j))
  BY <1>1 DEF Owed
<1>4. ASSUME NEW b \in Owed(Append(s, j)) PROVE b \in Owed(s) \/ (j.kind = "append" /\ b \in Payload(j.id))
  <2>1. PICK i \in DOMAIN Append(s, j) : Append(s, j)[i].kind = "append" /\ b \in Payload(Append(s, j)[i].id)
    BY DEF Owed
  <2>2. CASE i \in DOMAIN s
    BY <1>1, <2>1, <2>2 DEF Owed
  <2>3. CASE i = Len(s) + 1
    BY <1>1, <2>1, <2>3
  <2> QED BY <1>1, <2>2, <2>3
<1> QED BY <1>2, <1>3, <1>4

\* Those of a queue that loses its first job.
LEMMA OwedTail ==
  ASSUME NEW s \in Seq(Job), s # <<>>
  PROVE  Owed(s) = Owed(Tail(s)) \cup (IF Head(s).kind = "append" THEN Payload(Head(s).id) ELSE {})
<1>1. /\ Head(s) = s[1] /\ 1 \in DOMAIN s
      /\ \A i \in DOMAIN Tail(s) : i + 1 \in DOMAIN s /\ Tail(s)[i] = s[i + 1]
      /\ \A i \in DOMAIN s : i = 1 \/ i - 1 \in DOMAIN Tail(s)
      /\ DOMAIN s = 1 .. Len(s) /\ Len(s) \in Nat
  BY TailLemma
<1>2. Owed(Tail(s)) \subseteq Owed(s)
  <2>1. SUFFICES ASSUME NEW b \in Owed(Tail(s)) PROVE b \in Owed(s)
    OBVIOUS
  <2>2. PICK i \in DOMAIN Tail(s) : Tail(s)[i].kind = "append" /\ b \in Payload(Tail(s)[i].id)
    BY DEF Owed
  <2>3. i + 1 \in DOMAIN s /\ s[i + 1].kind = "append" /\ b \in Payload(s[i + 1].id)
    BY <1>1, <2>2
  <2> QED BY <2>3 DEF Owed
<1>3. Head(s).kind = "append" => Payload(Head(s).id) \subseteq Owed(s)
  BY <1>1 DEF Owed
<1>4. ASSUME NEW b \in Owed(s) PROVE b \in Owed(Tail(s)) \/ (Head(s).kind = "append" /\ b \in Payload(Head(s).id))
  <2>1. PICK i \in DOMAIN s : s[i].kind = "append" /\ b \in Payload(s[i].id)
    BY DEF Owed
  <2>2. CASE i = 1
    BY <1>1, <2>1, <2>2
  <2>3. CASE i # 1
    <3>1. i - 1 \in DOMAIN Tail(s) /\ i \in Nat /\ (i - 1) + 1 = i
      BY <1>1, <2>3
    <3>2. Tail(s)[i - 1] = s[i]
      BY <1>1, <3>1
    <3> QED BY <2>1, <3>1, <3>2 DEF Owed
  <2> QED BY <2>2, <2>3
<1> QED BY <1>2, <1>3, <1>4

\* An empty queue owes nothing.
LEMMA OwedEmpty == Owed(<<>>) = {}
BY EmptyLemma DEF Owed

\* A byte owed is one of a job of the queue, one in hand of the job in hand.
LEMMA OwedIds ==
  ASSUME NEW s \in Seq(Job), NEW b \in Owed(s)
  PROVE  \E i \in DOMAIN s : s[i].kind = "append" /\ \E k \in 1 .. Size : b = <<s[i].id, k>>
BY DEF Owed, Payload

\* They are what the specification calls outstanding, and accepted.
LEMMA OutstandingLemma ==
  ASSUME PlacesInv
  PROVE  /\ OutstandingBytes = Owed(jobs) \cup InHand
         /\ UNION {ToSet(Bytes(id)) : id \in admitted} = Accepted(admitted)
         /\ \A id \in admitted : ToSet(Bytes(id)) = Payload(id)
<1>1. jobs \in Seq(Job) /\ admitted \in SUBSET Nat
  BY DEF PlacesInv, Types, QueuesOK, LogOK
<1>2. OutstandingBytes = Owed(jobs) \cup InHand
  <2> DEFINE J == UNION {{<<j.id, k>> : k \in 1 .. Size} : j \in {x \in ToSet(jobs) : x.kind = "append"}}
  <2>2. OutstandingBytes = J \cup InHand
    BY DEF OutstandingBytes, InHand, Rest
  <2>1. J = Owed(jobs)
    <3>1. ToSet(jobs) = {jobs[i] : i \in DOMAIN jobs}
      BY DEF ToSet
    <3>2. ASSUME NEW b \in J PROVE b \in Owed(jobs)
      <4>1. PICK x \in ToSet(jobs) : x.kind = "append" /\ b \in {<<x.id, k>> : k \in 1 .. Size}
        OBVIOUS
      <4>2. PICK i \in DOMAIN jobs : x = jobs[i]
        BY <3>1
      <4> QED BY <4>1, <4>2 DEF Owed, Payload
    <3>3. ASSUME NEW b \in Owed(jobs) PROVE b \in J
      <4>1. PICK i \in DOMAIN jobs : jobs[i].kind = "append" /\ b \in Payload(jobs[i].id)
        BY DEF Owed
      <4>2. jobs[i] \in {x \in ToSet(jobs) : x.kind = "append"}
        BY <3>1, <4>1
      <4> QED BY <4>1, <4>2 DEF Payload
    <3> QED BY <3>2, <3>3
  <2> HIDE DEF J
  <2> QED BY <2>1, <2>2
<1>3. \A id \in admitted : ToSet(Bytes(id)) = Payload(id)
  BY <1>1, BytesLemma DEF Payload
<1>4. UNION {ToSet(Bytes(id)) : id \in admitted} = Accepted(admitted)
  BY <1>3 DEF Accepted
<1> QED BY <1>2, <1>3, <1>4

\* Bytes accepted and not yet written or charged.
Left == Owed(jobs) \cup InHand

\* What a step does to the bytes: nothing; a batch is accepted, and queued or charged;
\* some of those left are charged, or written next.
SameBytes == UNCHANGED <<admitted, log, charged>> /\ Left' = Left
NewBytes ==
  /\ calls' = calls + 1 /\ admitted' = admitted \cup {calls + 1} /\ UNCHANGED log
  /\ \/ Left' = Left \cup Payload(calls + 1) /\ UNCHANGED charged
     \/ Left' = Left /\ charged' = charged \cup Payload(calls + 1)
DropBytes ==
  /\ UNCHANGED <<admitted, log>>
  /\ \E X : charged' = charged \cup X /\ Left' \cup X = Left /\ Left' \cap X = {}
WriteBytes ==
  /\ UNCHANGED <<admitted, charged>> /\ Len(job) = 1 /\ InHand = Rest(offset)
  /\ \E n \in offset + 1 .. Size : log' = log \o Part(n) /\ Left' = Owed(jobs) \cup Rest(n)

\* The bytes a queue owes are of calls made, those of the job in hand come first.
LEMMA OwedApart ==
  ASSUME PlacesInv, OrderInv
  PROVE  /\ \A b \in Owed(jobs) : b[1] \in Nat /\ b[1] <= calls
         /\ Len(job) = 1 => \A b \in Owed(jobs) : job[1].id < b[1]
         /\ jobs # <<>> => \A b \in Owed(Tail(jobs)) : Head(jobs).id < b[1]
<1>1. /\ jobs \in Seq(Job) /\ job \in Seq(Job) /\ calls \in Nat
      /\ \A i \in DOMAIN jobs : jobs[i].id <= calls
  BY DEF PlacesInv, Types, QueuesOK, OrderInv
<1>2. \A i \in DOMAIN jobs : jobs[i] \in Job /\ jobs[i].id \in Nat
  <2>1. \A i \in DOMAIN jobs : jobs[i] \in Job
    BY <1>1, ShortLemma
  <2> QED BY <2>1 DEF Job
<1>3. ASSUME NEW b \in Owed(jobs) PROVE \E i \in DOMAIN jobs : b[1] = jobs[i].id
  <2>1. PICK i \in DOMAIN jobs : jobs[i].kind = "append" /\ \E k \in 1 .. Size : b = <<jobs[i].id, k>>
    BY <1>1, OwedIds
  <2> QED BY <2>1
<1>4. \A b \in Owed(jobs) : b[1] \in Nat /\ b[1] <= calls
  BY <1>1, <1>2, <1>3
<1>5. ASSUME Len(job) = 1, NEW b \in Owed(jobs) PROVE job[1].id < b[1]
  <2>1. 1 \in DOMAIN job
    BY <1>1, <1>5, ShortLemma
  <2> QED BY <1>3, <2>1 DEF OrderInv
<1>6. ASSUME jobs # <<>>, NEW b \in Owed(Tail(jobs)) PROVE Head(jobs).id < b[1]
  <2>1. /\ Tail(jobs) \in Seq(Job) /\ Head(jobs) = jobs[1] /\ 1 \in DOMAIN jobs
        /\ DOMAIN Tail(jobs) = 1 .. Len(jobs) - 1 /\ Len(jobs) \in Nat
        /\ \A i \in DOMAIN Tail(jobs) : i + 1 \in DOMAIN jobs /\ Tail(jobs)[i] = jobs[i + 1]
    BY <1>1, <1>6, TailLemma
  <2>2. PICK i \in DOMAIN Tail(jobs) : Tail(jobs)[i].kind = "append" /\ \E k \in 1 .. Size : b = <<Tail(jobs)[i].id, k>>
    BY <2>1, OwedIds
  <2>3. i \in Nat \ {0} /\ 1 < i + 1 /\ i + 1 \in DOMAIN jobs /\ b[1] = jobs[i + 1].id
    BY <2>1, <2>2
  <2>4. Rising(jobs)
    BY DEF OrderInv
  <2> QED BY <2>1, <2>3, <2>4 DEF Rising
<1> QED BY <1>4, <1>5, <1>6

\* A call changes nothing about the bytes, or brings those of its batch.
LEMMA AskBytes == PlacesInv /\ Asks => SameBytes \/ NewBytes
<1> SUFFICES ASSUME PlacesInv, Asks PROVE SameBytes \/ NewBytes
  OBVIOUS
<1>1. jobs \in Seq(Job) /\ calls \in Nat /\ calls + 1 \in Nat
  BY DEF PlacesInv, Types, QueuesOK
<1>2. ASSUME UNCHANGED <<job, offset>> PROVE InHand' = InHand
  BY <1>2 DEF InHand, Working, Rest
<1>3. ASSUME NEW j \in Job, AskSync(j) \/ AskFile(j) PROVE SameBytes
  <2>1. /\ jobs' = Append(jobs, j) /\ j.kind # "append"
        /\ UNCHANGED <<job, offset>> /\ UNCHANGED <<admitted, log, charged>>
    BY <1>3 DEF AskSync, AskFile, Async, storage
  <2>2. Owed(jobs') = Owed(jobs)
    BY <1>1, <2>1, OwedAppend
  <2> QED BY <1>2, <2>1, <2>2 DEF SameBytes, Left
<1>4. ASSUME NEW j \in Job, AskAppend(j) PROVE NewBytes
  <2>1. /\ jobs' = Append(jobs, j) /\ j.kind = "append" /\ j.id = calls + 1 /\ calls' = calls + 1
        /\ UNCHANGED <<job, offset>> /\ UNCHANGED <<log, charged>> /\ admitted' = admitted \cup {calls + 1}
    BY <1>4 DEF AskAppend, storage
  <2>2. Owed(jobs') = Owed(jobs) \cup Payload(calls + 1)
    BY <1>1, <2>1, OwedAppend
  <2> QED BY <1>2, <2>1, <2>2 DEF NewBytes, Left
<1>5. ASSUME AskNothing PROVE SameBytes \/ NewBytes
  <2>1. /\ UNCHANGED <<job, offset>> /\ UNCHANGED log /\ jobs' = jobs
        /\ \/ UNCHANGED <<admitted, charged>>
           \/ /\ calls' = calls + 1 /\ admitted' = admitted \cup {calls + 1}
              /\ charged' = charged \cup ToSet(Bytes(calls + 1))
    BY <1>5 DEF AskNothing, storage
  <2>2. ToSet(Bytes(calls + 1)) = Payload(calls + 1)
    BY <1>1, BytesLemma DEF Payload
  <2>3. Left' = Left
    BY <1>2, <2>1 DEF Left
  <2> QED BY <2>1, <2>2, <2>3 DEF SameBytes, NewBytes
<1> QED BY <1>3, <1>4, <1>5 DEF Asks

\* A job that ends takes the bytes it has not written with it.
LEMMA FinishBytes ==
  ASSUME PlacesInv, OrderInv, Finishes, UNCHANGED log
  PROVE  SameBytes \/ DropBytes
<1>1. PICK status \in Status :
        Done(status) /\ Len(job) = 1 /\ (job[1].kind = "append" /\ status = "ok" => offset = Size)
  BY DEF Finishes
<1>2. /\ job' = <<>> /\ jobs' = jobs /\ UNCHANGED <<admitted, log>>
      /\ charged' = IF job[1].kind = "append" /\ status # "ok"
                    THEN charged \cup {<<job[1].id, k>> : k \in offset + 1 .. Size} ELSE charged
  BY <1>1 DEF Done, Held, Finish
<1>3. InHand' = {} /\ Left' = Owed(jobs)
  BY <1>2 DEF InHand, Working, Left
<1>4. /\ job \in Seq(Job) /\ job # <<>> /\ offset \in 0 .. Size /\ Size \in Nat
      /\ InHand = IF job[1].kind = "append" THEN Rest(offset) ELSE {}
  <2>1. job \in Seq(Job) /\ offset \in 0 .. Size
    BY DEF PlacesInv, Types, QueuesOK
  <2>2. job # <<>>
    BY <1>1, <2>1, ShortLemma
  <2> QED BY <2>1, <2>2, FileJobsAssumption DEF InHand, Working
<1>5. CASE job[1].kind = "append" /\ status # "ok"
  <2>1. charged' = charged \cup Rest(offset) /\ InHand = Rest(offset)
    BY <1>2, <1>4, <1>5 DEF Rest
  <2>2. Owed(jobs) \cap Rest(offset) = {}
    <3>1. \A b \in Rest(offset) : b[1] = job[1].id
      BY DEF Rest
    <3>2. \A b \in Owed(jobs) : job[1].id < b[1] /\ b[1] \in Nat
      BY <1>1, OwedApart
    <3>3. job[1].id \in Nat
      <4>1. job[1] \in Job
        BY <1>1, <1>4, ShortLemma
      <4> QED BY <4>1 DEF Job
    <3> QED BY <3>1, <3>2, <3>3
  <2> QED BY <1>2, <1>3, <2>1, <2>2 DEF DropBytes, Left
<1>6. CASE ~(job[1].kind = "append" /\ status # "ok")
  <2>1. InHand = {}
    <3>1. offset = Size => Rest(offset) = {}
      BY <1>4 DEF Rest
    <3> QED BY <1>1, <1>4, <1>6, <3>1
  <2> QED BY <1>2, <1>3, <1>6, <2>1 DEF SameBytes, Left
<1> QED BY <1>5, <1>6

\* So does one that is cancelled; taking a job changes nothing.
LEMMA HeadBytes ==
  ASSUME PlacesInv, OrderInv, TakeJob \/ Cancel
  PROVE  SameBytes \/ DropBytes
<1>1. /\ jobs \in Seq(Job) /\ job \in Seq(Job) /\ Size \in Nat /\ WriterAtPlace
  BY FileJobsAssumption DEF PlacesInv, Types, QueuesOK
<1>2. /\ jobs # <<>> /\ jobs' = Tail(jobs) /\ UNCHANGED <<admitted, log, offset>> /\ writer = "loop"
  BY DEF TakeJob, Cancel, storage
<1> DEFINE P == IF Head(jobs).kind = "append" THEN Payload(Head(jobs).id) ELSE {}
<1>3. job = <<>> /\ offset = 0 /\ InHand = {}
  <2>1. Len(job) = 0 /\ offset = 0
    BY <1>2, <1>1 DEF WriterAtPlace
  <2>2. job = <<>>
    BY <1>1, <2>1, ShortLemma
  <2> QED BY <2>1, <2>2 DEF InHand, Working
<1>4. Owed(jobs) = Owed(jobs') \cup P
  BY <1>1, <1>2, OwedTail
<1>5. Owed(jobs') \cap P = {}
  <2>1. \A b \in P : b[1] = Head(jobs).id
    BY DEF Payload
  <2>2. \A b \in Owed(jobs') : Head(jobs).id < b[1]
    BY <1>2, OwedApart
  <2>3. Head(jobs).id \in Nat
    <3>1. Head(jobs) \in Job
      BY <1>1, <1>2, TailLemma
    <3> QED BY <3>1 DEF Job
  <2> QED BY <2>1, <2>2, <2>3
<1>6. Rest(0) = {<<job[1].id, k>> : k \in 1 .. Size}
  BY DEF Rest
<1>7. CASE TakeJob
  <2>1. job' = <<Head(jobs)>> /\ offset' = 0 /\ charged' = charged
    BY <1>3, <1>7 DEF TakeJob
  <2>2. job'[1] = Head(jobs) /\ job' # <<>>
    BY <2>1
  <2>3. InHand' = P
    BY <2>1, <2>2 DEF InHand, Working, Rest, Payload
  <2> HIDE DEF P
  <2> QED BY <1>2, <1>3, <1>4, <2>1, <2>3 DEF SameBytes, Left
<1>8. CASE Cancel
  <2>1. job' = job /\ charged' = charged \cup P
    <3>1. /\ job' = job
          /\ charged' = IF Head(jobs).kind = "append"
                        THEN charged \cup {<<Head(jobs).id, k>> : k \in 0 + 1 .. Size} ELSE charged
      BY <1>8 DEF Cancel, Finish
    <3> QED BY <3>1 DEF Payload
  <2>2. InHand' = {}
    BY <1>3, <2>1 DEF InHand, Working
  <2> HIDE DEF P
  <2> QED BY <1>2, <1>3, <1>4, <1>5, <2>1, <2>2 DEF DropBytes, Left
<1> QED BY <1>7, <1>8

\* A write is one to the log or has nothing to do with it.
LEMMA WriteSomeBytes == PlacesInv /\ WriteSome => SameBytes \/ WriteBytes
<1> SUFFICES ASSUME PlacesInv, WriteSome PROVE SameBytes \/ WriteBytes
  OBVIOUS
<1>1. Types /\ WriterAtPlace
  BY DEF PlacesInv
<1>2. PICK n \in offset + 1 .. Size :
        /\ Len(job) = 1 /\ offset' = n
        /\ IF Working({"append"}) THEN log' = log \o Part(n) /\ UNCHANGED temps ELSE UNCHANGED log
  BY <1>1, WriteShape
<1>3. UNCHANGED <<jobs, job>> /\ UNCHANGED <<admitted, charged>>
  BY DEF WriteSome
<1>4. InHand' = IF Working({"append"}) THEN Rest(n) ELSE {}
  BY <1>2, <1>3 DEF InHand, Working, Rest
<1>5. Owed(jobs') = Owed(jobs)
  BY <1>3
<1>6. CASE Working({"append"})
  BY <1>2, <1>3, <1>4, <1>5, <1>6 DEF WriteBytes, Left, InHand
<1>7. CASE ~Working({"append"})
  BY <1>2, <1>3, <1>4, <1>5, <1>7 DEF SameBytes, Left, InHand
<1> QED BY <1>6, <1>7

\* These are all the things a step may do to the bytes of the log.
LEMMA LogShape ==
  PlacesInv /\ OrderInv /\ [Next]_vars => SameBytes \/ NewBytes \/ DropBytes \/ WriteBytes
<1> SUFFICES ASSUME PlacesInv, OrderInv, [Next]_vars
             PROVE  SameBytes \/ NewBytes \/ DropBytes \/ WriteBytes
  OBVIOUS
<1>0. Types /\ WriterAtPlace /\ CallerAtPlace
  BY DEF PlacesInv
<1>1. ASSUME UNCHANGED <<jobs, job, offset>>, UNCHANGED <<admitted, charged>>, UNCHANGED log PROVE SameBytes
  BY <1>1 DEF SameBytes, Left, InHand, Working, Rest
<1>2. CASE Caller
  <2>1. CASE Asks
    BY <2>1, AskBytes
  <2>2. CASE TakeCompletion
    BY <1>1, <2>2 DEF TakeCompletion, storage
  <2>3. CASE WaitEnds
    BY <1>1, <2>3 DEF WaitEnds, storage
  <2> QED BY <1>0, <1>2, <2>1, <2>2, <2>3, CallerShape
<1>3. CASE Writer
  <2>1. log' = log
    BY <1>3, LogFrame
  <2>2. CASE Finishes
    BY <2>1, <2>2, FinishBytes
  <2>3. CASE GoesOn
    BY <1>1, <2>1, <2>3 DEF GoesOn, Goto, Held
  <2>4. CASE TakeJob \/ Cancel
    BY <2>4, HeadBytes
  <2>5. CASE Exit
    BY <1>1, <2>1, <2>5 DEF Exit
  <2> QED BY <1>0, <1>3, <2>2, <2>3, <2>4, <2>5, WriterShape
<1>4. CASE WriteSome
  BY <1>4, WriteSomeBytes
<1>5. CASE UNCHANGED vars
  BY <1>1, <1>5 DEF vars, storage
<1> QED BY <1>2, <1>3, <1>4, <1>5 DEF Next

\* The elements of a log that grows.
LEMMA GrownLog ==
  ASSUME NEW S, NEW s \in Seq(S), NEW t \in Seq(S)
  PROVE  /\ ToSet(s \o t) = ToSet(s) \cup ToSet(t)
         /\ \A i \in DOMAIN (s \o t) :
              \/ i \in DOMAIN s /\ (s \o t)[i] = s[i]
              \/ i \notin DOMAIN s /\ Len(s) < i /\ i - Len(s) \in DOMAIN t /\ (s \o t)[i] = t[i - Len(s)]
<1>1. /\ Len(s) \in Nat /\ Len(t) \in Nat /\ Len(s \o t) = Len(s) + Len(t) /\ s \o t \in Seq(S)
      /\ DOMAIN s = 1 .. Len(s) /\ DOMAIN t = 1 .. Len(t) /\ DOMAIN (s \o t) = 1 .. Len(s) + Len(t)
      /\ \A i \in 1 .. Len(s) + Len(t) : (s \o t)[i] = IF i <= Len(s) THEN s[i] ELSE t[i - Len(s)]
  OBVIOUS
<1> DEFINE u == s \o t
<1> HIDE DEF u
<1>2. /\ DOMAIN u = 1 .. Len(s) + Len(t)
      /\ \A i \in DOMAIN u : u[i] = IF i <= Len(s) THEN s[i] ELSE t[i - Len(s)]
  BY <1>1 DEF u
<1>3. ASSUME NEW i \in DOMAIN u
      PROVE  \/ i \in DOMAIN s /\ u[i] = s[i]
             \/ i \notin DOMAIN s /\ Len(s) < i /\ i - Len(s) \in DOMAIN t /\ u[i] = t[i - Len(s)]
  <2>1. i \in 1 .. Len(s) + Len(t)
    BY <1>2
  <2>2. CASE i <= Len(s)
    BY <1>1, <1>2, <2>1, <2>2
  <2>3. CASE ~(i <= Len(s))
    <3>1. i - Len(s) \in 1 .. Len(t) /\ Len(s) < i /\ i \notin 1 .. Len(s)
      BY <1>1, <2>1, <2>3
    <3> QED BY <1>1, <1>2, <2>3, <3>1
  <2> QED BY <2>2, <2>3
<1>4. \A i \in DOMAIN s : i \in DOMAIN u /\ u[i] = s[i]
  BY <1>1, <1>2
<1>5. ASSUME NEW i \in DOMAIN t PROVE i + Len(s) \in DOMAIN u /\ u[i + Len(s)] = t[i]
  <2>1. i + Len(s) \in 1 .. Len(s) + Len(t) /\ ~(i + Len(s) <= Len(s)) /\ (i + Len(s)) - Len(s) = i
    BY <1>1
  <2> QED BY <1>2, <2>1
<1>6. ToSet(u) = ToSet(s) \cup ToSet(t)
  BY <1>3, <1>4, <1>5 DEF ToSet
<1> QED BY <1>3, <1>6 DEF u

\* The bytes of the part that is written next.
LEMMA PartBytes ==
  ASSUME Types, Len(job) = 1, NEW n \in offset + 1 .. Size
  PROVE  ToSet(Part(n)) \cup Rest(n) = Rest(offset) /\ ToSet(Part(n)) \cap Rest(n) = {}
<1>1. /\ offset \in 0 .. Size /\ Size \in Nat /\ n \in Nat
  BY FileJobsAssumption DEF Types, QueuesOK
<1>2. /\ Part(n) \in Seq(Nat \X Nat) /\ Len(Part(n)) = n - offset
      /\ \A i \in 1 .. n - offset : Part(n)[i] = <<job[1].id, offset + i>>
  BY PartLemma
<1>3. DOMAIN Part(n) = 1 .. n - offset
  BY <1>2
<1>4. ToSet(Part(n)) = {<<job[1].id, k>> : k \in offset + 1 .. n}
  <2>1. ASSUME NEW i \in DOMAIN Part(n) PROVE offset + i \in offset + 1 .. n /\ Part(n)[i] = <<job[1].id, offset + i>>
    BY <1>1, <1>2, <1>3
  <2>2. ASSUME NEW k \in offset + 1 .. n PROVE k - offset \in DOMAIN Part(n) /\ Part(n)[k - offset] = <<job[1].id, k>>
    <3>1. k - offset \in 1 .. n - offset /\ offset + (k - offset) = k
      BY <1>1
    <3> QED BY <1>2, <1>3, <3>1
  <2> QED BY <2>1, <2>2 DEF ToSet
<1>5. /\ offset + 1 .. Size = (offset + 1 .. n) \cup (n + 1 .. Size)
      /\ (offset + 1 .. n) \cap (n + 1 .. Size) = {}
  BY <1>1
<1> QED BY <1>4, <1>5 DEF Rest

\* A call has the next number or takes none.
LEMMA CallsGrow == PlacesInv /\ [Next]_vars => calls' \in {calls, calls + 1}
<1> SUFFICES ASSUME PlacesInv, [Next]_vars PROVE calls' \in {calls, calls + 1}
  OBVIOUS
<1>0. Types /\ WriterAtPlace /\ CallerAtPlace
  BY DEF PlacesInv
<1>1. CASE Asks
  BY <1>1 DEF Asks, AskSync, AskAppend, AskFile, AskNothing
<1>2. CASE TakeCompletion \/ WaitEnds \/ TakeJob \/ Cancel \/ Exit
  BY <1>2 DEF TakeCompletion, WaitEnds, TakeJob, Cancel, Exit
<1>3. CASE Finishes \/ GoesOn
  BY <1>3 DEF Finishes, Done, GoesOn, Goto, Held
<1>4. CASE WriteSome \/ UNCHANGED vars
  BY <1>4 DEF WriteSome, vars
<1> QED BY <1>0, <1>1, <1>2, <1>3, <1>4, CallerShape, WriterShape DEF Next

\* Every byte accepted stays accounted for.
LEMMA AccountStep ==
  PlacesInv /\ OrderInv /\ AccountInv /\ [Next]_vars => AccountInv'
<1> SUFFICES ASSUME PlacesInv, OrderInv, AccountInv, [Next]_vars PROVE AccountInv'
  OBVIOUS
<1>0. /\ calls \in Nat /\ calls + 1 \in Nat /\ log \in Seq(Nat \X Nat) /\ Types /\ admitted \in SUBSET Nat
  BY DEF PlacesInv, Types, QueuesOK, LogOK
<1> DEFINE W == ToSet(log)
<1>1. /\ Accepted(admitted) = W \cup charged \cup Left
      /\ W \cap charged = {} /\ W \cap Left = {} /\ charged \cap Left = {}
      /\ \A id \in admitted : id <= calls
  BY DEF AccountInv, Left
<1>2. calls' \in {calls, calls + 1}
  BY CallsGrow
<1>3. SUFFICES /\ Accepted(admitted') = W' \cup charged' \cup Left'
               /\ W' \cap charged' = {} /\ W' \cap Left' = {} /\ charged' \cap Left' = {}
               /\ \A id \in admitted' : id <= calls'
  BY DEF AccountInv, Left
<1>4. \A id \in admitted : id <= calls'
  BY <1>0, <1>1, <1>2
<1> HIDE DEF W
<1>5. CASE SameBytes
  BY <1>1, <1>4, <1>5 DEF SameBytes, W
<1>6. CASE NewBytes
  <2>1. Accepted(admitted') = Accepted(admitted) \cup Payload(calls + 1)
    BY <1>6 DEF NewBytes, Accepted
  <2>2. Accepted(admitted) \cap Payload(calls + 1) = {}
    <3>1. \A b \in Accepted(admitted) : b[1] \in admitted
      BY DEF Accepted, Payload
    <3>2. \A b \in Payload(calls + 1) : b[1] = calls + 1
      BY DEF Payload
    <3>3. calls + 1 \notin admitted
      BY <1>0, <1>1
    <3> QED BY <3>1, <3>2, <3>3
  <2>3. \A id \in admitted' : id <= calls'
    BY <1>0, <1>4, <1>6 DEF NewBytes
  <2>4. W' = W
    BY <1>6 DEF NewBytes, W
  <2> QED BY <1>1, <1>6, <2>1, <2>2, <2>3, <2>4 DEF NewBytes
<1>7. CASE DropBytes
  <2>1. W' = W /\ admitted' = admitted
    BY <1>7 DEF DropBytes, W
  <2> QED BY <1>1, <1>4, <1>7, <2>1 DEF DropBytes
<1>8. CASE WriteBytes
  <2>1. PICK n \in offset + 1 .. Size : log' = log \o Part(n) /\ Left' = Owed(jobs) \cup Rest(n)
    BY <1>8 DEF WriteBytes
  <2>2. Len(job) = 1 /\ Left = Owed(jobs) \cup Rest(offset) /\ admitted' = admitted /\ charged' = charged
    BY <1>8 DEF WriteBytes, Left
  <2>3. ToSet(Part(n)) \cup Rest(n) = Rest(offset) /\ ToSet(Part(n)) \cap Rest(n) = {}
    BY <1>0, <2>2, PartBytes
  <2>4. W' = W \cup ToSet(Part(n))
    <3>1. Part(n) \in Seq(Nat \X Nat)
      BY <1>0, <2>2, PartLemma
    <3> QED BY <1>0, <2>1, <3>1, GrownLog DEF W
  <2>5. ToSet(Part(n)) \cap Owed(jobs) = {}
    <3>1. \A b \in Owed(jobs) : b[1] \in Nat /\ job[1].id < b[1]
      BY <2>2, OwedApart
    <3>2. \A b \in Rest(offset) : b[1] = job[1].id
      BY DEF Rest
    <3>3. job[1].id \in Nat
      <4>1. job[1] \in Job
        BY <1>0, <2>2, ShortLemma DEF Types, QueuesOK
      <4> QED BY <4>1 DEF Job
    <3> QED BY <2>3, <3>1, <3>2, <3>3
  <2> QED BY <1>1, <1>4, <2>1, <2>2, <2>3, <2>4, <2>5
<1> QED BY <1>5, <1>6, <1>7, <1>8, LogShape

\* The log stays in order, and before what is to be written.
LEMMA LogOrderStep ==
  PlacesInv /\ OrderInv /\ AccountInv /\ LogOrderInv /\ [Next]_vars => LogOrderInv'
<1> SUFFICES ASSUME PlacesInv, OrderInv, AccountInv, LogOrderInv, [Next]_vars PROVE LogOrderInv'
  OBVIOUS
<1>0. /\ calls \in Nat /\ calls + 1 \in Nat /\ log \in Seq(Nat \X Nat) /\ Types /\ admitted \in SUBSET Nat
      /\ offset \in 0 .. Size /\ Size \in Nat
  BY FileJobsAssumption DEF PlacesInv, Types, QueuesOK, LogOK
<1>1. /\ \A i, k \in DOMAIN log : i < k => Before(log[i], log[k])
      /\ \A i \in DOMAIN log : \A b \in Left : Before(log[i], b)
  BY DEF LogOrderInv, LogInOrder, Left
<1>2. SUFFICES /\ \A i, k \in DOMAIN log' : i < k => Before(log'[i], log'[k])
               /\ \A i \in DOMAIN log' : \A b \in Left' : Before(log'[i], b)
  BY DEF LogOrderInv, LogInOrder, Left
<1>3. CASE SameBytes
  BY <1>1, <1>3 DEF SameBytes
<1>4. CASE NewBytes
  <2>1. log' = log /\ Left' \subseteq Left \cup Payload(calls + 1)
    BY <1>4 DEF NewBytes
  <2>2. ASSUME NEW i \in DOMAIN log, NEW b \in Payload(calls + 1) PROVE Before(log[i], b)
    <3>1. log[i] \in Accepted(admitted)
      BY DEF AccountInv, ToSet
    <3>2. log[i][1] \in admitted
      BY <3>1 DEF Accepted, Payload
    <3>3. log[i][1] <= calls /\ log[i][1] \in Nat
      BY <1>0, <3>2 DEF AccountInv
    <3>4. b[1] = calls + 1
      BY DEF Payload
    <3> QED BY <1>0, <3>3, <3>4 DEF Before
  <2> QED BY <1>1, <2>1, <2>2
<1>5. CASE DropBytes
  BY <1>1, <1>5 DEF DropBytes
<1>6. CASE WriteBytes
  <2>1. PICK n \in offset + 1 .. Size : log' = log \o Part(n) /\ Left' = Owed(jobs) \cup Rest(n)
    BY <1>6 DEF WriteBytes
  <2>2. Len(job) = 1 /\ Left = Owed(jobs) \cup Rest(offset)
    BY <1>6 DEF WriteBytes, Left
  <2>3. /\ Part(n) \in Seq(Nat \X Nat) /\ DOMAIN Part(n) = 1 .. n - offset
        /\ \A i \in 1 .. n - offset : Part(n)[i] = <<job[1].id, offset + i>>
        /\ n \in Nat
    <3>1. /\ Part(n) \in Seq(Nat \X Nat) /\ Len(Part(n)) = n - offset
          /\ \A i \in 1 .. n - offset : Part(n)[i] = <<job[1].id, offset + i>>
      BY <1>0, <2>2, PartLemma
    <3>2. DOMAIN Part(n) = 1 .. n - offset
      BY <3>1
    <3> QED BY <1>0, <3>1, <3>2
  <2>4. /\ \A i \in DOMAIN Part(n) : Part(n)[i] \in Left
        /\ Rest(n) \subseteq Left
    <3>1. ToSet(Part(n)) \cup Rest(n) = Rest(offset)
      BY <1>0, <2>2, PartBytes
    <3> QED BY <2>2, <3>1 DEF ToSet
  <2>5. \A i, k \in DOMAIN Part(n) : i < k => Before(Part(n)[i], Part(n)[k])
    <3>1. SUFFICES ASSUME NEW i \in DOMAIN Part(n), NEW k \in DOMAIN Part(n), i < k
                   PROVE  Before(Part(n)[i], Part(n)[k])
      OBVIOUS
    <3>2. Part(n)[i] = <<job[1].id, offset + i>> /\ Part(n)[k] = <<job[1].id, offset + k>>
      BY <2>3
    <3>3. offset + i < offset + k
      BY <1>0, <2>3, <3>1
    <3> QED BY <3>2, <3>3 DEF Before
  <2>6. \A i \in DOMAIN Part(n) : \A b \in Left' : Before(Part(n)[i], b)
    <3>1. ASSUME NEW i \in DOMAIN Part(n), NEW b \in Owed(jobs) PROVE Before(Part(n)[i], b)
      <4>1. job[1].id < b[1]
        BY <2>2, OwedApart
      <4> QED BY <2>3, <4>1 DEF Before
    <3>2. ASSUME NEW i \in DOMAIN Part(n), NEW b \in Rest(n) PROVE Before(Part(n)[i], b)
      <4>1. PICK k \in n + 1 .. Size : b = <<job[1].id, k>>
        BY DEF Rest
      <4>2. offset + i < k
        BY <1>0, <2>3
      <4> QED BY <2>3, <4>1, <4>2 DEF Before
    <3> QED BY <2>1, <3>1, <3>2
  <2>7. \A i \in DOMAIN log' :
              \/ i \in DOMAIN log /\ log'[i] = log[i] /\ i <= Len(log)
              \/ Len(log) < i /\ i - Len(log) \in DOMAIN Part(n) /\ log'[i] = Part(n)[i - Len(log)] /\ i \in Nat
    <3>1. DOMAIN log = 1 .. Len(log) /\ Len(log) \in Nat /\ DOMAIN (log \o Part(n)) \subseteq Nat
      BY <1>0, <2>3
    <3>2. \A i \in DOMAIN (log \o Part(n)) :
              \/ i \in DOMAIN log /\ (log \o Part(n))[i] = log[i]
              \/ i \notin DOMAIN log /\ Len(log) < i /\ i - Len(log) \in DOMAIN Part(n)
                 /\ (log \o Part(n))[i] = Part(n)[i - Len(log)]
      BY <1>0, <2>3, GrownLog
    <3> QED BY <2>1, <3>1, <3>2
  <2>8. ASSUME NEW i \in DOMAIN log', NEW k \in DOMAIN log', i < k PROVE Before(log'[i], log'[k])
    <3>1. DOMAIN log = 1 .. Len(log) /\ Len(log) \in Nat
      BY <1>0
    <3>2. CASE k \in DOMAIN log /\ log'[k] = log[k] /\ k <= Len(log)
      <4>1. i \in DOMAIN log /\ log'[i] = log[i]
        BY <2>7, <2>8, <3>1, <3>2
      <4> QED BY <1>1, <2>8, <3>2, <4>1
    <3>3. CASE Len(log) < k /\ k - Len(log) \in DOMAIN Part(n) /\ log'[k] = Part(n)[k - Len(log)] /\ k \in Nat
      <4>1. CASE i \in DOMAIN log /\ log'[i] = log[i] /\ i <= Len(log)
        BY <1>1, <2>4, <3>3, <4>1
      <4>2. CASE Len(log) < i /\ i - Len(log) \in DOMAIN Part(n) /\ log'[i] = Part(n)[i - Len(log)] /\ i \in Nat
        <5>1. i - Len(log) < k - Len(log)
          BY <2>8, <3>1, <3>3, <4>2
        <5> QED BY <2>5, <3>3, <4>2, <5>1
      <4> QED BY <2>7, <4>1, <4>2
    <3> QED BY <2>7, <3>2, <3>3
  <2>9. Left' \subseteq Left
    BY <2>1, <2>2, <2>4
  <2>10. ASSUME NEW i \in DOMAIN log', NEW b \in Left' PROVE Before(log'[i], b)
    BY <1>1, <2>6, <2>7, <2>9
  <2> QED BY <2>8, <2>10
<1> QED BY <1>3, <1>4, <1>5, <1>6, LogShape

\* A status that a call waits for stays, unless its job ends.
LEMMA SyncStep ==
  PlacesInv /\ OrderInv /\ TicketInv /\ AccountInv /\ SyncInv /\ [Next]_vars => SyncInv'
<1> SUFFICES ASSUME PlacesInv, OrderInv, TicketInv, AccountInv, SyncInv, [Next]_vars,
                    ticket' # <<>>, ticket'[1].kind \in {"flush", "close"},
                    waiters'[ticket'[1].waiter].status = "ok",
                    NEW id \in admitted', id < ticket'[1].id
             PROVE  Payload(id) \subseteq ToSet(log') \cup charged'
  BY DEF SyncInv
<1>0. /\ Types /\ WriterAtPlace /\ CallerAtPlace /\ calls \in Nat /\ admitted \in SUBSET Nat
      /\ waiters \in [Waiters -> [refs : Int, status : Status \cup {"none"}]]
      /\ jobs \in Seq(Job) /\ job \in Seq(Job) /\ ticket \in Seq(Job)
  BY DEF PlacesInv, Types, QueuesOK, LogOK
<1>1. ToSet(log) \cup charged \subseteq ToSet(log') \cup charged'
  <2>1. CASE SameBytes \/ NewBytes \/ DropBytes
    BY <2>1 DEF SameBytes, NewBytes, DropBytes
  <2>2. CASE WriteBytes
    <3>1. PICK n \in offset + 1 .. Size : log' = log \o Part(n)
      BY <2>2 DEF WriteBytes
    <3>2. Part(n) \in Seq(Nat \X Nat) /\ log \in Seq(Nat \X Nat)
      BY <1>0, <2>2, PartLemma DEF WriteBytes, Types, LogOK
    <3> QED BY <2>2, <3>1, <3>2, GrownLog DEF WriteBytes
  <2> QED BY <2>1, <2>2, LogShape
<1>2. ASSUME UNCHANGED ticket
      PROVE  /\ ticket # <<>> /\ ticket[1].waiter \in Waiters /\ ticket[1].id <= calls
             /\ ticket[1].kind \in {"flush", "close"} /\ ticket[1].id \in Nat /\ id < ticket[1].id
  <2>1. ticket # <<>> /\ ticket[1].kind \in {"flush", "close"} /\ id < ticket[1].id
    BY <1>2
  <2>2. Len(ticket) = 1
    BY <1>0, <2>1, ShortLemma DEF CallerAtPlace
  <2>3. ticket[1] \in Job
    BY <1>0, <2>2, ShortLemma
  <2>4. ticket[1].id \in Nat
    BY <2>3 DEF Job
  <2> QED BY <2>1, <2>4 DEF TicketInv
<1>3. ASSUME UNCHANGED ticket, waiters'[ticket[1].waiter] = waiters[ticket[1].waiter]
      PROVE  Payload(id) \subseteq ToSet(log') \cup charged'
  <2>1. id \in admitted
    <3>1. admitted' \subseteq admitted \cup {calls + 1}
      BY LogShape DEF SameBytes, NewBytes, DropBytes, WriteBytes
    <3> QED BY <1>0, <1>2, <1>3, <3>1
  <2>2. waiters[ticket[1].waiter].status = "ok"
    BY <1>3
  <2> QED BY <1>1, <1>2, <1>3, <2>1, <2>2 DEF SyncInv
<1>4. ASSUME NEW j \in Job, AskSync(j) PROVE FALSE
  <2>1. /\ ticket' = <<j>> /\ j.waiter \in Waiters
        /\ waiters' = [waiters EXCEPT ![j.waiter] = [refs |-> 2, status |-> "none"]]
    BY <1>4 DEF AskSync, IdleWaiters
  <2>2. ticket'[1] = j
    BY <2>1, OneLemma
  <2>3. waiters'[j.waiter].status = "none"
    BY <1>0, <2>1
  <2> QED BY <2>2, <2>3
<1>5. CASE Asks
  <2>1. ASSUME NEW j \in Job, AskAppend(j) \/ AskFile(j) PROVE UNCHANGED ticket /\ UNCHANGED waiters
    BY <2>1 DEF AskAppend, AskFile
  <2>2. ASSUME AskNothing PROVE UNCHANGED ticket /\ UNCHANGED waiters
    BY <2>2 DEF AskNothing
  <2>3. UNCHANGED ticket /\ UNCHANGED waiters
    BY <1>4, <1>5, <2>1, <2>2 DEF Asks
  <2> QED BY <1>3, <2>3
<1>6. CASE TakeCompletion \/ TakeJob \/ GoesOn \/ Exit \/ WriteSome \/ UNCHANGED vars
  <2>1. UNCHANGED ticket /\ UNCHANGED waiters
    BY <1>6 DEF TakeCompletion, TakeJob, GoesOn, Goto, Held, Exit, WriteSome, vars, callerT
  <2> QED BY <1>3, <2>1
<1>7. CASE WaitEnds
  BY <1>7 DEF WaitEnds
<1>8. ASSUME NEW j \in Job, NEW done, NEW status \in Status, Finish(j, done, status), UNCHANGED ticket,
             status = "ok" /\ j = ticket[1] => Payload(id) \subseteq ToSet(log') \cup charged',
             j.waiter = ticket[1].waiter => j = ticket[1]
      PROVE  Payload(id) \subseteq ToSet(log') \cup charged'
  <2>1. waiters' = IF j.waiter = "none" THEN waiters
                   ELSE [waiters EXCEPT ![j.waiter] = [refs |-> @.refs - 1, status |-> status]]
    BY <1>8 DEF Finish
  <2>2. CASE j.waiter = ticket[1].waiter
    <3>1. ticket[1].waiter \in Waiters /\ j.waiter # "none"
      BY <1>2, <1>8, <2>2, FileJobsAssumption
    <3>2. waiters'[ticket[1].waiter].status = status
      BY <1>0, <2>1, <2>2, <3>1
    <3> QED BY <1>8, <2>2, <3>2
  <2>3. CASE j.waiter # ticket[1].waiter
    <3>1. waiters'[ticket[1].waiter] = waiters[ticket[1].waiter]
      BY <1>0, <1>2, <1>8, <2>1, <2>3
    <3> QED BY <1>3, <1>8, <3>1
  <2> QED BY <2>2, <2>3
<1>9. CASE Finishes
  <2>1. PICK status \in Status : Done(status) /\ Len(job) = 1
    BY <1>9 DEF Finishes
  <2>2. Finish(job[1], offset, status) /\ UNCHANGED ticket /\ admitted' = admitted
    BY <2>1 DEF Done, Held, callerT
  <2>3. job[1] \in Job /\ 1 \in DOMAIN job /\ job # <<>>
    BY <1>0, <2>1, ShortLemma
  <2>4. job[1].waiter = ticket[1].waiter => job[1] = ticket[1]
    BY <1>2, <2>2, <2>3 DEF TicketInv
  <2>5. ASSUME job[1] = ticket[1] PROVE Payload(id) \subseteq ToSet(log') \cup charged'
    <3>1. InHand = {}
      BY <1>2, <2>2, <2>5 DEF InHand, Working
    <3>2. \A b \in Owed(jobs) : b[1] \in Nat /\ ticket[1].id < b[1]
      BY <2>1, <2>5, OwedApart
    <3>3. \A b \in Payload(id) : b[1] = id /\ b \in Accepted(admitted)
      BY <2>2 DEF Payload, Accepted
    <3>4. id \in Nat /\ id < ticket[1].id /\ ticket[1].id \in Nat
      BY <1>0, <1>2, <2>2
    <3>5. Payload(id) \cap Owed(jobs) = {}
      BY <3>2, <3>3, <3>4
    <3>6. Payload(id) \subseteq ToSet(log) \cup charged
      BY <3>1, <3>3, <3>5 DEF AccountInv
    <3> QED BY <1>1, <3>6
  <2> QED BY <1>8, <2>2, <2>3, <2>4, <2>5
<1>10. CASE Cancel
  <2>1. Finish(Head(jobs), 0, "timeout") /\ UNCHANGED ticket /\ jobs # <<>>
    BY <1>10 DEF Cancel, callerT
  <2>2. Head(jobs) \in Job /\ Head(jobs) = jobs[1] /\ 1 \in DOMAIN jobs
    BY <1>0, <2>1, TailLemma
  <2>3. Head(jobs).waiter = ticket[1].waiter => Head(jobs) = ticket[1]
    BY <1>2, <2>1, <2>2 DEF TicketInv
  <2>4. "timeout" \in Status /\ "timeout" # "ok"
    BY DEF Status
  <2> QED BY <1>8, <2>1, <2>2, <2>3, <2>4
<1> QED BY <1>0, <1>5, <1>6, <1>7, <1>9, <1>10, CallerShape, WriterShape DEF Next

\* An empty log has them all.
LEMMA LogInit == Init => LogInv
<1> SUFFICES ASSUME Init PROVE LogInv
  OBVIOUS
<1>1. /\ log = <<>> /\ charged = {} /\ admitted = {} /\ jobs = <<>> /\ job = <<>> /\ ticket = <<>>
  BY DEF Init
<1>2. ToSet(log) = {} /\ DOMAIN log = {} /\ Owed(jobs) = {} /\ InHand = {} /\ Accepted(admitted) = {}
  BY <1>1, EmptyLemma, OwedEmpty DEF ToSet, InHand, Working, Accepted
<1>3. AccountInv
  BY <1>1, <1>2 DEF AccountInv
<1>4. LogOrderInv
  BY <1>2 DEF LogOrderInv, LogInOrder
<1>5. SyncInv
  BY <1>1 DEF SyncInv
<1> QED BY <1>3, <1>4, <1>5 DEF LogInv

\* Every byte the log accepted is written, charged or still to be written, and
\* exactly one of these; the log is in the order of the appends, whatever was
\* retried; a flush or close that succeeded has every earlier append behind it.
THEOREM LogIsExact == Spec => []LogExact
<1>1. Init => TicketInv /\ LogInv
  BY TicketInit, LogInit
<1>2. /\ PlacesInv /\ CountsInv /\ OrderInv /\ TicketInv /\ LogInv /\ [Next]_vars
      => TicketInv' /\ LogInv'
  BY TicketStep, AccountStep, LogOrderStep, SyncStep DEF LogInv
<1>3. PlacesInv /\ TicketInv /\ LogInv => LogExact
  <2> SUFFICES ASSUME PlacesInv, TicketInv, LogInv PROVE LogExact
    OBVIOUS
  <2>1. /\ OutstandingBytes = Owed(jobs) \cup InHand
        /\ UNION {ToSet(Bytes(id)) : id \in admitted} = Accepted(admitted)
        /\ \A id \in admitted : ToSet(Bytes(id)) = Payload(id)
    BY OutstandingLemma
  <2>2. BytesAccounted
    BY <2>1 DEF LogInv, AccountInv, BytesAccounted
  <2>3. caller = "wait" => ticket # <<>>
    BY ShortLemma DEF PlacesInv, CallerAtPlace
  <2>4. SyncMeansWritten
    BY <2>1, <2>3 DEF LogInv, SyncInv, SyncMeansWritten
  <2> QED BY <2>2, <2>4 DEF LogExact, LogInv, LogOrderInv
<1> QED BY <1>1, <1>2, <1>3, CountsAlways, PTL DEF Spec

-----------------------------------------------------------------------------
(* What is in the files.                                                   *)

\* Where a part begins: each takes Size bytes.
Base(i) == Size * (i - 1)
\* Parts begin at 0, are Size apart, and do not overlap.
LEMMA BaseLemma ==
  /\ Base(1) = 0 /\ \A n \in Nat : Size * n = Base(n + 1)
  /\ \A i \in Nat \ {0} : Base(i) \in Nat /\ Base(i + 1) = Base(i) + Size
  /\ \A i, j \in Nat \ {0} : i < j => Base(i) + Size <= Base(j)
<1>0. Size \in Nat
  BY FileJobsAssumption
<1>1. \A a, b \in Nat : Size * (a + b) = Size * a + Size * b /\ Size * a \in Nat
  BY <1>0
<1>2. Size * 0 = 0 /\ Size * 1 = Size
  BY <1>0
<1>3. \A n \in Nat : Base(n + 1) = Size * n
  <2>1. \A n \in Nat : (n + 1) - 1 = n
    OBVIOUS
  <2> QED BY <2>1 DEF Base
<1>4. ASSUME NEW i \in Nat \ {0} PROVE \E a \in Nat : i = a + 1
  <2>1. i - 1 \in Nat /\ i = (i - 1) + 1
    OBVIOUS
  <2> QED BY <2>1
<1>5. ASSUME NEW a \in Nat PROVE Base(a + 1) \in Nat /\ Base((a + 1) + 1) = Base(a + 1) + Size
  <2>1. Base(a + 1) = Size * a /\ Base((a + 1) + 1) = Size * (a + 1) /\ Size * a \in Nat
    BY <1>1, <1>3
  <2>2. Size * (a + 1) = Size * a + Size * 1
    BY <1>1
  <2> QED BY <2>1, <2>2, <1>2
<1>6. ASSUME NEW i \in Nat \ {0}, NEW j \in Nat \ {0}, i < j PROVE Base(i) + Size <= Base(j)
  <2>1. PICK a \in Nat : i = a + 1
    BY <1>4
  <2>2. j - (i + 1) \in Nat /\ j = ((a + 1) + (j - (i + 1))) + 1
    BY <1>6, <2>1
  <2>3. PICK d \in Nat : j = ((a + 1) + d) + 1
    BY <2>2
  <2>4. Base(i) = Size * a /\ Base(j) = Size * ((a + 1) + d)
    BY <1>3, <2>1, <2>3
  <2>5. /\ Size * ((a + 1) + d) = Size * (a + 1) + Size * d /\ Size * d \in Nat
        /\ Size * (a + 1) = Size * a + Size * 1 /\ Size * a \in Nat
    <3>1. a + 1 \in Nat /\ 1 \in Nat
      OBVIOUS
    <3> QED BY <1>1, <3>1
  <2> DEFINE x == Size * ((a + 1) + d)
             y == Size * (a + 1)
             z == Size * a
             v == Size * d
  <2>6. x = y + v /\ v \in Nat /\ y = z + Size /\ z \in Nat
    BY <2>5, <1>2
  <2> HIDE DEF x, y, z, v
  <2>7. z + Size <= x
    BY <2>6, <1>0
  <2> QED BY <2>4, <2>7 DEF x, z
<1>7. Base(1) = 0
  BY <1>2, <1>3
<1> QED BY <1>3, <1>4, <1>5, <1>6, <1>7

\* Filled, with the places of the parts named.
LEMMA FilledLemma ==
  \A bytes, parts, n :
    Filled(bytes, parts, n) <=>
      /\ Len(bytes) = n
      /\ \A i \in DOMAIN parts, k \in 1 .. Size : Base(i) + k <= n => bytes[Base(i) + k] = <<parts[i], k>>
BY DEF Filled, Base

\* Nothing is filled with nothing.
LEMMA FilledEmpty ==
  /\ Filled(<<>>, <<>>, 0)
  /\ \A id \in Nat : Filled(<<>>, <<id>>, 0)
<1>1. Len(<<>>) = 0 /\ DOMAIN <<>> = {}
  BY EmptyLemma
<1>2. Filled(<<>>, <<>>, 0)
  BY <1>1, FilledLemma
<1>3. ASSUME NEW id \in Nat PROVE Filled(<<>>, <<id>>, 0)
  <2>1. DOMAIN <<id>> = {1}
    BY OneLemma
  <2>2. \A i \in {1}, k \in 1 .. Size : ~(Base(i) + k <= 0)
    BY BaseLemma, FileJobsAssumption
  <2> QED BY <1>1, <2>1, <2>2, FilledLemma
<1> QED BY <1>2, <1>3

\* A part that is begun has nothing written of it.
LEMMA FilledBegin ==
  ASSUME NEW bytes, NEW parts \in Seq(Nat), NEW id \in Nat, NEW n \in Nat, n = Size * Len(parts), Filled(bytes, parts, n)
  PROVE  Filled(bytes, Append(parts, id), n) /\ n = Size * Len(Append(parts, id)) - Size
<1>1. /\ DOMAIN parts = 1 .. Len(parts) /\ DOMAIN Append(parts, id) = DOMAIN parts \cup {Len(parts) + 1}
      /\ \A i \in DOMAIN parts : Append(parts, id)[i] = parts[i]
      /\ Len(parts) \in Nat /\ Len(Append(parts, id)) = Len(parts) + 1
  BY AppendLemma
<1> DEFINE l == Len(parts)
           q == Append(parts, id)
<1>2. n = Base(l + 1) /\ l \in Nat /\ Len(q) = l + 1 /\ l + 1 \in Nat \ {0}
  <2>1. l \in Nat /\ n = Size * l /\ Len(q) = l + 1
    BY <1>1
  <2> HIDE DEF l, q
  <2>2. Size * l = Base(l + 1) /\ l + 1 \in Nat \ {0}
    BY <2>1, BaseLemma
  <2> QED BY <2>1, <2>2
<1>3. \A k \in 1 .. Size : ~(Base(l + 1) + k <= n)
  BY <1>2, FileJobsAssumption
<1>4. DOMAIN q = DOMAIN parts \cup {l + 1} /\ \A i \in DOMAIN parts : q[i] = parts[i]
  BY <1>1
<1> HIDE DEF l, q
<1>5. Filled(bytes, q, n)
  BY <1>3, <1>4, FilledLemma
<1>6. n = Size * Len(q) - Size
  <2>1. Size * Len(q) = Base((l + 1) + 1)
    BY <1>2, BaseLemma
  <2>2. Base((l + 1) + 1) = Base(l + 1) + Size /\ Base(l + 1) \in Nat
    BY <1>2, BaseLemma
  <2> QED BY <1>2, <2>1, <2>2, FileJobsAssumption
<1> QED BY <1>5, <1>6 DEF q

\* A write fills on where the last one ended, in the last part.
LEMMA FilledWrite ==
  ASSUME Types, Len(job) = 1, NEW n \in offset + 1 .. Size,
         NEW bytes \in Seq(Nat \X Nat), NEW parts \in Seq(Nat), parts # <<>>, parts[Len(parts)] = job[1].id,
         Filled(bytes, parts, Base(Len(parts)) + offset)
  PROVE  Filled(bytes \o Part(n), parts, Base(Len(parts)) + n)
<1>0. /\ offset \in 0 .. Size /\ Size \in Nat /\ n \in 0 .. Size /\ offset < n /\ n \in Nat /\ offset \in Nat
  BY FileJobsAssumption DEF Types, QueuesOK
<1> DEFINE l == Len(parts)
           m == Base(l) + offset
           b == bytes \o Part(n)
<1>1. l \in Nat \ {0} /\ DOMAIN parts = 1 .. l /\ Base(l) \in Nat
  <2>1. l \in Nat \ {0} /\ DOMAIN parts = 1 .. l
    OBVIOUS
  <2> QED BY <2>1, BaseLemma
<1>2. /\ Len(bytes) = m /\ m \in Nat
      /\ \A i \in DOMAIN parts, k \in 1 .. Size : Base(i) + k <= m => bytes[Base(i) + k] = <<parts[i], k>>
  <2>1. Filled(bytes, parts, m)
    OBVIOUS
  <2>2. m \in Nat
    BY <1>0, <1>1
  <2> HIDE DEF m
  <2> QED BY <2>1, <2>2, FilledLemma
<1>3. /\ Part(n) \in Seq(Nat \X Nat) /\ Len(Part(n)) = n - offset
      /\ \A i \in 1 .. n - offset : Part(n)[i] = <<job[1].id, offset + i>>
  BY PartLemma
<1>4. /\ Len(b) = Len(bytes) + Len(Part(n))
      /\ \A x \in 1 .. Len(bytes) : b[x] = bytes[x]
      /\ \A x \in 1 .. Len(Part(n)) : b[Len(bytes) + x] = Part(n)[x]
  <2> DEFINE S == Nat \X Nat
             p == Part(n)
  <2>1. bytes \in Seq(S) /\ p \in Seq(S)
    BY <1>3
  <2> HIDE DEF S, p
  <2>2. /\ Len(bytes \o p) = Len(bytes) + Len(p)
        /\ \A x \in 1 .. Len(bytes) : (bytes \o p)[x] = bytes[x]
        /\ \A x \in 1 .. Len(p) : (bytes \o p)[Len(bytes) + x] = p[x]
    BY <2>1
  <2> QED BY <2>2 DEF p
<1> HIDE DEF l, m, b
<1>5. Len(b) = Base(l) + n
  BY <1>0, <1>1, <1>2, <1>3, <1>4 DEF m
<1>6. ASSUME NEW i \in DOMAIN parts, NEW k \in 1 .. Size, Base(i) + k <= Base(l) + n
      PROVE  b[Base(i) + k] = <<parts[i], k>>
  <2>1. Base(i) \in Nat /\ i \in Nat \ {0} /\ i <= l /\ k \in Nat /\ 1 <= k /\ k <= Size
    <3>1. i \in Nat \ {0} /\ i <= l
      BY <1>1
    <3>2. Base(i) \in Nat
      BY <3>1, BaseLemma
    <3> QED BY <1>0, <3>1, <3>2
  <2>2. CASE Base(i) + k <= m
    <3>1. Base(i) + k \in 1 .. Len(bytes)
      <4> DEFINE x == Base(i) + k
      <4>1. x \in Nat /\ 1 <= x
        BY <2>1
      <4>2. x <= Len(bytes) /\ Len(bytes) \in Nat
        BY <1>2, <2>2
      <4> HIDE DEF x
      <4>3. x \in 1 .. Len(bytes)
        BY <4>1, <4>2
      <4> QED BY <4>3 DEF x
    <3> QED BY <1>2, <1>4, <2>2, <3>1
  <2>3. CASE ~(Base(i) + k <= m)
    <3>1. i = l
      <4>1. ~(i < l)
        <5>1. i < l => Base(i) + Size <= Base(l)
          BY <1>1, <2>1, BaseLemma
        <5> QED BY <5>1, <1>0, <1>1, <2>1, <2>3 DEF m
      <4> QED BY <4>1, <1>1, <2>1
    <3>2. k - offset \in 1 .. n - offset /\ offset + (k - offset) = k
      BY <1>0, <1>1, <1>6, <2>1, <2>3, <3>1 DEF m
    <3>3. Base(i) + k = Len(bytes) + (k - offset)
      BY <1>0, <1>1, <1>2, <2>1, <3>1 DEF m
    <3>4. b[Base(i) + k] = Part(n)[k - offset]
      BY <1>3, <1>4, <3>2, <3>3
    <3>5. parts[i] = job[1].id
      BY <3>1 DEF l
    <3> QED BY <1>3, <3>2, <3>4, <3>5
  <2> QED BY <2>2, <2>3
<1> QED BY <1>5, <1>6, FilledLemma DEF b, l

\* After a job the stream and its file are what they were, or the stream is gone.
LEMMA ContentsAtRest ==
  ASSUME ContentsInv, writer' \notin {"write", "flush", "move"},
         \/ stream' = <<>>
         \/ stream # <<>> => /\ stream' = stream /\ temps'[stream[1].id] = temps[stream[1].id]
                             /\ Unwritten = 0
  PROVE  (stream = <<>> /\ stream' # <<>>) \/ ContentsInv'
<1>1. JobTemps' = {} /\ Unwritten' = 0
  BY AtRest DEF Unwritten
<1>2. AtomicContents' /\ BeforeMove'
  BY <1>1 DEF AtomicContents, BeforeMove
<1>3. stream' # <<>> /\ stream # <<>> => StreamContents'
  BY <1>1 DEF ContentsInv, StreamContents
<1>4. stream' = <<>> => StreamContents'
  BY DEF StreamContents
<1> QED BY <1>2, <1>3, <1>4 DEF ContentsInv

\* Deleting the file of an atomic job leaves the stream's.
LEMMA DeleteLeaves ==
  ASSUME PlacesInv, NEW n, Delete(n), stream # <<>>, stream[1].id # n
  PROVE  temps'[stream[1].id] = temps[stream[1].id]
<1>1. Types /\ stream[1].id \in DOMAIN temps
  <2>1. OpenIds = {stream[1].id}
    BY StreamLemma DEF PlacesInv, Types, FileOK, Streams, OpenIds
  <2> QED BY <2>1 DEF PlacesInv, TempsInv
<1> QED BY <1>1, DeleteTypes

\* Jobs that end, or never touch a file.
LEMMA ContentsEnds ==
  ASSUME PlacesInv, ContentsInv,
         TakeJob \/ Cancel \/ RunOpen \/ RunFlush \/ RunClose \/ RunRefused \/ WriteFails \/ PutFails
           \/ MoveTemp \/ RunAbort \/ Exit
  PROVE  ContentsInv'
<1>0. Types /\ WriterAtPlace /\ TempsInv /\ StreamInHand
  BY DEF PlacesInv
<1>1. CASE TakeJob \/ Cancel \/ RunOpen \/ RunFlush \/ RunClose \/ RunRefused
  <2>1. /\ writer \notin {"write", "flush", "move"} /\ writer' \notin {"write", "flush", "move"}
        /\ UNCHANGED <<stream, temps>>
    <3>1. CASE TakeJob \/ Cancel
      BY <3>1 DEF TakeJob, Cancel, storage
    <3>2. CASE RunOpen \/ RunFlush \/ RunClose
      BY <3>2 DEF RunOpen, RunFlush, RunClose, Done, storage
    <3>3. CASE RunRefused
      BY <3>3 DEF RunRefused, Done, storage
    <3> QED BY <1>1, <3>1, <3>2, <3>3
  <2>2. Unwritten = 0
    BY <2>1 DEF Unwritten
  <2> QED BY <2>1, <2>2, ContentsAtRest
<1>2. CASE RunAbort \/ Exit
  <2>1. stream' = <<>> /\ writer' \notin {"write", "flush", "move"}
    BY <1>2 DEF RunAbort, Exit, Done
  <2> QED BY <2>1, ContentsAtRest
<1>3. CASE WriteFails \/ PutFails \/ MoveTemp
  <2>1. writer' = "loop" /\ writer \in {"write", "flush", "move"}
    BY <1>3 DEF WriteFails, PutFails, MoveTemp, Done
  <2>2. /\ \A kinds : Working(kinds) <=> job[1].kind \in kinds
        /\ job[1].kind \in {"append", "atomic", "add", "commit"}
        /\ job[1].kind = "append" => writer = "write"
        /\ job[1].kind = "commit" => writer # "write"
        /\ job[1].kind = "add" => writer = "write"
    BY <1>0, <2>1, JobFacts DEF WriterAtPlace
  <2>3. CASE job[1].kind = "append"
    <3>1. UNCHANGED <<stream, temps>> /\ Unwritten = 0
      BY <1>3, <2>2, <2>3 DEF WriteFails, PutFails, MoveTemp, Unwritten
    <3> QED BY <2>1, <3>1, ContentsAtRest
  <2>4. CASE job[1].kind = "atomic"
    <3>1. stream' = stream /\ Delete(Number(job[1])) /\ Unwritten = 0
      BY <1>3, <2>2, <2>4 DEF WriteFails, PutFails, MoveTemp, Unwritten
    <3>2. Number(job[1]) = job[1].id /\ job[1].id \notin OpenIds
      BY <1>0, <2>1, <2>2, <2>4, TempFacts
    <3>3. stream # <<>> => OpenIds = {stream[1].id}
      BY <1>0, StreamLemma DEF Types, FileOK, Streams, OpenIds
    <3>4. stream # <<>> => temps'[stream[1].id] = temps[stream[1].id]
      BY <3>1, <3>2, <3>3, DeleteLeaves
    <3> QED BY <2>1, <3>1, <3>4, ContentsAtRest
  <2>5. CASE job[1].kind \in {"add", "commit"}
    <3>1. stream' = <<>>
      BY <1>3, <2>2, <2>5 DEF WriteFails, PutFails, MoveTemp
    <3> QED BY <2>1, <3>1, ContentsAtRest
  <2> QED BY <2>2, <2>3, <2>4, <2>5
<1> QED BY <1>1, <1>2, <1>3

\* A file that is created is empty.
LEMMA ContentsCreate ==
  ASSUME PlacesInv, ContentsInv, RunCreate
  PROVE  ContentsInv'
<1>0. Types /\ WriterAtPlace /\ TempsInv /\ writer = "job" /\ offset = 0 /\ Unwritten = 0
  BY DEF PlacesInv, RunCreate, WriterAtPlace, Unwritten
<1>1. /\ job # <<>> /\ \A kinds : Working(kinds) <=> job[1].kind \in kinds
      /\ job[1].id \in Nat /\ job[1].stream \in Nat /\ Number(job[1]) \in Nat
  BY <1>0, JobFacts
<1>2. CASE Done("io") /\ UNCHANGED <<temps, stream>>
  <2>1. writer' = "loop"
    BY <1>2 DEF Done
  <2> QED BY <1>0, <1>2, <2>1, ContentsAtRest
<1>3. CASE ~(Done("io") /\ UNCHANGED <<temps, stream>>)
  <2>1. /\ ~IsOpen(Number(job[1])) /\ Put(Number(job[1]), Empty)
        /\ IF job[1].kind = "atomic"
           THEN Goto("write") /\ UNCHANGED <<stream, offset>>
           ELSE Done("ok") /\ stream' = <<[id |-> job[1].stream, parts |-> <<>>]>>
    BY <1>3 DEF RunCreate
  <2>2. /\ temps'[Number(job[1])] = Empty
        /\ \A m \in DOMAIN temps \ {Number(job[1])} : temps'[m] = temps[m]
    <3> DEFINE S == Nat \X Nat
    <3> HIDE DEF S
    <3>1. <<>> \in Seq(S)
      BY EmptyLemma
    <3>2. Empty \in Temp
      BY <3>1 DEF Empty, Temp, S
    <3> QED BY <1>0, <1>1, <2>1, <3>2, PutTypes
  <2>3. CASE job[1].kind = "atomic"
    <3>1. /\ Number(job[1]) = job[1].id /\ writer' = "write" /\ job' = job /\ stream' = stream
          /\ offset' = 0
      BY <1>0, <2>1, <2>3 DEF Number, Goto
    <3>2. Unwritten' = 0
      BY <2>3, <3>1 DEF Unwritten, Working
    <3>3. AtomicContents'
      <4>1. temps'[job[1].id].bytes = <<>>
        BY <2>2, <3>1 DEF Empty
      <4>2. Filled(temps'[job'[1].id].bytes, <<job'[1].id>>, offset')
        BY <1>1, <3>1, <4>1, FilledEmpty
      <4> QED BY <4>2 DEF AtomicContents
    <3>4. StreamContents'
      <4>1. SUFFICES ASSUME stream # <<>> PROVE StreamContents'
        BY <3>1 DEF StreamContents
      <4>2. stream[1].id \in DOMAIN temps \ {job[1].id}
        <5>1. OpenIds = {stream[1].id}
          BY <1>0, <4>1, StreamLemma DEF Types, FileOK, Streams, OpenIds
        <5> QED BY <1>0, <2>1, <3>1, <4>1, <5>1 DEF TempsInv, IsOpen
      <4>3. temps'[stream[1].id] = temps[stream[1].id]
        BY <2>2, <3>1, <4>2
      <4>4. ~Working({"add"})'
        BY <2>3, <3>1 DEF Working
      <4> QED BY <1>0, <3>1, <3>2, <4>1, <4>3, <4>4 DEF ContentsInv, StreamContents
    <3>5. BeforeMove'
      BY <3>1 DEF BeforeMove
    <3> QED BY <3>3, <3>4, <3>5 DEF ContentsInv
  <2>4. CASE job[1].kind # "atomic"
    <3> DEFINE t == [id |-> job[1].stream, parts |-> <<>>]
    <3>1. Number(job[1]) = job[1].stream /\ writer' = "loop" /\ stream' = <<t>>
      BY <1>1, <2>1, <2>4 DEF Number, Done
    <3>2. stream'[1].id = job[1].stream /\ stream'[1].parts = <<>>
      BY <3>1
    <3>3. JobTemps' = {} /\ Unwritten' = 0
      BY <3>1, AtRest DEF Unwritten
    <3>4. Filled(temps'[stream'[1].id].bytes, stream'[1].parts, Size * Len(stream'[1].parts) - Unwritten')
      <4>1. temps'[stream'[1].id].bytes = <<>>
        BY <2>2, <3>1, <3>2 DEF Empty
      <4>2. Size * Len(stream'[1].parts) - Unwritten' = 0
        <5>1. Len(stream'[1].parts) = 0
          BY <3>2, EmptyLemma
        <5>2. Size * 0 = 0
          BY FileJobsAssumption
        <5> QED BY <3>3, <5>1, <5>2
      <4> QED BY <3>2, <4>1, <4>2, FilledEmpty
    <3>5. StreamContents' /\ AtomicContents' /\ BeforeMove'
      BY <3>1, <3>3, <3>4 DEF StreamContents, AtomicContents, BeforeMove
    <3> QED BY <3>5 DEF ContentsInv
  <2> QED BY <2>3, <2>4
<1> QED BY <1>2, <1>3

\* A write puts its bytes where the file ends.
LEMMA ContentsWrite ==
  ASSUME PlacesInv, ContentsInv, WriteSome
  PROVE  ContentsInv'
<1>0. /\ Types /\ WriterAtPlace /\ TempsInv /\ StreamInHand /\ writer = "write" /\ Size \in Nat
      /\ offset \in 0 .. Size
  BY FileJobsAssumption DEF PlacesInv, WriteSome, Types, QueuesOK
<1>1. /\ \A kinds : Working(kinds) <=> job[1].kind \in kinds
      /\ job[1].kind \in {"append", "atomic", "add"} /\ Len(job) = 1 /\ job[1].id \in Nat
      /\ Number(job[1]) \in Nat
  BY <1>0, JobFacts DEF WriterAtPlace
<1>2. PICK n \in offset + 1 .. Size :
        /\ offset' = n
        /\ IF Working({"append"})
           THEN UNCHANGED temps
           ELSE Put(Number(job[1]), [bytes |-> temps[Number(job[1])].bytes \o Part(n), flushed |-> FALSE])
  BY <1>0, WriteShape
<1>3. /\ job' = job /\ writer' = "write" /\ stream' = stream
      /\ \A kinds : Working(kinds)' <=> Working(kinds)
  BY <1>0 DEF WriteSome, Working
<1>4. BeforeMove'
  BY <1>3 DEF BeforeMove
<1>5. JobTemps' = JobTemps
  BY <1>0, <1>3 DEF JobTemps
<1>6. n \in Nat /\ Unwritten = (IF job[1].kind = "add" THEN Size - offset ELSE 0)
      /\ Unwritten' = (IF job[1].kind = "add" THEN Size - n ELSE 0)
  BY <1>0, <1>1, <1>2, <1>3 DEF Unwritten
<1>7. CASE job[1].kind = "append"
  <2>1. temps' = temps
    BY <1>1, <1>2, <1>7
  <2>2. JobTemps = {}
    BY <1>1, <1>7 DEF JobTemps
  <2>3. StreamContents'
    BY <1>1, <1>3, <1>6, <1>7, <2>1 DEF ContentsInv, StreamContents
  <2> QED BY <1>4, <1>5, <2>2, <2>3 DEF ContentsInv, AtomicContents
<1>8. CASE job[1].kind # "append"
  <2> DEFINE m == Number(job[1])
             b == temps[m].bytes
             t == [bytes |-> b \o Part(n), flushed |-> FALSE]
             S == Nat \X Nat
  <2>1. /\ m \in DOMAIN temps /\ temps[m] \in Temp
        /\ job[1].kind # "atomic" =>
              stream # <<>> /\ m = stream[1].id /\ OpenIds = {stream[1].id} /\ JobTemps = {}
        /\ job[1].kind = "atomic" =>
              m = job[1].id /\ JobTemps = {job[1].id} /\ job[1].id \notin OpenIds
    BY <1>0, <1>1, <1>8, TempFacts
  <2>2. Put(m, t)
    BY <1>1, <1>2, <1>8
  <2>3. b \in Seq(S) /\ Part(n) \in Seq(S)
    BY <1>0, <1>1, <2>1, PartLemma DEF Temp
  <2>4. t \in Temp
    <3> HIDE DEF S, b
    <3>1. b \o Part(n) \in Seq(S)
      BY <2>3
    <3> QED BY <3>1 DEF Temp, S
  <2>5. temps'[m] = t /\ \A x \in DOMAIN temps \ {m} : temps'[x] = temps[x]
    <3> HIDE DEF t, m
    <3> QED BY <1>0, <1>1, <2>2, <2>4, PutTypes DEF m
  <2>6. temps'[m].bytes = b \o Part(n)
    BY <2>5
  <2> HIDE DEF m, b, t
  <2>7. CASE job[1].kind = "atomic"
    <3>1. Filled(b, <<job[1].id>>, offset)
      BY <2>1, <2>7 DEF ContentsInv, AtomicContents, b
    <3>2. Filled(b \o Part(n), <<job[1].id>>, n)
      <4> DEFINE p == <<job[1].id>>
      <4>1. p \in Seq(Nat) /\ Len(p) = 1 /\ p[1] = job[1].id /\ p # <<>>
        BY <1>1, OneLemma
      <4>2. Base(Len(p)) + offset = offset /\ Base(Len(p)) + n = n
        <5>1. Base(Len(p)) = 0
          BY <4>1, BaseLemma
        <5> QED BY <1>0, <1>6, <5>1
      <4>3. Filled(b, p, Base(Len(p)) + offset)
        BY <3>1, <4>2
      <4>4. p[Len(p)] = job[1].id
        BY <4>1
      <4> HIDE DEF p
      <4>5. Filled(b \o Part(n), p, Base(Len(p)) + n)
        BY <1>0, <1>1, <1>2, <2>3, <4>1, <4>3, <4>4, FilledWrite DEF S
      <4> QED BY <4>2, <4>5 DEF p
    <3>3. AtomicContents'
      BY <1>2, <1>3, <2>1, <2>6, <2>7, <3>2 DEF AtomicContents
    <3>4. StreamContents'
      <4>1. SUFFICES ASSUME stream # <<>> PROVE StreamContents'
        BY <1>3 DEF StreamContents
      <4>2. OpenIds = {stream[1].id}
        BY <1>0, <4>1, StreamLemma DEF Types, FileOK, Streams, OpenIds
      <4>3. stream[1].id \in DOMAIN temps \ {m}
        BY <1>0, <2>1, <2>7, <4>2 DEF TempsInv
      <4>4. temps'[stream[1].id] = temps[stream[1].id]
        BY <2>5, <4>3
      <4> QED BY <1>1, <1>3, <1>6, <2>7, <4>1, <4>4 DEF ContentsInv, StreamContents
    <3> QED BY <1>4, <3>3, <3>4 DEF ContentsInv
  <2>8. CASE job[1].kind = "add"
    <3> DEFINE p == stream[1].parts
    <3>1. /\ p \in Seq(Nat) /\ p # <<>> /\ p[Len(p)] = job[1].id
          /\ Filled(b, p, Size * Len(p) - (Size - offset))
      <4>1. p \in Seq(Nat)
        BY <1>0, <2>1, <2>8, StreamLemma DEF Types, FileOK, Streams
      <4>2. Working({"add"})
        BY <1>1, <2>8
      <4>3. /\ p # <<>> /\ p[Len(p)] = job[1].id
            /\ Filled(temps[stream[1].id].bytes, p, Size * Len(p) - Unwritten)
        BY <1>0, <2>1, <2>8, <4>2 DEF ContentsInv, StreamContents
      <4> QED BY <1>6, <2>1, <2>8, <4>1, <4>3 DEF b
    <3> HIDE DEF p
    <3>2. /\ Size * Len(p) - (Size - offset) = Base(Len(p)) + offset
          /\ Size * Len(p) - (Size - n) = Base(Len(p)) + n
      <4> DEFINE l == Len(p)
      <4>1. l \in Nat \ {0}
        BY <3>1
      <4> HIDE DEF l
      <4>2. Size * l = Base(l + 1) /\ Base(l + 1) = Base(l) + Size /\ Base(l) \in Nat
        BY <4>1, BaseLemma
      <4> QED BY <1>0, <1>6, <4>2 DEF l
    <3>3. Filled(b \o Part(n), p, Base(Len(p)) + n)
      <4>1. Filled(b, p, Base(Len(p)) + offset)
        BY <3>1, <3>2
      <4> QED BY <1>0, <1>1, <1>2, <2>3, <3>1, <4>1, FilledWrite DEF S
    <3>4. StreamContents'
      <4>1. Filled(temps'[stream'[1].id].bytes, p, Size * Len(p) - Unwritten')
        BY <1>3, <1>6, <2>1, <2>6, <2>8, <3>2, <3>3
      <4> QED BY <1>3, <3>1, <4>1 DEF StreamContents, p
    <3> QED BY <1>4, <1>5, <2>1, <2>8, <3>4 DEF ContentsInv, AtomicContents
  <2> QED BY <1>1, <1>8, <2>7, <2>8
<1> QED BY <1>7, <1>8

\* A part that is begun.
LEMMA ContentsAdd ==
  ASSUME PlacesInv, ContentsInv, RunAdd
  PROVE  ContentsInv'
<1>0. /\ Types /\ WriterAtPlace /\ writer = "job" /\ offset = 0 /\ Unwritten = 0 /\ JobTemps = {} /\ Size \in Nat
  BY FileJobsAssumption DEF PlacesInv, RunAdd, WriterAtPlace, Unwritten, JobTemps
<1>1. /\ \A kinds : Working(kinds) <=> job[1].kind \in kinds
      /\ job[1].kind = "add" /\ job[1].id \in Nat /\ job # <<>>
  <2>1. job # <<>> /\ job[1].id \in Nat /\ \A kinds : Working(kinds) <=> job[1].kind \in kinds
    BY <1>0, JobFacts
  <2> QED BY <2>1 DEF RunAdd
<1> DEFINE p == stream[1].parts
           q == Append(p, job[1].id)
           t == [stream[1] EXCEPT !.parts = Append(@, job[1].id)]
<1>2. /\ stream' = <<t>> /\ writer' = "write" /\ job' = job /\ UNCHANGED temps /\ offset' = 0 /\ stream # <<>>
  BY <1>0 DEF RunAdd, Goto, IsOpen
<1>3. stream[1] \in Streams /\ p \in Seq(Nat)
  BY <1>0, <1>2, StreamLemma DEF Types, FileOK, Streams
<1>4. stream'[1].id = stream[1].id /\ stream'[1].parts = q
  <2>1. stream'[1] = t
    BY <1>2
  <2> QED BY <1>3, <2>1 DEF Streams
<1>5. q # <<>> /\ q[Len(q)] = job[1].id
  <2>1. q # <<>> /\ Len(q) = Len(p) + 1 /\ q[Len(p) + 1] = job[1].id
    BY <1>1, <1>3, AppendLemma
  <2> QED BY <2>1
<1>6. Unwritten' = Size
  <2>1. Working({"add"})'
    BY <1>1, <1>2 DEF Working
  <2> QED BY <1>0, <1>2, <2>1 DEF Unwritten
<1>7. Filled(temps[stream[1].id].bytes, q, Size * Len(q) - Size)
  <2> DEFINE n == Size * Len(p)
             b == temps[stream[1].id].bytes
  <2>1. n \in Nat /\ n - 0 = n
    <3> DEFINE l == Len(p)
    <3>1. l \in Nat
      BY <1>3
    <3> HIDE DEF l
    <3>2. Size * l \in Nat
      BY <1>0, <3>1
    <3> QED BY <3>2 DEF l
  <2>2. Filled(b, p, n)
    BY <1>0, <1>2, <2>1 DEF ContentsInv, StreamContents
  <2> HIDE DEF p, b
  <2>3. Filled(b, q, n) /\ n = Size * Len(q) - Size
    <3>1. n = Size * Len(p) /\ p \in Seq(Nat)
      BY <1>3
    <3> HIDE DEF n
    <3> QED BY <1>1, <2>1, <2>2, <3>1, FilledBegin
  <2> QED BY <2>3 DEF b
<1>8. StreamContents'
  <2>1. Filled(temps'[stream'[1].id].bytes, stream'[1].parts, Size * Len(stream'[1].parts) - Unwritten')
    BY <1>2, <1>4, <1>6, <1>7
  <2> QED BY <1>2, <1>4, <1>5, <2>1 DEF StreamContents
<1>9. JobTemps' = {}
  BY <1>1, <1>2 DEF JobTemps, Working
<1>10. AtomicContents' /\ BeforeMove'
  BY <1>2, <1>9 DEF AtomicContents, BeforeMove
<1> QED BY <1>8, <1>10 DEF ContentsInv

\* Steps that write nothing.
LEMMA ContentsGoesOn ==
  ASSUME PlacesInv, ContentsInv, RunAppend \/ RunCommit \/ Written \/ FlushTemp
  PROVE  ContentsInv'
<1>0. /\ Types /\ WriterAtPlace /\ TempsInv /\ StreamInHand /\ writer \in {"job", "write", "flush"} /\ Size \in Nat
  BY FileJobsAssumption DEF PlacesInv, RunAppend, RunCommit, Written, FlushTemp
<1>1. /\ \A kinds : Working(kinds) <=> job[1].kind \in kinds
      /\ job # <<>> /\ Number(job[1]) \in Nat
  BY <1>0, JobFacts
<1>2. CASE RunAppend \/ RunCommit
  <2>1. /\ job[1].kind \in {"append", "commit"} /\ writer = "job" /\ writer' \in {"write", "flush"}
        /\ job' = job /\ UNCHANGED <<stream, temps>>
    BY <1>1, <1>2 DEF RunAppend, RunCommit, Goto, storage
  <2>2. Unwritten = 0 /\ Unwritten' = 0 /\ JobTemps' = {} /\ ~Working({"add"})' /\ ~Working({"atomic"})'
    BY <2>1 DEF Unwritten, JobTemps, Working
  <2>3. StreamContents' /\ AtomicContents' /\ BeforeMove'
    BY <2>1, <2>2 DEF ContentsInv, StreamContents, AtomicContents, BeforeMove
  <2> QED BY <2>3 DEF ContentsInv
<1>3. CASE Written
  <2>1. /\ writer = "write" /\ offset = Size /\ UNCHANGED <<stream, temps>>
    BY <1>3 DEF Written, storage
  <2>2. Unwritten = 0
    BY <1>0, <2>1 DEF Unwritten
  <2>3. CASE Working({"atomic"})
    <3>1. writer' = "flush" /\ job' = job /\ offset' = offset
      BY <1>3, <2>3 DEF Written, Goto
    <3>2. JobTemps' = JobTemps /\ Unwritten' = 0 /\ Working({"atomic"})'
      BY <2>1, <2>3, <3>1 DEF JobTemps, Unwritten, Working
    <3>3. StreamContents' /\ AtomicContents' /\ BeforeMove'
      BY <2>1, <2>2, <3>1, <3>2 DEF ContentsInv, StreamContents, AtomicContents, BeforeMove
    <3> QED BY <3>3 DEF ContentsInv
  <2>4. CASE ~Working({"atomic"})
    <3>1. writer' = "loop"
      BY <1>3, <2>4 DEF Written, Done
    <3> QED BY <2>1, <2>2, <3>1, ContentsAtRest
  <2> QED BY <2>3, <2>4
<1>4. CASE FlushTemp
  <2> DEFINE m == Number(job[1])
             t == [temps[m] EXCEPT !.flushed = TRUE]
  <2>1. /\ writer = "flush" /\ writer' = "move" /\ job' = job /\ stream' = stream /\ offset' = offset
        /\ Put(m, t)
    BY <1>4 DEF FlushTemp, Goto
  <2>2. /\ m \in DOMAIN temps /\ temps[m] \in Temp /\ job[1].kind \in {"atomic", "commit"}
        /\ job[1].kind # "atomic" => m = stream[1].id /\ JobTemps = {}
        /\ job[1].kind = "atomic" => m = job[1].id /\ JobTemps = {job[1].id}
    <3>1. job[1].kind \in {"atomic", "commit"}
      BY <1>0, <2>1 DEF WriterAtPlace
    <3> QED BY <1>0, <1>1, <2>1, <3>1, TempFacts
  <2>3. t \in Temp /\ t.bytes = temps[m].bytes /\ t.flushed = TRUE
    BY <2>2 DEF Temp
  <2>4. temps'[m] = t /\ \A x \in DOMAIN temps \ {m} : temps'[x] = temps[x]
    <3> HIDE DEF t, m
    <3> QED BY <1>0, <1>1, <2>1, <2>3, PutTypes DEF m
  <2> HIDE DEF t, m
  <2>5. \A x \in DOMAIN temps : temps'[x].bytes = temps[x].bytes
    BY <2>3, <2>4
  <2>6. /\ JobTemps' = JobTemps /\ Unwritten = 0 /\ Unwritten' = 0
        /\ \A kinds : Working(kinds)' <=> Working(kinds)
    BY <2>1 DEF JobTemps, Unwritten, Working
  <2>7. AtomicContents'
    <3>1. JobTemps # {} => job[1].id \in DOMAIN temps
      BY <2>2
    <3> QED BY <2>1, <2>5, <2>6, <3>1 DEF ContentsInv, AtomicContents
  <2>8. BeforeMove'
    <3>1. Working({"atomic"}) => offset = Size
      BY <2>1 DEF ContentsInv, BeforeMove
    <3>2. temps'[Number(job'[1])].flushed
      BY <2>1, <2>3, <2>4 DEF m
    <3> QED BY <2>1, <2>6, <3>1, <3>2 DEF BeforeMove
  <2>9. StreamContents'
    <3>1. SUFFICES ASSUME stream # <<>> PROVE StreamContents'
      BY <2>1 DEF StreamContents
    <3>2. OpenIds = {stream[1].id}
      BY <1>0, <3>1, StreamLemma DEF Types, FileOK, Streams, OpenIds
    <3>3. stream[1].id \in DOMAIN temps
      BY <1>0, <3>2 DEF TempsInv
    <3> QED BY <2>1, <2>5, <2>6, <3>1, <3>3 DEF ContentsInv, StreamContents
  <2> QED BY <2>7, <2>8, <2>9 DEF ContentsInv
<1> QED BY <1>2, <1>3, <1>4

\* Every step keeps what the temporary files hold.
LEMMA ContentsStep == PlacesInv /\ ContentsInv /\ [Next]_vars => ContentsInv'
<1> SUFFICES ASSUME PlacesInv, ContentsInv, [Next]_vars PROVE ContentsInv'
  OBVIOUS
<1>1. CASE Caller \/ UNCHANGED vars
  <2>1. UNCHANGED <<stream, temps, writer, job, offset>>
    BY <1>1, CallerStorage DEF vars, storage
  <2>2. Unwritten' = Unwritten /\ JobTemps' = JobTemps /\ \A kinds : Working(kinds)' <=> Working(kinds)
    BY <2>1 DEF Unwritten, JobTemps, Working
  <2>3. StreamContents' /\ AtomicContents' /\ BeforeMove'
    BY <2>1, <2>2 DEF ContentsInv, StreamContents, AtomicContents, BeforeMove
  <2> QED BY <2>3 DEF ContentsInv
<1>2. CASE Writer
  BY <1>2, ContentsEnds, ContentsCreate, ContentsAdd, ContentsGoesOn DEF Writer
<1>3. CASE WriteSome
  BY <1>3, ContentsWrite
<1> QED BY <1>1, <1>2, <1>3 DEF Next

\* Only a move changes the destination, to what a finished file holds.
LEMMA DestinationStep == PlacesInv /\ FilesInv /\ [Next]_vars => DestinationWhole'
<1> SUFFICES ASSUME PlacesInv, FilesInv, [Next]_vars PROVE DestinationWhole'
  OBVIOUS
<1>1. CASE MoveTemp
  <2>0. /\ Types /\ WriterAtPlace /\ TempsInv /\ StreamInHand /\ writer = "move" /\ Size \in Nat
    BY <1>1, FileJobsAssumption DEF PlacesInv, MoveTemp
  <2>1. /\ \A kinds : Working(kinds) <=> job[1].kind \in kinds
        /\ job[1].kind \in {"atomic", "commit"} /\ job[1].id \in Nat
    BY <2>0, JobFacts DEF WriterAtPlace
  <2> DEFINE m == Number(job[1])
             p == IF Working({"atomic"}) THEN <<job[1].id>> ELSE stream[1].parts
  <2>2. /\ destination'.bytes = temps[m].bytes /\ destination'.flushed = temps[m].flushed
        /\ destination'.parts = p
    BY <1>1 DEF MoveTemp
  <2>3. temps[m].flushed
    BY <2>0 DEF FilesInv, ContentsInv, BeforeMove
  <2>4. Filled(temps[m].bytes, p, Size * Len(p))
    <3>1. CASE job[1].kind = "atomic"
      <4>1. m = job[1].id /\ JobTemps # {}
        BY <2>0, <2>1, <3>1, TempFacts
      <4>2. offset = Size /\ p = <<job[1].id>>
        BY <2>0, <2>1, <3>1 DEF FilesInv, ContentsInv, BeforeMove
      <4>3. Filled(temps[m].bytes, <<job[1].id>>, Size)
        BY <4>1, <4>2 DEF FilesInv, ContentsInv, AtomicContents
      <4>4. Size * Len(<<job[1].id>>) = Size
        <5>1. Len(<<job[1].id>>) = 1
          BY OneLemma
        <5>2. Size * 1 = Size
          BY <2>0
        <5> QED BY <5>1, <5>2
      <4> QED BY <4>2, <4>3, <4>4
    <3>2. CASE job[1].kind = "commit"
      <4>1. m = stream[1].id /\ stream # <<>> /\ p = stream[1].parts
        BY <2>0, <2>1, <3>2, TempFacts
      <4>2. Unwritten = 0
        BY <2>0 DEF Unwritten
      <4>3. Filled(temps[m].bytes, p, Size * Len(p) - 0)
        BY <4>1, <4>2 DEF FilesInv, ContentsInv, StreamContents
      <4>4. Size * Len(p) - 0 = Size * Len(p)
        <5> DEFINE l == Len(p)
        <5>1. l \in Nat
          <6>1. p \in Seq(Nat)
            BY <2>0, <4>1, StreamLemma DEF Types, FileOK, Streams
          <6> QED BY <6>1
        <5> HIDE DEF l
        <5>2. Size * l \in Nat
          BY <2>0, <5>1
        <5> QED BY <5>2 DEF l
      <4> QED BY <4>3, <4>4
    <3> QED BY <2>1, <3>1, <3>2
  <2> HIDE DEF m, p
  <2> QED BY <2>2, <2>3, <2>4 DEF DestinationWhole
<1>2. CASE ~MoveTemp
  <2>1. destination' = destination
    <3>1. CASE Caller \/ UNCHANGED vars
      BY <3>1, CallerStorage DEF vars, storage
    <3>2. CASE WriteSome \/ TakeJob \/ Cancel \/ Exit
      BY <3>2 DEF WriteSome, TakeJob, Cancel, Exit, storage
    <3>3. CASE RunOpen \/ RunFlush \/ RunClose \/ RunRefused \/ RunCreate
      BY <3>3 DEF RunOpen, RunFlush, RunClose, RunRefused, RunCreate, storage
    <3>4. CASE RunAppend \/ RunAdd \/ Written \/ WriteFails \/ RunCommit
      BY <3>4 DEF RunAppend, RunAdd, Written, WriteFails, RunCommit, storage
    <3>5. CASE FlushTemp \/ PutFails \/ RunAbort
      BY <3>5 DEF FlushTemp, PutFails, RunAbort
    <3> QED BY <1>2, <3>1, <3>2, <3>3, <3>4, <3>5 DEF Next, Writer
  <2> QED BY <2>1 DEF FilesInv, DestinationWhole
<1> QED BY <1>1, <1>2

\* Nothing is on disk at first, and an empty destination is whole.
LEMMA FilesInit == Init => FilesInv
<1> SUFFICES ASSUME Init PROVE FilesInv
  OBVIOUS
<1>1. stream = <<>> /\ job = <<>> /\ writer = "loop"
      /\ destination.bytes = <<>> /\ destination.parts = <<>> /\ destination.flushed = TRUE
  BY DEF Init
<1>2. JobTemps = {} /\ StreamContents /\ AtomicContents /\ BeforeMove
  BY <1>1 DEF JobTemps, StreamContents, AtomicContents, BeforeMove
<1>3. Size * Len(destination.parts) = 0
  <2>1. Len(destination.parts) = 0
    BY <1>1, EmptyLemma
  <2>2. Size * 0 = 0
    BY FileJobsAssumption
  <2> QED BY <2>1, <2>2
<1> QED BY <1>1, <1>2, <1>3, FilledEmpty DEF FilesInv, ContentsInv, DestinationWhole

\* Whenever the process ends, the destination holds one payload or every part of
\* one stream, whole and flushed before it was moved there; between two jobs no
\* temporary file is on disk but the open stream's.
THEOREM FilesAreWhole == Spec => []FilesWhole
<1>1. PlacesInv /\ FilesInv /\ [Next]_vars => FilesInv'
  BY ContentsStep, DestinationStep DEF FilesInv
<1>2. PlacesInv /\ FilesInv => FilesWhole
  <2> SUFFICES ASSUME PlacesInv PROVE NoTempLeft
    BY DEF FilesInv, FilesWhole
  <2>1. writer \in {"loop", "exited"} => JobTemps = {}
    BY DEF JobTemps
  <2> QED BY <2>1 DEF PlacesInv, TempsInv, OpenIds, NoTempLeft
<1> QED BY <1>1, <1>2, FilesInit, PlacesAlways, PTL DEF Spec

=============================================================================
