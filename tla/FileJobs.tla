------------------------------- MODULE FileJobs -------------------------------
(***************************************************************************)
(* The LogWriter as the owner of every file the core writes: log open,     *)
(* append, flush and close; files replaced as a whole; files replaced by a *)
(* stream of parts.  The caller queues jobs and one thread runs them in    *)
(* order.  Log control waits for its job up to a timeout, with a completion *)
(* object both sides hold; file requests reserve a place in the completion *)
(* ring and are answered there.  The disk may refuse any operation; a log  *)
(* append is retried until it works or the writer is stopped.  The raw     *)
(* lane and the wake event of the same thread are those of RxFanout.       *)
(***************************************************************************)
EXTENDS Integers, Sequences, FiniteSets, SequencesExt

CONSTANTS
  CallBound,        \* bound: calls that queue a job, shutdown not counted
  JobBound,         \* kFileJobCapacity
  DataBlocks,       \* kFileBlockCount
  CompletionBound,  \* kCompletionCapacity
  Waiters,          \* the completion objects, kCompletionPoolCapacity of them
  StreamIds,        \* stream ids the caller uses
  Size              \* WriteFile calls a payload may take at most

ASSUME FileJobsAssumption ==
  /\ CallBound \in Nat /\ JobBound \in Nat \ {0} /\ DataBlocks \in Nat
  /\ CompletionBound \in Nat /\ IsFiniteSet(Waiters) /\ "none" \notin Waiters
  /\ StreamIds \subseteq Nat /\ Size \in Nat \ {0}

VARIABLES
  running,      \* LogWriter::Impl::running, the writer was started
  stopping,     \* LogWriter::Impl::stopping
  accepting,    \* LogWriter::Impl::accepting_log
  jobs,         \* LogWriter::Impl::jobs
  blocks,       \* free blocks of LogWriter::Impl::data_pool
  waiters,      \* each Completion: its references, 0 when it is in the pool, and status
  pending,      \* LogWriter::Impl::pending_completions
  completions,  \* LogWriter::Impl::completions
  writer,       \* where the LogWriter thread is
  job,          \* the job it works on
  offset,       \* FileJob::offset of that job
  file,         \* log_file is valid
  log,          \* what the log files hold
  stream,       \* atomic_stream: its id, and the parts handed to it (history)
  temps,        \* the temporary files on disk, by the number in their name
  destination,  \* the file that atomic jobs and streams replace
  caller,       \* where the caller thread is
  ticket,       \* the job it waits for
  final,        \* the caller is in shutdown
  calls,        \* calls made so far, the number of the latest
  admitted,     \* history: appends made while the log was accepting
  charged       \* history: bytes charged to save_rejected_bytes

control == <<running, stopping, accepting>>
storage == <<file, log, stream, temps, destination>>
callerT == <<caller, ticket, final>>
vars == <<control, jobs, blocks, waiters, pending, completions, writer, job, offset,
          storage, callerT, calls, admitted, charged>>

Kinds  == {"open", "append", "flush", "close", "atomic", "begin", "add", "commit", "abort"}
Async(j)  == j.kind \in {"atomic", "begin", "add", "commit", "abort"}
Status == {"ok", "io", "busy", "not_open", "timeout"}
Job == [kind : Kinds, id : Nat, stream : Nat, waiter : Waiters \cup {"none"}, owned : BOOLEAN]
Bytes(id) == [k \in 1 .. Size |-> <<id, k>>]
Temp == [bytes : Seq(Nat \X Nat), flushed : BOOLEAN]

TypeOK ==
  /\ running \in BOOLEAN /\ stopping \in BOOLEAN /\ accepting \in BOOLEAN /\ final \in BOOLEAN
  /\ jobs \in Seq(Job) /\ Len(jobs) <= JobBound
  /\ blocks \in 0 .. DataBlocks /\ pending \in 0 .. CompletionBound
  /\ waiters \in [Waiters -> [refs : 0 .. 2, status : Status \cup {"none"}]]
  /\ completions \in Seq([id : Nat, status : Status]) /\ Len(completions) <= CompletionBound
  /\ writer \in {"loop", "job", "write", "flush", "move", "exited"}
  /\ job \in Seq(Job) /\ Len(job) <= 1 /\ offset \in 0 .. Size
  /\ file \in BOOLEAN /\ log \in Seq(Nat \X Nat)
  /\ stream \in Seq([id : Nat, parts : Seq(Nat)]) /\ Len(stream) <= 1
  /\ DOMAIN temps \subseteq Nat /\ \A n \in DOMAIN temps : temps[n] \in Temp
  /\ destination \in [bytes : Seq(Nat \X Nat), flushed : BOOLEAN, parts : Seq(Nat)]
  /\ caller \in {"idle", "wait", "stop", "join", "down"} /\ ticket \in Seq(Job)
  /\ calls \in 0 .. CallBound + 1 /\ admitted \subseteq Nat
  /\ charged \subseteq Nat \X Nat

Init ==
  /\ running = FALSE /\ stopping = FALSE /\ accepting = FALSE
  /\ jobs = <<>> /\ blocks = DataBlocks /\ pending = 0 /\ completions = <<>>
  /\ waiters = [w \in Waiters |-> [refs |-> 0, status |-> "none"]]
  /\ writer = "loop" /\ job = <<>> /\ offset = 0
  /\ file = FALSE /\ log = <<>> /\ stream = <<>> /\ temps = <<>>
  /\ destination = [bytes |-> <<>>, flushed |-> TRUE, parts |-> <<>>]
  /\ caller = "idle" /\ ticket = <<>> /\ final = FALSE /\ calls = 0
  /\ admitted = {} /\ charged = {}

-----------------------------------------------------------------------------
(* The caller: the log_* and file_* calls of the ABI, their sinks and the  *)
(* methods of LogWriter.                                                   *)

NewJob(kind, s, w, owned) ==
  [kind |-> kind, id |-> calls + 1, stream |-> s, waiter |-> w, owned |-> owned]

Call == caller = "idle" /\ ~final /\ calls < CallBound /\ calls' = calls + 1

\* LogWriter::start: the first call that needs the writer starts it.
Starts(kind) == running' = (running \/ kind \in {"open", "atomic", "begin"})

\* The calls that would be refused for want of a writer change nothing.
Ready(kind) == running \/ kind \in {"open", "atomic", "begin"}

HasRoom == Len(jobs) < JobBound
IdleWaiters == {w \in Waiters : waiters[w].refs = 0}

\* submit_sync: a completion with two references, the caller's and the job's.
SubmitSync(kind) ==
  IF IdleWaiters # {} /\ HasRoom
  THEN LET w == CHOOSE free \in IdleWaiters : TRUE
           j == NewJob(kind, 0, w, FALSE)
       IN /\ waiters' = [waiters EXCEPT ![w] = [refs |-> 2, status |-> "none"]]
          /\ jobs' = Append(jobs, j) /\ ticket' = <<j>> /\ caller' = "wait"
  ELSE /\ caller' = IF final' THEN "stop" ELSE "idle"
       /\ UNCHANGED <<waiters, jobs, ticket>>

OpenLog ==
  /\ Call /\ Starts("open")
  /\ final' = FALSE
  /\ IF accepting THEN UNCHANGED <<jobs, waiters, caller, ticket>> ELSE SubmitSync("open")
  /\ UNCHANGED <<stopping, accepting, blocks, pending, completions, writer, job, offset,
                 storage, admitted, charged>>

FlushLog ==
  /\ Call /\ running /\ final' = FALSE
  /\ SubmitSync("flush")
  /\ UNCHANGED <<control, blocks, pending, completions, writer, job, offset, storage,
                 admitted, charged>>

\* close_append_admission comes first, whatever becomes of the job.
CloseLog ==
  /\ Call /\ running /\ final' = FALSE
  /\ accepting' = FALSE
  /\ SubmitSync("close")
  /\ UNCHANGED <<running, stopping, blocks, pending, completions, writer, job, offset,
                 storage, admitted, charged>>

\* LogWriter::shutdown begins as a close.
Shutdown ==
  /\ caller = "idle" /\ ~final /\ final' = TRUE
  /\ IF running THEN accepting' = FALSE /\ calls' = calls + 1 /\ SubmitSync("close")
                ELSE caller' = "down" /\ UNCHANGED <<accepting, calls, jobs, waiters, ticket>>
  /\ UNCHANGED <<running, stopping, blocks, pending, completions, writer, job, offset,
                 storage, admitted, charged>>

\* The job is done, or the caller's time is up: either way its reference goes.
JobDone ==
  /\ caller = "wait" /\ waiters[ticket[1].waiter].status # "none"
  /\ waiters' = [waiters EXCEPT ![ticket[1].waiter].refs = @ - 1]
  /\ caller' = IF final THEN "stop" ELSE "idle"
  /\ ticket' = <<>>
  /\ UNCHANGED <<control, jobs, blocks, pending, completions, writer, job, offset, storage,
                 final, calls, admitted, charged>>

\* Mutation: the caller that gives up frees the completion under the job.
TimeOutFrees ==
  /\ caller = "wait" /\ waiters[ticket[1].waiter].status = "none"
  /\ waiters' = [waiters EXCEPT ![ticket[1].waiter].refs = 0]
  /\ caller' = IF final THEN "stop" ELSE "idle"
  /\ ticket' = <<>>
  /\ UNCHANGED <<control, jobs, blocks, pending, completions, writer, job, offset, storage,
                 final, calls, admitted, charged>>

TimeOut ==
  /\ caller = "wait" /\ waiters[ticket[1].waiter].status = "none"
  /\ waiters' = [waiters EXCEPT ![ticket[1].waiter].refs = @ - 1]
  /\ caller' = IF final THEN "stop" ELSE "idle"
  /\ ticket' = <<>>
  /\ UNCHANGED <<control, jobs, blocks, pending, completions, writer, job, offset, storage,
                 final, calls, admitted, charged>>

\* sink_log_append: a batch that finds no room is charged, one that finds the
\* log closed is not.
AppendLog ==
  /\ Call /\ running /\ accepting
  /\ admitted' = admitted \cup {calls'}
  /\ IF blocks > 0 /\ HasRoom
     THEN /\ blocks' = blocks - 1
          /\ jobs' = Append(jobs, NewJob("append", 0, "none", TRUE)) /\ UNCHANGED charged
     ELSE /\ charged' = charged \cup ToSet(Bytes(calls')) /\ UNCHANGED <<blocks, jobs>>
  /\ UNCHANGED <<control, waiters, pending, completions, writer, job, offset, storage,
                 callerT>>

\* Mutation: a request the queue refuses keeps its reservation.
SubmitFileLeaks(kind, s, owned) ==
  /\ Call /\ Ready(kind) /\ Starts(kind)
  /\ pending < CompletionBound
  /\ pending' = pending + 1
  /\ IF HasRoom /\ (owned => blocks > 0)
     THEN /\ jobs' = Append(jobs, NewJob(kind, s, "none", owned))
          /\ blocks' = IF owned THEN blocks - 1 ELSE blocks
     ELSE UNCHANGED <<jobs, blocks>>
  /\ UNCHANGED <<stopping, accepting, waiters, completions, writer, job, offset, storage,
                 callerT, admitted, charged>>

\* Mutation: the bound of the reservations is one too high.
SubmitFileOverbooks(kind, s, owned) ==
  /\ Call /\ Ready(kind) /\ Starts(kind)
  /\ IF pending <= CompletionBound /\ HasRoom /\ (owned => blocks > 0)
     THEN /\ pending' = pending + 1
          /\ jobs' = Append(jobs, NewJob(kind, s, "none", owned))
          /\ blocks' = IF owned THEN blocks - 1 ELSE blocks
     ELSE UNCHANGED <<pending, jobs, blocks>>
  /\ UNCHANGED <<stopping, accepting, waiters, completions, writer, job, offset, storage,
                 callerT, admitted, charged>>

\* submit_atomic, submit_atomic_borrowed, stream_begin, stream_append_borrowed,
\* stream_commit, stream_abort: a place in the ring is reserved before the job
\* is queued, and given back when it is not.
SubmitFile(kind, s, owned) ==
  /\ Call /\ Ready(kind) /\ Starts(kind)
  /\ IF pending < CompletionBound /\ HasRoom /\ (owned => blocks > 0)
     THEN /\ pending' = pending + 1
          /\ jobs' = Append(jobs, NewJob(kind, s, "none", owned))
          /\ blocks' = IF owned THEN blocks - 1 ELSE blocks
     ELSE UNCHANGED <<pending, jobs, blocks>>
  /\ UNCHANGED <<stopping, accepting, waiters, completions, writer, job, offset, storage,
                 callerT, admitted, charged>>

TakeCompletion ==
  /\ caller = "idle" /\ completions # <<>>
  /\ completions' = Tail(completions) /\ pending' = pending - 1
  /\ UNCHANGED <<control, jobs, blocks, waiters, writer, job, offset, storage, callerT,
                 calls, admitted, charged>>

StopWriter ==
  /\ caller = "stop" /\ caller' = "join"
  /\ stopping' = TRUE /\ accepting' = FALSE
  /\ UNCHANGED <<running, jobs, blocks, waiters, pending, completions, writer, job, offset,
                 storage, ticket, final, calls, admitted, charged>>

Join ==
  /\ caller = "join" /\ writer = "exited" /\ caller' = "down"
  /\ running' = FALSE
  /\ UNCHANGED <<stopping, accepting, jobs, blocks, waiters, pending, completions, writer,
                 job, offset, storage, ticket, final, calls, admitted, charged>>

Caller ==
  \/ OpenLog \/ FlushLog \/ CloseLog \/ AppendLog
  \/ \E owned \in BOOLEAN : SubmitFile("atomic", 0, owned)
  \/ \E kind \in {"begin", "add", "commit", "abort"}, s \in StreamIds : SubmitFile(kind, s, FALSE)
  \/ TakeCompletion \/ JobDone \/ TimeOut \/ Shutdown \/ StopWriter \/ Join

-----------------------------------------------------------------------------
(* The LogWriter thread.  Every call to the file system may fail.          *)

Working(kinds) == job # <<>> /\ job[1].kind \in kinds
Held == <<running, stopping, pending, callerT, calls, admitted>>

\* Mutation: the block of a job that failed is not given back.
FinishKeepsBlock(j, done, status) ==
  /\ completions' = IF Async(j) THEN Append(completions, [id |-> j.id, status |-> status])
                                ELSE completions
  /\ charged' = IF j.kind = "append" /\ status # "ok"
                THEN charged \cup {<<j.id, k>> : k \in done + 1 .. Size} ELSE charged
  /\ blocks' = IF j.owned /\ status = "ok" THEN blocks + 1 ELSE blocks
  /\ waiters' = IF j.waiter = "none" THEN waiters
                ELSE [waiters EXCEPT ![j.waiter] = [refs |-> @.refs - 1, status |-> status]]

\* Mutation: a job that failed part-way is charged as if nothing had been written.
FinishChargesAll(j, done, status) ==
  /\ completions' = IF Async(j) THEN Append(completions, [id |-> j.id, status |-> status])
                                ELSE completions
  /\ charged' = IF j.kind = "append" /\ status # "ok"
                THEN charged \cup ToSet(Bytes(j.id)) ELSE charged
  /\ blocks' = IF j.owned THEN blocks + 1 ELSE blocks
  /\ waiters' = IF j.waiter = "none" THEN waiters
                ELSE [waiters EXCEPT ![j.waiter] = [refs |-> @.refs - 1, status |-> status]]

\* finish: the completion, the loss account, the block and the waiter of the job.
Finish(j, done, status) ==
  /\ completions' = IF Async(j) THEN Append(completions, [id |-> j.id, status |-> status])
                                ELSE completions
  /\ charged' = IF j.kind = "append" /\ status # "ok"
                THEN charged \cup {<<j.id, k>> : k \in done + 1 .. Size} ELSE charged
  /\ blocks' = IF j.owned THEN blocks + 1 ELSE blocks
  /\ waiters' = IF j.waiter = "none" THEN waiters
                ELSE [waiters EXCEPT ![j.waiter] = [refs |-> @.refs - 1, status |-> status]]

Done(status) ==
  /\ Finish(job[1], offset, status)
  /\ writer' = "loop" /\ job' = <<>> /\ offset' = 0
  /\ UNCHANGED <<jobs, Held>>

Goto(pc) ==
  /\ writer' = pc
  /\ UNCHANGED <<jobs, job, completions, charged, blocks, waiters, Held>>

TakeJob ==
  /\ running /\ writer = "loop" /\ ~stopping /\ jobs # <<>>
  /\ job' = <<Head(jobs)>> /\ jobs' = Tail(jobs) /\ writer' = "job"
  /\ UNCHANGED <<control, blocks, waiters, pending, completions, offset, storage, callerT,
                 calls, admitted, charged>>

RunOpen ==
  /\ writer = "job" /\ Working({"open"})
  /\ \/ file /\ Done("busy") /\ UNCHANGED <<accepting, file>>
     \/ ~file /\ \E ok \in BOOLEAN : /\ file' = ok /\ accepting' = ok
                                     /\ Done(IF ok THEN "ok" ELSE "io")
  /\ UNCHANGED <<log, stream, temps, destination>>

RunFlush ==
  /\ writer = "job" /\ Working({"flush"})
  /\ \E ok \in BOOLEAN : (ok => file) /\ Done(IF ok THEN "ok" ELSE "io")
  /\ UNCHANGED <<accepting, storage>>

RunClose ==
  /\ writer = "job" /\ Working({"close"})
  /\ accepting' = FALSE /\ file' = FALSE
  /\ \E ok \in BOOLEAN : (file \/ ok) /\ Done(IF ok THEN "ok" ELSE "io")
  /\ UNCHANGED <<log, stream, temps, destination>>

\* The temporary file of a job: numbered by the request, or by the stream.
Number(j) == IF j.kind = "atomic" THEN j.id ELSE j.stream
IsOpen(n) == stream # <<>> /\ stream[1].id = n
Put(n, t) == temps' = [m \in DOMAIN temps \cup {n} |-> IF m = n THEN t ELSE temps[m]]
Delete(n) == temps' = [m \in DOMAIN temps \ {n} |-> temps[m]]
Empty == [bytes |-> <<>>, flushed |-> FALSE]

\* An append needs the log, a part needs its stream, a commit likewise.
RunRefused ==
  /\ writer = "job"
  /\ \/ Working({"append"}) /\ ~file /\ Done("not_open")
     \/ Working({"begin"}) /\ stream # <<>> /\ Done("busy")
     \/ Working({"add", "commit"}) /\ ~IsOpen(job[1].stream) /\ Done("not_open")
     \/ Working({"abort"}) /\ stream = <<>> /\ Done("ok")
     \/ Working({"abort"}) /\ stream # <<>> /\ ~IsOpen(job[1].stream) /\ Done("not_open")
  /\ UNCHANGED <<accepting, storage>>

\* CreateFileW with CREATE_ALWAYS and no sharing: the open stream's name is refused.
RunCreate ==
  /\ writer = "job"
  /\ Working({"atomic"}) \/ (Working({"begin"}) /\ stream = <<>>)
  /\ LET j == job[1]
     IN \/ Done("io") /\ UNCHANGED <<temps, stream>>
        \/ /\ ~IsOpen(Number(j)) /\ Put(Number(j), Empty)
           /\ IF j.kind = "atomic"
              THEN Goto("write") /\ UNCHANGED <<stream, offset>>
              ELSE Done("ok") /\ stream' = <<[id |-> j.stream, parts |-> <<>>]>>
  /\ UNCHANGED <<accepting, file, log, destination>>

RunAppend ==
  /\ writer = "job" /\ Working({"append"}) /\ file
  /\ Goto("write") /\ UNCHANGED <<accepting, offset, storage>>

RunAdd ==
  /\ writer = "job" /\ Working({"add"}) /\ IsOpen(job[1].stream)
  /\ stream' = <<[stream[1] EXCEPT !.parts = Append(@, job[1].id)]>>
  /\ Goto("write") /\ UNCHANGED <<accepting, offset, file, log, temps, destination>>

\* Mutation: a retry starts again from the first byte.
WriteSomeAgain ==
  /\ writer = "write" /\ offset < Size
  /\ \E n \in offset + 1 .. Size :
       LET part == SubSeq(Bytes(job[1].id), 1, n) IN
       /\ offset' = n
       /\ IF Working({"append"})
          THEN log' = log \o part /\ UNCHANGED temps
          ELSE /\ Put(Number(job[1]), [bytes |-> temps[Number(job[1])].bytes \o part,
                                       flushed |-> FALSE])
               /\ UNCHANGED log
  /\ UNCHANGED <<control, jobs, blocks, waiters, pending, completions, writer, job, file,
                 stream, destination, callerT, calls, admitted, charged>>

\* write_all: one WriteFile, which may take less than it is given.
WriteSome ==
  /\ writer = "write" /\ offset < Size
  /\ \E n \in offset + 1 .. Size :
       LET part == SubSeq(Bytes(job[1].id), offset + 1, n) IN
       /\ offset' = n
       /\ IF Working({"append"})
          THEN log' = log \o part /\ UNCHANGED temps
          ELSE /\ Put(Number(job[1]), [bytes |-> temps[Number(job[1])].bytes \o part,
                                       flushed |-> FALSE])
               /\ UNCHANGED log
  /\ UNCHANGED <<control, jobs, blocks, waiters, pending, completions, writer, job, file,
                 stream, destination, callerT, calls, admitted, charged>>

Written ==
  /\ writer = "write" /\ offset = Size
  /\ IF Working({"atomic"}) THEN Goto("flush") /\ UNCHANGED offset ELSE Done("ok")
  /\ UNCHANGED <<accepting, storage>>

\* Mutation: the stream survives the part it lost.
WriteFailsStreamStays ==
  /\ writer = "write" /\ offset < Size
  /\ Working({"append"}) => stopping
  /\ Done("io")
  /\ IF Working({"append", "add"}) THEN UNCHANGED temps ELSE Delete(Number(job[1]))
  /\ UNCHANGED <<accepting, file, log, destination, stream>>

\* Mutation: an append is given up at its first failure.
WriteFailsDrops ==
  /\ writer = "write" /\ offset < Size
  /\ Done(IF Working({"append"}) THEN "ok" ELSE "io")
  /\ IF Working({"append"}) THEN UNCHANGED temps ELSE Delete(Number(job[1]))
  /\ stream' = IF Working({"add"}) THEN <<>> ELSE stream
  /\ UNCHANGED <<accepting, file, log, destination>>

\* Mutation: an append is retried even when the writer is to stop.
WriteFailsNever ==
  /\ writer = "write" /\ offset < Size
  /\ ~Working({"append"})
  /\ Done("io")
  /\ Delete(Number(job[1]))
  /\ stream' = IF Working({"add"}) THEN <<>> ELSE stream
  /\ UNCHANGED <<accepting, file, log, destination>>

\* The write fails.  A log append is retried unless the writer is to stop; a
\* request ends, and its temporary file with it.
WriteFails ==
  /\ writer = "write" /\ offset < Size
  /\ Working({"append"}) => stopping
  /\ Done("io")
  /\ IF Working({"append"}) THEN UNCHANGED temps ELSE Delete(Number(job[1]))
  /\ stream' = IF Working({"add"}) THEN <<>> ELSE stream
  /\ UNCHANGED <<accepting, file, log, destination>>

\* AtomicStream::commit takes the stream, an atomic write has written its file.
RunCommit ==
  /\ writer = "job" /\ Working({"commit"}) /\ IsOpen(job[1].stream)
  /\ Goto("flush") /\ UNCHANGED <<accepting, offset, storage>>

\* Mutation: the file is moved into place before it is flushed.
FlushSkipped ==
  /\ writer = "flush"
  /\ Goto("move") /\ UNCHANGED <<accepting, offset, storage>>

FlushTemp ==
  /\ writer = "flush"
  /\ Put(Number(job[1]), [temps[Number(job[1])] EXCEPT !.flushed = TRUE])
  /\ Goto("move") /\ UNCHANGED <<accepting, offset, file, log, stream, destination>>

MoveTemp ==
  /\ writer = "move" /\ Done("ok")
  /\ destination' = [bytes |-> temps[Number(job[1])].bytes,
                     flushed |-> temps[Number(job[1])].flushed,
                     parts |-> IF Working({"atomic"}) THEN <<job[1].id>> ELSE stream[1].parts]
  /\ Delete(Number(job[1]))
  /\ stream' = IF Working({"commit"}) THEN <<>> ELSE stream
  /\ UNCHANGED <<accepting, file, log>>

\* Mutation: the file that could not be moved is left beside its destination.
PutFailsLeaves ==
  /\ writer \in {"flush", "move"} /\ Done("io")
  /\ stream' = IF Working({"commit"}) THEN <<>> ELSE stream
  /\ UNCHANGED <<accepting, file, log, destination, temps>>

\* The flush or the move fails: the temporary file is deleted.
PutFails ==
  /\ writer \in {"flush", "move"} /\ Done("io")
  /\ Delete(Number(job[1]))
  /\ stream' = IF Working({"commit"}) THEN <<>> ELSE stream
  /\ UNCHANGED <<accepting, file, log, destination>>

RunAbort ==
  /\ writer = "job" /\ Working({"abort"}) /\ IsOpen(job[1].stream)
  /\ Done("ok") /\ stream' = <<>> /\ Delete(job[1].stream)
  /\ UNCHANGED <<accepting, file, log, destination>>

\* cancel_pending: the stopped writer finishes every queued job.
Cancel ==
  /\ running /\ writer = "loop" /\ stopping /\ jobs # <<>>
  /\ Finish(Head(jobs), 0, "timeout") /\ jobs' = Tail(jobs)
  /\ UNCHANGED <<control, pending, writer, job, offset, storage, callerT, calls, admitted>>

\* Mutation: the writer leaves with jobs still queued.
ExitEarly ==
  /\ running /\ writer = "loop" /\ stopping
  /\ writer' = "exited" /\ file' = FALSE /\ stream' = <<>>
  /\ IF stream = <<>> THEN UNCHANGED temps ELSE Delete(stream[1].id)
  /\ UNCHANGED <<control, jobs, blocks, waiters, pending, completions, job, offset, log,
                 destination, callerT, calls, admitted, charged>>
\* The thread returns: the log and the stream are closed with it.
Exit ==
  /\ running /\ writer = "loop" /\ stopping /\ jobs = <<>>
  /\ writer' = "exited" /\ file' = FALSE /\ stream' = <<>>
  /\ IF stream = <<>> THEN UNCHANGED temps ELSE Delete(stream[1].id)
  /\ UNCHANGED <<control, jobs, blocks, waiters, pending, completions, job, offset, log,
                 destination, callerT, calls, admitted, charged>>


Writer ==
  \/ TakeJob \/ RunOpen \/ RunFlush \/ RunClose \/ RunRefused \/ RunCreate \/ RunAppend
  \/ RunAdd \/ Written \/ WriteFails \/ RunCommit \/ FlushTemp \/ MoveTemp
  \/ PutFails \/ RunAbort \/ Cancel \/ Exit

Next == Caller \/ Writer \/ WriteSome
Spec == Init /\ [][Next]_vars

\* The writer thread runs on and a call to the file system returns; that a write
\* works is no part of it.  A caller that has begun to shut down carries on,
\* and its wait ends when the job does or when its time is up.
FairSpec ==
  Spec /\ WF_vars(Writer) /\ WF_vars(JobDone \/ TimeOut) /\ WF_vars(StopWriter) /\ WF_vars(Join)

-----------------------------------------------------------------------------
(* Properties                                                              *)

Live == jobs \o job
CountIf(s, P(_)) == Cardinality({i \in DOMAIN s : P(s[i])})

\* The reservation of a request stands for exactly one place: the queue, the
\* writer's hands or the completion ring.  So publish_atomic_completion never
\* finds the ring full, and no request is answered twice.
ReservationsExact ==
  /\ pending = CountIf(Live, Async) + Len(completions)
  /\ \A i, k \in DOMAIN completions : completions[i].id = completions[k].id => i = k
  /\ \A i \in DOMAIN completions, k \in DOMAIN Live : completions[i].id # Live[k].id

\* A completion object counts exactly the sides that still hold it: the job,
\* until finish, and the caller, until its wait ends.  One that timed out is
\* not handed to another call while the job can still write to it.
WaiterRefsExact ==
  \A w \in Waiters :
    waiters[w].refs = CountIf(Live, LAMBDA j : j.waiter = w)
                    + CountIf(ticket, LAMBDA j : j.waiter = w)

OutstandingBytes ==
  (UNION {{<<j.id, k>> : k \in 1 .. Size} : j \in {x \in ToSet(jobs) : x.kind = "append"}})
    \cup (IF Working({"append"}) THEN {<<job[1].id, k>> : k \in offset + 1 .. Size} ELSE {})

\* Every byte the log accepted is in the file, charged to save_rejected_bytes,
\* or still to be written, and never two of these: an accepted byte is not lost
\* in silence and a written one is not reported lost.
BytesAccounted ==
  /\ UNION {ToSet(Bytes(id)) : id \in admitted} = ToSet(log) \cup charged \cup OutstandingBytes
  /\ ToSet(log) \cap charged = {} /\ ToSet(log) \cap OutstandingBytes = {}
  /\ charged \cap OutstandingBytes = {}

Before(a, b) == a[1] < b[1] \/ (a[1] = b[1] /\ a[2] < b[2])

\* The log holds the accepted bytes in the order they were appended, once each,
\* whatever was retried.
LogInOrder == \A i, k \in DOMAIN log : i < k => Before(log[i], log[k])

\* A flush or close that reports success has every earlier append behind it.
SyncMeansWritten ==
  caller = "wait" /\ ticket[1].kind \in {"flush", "close"}
    /\ waiters[ticket[1].waiter].status = "ok"
  => \A id \in admitted :
       id < ticket[1].id => ToSet(Bytes(id)) \subseteq ToSet(log) \cup charged

\* The log is what was accepted: complete, in order, and as far as a call reported it.
LogExact == BytesAccounted /\ LogInOrder /\ SyncMeansWritten

\* bytes are the first n bytes of the payloads parts, one payload after the other.
Filled(bytes, parts, n) ==
  /\ Len(bytes) = n
  /\ \A i \in DOMAIN parts, k \in 1 .. Size :
       Size * (i - 1) + k <= n => bytes[Size * (i - 1) + k] = <<parts[i], k>>

\* At every step, hence wherever the process is killed, the destination holds
\* one whole payload, or every part of one stream, and it was flushed first.
DestinationWhole ==
  /\ Filled(destination.bytes, destination.parts, Size * Len(destination.parts))
  /\ destination.flushed

\* Between two jobs the only temporary file on disk is the open stream's.
NoTempLeft ==
  writer \in {"loop", "exited"} => DOMAIN temps = {stream[i].id : i \in DOMAIN stream}

\* The files beside the log: the destination is whole, its temporary files accounted for.
FilesWhole == DestinationWhole /\ NoTempLeft

\* After shutdown no job, block, completion object or temporary file is left,
\* and every request that was accepted has its completion.
ShutdownReturnsAll ==
  caller = "down" =>
    /\ jobs = <<>> /\ job = <<>> /\ blocks = DataBlocks /\ temps = <<>> /\ ~file
    /\ \A w \in Waiters : waiters[w].refs = 0
    /\ pending = Len(completions)

\* Reservations, completion objects and blocks are counted right and come back.
RequestsExact == TypeOK /\ ReservationsExact /\ WaiterRefsExact /\ ShutdownReturnsAll

\* A disk that refuses writes works again in the end.
DiskRecovers == WF_vars(WriteSome)

\* If the disk recovers, a job that was queued is finished: late answers free the completion objects
\* of calls that gave up, so that log control is not refused for ever, and
\* every accepted request is answered.
JobsFinish ==
  DiskRecovers => \A id \in 1 .. CallBound :
    (\E i \in DOMAIN jobs : jobs[i].id = id) ~> (\A i \in DOMAIN Live : Live[i].id # id)

\* Shutdown ends, whatever is queued, and also when every write is refused from
\* some point on for ever.
ShutdownEnds == final ~> caller = "down"

\* What was begun ends: a job, and shutdown.
WriterSettles == JobsFinish /\ ShutdownEnds

=============================================================================
