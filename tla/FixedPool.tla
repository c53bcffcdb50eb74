------------------------------- MODULE FixedPool -------------------------------
(***************************************************************************)
(* FixedPool: a pool of blocks whose free list is a linked stack, its head *)
(* an index and a tag changed together by compare-and-swap.  A free block  *)
(* holds the index of the next one in its first bytes; an allocated block  *)
(* holds whatever its owner writes there.  Threads allocate and release at *)
(* any time, and a block may be released by another thread than the one    *)
(* that allocated it.                                                      *)
(***************************************************************************)
EXTENDS Integers, Sequences

CONSTANTS
  Blocks,     \* block indices
  Nil,        \* kEmpty
  Threads,    \* threads that use the pool
  TagBound,   \* bound: successful swaps; the 32-bit tag is assumed not to wrap
  Order       \* Blocks in the order the constructor links them

ASSUME FixedPoolAssumption ==
  /\ Nil \notin Blocks /\ TagBound \in Nat
  /\ Order \in Seq(Blocks) /\ Len(Order) > 0
  /\ \A b \in Blocks : \E i \in 1 .. Len(Order) : Order[i] = b
  /\ \A i, k \in 1 .. Len(Order) : Order[i] = Order[k] => i = k

VARIABLES
  head,    \* head_: index and tag
  link,    \* the first bytes of each block, read as an index
  pc,      \* where each thread is
  snap,    \* its copy of the head
  next,    \* allocate: the link it read
  mine,    \* release: the block it gives back
  held,    \* blocks given out and not yet handed to release
  stack    \* history: the free blocks, the top last

vars == <<head, link, pc, snap, next, mine, held, stack>>

Link == Blocks \cup {Nil}
Tagged == [index : Link, tag : Nat]

TypeOK ==
  /\ head \in Tagged /\ link \in [Blocks -> Link]
  /\ pc \in [Threads -> {"idle", "next", "take", "link", "put"}]
  /\ snap \in [Threads -> Tagged] /\ next \in [Threads -> Link]
  /\ mine \in [Threads -> Blocks] /\ held \subseteq Blocks /\ stack \in Seq(Blocks)

\* What a free list must be.
Top == IF stack = <<>> THEN Nil ELSE stack[Len(stack)]
Below(i) == IF i = 1 THEN Nil ELSE stack[i - 1]

Init ==
  /\ stack = Order
  /\ head = [index |-> Order[Len(Order)], tag |-> 0]
  /\ link \in [Blocks -> Link]
  /\ \A i \in 1 .. Len(Order) : link[Order[i]] = IF i = 1 THEN Nil ELSE Order[i - 1]
  /\ pc = [t \in Threads |-> "idle"] /\ snap = [t \in Threads |-> head]
  /\ next = [t \in Threads |-> Nil] /\ mine = [t \in Threads |-> Order[1]]
  /\ held = {}

Step(t, from, to) == pc[t] = from /\ pc' = [pc EXCEPT ![t] = to]

\* The head as it is; an empty list ends allocate with nullptr.
Look(t, from) ==
  /\ Step(t, from, IF head.index = Nil THEN "idle" ELSE "next")
  /\ snap' = [snap EXCEPT ![t] = head]
  /\ UNCHANGED <<head, link, next, mine, held, stack>>

AllocLoad(t) == Look(t, "idle")

\* load_next: a plain read of a block that may have been taken meanwhile.
AllocNext(t) ==
  /\ Step(t, "next", "take")
  /\ next' = [next EXCEPT ![t] = link[snap[t].index]]
  /\ UNCHANGED <<head, link, snap, mine, held, stack>>

\* Mutation: the swap compares the index alone.
AllocTakeUntagged(t) ==
  /\ head.index = snap[t].index /\ Step(t, "take", "idle")
  /\ head.tag < TagBound
  /\ head' = [index |-> next[t], tag |-> head.tag + 1]
  /\ held' = held \cup {snap[t].index}
  /\ stack' = SubSeq(stack, 1, Len(stack) - 1)
  /\ UNCHANGED <<link, snap, next, mine>>

AllocTake(t) ==
  /\ head = snap[t] /\ Step(t, "take", "idle")
  /\ head.tag < TagBound
  /\ head' = [index |-> next[t], tag |-> head.tag + 1]
  /\ held' = held \cup {snap[t].index}
  /\ stack' = SubSeq(stack, 1, Len(stack) - 1)
  /\ UNCHANGED <<link, snap, next, mine>>

\* The weak swap fails, also without cause, and reads the head again.
AllocRetry(t) == Look(t, "take")

\* The owner of a block writes its payload over the link.
Overwrite(b) ==
  /\ b \in held
  /\ \E x \in Link : link' = [link EXCEPT ![b] = x]
  /\ UNCHANGED <<head, pc, snap, next, mine, held, stack>>

RelLoad(t, b) ==
  /\ b \in held /\ Step(t, "idle", "link")
  /\ mine' = [mine EXCEPT ![t] = b] /\ held' = held \ {b}
  /\ snap' = [snap EXCEPT ![t] = head]
  /\ UNCHANGED <<head, link, next, stack>>

\* store_next
RelLink(t) ==
  /\ Step(t, "link", "put")
  /\ link' = [link EXCEPT ![mine[t]] = snap[t].index]
  /\ UNCHANGED <<head, snap, next, mine, held, stack>>

\* Mutation: the link is not stored again after a swap that failed.
RelRetryKeepsLink(t) ==
  /\ pc[t] = "put" /\ snap' = [snap EXCEPT ![t] = head]
  /\ UNCHANGED <<head, link, pc, next, mine, held, stack>>

RelPut(t) ==
  /\ head = snap[t] /\ Step(t, "put", "idle")
  /\ head.tag < TagBound
  /\ head' = [index |-> mine[t], tag |-> head.tag + 1]
  /\ stack' = Append(stack, mine[t])
  /\ UNCHANGED <<link, snap, next, mine, held>>

RelRetry(t) ==
  /\ Step(t, "put", "link") /\ snap' = [snap EXCEPT ![t] = head]
  /\ UNCHANGED <<head, link, next, mine, held, stack>>

Next ==
  \/ \E t \in Threads :
       \/ AllocLoad(t) \/ AllocNext(t) \/ AllocTake(t) \/ AllocRetry(t)
       \/ RelLink(t) \/ RelPut(t) \/ RelRetry(t)
       \/ \E b \in Blocks : RelLoad(t, b)
  \/ \E b \in Blocks : Overwrite(b)

Spec == Init /\ [][Next]_vars

-----------------------------------------------------------------------------
(* Properties                                                              *)

Releasing(t) == pc[t] \in {"link", "put"}

\* Every block is in one place: on the free list, with a caller, or in the hands
\* of one release.  Hence allocate never gives out a block that is in use, two
\* threads never release into each other, and none is lost.
BlocksExact ==
  /\ \A b \in Blocks :
       \/ b \in held
       \/ \E i \in 1 .. Len(stack) : stack[i] = b
       \/ \E t \in Threads : Releasing(t) /\ mine[t] = b
  /\ \A i, k \in 1 .. Len(stack) : stack[i] = stack[k] => i = k
  /\ \A i \in 1 .. Len(stack) :
       stack[i] \notin held /\ \A t \in Threads : Releasing(t) => mine[t] # stack[i]
  /\ \A t \in Threads : Releasing(t) => mine[t] \notin held
  /\ \A t, u \in Threads : Releasing(t) /\ Releasing(u) /\ mine[t] = mine[u] => t = u

\* The head and the links spell out the free list, whatever owners write into
\* their blocks.
ListIntact ==
  /\ head.index = Top
  /\ \A i \in 1 .. Len(stack) : link[stack[i]] = Below(i)

\* A thread whose copy of the head still has the current tag has the current
\* head, and the link it read is the current link: what the swap relies on.
SnapshotsSound ==
  \A t \in Threads :
    pc[t] # "idle" =>
      /\ snap[t].tag <= head.tag
      /\ snap[t].tag = head.tag => snap[t] = head
      /\ pc[t] \in {"next", "take"} => snap[t].index # Nil
      /\ pc[t] = "take" /\ snap[t].tag = head.tag => next[t] = link[head.index]
      /\ pc[t] = "put" => link[mine[t]] = snap[t].index

PoolInv == TypeOK /\ BlocksExact /\ ListIntact /\ SnapshotsSound

Free == {stack[i] : i \in 1 .. Len(stack)}

\* allocate gives out a free block: not one a caller holds, and not one that
\* another thread is just releasing.
OnlyFreeTaken ==
  [][\A t \in Threads : pc[t] = "take" /\ pc'[t] = "idle" /\ head' # head
       => snap[t].index \in Free]_vars

=============================================================================
