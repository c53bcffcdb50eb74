------------------------------ MODULE PartsProofs ------------------------------
(***************************************************************************)
(* What the parts of MCParts promise, for any values of the constants:     *)
(*   pool    no block is lost or given out twice, allocate takes free ones *)
(*   ring    every report is taken whole, once, in order, or is dropped    *)
(*           when the ring is full                                         *)
(*   timer   deadlines stay on the grid of their worker                    *)
(*   lines   errors, modem inputs and answers are what happened            *)
(*   health  what the observer reports of a thread is so                   *)
(*   mirror  a window of grace is driven and reopens nothing the user      *)
(*           closed                                                        *)
(* Each part has an inductive invariant of its own; the last theorem puts  *)
(* them together for the behaviours MCParts checks.                        *)
(***************************************************************************)
EXTENDS MCParts, SequenceTheorems, FiniteSetTheorems, TLAPS


-----------------------------------------------------------------------------
(* FixedPool: the tagged free list                                         *)

\* FixedPool.  PoolInv is inductive: the tag only grows, so a copy of the head with the
\* current tag is the current head, and between the copy and now no block of the free
\* list was taken or written: that is SnapshotsSound, and the swaps rest on it.

LEMMA Pop ==
  ASSUME NEW S, NEW s \in Seq(S), Len(s) > 0, NEW p, p = SubSeq(s, 1, Len(s) - 1)
  PROVE  p \in Seq(S) /\ Len(p) = Len(s) - 1 /\ \A i \in 1 .. Len(s) - 1 : p[i] = s[i]
<1> DEFINE m == Len(s) - 1
<1>1. m \in Int /\ 1 \in Int /\ \A i \in 1 .. m : s[i] \in S
  OBVIOUS
<1> HIDE DEF m
<1>2. /\ SubSeq(s, 1, m) \in Seq(S) /\ Len(SubSeq(s, 1, m)) = IF 1 <= m THEN m - 1 + 1 ELSE 0
      /\ \A i \in 1 .. m - 1 + 1 : SubSeq(s, 1, m)[i] = s[1 + i - 1]
  BY <1>1, SubSeqProperties
<1>3. m - 1 + 1 = m /\ (1 <= m \/ m = 0) /\ \A i \in 1 .. m : 1 + i - 1 = i
  <2>1. Len(s) \in Nat /\ m = Len(s) - 1
    BY DEF m
  <2>2. m \in Nat
    BY <2>1
  <2> QED BY <2>2
<1>4. p = SubSeq(s, 1, m)
  BY DEF m
<1> HIDE DEF m
<1>5. p \in Seq(S) /\ Len(p) = m /\ \A i \in 1 .. m : p[i] = s[i]
  BY <1>1, <1>2, <1>3, <1>4
<1> QED BY <1>5 DEF m

LEMMA NoneLeft ==
  ASSUME NEW S, NEW s \in Seq(S) PROVE Len(s) = 0 <=> s = <<>>
  OBVIOUS

LEMMA Push ==
  ASSUME NEW S, NEW s \in Seq(S), NEW e \in S, NEW p, p = Append(s, e)
  PROVE  /\ p \in Seq(S) /\ Len(p) = Len(s) + 1 /\ p[Len(p)] = e
         /\ \A i \in 1 .. Len(s) : p[i] = s[i]
  OBVIOUS

\* The constructor links all blocks.
LEMMA InitInv == Init => PoolInv
<1> SUFFICES ASSUME Init PROVE PoolInv
  OBVIOUS
<1> USE FixedPoolAssumption DEF Init
<1>1. TypeOK
  BY DEF TypeOK, Tagged, Link
<1>2. BlocksExact
  BY DEF BlocksExact, Releasing
<1>3. ListIntact
  BY DEF ListIntact, Top, Below
<1>4. SnapshotsSound
  BY DEF SnapshotsSound
<1> QED BY <1>1, <1>2, <1>3, <1>4 DEF PoolInv

\* A free list with a first element is not empty, and its link is the next one.
LEMMA TopFree ==
  ASSUME TypeOK, ListIntact, head.index # Nil
  PROVE  /\ Len(stack) \in Nat /\ Len(stack) > 0
         /\ head.index = stack[Len(stack)] /\ head.index \in Blocks
         /\ link[head.index] = Below(Len(stack))
<1>1. stack \in Seq(Blocks) /\ Len(stack) \in Nat
  BY DEF TypeOK
<1>2. stack # <<>> /\ Len(stack) > 0
  BY <1>1 DEF ListIntact, Top
<1>3. head.index = stack[Len(stack)]
  BY <1>2 DEF ListIntact, Top
<1> QED BY <1>1, <1>2, <1>3 DEF ListIntact

LEMMA LookStep ==
  ASSUME PoolInv, NEW t \in Threads, AllocLoad(t) \/ AllocRetry(t) PROVE PoolInv'
<1> USE DEF PoolInv, AllocLoad, AllocRetry, Look, Step
<1>1. TypeOK'
  BY DEF TypeOK
<1>2. BlocksExact'
  BY DEF TypeOK, BlocksExact, Releasing
<1>3. ListIntact'
  BY DEF ListIntact, Top, Below
<1>4. /\ \A u \in Threads : u # t => snap'[u] = snap[u] /\ pc'[u] = pc[u]
      /\ snap'[t] = head /\ (pc'[t] = "idle" \/ (pc'[t] = "next" /\ head.index # Nil))
      /\ head' = head /\ link' = link /\ next' = next /\ mine' = mine /\ head.tag \in Nat
  <2>1. pc' = [pc EXCEPT ![t] = IF head.index = Nil THEN "idle" ELSE "next"]
    OBVIOUS
  <2>2. pc'[t] = IF head.index = Nil THEN "idle" ELSE "next"
    BY <2>1 DEF TypeOK
  <2>3. pc'[t] = "idle" \/ (pc'[t] = "next" /\ head.index # Nil)
    BY <2>2
  <2> QED BY <2>1, <2>3 DEF TypeOK, Tagged
<1>5. SnapshotsSound'
  BY <1>4 DEF SnapshotsSound
<1> QED BY <1>1, <1>2, <1>3, <1>5

LEMMA NextStep ==
  ASSUME PoolInv, NEW t \in Threads, AllocNext(t) PROVE PoolInv'
<1> USE DEF PoolInv, AllocNext, Step
<1>1. TypeOK'
  <2>1. snap[t].index \in Blocks
    BY DEF TypeOK, Tagged, Link, SnapshotsSound
  <2> QED BY <2>1 DEF TypeOK
<1>2. BlocksExact'
  <2>1. \A u \in Threads : Releasing(u)' <=> Releasing(u)
    BY DEF TypeOK, Releasing
  <2> QED BY <2>1 DEF BlocksExact
<1>3. ListIntact'
  BY DEF ListIntact, Top, Below
<1>4. SnapshotsSound'
  BY DEF TypeOK, SnapshotsSound
<1> QED BY <1>1, <1>2, <1>3, <1>4

LEMMA TakeStep ==
  ASSUME PoolInv, NEW t \in Threads, AllocTake(t) PROVE PoolInv'
<1> USE DEF PoolInv, AllocTake, Step
<1> DEFINE n == Len(stack)
<1>1. /\ head.index # Nil /\ snap[t].index = head.index /\ next[t] = link[head.index]
      /\ head.tag \in Nat
  BY DEF TypeOK, Tagged, SnapshotsSound
<1>2. /\ n \in Nat /\ n > 0 /\ head.index = stack[n] /\ head.index \in Blocks
      /\ next[t] = Below(n)
  BY <1>1, TopFree
<1>3. /\ stack' \in Seq(Blocks) /\ Len(stack') = n - 1
      /\ \A i \in 1 .. n - 1 : stack'[i] = stack[i]
  <2>1. stack \in Seq(Blocks) /\ Len(stack) > 0 /\ stack' = SubSeq(stack, 1, Len(stack) - 1)
    BY <1>2 DEF TypeOK
  <2>2. /\ stack' \in Seq(Blocks) /\ Len(stack') = Len(stack) - 1
        /\ \A i \in 1 .. Len(stack) - 1 : stack'[i] = stack[i]
    BY ONLY <2>1, Pop
  <2> QED BY <2>2
<1>4. head' = [index |-> next[t], tag |-> head.tag + 1] /\ held' = held \cup {stack[n]}
  BY <1>1, <1>2
<1>5. TypeOK'
  BY <1>1, <1>2, <1>3, <1>4 DEF TypeOK, Tagged, Link
<1>6. BlocksExact'
  <2>1. \A u \in Threads : (Releasing(u)' <=> Releasing(u)) /\ mine'[u] = mine[u]
    BY DEF TypeOK, Releasing
  <2>2. \A i \in 1 .. n - 1 : stack[i] # stack[n]
    BY <1>2 DEF BlocksExact
  <2>3. \A u \in Threads : Releasing(u) => mine[u] # stack[n]
    BY <1>2 DEF BlocksExact
  <2>4. \A b \in Blocks : \/ b \in held' \/ \E i \in 1 .. Len(stack') : stack'[i] = b
                          \/ \E u \in Threads : Releasing(u)' /\ mine'[u] = b
    BY <1>2, <1>3, <1>4, <2>1 DEF BlocksExact
  <2>5. \A i \in 1 .. Len(stack') : i \in 1 .. n /\ i # n /\ stack'[i] = stack[i]
    BY <1>2, <1>3
  <2>6. \A i \in 1 .. Len(stack') :
          stack'[i] \notin held' /\ \A u \in Threads : Releasing(u)' => mine'[u] # stack'[i]
    BY <1>4, <2>1, <2>2, <2>5 DEF BlocksExact
  <2>7. \A i, k \in 1 .. Len(stack') : stack'[i] = stack'[k] => i = k
    BY <2>5 DEF BlocksExact
  <2>8. \A u \in Threads : Releasing(u)' => mine'[u] \notin held'
    BY <1>4, <2>1, <2>3 DEF BlocksExact
  <2>9. \A u, v \in Threads : Releasing(u)' /\ Releasing(v)' /\ mine'[u] = mine'[v] => u = v
    BY <2>1 DEF BlocksExact
  <2> QED BY <2>4, <2>6, <2>7, <2>8, <2>9 DEF BlocksExact
<1>7. ListIntact'
  <2>1. Len(stack') = 0 <=> stack' = <<>>
    BY <1>3, NoneLeft
  <2>2. head'.index = Below(n)
    BY <1>2, <1>4
  <2>3. head'.index = Top'
    BY <1>2, <1>3, <2>1, <2>2 DEF Top, Below
  <2>4. \A i \in 1 .. Len(stack') : Below(i)' = Below(i) /\ link'[stack'[i]] = link[stack[i]]
    BY <1>2, <1>3 DEF Below
  <2>5. \A i \in 1 .. Len(stack') : i \in 1 .. n
    BY <1>2, <1>3
  <2> QED BY <2>3, <2>4, <2>5 DEF ListIntact
<1>8. SnapshotsSound'
  BY <1>1, <1>4 DEF TypeOK, Tagged, SnapshotsSound
<1> QED BY <1>5, <1>6, <1>7, <1>8

LEMMA OverwriteStep ==
  ASSUME PoolInv, NEW b \in Blocks, Overwrite(b) PROVE PoolInv'
<1> USE DEF PoolInv, Overwrite
<1>1. b \in held /\ \A c \in Blocks : c # b => link'[c] = link[c]
  BY DEF TypeOK
<1>2. TypeOK'
  BY DEF TypeOK
<1>3. BlocksExact'
  BY DEF BlocksExact, Releasing
<1>4. \A i \in 1 .. Len(stack) : stack[i] \in Blocks /\ stack[i] # b
  BY <1>1 DEF TypeOK, BlocksExact
<1>5. ListIntact'
  BY <1>1, <1>4 DEF ListIntact, Top, Below
<1>6. \A t \in Threads : pc[t] = "take" /\ snap[t].tag = head.tag
                          => link'[head.index] = link[head.index]
  <2> SUFFICES ASSUME NEW t \in Threads, pc[t] = "take", snap[t].tag = head.tag
               PROVE  link'[head.index] = link[head.index]
    OBVIOUS
  <2>1. head.index # Nil
    BY DEF SnapshotsSound
  <2>2. /\ Len(stack) \in Nat /\ Len(stack) > 0
        /\ head.index = stack[Len(stack)] /\ head.index \in Blocks
    BY <2>1, TopFree
  <2> QED BY <1>1, <1>4, <2>2
<1>7. \A t \in Threads : pc[t] = "put" => link'[mine[t]] = link[mine[t]]
  BY <1>1 DEF TypeOK, BlocksExact, Releasing
<1>8. SnapshotsSound'
  BY <1>6, <1>7 DEF SnapshotsSound
<1> QED BY <1>2, <1>3, <1>5, <1>8

LEMMA RelLoadStep ==
  ASSUME PoolInv, NEW t \in Threads, NEW b \in Blocks, RelLoad(t, b) PROVE PoolInv'
<1> USE DEF PoolInv, RelLoad, Step
<1>1. TypeOK'
  BY DEF TypeOK
<1>2. /\ \A u \in Threads : u # t => (Releasing(u)' <=> Releasing(u)) /\ mine'[u] = mine[u]
      /\ ~Releasing(t) /\ Releasing(t)' /\ mine'[t] = b /\ b \in held /\ held' = held \ {b}
  BY DEF TypeOK, Releasing
<1>3. BlocksExact'
  <2>1. \A c \in Blocks : \/ c \in held' \/ \E i \in 1 .. Len(stack') : stack'[i] = c
                          \/ \E u \in Threads : Releasing(u)' /\ mine'[u] = c
    BY <1>2 DEF BlocksExact
  <2>2. \A u, v \in Threads : Releasing(u)' /\ Releasing(v)' /\ mine'[u] = mine'[v] => u = v
    BY <1>2 DEF BlocksExact
  <2>3. \A i \in 1 .. Len(stack) :
          stack[i] \notin held' /\ \A u \in Threads : Releasing(u)' => mine'[u] # stack[i]
    BY <1>2 DEF BlocksExact
  <2>4. \A u \in Threads : Releasing(u)' => mine'[u] \notin held'
    BY <1>2 DEF BlocksExact
  <2> QED BY <2>1, <2>2, <2>3, <2>4 DEF BlocksExact
<1>4. ListIntact'
  BY DEF ListIntact, Top, Below
<1>5. SnapshotsSound'
  BY DEF TypeOK, Tagged, SnapshotsSound
<1> QED BY <1>1, <1>3, <1>4, <1>5

LEMMA RelLinkStep ==
  ASSUME PoolInv, NEW t \in Threads, RelLink(t) PROVE PoolInv'
<1> USE DEF PoolInv, RelLink, Step
<1> DEFINE b == mine[t]
<1>1. /\ b \in Blocks /\ Releasing(t) /\ link'[b] = snap[t].index
      /\ \A c \in Blocks : c # b => link'[c] = link[c]
  BY DEF TypeOK, Releasing
<1>2. TypeOK'
  BY DEF TypeOK, Tagged
<1>3. BlocksExact'
  BY DEF TypeOK, BlocksExact, Releasing
<1>4. \A i \in 1 .. Len(stack) : stack[i] \in Blocks /\ stack[i] # b
  BY <1>1 DEF TypeOK, BlocksExact
<1>5. ListIntact'
  BY <1>1, <1>4 DEF ListIntact, Top, Below
<1>6. \A u \in Threads : pc[u] = "take" /\ snap[u].tag = head.tag
                          => link'[head.index] = link[head.index]
  <2> SUFFICES ASSUME NEW u \in Threads, pc[u] = "take", snap[u].tag = head.tag
               PROVE  link'[head.index] = link[head.index]
    OBVIOUS
  <2>1. head.index # Nil
    BY DEF SnapshotsSound
  <2>2. /\ Len(stack) \in Nat /\ Len(stack) > 0
        /\ head.index = stack[Len(stack)] /\ head.index \in Blocks
    BY <2>1, TopFree
  <2> QED BY <1>1, <1>4, <2>2
<1>7. \A u \in Threads : u # t /\ pc[u] = "put" => link'[mine[u]] = link[mine[u]]
  BY <1>1 DEF TypeOK, BlocksExact, Releasing
<1>8. SnapshotsSound'
  BY <1>1, <1>6, <1>7 DEF TypeOK, SnapshotsSound
<1> QED BY <1>2, <1>3, <1>5, <1>8

LEMMA RelPutStep ==
  ASSUME PoolInv, NEW t \in Threads, RelPut(t) PROVE PoolInv'
<1> USE DEF PoolInv, RelPut, Step
<1> DEFINE b == mine[t]  n == Len(stack)
<1>1. /\ b \in Blocks /\ Releasing(t) /\ snap[t] = head /\ link[b] = head.index
      /\ head.tag \in Nat /\ n \in Nat
  BY DEF TypeOK, Tagged, SnapshotsSound, Releasing
<1>2. /\ stack' \in Seq(Blocks) /\ Len(stack') = n + 1 /\ stack'[n + 1] = b
      /\ \A i \in 1 .. n : stack'[i] = stack[i]
  <2>1. stack \in Seq(Blocks) /\ b \in Blocks /\ stack' = Append(stack, b)
    BY <1>1 DEF TypeOK
  <2> HIDE DEF PoolInv, RelPut, b
  <2> QED BY <2>1, Push
<1>3. head' = [index |-> b, tag |-> head.tag + 1]
  OBVIOUS
<1>4. TypeOK'
  BY <1>1, <1>2, <1>3 DEF TypeOK, Tagged, Link
<1>5. BlocksExact'
  <2>1. /\ \A u \in Threads : u # t => (Releasing(u)' <=> Releasing(u))
        /\ ~Releasing(t)' /\ mine' = mine /\ held' = held
    BY DEF TypeOK, Releasing
  <2>2. b \notin held /\ \A i \in 1 .. n : stack[i] # b
    BY <1>1 DEF BlocksExact
  <2>3. \A u \in Threads : u # t /\ Releasing(u) => mine[u] # b
    BY <1>1 DEF BlocksExact
  <2>4. \A c \in Blocks : \/ c \in held' \/ \E i \in 1 .. Len(stack') : stack'[i] = c
                          \/ \E u \in Threads : Releasing(u)' /\ mine'[u] = c
    <3> SUFFICES ASSUME NEW c \in Blocks, c \notin held, c # b,
                        ~\E u \in Threads : Releasing(u)' /\ mine'[u] = c
                 PROVE  \E i \in 1 .. Len(stack') : stack'[i] = c
      BY <1>1, <1>2, <2>1
    <3>1. PICK i \in 1 .. n : stack[i] = c
      BY <2>1 DEF BlocksExact
    <3> QED BY <1>1, <1>2, <3>1
  <2>5. \A i, k \in 1 .. Len(stack') : stack'[i] = stack'[k] => i = k
    <3> SUFFICES ASSUME NEW i \in 1 .. n + 1, NEW k \in 1 .. n + 1, stack'[i] = stack'[k]
                 PROVE  i = k
      BY <1>2
    <3>1. CASE i = n + 1 \/ k = n + 1
      BY <1>1, <1>2, <2>2, <3>1
    <3>2. CASE i # n + 1 /\ k # n + 1
      BY <1>1, <1>2, <3>2 DEF BlocksExact
    <3> QED BY <3>1, <3>2
  <2>6. \A i \in 1 .. Len(stack') :
          stack'[i] \notin held' /\ \A u \in Threads : Releasing(u)' => mine'[u] # stack'[i]
    <3> SUFFICES ASSUME NEW i \in 1 .. n + 1
                 PROVE  /\ stack'[i] \notin held
                        /\ \A u \in Threads : Releasing(u)' => mine[u] # stack'[i]
      BY <1>2, <2>1
    <3>1. CASE i = n + 1
      BY <1>2, <2>1, <2>2, <2>3, <3>1
    <3>2. CASE i # n + 1
      BY <1>1, <1>2, <2>1, <3>2 DEF BlocksExact
    <3> QED BY <3>1, <3>2
  <2>7. \A u \in Threads : Releasing(u)' => mine'[u] \notin held'
    BY <2>1 DEF BlocksExact
  <2>8. \A u, v \in Threads : Releasing(u)' /\ Releasing(v)' /\ mine'[u] = mine'[v] => u = v
    BY <2>1 DEF BlocksExact
  <2> QED BY <2>4, <2>5, <2>6, <2>7, <2>8 DEF BlocksExact
<1>6. ListIntact'
  <2>1. stack' # <<>> /\ Top' = b
    BY <1>1, <1>2 DEF Top
  <2>2. \A i : i = n + 1 => Below(i)' = head.index
    <3> SUFFICES ASSUME NEW i, i = n + 1 PROVE Below(i)' = head.index
      OBVIOUS
    <3>1. stack \in Seq(Blocks) /\ head.index = Top
      BY DEF TypeOK, ListIntact
    <3>2. CASE n = 0
      <4>1. head.index = Nil
        BY <3>1, <3>2, NoneLeft DEF Top
      <4> QED BY <3>2, <4>1 DEF Below
    <3>3. CASE n # 0
      <4>1. stack # <<>> /\ head.index = stack[n] /\ n \in 1 .. n
        BY <1>1, <3>1, <3>3 DEF Top
      <4>2. i # 1 /\ i - 1 = n
        BY <1>1, <3>3
      <4>3. Below(i)' = stack'[n]
        BY <4>2 DEF Below
      <4> QED BY <1>2, <4>1, <4>3
    <3> QED BY <3>2, <3>3
  <2>3. \A i \in 1 .. n : Below(i)' = Below(i)
    BY <1>1, <1>2 DEF Below
  <2>4. \A i \in 1 .. n + 1 : link'[stack'[i]] = Below(i)'
    <3> SUFFICES ASSUME NEW i \in 1 .. n + 1 PROVE link[stack'[i]] = Below(i)'
      OBVIOUS
    <3>1. CASE i = n + 1
      BY <1>1, <1>2, <2>2, <3>1
    <3>2. CASE i # n + 1
      BY <1>1, <1>2, <2>3, <3>2 DEF ListIntact
    <3> QED BY <3>1, <3>2
  <2> QED BY <1>2, <1>3, <2>1, <2>4 DEF ListIntact
<1>7. SnapshotsSound'
  BY <1>1, <1>3 DEF TypeOK, Tagged, SnapshotsSound
<1> QED BY <1>4, <1>5, <1>6, <1>7

LEMMA RelRetryStep ==
  ASSUME PoolInv, NEW t \in Threads, RelRetry(t) PROVE PoolInv'
<1> USE DEF PoolInv, RelRetry, Step
<1>1. TypeOK'
  BY DEF TypeOK
<1>2. BlocksExact'
  BY DEF TypeOK, BlocksExact, Releasing
<1>3. ListIntact'
  BY DEF ListIntact, Top, Below
<1>4. SnapshotsSound'
  BY DEF TypeOK, Tagged, SnapshotsSound
<1> QED BY <1>1, <1>2, <1>3, <1>4

LEMMA NextInv == PoolInv /\ [Next]_vars => PoolInv'
<1> SUFFICES ASSUME PoolInv, [Next]_vars PROVE PoolInv'
  OBVIOUS
<1>1. ASSUME NEW t \in Threads, AllocLoad(t) \/ AllocRetry(t) PROVE PoolInv'
  BY <1>1, LookStep
<1>2. ASSUME NEW t \in Threads, AllocNext(t) PROVE PoolInv'
  BY <1>2, NextStep
<1>3. ASSUME NEW t \in Threads, AllocTake(t) PROVE PoolInv'
  BY <1>3, TakeStep
<1>4. ASSUME NEW t \in Threads, RelLink(t) PROVE PoolInv'
  BY <1>4, RelLinkStep
<1>5. ASSUME NEW t \in Threads, RelPut(t) PROVE PoolInv'
  BY <1>5, RelPutStep
<1>6. ASSUME NEW t \in Threads, RelRetry(t) PROVE PoolInv'
  BY <1>6, RelRetryStep
<1>7. ASSUME NEW t \in Threads, NEW b \in Blocks, RelLoad(t, b) PROVE PoolInv'
  BY <1>7, RelLoadStep
<1>8. ASSUME NEW b \in Blocks, Overwrite(b) PROVE PoolInv'
  BY <1>8, OverwriteStep
<1>9. CASE UNCHANGED vars
  BY <1>9 DEF vars, PoolInv, TypeOK, BlocksExact, Releasing, ListIntact, Top, Below,
              SnapshotsSound
<1> QED BY <1>1, <1>2, <1>3, <1>4, <1>5, <1>6, <1>7, <1>8, <1>9 DEF Next

\* The free list is intact and every block in one place, at every step of any
\* number of threads: fixed_pool.hpp, allocate and release.
THEOREM PoolInvariant == Spec => []PoolInv
<1> QED BY InitInv, NextInv, PTL DEF Spec

\* No block is lost, given out twice or released into another release.
THEOREM BlocksAreExact == Spec => []BlocksExact
<1>1. PoolInv => BlocksExact
  BY DEF PoolInv
<1> QED BY PoolInvariant, <1>1, PTL

\* The head and the links spell out the free list.
THEOREM ListStaysIntact == Spec => []ListIntact
<1>1. PoolInv => ListIntact
  BY DEF PoolInv
<1> QED BY PoolInvariant, <1>1, PTL

\* The successful swap of allocate takes a free block.
THEOREM AllocateTakesFree == Spec => OnlyFreeTaken
<1> DEFINE A == \A t \in Threads : pc[t] = "take" /\ pc'[t] = "idle" /\ head' # head
                                     => snap[t].index \in Free
<1>1. PoolInv /\ [Next]_vars => [A]_vars
  <2> SUFFICES ASSUME PoolInv, [Next]_vars, NEW t \in Threads,
                      pc[t] = "take", pc'[t] = "idle", head' # head
               PROVE  snap[t].index \in Free
    BY DEF A
  <2>1. AllocTake(t)
    BY DEF Next, vars, AllocLoad, AllocNext, AllocRetry, RelLoad, RelLink, RelPut, RelRetry,
           Overwrite, Look, Step, AllocTake, PoolInv, TypeOK
  <2>2. head.index # Nil /\ snap[t] = head
    BY <2>1 DEF AllocTake, PoolInv, SnapshotsSound
  <2>3. /\ Len(stack) \in Nat /\ Len(stack) > 0 /\ head.index = stack[Len(stack)]
    BY <2>2, TopFree DEF PoolInv
  <2> QED BY <2>2, <2>3 DEF Free
<1> QED BY <1>1, PoolInvariant, PTL DEF Spec, OnlyFreeTaken, A

-----------------------------------------------------------------------------
(* ErrorRing: positions and numbers                                        *)

\* ErrorRing.  Positions wrap and a slot is reused every Size reports, so the invariant
\* speaks of report numbers, counted from the start of the ring: At(start, n) is the
\* position of report n, and RingAt says for each slot which report its tag is about.

LEMMA DivisionExact ==
  ASSUME NEW a \in Int, NEW b \in Nat \ {0}
  PROVE  a = b * (a \div b) + (a % b) /\ a % b \in 0 .. b - 1 /\ a \div b \in Int
OBVIOUS

LEMMA RemainderUnique ==
  ASSUME NEW b \in Nat \ {0}, NEW q \in Int, NEW r \in 0 .. b - 1
  PROVE  (b * q + r) % b = r
OBVIOUS

\* A remainder of a number less than one modulus away.
LEMMA RemainderNear ==
  ASSUME NEW b \in Nat \ {0}, NEW a \in 0 .. b - 1
  PROVE  a % b = a /\ (a + b) % b = a /\ (a - b) % b = a
OBVIOUS

\* The numbers of the ring: Far is more than any two positions in use are apart.
Far == PushBound + Size

LEMMA RingNumbers ==
  /\ Size \in Nat /\ Size >= 2 /\ Width \in Nat \ {0} /\ PushBound \in Nat /\ Far \in Nat
  /\ Width > 2 * Far /\ Size <= Far /\ Width % Size = 0 /\ IsFiniteSet(Producers)
BY PartsAssumption DEF Far

\* Position of report number n, counted from 0, in a ring that began at start.
Starts == {0, Width - Size}
At(start, n) == Ring!Plus(start, n)

LEMMA StartsSmall == \A start \in Starts : start \in 0 .. Width - 1
BY RingNumbers DEF Starts

LEMMA AtRange ==
  ASSUME NEW start \in Starts, NEW n \in 0 .. Far
  PROVE  /\ At(start, n) \in 0 .. Width - 1
         /\ At(start, n) = IF start + n < Width THEN start + n ELSE start + n - Width
<1>1. start \in 0 .. Width - 1 /\ n \in Nat /\ n < Width /\ Width \in Nat \ {0}
  BY StartsSmall, RingNumbers
<1>2. CASE start + n < Width
  <2>1. start + n \in 0 .. Width - 1
    BY <1>1, <1>2
  <2> QED BY <1>1, <1>2, <2>1, RemainderNear DEF At, Ring!Plus
<1>3. CASE ~(start + n < Width)
  <2> DEFINE a == start + n - Width
  <2>1. a \in 0 .. Width - 1 /\ start + n = a + Width
    BY <1>1, <1>3
  <2> HIDE DEF a
  <2>2. (a + Width) % Width = a
    BY <1>1, <2>1, RemainderNear
  <2> QED BY <1>1, <1>3, <2>1, <2>2 DEF At, Ring!Plus, a
<1> QED BY <1>2, <1>3

LEMMA AtInjective ==
  ASSUME NEW start \in Starts, NEW m \in 0 .. Far, NEW n \in 0 .. Far, At(start, m) = At(start, n)
  PROVE  m = n
<1>1. start \in 0 .. Width - 1 /\ Width \in Nat /\ m \in Nat /\ n \in Nat /\ m < Width /\ n < Width
  BY StartsSmall, RingNumbers
<1> QED BY <1>1, AtRange

LEMMA AtPlus ==
  ASSUME NEW start \in Starts, NEW n \in 0 .. Far, NEW k \in 0 .. Far, n + k \in 0 .. Far
  PROVE  Ring!Plus(At(start, n), k) = At(start, n + k)
<1> DEFINE a == At(start, n)
           c == At(start, n + k)
<1>1. /\ start \in 0 .. Width - 1 /\ Width \in Nat \ {0} /\ n \in Nat /\ k \in Nat
      /\ n < Width /\ k < Width /\ n + k < Width
  BY StartsSmall, RingNumbers
<1>2. /\ a \in 0 .. Width - 1 /\ a = IF start + n < Width THEN start + n ELSE start + n - Width
      /\ c \in 0 .. Width - 1
      /\ c = IF start + (n + k) < Width THEN start + (n + k) ELSE start + (n + k) - Width
  BY AtRange
<1> HIDE DEF a, c
<1>3. a + k = c \/ a + k = c + Width
  BY <1>1, <1>2
<1>4. (a + k) % Width = c
  BY <1>1, <1>2, <1>3, RemainderNear
<1> QED BY <1>4 DEF a, c, Ring!Plus

LEMMA AtDifference ==
  ASSUME NEW start \in Starts, NEW m \in 0 .. Far, NEW n \in 0 .. Far
  PROVE  Ring!Difference(At(start, m), At(start, n)) = m - n
<1> DEFINE a == At(start, m)
           c == At(start, n)
<1>1. /\ start \in 0 .. Width - 1 /\ Width \in Nat \ {0} /\ n \in Nat /\ m \in Nat
      /\ 2 * n < Width /\ 2 * m < Width
  BY StartsSmall, RingNumbers
<1>2. /\ a \in 0 .. Width - 1 /\ a = IF start + m < Width THEN start + m ELSE start + m - Width
      /\ c \in 0 .. Width - 1 /\ c = IF start + n < Width THEN start + n ELSE start + n - Width
  BY AtRange
<1> HIDE DEF a, c
<1>3. CASE m >= n
  <2>1. m - n \in 0 .. Width - 1 /\ (a - c = m - n \/ a - c = (m - n) - Width)
    BY <1>1, <1>2, <1>3
  <2>2. (a - c) % Width = m - n
    <3> DEFINE d == m - n
    <3> HIDE DEF d
    <3>1. d \in 0 .. Width - 1 /\ (a - c = d \/ a - c = d - Width)
      BY <2>1 DEF d
    <3>2. (a - c) % Width = d
      BY <1>1, <3>1, RemainderNear
    <3> QED BY <3>2 DEF d
  <2>3. ~(2 * (m - n) >= Width)
    BY <1>1, <1>3
  <2> QED BY <2>2, <2>3 DEF Ring!Difference, a, c
<1>4. CASE m < n
  <2> DEFINE d == (m - n) + Width
  <2>1. d \in 0 .. Width - 1 /\ (a - c = d \/ a - c = d - Width) /\ 2 * d >= Width /\ d - Width = m - n
    BY <1>1, <1>2, <1>4
  <2> HIDE DEF d
  <2>2. (a - c) % Width = d
    BY <1>1, <2>1, RemainderNear
  <2> QED BY <2>1, <2>2 DEF Ring!Difference, a, c
<1> QED BY <1>1, <1>3, <1>4

\* The slot of report number n.
SlotOf(start, n) == Ring!Slot(At(start, n))

LEMMA SlotIsRemainder ==
  ASSUME NEW start \in Starts, NEW n \in 0 .. Far
  PROVE  SlotOf(start, n) = n % Size
<1>1. Size \in Nat \ {0} /\ Width \in Nat \ {0} /\ n \in Int /\ Width % Size = 0 /\ Size <= Width
  BY RingNumbers
<1> DEFINE w == Width \div Size
           q == n \div Size
           r == n % Size
<1>2. Width = Size * w + (Width % Size) /\ w \in Int /\ n = Size * q + r /\ q \in Int /\ r \in 0 .. Size - 1
  BY <1>1, DivisionExact
<1>3. Width = Size * w
  BY <1>1, <1>2
<1> HIDE DEF w, q, r
<1>4. \E k \in Int : At(start, n) = Size * k + r
  <2> DEFINE a == At(start, n)
  <2>1. a = start + n \/ a = start + n - Width
    BY AtRange
  <2>2. start = 0 \/ start = Width - Size
    BY DEF Starts
  <2> HIDE DEF a
  <2>3. a = n \/ a = n - Width \/ a = n + Width - Size \/ a = n - Size
    BY <1>1, <2>1, <2>2
  <2>4. CASE a = n
    BY <1>2, <2>4 DEF a
  <2>5. CASE a = n - Width
    <3>1. a = Size * (q - w) + r /\ q - w \in Int
      BY <1>1, <1>2, <1>3, <2>5
    <3> QED BY <3>1 DEF a
  <2>6. CASE a = n + Width - Size
    <3>1. a = Size * (q + w - 1) + r /\ q + w - 1 \in Int
      BY <1>1, <1>2, <1>3, <2>6
    <3> QED BY <3>1 DEF a
  <2>7. CASE a = n - Size
    <3>1. a = Size * (q - 1) + r /\ q - 1 \in Int
      BY <1>1, <1>2, <1>3, <2>7
    <3> QED BY <3>1 DEF a
  <2> QED BY <2>3, <2>4, <2>5, <2>6, <2>7
<1>5. PICK k \in Int : At(start, n) = Size * k + r
  BY <1>4
<1>6. (Size * k + r) % Size = r
  BY <1>1, <1>2, RemainderUnique
<1> QED BY <1>5, <1>6 DEF SlotOf, Ring!Slot, r

\* Fewer than Size reports in a row have different slots, and after Size the slots recur.
LEMMA SlotsDiffer ==
  ASSUME NEW start \in Starts, NEW m \in 0 .. Far, NEW n \in 0 .. Far
  PROVE  /\ SlotOf(start, n) \in 0 .. Size - 1
         /\ SlotOf(start, m) = SlotOf(start, n) => m = n \/ m >= n + Size \/ n >= m + Size
         /\ m = n + Size => SlotOf(start, m) = SlotOf(start, n)
<1>1. SlotOf(start, n) = n % Size /\ SlotOf(start, m) = m % Size
  BY SlotIsRemainder
<1>2. Size \in Nat \ {0} /\ m \in Int /\ n \in Int
  BY RingNumbers
<1> DEFINE q == n \div Size
           p == m \div Size
           r == n % Size
           u == m % Size
<1>3. n = Size * q + r /\ q \in Int /\ r \in 0 .. Size - 1
  BY <1>2, DivisionExact
<1>4. m = Size * p + u /\ p \in Int /\ u \in 0 .. Size - 1
  BY <1>2, DivisionExact
<1> HIDE DEF q, p, r, u
<1>5. ASSUME r = u PROVE m = n \/ m >= n + Size \/ n >= m + Size
  <2>1. p = q \/ p - q >= 1 \/ q - p >= 1
    BY <1>3, <1>4
  <2>2. m - n = Size * (p - q) /\ n - m = Size * (q - p)
    BY <1>2, <1>3, <1>4, <1>5
  <2>3. \A k \in Int : k >= 1 => Size * k >= Size
    BY <1>2
  <2> QED BY <1>2, <1>3, <1>4, <2>1, <2>2, <2>3
<1>6. ASSUME m = n + Size PROVE u = r
  <2>1. m = Size * (q + 1) + r /\ q + 1 \in Int
    BY <1>2, <1>3, <1>6
  <2>2. m % Size = r
    BY <1>2, <1>3, <2>1, RemainderUnique
  <2> QED BY <2>2 DEF u
<1> QED BY <1>1, <1>3, <1>5, <1>6 DEF r, u

\* Any Size reports in a row use all slots.
LEMMA SlotRecurs ==
  ASSUME NEW start \in Starts, NEW d \in 0 .. Far, NEW n \in 0 .. Far, d + Size <= Far + 1
  PROVE  \E m \in d .. d + Size - 1 : SlotOf(start, m) = SlotOf(start, n)
<1>1. Size \in Nat \ {0} /\ d \in Int /\ n \in Int /\ Far \in Nat /\ n - d \in Int
  BY RingNumbers
<1> DEFINE q == (n - d) \div Size
           r == (n - d) % Size
           m == d + r
<1>2. n - d = Size * q + r /\ q \in Int /\ r \in 0 .. Size - 1
  BY <1>1, DivisionExact
<1> DEFINE p == n \div Size
           u == n % Size
<1>3. n = Size * p + u /\ p \in Int /\ u \in 0 .. Size - 1
  BY <1>1, DivisionExact
<1> HIDE DEF q, r, p, u
<1>4. m \in d .. d + Size - 1 /\ m \in 0 .. Far
  BY <1>1, <1>2
<1>5. m = Size * (p - q) + u /\ p - q \in Int
  BY <1>1, <1>2, <1>3
<1> HIDE DEF m
<1>6. m % Size = u
  BY <1>1, <1>3, <1>5, RemainderUnique
<1>7. SlotOf(start, m) = SlotOf(start, n)
  BY <1>4, <1>6, SlotIsRemainder DEF u
<1> QED BY <1>4, <1>7

-----------------------------------------------------------------------------
\* Reports the consumer is done with.
Freed == IF consumer = "look" THEN Len(taken) ELSE Len(taken) - 1
Tag(start, n) == slots[SlotOf(start, n)].sequence
Entry(start, n) == slots[SlotOf(start, n)].entry
Filling(p) == at[p] \in {"fill", "publish"}

EndsRight(start) ==
  /\ Freed \in Nat /\ Len(taken) <= Len(reserved) /\ Len(reserved) <= Freed + Size
  /\ enqueuePos = At(start, Len(reserved)) /\ dequeuePos = At(start, Freed)
  /\ consumer = "free" => Tag(start, Freed) = At(start, Freed + 1)

\* The slot of a report to come has that report's tag, and the slot of a reserved one
\* has its tag until it holds the report, and then the next.
SlotsRight(start) ==
  \A n \in Freed .. Freed + Size - 1 :
    \/ Tag(start, n) = At(start, n)
    \/ /\ n < Len(reserved) /\ Tag(start, n) = At(start, n + 1)
       /\ Entry(start, n) = reserved[n + 1]

\* A producer's position is that of a report begun, and one about to reserve has seen
\* the slot given back.
LooksRight(start) ==
  \A p \in Producers :
    /\ at[p] # "idle" => report[p] >= 1
    /\ \E n \in 0 .. Len(reserved) :
         position[p] = At(start, n) /\ (at[p] = "reserve" => n < Freed + Size)

\* A producer that has reserved has a slot of its own.
HoldsRight(start) ==
  \A p \in Producers :
    Filling(p) =>
      \E n \in Freed .. Len(reserved) - 1 :
        /\ position[p] = At(start, n) /\ reserved[n + 1] = report[p]
        /\ Tag(start, n) = At(start, n) /\ (at[p] = "publish" => Entry(start, n) = report[p])

OneHolder ==
  \A p, q \in Producers : Filling(p) /\ Filling(q) /\ position[p] = position[q] => p = q

RingAt(start) ==
  EndsRight(start) /\ SlotsRight(start) /\ LooksRight(start) /\ HoldsRight(start) /\ OneHolder

RingInv ==
  /\ Ring!TypeOK /\ Ring!ReportsCounted /\ Ring!TakenInOrder
  /\ \E start \in Starts : RingAt(start)

RingFacts(start) == Ring!TypeOK /\ RingAt(start) /\ Len(reserved) <= PushBound

LEMMA RingSizes ==
  ASSUME NEW start, RingFacts(start)
  PROVE  /\ Freed \in Nat /\ Len(taken) \in Nat /\ Len(reserved) \in Nat
         /\ Freed <= Len(taken) /\ Len(taken) <= Freed + 1
         /\ consumer = "look" => Len(taken) = Freed
         /\ consumer = "free" => Len(taken) = Freed + 1
         /\ Len(taken) <= Len(reserved) /\ Len(reserved) <= Freed + Size /\ Len(reserved) <= PushBound
         /\ Freed + Size <= Far /\ Far \in Nat /\ Size \in Nat /\ Size >= 2 /\ PushBound \in Nat
         /\ Far = PushBound + Size
<1>1. Len(taken) \in Nat /\ Len(reserved) \in Nat /\ consumer \in {"look", "free"}
  BY DEF RingFacts, Ring!TypeOK
<1>2. Freed = IF consumer = "look" THEN Len(taken) ELSE Len(taken) - 1
  BY DEF Freed
<1>3. /\ Freed \in Nat /\ Len(taken) <= Len(reserved) /\ Len(reserved) <= Freed + Size
      /\ Len(reserved) <= PushBound
  BY DEF RingFacts, RingAt, EndsRight
<1>4. Far \in Nat /\ Size \in Nat /\ Size >= 2 /\ PushBound \in Nat /\ Far = PushBound + Size
  BY RingNumbers DEF Far
<1> QED BY <1>1, <1>2, <1>3, <1>4

\* What a producer that looks at the slot of its position learns of it.
LEMMA LagMeaning ==
  ASSUME NEW start \in Starts, RingFacts(start), NEW p \in Producers,
         NEW n \in 0 .. Len(reserved), position[p] = At(start, n)
  PROVE  /\ Ring!Lag(p) = 0 => n < Freed + Size
         /\ Ring!Lag(p) < 0 => Len(reserved) >= Freed + Size
<1> USE RingSizes
<1>1. n \in 0 .. Far /\ Freed \in 0 .. Far /\ Freed + Size <= Far + 1
  OBVIOUS
<1>2. PICK m \in Freed .. Freed + Size - 1 : SlotOf(start, m) = SlotOf(start, n)
  BY <1>1, SlotRecurs
<1>3. m \in 0 .. Far /\ m + 1 \in 0 .. Far /\ m \in Nat /\ m >= Freed
  OBVIOUS
<1>4. Ring!Lag(p) = Ring!Difference(Tag(start, m), At(start, n))
  BY <1>2 DEF Ring!Lag, Tag, SlotOf
<1>5. Tag(start, m) = At(start, m) \/ Tag(start, m) = At(start, m + 1)
  BY DEF RingFacts, RingAt, SlotsRight
<1>6. Ring!Lag(p) = m - n \/ Ring!Lag(p) = (m + 1) - n
  BY <1>1, <1>3, <1>4, <1>5, AtDifference
<1>7. m = n \/ m >= n + Size \/ n >= m + Size
  BY <1>1, <1>2, <1>3, SlotsDiffer
<1>8. /\ n \in Nat /\ Freed \in Nat /\ Size \in Nat /\ Size >= 2 /\ Len(reserved) \in Nat
      /\ n <= Len(reserved) /\ Len(reserved) <= Freed + Size
  OBVIOUS
<1> DEFINE lag == Ring!Lag(p)
<1> HIDE DEF lag
<1>9. lag = m - n \/ lag = (m + 1) - n
  BY <1>6 DEF lag
<1>10. lag = 0 => n < Freed + Size
  BY <1>3, <1>7, <1>8, <1>9
<1>11. lag < 0 => Len(reserved) >= Freed + Size
  BY <1>3, <1>7, <1>8, <1>9
<1> QED BY <1>10, <1>11 DEF lag

\* A step of a producer that looks for a slot.
LEMMA LookingStep ==
  ASSUME NEW start \in Starts, RingFacts(start),
         UNCHANGED <<slots, consumer, taken, reserved, enqueuePos, dequeuePos>>,
         NEW p \in Producers, ~Filling(p), NEW to \in {"idle", "look", "reserve"},
         at' = [at EXCEPT ![p] = to],
         \A q \in Producers : q # p => position'[q] = position[q] /\ report'[q] = report[q],
         to # "idle" => report'[p] >= 1,
         NEW n \in 0 .. Len(reserved), position'[p] = At(start, n), to = "reserve" => n < Freed + Size
  PROVE  RingAt(start)'
<1>1. Freed' = Freed
  BY DEF Freed
<1>2. \A k : Tag(start, k)' = Tag(start, k) /\ Entry(start, k)' = Entry(start, k)
  BY DEF Tag, Entry
<1>3. at'[p] = to /\ \A q \in Producers : q # p => at'[q] = at[q]
  BY DEF RingFacts, Ring!TypeOK
<1>4. EndsRight(start)' /\ SlotsRight(start)'
  BY <1>1, <1>2 DEF RingFacts, RingAt, EndsRight, SlotsRight
<1>5. LooksRight(start)'
  <2>1. ASSUME NEW q \in Producers
        PROVE  /\ at'[q] # "idle" => report'[q] >= 1
               /\ \E k \in 0 .. Len(reserved) :
                    position'[q] = At(start, k) /\ (at'[q] = "reserve" => k < Freed + Size)
    <3>1. CASE q = p
      BY <1>3, <3>1
    <3>2. CASE q # p
      BY <1>3, <3>2 DEF RingFacts, RingAt, LooksRight
    <3> QED BY <3>1, <3>2
  <2> QED BY <1>1, <2>1 DEF LooksRight
<1>6. ASSUME NEW q \in Producers, Filling(q)' PROVE q # p /\ Filling(q) /\ at'[q] = at[q]
  BY <1>3, <1>6 DEF Filling
<1>7. HoldsRight(start)'
  BY <1>1, <1>2, <1>6 DEF RingFacts, RingAt, HoldsRight
<1>8. OneHolder'
  BY <1>6 DEF RingFacts, RingAt, OneHolder
<1> QED BY <1>4, <1>5, <1>7, <1>8 DEF RingAt

\* The producer's own facts.
LEMMA ProducerFacts ==
  ASSUME NEW start, RingFacts(start), NEW p \in Producers
  PROVE  /\ at \in [Producers -> {"idle", "look", "reserve", "fill", "publish"}]
         /\ position \in [Producers -> 0 .. Width - 1] /\ report \in [Producers -> 0 .. PushBound]
         /\ slots \in [0 .. Size - 1 -> [sequence : 0 .. Width - 1, entry : 0 .. PushBound]]
         /\ reserved \in Seq(1 .. PushBound) /\ taken \in Seq(0 .. PushBound)
         /\ pushes \in Nat /\ report[p] \in Nat
         /\ at[p] # "idle" => report[p] >= 1
         /\ \E n \in 0 .. Len(reserved) :
              position[p] = At(start, n) /\ (at[p] = "reserve" => n < Freed + Size)
         /\ enqueuePos = At(start, Len(reserved)) /\ Len(reserved) \in 0 .. Len(reserved)
<1>1. PushBound \in Nat
  BY RingNumbers
<1>2. /\ at \in [Producers -> {"idle", "look", "reserve", "fill", "publish"}]
      /\ position \in [Producers -> 0 .. Width - 1] /\ report \in [Producers -> 0 .. PushBound]
      /\ slots \in [0 .. Size - 1 -> [sequence : 0 .. Width - 1, entry : 0 .. PushBound]]
      /\ reserved \in Seq(1 .. PushBound) /\ taken \in Seq(0 .. PushBound)
      /\ pushes \in Nat
  BY DEF RingFacts, Ring!TypeOK
<1>3. report[p] \in Nat /\ Len(reserved) \in 0 .. Len(reserved)
  <2>1. report[p] \in 0 .. PushBound /\ Len(reserved) \in Nat
    BY <1>2
  <2> QED BY <1>1, <2>1
<1>4. /\ at[p] # "idle" => report[p] >= 1
      /\ \E n \in 0 .. Len(reserved) :
           position[p] = At(start, n) /\ (at[p] = "reserve" => n < Freed + Size)
      /\ enqueuePos = At(start, Len(reserved))
  BY DEF RingFacts, RingAt, LooksRight, EndsRight
<1> QED BY <1>2, <1>3, <1>4

LEMMA RingSlots ==
  ASSUME NEW start, RingFacts(start)
  PROVE  /\ slots \in [0 .. Size - 1 -> [sequence : 0 .. Width - 1, entry : 0 .. PushBound]]
         /\ reserved \in Seq(1 .. PushBound) /\ taken \in Seq(0 .. PushBound)
BY DEF RingFacts, Ring!TypeOK

LEMMA RingPush ==
  ASSUME NEW start \in Starts, RingFacts(start), NEW p \in Producers, Ring!Push(p)
  PROVE  RingAt(start)'
<1> USE ProducerFacts
<1>1. /\ at[p] = "idle" /\ at' = [at EXCEPT ![p] = "look"] /\ report' = [report EXCEPT ![p] = pushes + 1]
      /\ position' = [position EXCEPT ![p] = enqueuePos]
      /\ UNCHANGED <<slots, consumer, taken, reserved, enqueuePos, dequeuePos>>
  BY DEF Ring!Push, Ring!Goes
<1>2. ~Filling(p)
  BY <1>1 DEF Filling
<1>3. /\ \A q \in Producers : q # p => position'[q] = position[q] /\ report'[q] = report[q]
      /\ position'[p] = At(start, Len(reserved)) /\ report'[p] = pushes + 1
  BY <1>1
<1>4. report'[p] >= 1
  BY <1>3
<1> QED BY <1>1, <1>2, <1>3, <1>4, LookingStep

LEMMA RingDrop ==
  ASSUME NEW start \in Starts, RingFacts(start), NEW p \in Producers, Ring!Drop(p)
  PROVE  RingAt(start)'
<1> USE ProducerFacts
<1>1. /\ at[p] = "look" /\ at' = [at EXCEPT ![p] = "idle"]
      /\ UNCHANGED <<position, report, slots, consumer, taken, reserved, enqueuePos, dequeuePos>>
  BY DEF Ring!Drop, Ring!Goes
<1>2. ~Filling(p)
  BY <1>1 DEF Filling
<1>3. PICK n \in 0 .. Len(reserved) : position'[p] = At(start, n)
  BY <1>1
<1> QED BY <1>1, <1>2, <1>3, LookingStep

LEMMA RingLookAgain ==
  ASSUME NEW start \in Starts, RingFacts(start), NEW p \in Producers, Ring!LookAgain(p)
  PROVE  RingAt(start)'
<1> USE ProducerFacts
<1>1. /\ at[p] = "look" /\ at' = at /\ position' = [position EXCEPT ![p] = enqueuePos]
      /\ UNCHANGED <<report, slots, consumer, taken, reserved, enqueuePos, dequeuePos>>
  BY DEF Ring!LookAgain
<1>2. ~Filling(p) /\ at' = [at EXCEPT ![p] = "look"]
  BY <1>1 DEF Filling
<1>3. /\ \A q \in Producers : q # p => position'[q] = position[q]
      /\ position'[p] = At(start, Len(reserved)) /\ report'[p] >= 1
  BY <1>1
<1> QED BY <1>1, <1>2, <1>3, LookingStep

LEMMA RingReserveFails ==
  ASSUME NEW start \in Starts, RingFacts(start), NEW p \in Producers, Ring!ReserveFails(p)
  PROVE  RingAt(start)'
<1> USE ProducerFacts
<1>1. /\ at[p] = "reserve" /\ at' = [at EXCEPT ![p] = "look"]
      /\ position' = [position EXCEPT ![p] = enqueuePos]
      /\ UNCHANGED <<report, slots, consumer, taken, reserved, enqueuePos, dequeuePos>>
  BY DEF Ring!ReserveFails, Ring!Goes
<1>2. ~Filling(p)
  BY <1>1 DEF Filling
<1>3. /\ \A q \in Producers : q # p => position'[q] = position[q]
      /\ position'[p] = At(start, Len(reserved)) /\ report'[p] >= 1
  BY <1>1
<1> QED BY <1>1, <1>2, <1>3, LookingStep

LEMMA RingLookFree ==
  ASSUME NEW start \in Starts, RingFacts(start), NEW p \in Producers, Ring!LookFree(p)
  PROVE  RingAt(start)'
<1> USE ProducerFacts
<1>1. /\ at[p] = "look" /\ at' = [at EXCEPT ![p] = "reserve"] /\ Ring!Lag(p) = 0
      /\ UNCHANGED <<position, report, slots, consumer, taken, reserved, enqueuePos, dequeuePos>>
  BY DEF Ring!LookFree, Ring!Goes
<1>2. ~Filling(p) /\ report'[p] >= 1
  BY <1>1 DEF Filling
<1>3. PICK n \in 0 .. Len(reserved) : position[p] = At(start, n)
  OBVIOUS
<1>4. n < Freed + Size
  BY <1>1, <1>3, LagMeaning
<1> QED BY <1>1, <1>2, <1>3, <1>4, LookingStep

\* The slots of the window are different, and a report's tag is not the next one's.
LEMMA Window ==
  ASSUME NEW start \in Starts, RingFacts(start)
  PROVE  /\ \A k, n \in Freed .. Freed + Size - 1 : k # n => SlotOf(start, k) # SlotOf(start, n)
         /\ \A k \in Freed .. Freed + Size : k \in 0 .. Far /\ SlotOf(start, k) \in 0 .. Size - 1
         /\ \A k \in Freed .. Freed + Size - 1 :
              At(start, k) # At(start, k + 1) /\ Ring!Plus(At(start, k), 1) = At(start, k + 1)
         /\ SlotOf(start, Freed + Size) = SlotOf(start, Freed)
         /\ Ring!Plus(At(start, Freed), Size) = At(start, Freed + Size)
<1>0. /\ Freed \in Nat /\ Size \in Nat /\ Size >= 2 /\ Far \in Nat /\ Freed + Size <= Far
  BY RingSizes
<1>1. ASSUME NEW k \in Freed .. Freed + Size PROVE k \in 0 .. Far /\ SlotOf(start, k) \in 0 .. Size - 1
  <2>1. k \in 0 .. Far
    BY <1>0
  <2> QED BY <2>1, SlotsDiffer
<1>2. ASSUME NEW k \in Freed .. Freed + Size - 1, NEW n \in Freed .. Freed + Size - 1, k # n
      PROVE  SlotOf(start, k) # SlotOf(start, n)
  <2>1. k \in 0 .. Far /\ n \in 0 .. Far /\ ~(k >= n + Size) /\ ~(n >= k + Size)
    BY <1>0
  <2> QED BY <2>1, <1>2, SlotsDiffer
<1>3. ASSUME NEW k \in Freed .. Freed + Size - 1
      PROVE  At(start, k) # At(start, k + 1) /\ Ring!Plus(At(start, k), 1) = At(start, k + 1)
  <2>1. k \in 0 .. Far /\ k + 1 \in 0 .. Far /\ 1 \in 0 .. Far /\ k # k + 1
    BY <1>0
  <2> QED BY <2>1, AtInjective, AtPlus
<1>4. SlotOf(start, Freed + Size) = SlotOf(start, Freed)
  <2>1. Freed \in 0 .. Far /\ Freed + Size \in 0 .. Far
    BY <1>0
  <2> QED BY <2>1, SlotsDiffer
<1>5. Ring!Plus(At(start, Freed), Size) = At(start, Freed + Size)
  <2>1. Freed \in 0 .. Far /\ Freed + Size \in 0 .. Far /\ Size \in 0 .. Far
    BY <1>0
  <2> QED BY <2>1, AtPlus
<1> QED BY <1>1, <1>2, <1>3, <1>4, <1>5

\* The report a producer has reserved a slot for.
LEMMA Holding ==
  ASSUME NEW start \in Starts, RingFacts(start), NEW p \in Producers, Filling(p)
  PROVE  \E n \in Freed .. Len(reserved) - 1 :
           /\ position[p] = At(start, n) /\ reserved[n + 1] = report[p]
           /\ Tag(start, n) = At(start, n) /\ (at[p] = "publish" => Entry(start, n) = report[p])
           /\ n \in Freed .. Freed + Size - 1 /\ n \in 0 .. Far
           /\ Ring!Slot(position[p]) = SlotOf(start, n)
<1>1. PICK n \in Freed .. Len(reserved) - 1 :
        /\ position[p] = At(start, n) /\ reserved[n + 1] = report[p]
        /\ Tag(start, n) = At(start, n) /\ (at[p] = "publish" => Entry(start, n) = report[p])
  BY DEF RingFacts, RingAt, HoldsRight
<1>2. n \in Freed .. Freed + Size - 1 /\ n \in 0 .. Far
  BY RingSizes
<1>3. Ring!Slot(position[p]) = SlotOf(start, n)
  BY <1>1 DEF SlotOf
<1> QED BY <1>1, <1>2, <1>3

LEMMA RingReserve ==
  ASSUME NEW start \in Starts, RingFacts(start), NEW p \in Producers, Ring!Reserve(p)
  PROVE  RingAt(start)'
<1> DEFINE R == Len(reserved)
<1>0. /\ Freed \in Nat /\ R \in Nat /\ Size \in Nat /\ Far \in Nat /\ Freed + Size <= Far
      /\ Freed <= R /\ R <= Freed + Size /\ Len(taken) <= R /\ Size >= 2
  BY RingSizes
<1>1. /\ at[p] = "reserve" /\ at' = [at EXCEPT ![p] = "fill"] /\ enqueuePos = position[p]
      /\ enqueuePos' = Ring!Plus(enqueuePos, 1) /\ reserved' = Append(reserved, report[p])
      /\ UNCHANGED <<dequeuePos, slots, position, report, consumer, taken>>
  BY DEF Ring!Reserve, Ring!Goes
<1>2. position[p] = At(start, R) /\ R < Freed + Size
  <2>1. PICK n \in 0 .. R : position[p] = At(start, n) /\ n < Freed + Size
    BY <1>1, ProducerFacts
  <2>2. At(start, n) = At(start, R)
    BY <1>1, <2>1, ProducerFacts
  <2>3. n \in 0 .. Far /\ R \in 0 .. Far
    BY <1>0
  <2>4. n = R
    BY <2>2, <2>3, AtInjective
  <2> QED BY <2>1, <2>4
<1>3. report[p] \in 1 .. PushBound /\ reserved \in Seq(1 .. PushBound)
  BY <1>1, ProducerFacts
<1>4. Len(reserved') = R + 1 /\ reserved'[R + 1] = report[p] /\ \A i \in 1 .. R : reserved'[i] = reserved[i]
  BY <1>1, <1>3
<1>5. enqueuePos' = At(start, R + 1)
  <2>1. R \in 0 .. Far /\ 1 \in 0 .. Far /\ R + 1 \in 0 .. Far
    BY <1>0, <1>2
  <2> QED BY <1>1, <1>2, <2>1, AtPlus
<1>6. Freed' = Freed /\ \A k : Tag(start, k)' = Tag(start, k) /\ Entry(start, k)' = Entry(start, k)
  BY <1>1 DEF Freed, Tag, Entry
<1>7. at'[p] = "fill" /\ \A q \in Producers : q # p => at'[q] = at[q]
  BY <1>1, ProducerFacts
<1> HIDE DEF R
<1>8. EndsRight(start)'
  <2>1. R + 1 <= Freed + Size /\ Len(taken) <= R + 1
    BY <1>0, <1>2, ProducerFacts
  <2> QED BY <1>0, <1>1, <1>4, <1>5, <1>6, <2>1 DEF RingFacts, RingAt, EndsRight
<1>9. SlotsRight(start)'
  <2>1. ASSUME NEW n \in Freed .. Freed + Size - 1
        PROVE  \/ Tag(start, n) = At(start, n)
               \/ n < R + 1 /\ Tag(start, n) = At(start, n + 1) /\ Entry(start, n) = reserved'[n + 1]
    <3>1. CASE Tag(start, n) = At(start, n)
      BY <3>1
    <3>2. CASE n < R /\ Tag(start, n) = At(start, n + 1) /\ Entry(start, n) = reserved[n + 1]
      <4>1. n + 1 \in 1 .. R /\ n < R + 1
        BY <1>0, <3>2
      <4> QED BY <1>4, <3>2, <4>1
    <3> QED BY <3>1, <3>2 DEF RingFacts, RingAt, SlotsRight, R
  <2> QED BY <1>4, <1>6, <2>1 DEF SlotsRight
<1>10. LooksRight(start)'
  <2>1. ASSUME NEW q \in Producers
        PROVE  /\ at'[q] # "idle" => report[q] >= 1
               /\ \E n \in 0 .. R + 1 :
                    position[q] = At(start, n) /\ (at'[q] = "reserve" => n < Freed + Size)
    <3>1. PICK n \in 0 .. R : position[q] = At(start, n) /\ (at[q] = "reserve" => n < Freed + Size)
      BY ProducerFacts DEF R
    <3>2. n \in 0 .. R + 1
      BY <1>0
    <3>3. at'[q] # "idle" => report[q] >= 1
      BY <1>1, <1>7, ProducerFacts
    <3>4. at'[q] = "reserve" => at[q] = "reserve"
      BY <1>7
    <3> QED BY <3>1, <3>2, <3>3, <3>4
  <2> QED BY <1>1, <1>4, <1>6, <2>1 DEF LooksRight
<1>11. HoldsRight(start)'
  <2>1. ASSUME NEW q \in Producers, Filling(q)'
        PROVE  \E n \in Freed .. R :
                 /\ position[q] = At(start, n) /\ reserved'[n + 1] = report[q]
                 /\ Tag(start, n) = At(start, n) /\ (at'[q] = "publish" => Entry(start, n) = report[q])
    <3>1. CASE q = p
      <4>1. R \in Freed .. R /\ R \in Freed .. Freed + Size - 1 /\ ~(R < R)
        BY <1>0, <1>2
      <4>2. Tag(start, R) = At(start, R)
        BY <4>1 DEF RingFacts, RingAt, SlotsRight, R
      <4> QED BY <1>2, <1>4, <1>7, <3>1, <4>1, <4>2
    <3>2. CASE q # p
      <4>1. at'[q] = at[q] /\ Filling(q)
        BY <1>7, <2>1, <3>2 DEF Filling
      <4>2. PICK n \in Freed .. R - 1 :
              /\ position[q] = At(start, n) /\ reserved[n + 1] = report[q]
              /\ Tag(start, n) = At(start, n) /\ (at[q] = "publish" => Entry(start, n) = report[q])
        BY <4>1, Holding DEF R
      <4>3. n \in Freed .. R /\ n + 1 \in 1 .. R
        BY <1>0
      <4> QED BY <1>4, <4>1, <4>2, <4>3
    <3> QED BY <3>1, <3>2
  <2>2. Freed .. R = Freed' .. Len(reserved') - 1
    BY <1>0, <1>4, <1>6
  <2>3. ASSUME NEW q \in Producers, Filling(q)'
        PROVE  \E n \in Freed' .. Len(reserved') - 1 :
                 /\ position'[q] = At(start, n) /\ reserved'[n + 1] = report'[q]
                 /\ Tag(start, n)' = At(start, n) /\ (at'[q] = "publish" => Entry(start, n)' = report'[q])
    <3>1. PICK n \in Freed .. R :
            /\ position[q] = At(start, n) /\ reserved'[n + 1] = report[q]
            /\ Tag(start, n) = At(start, n) /\ (at'[q] = "publish" => Entry(start, n) = report[q])
      BY <2>1, <2>3
    <3>2. n \in Freed' .. Len(reserved') - 1
      BY <2>2
    <3> QED BY <1>1, <1>6, <3>1, <3>2
  <2> QED BY <2>3 DEF HoldsRight
<1>12. OneHolder'
  <2>1. ASSUME NEW q \in Producers, Filling(q), q # p PROVE position[q] # position[p]
    <3>1. PICK n \in Freed .. R - 1 : position[q] = At(start, n)
      BY <2>1, Holding DEF R
    <3>2. n \in 0 .. Far /\ R \in 0 .. Far /\ n # R
      BY <1>0
    <3> QED BY <1>2, <3>1, <3>2, AtInjective
  <2>2. ASSUME NEW q \in Producers, Filling(q)' PROVE q = p \/ Filling(q)
    BY <1>7, <2>2 DEF Filling
  <2> QED BY <1>1, <2>1, <2>2 DEF OneHolder, RingFacts, RingAt
<1> QED BY <1>8, <1>9, <1>10, <1>11, <1>12 DEF RingAt

\* A slot of the window is written: no other slot of the window changes.
LEMMA WriteOne ==
  ASSUME NEW start \in Starts, RingFacts(start), NEW n \in Freed .. Freed + Size - 1,
         NEW x, slots' = [slots EXCEPT ![SlotOf(start, n)] = x]
  PROVE  /\ slots'[SlotOf(start, n)] = x
         /\ \A k \in Freed .. Freed + Size - 1 :
              k # n => Tag(start, k)' = Tag(start, k) /\ Entry(start, k)' = Entry(start, k)
<1>0. /\ n \in Freed .. Freed + Size
      /\ \A k \in Freed .. Freed + Size - 1 : k \in Freed .. Freed + Size
  BY RingSizes
<1>1. SlotOf(start, n) \in 0 .. Size - 1
  BY <1>0, Window
<1>2. DOMAIN slots = 0 .. Size - 1
  BY RingSlots
<1>3. slots'[SlotOf(start, n)] = x
  BY <1>1, <1>2
<1>4. ASSUME NEW k \in Freed .. Freed + Size - 1, k # n
      PROVE  Tag(start, k)' = Tag(start, k) /\ Entry(start, k)' = Entry(start, k)
  <2>1. SlotOf(start, k) # SlotOf(start, n) /\ SlotOf(start, k) \in 0 .. Size - 1
    BY <1>0, <1>4, Window
  <2>2. slots'[SlotOf(start, k)] = slots[SlotOf(start, k)]
    BY <1>1, <1>2, <2>1
  <2> QED BY <2>2 DEF Tag, Entry
<1> QED BY <1>3, <1>4

LEMMA RingFill ==
  ASSUME NEW start \in Starts, RingFacts(start), NEW p \in Producers, Ring!Fill(p)
  PROVE  RingAt(start)'
<1>1. /\ at[p] = "fill" /\ at' = [at EXCEPT ![p] = "publish"]
      /\ UNCHANGED <<enqueuePos, dequeuePos, position, report, consumer, reserved, taken>>
      /\ slots' = [slots EXCEPT ![Ring!Slot(position[p])] =
                     [slots[Ring!Slot(position[p])] EXCEPT !.entry = report[p]]]
  BY DEF Ring!Fill, Ring!Goes
<1>2. Filling(p)
  BY <1>1 DEF Filling
<1>3. PICK n \in Freed .. Len(reserved) - 1 :
        /\ position[p] = At(start, n) /\ reserved[n + 1] = report[p] /\ Tag(start, n) = At(start, n)
        /\ n \in Freed .. Freed + Size - 1 /\ Ring!Slot(position[p]) = SlotOf(start, n)
  BY <1>2, Holding
<1> DEFINE x == [slots[SlotOf(start, n)] EXCEPT !.entry = report[p]]
<1>4. slots[SlotOf(start, n)] \in [sequence : 0 .. Width - 1, entry : 0 .. PushBound]
  <2>1. SlotOf(start, n) \in 0 .. Size - 1
    <3>1. n \in Freed .. Freed + Size
      BY <1>3, RingSizes
    <3> QED BY <3>1, Window
  <2> QED BY <2>1, ProducerFacts
<1>5. x.sequence = slots[SlotOf(start, n)].sequence /\ x.entry = report[p]
  BY <1>4
<1>6. slots' = [slots EXCEPT ![SlotOf(start, n)] = x]
  BY <1>1, <1>3
<1> HIDE DEF x
<1>7. /\ slots'[SlotOf(start, n)] = x
      /\ \A k \in Freed .. Freed + Size - 1 :
           k # n => Tag(start, k)' = Tag(start, k) /\ Entry(start, k)' = Entry(start, k)
  BY <1>3, <1>6, WriteOne
<1>8. Tag(start, n)' = At(start, n) /\ Entry(start, n)' = report[p]
  BY <1>3, <1>5, <1>7 DEF Tag, Entry
<1>9. Freed' = Freed
  BY <1>1 DEF Freed
<1>10. at'[p] = "publish" /\ \A q \in Producers : q # p => at'[q] = at[q]
  BY <1>1, ProducerFacts
<1>11. \A k \in Freed .. Freed + Size - 1 : Tag(start, k)' = Tag(start, k)
  BY <1>3, <1>7, <1>8
<1>12. EndsRight(start)'
  <2>1. Freed \in Freed .. Freed + Size - 1
    BY RingSizes
  <2>2. Tag(start, Freed)' = Tag(start, Freed)
    BY <1>9, <1>11, <2>1
  <2> QED BY <1>1, <1>9, <2>2 DEF RingFacts, RingAt, EndsRight
<1>13. SlotsRight(start)'
  <2>1. ASSUME NEW k \in Freed .. Freed + Size - 1
        PROVE  \/ Tag(start, k)' = At(start, k)
               \/ /\ k < Len(reserved) /\ Tag(start, k)' = At(start, k + 1)
                  /\ Entry(start, k)' = reserved[k + 1]
    BY <1>7, <1>8 DEF RingFacts, RingAt, SlotsRight
  <2> QED BY <1>1, <1>9, <2>1 DEF SlotsRight
<1>14. LooksRight(start)'
  <2>1. ASSUME NEW q \in Producers PROVE (at'[q] = "reserve" => at[q] = "reserve") /\ (at'[q] # "idle" => at[q] # "idle")
    BY <1>1, <1>10
  <2> QED BY <1>1, <1>9, <2>1 DEF RingFacts, RingAt, LooksRight
<1>15. ASSUME NEW q \in Producers, Filling(q)' PROVE Filling(q)
  BY <1>1, <1>10, <1>15 DEF Filling
<1>16. HoldsRight(start)'
  <2>1. ASSUME NEW q \in Producers, Filling(q)'
        PROVE  \E k \in Freed .. Len(reserved) - 1 :
                 /\ position[q] = At(start, k) /\ reserved[k + 1] = report[q]
                 /\ Tag(start, k)' = At(start, k) /\ (at'[q] = "publish" => Entry(start, k)' = report[q])
    <3>1. CASE q = p
      BY <1>3, <1>8, <3>1
    <3>2. CASE q # p
      <4>1. PICK k \in Freed .. Len(reserved) - 1 :
              /\ position[q] = At(start, k) /\ reserved[k + 1] = report[q]
              /\ Tag(start, k) = At(start, k) /\ (at[q] = "publish" => Entry(start, k) = report[q])
              /\ k \in Freed .. Freed + Size - 1
        BY <1>15, <2>1, Holding
      <4>2. k # n
        BY <1>2, <1>3, <1>15, <2>1, <3>2, <4>1 DEF RingFacts, RingAt, OneHolder
      <4> QED BY <1>7, <1>10, <3>2, <4>1, <4>2
    <3> QED BY <3>1, <3>2
  <2> QED BY <1>1, <1>9, <2>1 DEF HoldsRight
<1>17. OneHolder'
  BY <1>1, <1>15 DEF RingFacts, RingAt, OneHolder
<1> QED BY <1>12, <1>13, <1>14, <1>16, <1>17 DEF RingAt

LEMMA RingPublish ==
  ASSUME NEW start \in Starts, RingFacts(start), NEW p \in Producers, Ring!Publish(p)
  PROVE  RingAt(start)'
<1>1. /\ at[p] = "publish" /\ at' = [at EXCEPT ![p] = "idle"]
      /\ UNCHANGED <<enqueuePos, dequeuePos, position, report, consumer, reserved, taken>>
      /\ slots' = [slots EXCEPT ![Ring!Slot(position[p])] =
                     [slots[Ring!Slot(position[p])] EXCEPT !.sequence = Ring!Plus(position[p], 1)]]
  BY DEF Ring!Publish, Ring!Goes
<1>2. Filling(p)
  BY <1>1 DEF Filling
<1>3. PICK n \in Freed .. Len(reserved) - 1 :
        /\ position[p] = At(start, n) /\ reserved[n + 1] = report[p]
        /\ Tag(start, n) = At(start, n) /\ Entry(start, n) = report[p]
        /\ n \in Freed .. Freed + Size - 1 /\ Ring!Slot(position[p]) = SlotOf(start, n)
  BY <1>1, <1>2, Holding
<1> DEFINE x == [slots[SlotOf(start, n)] EXCEPT !.sequence = Ring!Plus(position[p], 1)]
<1>4. slots[SlotOf(start, n)] \in [sequence : 0 .. Width - 1, entry : 0 .. PushBound]
  <2>1. SlotOf(start, n) \in 0 .. Size - 1
    <3>1. n \in Freed .. Freed + Size
      BY <1>3, RingSizes
    <3> QED BY <3>1, Window
  <2> QED BY <2>1, ProducerFacts
<1>5. x.sequence = Ring!Plus(position[p], 1) /\ x.entry = slots[SlotOf(start, n)].entry
  BY <1>4
<1>6. slots' = [slots EXCEPT ![SlotOf(start, n)] = x]
  BY <1>1, <1>3
<1> HIDE DEF x
<1>7. /\ slots'[SlotOf(start, n)] = x
      /\ \A k \in Freed .. Freed + Size - 1 :
           k # n => Tag(start, k)' = Tag(start, k) /\ Entry(start, k)' = Entry(start, k)
  BY <1>3, <1>6, WriteOne
<1>8. Tag(start, n)' = At(start, n + 1) /\ Entry(start, n)' = report[p]
  <2>1. Ring!Plus(position[p], 1) = At(start, n + 1)
    BY <1>3, Window
  <2> QED BY <1>3, <1>5, <1>7, <2>1 DEF Tag, Entry
<1>9. Freed' = Freed
  BY <1>1 DEF Freed
<1>10. at'[p] = "idle" /\ \A q \in Producers : q # p => at'[q] = at[q]
  BY <1>1, ProducerFacts
<1>12. EndsRight(start)'
  <2>1. Freed \in Freed .. Freed + Size - 1
    BY RingSizes
  <2>2. consumer = "free" => Tag(start, Freed)' = At(start, Freed + 1)
    <3>1. Freed = n => Tag(start, Freed)' = At(start, Freed + 1)
      BY <1>8, <1>9
    <3>2. Freed # n => Tag(start, Freed)' = Tag(start, Freed)
      BY <1>7, <1>9, <2>1
    <3> QED BY <3>1, <3>2 DEF RingFacts, RingAt, EndsRight
  <2> QED BY <1>1, <1>9, <2>2 DEF RingFacts, RingAt, EndsRight
<1>13. SlotsRight(start)'
  <2>1. ASSUME NEW k \in Freed .. Freed + Size - 1
        PROVE  \/ Tag(start, k)' = At(start, k)
               \/ /\ k < Len(reserved) /\ Tag(start, k)' = At(start, k + 1)
                  /\ Entry(start, k)' = reserved[k + 1]
    <3>1. CASE k = n
      <4>1. n < Len(reserved)
        BY RingSizes
      <4> QED BY <1>3, <1>8, <3>1, <4>1
    <3>2. CASE k # n
      BY <1>7, <3>2 DEF RingFacts, RingAt, SlotsRight
    <3> QED BY <3>1, <3>2
  <2> QED BY <1>1, <1>9, <2>1 DEF SlotsRight
<1>14. LooksRight(start)'
  <2>1. ASSUME NEW q \in Producers PROVE (at'[q] = "reserve" => at[q] = "reserve") /\ (at'[q] # "idle" => at[q] # "idle")
    BY <1>1, <1>10
  <2> QED BY <1>1, <1>9, <2>1 DEF RingFacts, RingAt, LooksRight
<1>15. ASSUME NEW q \in Producers, Filling(q)' PROVE Filling(q) /\ q # p /\ at'[q] = at[q]
  BY <1>1, <1>10, <1>15 DEF Filling
<1>16. HoldsRight(start)'
  <2>1. ASSUME NEW q \in Producers, Filling(q)'
        PROVE  \E k \in Freed .. Len(reserved) - 1 :
                 /\ position[q] = At(start, k) /\ reserved[k + 1] = report[q]
                 /\ Tag(start, k)' = At(start, k) /\ (at'[q] = "publish" => Entry(start, k)' = report[q])
    <3>1. PICK k \in Freed .. Len(reserved) - 1 :
            /\ position[q] = At(start, k) /\ reserved[k + 1] = report[q]
            /\ Tag(start, k) = At(start, k) /\ (at[q] = "publish" => Entry(start, k) = report[q])
            /\ k \in Freed .. Freed + Size - 1
      BY <1>15, <2>1, Holding
    <3>2. k # n
      BY <1>2, <1>3, <1>15, <2>1, <3>1 DEF RingFacts, RingAt, OneHolder
    <3> QED BY <1>7, <1>15, <2>1, <3>1, <3>2
  <2> QED BY <1>1, <1>9, <2>1 DEF HoldsRight
<1>17. OneHolder'
  BY <1>1, <1>15 DEF RingFacts, RingAt, OneHolder
<1> QED BY <1>12, <1>13, <1>14, <1>16, <1>17 DEF RingAt

\* The consumer finds a slot filled: what it copies is the report whose turn it is.
LEMMA RingTakeCopy ==
  ASSUME NEW start \in Starts, RingFacts(start), Ring!TakeCopy
  PROVE  /\ RingAt(start)'
         /\ Len(taken) < Len(reserved) /\ taken' = Append(taken, reserved[Len(taken) + 1])
         /\ UNCHANGED reserved
<1>1. /\ consumer = "look" /\ consumer' = "free"
      /\ slots[Ring!Slot(dequeuePos)].sequence = Ring!Plus(dequeuePos, 1)
      /\ taken' = Append(taken, slots[Ring!Slot(dequeuePos)].entry)
      /\ UNCHANGED <<enqueuePos, dequeuePos, slots, at, position, report, reserved>>
  BY DEF Ring!TakeCopy
<1>2. Freed \in Freed .. Freed + Size - 1 /\ Freed = Len(taken)
  BY <1>1, RingSizes
<1>3. dequeuePos = At(start, Freed)
  BY DEF RingFacts, RingAt, EndsRight
<1>4. Tag(start, Freed) = At(start, Freed + 1) /\ Tag(start, Freed) # At(start, Freed)
  BY <1>1, <1>2, <1>3, Window DEF Tag, SlotOf
<1>5. Freed < Len(reserved) /\ Entry(start, Freed) = reserved[Freed + 1]
  BY <1>2, <1>4 DEF RingFacts, RingAt, SlotsRight
<1>6. taken' = Append(taken, reserved[Len(taken) + 1])
  BY <1>1, <1>2, <1>3, <1>5 DEF Entry, SlotOf
<1>7. Len(taken') = Len(taken) + 1
  BY <1>1, RingSlots
<1>8. Freed' = Freed
  BY <1>1, <1>2, <1>7, RingSizes DEF Freed
<1>9. \A k : Tag(start, k)' = Tag(start, k) /\ Entry(start, k)' = Entry(start, k)
  BY <1>1 DEF Tag, Entry
<1>10. EndsRight(start)'
  <2>1. Len(taken') <= Len(reserved)
    BY <1>2, <1>5, <1>7, RingSizes
  <2> QED BY <1>1, <1>4, <1>8, <1>9, <2>1 DEF RingFacts, RingAt, EndsRight
<1>11. SlotsRight(start)' /\ LooksRight(start)' /\ HoldsRight(start)' /\ OneHolder'
  BY <1>1, <1>8, <1>9 DEF RingFacts, RingAt, SlotsRight, LooksRight, HoldsRight, OneHolder, Filling
<1> QED BY <1>1, <1>2, <1>5, <1>6, <1>10, <1>11 DEF RingAt

\* The slot is given back for the report Size further on.
LEMMA RingTakeFree ==
  ASSUME NEW start \in Starts, RingFacts(start), Ring!TakeFree
  PROVE  RingAt(start)'
<1>0. /\ Freed \in Nat /\ Size \in Nat /\ Size >= 2 /\ Len(reserved) \in Nat
      /\ Len(reserved) <= Freed + Size
  BY RingSizes
<1>1. /\ consumer = "free" /\ consumer' = "look"
      /\ UNCHANGED <<enqueuePos, at, position, report, reserved, taken>>
      /\ slots' = [slots EXCEPT ![Ring!Slot(dequeuePos)] =
                     [slots[Ring!Slot(dequeuePos)] EXCEPT !.sequence = Ring!Plus(dequeuePos, Size)]]
      /\ dequeuePos' = Ring!Plus(dequeuePos, 1)
  BY DEF Ring!TakeFree
<1>2. Freed \in Freed .. Freed + Size - 1 /\ Freed \in Freed .. Freed + Size
      /\ Freed + 1 \in Freed .. Freed + Size
  BY <1>0
<1>3. /\ dequeuePos = At(start, Freed) /\ Ring!Slot(dequeuePos) = SlotOf(start, Freed)
      /\ Tag(start, Freed) = At(start, Freed + 1)
  BY <1>1 DEF RingFacts, RingAt, EndsRight, SlotOf
<1>4. dequeuePos' = At(start, Freed + 1)
  BY <1>1, <1>2, <1>3, Window
<1>5. Freed' = Freed + 1 /\ Len(taken) = Freed + 1 /\ Len(taken) <= Len(reserved)
  BY <1>1, RingSizes DEF Freed
<1>6. /\ DOMAIN slots = 0 .. Size - 1 /\ SlotOf(start, Freed) \in 0 .. Size - 1
      /\ slots[SlotOf(start, Freed)] \in [sequence : 0 .. Width - 1, entry : 0 .. PushBound]
  BY <1>2, Window, RingSlots
<1>7. slots'[SlotOf(start, Freed + Size)].sequence = At(start, Freed + Size)
  <2>1. SlotOf(start, Freed + Size) = SlotOf(start, Freed) /\ Ring!Plus(dequeuePos, Size) = At(start, Freed + Size)
    BY <1>3, Window
  <2> QED BY <1>1, <1>3, <1>6, <2>1
<1>8. ASSUME NEW k \in Freed + 1 .. Freed + Size - 1
      PROVE  Tag(start, k)' = Tag(start, k) /\ Entry(start, k)' = Entry(start, k)
  <2>1. k \in Freed .. Freed + Size - 1 /\ k \in Freed .. Freed + Size /\ k # Freed
    BY <1>0
  <2>2. SlotOf(start, k) # SlotOf(start, Freed) /\ SlotOf(start, k) \in 0 .. Size - 1
    BY <1>2, <2>1, Window
  <2>3. slots'[SlotOf(start, k)] = slots[SlotOf(start, k)]
    BY <1>1, <1>3, <1>6, <2>2
  <2> QED BY <2>3 DEF Tag, Entry
<1>9. EndsRight(start)'
  <2>1. Freed + 1 \in Nat /\ Len(reserved) <= (Freed + 1) + Size
    BY <1>0
  <2> QED BY <1>1, <1>4, <1>5, <2>1 DEF RingFacts, RingAt, EndsRight
<1>10. SlotsRight(start)'
  <2>1. ASSUME NEW k \in Freed + 1 .. (Freed + 1) + Size - 1
        PROVE  \/ Tag(start, k)' = At(start, k)
               \/ /\ k < Len(reserved) /\ Tag(start, k)' = At(start, k + 1)
                  /\ Entry(start, k)' = reserved[k + 1]
    <3>1. CASE k = Freed + Size
      BY <1>7, <3>1 DEF Tag
    <3>2. CASE k # Freed + Size
      <4>1. k \in Freed + 1 .. Freed + Size - 1 /\ k \in Freed .. Freed + Size - 1
        BY <1>0, <3>2
      <4> QED BY <1>8, <4>1 DEF RingFacts, RingAt, SlotsRight
    <3> QED BY <3>1, <3>2
  <2> QED BY <1>1, <1>5, <2>1 DEF SlotsRight
<1>11. LooksRight(start)'
  <2>1. ASSUME NEW p \in Producers
        PROVE  /\ at[p] # "idle" => report[p] >= 1
               /\ \E n \in 0 .. Len(reserved) :
                    position[p] = At(start, n) /\ (at[p] = "reserve" => n < (Freed + 1) + Size)
    <3>1. PICK n \in 0 .. Len(reserved) : position[p] = At(start, n) /\ (at[p] = "reserve" => n < Freed + Size)
      BY ProducerFacts
    <3>2. n < Freed + Size => n < (Freed + 1) + Size
      BY <1>0
    <3> QED BY <3>1, <3>2, ProducerFacts
  <2> QED BY <1>1, <1>5, <2>1 DEF LooksRight
<1>12. HoldsRight(start)'
  <2>1. ASSUME NEW p \in Producers, Filling(p)
        PROVE  \E k \in Freed + 1 .. Len(reserved) - 1 :
                 /\ position[p] = At(start, k) /\ reserved[k + 1] = report[p]
                 /\ Tag(start, k)' = At(start, k) /\ (at[p] = "publish" => Entry(start, k)' = report[p])
    <3>1. PICK k \in Freed .. Len(reserved) - 1 :
            /\ position[p] = At(start, k) /\ reserved[k + 1] = report[p]
            /\ Tag(start, k) = At(start, k) /\ (at[p] = "publish" => Entry(start, k) = report[p])
      BY <2>1, Holding
    <3>2. k # Freed
      BY <1>2, <1>3, <3>1, Window
    <3>3. k \in Freed + 1 .. Len(reserved) - 1 /\ k \in Freed + 1 .. Freed + Size - 1
      BY <1>0, <3>2
    <3> QED BY <1>8, <3>1, <3>3
  <2> QED BY <1>1, <1>5, <2>1 DEF HoldsRight, Filling
<1>13. OneHolder'
  BY <1>1 DEF RingFacts, RingAt, OneHolder, Filling
<1> QED BY <1>9, <1>10, <1>11, <1>12, <1>13 DEF RingAt

\* Producers whose report has no slot yet.
Busy == {p \in Producers : at[p] \in {"look", "reserve"}}

LEMMA BusyChanges ==
  ASSUME Ring!TypeOK, NEW p \in Producers
  PROVE  /\ IsFiniteSet(Busy) /\ Cardinality(Busy) \in Nat
         /\ p \notin Busy => Cardinality(Busy \cup {p}) = Cardinality(Busy) + 1
         /\ p \in Busy => Cardinality(Busy \ {p}) = Cardinality(Busy) - 1
<1>1. IsFiniteSet(Busy)
  BY RingNumbers, FS_Subset DEF Busy
<1>2. Cardinality(Busy) \in Nat
  BY <1>1, FS_CardinalityType
<1>3. p \notin Busy => Cardinality(Busy \cup {p}) = Cardinality(Busy) + 1
  BY <1>1, FS_AddElement
<1>4. p \in Busy => Cardinality(Busy \ {p}) = Cardinality(Busy) - 1
  BY <1>1, FS_RemoveElement
<1> QED BY <1>1, <1>2, <1>3, <1>4

Searching == {"look", "reserve"}

\* A producer goes from one place to another.
LEMMA BusyAfter ==
  ASSUME Ring!TypeOK, NEW p \in Producers, NEW to, at' = [at EXCEPT ![p] = to]
  PROVE  /\ p \in Busy <=> at[p] \in Searching
         /\ Busy' = IF to \in Searching THEN Busy \cup {p} ELSE Busy \ {p}
<1>1. at'[p] = to /\ \A q \in Producers : q # p => at'[q] = at[q]
  BY DEF Ring!TypeOK
<1>2. /\ \A q : q \in Busy <=> q \in Producers /\ at[q] \in Searching
      /\ \A q : q \in Busy' <=> q \in Producers /\ at'[q] \in Searching
  BY DEF Busy, Searching
<1> QED BY <1>1, <1>2

LEMMA BusyMoves ==
  ASSUME Ring!TypeOK, NEW p \in Producers, NEW to, at' = [at EXCEPT ![p] = to]
  PROVE  /\ at[p] \notin Searching /\ to \in Searching => Cardinality(Busy') = Cardinality(Busy) + 1
         /\ at[p] \in Searching /\ to \notin Searching => Cardinality(Busy') = Cardinality(Busy) - 1
         /\ at[p] \in Searching /\ to \in Searching => Busy' = Busy
         /\ at[p] \notin Searching /\ to \notin Searching => Busy' = Busy
<1>1. /\ p \in Busy <=> at[p] \in Searching
      /\ Busy' = IF to \in Searching THEN Busy \cup {p} ELSE Busy \ {p}
  BY BusyAfter
<1>2. /\ p \notin Busy => Cardinality(Busy \cup {p}) = Cardinality(Busy) + 1
      /\ p \in Busy => Cardinality(Busy \ {p}) = Cardinality(Busy) - 1
  BY BusyChanges
<1> QED BY <1>1, <1>2

LEMMA PlacesApart ==
  /\ "look" \in Searching /\ "reserve" \in Searching
  /\ "idle" \notin Searching /\ "fill" \notin Searching /\ "publish" \notin Searching
BY DEF Searching

\* The reports add up.
Reports == dropped + Len(reserved) + Cardinality(Busy)

LEMMA SameCardinality == \A S : Ring!Cardinality(S) = Cardinality(S)
BY Zenon DEF Ring!Cardinality, Cardinality

LEMMA ReportsAre ==
  (Ring!ReportsCounted <=> pushes = Reports) /\ (Ring!ReportsCounted' <=> pushes' = Reports')
<1>1. Ring!ReportsCounted <=> pushes = Reports
  BY Zenon, SameCardinality DEF Ring!ReportsCounted, Reports, Busy
<1>2. Ring!ReportsCounted' <=> pushes' = Reports'
  BY Zenon, SameCardinality DEF Ring!ReportsCounted, Reports, Busy
<1> QED BY <1>1, <1>2

LEMMA CountedStep ==
  ASSUME Ring!TypeOK, Ring!ReportsCounted, [Ring!Next]_(Ring!vars)
  PROVE  Ring!ReportsCounted'
<1>0. /\ dropped \in Nat /\ Len(reserved) \in Nat /\ pushes \in Nat
      /\ \A p \in Producers : Cardinality(Busy) \in Nat
      /\ pushes = dropped + Len(reserved) + Cardinality(Busy)
  <2>1. dropped \in Nat /\ Len(reserved) \in Nat /\ pushes \in Nat
    BY RingNumbers DEF Ring!TypeOK
  <2>2. \A p \in Producers : Cardinality(Busy) \in Nat
    BY BusyChanges
  <2>3. pushes = dropped + Len(reserved) + Cardinality(Busy)
    BY ReportsAre DEF Reports
  <2> QED BY <2>1, <2>2, <2>3
<1>q. pushes' = dropped' + Len(reserved') + Cardinality(Busy') => Ring!ReportsCounted'
  BY ReportsAre DEF Reports
<1>s. UNCHANGED <<pushes, dropped, reserved, at>> => Ring!ReportsCounted'
  BY <1>0, <1>q DEF Busy
<1>1. ASSUME NEW p \in Producers, Ring!Push(p) PROVE Ring!ReportsCounted'
  <2>1. /\ at[p] = "idle" /\ at' = [at EXCEPT ![p] = "look"] /\ pushes' = pushes + 1
        /\ UNCHANGED <<dropped, reserved>>
    BY <1>1 DEF Ring!Push, Ring!Goes
  <2>2. Cardinality(Busy') = Cardinality(Busy) + 1
    BY <2>1, BusyMoves, PlacesApart
  <2> QED BY <1>0, <1>q, <2>1, <2>2
<1>2. ASSUME NEW p \in Producers, Ring!Drop(p) PROVE Ring!ReportsCounted'
  <2>1. /\ at[p] = "look" /\ at' = [at EXCEPT ![p] = "idle"] /\ dropped' = dropped + 1
        /\ UNCHANGED <<pushes, reserved>>
    BY <1>2 DEF Ring!Drop, Ring!Goes
  <2>2. Cardinality(Busy') = Cardinality(Busy) - 1
    BY <2>1, BusyMoves, PlacesApart
  <2> QED BY <1>0, <1>q, <2>1, <2>2
<1>3. ASSUME NEW p \in Producers, Ring!Reserve(p) PROVE Ring!ReportsCounted'
  <2>1. /\ at[p] = "reserve" /\ at' = [at EXCEPT ![p] = "fill"]
        /\ reserved' = Append(reserved, report[p]) /\ UNCHANGED <<pushes, dropped>>
    BY <1>3 DEF Ring!Reserve, Ring!Goes
  <2>2. Cardinality(Busy') = Cardinality(Busy) - 1
    BY <2>1, BusyMoves, PlacesApart
  <2>3. Len(reserved') = Len(reserved) + 1
    BY <2>1 DEF Ring!TypeOK
  <2> QED BY <1>0, <1>q, <2>1, <2>2, <2>3
<1>4. ASSUME NEW p \in Producers, Ring!LookFree(p) \/ Ring!ReserveFails(p) \/ Ring!Fill(p) \/ Ring!Publish(p)
      PROVE  Ring!ReportsCounted'
  <2>1. /\ \/ at[p] = "look" /\ at' = [at EXCEPT ![p] = "reserve"]
           \/ at[p] = "reserve" /\ at' = [at EXCEPT ![p] = "look"]
           \/ at[p] = "fill" /\ at' = [at EXCEPT ![p] = "publish"]
           \/ at[p] = "publish" /\ at' = [at EXCEPT ![p] = "idle"]
        /\ UNCHANGED <<pushes, dropped, reserved>>
    BY <1>4 DEF Ring!LookFree, Ring!ReserveFails, Ring!Fill, Ring!Publish, Ring!Goes
  <2>2. Busy' = Busy
    BY <2>1, BusyMoves, PlacesApart
  <2> QED BY <1>0, <1>q, <2>1, <2>2
<1>5. ASSUME NEW p \in Producers, Ring!LookAgain(p) PROVE Ring!ReportsCounted'
  BY <1>s, <1>5 DEF Ring!LookAgain
<1>6. CASE Ring!Take
  BY <1>s, <1>6 DEF Ring!Take, Ring!TakeCopy, Ring!TakeFree
<1>7. CASE UNCHANGED Ring!vars
  BY <1>s, <1>7 DEF Ring!vars
<1> QED BY <1>1, <1>2, <1>3, <1>4, <1>5, <1>6, <1>7 DEF Ring!Next, Ring!Produce

\* No more reports are reserved or dropped than begun.
LEMMA ReportsFit ==
  ASSUME Ring!TypeOK, Ring!ReportsCounted
  PROVE  /\ Len(reserved) <= PushBound
         /\ \A p \in Producers : at[p] \in Searching => dropped + 1 <= PushBound
<1>0. dropped \in Nat /\ Len(reserved) \in Nat /\ pushes \in Nat /\ pushes <= PushBound /\ PushBound \in Nat
  BY RingNumbers DEF Ring!TypeOK
<1>1. pushes = dropped + Len(reserved) + Cardinality(Busy)
  BY ReportsAre DEF Reports
<1>2. IsFiniteSet(Busy)
  BY RingNumbers, FS_Subset DEF Busy
<1>3. Cardinality(Busy) \in Nat
  BY <1>2, FS_CardinalityType
<1>4. ASSUME NEW p \in Producers, at[p] \in Searching PROVE dropped + 1 <= PushBound
  <2>1. p \in Busy
    BY <1>4 DEF Busy, Searching
  <2>2. IsFiniteSet(Busy \ {p}) /\ Cardinality(Busy \ {p}) = Cardinality(Busy) - 1
    BY <1>2, <2>1, FS_RemoveElement
  <2>3. Cardinality(Busy \ {p}) \in Nat
    BY <2>2, FS_CardinalityType
  <2> QED BY <1>0, <1>1, <1>3, <2>2, <2>3
<1> QED BY <1>0, <1>1, <1>3, <1>4

LEMMA PlusRange == \A x \in 0 .. Width - 1, n \in Nat : Ring!Plus(x, n) \in 0 .. Width - 1
<1> SUFFICES ASSUME NEW x \in 0 .. Width - 1, NEW n \in Nat PROVE Ring!Plus(x, n) \in 0 .. Width - 1
  OBVIOUS
<1>1. x + n \in Int /\ Width \in Nat \ {0}
  BY RingNumbers
<1> QED BY <1>1, DivisionExact DEF Ring!Plus

\* Positions, slots and reports stay in their sets.
LEMMA RingTypesStep ==
  ASSUME Ring!TypeOK, Ring!ReportsCounted, [Ring!Next]_(Ring!vars),
         \A p \in Producers : at[p] # "idle" => report[p] >= 1
  PROVE  Ring!TypeOK'
<1> DEFINE P == 0 .. PushBound
           W == 0 .. Width - 1
           I == 0 .. Size - 1
           Slots == [sequence : W, entry : P]
<1>n. PushBound \in Nat /\ Size \in Nat \ {0} /\ Width \in Nat \ {0}
  BY RingNumbers
<1>t. /\ enqueuePos \in W /\ dequeuePos \in W /\ slots \in [I -> Slots] /\ dropped \in P
      /\ at \in [Producers -> {"idle", "look", "reserve", "fill", "publish"}]
      /\ position \in [Producers -> W] /\ report \in [Producers -> P]
      /\ consumer \in {"look", "free"} /\ pushes \in P
      /\ reserved \in Seq(1 .. PushBound) /\ taken \in Seq(P)
  BY DEF Ring!TypeOK
<1>q. /\ enqueuePos' \in W /\ dequeuePos' \in W /\ slots' \in [I -> Slots] /\ dropped' \in P
      /\ at' \in [Producers -> {"idle", "look", "reserve", "fill", "publish"}]
      /\ position' \in [Producers -> W] /\ report' \in [Producers -> P]
      /\ consumer' \in {"look", "free"} /\ pushes' \in P
      /\ reserved' \in Seq(1 .. PushBound) /\ taken' \in Seq(P)
      => Ring!TypeOK'
  BY DEF Ring!TypeOK
<1>w. \A x \in W : Ring!Plus(x, 1) \in W /\ Ring!Plus(x, Size) \in W
  BY <1>n, PlusRange
<1>i. \A x \in W : Ring!Slot(x) \in I
  <2> SUFFICES ASSUME NEW x \in W PROVE x % Size \in I
    BY DEF Ring!Slot
  <2>1. x \in Int
    BY <1>n
  <2> QED BY <1>n, <2>1, DivisionExact
<1>s. \A x \in I : slots[x].sequence \in W /\ slots[x].entry \in P
  BY <1>t
<1>e. \A x \in I : /\ \A n \in W : [slots[x] EXCEPT !.sequence = n] \in Slots
                   /\ \A n \in P : [slots[x] EXCEPT !.entry = n] \in Slots
  BY <1>t
<1> HIDE DEF P, W, I, Slots
<1>1. ASSUME NEW p \in Producers, Ring!Push(p) PROVE Ring!TypeOK'
  <2>1. pushes' \in P /\ pushes + 1 \in P
    BY <1>1, <1>n, <1>t DEF Ring!Push, P
  <2>2. at' = [at EXCEPT ![p] = "look"] /\ position' = [position EXCEPT ![p] = enqueuePos]
        /\ report' = [report EXCEPT ![p] = pushes + 1]
        /\ UNCHANGED <<enqueuePos, dequeuePos, slots, dropped, consumer, reserved, taken>>
    BY <1>1 DEF Ring!Push, Ring!Goes
  <2> QED BY <1>t, <1>q, <2>1, <2>2
<1>2. ASSUME NEW p \in Producers, Ring!Drop(p) PROVE Ring!TypeOK'
  <2>1. at[p] = "look" /\ at' = [at EXCEPT ![p] = "idle"] /\ dropped' = dropped + 1
        /\ UNCHANGED <<enqueuePos, dequeuePos, slots, position, report, consumer, pushes, reserved, taken>>
    BY <1>2 DEF Ring!Drop, Ring!Goes
  <2>2. dropped + 1 <= PushBound
    BY <2>1, ReportsFit, PlacesApart
  <2>3. dropped' \in P
    BY <1>n, <1>t, <2>1, <2>2 DEF P
  <2> QED BY <1>t, <1>q, <2>1, <2>3
<1>3. ASSUME NEW p \in Producers, Ring!LookAgain(p) \/ Ring!LookFree(p) \/ Ring!ReserveFails(p)
      PROVE  Ring!TypeOK'
  <2>1. /\ at' = at \/ at' = [at EXCEPT ![p] = "reserve"] \/ at' = [at EXCEPT ![p] = "look"]
        /\ position' = position \/ position' = [position EXCEPT ![p] = enqueuePos]
        /\ UNCHANGED <<enqueuePos, dequeuePos, slots, dropped, report, consumer, pushes, reserved, taken>>
    BY <1>3 DEF Ring!LookAgain, Ring!LookFree, Ring!ReserveFails, Ring!Goes
  <2>2. at' \in [Producers -> {"idle", "look", "reserve", "fill", "publish"}] /\ position' \in [Producers -> W]
    BY <1>t, <2>1
  <2> QED BY <1>t, <1>q, <2>1, <2>2
<1>4. ASSUME NEW p \in Producers, Ring!Reserve(p) PROVE Ring!TypeOK'
  <2>1. /\ at[p] = "reserve" /\ at' = [at EXCEPT ![p] = "fill"] /\ enqueuePos' = Ring!Plus(enqueuePos, 1)
        /\ reserved' = Append(reserved, report[p])
        /\ UNCHANGED <<dequeuePos, slots, dropped, position, report, consumer, pushes, taken>>
    BY <1>4 DEF Ring!Reserve, Ring!Goes
  <2>2. report[p] \in 1 .. PushBound
    BY <1>n, <1>t, <2>1 DEF P
  <2>3. reserved' \in Seq(1 .. PushBound)
    BY <1>t, <2>1, <2>2
  <2> QED BY <1>t, <1>q, <1>w, <2>1, <2>3
<1>5. ASSUME NEW p \in Producers, Ring!Fill(p) \/ Ring!Publish(p) PROVE Ring!TypeOK'
  <2> DEFINE i == Ring!Slot(position[p])
  <2>1. /\ at' = [at EXCEPT ![p] = "publish"] \/ at' = [at EXCEPT ![p] = "idle"]
        /\ \/ slots' = [slots EXCEPT ![i] = [slots[i] EXCEPT !.entry = report[p]]]
           \/ slots' = [slots EXCEPT ![i] = [slots[i] EXCEPT !.sequence = Ring!Plus(position[p], 1)]]
        /\ UNCHANGED <<enqueuePos, dequeuePos, dropped, position, report, consumer, pushes, reserved, taken>>
    BY <1>5 DEF Ring!Fill, Ring!Publish, Ring!Goes
  <2>2. i \in I /\ report[p] \in P /\ Ring!Plus(position[p], 1) \in W
    BY <1>t, <1>i, <1>w
  <2> HIDE DEF i
  <2>3. slots' \in [I -> Slots]
    BY <1>t, <1>e, <2>1, <2>2
  <2>4. at' \in [Producers -> {"idle", "look", "reserve", "fill", "publish"}]
    BY <1>t, <2>1
  <2> QED BY <1>t, <1>q, <2>1, <2>3, <2>4
<1>6. CASE Ring!TakeCopy
  <2> DEFINE i == Ring!Slot(dequeuePos)
  <2>1. /\ consumer' = "free" /\ taken' = Append(taken, slots[i].entry)
        /\ UNCHANGED <<enqueuePos, dequeuePos, slots, dropped, at, position, report, pushes, reserved>>
    BY <1>6 DEF Ring!TakeCopy
  <2>2. slots[i].entry \in P
    BY <1>t, <1>i, <1>s
  <2>3. taken' \in Seq(P)
    BY <1>t, <2>1, <2>2
  <2> QED BY <1>t, <1>q, <2>1, <2>3
<1>7. CASE Ring!TakeFree
  <2> DEFINE i == Ring!Slot(dequeuePos)
  <2>1. /\ consumer' = "look" /\ dequeuePos' = Ring!Plus(dequeuePos, 1)
        /\ slots' = [slots EXCEPT ![i] = [slots[i] EXCEPT !.sequence = Ring!Plus(dequeuePos, Size)]]
        /\ UNCHANGED <<enqueuePos, dropped, at, position, report, pushes, reserved, taken>>
    BY <1>7 DEF Ring!TakeFree
  <2>2. i \in I /\ Ring!Plus(dequeuePos, Size) \in W /\ Ring!Plus(dequeuePos, 1) \in W
    BY <1>t, <1>i, <1>w
  <2> HIDE DEF i
  <2>3. slots' \in [I -> Slots]
    BY <1>t, <1>e, <2>1, <2>2
  <2> QED BY <1>t, <1>q, <2>1, <2>2, <2>3
<1>8. CASE UNCHANGED Ring!vars
  BY <1>t, <1>q, <1>8 DEF Ring!vars
<1> QED BY <1>1, <1>2, <1>3, <1>4, <1>5, <1>6, <1>7, <1>8 DEF Ring!Next, Ring!Produce, Ring!Take

LEMMA RingInit == Ring!Init => RingInv
<1> SUFFICES ASSUME Ring!Init PROVE RingInv
  OBVIOUS
<1> USE RingNumbers
<1>1. PICK start \in {0, Width - Size} :
        /\ enqueuePos = start /\ dequeuePos = start
        /\ slots = [i \in 0 .. Size - 1 |-> [sequence |-> start + i, entry |-> 0]]
        /\ dropped = 0 /\ at = [p \in Producers |-> "idle"]
        /\ position = [p \in Producers |-> start] /\ report = [p \in Producers |-> 0]
        /\ consumer = "look" /\ pushes = 0 /\ reserved = <<>> /\ taken = <<>>
  BY DEF Ring!Init
<1>2. start \in Starts /\ start \in 0 .. Width - 1
  BY StartsSmall DEF Starts
<1>3. /\ Len(reserved) = 0 /\ Len(taken) = 0 /\ Freed = 0 /\ reserved \in Seq(1 .. PushBound)
      /\ taken \in Seq(0 .. PushBound)
  BY <1>1 DEF Freed
<1>4. Ring!TypeOK
  <2>1. 0 \in 0 .. PushBound /\ \A i \in 0 .. Size - 1 : start + i \in 0 .. Width - 1
    BY <1>1, <1>2 DEF Far
  <2>2. slots \in [0 .. Size - 1 -> [sequence : 0 .. Width - 1, entry : 0 .. PushBound]]
    BY <1>1, <2>1
  <2> QED BY <1>1, <1>2, <1>3, <2>1, <2>2 DEF Ring!TypeOK
<1>5. Ring!ReportsCounted
  <2>1. Busy = {}
    BY <1>1 DEF Busy
  <2>2. Cardinality(Busy) = 0
    BY <2>1, FS_EmptySet
  <2> QED BY <1>1, <1>3, <2>2, ReportsAre DEF Reports
<1>6. Ring!TakenInOrder
  BY <1>3 DEF Ring!TakenInOrder
<1>7. ASSUME NEW n \in 0 .. Size - 1 PROVE At(start, n) = start + n /\ SlotOf(start, n) = n
  <2>1. n \in 0 .. Far /\ start + n < Width /\ n \in Nat
    BY <1>1
  <2>2. At(start, n) = start + n
    BY <1>2, <2>1, AtRange
  <2>3. SlotOf(start, n) = n % Size
    BY <1>2, <2>1, SlotIsRemainder
  <2> QED BY <2>1, <2>2, <2>3, RemainderNear
<1>8. RingAt(start)
  <2>1. At(start, 0) = start
    BY <1>2, <1>7
  <2>2. \A n \in 0 .. Size - 1 : Tag(start, n) = At(start, n)
    BY <1>1, <1>7 DEF Tag
  <2>3. EndsRight(start)
    BY <1>1, <1>3, <2>1 DEF EndsRight
  <2>4. SlotsRight(start)
    BY <1>3, <2>2 DEF SlotsRight
  <2>5. LooksRight(start)
    BY <1>1, <1>3, <2>1 DEF LooksRight
  <2>6. HoldsRight(start) /\ OneHolder
    BY <1>1 DEF HoldsRight, OneHolder, Filling
  <2> QED BY <2>3, <2>4, <2>5, <2>6 DEF RingAt
<1> QED BY <1>2, <1>4, <1>5, <1>6, <1>8 DEF RingInv

LEMMA TakenStep ==
  ASSUME NEW start \in Starts, RingFacts(start), Ring!TakenInOrder, [Ring!Next]_(Ring!vars)
  PROVE  Ring!TakenInOrder'
<1>0. reserved \in Seq(1 .. PushBound) /\ taken \in Seq(0 .. PushBound)
  BY RingSlots
<1>s. UNCHANGED <<taken, reserved>> => Ring!TakenInOrder'
  BY DEF Ring!TakenInOrder
<1>1. ASSUME NEW p \in Producers, Ring!Reserve(p) PROVE Ring!TakenInOrder'
  <2>1. reserved' = Append(reserved, report[p]) /\ UNCHANGED taken
    BY <1>1 DEF Ring!Reserve
  <2>2. report[p] \in 1 .. PushBound
    <3>1. at[p] = "reserve"
      BY <1>1 DEF Ring!Reserve, Ring!Goes
    <3> QED BY <3>1, ProducerFacts
  <2>3. Len(reserved') = Len(reserved) + 1 /\ \A i \in 1 .. Len(reserved) : reserved'[i] = reserved[i]
    BY <1>0, <2>1, <2>2
  <2>4. Len(taken) \in Nat /\ Len(reserved) \in Nat
    BY <1>0
  <2> QED BY <2>1, <2>3, <2>4 DEF Ring!TakenInOrder
<1>2. CASE Ring!TakeCopy
  <2> DEFINE e == reserved[Len(taken) + 1]
  <2>1. Len(taken) < Len(reserved) /\ taken' = Append(taken, e) /\ UNCHANGED reserved
    BY <1>2, RingTakeCopy
  <2>2. Len(taken) \in Nat /\ Len(reserved) \in Nat
    BY <1>0
  <2> HIDE DEF e
  <2>3. /\ Len(taken') = Len(taken) + 1 /\ taken'[Len(taken) + 1] = e
        /\ \A i \in 1 .. Len(taken) : taken'[i] = taken[i]
    BY <1>0, <2>1
  <2>4. ASSUME NEW i \in 1 .. Len(taken) + 1 PROVE taken'[i] = reserved[i]
    <3>1. CASE i = Len(taken) + 1
      BY <2>3, <3>1 DEF e
    <3>2. CASE i # Len(taken) + 1
      <4>1. i \in 1 .. Len(taken)
        BY <2>2, <3>2
      <4> QED BY <2>3, <4>1 DEF Ring!TakenInOrder
    <3> QED BY <3>1, <3>2
  <2> QED BY <2>1, <2>2, <2>3, <2>4 DEF Ring!TakenInOrder
<1>3. CASE Ring!TakeFree \/ UNCHANGED Ring!vars
  BY <1>s, <1>3 DEF Ring!TakeFree, Ring!vars
<1>4. ASSUME NEW p \in Producers,
             \/ Ring!Push(p) \/ Ring!Drop(p) \/ Ring!LookAgain(p) \/ Ring!LookFree(p)
             \/ Ring!ReserveFails(p) \/ Ring!Fill(p) \/ Ring!Publish(p)
      PROVE  Ring!TakenInOrder'
  BY <1>s, <1>4 DEF Ring!Push, Ring!Drop, Ring!LookAgain, Ring!LookFree, Ring!ReserveFails,
     Ring!Fill, Ring!Publish
<1> QED BY <1>1, <1>2, <1>3, <1>4 DEF Ring!Next, Ring!Produce, Ring!Take

LEMMA RingStep == RingInv /\ [Ring!Next]_(Ring!vars) => RingInv'
<1> SUFFICES ASSUME RingInv, [Ring!Next]_(Ring!vars) PROVE RingInv'
  OBVIOUS
<1>0. Ring!TypeOK /\ Ring!ReportsCounted /\ Ring!TakenInOrder
  BY DEF RingInv
<1>1. PICK start \in Starts : RingFacts(start)
  BY <1>0, ReportsFit DEF RingInv, RingFacts
<1>2. Ring!ReportsCounted'
  BY <1>0, CountedStep
<1>3. Ring!TypeOK'
  BY <1>0, <1>1, ProducerFacts, RingTypesStep
<1>4. Ring!TakenInOrder'
  BY <1>0, <1>1, TakenStep
<1>5. RingAt(start)'
  <2>1. CASE Ring!Take
    BY <1>1, <2>1, RingTakeCopy, RingTakeFree DEF Ring!Take
  <2>2. ASSUME NEW p \in Producers, Ring!Push(p) \/ Ring!Produce(p) PROVE RingAt(start)'
    BY <1>1, <2>2, RingPush, RingDrop, RingLookAgain, RingLookFree, RingReserve, RingReserveFails,
       RingFill, RingPublish DEF Ring!Produce
  <2>3. CASE UNCHANGED Ring!vars
    BY <1>1, <2>3 DEF RingFacts, RingAt, EndsRight, SlotsRight, LooksRight, HoldsRight, OneHolder,
       Filling, Freed, Tag, Entry, Ring!vars
  <2> QED BY <2>1, <2>2, <2>3 DEF Ring!Next
<1> QED BY <1>2, <1>3, <1>4, <1>5 DEF RingInv

\* A report is dropped only when every slot is in use.
LEMMA RingDropsFull ==
  ASSUME RingInv, [Ring!Next]_(Ring!vars), dropped' # dropped
  PROVE  Ring!Difference(enqueuePos, dequeuePos) >= Size
<1>1. PICK start \in Starts : RingFacts(start)
  BY ReportsFit DEF RingInv, RingFacts
<1>2. PICK p \in Producers : Ring!Drop(p)
  BY DEF Ring!Next, Ring!Produce, Ring!Take, Ring!TakeCopy, Ring!TakeFree, Ring!Push, Ring!LookAgain,
     Ring!LookFree, Ring!Reserve, Ring!ReserveFails, Ring!Fill, Ring!Publish, Ring!vars
<1>3. PICK n \in 0 .. Len(reserved) : position[p] = At(start, n)
  BY <1>1, ProducerFacts
<1>4. Ring!Lag(p) < 0
  BY <1>2 DEF Ring!Drop
<1>5. Len(reserved) >= Freed + Size
  BY <1>1, <1>3, <1>4, LagMeaning
<1>6. enqueuePos = At(start, Len(reserved)) /\ dequeuePos = At(start, Freed)
  BY <1>1 DEF RingFacts, RingAt, EndsRight
<1>7. /\ Len(reserved) \in 0 .. Far /\ Freed \in 0 .. Far
      /\ Len(reserved) \in Nat /\ Freed \in Nat /\ Size \in Nat
  BY <1>1, RingSizes
<1>8. Ring!Difference(enqueuePos, dequeuePos) = Len(reserved) - Freed
  BY <1>6, <1>7, AtDifference
<1> QED BY <1>5, <1>7, <1>8

\* Every report is taken whole, once and in order, or counted as dropped, and none is
\* dropped while there is room: ErrorRing::push and take of xcom_core.hpp, for any
\* number of threads, whatever laps the ring has made, also across the wrap of its positions.
THEOREM RingIsExact == Ring!Spec => RingExact
<1>1. Ring!Spec => []RingInv
  <2>1. RingInv /\ [Ring!Next]_(Ring!vars) => RingInv'
    BY RingStep
  <2> QED BY RingInit, <2>1, PTL DEF Ring!Spec
<1>2. RingInv => Ring!TypeOK /\ Ring!TakenInOrder /\ Ring!ReportsCounted
  BY DEF RingInv
<1>3. RingInv /\ [Ring!Next]_(Ring!vars)
        => [dropped' # dropped => Ring!Difference(enqueuePos, dequeuePos) >= Size]_(Ring!vars)
  BY RingDropsFull
<1>4. Ring!Spec => Ring!DropsWhenFull
  BY <1>1, <1>3, PTL DEF Ring!Spec, Ring!DropsWhenFull
<1> QED BY <1>1, <1>2, <1>4, PTL DEF RingExact, Ring!RingExact

-----------------------------------------------------------------------------
(* PeriodicTimer: the grid of deadlines                                    *)

\* Points of a grid of width b.
LEMMA GridPoint ==
  ASSUME NEW b \in Nat \ {0}, NEW k \in Nat \ {0}
  PROVE  b * k \in Nat /\ b * k >= b /\ (b * k) % b = 0
<1>1. (b * k + 0) % b = 0
  BY RemainderUnique
<1>2. b * k \in Nat /\ b * k >= b
  OBVIOUS
<1> QED BY <1>1, <1>2

LEMMA GridNext ==
  ASSUME NEW b \in Nat \ {0}, NEW k \in Nat, NEW m \in Nat
  PROVE  b * k + b * m = b * (k + m) /\ m * b = b * m /\ b * 1 = b
OBVIOUS

\* A number of intervals after the worker began.
TimerNumbers ==
  /\ TimeBound \in Nat /\ StartBound \in Nat /\ Intervals \subseteq Nat \ {0}

LEMMA TimerConstants == TimerNumbers
BY PartsAssumption DEF TimerNumbers

\* The deadlines of a worker that runs are points of its grid behind the first.
DeadlineOnGrid ==
  Timer!Ticking => /\ interval \in Intervals
                   /\ \E k \in Nat \ {0} : deadline = base + interval * k

\* A worker that begins has an interval.
TimerInv ==
  /\ Timer!TypeOK /\ DeadlineOnGrid
  /\ worker = "begin" => interval \in Intervals

LEMMA TimerInit == Timer!Init => TimerInv
<1> SUFFICES ASSUME Timer!Init PROVE TimerInv
  OBVIOUS
<1>1. ~Timer!Ticking /\ worker # "begin"
  BY DEF Timer!Init, Timer!Ticking
<1>2. now \in 0 .. TimeBound /\ starts \in 0 .. StartBound
  BY TimerConstants DEF Timer!Init, TimerNumbers
<1>3. Timer!TypeOK
  BY <1>2 DEF Timer!Init, Timer!TypeOK
<1> QED BY <1>1, <1>3 DEF TimerInv, DeadlineOnGrid

\* The following deadline after a callback: the first point of the grid that is ahead.
LEMMA TickAhead ==
  ASSUME TimerInv, Timer!Tick
  PROVE  /\ deadline' > now
         /\ deadline' = deadline + interval \/ deadline' - interval <= now
         /\ deadline' \in Nat
         /\ \E k \in Nat \ {0} : deadline' = base + interval * k
<1> DEFINE following == deadline + interval
           rest == now - following
<1>1. /\ now \in Nat /\ deadline \in Nat /\ base \in Nat /\ interval \in Nat \ {0}
  BY TimerConstants DEF Timer!Tick, TimerInv, Timer!TypeOK, DeadlineOnGrid, Timer!Ticking, TimerNumbers
<1>2. PICK k \in Nat \ {0} : deadline = base + interval * k
  BY DEF Timer!Tick, TimerInv, DeadlineOnGrid, Timer!Ticking
<1>3. deadline' = IF following <= now THEN following + (rest \div interval + 1) * interval ELSE following
  BY DEF Timer!Tick
<1>4. following = base + interval * (k + 1)
  <2>1. interval * k + interval * 1 = interval * (k + 1) /\ interval * 1 = interval /\ interval * k \in Nat
    BY <1>1, GridNext
  <2> QED BY <1>1, <1>2, <2>1
<1>5. CASE ~(following <= now)
  <2>1. deadline' = following /\ following > now /\ following \in Nat
    BY <1>1, <1>3, <1>5
  <2> QED BY <1>4, <2>1
<1>6. CASE following <= now
  <2> DEFINE q == rest \div interval
             r == rest % interval
  <2>1. rest \in Nat /\ following \in Nat /\ rest = now - following
    BY <1>1, <1>6
  <2> HIDE DEF following, rest
  <2>2. rest = interval * q + r /\ r \in 0 .. interval - 1 /\ q \in Int
    BY <1>1, <2>1, DivisionExact
  <2>3. q \in Nat
    <3> HIDE DEF q, r
    <3> QED BY <1>1, <2>1, <2>2
  <2>4. deadline' = following + (q + 1) * interval
    BY <1>3, <1>6
  <2> HIDE DEF q, r
  <2>5. /\ (q + 1) * interval = interval * (q + 1) /\ interval * q + interval * 1 = interval * (q + 1)
        /\ interval * 1 = interval /\ interval * q \in Nat
    BY <1>1, <2>3, GridNext
  <2>6. deadline' = following + interval * q + interval
    BY <1>1, <2>1, <2>3, <2>4, <2>5
  <2>7. deadline' > now /\ deadline' - interval <= now /\ deadline' \in Nat
    <3> DEFINE d == interval * q
    <3>1. d \in Nat /\ rest = d + r /\ deadline' = following + d + interval
      BY <2>2, <2>5, <2>6
    <3> HIDE DEF d
    <3> QED BY <1>1, <2>1, <2>2, <3>1
  <2>8. deadline' = base + interval * (k + 1 + (q + 1))
    <3>1. interval * (k + 1) + interval * (q + 1) = interval * ((k + 1) + (q + 1))
      BY <1>1, <2>3, GridNext
    <3>2. interval * (k + 1) \in Nat /\ interval * (q + 1) \in Nat
      BY <1>1, <2>3
    <3>3. deadline' = base + interval * (k + 1) + interval * (q + 1)
      BY <1>1, <1>4, <2>4, <2>5
    <3> DEFINE x == interval * (k + 1)
               y == interval * (q + 1)
               z == interval * ((k + 1) + (q + 1))
    <3>4. deadline' = base + x + y /\ x + y = z /\ x \in Nat /\ y \in Nat
      BY <3>1, <3>2, <3>3
    <3>5. deadline' = base + z
      <4> HIDE DEF x, y, z
      <4> QED BY <1>1, <3>4
    <3> QED BY <3>5
  <2>9. k + 1 + (q + 1) \in Nat \ {0}
    BY <2>3
  <2> QED BY <2>7, <2>8, <2>9
<1> QED BY <1>5, <1>6

LEMMA TimerStep == TimerInv /\ [Timer!Next]_(Timer!vars) => TimerInv'
<1> SUFFICES ASSUME TimerInv, [Timer!Next]_(Timer!vars) PROVE TimerInv'
  OBVIOUS
<1>0. /\ Timer!TypeOK /\ DeadlineOnGrid /\ (worker = "begin" => interval \in Intervals)
      /\ TimerNumbers
  BY TimerConstants DEF TimerInv
<1>1. CASE Timer!Elapse
  BY <1>0, <1>1 DEF Timer!Elapse, TimerInv, Timer!TypeOK, DeadlineOnGrid, Timer!Ticking, TimerNumbers
<1>2. CASE Timer!Join
  <2>1. ~(Timer!Ticking)' /\ (worker' = "begin" => interval' \in Intervals)
    BY <1>0, <1>2 DEF Timer!Join, Timer!TypeOK, Timer!Ticking
  <2>2. Timer!TypeOK'
    BY <1>0, <1>2 DEF Timer!Join, Timer!TypeOK
  <2> QED BY <2>1, <2>2 DEF TimerInv, DeadlineOnGrid
<1>3. CASE Timer!Begin
  <2>1. /\ interval \in Nat \ {0} /\ now \in Nat /\ interval \in Intervals
    BY <1>0, <1>3 DEF Timer!Begin, Timer!TypeOK, TimerNumbers
  <2>2. deadline' = base' + interval * 1 /\ 1 \in Nat \ {0} /\ interval' = interval
        /\ deadline' \in Nat /\ base' \in Nat
    BY <2>1, <1>3 DEF Timer!Begin
  <2>3. Timer!TypeOK' /\ worker' = "test"
    BY <1>0, <1>3, <2>2 DEF Timer!Begin, Timer!TypeOK
  <2>4. \E k \in Nat \ {0} : deadline' = base' + interval' * k
    BY <2>2
  <2> QED BY <2>1, <2>2, <2>3, <2>4 DEF TimerInv, DeadlineOnGrid
<1>4. CASE Timer!Test \/ Timer!Wake
  <2>1. /\ UNCHANGED <<interval, deadline, base>> /\ Timer!Ticking /\ worker' # "begin"
    BY <1>4 DEF Timer!Test, Timer!Wake, Timer!Ticking
  <2>2. Timer!TypeOK'
    BY <1>0, <1>4 DEF Timer!Test, Timer!Wake, Timer!TypeOK
  <2> QED BY <1>0, <2>1, <2>2 DEF TimerInv, DeadlineOnGrid
<1>5. CASE Timer!Tick
  <2>1. /\ deadline' \in Nat /\ \E k \in Nat \ {0} : deadline' = base + interval * k
    BY <1>5, TickAhead
  <2>2. /\ UNCHANGED <<now, interval, stopRequested, signalled, owner, wanted, starts, base>>
        /\ worker = "callback" /\ worker' = "test"
    BY <1>5 DEF Timer!Tick
  <2>3. Timer!TypeOK'
    BY <1>0, <2>1, <2>2 DEF Timer!TypeOK
  <2>4. interval \in Intervals
    BY <1>0, <2>2 DEF DeadlineOnGrid, Timer!Ticking
  <2> QED BY <2>1, <2>2, <2>3, <2>4 DEF TimerInv, DeadlineOnGrid
<1>6. ASSUME NEW i \in Intervals \cup {0}, Timer!Call(i) PROVE TimerInv'
  <2>1. /\ UNCHANGED <<now, interval, worker, deadline, base>>
        /\ wanted' = i /\ owner' = "join" /\ stopRequested' = TRUE /\ signalled' = TRUE
    BY <1>6 DEF Timer!Call
  <2>2. starts' \in 0 .. StartBound
    BY <1>0, <1>6 DEF Timer!Call, Timer!TypeOK, TimerNumbers
  <2>3. Timer!TypeOK'
    BY <1>0, <2>1, <2>2 DEF Timer!TypeOK
  <2> QED BY <1>0, <2>1, <2>3 DEF TimerInv, DeadlineOnGrid, Timer!Ticking
<1>7. CASE UNCHANGED Timer!vars
  BY <1>0, <1>7 DEF Timer!vars, TimerInv, Timer!TypeOK, DeadlineOnGrid, Timer!Ticking
<1> QED BY <1>1, <1>2, <1>3, <1>4, <1>5, <1>6, <1>7 DEF Timer!Next, Timer!Worker

\* The invariant says where the deadlines are.
LEMMA GridOfInv == TimerInv => Timer!TypeOK /\ Timer!OnGrid
<1> SUFFICES ASSUME TimerInv, Timer!Ticking
             PROVE  interval > 0 /\ (deadline - base) % interval = 0 /\ deadline > base
  BY DEF TimerInv, Timer!OnGrid
<1>1. PICK k \in Nat \ {0} : deadline = base + interval * k
  BY DEF TimerInv, DeadlineOnGrid
<1>2. interval \in Nat \ {0} /\ base \in Nat
  BY TimerConstants DEF TimerInv, DeadlineOnGrid, TimerNumbers, Timer!TypeOK
<1>3. interval * k \in Nat /\ interval * k >= interval /\ (interval * k) % interval = 0
  BY <1>2, GridPoint
<1> DEFINE x == interval * k
<1>4. x \in Nat /\ x >= interval /\ x % interval = 0 /\ deadline = base + x
  BY <1>1, <1>3
<1> HIDE DEF x
<1>5. deadline - base = x /\ deadline > base /\ interval > 0
  BY <1>2, <1>4
<1> QED BY <1>4, <1>5

\* PeriodicTimer, for any intervals: every deadline is a point of the grid its worker
\* began, and a callback that came late is followed by the first point still ahead.
THEOREM DeadlinesAreRight == Timer!Spec => DeadlinesRight
<1>1. Timer!Spec => []TimerInv
  BY TimerInit, TimerStep, PTL DEF Timer!Spec
<1>2. TimerInv /\ [Timer!Next]_(Timer!vars)
        => [worker = "callback" /\ worker' = "test" =>
              /\ deadline' > now
              /\ deadline' = deadline + interval \/ deadline' - interval <= now]_(Timer!vars)
  <2> SUFFICES ASSUME TimerInv, [Timer!Next]_(Timer!vars), worker = "callback", worker' = "test"
               PROVE  /\ deadline' > now
                      /\ deadline' = deadline + interval \/ deadline' - interval <= now
    OBVIOUS
  <2>1. Timer!Tick
    BY DEF Timer!Next, Timer!Worker, Timer!Elapse, Timer!Join, Timer!Begin, Timer!Test, Timer!Wake,
           Timer!Call, Timer!vars
  <2> QED BY <2>1, TickAhead
<1>3. Timer!Spec => Timer!NoBurst
  BY <1>1, <1>2, PTL DEF Timer!Spec, Timer!NoBurst
<1> QED BY <1>1, <1>3, GridOfInv, PTL DEF DeadlinesRight, Timer!DeadlinesRight

-----------------------------------------------------------------------------
(* LineStatus: what the lines did                                          *)

\* The read thread runs in a session only, what it publishes is its latest sample, and
\* RTS/CTS is what the session was opened with.
SessionRight ==
  /\ state = "closed" => reader = "none"
  /\ reader # "publish" => lineReport = Beside!Quiet
  /\ reader = "publish" => lineReport.modem = lastModem
  /\ ~lineVirtual => handshake = flow

\* What the call has set so far, and what it would answer.
CallRight ==
  /\ caller \in {"check", "dtr"} => answer = "ok" /\ driven = {}
  /\ caller = "rts" => \/ answer = "ok" /\ driven = {"dtr"}
                       \/ answer \in {"io", "not_open"}
  /\ caller = "end" => \/ answer = "ok" /\ driven = Beside!Outputs /\ ~handshake
                       \/ answer = "unsupported" /\ driven = {"dtr"}
                       \/ answer \in {"io", "not_open"}

LinesInv ==
  /\ Beside!TypeOK /\ Beside!ErrorsCounted /\ Beside!ModemIsLast
  /\ SessionRight /\ CallRight

LEMMA LineNumbers == IsFiniteSet(Kinds) /\ ErrorBound \in Nat /\ ToggleBoundOfLines \in Nat
BY PartsAssumption

-----------------------------------------------------------------------------
(* The bound of the errors raised                                          *)

LEMMA SameCardinalityBeside == \A S : Beside!Cardinality(S) = Cardinality(S)
BY Zenon DEF Beside!Cardinality, Cardinality

\* A kind that was raised as often as the bound allows uses the bound up.
LEMMA RaisedBelow ==
  ASSUME raised \in [Kinds -> 0 .. ErrorBound], NEW k \in Kinds,
         Beside!Cardinality(Beside!Errors) < ErrorBound
  PROVE  raised[k] < ErrorBound
<1> DEFINE Numbers == 1 .. ErrorBound
           Own == {k} \X Numbers
<1>1. IsFiniteSet(Numbers) /\ Cardinality(Numbers) = ErrorBound
  BY LineNumbers, FS_Interval
<1>2. IsFiniteSet({k}) /\ Cardinality({k}) = 1
  BY Zenon, FS_Singleton
<1>3. IsFiniteSet(Own) /\ Cardinality(Own) = 1 * ErrorBound
  <2> HIDE DEF Numbers
  <2> QED BY <1>1, <1>2, FS_Product DEF Own
<1>4. IsFiniteSet(Beside!Errors)
  <2>1. IsFiniteSet(Kinds \X Numbers)
    <3> HIDE DEF Numbers
    <3> QED BY <1>1, LineNumbers, FS_Product
  <2>2. Beside!Errors \in SUBSET (Kinds \X Numbers)
    BY DEF Beside!Errors
  <2> HIDE DEF Numbers
  <2> QED BY <2>1, <2>2, FS_Subset
<1>5. SUFFICES ASSUME ~(raised[k] < ErrorBound) PROVE FALSE
  OBVIOUS
<1>6. raised[k] = ErrorBound
  <2>1. raised[k] \in 0 .. ErrorBound
    OBVIOUS
  <2> QED BY <2>1, <1>5, LineNumbers
<1>7. Own \in SUBSET Beside!Errors
  <2> SUFFICES ASSUME NEW e \in Own PROVE e \in Beside!Errors
    OBVIOUS
  <2>1. e[1] = k /\ e[2] \in Numbers /\ e \in Kinds \X Numbers
    OBVIOUS
  <2>2. e[2] <= ErrorBound
    BY <2>1, LineNumbers
  <2> QED BY <1>6, <2>1, <2>2 DEF Beside!Errors
<1>8. Cardinality(Own) <= Cardinality(Beside!Errors)
  <2> HIDE DEF Own
  <2> QED BY <1>4, <1>7, FS_Subset
<1>9. Cardinality(Beside!Errors) < ErrorBound
  BY SameCardinalityBeside
<1> HIDE DEF Own
<1>10. Cardinality(Beside!Errors) \in Nat
  BY <1>4, FS_CardinalityType
<1> QED BY <1>3, <1>8, <1>9, <1>10, LineNumbers

-----------------------------------------------------------------------------
(* The errors                                                              *)

\* The account of one kind.
LEMMA CountsAre ==
  ASSUME Beside!TypeOK, Beside!ErrorsCounted, NEW k \in Kinds
  PROVE  /\ raised[k] \in 0 .. ErrorBound /\ counts[k] \in Nat /\ missed[k] \in Nat
         /\ raised[k] = counts[k] + missed[k] + (IF k \in latched THEN 1 ELSE 0)
                        + (IF k \in lineReport.errors THEN 1 ELSE 0)
<1>1. /\ raised[k] \in 0 .. ErrorBound /\ counts[k] \in 0 .. ErrorBound
      /\ missed[k] \in 0 .. ErrorBound
  BY DEF Beside!TypeOK
<1> QED BY <1>1, LineNumbers DEF Beside!ErrorsCounted

\* The types of the three accounts.
LineAccounts ==
  /\ counts \in [Kinds -> 0 .. ErrorBound] /\ raised \in [Kinds -> 0 .. ErrorBound]
  /\ missed \in [Kinds -> 0 .. ErrorBound]

\* What is latched, cleared and reported is counted once.
LEMMA ErrorsStep ==
  ASSUME LinesInv, [Beside!Next]_(Beside!vars)
  PROVE  LineAccounts' /\ Beside!ErrorsCounted'
<1> USE LineNumbers
<1>0. Beside!TypeOK /\ Beside!ErrorsCounted /\ SessionRight
  BY DEF LinesInv
<1>t. LineAccounts /\ latched \subseteq Kinds /\ lineReport.errors \subseteq Kinds
  BY <1>0 DEF Beside!TypeOK, LineAccounts
<1>u. ASSUME UNCHANGED <<raised, counts, missed, latched>>, lineReport'.errors = lineReport.errors
      PROVE  LineAccounts' /\ Beside!ErrorsCounted'
  BY <1>0, <1>t, <1>u DEF LineAccounts, Beside!ErrorsCounted
<1>c. ASSUME Beside!Clears(latched), latched' = {}, UNCHANGED <<raised, counts, lineReport>>
      PROVE  LineAccounts' /\ Beside!ErrorsCounted'
  <2>1. missed' = [k \in Kinds |-> IF k \in latched THEN missed[k] + 1 ELSE missed[k]]
    BY <1>c DEF Beside!Clears
  <2>2. ASSUME NEW k \in Kinds
        PROVE  /\ missed'[k] \in 0 .. ErrorBound
               /\ raised[k] = counts[k] + missed'[k] + (IF k \in lineReport.errors THEN 1 ELSE 0)
    <3>1. missed'[k] = IF k \in latched THEN missed[k] + 1 ELSE missed[k]
      BY <2>1
    <3> QED BY <1>0, <3>1, CountsAre
  <2>3. ASSUME NEW k \in Kinds
        PROVE  raised'[k] = counts'[k] + missed'[k] + (IF k \in latched' THEN 1 ELSE 0)
                            + (IF k \in lineReport'.errors THEN 1 ELSE 0)
    <3>1. counts[k] \in Nat /\ missed'[k] \in Nat /\ k \notin latched'
      BY <1>0, <1>c, <2>2, CountsAre
    <3> QED BY <1>c, <2>2, <3>1
  <2>4. LineAccounts'
    BY <1>c, <1>t, <2>1, <2>2 DEF LineAccounts
  <2> QED BY <2>3, <2>4 DEF Beside!ErrorsCounted
<1>1. ASSUME NEW j \in Kinds, Beside!Raise(j)
      PROVE  LineAccounts' /\ Beside!ErrorsCounted'
  <2>1. /\ j \notin latched /\ latched' = latched \cup {j}
        /\ raised' = [raised EXCEPT ![j] = @ + 1]
        /\ UNCHANGED <<counts, missed, lineReport>>
    BY <1>1 DEF Beside!Raise, Beside!metrics, Beside!poll
  <2>2. raised[j] < ErrorBound
    BY <1>1, <1>t, RaisedBelow DEF Beside!Raise, LineAccounts
  <2>3. ASSUME NEW k \in Kinds
        PROVE  /\ raised'[k] \in 0 .. ErrorBound
               /\ raised'[k] = counts'[k] + missed'[k] + (IF k \in latched' THEN 1 ELSE 0)
                               + (IF k \in lineReport'.errors THEN 1 ELSE 0)
    <3>1. raised'[k] = (IF k = j THEN raised[k] + 1 ELSE raised[k]) /\ counts'[k] = counts[k]
          /\ missed'[k] = missed[k] /\ lineReport'.errors = lineReport.errors
      BY <2>1, <1>t DEF LineAccounts
    <3>2. k \in latched' <=> (k \in latched \/ k = j)
      BY <2>1
    <3> QED BY <1>0, <2>1, <2>2, <3>1, <3>2, CountsAre
  <2>4. LineAccounts'
    BY <1>t, <2>1, <2>3 DEF LineAccounts
  <2> QED BY <2>3, <2>4 DEF Beside!ErrorsCounted
<1>2. CASE Beside!Changes
  BY <1>u, <1>2 DEF Beside!Changes, Beside!poll, Beside!metrics
<1>3. CASE Beside!Poll
  <2>1. /\ reader = "idle" /\ latched' = {} /\ UNCHANGED <<raised, counts, missed>>
        /\ \/ latched = {} /\ lineReport' = lineReport
           \/ lineReport'.errors = latched
    BY <1>3 DEF Beside!Poll, Beside!metrics
  <2>2. lineReport.errors = {}
    BY <1>0, <2>1 DEF SessionRight, Beside!Quiet
  <2>3. ASSUME NEW k \in Kinds
        PROVE  /\ k \in lineReport'.errors <=> k \in latched
               /\ k \notin latched' /\ k \notin lineReport.errors
    BY <2>1, <2>2
  <2>4. ASSUME NEW k \in Kinds
        PROVE  raised'[k] = counts'[k] + missed'[k] + (IF k \in latched' THEN 1 ELSE 0)
                            + (IF k \in lineReport'.errors THEN 1 ELSE 0)
    <3>1. raised'[k] = raised[k] /\ counts'[k] = counts[k] /\ missed'[k] = missed[k]
      BY <2>1
    <3> QED BY <1>0, <2>3, <3>1, CountsAre
  <2> QED BY <1>t, <2>1, <2>4 DEF LineAccounts, Beside!ErrorsCounted
<1>4. CASE Beside!Publish
  <2>1. /\ counts' = [k \in Kinds |-> IF k \in lineReport.errors THEN counts[k] + 1 ELSE counts[k]]
        /\ lineReport' = Beside!Quiet /\ UNCHANGED <<raised, missed, latched>>
    BY <1>4 DEF Beside!Publish, Beside!device
  <2>2. lineReport'.errors = {}
    BY <2>1 DEF Beside!Quiet
  <2>3. ASSUME NEW k \in Kinds
        PROVE  /\ counts'[k] \in 0 .. ErrorBound
               /\ raised'[k] = counts'[k] + missed'[k] + (IF k \in latched' THEN 1 ELSE 0)
                               + (IF k \in lineReport'.errors THEN 1 ELSE 0)
    <3>1. /\ counts'[k] = (IF k \in lineReport.errors THEN counts[k] + 1 ELSE counts[k])
          /\ raised'[k] = raised[k] /\ missed'[k] = missed[k] /\ latched' = latched
          /\ k \notin lineReport'.errors
      BY <2>1, <2>2
    <3> QED BY <1>0, <3>1, CountsAre
  <2>4. LineAccounts'
    BY <1>t, <2>1, <2>3 DEF LineAccounts
  <2> QED BY <2>3, <2>4 DEF Beside!ErrorsCounted
<1>5. CASE Beside!Sample
  BY <1>c, <1>5 DEF Beside!Sample, Beside!poll, Beside!metrics
<1>6. CASE Beside!CloseEnds
  BY <1>c, <1>6 DEF Beside!CloseEnds, Beside!metrics
<1>7. CASE Beside!ReaderFaults
  BY <1>u, <1>7 DEF Beside!ReaderFaults, Beside!device, Beside!metrics
<1>8. CASE Beside!Open
  BY <1>u, <1>8 DEF Beside!Open, Beside!device, Beside!poll
<1>9. CASE Beside!OpenFails
  BY <1>u, <1>9 DEF Beside!OpenFails, Beside!device, Beside!poll
<1>10. CASE Beside!Close
  BY <1>u, <1>10 DEF Beside!Close, Beside!device, Beside!poll
<1>11. CASE Beside!SetLines
  BY <1>u, <1>11 DEF Beside!SetLines, Beside!Ask, Beside!CheckOpen, Beside!SetDtr, Beside!SetRts,
                     Beside!Return, Beside!device, Beside!poll, Beside!metrics
<1>12. CASE UNCHANGED Beside!vars
  BY <1>u, <1>12 DEF Beside!vars, Beside!device, Beside!poll, Beside!metrics
<1> QED BY <1>1, <1>2, <1>3, <1>4, <1>5, <1>6, <1>7, <1>8, <1>9, <1>10, <1>11, <1>12
        DEF Beside!Next, Beside!Reader, Beside!Dispatcher

-----------------------------------------------------------------------------
(* The rest of the state                                                   *)

\* The types but those of the accounts.
LineTypes ==
  /\ state \in {"closed", "open", "closing"} /\ lineVirtual \in BOOLEAN /\ flow \in BOOLEAN
  /\ linePort \in BOOLEAN /\ open \in BOOLEAN /\ handshake \in BOOLEAN
  /\ reader \in {"none", "idle", "publish"}
  /\ lineReport \in [errors : SUBSET Kinds, rise : BOOLEAN, modem : Beside!Levels \cup {"none"}]
  /\ latched \subseteq Kinds /\ holds \subseteq HoldBits /\ level \in Beside!Levels
  /\ lastHolds \subseteq HoldBits /\ lastModem \in Beside!Levels \cup {"none"}
  /\ modemLines \in Beside!Levels \cup {"none"}
  /\ recorded \in BOOLEAN /\ toggled \in 0 .. ToggleBoundOfLines
  /\ caller \in {"idle", "check", "dtr", "rts", "end"}
  /\ answer \in {"ok", "unsupported", "io", "not_open"} /\ driven \subseteq Beside!Outputs

LEMMA LineTypesAre ==
  /\ Beside!TypeOK <=> LineTypes /\ LineAccounts
  /\ Beside!TypeOK' <=> LineTypes' /\ LineAccounts'
<1>1. Beside!TypeOK <=> LineTypes /\ LineAccounts
  BY Zenon DEF Beside!TypeOK, LineTypes, LineAccounts
<1>2. Beside!TypeOK' <=> LineTypes' /\ LineAccounts'
  BY Zenon DEF Beside!TypeOK, LineTypes, LineAccounts
<1> QED BY <1>1, <1>2

\* What the proofs of the other conjuncts are about.
LineRest == LineTypes /\ Beside!ModemIsLast /\ SessionRight /\ CallRight

LEMMA LineRestInit == Beside!Init => LineRest
<1> SUFFICES ASSUME Beside!Init PROVE LineRest
  OBVIOUS
<1> USE LineNumbers
<1>1. LineTypes
  <2>1. lineReport \in [errors : SUBSET Kinds, rise : BOOLEAN, modem : Beside!Levels \cup {"none"}]
    BY DEF Beside!Init, Beside!Quiet
  <2>2. toggled \in 0 .. ToggleBoundOfLines
    BY DEF Beside!Init
  <2> QED BY <2>1, <2>2 DEF Beside!Init, LineTypes, Beside!Levels
<1>2. SessionRight /\ CallRight /\ Beside!ModemIsLast
  BY DEF Beside!Init, SessionRight, CallRight, Beside!ModemIsLast
<1> QED BY <1>1, <1>2 DEF LineRest

\* The device and its driver: nothing the session or the call knows changes.
LEMMA LineDeviceStep ==
  ASSUME LineRest,
         Beside!Changes \/ Beside!Sample \/ (\E k \in Kinds : Beside!Raise(k))
  PROVE  LineRest'
<1> USE LineNumbers
<1>1. LineTypes /\ Beside!ModemIsLast /\ SessionRight /\ CallRight
  BY DEF LineRest
<1>2. UNCHANGED <<state, lineVirtual, flow, linePort, open, handshake, reader, lineReport,
                  lastHolds, lastModem, modemLines, recorded, caller, answer, driven>>
  BY DEF Beside!Changes, Beside!Sample, Beside!Raise, Beside!link, Beside!poll, Beside!metrics,
         Beside!call
<1>3. /\ latched' \subseteq Kinds /\ holds' \subseteq HoldBits /\ level' \in Beside!Levels
      /\ toggled' \in 0 .. ToggleBoundOfLines
  <2>1. CASE Beside!Changes
    BY <1>1, <2>1 DEF Beside!Changes, LineTypes
  <2>2. CASE Beside!Sample
    BY <1>1, <2>2 DEF Beside!Sample, LineTypes
  <2>3. ASSUME NEW k \in Kinds, Beside!Raise(k)
        PROVE  /\ latched' \subseteq Kinds /\ holds' \subseteq HoldBits /\ level' \in Beside!Levels
               /\ toggled' \in 0 .. ToggleBoundOfLines
    BY <1>1, <2>3 DEF Beside!Raise, LineTypes
  <2> QED BY <2>1, <2>2, <2>3
<1>4. LineTypes'
  BY <1>1, <1>2, <1>3 DEF LineTypes
<1>5. Beside!ModemIsLast' /\ SessionRight' /\ CallRight'
  BY <1>1, <1>2 DEF Beside!ModemIsLast, SessionRight, CallRight
<1> QED BY <1>4, <1>5 DEF LineRest

\* The read thread samples, publishes what it sampled, or ends.
LEMMA LineReaderStep ==
  ASSUME LineRest, Beside!Reader
  PROVE  LineRest'
<1>1. LineTypes /\ Beside!ModemIsLast /\ SessionRight /\ CallRight
  BY DEF LineRest
<1>2. /\ UNCHANGED <<state, lineVirtual, flow, linePort, handshake, holds, level, toggled, caller,
                     answer, driven>>
      /\ reader # "none"
  BY DEF Beside!Reader, Beside!Poll, Beside!Publish, Beside!ReaderFaults, Beside!link,
         Beside!device, Beside!call
<1>3. CallRight' /\ state # "closed"
  BY <1>1, <1>2 DEF CallRight, SessionRight
<1>4. CASE Beside!Poll
  <2>1. /\ open' = open /\ modemLines' = modemLines /\ recorded' = recorded
        /\ lastModem' \in {level, "none"} /\ lastHolds' = holds /\ latched' = {}
        /\ \/ reader' = "idle" /\ lineReport' = lineReport /\ lastModem' = lastModem
           \/ /\ reader' = "publish"
              /\ lineReport' = [errors |-> latched, modem |-> lastModem',
                                rise |-> holds # lastHolds /\ holds # {}]
        /\ reader = "idle"
    BY <1>4 DEF Beside!Poll, Beside!link, Beside!metrics
  <2>2. LineTypes'
    <3>1. lastModem' \in Beside!Levels \cup {"none"}
      BY <1>1, <2>1 DEF LineTypes
    <3>2. lineReport' \in [errors : SUBSET Kinds, rise : BOOLEAN,
                           modem : Beside!Levels \cup {"none"}]
      <4>1. /\ latched \in SUBSET Kinds /\ (holds # lastHolds /\ holds # {}) \in BOOLEAN
            /\ lineReport \in [errors : SUBSET Kinds, rise : BOOLEAN,
                               modem : Beside!Levels \cup {"none"}]
        BY <1>1 DEF LineTypes
      <4> DEFINE rises == holds # lastHolds /\ holds # {}
      <4>2. rises \in BOOLEAN
        OBVIOUS
      <4>3. lineReport' = lineReport
            \/ lineReport' = [errors |-> latched, modem |-> lastModem', rise |-> rises]
        BY <2>1
      <4> HIDE DEF rises
      <4> QED BY <3>1, <4>1, <4>2, <4>3
    <3>3. /\ reader' \in {"none", "idle", "publish"} /\ open' \in BOOLEAN
          /\ modemLines' \in Beside!Levels \cup {"none"} /\ recorded' \in BOOLEAN
          /\ lastHolds' \subseteq HoldBits /\ latched' \subseteq Kinds
      BY <1>1, <2>1 DEF LineTypes
    <3> QED BY <1>1, <1>2, <3>1, <3>2, <3>3 DEF LineTypes
  <2>3. SessionRight' /\ Beside!ModemIsLast'
    BY <1>1, <1>2, <1>3, <2>1 DEF SessionRight, Beside!ModemIsLast
  <2> QED BY <1>3, <2>2, <2>3 DEF LineRest
<1>5. CASE Beside!Publish
  <2>1. /\ open' = open /\ modemLines' = lineReport.modem /\ recorded' \in BOOLEAN
        /\ UNCHANGED <<lastModem, lastHolds, latched>> /\ reader = "publish" /\ reader' = "idle"
        /\ lineReport' = Beside!Quiet
    BY <1>5 DEF Beside!Publish, Beside!link, Beside!device
  <2>2. LineTypes'
    <3>1. /\ modemLines' \in Beside!Levels \cup {"none"}
          /\ lineReport' \in [errors : SUBSET Kinds, rise : BOOLEAN,
                              modem : Beside!Levels \cup {"none"}]
      BY <1>1, <2>1 DEF LineTypes, Beside!Quiet
    <3> QED BY <1>1, <1>2, <2>1, <3>1 DEF LineTypes
  <2>3. SessionRight' /\ Beside!ModemIsLast'
    BY <1>1, <1>2, <1>3, <2>1 DEF SessionRight, Beside!ModemIsLast
  <2> QED BY <1>3, <2>2, <2>3 DEF LineRest
<1>6. CASE Beside!ReaderFaults
  <2>1. /\ open' = FALSE /\ reader = "idle" /\ reader' = "none"
        /\ open' \in BOOLEAN /\ reader' \in {"none", "idle", "publish"}
        /\ UNCHANGED <<modemLines, recorded, lastModem, lastHolds, latched, lineReport>>
    BY <1>6 DEF Beside!ReaderFaults, Beside!device, Beside!metrics
  <2>2. LineTypes'
    BY <1>1, <1>2, <2>1 DEF LineTypes
  <2>3. SessionRight' /\ Beside!ModemIsLast'
    BY <1>1, <1>2, <1>3, <2>1 DEF SessionRight, Beside!ModemIsLast
  <2> QED BY <1>3, <2>2, <2>3 DEF LineRest
<1> QED BY <1>4, <1>5, <1>6 DEF Beside!Reader

\* The Dispatcher opens with the caller at rest; closing leaves the call its outputs.
LEMMA LineDispatcherStep ==
  ASSUME LineRest, Beside!Dispatcher
  PROVE  LineRest'
<1>1. LineTypes /\ Beside!ModemIsLast /\ SessionRight /\ CallRight
  BY DEF LineRest
<1>2. UNCHANGED <<holds, level, toggled, recorded, caller, answer, driven, lineReport>>
  BY DEF Beside!Dispatcher, Beside!Open, Beside!OpenFails, Beside!Close, Beside!CloseEnds,
         Beside!poll, Beside!device, Beside!metrics, Beside!call
<1>3. CASE Beside!Open
  <2>1. /\ state = "closed" /\ caller = "idle" /\ state' = "open" /\ flow' \in BOOLEAN
        /\ lineVirtual' \in BOOLEAN /\ latched' = latched
        /\ \/ /\ lineVirtual'
              /\ UNCHANGED <<reader, lastHolds, lastModem, linePort, open, handshake, modemLines>>
           \/ /\ ~lineVirtual' /\ linePort' = TRUE /\ open' = TRUE /\ handshake' = flow'
              /\ reader' = "idle" /\ lastHolds' = {} /\ lastModem' = "none" /\ modemLines' = "none"
    BY <1>3 DEF Beside!Open, Beside!poll, Beside!device
  <2>2. LineTypes'
    <3>1. /\ linePort' \in BOOLEAN /\ open' \in BOOLEAN /\ handshake' \in BOOLEAN
          /\ reader' \in {"none", "idle", "publish"} /\ lastHolds' \subseteq HoldBits
          /\ lastModem' \in Beside!Levels \cup {"none"} /\ modemLines' \in Beside!Levels \cup {"none"}
      BY <1>1, <2>1 DEF LineTypes
    <3> QED BY <1>1, <1>2, <2>1, <3>1 DEF LineTypes
  <2>3. SessionRight' /\ Beside!ModemIsLast' /\ CallRight'
    BY <1>1, <1>2, <2>1 DEF SessionRight, Beside!ModemIsLast, CallRight
  <2> QED BY <2>2, <2>3 DEF LineRest
<1>4. CASE Beside!OpenFails
  <2>1. /\ state = "closed" /\ modemLines' = "none"
        /\ UNCHANGED <<state, lineVirtual, flow, linePort, open, handshake, reader, lastHolds,
                       lastModem, latched>>
    BY <1>4 DEF Beside!OpenFails, Beside!link, Beside!poll, Beside!device
  <2>2. LineTypes'
    BY <1>1, <1>2, <2>1 DEF LineTypes
  <2>3. SessionRight' /\ Beside!ModemIsLast' /\ CallRight'
    BY <1>1, <1>2, <2>1 DEF SessionRight, Beside!ModemIsLast, CallRight
  <2> QED BY <2>2, <2>3 DEF LineRest
<1>5. CASE Beside!Close
  <2>1. /\ state' = "closing" /\ modemLines' = "none"
        /\ UNCHANGED <<lineVirtual, flow, linePort, open, handshake, reader, lastHolds,
                       lastModem, latched>>
    BY <1>5 DEF Beside!Close, Beside!poll, Beside!device
  <2>2. LineTypes'
    BY <1>1, <1>2, <2>1 DEF LineTypes
  <2>3. SessionRight' /\ Beside!ModemIsLast' /\ CallRight'
    BY <1>1, <1>2, <2>1 DEF SessionRight, Beside!ModemIsLast, CallRight
  <2> QED BY <2>2, <2>3 DEF LineRest
<1>6. CASE Beside!CloseEnds
  <2>1. /\ state' = "closed" /\ reader # "publish" /\ reader' = "none" /\ linePort' = FALSE
        /\ open' = FALSE /\ latched' = {}
        /\ UNCHANGED <<lineVirtual, flow, handshake, lastHolds, lastModem, modemLines>>
    BY <1>6 DEF Beside!CloseEnds, Beside!metrics
  <2>2. LineTypes'
    <3>1. /\ state' \in {"closed", "open", "closing"} /\ reader' \in {"none", "idle", "publish"}
          /\ linePort' \in BOOLEAN /\ open' \in BOOLEAN /\ latched' \subseteq Kinds
      BY <2>1
    <3> QED BY <1>1, <1>2, <2>1, <3>1 DEF LineTypes
  <2>3. SessionRight' /\ Beside!ModemIsLast' /\ CallRight'
    BY <1>1, <1>2, <2>1 DEF SessionRight, Beside!ModemIsLast, CallRight
  <2> QED BY <2>2, <2>3 DEF LineRest
<1> QED BY <1>3, <1>4, <1>5, <1>6 DEF Beside!Dispatcher

\* The call: each step adds an output, or leaves an answer that outlives the next steps.
LEMMA LineCallStep ==
  ASSUME LineRest, Beside!SetLines
  PROVE  LineRest'
<1>1. LineTypes /\ Beside!ModemIsLast /\ SessionRight /\ CallRight
  BY DEF LineRest
<1>2. UNCHANGED <<state, lineVirtual, flow, linePort, open, handshake, reader, lineReport, holds,
                  level, toggled, latched, lastHolds, lastModem, modemLines, recorded>>
  BY DEF Beside!SetLines, Beside!Ask, Beside!CheckOpen, Beside!SetDtr, Beside!SetRts,
         Beside!Return, Beside!link, Beside!poll, Beside!device, Beside!metrics
<1>3. Beside!ModemIsLast' /\ SessionRight'
  BY <1>1, <1>2 DEF SessionRight, Beside!ModemIsLast
<1>4. SUFFICES /\ caller' \in {"idle", "check", "dtr", "rts", "end"}
               /\ answer' \in {"ok", "unsupported", "io", "not_open"}
               /\ driven' \subseteq Beside!Outputs /\ CallRight'
  <2>1. LineTypes'
    BY <1>1, <1>2, <1>4 DEF LineTypes
  <2> QED BY <1>3, <1>4, <2>1 DEF LineRest
<1>0. answer \in {"ok", "unsupported", "io", "not_open"} /\ driven \subseteq Beside!Outputs
  BY <1>1 DEF LineTypes
<1>5. CASE Beside!Ask
  BY <1>5 DEF Beside!Ask, Beside!Calls, CallRight
<1>6. CASE Beside!CheckOpen
  BY <1>0, <1>1, <1>6 DEF Beside!CheckOpen, Beside!Calls, CallRight
<1>7. CASE Beside!SetDtr
  <2>1. /\ caller = "dtr" /\ caller' = "rts" /\ answer = "ok" /\ driven = {}
        /\ \/ driven' = driven \cup {"dtr"} /\ answer' = answer
           \/ driven' = driven /\ answer' \in {"io", "not_open"}
    BY <1>1, <1>7 DEF Beside!SetDtr, Beside!Drives, Beside!DrivesNothing, Beside!Calls, CallRight
  <2> QED BY <2>1 DEF CallRight, Beside!Outputs
<1>8. CASE Beside!SetRts
  <2>1. /\ caller = "rts" /\ caller' = "end"
        /\ \/ answer = "ok" /\ driven = {"dtr"}
           \/ answer \in {"io", "not_open"}
        /\ \/ ~handshake /\ driven' = driven \cup {"rts"} /\ answer' = answer
           \/ driven' = driven /\ answer' = IF answer = "ok" THEN "io" ELSE answer
           \/ driven' = driven /\ answer' = IF answer = "ok" THEN "not_open" ELSE answer
           \/ driven' = driven /\ answer' = IF answer = "ok" THEN "unsupported" ELSE answer
    BY <1>1, <1>8 DEF Beside!SetRts, Beside!Drives, Beside!DrivesNothing, Beside!Calls, CallRight
  <2> QED BY <1>0, <1>2, <2>1 DEF CallRight, Beside!Outputs
<1>9. CASE Beside!Return
  <2>1. /\ caller' = "idle" /\ driven' = {} /\ answer' \in {"unsupported", answer}
    BY <1>9 DEF Beside!Return, Beside!Calls
  <2> QED BY <1>0, <2>1 DEF CallRight
<1> QED BY <1>5, <1>6, <1>7, <1>8, <1>9 DEF Beside!SetLines

LEMMA LineRestStep ==
  ASSUME LineRest, [Beside!Next]_(Beside!vars)
  PROVE  LineRest'
<1>1. CASE UNCHANGED Beside!vars
  <2>1. UNCHANGED <<state, lineVirtual, flow, linePort, open, handshake, reader, lineReport, holds,
                    level, toggled, latched, lastHolds, lastModem, modemLines, recorded, caller,
                    answer, driven>>
    BY <1>1 DEF Beside!vars, Beside!link, Beside!poll, Beside!device, Beside!metrics, Beside!call
  <2> QED BY <2>1 DEF LineRest, LineTypes, Beside!ModemIsLast, SessionRight, CallRight
<1> QED BY <1>1, LineDeviceStep, LineReaderStep, LineDispatcherStep, LineCallStep DEF Beside!Next

-----------------------------------------------------------------------------
(* The lines                                                               *)

LEMMA LinesInit == Beside!Init => LinesInv
<1> SUFFICES ASSUME Beside!Init PROVE LinesInv
  OBVIOUS
<1>1. LineRest
  BY LineRestInit
<1>2. LineAccounts
  BY LineNumbers DEF Beside!Init, LineAccounts
<1>3. Beside!ErrorsCounted
  BY DEF Beside!Init, Beside!ErrorsCounted, Beside!Quiet
<1> QED BY <1>1, <1>2, <1>3, LineTypesAre DEF LineRest, LinesInv

LEMMA LinesStep == LinesInv /\ [Beside!Next]_(Beside!vars) => LinesInv'
<1> SUFFICES ASSUME LinesInv, [Beside!Next]_(Beside!vars) PROVE LinesInv'
  OBVIOUS
<1>1. LineRest
  BY LineTypesAre DEF LineRest, LinesInv
<1>2. LineRest'
  BY <1>1, LineRestStep
<1>3. LineAccounts' /\ Beside!ErrorsCounted'
  BY ErrorsStep
<1> QED BY <1>2, <1>3, LineTypesAre DEF LineRest, LinesInv

\* What the call answers when it returns is what it has set.
LEMMA AnswerStep ==
  ASSUME LinesInv, [Beside!Next]_(Beside!vars), caller = "end", caller' = "idle"
  PROVE  /\ answer' = "ok" => driven = Beside!Outputs
         /\ answer' = "unsupported" /\ ~lineVirtual => driven = {"dtr"}
<1>1. SessionRight /\ CallRight
  BY DEF LinesInv
<1>2. Beside!Return
  BY DEF Beside!Next, Beside!Changes, Beside!Reader, Beside!Poll, Beside!Publish,
         Beside!ReaderFaults, Beside!Sample, Beside!Dispatcher, Beside!Open, Beside!OpenFails,
         Beside!Close, Beside!CloseEnds, Beside!SetLines, Beside!Ask, Beside!CheckOpen,
         Beside!SetDtr, Beside!SetRts, Beside!Raise, Beside!Calls, Beside!call, Beside!vars
<1>3. answer' = IF flow /\ (lineVirtual \/ answer \notin {"io", "not_open"}) THEN "unsupported"
                ELSE answer
  BY <1>2 DEF Beside!Return
<1> QED BY <1>1, <1>3 DEF SessionRight, CallRight

\* LineStatus, for any kinds of errors and any number of them: every error raised is
\* latched, on its way, counted, or cleared by a sample or the end of the session; the
\* inputs shown are the last sample; and xcom_set_lines answers what it has set.
THEOREM LinesAreTrue == Beside!Spec => LinesTrue
<1>1. Beside!Spec => []LinesInv
  BY LinesInit, LinesStep, PTL DEF Beside!Spec
<1>2. LinesInv => Beside!TypeOK /\ Beside!ErrorsCounted /\ Beside!ModemIsLast
  BY DEF LinesInv
<1>3. LinesInv /\ [Beside!Next]_(Beside!vars)
        => [caller = "end" /\ caller' = "idle" =>
              /\ answer' = "ok" => driven = Beside!Outputs
              /\ answer' = "unsupported" /\ ~lineVirtual => driven = {"dtr"}]_(Beside!vars)
  BY AnswerStep
<1>4. Beside!Spec => Beside!AnswerIsTrue
  BY <1>1, <1>3, PTL DEF Beside!Spec, Beside!AnswerIsTrue
<1> QED BY <1>1, <1>2, <1>4, PTL DEF LinesTrue, Beside!LinesTrue

-----------------------------------------------------------------------------
(* ThreadHealth: what the observer saw                                     *)

\* A stamp that is too old.
Old(t) == age[t] > Timeout

\* Where each thread can be with an old stamp, and what its flags say of its place.
ReaderPlace ==
  /\ doing["reader"] \in {"none", "begin", "loop", "driver", "stuck", "blocked"}
  /\ doing["reader"] = "driver" => "reader" \in alive /\ ~Old("reader")
  /\ port = "open" /\ ~virtual => doing["reader"] # "none"

DispatcherPlace ==
  /\ doing["dispatcher"] \in {"loop", "act", "stuck", "change", "opening", "closing", "settled",
                              "flag", "wait", "woken", "clear", "unset"}
  /\ doing["dispatcher"] # "loop" => "dispatcher" \in alive
  /\ doing["dispatcher"] \in {"act", "change", "clear", "unset"} => ~Old("dispatcher")
  /\ doing["dispatcher"] \in {"opening", "closing"} => port = "moving"
  /\ parked["dispatcher"] = (doing["dispatcher"] \in {"wait", "woken", "clear"})

WriterPlace ==
  /\ doing["writer"] \in {"none", "loop", "work", "write", "stuck", "wait", "woken", "late"}
  /\ doing["writer"] # "none" => "writer" \in alive
  /\ doing["writer"] = "work" => ~Old("writer")
  /\ parked["writer"] = (doing["writer"] \in {"wait", "woken"})

\* What the poll remembers of the places it saw: no stamp grows old while it looks.
ReaderSeen ==
  check = "reader" /\ seen.port = "open" /\ ~virtual /\ Old("reader")
    => truth \cap {"stuck", "blocked", "loop", "begin"} # {}

DispatcherSeen ==
  /\ /\ check \in {"reader", "dispatcher"} /\ seen.port # "moving"
     /\ doing["dispatcher"] \in {"opening", "closing"}
     => ~Old("dispatcher")
  /\ check = "beat" /\ ~seen.excused /\ Old("dispatcher")
       => truth \cap {"stuck", "loop", "flag", "settled"} # {}
  /\ check = "since" /\ seen.flag => truth \cap {"wait", "woken", "clear"} # {}

WriterSeen ==
  /\ check = "flag" =>
       \E p \in Health!Places : truth = {p} /\ (p = "work" => ~(seen.age > Timeout))
  /\ check = "stamp" =>
       \E p \in Health!Places : truth = {p} /\ (p \in {"wait", "woken"} => seen.flag)

HealthPlaces == ReaderPlace /\ DispatcherPlace /\ WriterPlace
HealthSeen == ReaderSeen /\ DispatcherSeen /\ WriterSeen
HealthInv == Health!TypeOK /\ HealthPlaces /\ HealthSeen

-----------------------------------------------------------------------------
(* Types                                                                   *)

LEMMA HealthNumbers == Timeout \in Nat /\ LongPark \in Nat
BY PartsAssumption

LEMMA WatchedAre == Health!Watched = {"reader", "dispatcher", "writer"}
BY DEF Health!Watched

LEMMA PlaceNames ==
  Health!Places = {"none", "wait", "stuck", "blocked", "write", "opening", "closing", "driver",
                   "act", "work", "loop", "flag", "woken", "clear", "unset", "begin", "settled",
                   "change", "late"}
BY DEF Health!Places, Health!Long, Health!Turn, Health!Instant

Ages == -1 .. Timeout + 1

\* The types of what the threads write, and of what the poll writes.
ThreadTypes ==
  /\ alive \in Groups
  /\ age \in [Health!Watched -> Ages]
  /\ doing \in [Health!Watched -> Health!Places]
  /\ port \in {"closed", "moving", "open"} /\ virtual \in BOOLEAN
  /\ parked \in [{"dispatcher", "writer"} -> BOOLEAN] /\ since \in -1 .. LongPark + 1
  /\ running \in BOOLEAN

Views == [port : {"closed", "moving", "open"}, excused : BOOLEAN, flag : BOOLEAN, age : Ages]

ObserverTypes ==
  /\ check \in {"idle", "reader", "dispatcher", "beat", "park", "since", "writer", "stamp", "flag"}
  /\ seen \in Views
  /\ faulted \in [Health!Watched -> BOOLEAN] /\ reported \in BOOLEAN
  /\ truth \subseteq Health!Places

LEMMA HealthTypesAre ==
  /\ Health!TypeOK <=> ThreadTypes /\ ObserverTypes
  /\ Health!TypeOK' <=> ThreadTypes' /\ ObserverTypes'
<1>1. Health!TypeOK <=> ThreadTypes /\ ObserverTypes
  BY Zenon DEF Health!TypeOK, ThreadTypes, ObserverTypes, Views, Ages, Health!None
<1>2. Health!TypeOK' <=> ThreadTypes' /\ ObserverTypes'
  BY Zenon DEF Health!TypeOK, ThreadTypes, ObserverTypes, Views, Ages, Health!None
<1> QED BY <1>1, <1>2

\* A thread goes from one place to another, the others stay.
LEMMA MoveIs ==
  ASSUME ThreadTypes, NEW t \in Health!Watched, NEW from, NEW to \in Health!Places,
         Health!Goes(t, from, to)
  PROVE  /\ t \in alive /\ doing[t] = from /\ doing'[t] = to
         /\ \A u \in Health!Watched \ {t} : doing'[u] = doing[u]
         /\ doing' \in [Health!Watched -> Health!Places]
BY DEF ThreadTypes, Health!Goes

\* A beat makes one stamp new.
LEMMA BeatIs ==
  ASSUME ThreadTypes, NEW t \in Health!Watched, Health!Beats(t)
  PROVE  /\ age'[t] = 0
         /\ \A u \in Health!Watched \ {t} : age'[u] = age[u]
         /\ age' \in [Health!Watched -> Ages]
BY HealthNumbers DEF ThreadTypes, Health!Beats, Ages

\* A thread whose place, stamp and flags stay where they are stays right.
LEMMA ReaderPlaceKept ==
  ASSUME ReaderPlace, doing'["reader"] = doing["reader"], age'["reader"] = age["reader"],
         UNCHANGED <<alive, virtual>>, port' = port \/ port' # "open"
  PROVE  ReaderPlace'
BY DEF ReaderPlace, Old

LEMMA DispatcherPlaceKept ==
  ASSUME DispatcherPlace, doing'["dispatcher"] = doing["dispatcher"],
         age'["dispatcher"] = age["dispatcher"], parked'["dispatcher"] = parked["dispatcher"],
         UNCHANGED alive, port' = port \/ port' = "moving"
  PROVE  DispatcherPlace'
BY DEF DispatcherPlace, Old

LEMMA WriterPlaceKept ==
  ASSUME WriterPlace, doing'["writer"] = doing["writer"], age'["writer"] = age["writer"],
         parked'["writer"] = parked["writer"], UNCHANGED alive
  PROVE  WriterPlace'
BY DEF WriterPlace, Old

\* What the poll has seen stays true while threads run: stamps do not grow older.
LEMMA SeenKept ==
  ASSUME HealthSeen, UNCHANGED Health!observer,
         check = "idle" \/ /\ age'["reader"] > Timeout /\ ~virtual' =>
                                age["reader"] > Timeout /\ ~virtual
                           /\ age'["dispatcher"] > Timeout => age["dispatcher"] > Timeout
                           /\ /\ doing'["dispatcher"] \in {"opening", "closing"}
                              /\ age'["dispatcher"] > Timeout
                              => doing["dispatcher"] \in {"opening", "closing"}
  PROVE  HealthSeen'
<1>1. UNCHANGED <<alive, check, seen, faulted, reported, truth>>
  BY DEF Health!observer
<1>2. ReaderSeen'
  BY <1>1 DEF HealthSeen, ReaderSeen, Old
<1>3. DispatcherSeen'
  BY <1>1 DEF HealthSeen, DispatcherSeen, Old
<1>4. WriterSeen'
  BY <1>1 DEF HealthSeen, WriterSeen
<1> QED BY <1>2, <1>3, <1>4 DEF HealthSeen

\* How the steps of threads end: the types, the places and what was seen.
LEMMA ThreadsEnd ==
  ASSUME HealthInv, UNCHANGED Health!observer, ThreadTypes', HealthPlaces', HealthSeen'
  PROVE  HealthInv'
<1>1. ObserverTypes
  BY HealthTypesAre DEF HealthInv
<1>2. ObserverTypes'
  BY <1>1 DEF Health!observer, ObserverTypes
<1> QED BY <1>2, HealthTypesAre DEF HealthInv

-----------------------------------------------------------------------------
(* The threads                                                             *)

\* Names the steps use.
LEMMA NamesAre ==
  /\ "reader" \in Health!Watched /\ "dispatcher" \in Health!Watched /\ "writer" \in Health!Watched
  /\ \A t \in {"driver", "loop", "stuck", "blocked", "none", "act", "change", "opening", "closing",
               "settled", "flag", "wait", "woken", "clear", "unset", "begin", "work", "write",
               "late"} : t \in Health!Places
BY WatchedAre, PlaceNames

LEMMA HealthParts ==
  ASSUME HealthInv
  PROVE  /\ ThreadTypes /\ ObserverTypes /\ ReaderPlace /\ DispatcherPlace /\ WriterPlace
         /\ HealthSeen /\ HealthPlaces
BY HealthTypesAre DEF HealthInv, HealthPlaces

\* The clock ticks only between two polls, and for no thread that is in a short place
\* with a stamp as old as Timeout.
LEMMA ClockStep ==
  ASSUME HealthInv, Health!Tick
  PROVE  HealthInv'
<1>1. /\ ThreadTypes /\ ReaderPlace /\ DispatcherPlace /\ WriterPlace /\ HealthSeen
      /\ "reader" \in Health!Watched /\ "dispatcher" \in Health!Watched /\ "writer" \in Health!Watched
  BY HealthParts, NamesAre
<1>2. /\ check = "idle" /\ UNCHANGED <<doing, port, virtual, parked, running>>
      /\ UNCHANGED Health!observer /\ UNCHANGED alive
  BY DEF Health!Tick, Health!observer
<1>3. /\ age' = [t \in Health!Watched |-> Health!Older(age[t], Timeout)]
      /\ since' = Health!Older(since, LongPark)
      /\ \A t \in Health!Watched :
           t \notin alive \/ doing[t] \in Health!Long
             \/ (doing[t] \in Health!Turn /\ age[t] # Health!None /\ age[t] < Timeout)
  BY DEF Health!Tick
<1>4. ASSUME NEW t \in Health!Watched
      PROVE  /\ age'[t] \in Ages
             /\ t \in alive /\ doing[t] \notin Health!Long => ~(age'[t] > Timeout)
  <2>1. age[t] \in Ages /\ age'[t] = Health!Older(age[t], Timeout)
    BY <1>1, <1>3 DEF ThreadTypes
  <2> QED BY <1>3, <2>1, HealthNumbers DEF Health!Older, Health!None, Ages
<1>5. since' \in -1 .. LongPark + 1
  BY <1>1, <1>3, HealthNumbers DEF ThreadTypes, Health!Older, Health!None
<1>6. ThreadTypes'
  BY <1>1, <1>2, <1>3, <1>4, <1>5 DEF ThreadTypes
<1>7. ReaderPlace'
  BY <1>1, <1>2, <1>4 DEF ReaderPlace, Old, Health!Long
<1>8. DispatcherPlace'
  <2>1. doing["dispatcher"] \in {"act", "change", "clear", "unset"}
          => doing["dispatcher"] \notin Health!Long /\ "dispatcher" \in alive
    BY <1>1 DEF DispatcherPlace, Health!Long
  <2> QED BY <1>1, <1>2, <1>4, <2>1 DEF DispatcherPlace, Old
<1>9. WriterPlace'
  <2>1. doing["writer"] = "work" => doing["writer"] \notin Health!Long /\ "writer" \in alive
    BY <1>1 DEF WriterPlace, Health!Long
  <2> QED BY <1>1, <1>2, <1>4, <2>1 DEF WriterPlace, Old
<1>10. HealthSeen'
  BY <1>1, <1>2, SeenKept
<1> QED BY <1>2, <1>6, <1>7, <1>8, <1>9, <1>10, ThreadsEnd DEF HealthPlaces

\* The read thread beats as it enters the driver, and goes on from wherever it was held.
LEMMA ReaderSteps ==
  ASSUME HealthInv, Health!Reader
  PROVE  HealthInv'
<1>1. /\ ThreadTypes /\ ReaderPlace /\ DispatcherPlace /\ WriterPlace /\ HealthSeen
      /\ "reader" \in Health!Watched /\ "dispatcher" \in Health!Watched /\ "writer" \in Health!Watched
      /\ "dispatcher" # "reader" /\ "writer" # "reader"
  BY HealthParts, NamesAre
<1>2. /\ UNCHANGED <<virtual, parked, since, running>> /\ UNCHANGED Health!observer
      /\ UNCHANGED alive
  BY DEF Health!Reader, Health!ReaderTurns, Health!ReaderReads, Health!ReaderFaults, Health!observer
<1>t. ASSUME doing' \in [Health!Watched -> Health!Places], age' \in [Health!Watched -> Ages],
             port' = port \/ port' = "moving", ReaderPlace',
             \A u \in Health!Watched \ {"reader"} : doing'[u] = doing[u] /\ age'[u] = age[u],
             age'["reader"] > Timeout => age["reader"] > Timeout
      PROVE  HealthInv'
  <2>1. ThreadTypes'
    BY <1>1, <1>2, <1>t DEF ThreadTypes
  <2>2. /\ doing'["dispatcher"] = doing["dispatcher"] /\ age'["dispatcher"] = age["dispatcher"]
        /\ doing'["writer"] = doing["writer"] /\ age'["writer"] = age["writer"]
        /\ parked'["writer"] = parked["writer"] /\ parked'["dispatcher"] = parked["dispatcher"]
    BY <1>1, <1>2, <1>t
  <2>3. DispatcherPlace' /\ WriterPlace'
    BY <1>1, <1>2, <1>t, <2>2, DispatcherPlaceKept, WriterPlaceKept
  <2>4. HealthSeen'
    BY <1>1, <1>2, <1>t, <2>2, SeenKept
  <2> QED BY <1>2, <1>t, <2>1, <2>3, <2>4, ThreadsEnd DEF HealthPlaces
<1>3. CASE Health!ReaderTurns
  <2>1. PICK from \in {"begin", "loop"} :
          Health!Goes("reader", from, "driver") /\ Health!Beats("reader") /\ port' = port
    BY <1>3 DEF Health!ReaderTurns
  <2>2. /\ "reader" \in alive /\ doing'["reader"] = "driver" /\ age'["reader"] = 0
        /\ doing' \in [Health!Watched -> Health!Places] /\ age' \in [Health!Watched -> Ages]
        /\ \A u \in Health!Watched \ {"reader"} : doing'[u] = doing[u] /\ age'[u] = age[u]
    BY <1>1, <2>1, MoveIs, BeatIs, NamesAre
  <2>3. ReaderPlace' /\ (age'["reader"] > Timeout => age["reader"] > Timeout)
    BY <1>2, <2>2, HealthNumbers DEF ReaderPlace, Old
  <2> QED BY <1>t, <2>1, <2>2, <2>3
<1>4. CASE Health!ReaderReads
  <2>1. PICK from \in {"driver", "stuck", "blocked"}, to \in {"loop", "stuck", "blocked"} :
          Health!Goes("reader", from, to) /\ UNCHANGED <<age, port>>
    BY <1>4 DEF Health!ReaderReads
  <2>2. /\ doing'["reader"] = to
        /\ doing' \in [Health!Watched -> Health!Places] /\ age' \in [Health!Watched -> Ages]
        /\ \A u \in Health!Watched \ {"reader"} : doing'[u] = doing[u] /\ age'[u] = age[u]
    <3>1. to \in Health!Places
      BY NamesAre
    <3> QED BY <1>1, <2>1, <3>1, MoveIs DEF ThreadTypes
  <2>3. ReaderPlace' /\ (age'["reader"] > Timeout => age["reader"] > Timeout)
    BY <1>2, <2>1, <2>2 DEF ReaderPlace
  <2> QED BY <1>t, <2>1, <2>2, <2>3
<1>5. CASE Health!ReaderFaults
  <2>1. /\ Health!Goes("reader", "driver", "none") /\ port = "open" /\ port' = "moving"
        /\ UNCHANGED age
    BY <1>5 DEF Health!ReaderFaults
  <2>2. /\ doing'["reader"] = "none"
        /\ doing' \in [Health!Watched -> Health!Places] /\ age' \in [Health!Watched -> Ages]
        /\ \A u \in Health!Watched \ {"reader"} : doing'[u] = doing[u] /\ age'[u] = age[u]
    BY <1>1, <2>1, MoveIs, NamesAre DEF ThreadTypes
  <2>3. ReaderPlace' /\ (age'["reader"] > Timeout => age["reader"] > Timeout)
    BY <2>1, <2>2 DEF ReaderPlace
  <2> QED BY <1>t, <2>1, <2>2, <2>3
<1> QED BY <1>3, <1>4, <1>5 DEF Health!Reader

\* The writer beats on its way into work, and its flag is up while it waits.
LEMMA WriterSteps ==
  ASSUME HealthInv, Health!Writer
  PROVE  HealthInv'
<1>1. /\ ThreadTypes /\ ReaderPlace /\ DispatcherPlace /\ WriterPlace /\ HealthSeen
      /\ "reader" \in Health!Watched /\ "dispatcher" \in Health!Watched /\ "writer" \in Health!Watched
      /\ "dispatcher" # "writer" /\ "writer" # "reader"
  BY HealthParts, NamesAre
<1>2. /\ UNCHANGED <<port, virtual, since>> /\ UNCHANGED Health!observer
      /\ UNCHANGED alive /\ running' \in BOOLEAN
  BY <1>1 DEF Health!Writer, Health!WriterStarts, Health!WriterTurns, Health!WriterWorks,
         Health!WriterWaits, Health!observer, ThreadTypes
<1>t. ASSUME doing' \in [Health!Watched -> Health!Places], age' \in [Health!Watched -> Ages],
             WriterPlace', parked' \in [{"dispatcher", "writer"} -> BOOLEAN],
             parked'["dispatcher"] = parked["dispatcher"],
             \A u \in Health!Watched \ {"writer"} : doing'[u] = doing[u] /\ age'[u] = age[u]
      PROVE  HealthInv'
  <2>1. ThreadTypes'
    BY <1>1, <1>2, <1>t DEF ThreadTypes
  <2>2. /\ doing'["dispatcher"] = doing["dispatcher"] /\ age'["dispatcher"] = age["dispatcher"]
        /\ doing'["reader"] = doing["reader"] /\ age'["reader"] = age["reader"]
    BY <1>1, <1>t
  <2>3. DispatcherPlace' /\ ReaderPlace'
    BY <1>1, <1>2, <1>t, <2>2, DispatcherPlaceKept, ReaderPlaceKept
  <2>4. HealthSeen'
    BY <1>1, <1>2, <1>t, <2>2, SeenKept
  <2> QED BY <1>2, <1>t, <2>1, <2>3, <2>4, ThreadsEnd DEF HealthPlaces
<1>m. ASSUME NEW from, NEW to \in Health!Places, Health!Goes("writer", from, to)
      PROVE  /\ "writer" \in alive /\ doing["writer"] = from /\ doing'["writer"] = to
             /\ doing' \in [Health!Watched -> Health!Places]
             /\ \A u \in Health!Watched \ {"writer"} : doing'[u] = doing[u]
  BY <1>1, <1>m, MoveIs
<1>a. ASSUME age' = age \/ Health!Beats("writer")
      PROVE  /\ age' \in [Health!Watched -> Ages]
             /\ \A u \in Health!Watched \ {"writer"} : age'[u] = age[u]
             /\ age'["writer"] > Timeout => age' = age
  <2>1. CASE age' = age
    BY <1>1, <2>1 DEF ThreadTypes
  <2>2. CASE Health!Beats("writer")
    BY <1>1, <2>2, BeatIs, HealthNumbers
  <2> QED BY <1>a, <2>1, <2>2
<1>3. CASE Health!WriterStarts
  <2>1. Health!Goes("writer", "none", "loop") /\ UNCHANGED <<age, parked>>
    BY <1>3 DEF Health!WriterStarts
  <2>2. /\ "writer" \in alive /\ doing["writer"] = "none" /\ doing'["writer"] = "loop"
        /\ doing' \in [Health!Watched -> Health!Places]
        /\ \A u \in Health!Watched \ {"writer"} : doing'[u] = doing[u] /\ age'[u] = age[u]
    BY <1>m, <2>1, NamesAre
  <2>3. WriterPlace'
    BY <1>1, <1>2, <2>1, <2>2 DEF WriterPlace
  <2> QED BY <1>1, <1>t, <1>a, <2>1, <2>2, <2>3 DEF ThreadTypes
<1>4. CASE Health!WriterTurns
  <2>1. PICK from \in {"loop", "late"} :
          Health!Goes("writer", from, "work") /\ Health!Beats("writer") /\ parked' = parked
    BY <1>4 DEF Health!WriterTurns
  <2>2. /\ "writer" \in alive /\ doing["writer"] = from /\ doing'["writer"] = "work"
        /\ doing' \in [Health!Watched -> Health!Places]
        /\ \A u \in Health!Watched \ {"writer"} : doing'[u] = doing[u] /\ age'[u] = age[u]
    BY <1>m, <1>a, <2>1, NamesAre
  <2>3. age'["writer"] = 0
    BY <1>1, <2>1, BeatIs
  <2>4. WriterPlace'
    BY <1>1, <1>2, <2>1, <2>2, <2>3, HealthNumbers DEF WriterPlace, Old
  <2> QED BY <1>1, <1>t, <1>a, <2>1, <2>2, <2>4 DEF ThreadTypes
<1>5. CASE Health!WriterWorks
  <2>1. PICK from \in {"work", "write", "stuck"}, to \in {"loop", "write", "work", "stuck"} :
          /\ Health!Goes("writer", from, to) /\ parked' = parked
          /\ age' = age \/ Health!Beats("writer")
          /\ to = "work" => Health!Beats("writer")
    BY <1>5 DEF Health!WriterWorks
  <2>2. /\ "writer" \in alive /\ doing["writer"] = from /\ doing'["writer"] = to
        /\ doing' \in [Health!Watched -> Health!Places]
        /\ \A u \in Health!Watched \ {"writer"} : doing'[u] = doing[u] /\ age'[u] = age[u]
    <3>1. to \in Health!Places
      BY NamesAre
    <3> QED BY <1>m, <1>a, <2>1, <3>1
  <2>3. to = "work" => age'["writer"] = 0
    BY <1>1, <2>1, BeatIs
  <2>4. WriterPlace'
    BY <1>1, <1>2, <2>1, <2>2, <2>3, HealthNumbers DEF WriterPlace, Old
  <2> QED BY <1>1, <1>t, <1>a, <2>1, <2>2, <2>4 DEF ThreadTypes
<1>6. CASE Health!WriterWaits
  <2>1. PICK from \in {"work", "wait", "woken"}, to \in {"wait", "woken", "late"} :
          /\ Health!Goes("writer", from, to) /\ age' = age
          /\ \/ from = "work" /\ to = "wait" /\ parked' = [parked EXCEPT !["writer"] = TRUE]
             \/ from = "wait" /\ to = "woken" /\ parked' = parked
             \/ from = "woken" /\ to = "late" /\ parked' = [parked EXCEPT !["writer"] = FALSE]
    BY <1>6 DEF Health!WriterWaits
  <2>2. /\ "writer" \in alive /\ doing["writer"] = from /\ doing'["writer"] = to
        /\ doing' \in [Health!Watched -> Health!Places]
        /\ \A u \in Health!Watched \ {"writer"} : doing'[u] = doing[u] /\ age'[u] = age[u]
    <3>1. to \in Health!Places
      BY NamesAre
    <3> QED BY <1>m, <2>1, <3>1
  <2>3. /\ parked' \in [{"dispatcher", "writer"} -> BOOLEAN]
        /\ parked'["dispatcher"] = parked["dispatcher"]
        /\ parked'["writer"] = IF from = "work" THEN TRUE ELSE IF from = "wait" THEN parked["writer"]
                              ELSE FALSE
    BY <1>1, <2>1 DEF ThreadTypes
  <2>4. WriterPlace'
    <3>1. parked["writer"] = (from \in {"wait", "woken"})
      BY <1>1, <2>2 DEF WriterPlace
    <3>2. CASE from = "work"
      <4>1. to = "wait" /\ parked'["writer"] = TRUE
        BY <2>1, <2>3, <3>2
      <4> QED BY <1>2, <2>2, <4>1 DEF WriterPlace
    <3>3. CASE from = "wait"
      <4>1. to = "woken" /\ parked'["writer"] = parked["writer"]
        BY <2>1, <2>3, <3>3
      <4>2. parked["writer"] = TRUE
        BY <3>1, <3>3
      <4> QED BY <1>2, <2>2, <4>1, <4>2 DEF WriterPlace
    <3>4. CASE from = "woken"
      <4>1. to = "late" /\ parked'["writer"] = FALSE
        BY <2>1, <2>3, <3>4
      <4>2. (doing'["writer"] \in {"wait", "woken"}) = FALSE
        BY <2>2, <4>1
      <4>3. /\ doing'["writer"] = "late" /\ alive' = alive /\ "writer" \in alive
            /\ parked'["writer"] = (doing'["writer"] \in {"wait", "woken"})
        BY Zenon, <1>2, <2>2, <4>1, <4>2
      <4> QED BY <4>3 DEF WriterPlace
    <3> QED BY <3>2, <3>3, <3>4
  <2> QED BY <1>1, <1>t, <1>a, <2>1, <2>2, <2>3, <2>4 DEF ThreadTypes
<1> QED BY <1>3, <1>4, <1>5, <1>6 DEF Health!Writer

-----------------------------------------------------------------------------
(* The Dispatcher                                                          *)

\* What a step of the Dispatcher must show.
DispatcherShows ==
  /\ doing' \in [Health!Watched -> Health!Places] /\ age' \in [Health!Watched -> Ages]
  /\ doing'["writer"] = doing["writer"] /\ age'["writer"] = age["writer"]
  /\ parked' \in [{"dispatcher", "writer"} -> BOOLEAN] /\ parked'["writer"] = parked["writer"]
  /\ port' \in {"closed", "moving", "open"} /\ virtual' \in BOOLEAN
  /\ since' \in -1 .. LongPark + 1
  /\ age'["reader"] > Timeout => age["reader"] > Timeout /\ virtual' = virtual
  /\ age'["dispatcher"] > Timeout => age["dispatcher"] > Timeout
  /\ doing'["dispatcher"] \in {"opening", "closing"} /\ age'["dispatcher"] > Timeout
       => doing["dispatcher"] \in {"opening", "closing"}

LEMMA DispatcherEnds ==
  ASSUME HealthInv, DispatcherShows, ReaderPlace', DispatcherPlace', UNCHANGED running,
         UNCHANGED Health!observer
  PROVE  HealthInv'
<1>1. ThreadTypes /\ WriterPlace /\ HealthSeen /\ UNCHANGED alive
  BY HealthParts DEF Health!observer
<1>2. ThreadTypes'
  BY <1>1 DEF ThreadTypes, DispatcherShows
<1>3. WriterPlace'
  BY <1>1, WriterPlaceKept DEF DispatcherShows
<1>4. HealthSeen'
  BY <1>1, SeenKept DEF DispatcherShows
<1> QED BY <1>2, <1>3, <1>4, ThreadsEnd DEF HealthPlaces

\* A step that leaves the reader, the port and the flags alone.
LEMMA DispatcherMoves ==
  ASSUME HealthInv, NEW from, NEW to \in Health!Places, Health!Goes("dispatcher", from, to),
         UNCHANGED <<port, virtual, running>>, UNCHANGED Health!observer,
         age' = age \/ Health!Beats("dispatcher"),
         since' \in -1 .. LongPark + 1,
         parked' \in [{"dispatcher", "writer"} -> BOOLEAN], parked'["writer"] = parked["writer"],
         to \notin {"opening", "closing"},
         to \in {"loop", "act", "stuck", "change", "flag", "wait", "woken", "clear", "unset"},
         to \in {"act", "change", "clear", "unset"} => ~(age'["dispatcher"] > Timeout),
         parked'["dispatcher"] = (to \in {"wait", "woken", "clear"})
  PROVE  HealthInv'
<1>1. /\ ThreadTypes /\ ReaderPlace /\ DispatcherPlace /\ UNCHANGED alive
      /\ "dispatcher" \in Health!Watched /\ "writer" \in Health!Watched \ {"dispatcher"}
      /\ "reader" \in Health!Watched \ {"dispatcher"}
  BY HealthParts, NamesAre DEF Health!observer
<1>2. /\ "dispatcher" \in alive /\ doing["dispatcher"] = from /\ doing'["dispatcher"] = to
      /\ \A u \in Health!Watched \ {"dispatcher"} : doing'[u] = doing[u]
      /\ doing' \in [Health!Watched -> Health!Places]
  BY <1>1, MoveIs
<1>3. /\ age' \in [Health!Watched -> Ages]
      /\ \A u \in Health!Watched \ {"dispatcher"} : age'[u] = age[u]
      /\ age'["dispatcher"] > Timeout => age["dispatcher"] > Timeout
  <2>1. CASE age' = age
    BY <1>1, <2>1 DEF ThreadTypes
  <2>2. CASE Health!Beats("dispatcher")
    BY <1>1, <2>2, BeatIs, HealthNumbers
  <2> QED BY <2>1, <2>2
<1>4. /\ doing'["reader"] = doing["reader"] /\ age'["reader"] = age["reader"]
      /\ doing'["writer"] = doing["writer"] /\ age'["writer"] = age["writer"]
  BY <1>1, <1>2, <1>3
<1>5. ReaderPlace'
  BY <1>1, <1>4, ReaderPlaceKept
<1>6. DispatcherPlace'
  BY <1>1, <1>2 DEF DispatcherPlace, Old
<1>7. port \in {"closed", "moving", "open"} /\ virtual \in BOOLEAN
  BY <1>1 DEF ThreadTypes
<1>8. DispatcherShows
  BY <1>2, <1>3, <1>4, <1>7 DEF DispatcherShows
<1> QED BY <1>5, <1>6, <1>8, DispatcherEnds

\* The flag is down outside the wait.
LEMMA FlagIsDown ==
  ASSUME DispatcherPlace, doing["dispatcher"] \notin {"wait", "woken", "clear"}
  PROVE  parked["dispatcher"] = FALSE
<1>1. parked["dispatcher"] = (doing["dispatcher"] \in {"wait", "woken", "clear"})
  BY DEF DispatcherPlace
<1>2. (doing["dispatcher"] \in {"wait", "woken", "clear"}) = FALSE
  OBVIOUS
<1> QED BY Zenon, <1>1, <1>2

LEMMA ActionSteps ==
  ASSUME HealthInv, Health!ActionBegins \/ Health!ActionEnds
  PROVE  HealthInv'
<1>1. /\ ThreadTypes /\ DispatcherPlace /\ UNCHANGED <<port, virtual, running>>
      /\ UNCHANGED Health!observer /\ UNCHANGED <<parked, since>>
      /\ "dispatcher" \in Health!Watched
  BY HealthParts, NamesAre DEF Health!ActionBegins, Health!ActionEnds
<1>2. /\ since' \in -1 .. LongPark + 1 /\ parked' \in [{"dispatcher", "writer"} -> BOOLEAN]
      /\ parked'["writer"] = parked["writer"] /\ parked'["dispatcher"] = parked["dispatcher"]
  BY <1>1 DEF ThreadTypes
<1>3. CASE Health!ActionBegins
  <2>1. PICK to \in {"act", "change"} :
          Health!Goes("dispatcher", "loop", to) /\ Health!Beats("dispatcher")
    BY <1>3 DEF Health!ActionBegins
  <2>2. to \in Health!Places /\ ~(age'["dispatcher"] > Timeout) /\ doing["dispatcher"] = "loop"
    BY <1>1, <2>1, NamesAre, BeatIs, HealthNumbers DEF Health!Goes
  <2>3. parked["dispatcher"] = FALSE
    BY <1>1, <2>2, FlagIsDown
  <2>4. parked'["dispatcher"] = (to \in {"wait", "woken", "clear"})
    BY <1>2, <2>1, <2>3
  <2> QED BY <1>1, <1>2, <2>1, <2>2, <2>4, DispatcherMoves
<1>4. CASE Health!ActionEnds
  <2>1. PICK from \in {"act", "stuck", "settled"}, to \in {"loop", "stuck"} :
          Health!Goes("dispatcher", from, to) /\ age' = age
    BY <1>4 DEF Health!ActionEnds
  <2>2. to \in Health!Places /\ doing["dispatcher"] = from
    BY <2>1, NamesAre DEF Health!Goes
  <2>3. parked["dispatcher"] = FALSE
    BY <1>1, <2>1, <2>2, FlagIsDown
  <2>4. parked'["dispatcher"] = (to \in {"wait", "woken", "clear"})
    BY <1>2, <2>1, <2>3
  <2> QED BY <1>1, <1>2, <2>1, <2>2, <2>4, DispatcherMoves
<1> QED BY <1>3, <1>4

LEMMA WaitSteps ==
  ASSUME HealthInv, Health!WaitBegins \/ Health!WaitEnds
  PROVE  HealthInv'
<1>1. /\ ThreadTypes /\ DispatcherPlace /\ UNCHANGED <<port, virtual, running>>
      /\ UNCHANGED Health!observer /\ "dispatcher" \in Health!Watched
      /\ parked \in [{"dispatcher", "writer"} -> BOOLEAN] /\ since \in -1 .. LongPark + 1
  BY HealthParts, NamesAre DEF Health!WaitBegins, Health!WaitEnds, ThreadTypes
<1>2. PICK from \in {"loop", "flag", "wait", "woken", "clear", "unset"},
           to \in {"flag", "wait", "woken", "clear", "unset", "loop"} :
        /\ Health!Goes("dispatcher", from, to)
        /\ \/ from = "loop" /\ to = "flag" /\ since' = 0 /\ UNCHANGED <<age, parked>>
           \/ /\ from = "flag" /\ to = "wait" /\ parked' = [parked EXCEPT !["dispatcher"] = TRUE]
              /\ UNCHANGED <<age, since>>
           \/ from = "wait" /\ to = "woken" /\ UNCHANGED <<age, parked, since>>
           \/ /\ from = "woken" /\ to = "clear" /\ Health!Beats("dispatcher")
              /\ UNCHANGED <<parked, since>>
           \/ /\ from = "clear" /\ to = "unset" /\ parked' = [parked EXCEPT !["dispatcher"] = FALSE]
              /\ UNCHANGED <<age, since>>
           \/ from = "unset" /\ to = "loop" /\ since' = -1 /\ UNCHANGED <<age, parked>>
  BY DEF Health!WaitBegins, Health!WaitEnds, Health!None
<1>3. /\ to \in Health!Places /\ doing["dispatcher"] = from
      /\ since' \in -1 .. LongPark + 1 /\ (age' = age \/ Health!Beats("dispatcher"))
  BY <1>1, <1>2, NamesAre, HealthNumbers DEF Health!Goes
<1>4. /\ parked' \in [{"dispatcher", "writer"} -> BOOLEAN] /\ parked'["writer"] = parked["writer"]
      /\ from = "flag" => parked'["dispatcher"] = TRUE
      /\ from = "clear" => parked'["dispatcher"] = FALSE
      /\ from \notin {"flag", "clear"} => parked'["dispatcher"] = parked["dispatcher"]
  BY <1>1, <1>2
<1>5. /\ from \in {"loop", "unset"} => parked["dispatcher"] = FALSE
      /\ from \in {"wait", "woken"} => parked["dispatcher"] = TRUE
  BY <1>1, <1>3 DEF DispatcherPlace
<1>6. parked'["dispatcher"] = (to \in {"wait", "woken", "clear"})
  <2>1. CASE from \in {"loop", "unset", "clear"}
    <3>1. parked'["dispatcher"] = FALSE /\ to \notin {"wait", "woken", "clear"}
      BY <1>2, <1>4, <1>5, <2>1
    <3>2. (to \in {"wait", "woken", "clear"}) = FALSE
      BY <3>1
    <3> QED BY Zenon, <3>1, <3>2
  <2>2. CASE from \in {"flag", "wait", "woken"}
    <3>1. parked'["dispatcher"] = TRUE /\ to \in {"wait", "woken", "clear"}
      BY <1>2, <1>4, <1>5, <2>2
    <3>2. (to \in {"wait", "woken", "clear"}) = TRUE
      BY <3>1
    <3> QED BY Zenon, <3>1, <3>2
  <2> QED BY <1>2, <2>1, <2>2
<1>7. to \in {"act", "change", "clear", "unset"} => ~(age'["dispatcher"] > Timeout)
  <2>1. CASE to = "clear"
    BY <1>1, <1>2, <2>1, BeatIs, HealthNumbers
  <2>2. CASE to = "unset"
    <3>1. doing["dispatcher"] = "clear" /\ age' = age
      BY <1>2, <1>3, <2>2
    <3> QED BY <1>1, <3>1 DEF DispatcherPlace, Old
  <2>3. CASE to \notin {"clear", "unset"}
    BY <1>2, <2>3
  <2> QED BY <2>1, <2>2, <2>3
<1>8. /\ to \notin {"opening", "closing"}
      /\ to \in {"loop", "act", "stuck", "change", "flag", "wait", "woken", "clear", "unset"}
  BY <1>2
<1>9. Health!Goes("dispatcher", from, to)
  BY <1>2
<1> QED BY <1>1, <1>3, <1>4, <1>6, <1>7, <1>8, <1>9, DispatcherMoves

\* The Dispatcher opens and closes: the port is between two states for as long as it does.
LEMMA OpenCloseSteps ==
  ASSUME HealthInv, Health!Open \/ Health!OpenEnds \/ Health!Close \/ Health!CloseEnds
  PROVE  HealthInv'
<1>1. /\ ThreadTypes /\ ReaderPlace /\ DispatcherPlace /\ UNCHANGED <<parked, since, running>>
      /\ UNCHANGED Health!observer /\ UNCHANGED alive
      /\ "dispatcher" \in Health!Watched /\ "writer" \in Health!Watched
      /\ "reader" \in Health!Watched
  BY HealthParts, NamesAre DEF Health!Open, Health!OpenEnds, Health!Close, Health!CloseEnds,
                               Health!observer
<1>2. /\ parked' \in [{"dispatcher", "writer"} -> BOOLEAN] /\ parked'["writer"] = parked["writer"]
      /\ parked'["dispatcher"] = parked["dispatcher"] /\ since' \in -1 .. LongPark + 1
      /\ doing \in [Health!Watched -> Health!Places] /\ age \in [Health!Watched -> Ages]
      /\ virtual \in BOOLEAN /\ port \in {"closed", "moving", "open"}
  BY <1>1 DEF ThreadTypes
<1>3. CASE Health!Open
  <2>1. /\ Health!Goes("dispatcher", "change", "opening") /\ port' = "moving"
        /\ virtual' \in BOOLEAN /\ Health!Beats("reader")
    BY <1>3 DEF Health!Open
  <2>2. /\ "dispatcher" \in alive /\ doing["dispatcher"] = "change"
        /\ doing'["dispatcher"] = "opening" /\ doing'["writer"] = doing["writer"]
        /\ doing'["reader"] = doing["reader"] /\ doing' \in [Health!Watched -> Health!Places]
    BY <1>1, <2>1, NamesAre, MoveIs
  <2>3. /\ age'["reader"] = 0 /\ age'["writer"] = age["writer"]
        /\ age'["dispatcher"] = age["dispatcher"] /\ age' \in [Health!Watched -> Ages]
    BY <1>1, <2>1, BeatIs
  <2>4. ~(age'["dispatcher"] > Timeout) /\ ~(age'["reader"] > Timeout)
    BY <1>1, <2>2, <2>3, HealthNumbers DEF DispatcherPlace, Old
  <2>5. ReaderPlace'
    BY <1>1, <2>1, <2>2, <2>4 DEF ReaderPlace, Old
  <2>6. parked["dispatcher"] = FALSE
    BY <1>1, <2>2, FlagIsDown
  <2>7. DispatcherPlace'
    BY <1>1, <1>2, <2>1, <2>2, <2>6 DEF DispatcherPlace
  <2>8. DispatcherShows
    BY <1>2, <2>1, <2>2, <2>3, <2>4 DEF DispatcherShows
  <2> QED BY <1>1, <2>5, <2>7, <2>8, DispatcherEnds
<1>4. CASE Health!Close
  <2>1. /\ Health!Goes("dispatcher", "change", "closing") /\ port' = "moving"
        /\ UNCHANGED <<age, virtual>>
    BY <1>4 DEF Health!Close
  <2>2. /\ "dispatcher" \in alive /\ doing["dispatcher"] = "change"
        /\ doing'["dispatcher"] = "closing" /\ doing'["writer"] = doing["writer"]
        /\ doing'["reader"] = doing["reader"] /\ doing' \in [Health!Watched -> Health!Places]
    BY <1>1, <2>1, NamesAre, MoveIs
  <2>3. ~(age'["dispatcher"] > Timeout)
    BY <1>1, <2>1, <2>2 DEF DispatcherPlace, Old
  <2>4. ReaderPlace'
    BY <1>1, <2>1, <2>2, ReaderPlaceKept
  <2>5. parked["dispatcher"] = FALSE
    BY <1>1, <2>2, FlagIsDown
  <2>6. DispatcherPlace'
    BY <1>1, <1>2, <2>1, <2>2, <2>5 DEF DispatcherPlace
  <2>7. DispatcherShows
    BY <1>2, <2>1, <2>2, <2>3 DEF DispatcherShows
  <2> QED BY <1>1, <2>4, <2>6, <2>7, DispatcherEnds
<1>5. CASE Health!OpenEnds
  <2>1. PICK ok \in BOOLEAN :
          /\ doing["dispatcher"] = "opening" /\ port' = (IF ok THEN "open" ELSE "closed")
          /\ doing' = [doing EXCEPT !["dispatcher"] = "settled",
                                    !["reader"] = IF ok /\ ~virtual THEN "begin" ELSE @]
          /\ UNCHANGED <<age, virtual>>
    BY <1>5 DEF Health!OpenEnds
  <2>2. /\ doing'["dispatcher"] = "settled" /\ doing'["writer"] = doing["writer"]
        /\ doing'["reader"] = (IF ok /\ ~virtual THEN "begin" ELSE doing["reader"])
        /\ doing' \in [Health!Watched -> Health!Places]
    BY <1>1, <1>2, <2>1, NamesAre, WatchedAre
  <2>3. ReaderPlace'
    <3>1. CASE ok /\ ~virtual
      BY <1>1, <2>1, <2>2, <3>1 DEF ReaderPlace, Old
    <3>2. CASE ~(ok /\ ~virtual)
      BY <1>1, <2>1, <2>2, <3>2 DEF ReaderPlace, Old
    <3> QED BY <3>1, <3>2
  <2>4. parked["dispatcher"] = FALSE /\ "dispatcher" \in alive
    <3>1. "dispatcher" \in alive
      BY <1>1, <2>1 DEF DispatcherPlace
    <3> QED BY <1>1, <2>1, <3>1, FlagIsDown
  <2>5. DispatcherPlace'
    BY <1>1, <1>2, <2>1, <2>2, <2>4 DEF DispatcherPlace
  <2>6. port' \in {"closed", "moving", "open"}
    BY <2>1
  <2>7. DispatcherShows
    BY <1>2, <2>1, <2>2, <2>6 DEF DispatcherShows
  <2> QED BY <1>1, <2>3, <2>5, <2>7, DispatcherEnds
<1>6. CASE Health!CloseEnds
  <2>1. /\ doing["dispatcher"] = "closing" /\ port' = "closed"
        /\ doing' = [doing EXCEPT !["dispatcher"] = "settled", !["reader"] = "none"]
        /\ UNCHANGED <<age, virtual>>
    BY <1>6 DEF Health!CloseEnds
  <2>2. /\ doing'["dispatcher"] = "settled" /\ doing'["writer"] = doing["writer"]
        /\ doing'["reader"] = "none" /\ doing' \in [Health!Watched -> Health!Places]
    BY <1>1, <1>2, <2>1, NamesAre, WatchedAre
  <2>3. ReaderPlace'
    BY <2>1, <2>2 DEF ReaderPlace
  <2>4. parked["dispatcher"] = FALSE /\ "dispatcher" \in alive
    <3>1. "dispatcher" \in alive
      BY <1>1, <2>1 DEF DispatcherPlace
    <3> QED BY <1>1, <2>1, <3>1, FlagIsDown
  <2>5. DispatcherPlace'
    BY <1>1, <1>2, <2>1, <2>2, <2>4 DEF DispatcherPlace
  <2>6. DispatcherShows
    BY <1>2, <2>1, <2>2 DEF DispatcherShows
  <2> QED BY <1>1, <2>3, <2>5, <2>6, DispatcherEnds
<1> QED BY <1>3, <1>4, <1>5, <1>6

-----------------------------------------------------------------------------
(* The poll                                                                *)

LEMMA PollEnds ==
  ASSUME HealthInv, UNCHANGED Health!threads, ObserverTypes', HealthSeen'
  PROVE  HealthInv'
<1>1. /\ ThreadTypes /\ ReaderPlace /\ DispatcherPlace /\ WriterPlace
      /\ UNCHANGED <<alive, age, doing, port, virtual, parked, since, running>>
  BY HealthParts DEF Health!threads
<1>2. ThreadTypes'
  BY <1>1 DEF ThreadTypes
<1>3. ReaderPlace' /\ DispatcherPlace' /\ WriterPlace'
  BY <1>1, ReaderPlaceKept, DispatcherPlaceKept, WriterPlaceKept
<1> QED BY <1>2, <1>3, HealthTypesAre DEF HealthInv, HealthPlaces

\* A place seen is a place.
LEMMA PlaceSeen ==
  ASSUME HealthInv, NEW t \in Health!Watched
  PROVE  /\ Health!First(t) => truth' = {doing[t]} /\ truth' \subseteq Health!Places
         /\ Health!Second(t) => truth' = truth \cup {doing[t]} /\ truth' \subseteq Health!Places
         /\ doing[t] \in Health!Places
BY HealthParts DEF Health!First, Health!Second, ThreadTypes, ObserverTypes

\* A judgement is about one thread.
LEMMA JudgeIs ==
  ASSUME HealthInv, NEW t \in Health!Watched, NEW n \in Ages, NEW excused \in BOOLEAN,
         Health!Judge(t, n, excused)
  PROVE  /\ faulted' \in [Health!Watched -> BOOLEAN]
         /\ faulted'[t] => ~excused /\ n > Timeout
         /\ \A u \in Health!Watched \ {t} : faulted'[u] = faulted[u]
<1>1. faulted \in [Health!Watched -> BOOLEAN]
  BY HealthParts DEF ObserverTypes
<1>2. faulted' = [faulted EXCEPT ![t] = n # Health!None /\ ~excused /\ n > Timeout]
  BY DEF Health!Judge
<1> DEFINE verdict == n # Health!None /\ ~excused /\ n > Timeout
<1>3. verdict \in BOOLEAN /\ (verdict => ~excused /\ n > Timeout)
  OBVIOUS
<1>4. faulted' = [faulted EXCEPT ![t] = verdict]
  BY <1>2
<1> HIDE DEF verdict
<1>5. /\ faulted' \in [Health!Watched -> BOOLEAN] /\ faulted'[t] = verdict
      /\ \A u \in Health!Watched \ {t} : faulted'[u] = faulted[u]
  BY <1>1, <1>3, <1>4
<1> QED BY <1>3, <1>5

\* What is reported of a thread is about that thread's place.
LEMMA ReportsAbout ==
  ASSUME HealthInv, Health!Check
  PROVE  /\ HealthInv'
         /\ Health!Stalls("reader") => truth' \cap {"stuck", "blocked", "loop", "begin"} # {}
         /\ Health!Stalls("dispatcher") => truth' \cap {"stuck", "loop", "flag", "settled"} # {}
         /\ Health!Stalls("writer") => ~(truth' \subseteq {"wait", "woken"}) /\ truth' # {"work"}
         /\ reported' /\ ~reported => truth' \cap {"wait", "woken", "clear"} # {}
<1>1. /\ ThreadTypes /\ ObserverTypes /\ ReaderPlace /\ DispatcherPlace /\ WriterPlace
      /\ ReaderSeen /\ DispatcherSeen /\ WriterSeen
      /\ "reader" \in Health!Watched /\ "dispatcher" \in Health!Watched /\ "writer" \in Health!Watched
  BY HealthParts, NamesAre DEF HealthSeen
<1>2. UNCHANGED Health!threads
  BY DEF Health!Check, Health!CheckBegins, Health!CheckReader, Health!CheckDispatcher,
         Health!CheckBeat, Health!CheckPark, Health!CheckSince, Health!CheckWriter,
         Health!CheckWriterEnds
<1>3. /\ UNCHANGED <<alive, age, doing, port, virtual, parked, since, running>>
      /\ port \in {"closed", "moving", "open"} /\ virtual \in BOOLEAN /\ running \in BOOLEAN
      /\ age["reader"] \in Ages /\ age["dispatcher"] \in Ages /\ age["writer"] \in Ages
      /\ parked["dispatcher"] \in BOOLEAN /\ parked["writer"] \in BOOLEAN
      /\ seen \in Views /\ faulted \in [Health!Watched -> BOOLEAN] /\ reported \in BOOLEAN
      /\ Health!Nothing \in Views
  BY <1>1, <1>2, HealthNumbers DEF Health!threads, ThreadTypes, ObserverTypes, Views, Ages,
                                   Health!Nothing, Health!None
<1>q. UNCHANGED faulted => /\ ~Health!Stalls("reader") /\ ~Health!Stalls("dispatcher")
                           /\ ~Health!Stalls("writer")
  BY DEF Health!Stalls
<1>4. CASE Health!CheckBegins
  <2>1. /\ check' = "reader" /\ Health!First("reader") /\ seen' = [seen EXCEPT !.port = port]
        /\ UNCHANGED <<faulted, reported>>
    BY <1>4 DEF Health!CheckBegins
  <2>2. truth' = {doing["reader"]} /\ truth' \subseteq Health!Places
    BY <1>1, <2>1, PlaceSeen
  <2>3. seen' \in Views /\ seen'.port = port
    BY <1>3, <2>1 DEF Views
  <2>4. ObserverTypes'
    BY <1>1, <2>1, <2>2, <2>3 DEF ObserverTypes
  <2>5. ReaderSeen'
    BY <1>1, <1>3, <2>2, <2>3 DEF ReaderSeen, ReaderPlace, Old
  <2>6. DispatcherSeen'
    BY <1>1, <1>3, <2>1, <2>3 DEF DispatcherSeen, DispatcherPlace
  <2>7. WriterSeen'
    BY <2>1 DEF WriterSeen
  <2>8. HealthInv'
    BY <1>2, <2>4, <2>5, <2>6, <2>7, PollEnds DEF HealthSeen
  <2> QED BY <1>q, <2>1, <2>8
<1>5. CASE Health!CheckReader
  <2>1. /\ check = "reader" /\ check' = "dispatcher" /\ Health!Second("reader")
        /\ Health!Judge("reader", age["reader"], ~(seen.port = "open" /\ ~virtual))
        /\ UNCHANGED <<seen, reported>>
    BY <1>5 DEF Health!CheckReader
  <2>2. truth' = truth \cup {doing["reader"]} /\ truth' \subseteq Health!Places
    BY <1>1, <2>1, PlaceSeen
  <2>3. /\ faulted' \in [Health!Watched -> BOOLEAN]
        /\ faulted'["reader"] => seen.port = "open" /\ ~virtual /\ age["reader"] > Timeout
        /\ \A u \in Health!Watched \ {"reader"} : faulted'[u] = faulted[u]
    <3> DEFINE excuse == ~(seen.port = "open" /\ ~virtual)
    <3>1. excuse \in BOOLEAN /\ (~excuse => seen.port = "open" /\ ~virtual)
          /\ Health!Judge("reader", age["reader"], excuse)
      BY <2>1
    <3> HIDE DEF excuse
    <3> QED BY <1>1, <1>3, <3>1, JudgeIs
  <2>4. ObserverTypes'
    BY <1>1, <2>1, <2>2, <2>3 DEF ObserverTypes
  <2>5. ReaderSeen' /\ WriterSeen'
    BY <2>1 DEF ReaderSeen, WriterSeen
  <2>6. DispatcherSeen'
    BY <1>1, <1>3, <2>1 DEF DispatcherSeen, Old
  <2>7. HealthInv'
    BY <1>2, <2>4, <2>5, <2>6, PollEnds DEF HealthSeen
  <2>8. Health!Stalls("reader") => truth' \cap {"stuck", "blocked", "loop", "begin"} # {}
    BY <1>1, <2>1, <2>2, <2>3 DEF Health!Stalls, ReaderSeen, Old
  <2>9. ~Health!Stalls("dispatcher") /\ ~Health!Stalls("writer")
    BY <1>1, <2>3 DEF Health!Stalls
  <2> QED BY <2>1, <2>7, <2>8, <2>9
<1>6. CASE Health!CheckDispatcher
  <2>1. /\ check = "dispatcher" /\ check' = "beat" /\ Health!First("dispatcher")
        /\ seen' = [seen EXCEPT !.excused = seen.port = "moving" \/ parked["dispatcher"]]
        /\ UNCHANGED <<faulted, reported>>
    BY <1>6 DEF Health!CheckDispatcher
  <2>2. truth' = {doing["dispatcher"]} /\ truth' \subseteq Health!Places
    BY <1>1, <2>1, PlaceSeen
  <2>3. seen' \in Views /\ (~seen'.excused => seen.port # "moving" /\ ~parked["dispatcher"])
    <3> DEFINE excuse == seen.port = "moving" \/ parked["dispatcher"]
    <3>1. excuse \in BOOLEAN /\ (~excuse => seen.port # "moving" /\ ~parked["dispatcher"])
      OBVIOUS
    <3>2. seen' = [seen EXCEPT !.excused = excuse]
      BY <2>1
    <3> HIDE DEF excuse
    <3>3. seen' \in Views /\ seen'.excused = excuse
      BY <1>3, <3>1, <3>2 DEF Views
    <3> QED BY <3>1, <3>3
  <2>4. ObserverTypes'
    BY <1>1, <2>1, <2>2, <2>3 DEF ObserverTypes
  <2>5. ReaderSeen' /\ WriterSeen'
    BY <2>1 DEF ReaderSeen, WriterSeen
  <2>6. ASSUME ~seen'.excused, age["dispatcher"] > Timeout
        PROVE  doing["dispatcher"] \in {"stuck", "loop", "flag", "settled"}
    <3>1. ~parked["dispatcher"] /\ seen.port # "moving"
      BY <2>3, <2>6
    <3>2. doing["dispatcher"] \notin {"opening", "closing"}
      BY <1>1, <2>1, <2>6, <3>1 DEF DispatcherSeen, Old
    <3>3. doing["dispatcher"] \notin {"wait", "woken", "clear"}
      BY <1>1, <3>1 DEF DispatcherPlace
    <3> QED BY <1>1, <2>6, <3>2, <3>3 DEF DispatcherPlace, Old
  <2>7. DispatcherSeen'
    BY <1>3, <2>1, <2>2, <2>6 DEF DispatcherSeen, Old
  <2>8. HealthInv'
    BY <1>2, <2>4, <2>5, <2>7, PollEnds DEF HealthSeen
  <2> QED BY <1>q, <2>1, <2>8
<1>7. CASE Health!CheckBeat
  <2>1. /\ check = "beat" /\ check' = "park" /\ Health!Second("dispatcher")
        /\ Health!Judge("dispatcher", age["dispatcher"], seen.excused)
        /\ seen' = Health!Nothing /\ UNCHANGED reported
    BY <1>7 DEF Health!CheckBeat
  <2>2. truth' = truth \cup {doing["dispatcher"]} /\ truth' \subseteq Health!Places
    BY <1>1, <2>1, PlaceSeen
  <2>3. /\ faulted' \in [Health!Watched -> BOOLEAN]
        /\ faulted'["dispatcher"] => ~seen.excused /\ age["dispatcher"] > Timeout
        /\ \A u \in Health!Watched \ {"dispatcher"} : faulted'[u] = faulted[u]
    <3>1. seen.excused \in BOOLEAN
      BY <1>3 DEF Views
    <3> QED BY <1>1, <1>3, <2>1, <3>1, JudgeIs
  <2>4. ObserverTypes'
    BY <1>1, <1>3, <2>1, <2>2, <2>3 DEF ObserverTypes
  <2>5. ReaderSeen' /\ DispatcherSeen' /\ WriterSeen'
    BY <2>1 DEF ReaderSeen, DispatcherSeen, WriterSeen
  <2>6. HealthInv'
    BY <1>2, <2>4, <2>5, PollEnds DEF HealthSeen
  <2>7. Health!Stalls("dispatcher") => truth' \cap {"stuck", "loop", "flag", "settled"} # {}
    BY <1>1, <2>1, <2>2, <2>3 DEF Health!Stalls, DispatcherSeen, Old
  <2>8. ~Health!Stalls("reader") /\ ~Health!Stalls("writer")
    BY <1>1, <2>3 DEF Health!Stalls
  <2> QED BY <2>1, <2>6, <2>7, <2>8
<1>8. CASE Health!CheckPark
  <2>1. /\ check' = "since" /\ Health!First("dispatcher")
        /\ seen' = [seen EXCEPT !.flag = parked["dispatcher"]] /\ UNCHANGED <<faulted, reported>>
    BY <1>8 DEF Health!CheckPark
  <2>2. truth' = {doing["dispatcher"]} /\ truth' \subseteq Health!Places
    BY <1>1, <2>1, PlaceSeen
  <2>3. seen' \in Views /\ seen'.flag = parked["dispatcher"]
    BY <1>3, <2>1 DEF Views
  <2>4. ObserverTypes'
    BY <1>1, <2>1, <2>2, <2>3 DEF ObserverTypes
  <2>5. ReaderSeen' /\ WriterSeen'
    BY <2>1 DEF ReaderSeen, WriterSeen
  <2>6. parked["dispatcher"] => doing["dispatcher"] \in {"wait", "woken", "clear"}
    BY <1>1 DEF DispatcherPlace
  <2>7. DispatcherSeen'
    BY <2>1, <2>2, <2>3, <2>6 DEF DispatcherSeen
  <2>8. HealthInv'
    BY <1>2, <2>4, <2>5, <2>7, PollEnds DEF HealthSeen
  <2> QED BY <1>q, <2>1, <2>8
<1>9. CASE Health!CheckSince
  <2>1. /\ check = "since" /\ check' = "writer" /\ Health!Second("dispatcher")
        /\ seen' = Health!Nothing /\ UNCHANGED faulted
        /\ reported' = (seen.flag /\ Health!LongParked)
    BY <1>9 DEF Health!CheckSince
  <2>2. truth' = truth \cup {doing["dispatcher"]} /\ truth' \subseteq Health!Places
    BY <1>1, <2>1, PlaceSeen
  <2>3. reported' \in BOOLEAN /\ (reported' => seen.flag)
    BY <2>1
  <2>4. ObserverTypes'
    BY <1>1, <1>3, <2>1, <2>2, <2>3 DEF ObserverTypes
  <2>5. ReaderSeen' /\ DispatcherSeen' /\ WriterSeen'
    BY <2>1 DEF ReaderSeen, DispatcherSeen, WriterSeen
  <2>6. HealthInv'
    BY <1>2, <2>4, <2>5, PollEnds DEF HealthSeen
  <2>7. reported' => truth' \cap {"wait", "woken", "clear"} # {}
    BY <1>1, <2>1, <2>2, <2>3 DEF DispatcherSeen
  <2> QED BY <1>q, <2>1, <2>6, <2>7
<1>10. CASE Health!CheckWriter
  <2>1. /\ check' \in {"stamp", "flag"} /\ Health!First("writer")
        /\ check' = "flag" => seen' = [seen EXCEPT !.age = age["writer"]]
        /\ check' = "stamp" => seen' = [seen EXCEPT !.flag = parked["writer"]]
        /\ UNCHANGED <<faulted, reported>>
    BY <1>10 DEF Health!CheckWriter
  <2>2. /\ truth' = {doing["writer"]} /\ truth' \subseteq Health!Places
        /\ doing["writer"] \in Health!Places
    BY <1>1, <2>1, PlaceSeen
  <2>3. /\ seen' \in Views
        /\ check' = "flag" => seen'.age = age["writer"]
        /\ check' = "stamp" => seen'.flag = parked["writer"]
    BY <1>3, <2>1 DEF Views
  <2>4. ObserverTypes'
    BY <1>1, <2>1, <2>2, <2>3 DEF ObserverTypes
  <2>5. ReaderSeen' /\ DispatcherSeen'
    BY <2>1 DEF ReaderSeen, DispatcherSeen
  <2>6. /\ doing["writer"] = "work" => ~(age["writer"] > Timeout)
        /\ doing["writer"] \in {"wait", "woken"} => parked["writer"]
    BY <1>1 DEF WriterPlace, Old
  <2>7. WriterSeen'
    BY <2>2, <2>3, <2>6 DEF WriterSeen
  <2>8. HealthInv'
    BY <1>2, <2>4, <2>5, <2>7, PollEnds DEF HealthSeen
  <2> QED BY <1>q, <2>1, <2>8
<1>11. CASE Health!CheckWriterEnds
  <2>1. /\ check' = "idle" /\ Health!Second("writer") /\ seen' = Health!Nothing
        /\ UNCHANGED reported
        /\ \/ check = "flag" /\ Health!Judge("writer", seen.age, ~running \/ parked["writer"])
           \/ check = "stamp" /\ Health!Judge("writer", age["writer"], ~running \/ seen.flag)
    BY <1>11 DEF Health!CheckWriterEnds
  <2>2. truth' = truth \cup {doing["writer"]} /\ truth' \subseteq Health!Places
    BY <1>1, <2>1, PlaceSeen
  <2>3. /\ doing["writer"] = "work" => ~(age["writer"] > Timeout)
        /\ doing["writer"] \in {"wait", "woken"} => parked["writer"]
    BY <1>1 DEF WriterPlace, Old
  <2>4. /\ faulted' \in [Health!Watched -> BOOLEAN]
        /\ faulted'["writer"] => ~(truth' \subseteq {"wait", "woken"}) /\ truth' # {"work"}
        /\ \A u \in Health!Watched \ {"writer"} : faulted'[u] = faulted[u]
    <3>1. CASE check = "flag" /\ Health!Judge("writer", seen.age, ~running \/ parked["writer"])
      <4> DEFINE excuse == ~running \/ parked["writer"]
      <4>1. /\ excuse \in BOOLEAN /\ (parked["writer"] => excuse) /\ seen.age \in Ages
            /\ Health!Judge("writer", seen.age, excuse)
        BY <1>3, <3>1 DEF Views
      <4> HIDE DEF excuse
      <4>2. /\ faulted' \in [Health!Watched -> BOOLEAN]
            /\ faulted'["writer"] => ~excuse /\ seen.age > Timeout
            /\ \A u \in Health!Watched \ {"writer"} : faulted'[u] = faulted[u]
        BY <1>1, <4>1, JudgeIs
      <4>3. PICK p \in Health!Places : truth = {p} /\ (p = "work" => ~(seen.age > Timeout))
        BY <1>1, <3>1 DEF WriterSeen
      <4>4. ASSUME faulted'["writer"]
            PROVE  ~(truth' \subseteq {"wait", "woken"}) /\ truth' # {"work"}
        BY <2>2, <2>3, <4>1, <4>2, <4>3, <4>4
      <4> QED BY <4>2, <4>4
    <3>2. CASE check = "stamp" /\ Health!Judge("writer", age["writer"], ~running \/ seen.flag)
      <4> DEFINE excuse == ~running \/ seen.flag
      <4>1. /\ excuse \in BOOLEAN /\ (seen.flag => excuse)
            /\ Health!Judge("writer", age["writer"], excuse)
        BY <1>3, <3>2 DEF Views
      <4> HIDE DEF excuse
      <4>2. /\ faulted' \in [Health!Watched -> BOOLEAN]
            /\ faulted'["writer"] => ~excuse /\ age["writer"] > Timeout
            /\ \A u \in Health!Watched \ {"writer"} : faulted'[u] = faulted[u]
        BY <1>1, <1>3, <4>1, JudgeIs
      <4>3. PICK p \in Health!Places : truth = {p} /\ (p \in {"wait", "woken"} => seen.flag)
        BY <1>1, <3>2 DEF WriterSeen
      <4>4. ASSUME faulted'["writer"]
            PROVE  ~(truth' \subseteq {"wait", "woken"}) /\ truth' # {"work"}
        BY <2>2, <2>3, <4>1, <4>2, <4>3, <4>4
      <4> QED BY <4>2, <4>4
    <3> QED BY <2>1, <3>1, <3>2
  <2>5. ObserverTypes'
    BY <1>1, <1>3, <2>1, <2>2, <2>4 DEF ObserverTypes
  <2>6. ReaderSeen' /\ DispatcherSeen' /\ WriterSeen'
    BY <2>1 DEF ReaderSeen, DispatcherSeen, WriterSeen
  <2>7. HealthInv'
    BY <1>2, <2>5, <2>6, PollEnds DEF HealthSeen
  <2>8. ~Health!Stalls("reader") /\ ~Health!Stalls("dispatcher")
    BY <1>1, <2>4 DEF Health!Stalls
  <2>9. Health!Stalls("writer") => ~(truth' \subseteq {"wait", "woken"}) /\ truth' # {"work"}
    BY <2>4 DEF Health!Stalls
  <2> QED BY <2>1, <2>7, <2>8, <2>9
<1> QED BY <1>4, <1>5, <1>6, <1>7, <1>8, <1>9, <1>10, <1>11 DEF Health!Check

-----------------------------------------------------------------------------
(* The observer                                                            *)

LEMMA HealthInit == Health!Init => HealthInv
<1> SUFFICES ASSUME Health!Init PROVE HealthInv
  OBVIOUS
<1>1. ThreadTypes
  <2>1. age \in [Health!Watched -> Ages] /\ since \in -1 .. LongPark + 1
    BY HealthNumbers DEF Health!Init, Ages, Health!None
  <2>2. doing \in [Health!Watched -> Health!Places]
    BY NamesAre DEF Health!Init
  <2>3. parked \in [{"dispatcher", "writer"} -> BOOLEAN]
    BY DEF Health!Init
  <2> QED BY <2>1, <2>2, <2>3 DEF Health!Init, ThreadTypes
<1>2. ObserverTypes
  <2>1. Health!Nothing \in Views
    BY HealthNumbers DEF Health!Nothing, Views, Ages, Health!None
  <2> QED BY <2>1 DEF Health!Init, ObserverTypes
<1>3. /\ doing["reader"] = "none" /\ doing["dispatcher"] = "loop" /\ doing["writer"] = "none"
      /\ parked["dispatcher"] = FALSE /\ parked["writer"] = FALSE /\ port = "closed"
  BY WatchedAre DEF Health!Init
<1>4. ReaderPlace /\ DispatcherPlace /\ WriterPlace
  <2>1. ReaderPlace
    BY <1>3 DEF ReaderPlace
  <2>2. /\ parked["dispatcher"] = (doing["dispatcher"] \in {"wait", "woken", "clear"})
        /\ parked["writer"] = (doing["writer"] \in {"wait", "woken"})
    <3>1. /\ (doing["dispatcher"] \in {"wait", "woken", "clear"}) = FALSE
          /\ (doing["writer"] \in {"wait", "woken"}) = FALSE
      BY <1>3
    <3> QED BY Zenon, <1>3, <3>1
  <2>3. DispatcherPlace
    BY <1>3, <2>2 DEF DispatcherPlace
  <2>4. WriterPlace
    BY <1>3, <2>2 DEF WriterPlace
  <2> QED BY <2>1, <2>3, <2>4
<1>5. check = "idle"
  BY DEF Health!Init
<1>6. ReaderSeen /\ DispatcherSeen /\ WriterSeen
  BY <1>5 DEF ReaderSeen, DispatcherSeen, WriterSeen
<1> QED BY <1>1, <1>2, <1>4, <1>6, HealthTypesAre DEF HealthInv, HealthPlaces, HealthSeen

LEMMA HealthStep == HealthInv /\ [Health!Next]_(Health!vars) => HealthInv'
<1> SUFFICES ASSUME HealthInv, [Health!Next]_(Health!vars) PROVE HealthInv'
  OBVIOUS
<1>1. CASE UNCHANGED Health!vars
  <2>1. UNCHANGED Health!observer /\ UNCHANGED Health!threads
    BY <1>1 DEF Health!vars, Health!observer, Health!threads
  <2>2. ObserverTypes /\ HealthSeen
    BY HealthParts
  <2>3. ObserverTypes'
    BY <2>1, <2>2 DEF Health!observer, ObserverTypes
  <2>4. HealthSeen'
    BY <2>1, <2>2, SeenKept DEF Health!threads
  <2> QED BY <2>1, <2>3, <2>4, PollEnds
<1>2. CASE Health!Dispatcher
  BY <1>2, ActionSteps, WaitSteps, OpenCloseSteps DEF Health!Dispatcher
<1> QED BY <1>1, <1>2, ClockStep, ReaderSteps, WriterSteps, ReportsAbout DEF Health!Next

\* What a step reports is about a thread that was in such a place.
LEMMA ReportsStep ==
  ASSUME HealthInv, [Health!Next]_(Health!vars)
  PROVE  /\ Health!Stalls("reader") => truth' \cap {"stuck", "blocked", "loop", "begin"} # {}
         /\ Health!Stalls("dispatcher") => truth' \cap {"stuck", "loop", "flag", "settled"} # {}
         /\ Health!Stalls("writer") => ~(truth' \subseteq {"wait", "woken"}) /\ truth' # {"work"}
         /\ reported' /\ ~reported => truth' \cap {"wait", "woken", "clear"} # {}
<1>1. CASE Health!Check
  BY <1>1, ReportsAbout
<1>2. CASE ~Health!Check
  <2>1. UNCHANGED <<faulted, reported>>
    BY <1>2 DEF Health!Next, Health!Tick, Health!Reader, Health!ReaderTurns, Health!ReaderReads,
       Health!ReaderFaults, Health!Dispatcher, Health!ActionBegins, Health!ActionEnds, Health!Open,
       Health!OpenEnds, Health!Close, Health!CloseEnds, Health!WaitBegins, Health!WaitEnds,
       Health!Writer, Health!WriterStarts, Health!WriterTurns, Health!WriterWorks,
       Health!WriterWaits, Health!observer, Health!vars
  <2> QED BY <2>1 DEF Health!Stalls
<1> QED BY <1>1, <1>2

\* ThreadHealth, for any timeouts and any sets of threads: a thread is reported stalled
\* only in a place where it was held up, and a long wait only while the Dispatcher waited.
THEOREM ReportsAreTrue == Health!Spec => ReportsAreReal
<1>1. Health!Spec => []HealthInv
  BY HealthInit, HealthStep, PTL DEF Health!Spec
<1>2. HealthInv => Health!TypeOK
  BY DEF HealthInv
<1>3. HealthInv /\ [Health!Next]_(Health!vars)
        => [/\ Health!Stalls("reader") => truth' \cap {"stuck", "blocked", "loop", "begin"} # {}
            /\ Health!Stalls("dispatcher") => truth' \cap {"stuck", "loop", "flag", "settled"} # {}
            /\ Health!Stalls("writer")
                 => ~(truth' \subseteq {"wait", "woken"}) /\ truth' # {"work"}]_(Health!vars)
  BY ReportsStep
<1>4. HealthInv /\ [Health!Next]_(Health!vars)
        => [reported' /\ ~reported => truth' \cap {"wait", "woken", "clear"} # {}]_(Health!vars)
  BY ReportsStep
<1>5. Health!Spec => Health!StallIsReal
  BY <1>1, <1>3, PTL DEF Health!Spec, Health!StallIsReal
<1>6. Health!Spec => Health!LongParkIsReal
  BY <1>1, <1>4, PTL DEF Health!Spec, Health!LongParkIsReal
<1> QED BY <1>1, <1>2, <1>5, <1>6, PTL DEF ReportsAreReal, Health!ReportsAreReal

-----------------------------------------------------------------------------
(* PortMirror: the window of grace                                         *)

\* A window is open for the driver, and what the mirror shows up was asked for.
WindowRight ==
  /\ mirror = "RECONNECTING" => grace
  /\ mirror \in {"OPEN", "OPENING", "RECONNECTING"} => asked # "close"
  /\ ui = "drive" => asked # "close"

MirrorInv == Mirror!TypeOK /\ WindowRight

LEMMA MirrorNumbers == ClickBound \in Nat /\ FaultBound \in Nat /\ RenameBound \in Nat
BY PartsAssumption

Signals == {"Open", "Close", "Fault"}

\* The types of the core, and of the mirror with its driver.
CoreTypes ==
  /\ portState \in Mirror!PortStates /\ generation \in Nat /\ openGeneration \in Nat
  /\ lastOpen \in {"ok", "busy", "fail"} /\ cancelOpen \in BOOLEAN
  /\ queue \in Seq(Signals)
  /\ dispatcher \in {"idle", "native", "judge", "publishOpen", "teardown", "publishClosed"}
  /\ live \in BOOLEAN /\ faults \in 0 .. FaultBound /\ fell \in BOOLEAN

UiTypes ==
  /\ mirror \in Mirror!MirrorStates /\ mirrorGen \in Nat
  /\ ui \in {"idle", "closing", "poll", "snapshot", "drive", "reset", "latch"}
  /\ snapshot \in [state : Mirror!PortStates, gen : Nat] /\ lastSeen \in Mirror!PortStates
  /\ watchdog \in {"none", "OPENING", "CLOSING"}
  /\ grace \in BOOLEAN /\ phase \in {"none", "open"} /\ pending \in BOOLEAN
  /\ clicks \in 0 .. ClickBound /\ renames \in 0 .. RenameBound
  /\ asked \in {"open", "close", "shown"}

LEMMA MirrorTypesAre ==
  /\ Mirror!TypeOK <=> CoreTypes /\ UiTypes
  /\ Mirror!TypeOK' <=> CoreTypes' /\ UiTypes'
<1>1. Mirror!TypeOK <=> CoreTypes /\ UiTypes
  BY Zenon DEF Mirror!TypeOK, CoreTypes, UiTypes, Signals
<1>2. Mirror!TypeOK' <=> CoreTypes' /\ UiTypes'
  BY Zenon DEF Mirror!TypeOK, CoreTypes, UiTypes, Signals
<1> QED BY <1>1, <1>2

LEMMA MirrorParts ==
  ASSUME MirrorInv PROVE CoreTypes /\ UiTypes /\ WindowRight
BY MirrorTypesAre DEF MirrorInv

LEMMA QueueGrows ==
  ASSUME queue \in Seq(Signals), NEW s \in Signals
  PROVE  Append(queue, s) \in Seq(Signals)
OBVIOUS

LEMMA QueueShrinks ==
  ASSUME queue \in Seq(Signals), queue # <<>>
  PROVE  Tail(queue) \in Seq(Signals)
OBVIOUS

-----------------------------------------------------------------------------
(* The core                                                                *)

\* The calls of the UI thread leave a core of the same kind.
LEMMA CallsTyped ==
  ASSUME CoreTypes, Mirror!QueueOpen \/ Mirror!QueueClose
  PROVE  CoreTypes'
<1>1. queue' \in Seq(Signals)
  <2>1. queue \in Seq(Signals)
    BY DEF CoreTypes
  <2>2. Append(queue, "Open") \in Seq(Signals) /\ Append(queue, "Close") \in Seq(Signals)
    BY <2>1, QueueGrows DEF Signals
  <2>3. queue' \in {queue, Append(queue, "Open"), Append(queue, "Close")}
    BY DEF Mirror!QueueOpen, Mirror!QueueClose
  <2> QED BY <2>1, <2>2, <2>3
<1>2. lastOpen' \in {"ok", "busy", "fail"} /\ cancelOpen' \in BOOLEAN
  <2>1. lastOpen \in {"ok", "busy", "fail"} /\ cancelOpen \in BOOLEAN
    BY DEF CoreTypes
  <2> QED BY <2>1 DEF Mirror!QueueOpen, Mirror!QueueClose
<1>3. UNCHANGED <<portState, generation, openGeneration, dispatcher, live, faults, fell>>
  BY DEF Mirror!QueueOpen, Mirror!QueueClose
<1> QED BY <1>1, <1>2, <1>3 DEF CoreTypes

LEMMA DispatchTyped ==
  ASSUME CoreTypes, Mirror!Dispatch \/ Mirror!ReportFault
  PROVE  CoreTypes'
<1>0. /\ portState \in Mirror!PortStates /\ generation \in Nat /\ openGeneration \in Nat
      /\ lastOpen \in {"ok", "busy", "fail"} /\ cancelOpen \in BOOLEAN
      /\ queue \in Seq(Signals)
      /\ dispatcher \in {"idle", "native", "judge", "publishOpen", "teardown", "publishClosed"}
      /\ live \in BOOLEAN /\ faults \in 0 .. FaultBound /\ fell \in BOOLEAN
  BY DEF CoreTypes
<1>p. {"CLOSED", "OPENING", "OPEN", "CLOSING", "FAULT"} = Mirror!PortStates
  BY DEF Mirror!PortStates
<1>q. ASSUME NEW sig, Mirror!Take(sig) PROVE queue' \in Seq(Signals)
  BY <1>0, <1>q, QueueShrinks DEF Mirror!Take
<1>a. Append(queue, "Close") \in Seq(Signals) /\ Append(queue, "Fault") \in Seq(Signals)
  BY <1>0, QueueGrows DEF Signals
<1>1. CASE Mirror!DispatchOpen
  <2>1. queue' \in Seq(Signals)
    BY <1>1, <1>q DEF Mirror!DispatchOpen
  <2>2. /\ portState' \in {portState, "OPENING"} /\ dispatcher' \in {dispatcher, "native"}
        /\ UNCHANGED <<generation, openGeneration, lastOpen, cancelOpen, live, faults, fell>>
    BY <1>1 DEF Mirror!DispatchOpen
  <2> QED BY <1>0, <1>p, <2>1, <2>2 DEF CoreTypes
<1>2. CASE Mirror!NativeOpen
  <2>1. /\ dispatcher' = "judge" /\ lastOpen' \in {"ok", "fail"} /\ live' \in BOOLEAN
        /\ UNCHANGED <<portState, generation, openGeneration, cancelOpen, queue, faults, fell>>
    BY <1>2 DEF Mirror!NativeOpen
  <2> QED BY <1>0, <2>1 DEF CoreTypes
<1>3. CASE Mirror!Judge
  <2>1. /\ portState' \in {portState, "CLOSED", "CLOSING"} /\ dispatcher' \in {"idle", "publishOpen"}
        /\ cancelOpen' \in {cancelOpen, FALSE} /\ queue' \in {queue, Append(queue, "Close")}
        /\ openGeneration' \in {openGeneration, openGeneration + 1}
        /\ generation' \in {generation, openGeneration + 1}
        /\ UNCHANGED <<lastOpen, live, faults>>
    BY <1>3 DEF Mirror!Judge
  <2>2. fell' \in BOOLEAN
    BY <1>0, <1>3 DEF Mirror!Judge
  <2>3. queue' \in Seq(Signals) /\ openGeneration' \in Nat /\ generation' \in Nat /\ cancelOpen' \in BOOLEAN
    <3>1. queue' \in Seq(Signals)
      BY <1>0, <1>a, <2>1
    <3>2. openGeneration' \in Nat /\ generation' \in Nat
      BY <1>0, <2>1
    <3>3. cancelOpen' \in BOOLEAN
      BY <1>0, <2>1
    <3> QED BY <3>1, <3>2, <3>3
  <2> QED BY <1>0, <1>p, <2>1, <2>2, <2>3 DEF CoreTypes
<1>4. CASE Mirror!PublishOpen
  <2>1. /\ dispatcher' = "idle" /\ portState' = "OPEN"
        /\ UNCHANGED <<generation, openGeneration, lastOpen, cancelOpen, queue, live, faults, fell>>
    BY <1>4 DEF Mirror!PublishOpen
  <2> QED BY <1>0, <1>p, <2>1 DEF CoreTypes
<1>5. CASE Mirror!DispatchClose
  <2>1. queue' \in Seq(Signals)
    BY <1>5, <1>q DEF Mirror!DispatchClose
  <2>2. /\ portState' \in {portState, "CLOSING"} /\ dispatcher' \in {dispatcher, "teardown"}
        /\ live' \in {live, FALSE}
        /\ UNCHANGED <<generation, openGeneration, lastOpen, cancelOpen, faults, fell>>
    BY <1>5 DEF Mirror!DispatchClose
  <2>3. live' \in BOOLEAN
    BY <1>0, <2>2
  <2> QED BY <1>0, <1>p, <2>1, <2>2, <2>3 DEF CoreTypes
<1>6. CASE Mirror!CommitClose
  <2>1. /\ dispatcher' = "publishClosed" /\ generation' = generation + 1
        /\ UNCHANGED <<portState, openGeneration, lastOpen, cancelOpen, queue, live, faults, fell>>
    BY <1>6 DEF Mirror!CommitClose
  <2> QED BY <1>0, <2>1 DEF CoreTypes
<1>7. CASE Mirror!PublishClosed
  <2>1. /\ dispatcher' = "idle" /\ portState' = "CLOSED"
        /\ UNCHANGED <<generation, openGeneration, lastOpen, cancelOpen, queue, live, faults, fell>>
    BY <1>7 DEF Mirror!PublishClosed
  <2> QED BY <1>0, <1>p, <2>1 DEF CoreTypes
<1>8. CASE Mirror!DispatchFault
  <2>1. queue' \in Seq(Signals)
    BY <1>8, <1>q DEF Mirror!DispatchFault
  <2>2. /\ portState' \in {portState, "FAULT", "CLOSED"} /\ live' \in BOOLEAN
        /\ UNCHANGED <<generation, openGeneration, lastOpen, cancelOpen, dispatcher, faults, fell>>
    BY <1>8 DEF Mirror!DispatchFault
  <2> QED BY <1>0, <1>p, <2>1, <2>2 DEF CoreTypes
<1>9. CASE Mirror!ReportFault
  <2>1. /\ faults < FaultBound /\ faults' = faults + 1 /\ queue' = Append(queue, "Fault")
        /\ UNCHANGED <<portState, generation, openGeneration, lastOpen, cancelOpen, dispatcher,
                       live, fell>>
    BY <1>9 DEF Mirror!ReportFault
  <2>2. faults' \in 0 .. FaultBound
    BY <1>0, <2>1, MirrorNumbers
  <2> QED BY <1>0, <1>a, <2>1, <2>2 DEF CoreTypes
<1> QED BY <1>1, <1>2, <1>3, <1>4, <1>5, <1>6, <1>7, <1>8, <1>9 DEF Mirror!Dispatch

-----------------------------------------------------------------------------
(* The UI thread                                                           *)

\* What the mirror follows is a state of the core, which is no window.
LEMMA StatesApart ==
  /\ Mirror!PortStates \subseteq Mirror!MirrorStates /\ "RECONNECTING" \notin Mirror!PortStates
  /\ \A s \in {"CLOSED", "OPENING", "OPEN", "CLOSING", "FAULT"} : s \in Mirror!PortStates
  /\ "RECONNECTING" \in Mirror!MirrorStates
BY DEF Mirror!PortStates, Mirror!MirrorStates

\* An action of the UI thread: what the mirror and its window become.
LEMMA UserSteps ==
  ASSUME MirrorInv, Mirror!UserOpens \/ Mirror!UserCloses \/ Mirror!CloseReturns
  PROVE  MirrorInv'
<1>1. CoreTypes /\ UiTypes /\ WindowRight
  BY MirrorParts
<1>2. UNCHANGED <<mirrorGen, snapshot, lastSeen, watchdog, grace, phase, pending, renames>>
  BY DEF Mirror!UserOpens, Mirror!UserCloses, Mirror!CloseReturns, Mirror!pollVars,
         Mirror!driverVars, Mirror!hsmVars
<1>3. CASE Mirror!UserOpens
  <2>1. /\ clicks < ClickBound /\ clicks' = clicks + 1 /\ mirror \in {"CLOSED", "FAULT"}
        /\ mirror' \in {mirror, "OPENING"} /\ asked' = "open" /\ ui' = "poll" /\ Mirror!QueueOpen
    BY <1>3 DEF Mirror!UserOpens
  <2>2. CoreTypes'
    BY <1>1, <2>1, CallsTyped
  <2>3. clicks' \in 0 .. ClickBound
    BY <1>1, <2>1, MirrorNumbers DEF UiTypes
  <2>4. UiTypes'
    BY <1>1, <1>2, <2>1, <2>3, StatesApart DEF UiTypes
  <2>5. WindowRight'
    BY <1>1, <1>2, <2>1 DEF WindowRight
  <2> QED BY <2>2, <2>4, <2>5, MirrorTypesAre DEF MirrorInv
<1>4. CASE Mirror!UserCloses
  <2>1. /\ clicks < ClickBound /\ clicks' = clicks + 1
        /\ mirror' = "CLOSING" /\ asked' = "close" /\ ui' \in {"poll", "closing"}
        /\ Mirror!QueueClose
    BY <1>4 DEF Mirror!UserCloses
  <2>2. CoreTypes'
    BY <1>1, <2>1, CallsTyped
  <2>3. clicks' \in 0 .. ClickBound
    BY <1>1, <2>1, MirrorNumbers DEF UiTypes
  <2>4. UiTypes'
    BY <1>1, <1>2, <2>1, <2>3, StatesApart DEF UiTypes
  <2>5. WindowRight'
    BY <2>1 DEF WindowRight
  <2> QED BY <2>2, <2>4, <2>5, MirrorTypesAre DEF MirrorInv
<1>5. CASE Mirror!CloseReturns
  <2>1. /\ UNCHANGED <<portState, generation, openGeneration, lastOpen, cancelOpen, queue,
                       dispatcher, live, faults, fell>>
        /\ UNCHANGED <<mirror, clicks, asked>> /\ ui' = "poll"
    BY <1>5 DEF Mirror!CloseReturns, Mirror!coreVars, Mirror!hsmVars
  <2>2. CoreTypes'
    BY <1>1, <2>1 DEF CoreTypes
  <2>3. UiTypes'
    BY <1>1, <1>2, <2>1 DEF UiTypes
  <2>4. WindowRight'
    BY <1>1, <1>2, <2>1 DEF WindowRight
  <2> QED BY <2>2, <2>3, <2>4, MirrorTypesAre DEF MirrorInv
<1> QED BY <1>3, <1>4, <1>5

\* The core of a poll does not change but by the calls of the driver.
CoreKept == UNCHANGED <<portState, generation, openGeneration, lastOpen, cancelOpen, queue,
                        dispatcher, live, faults, fell>>

LEMMA CoreKeptTyped == CoreTypes /\ CoreKept => CoreTypes'
BY DEF CoreTypes, CoreKept

LEMMA SnapshotSteps ==
  ASSUME MirrorInv,
         Mirror!PollBegins \/ Mirror!WatchdogFires \/ Mirror!WindowOpens \/ Mirror!WindowStays
  PROVE  MirrorInv'
<1>1. CoreTypes /\ UiTypes /\ WindowRight
  BY MirrorParts
<1>2. CoreKept /\ UNCHANGED <<clicks, asked, renames>>
  BY DEF Mirror!PollBegins, Mirror!WatchdogFires, Mirror!WindowOpens, Mirror!WindowStays,
         Mirror!coreVars, Mirror!driverVars, CoreKept
<1>3. CoreTypes' /\ generation \in Nat /\ portState \in Mirror!PortStates
  BY <1>1, <1>2, CoreKeptTyped DEF CoreTypes
<1>s. snapshot \in [state : Mirror!PortStates, gen : Nat]
  BY <1>1 DEF UiTypes
<1>4. CASE Mirror!PollBegins
  <2>1. /\ ui' = "snapshot" /\ watchdog' \in {"none", "OPENING", "CLOSING"}
        /\ snapshot' = [snapshot EXCEPT !.gen = generation]
        /\ UNCHANGED <<mirror, mirrorGen, lastSeen, grace, phase, pending>>
    BY <1>4 DEF Mirror!PollBegins, Mirror!hsmVars, Mirror!driverVars
  <2>2. snapshot' \in [state : Mirror!PortStates, gen : Nat]
    BY <1>3, <1>s, <2>1
  <2>3. UiTypes'
    BY <1>1, <1>2, <2>1, <2>2 DEF UiTypes
  <2>4. WindowRight'
    BY <1>1, <1>2, <2>1 DEF WindowRight
  <2> QED BY <1>3, <2>3, <2>4, MirrorTypesAre DEF MirrorInv
<1>5. CASE Mirror!WatchdogFires
  <2>1. /\ ui' = "idle" /\ watchdog' = "none" /\ mirror' = "FAULT"
        /\ UNCHANGED <<mirrorGen, snapshot, lastSeen, grace, phase, pending>>
    BY <1>5 DEF Mirror!WatchdogFires, Mirror!driverVars
  <2>2. UiTypes'
    BY <1>1, <1>2, <2>1, StatesApart DEF UiTypes
  <2>3. WindowRight'
    BY <2>1 DEF WindowRight
  <2> QED BY <1>3, <2>2, <2>3, MirrorTypesAre DEF MirrorInv
<1>6. CASE Mirror!WindowOpens \/ Mirror!WindowStays
  <2>1. /\ ui' = "drive" /\ watchdog' = watchdog
        /\ snapshot' = [snapshot EXCEPT !.state = portState] /\ lastSeen' = portState
    BY <1>6 DEF Mirror!WindowOpens, Mirror!WindowStays
  <2>2. snapshot' \in [state : Mirror!PortStates, gen : Nat]
    BY <1>3, <1>s, <2>1
  <2>3. /\ mirror' \in {mirror, "RECONNECTING"} /\ mirrorGen' \in {mirrorGen, snapshot.gen}
        /\ grace' = TRUE /\ phase' \in {phase, "none"} /\ pending' \in {pending, FALSE}
        /\ mirror \in {"OPEN", "OPENING", "RECONNECTING"}
    BY <1>6 DEF Mirror!WindowOpens, Mirror!WindowStays, Mirror!hsmVars, Mirror!driverVars, Mirror!Open
  <2>4. mirrorGen' \in Nat /\ phase' \in {"none", "open"} /\ pending' \in BOOLEAN
    BY <1>1, <1>s, <2>3 DEF UiTypes
  <2>5. UiTypes'
    BY <1>1, <1>2, <1>3, <2>1, <2>2, <2>3, <2>4, StatesApart DEF UiTypes
  <2>6. WindowRight'
    BY <1>1, <1>2, <2>1, <2>3 DEF WindowRight
  <2> QED BY <1>3, <2>5, <2>6, MirrorTypesAre DEF MirrorInv
<1> QED BY <1>4, <1>5, <1>6

\* What is followed: a state of the core, with asked taken forward.
LEMMA ShownIs ==
  ASSUME UiTypes, Mirror!Shown
  PROVE  /\ asked' \in {"open", "close", "shown"}
         /\ asked' = "close" => asked = "close" /\ mirror' \notin {"OPEN", "OPENING"}
BY DEF UiTypes, Mirror!Shown

LEMMA FollowSteps ==
  ASSUME MirrorInv, Mirror!SnapshotFollowed \/ Mirror!WindowExpires \/ Mirror!Latch
  PROVE  MirrorInv'
<1>1. CoreTypes /\ UiTypes /\ WindowRight
  BY MirrorParts
<1>2. /\ CoreKept /\ UNCHANGED <<clicks, renames, watchdog>> /\ ui' = "idle" /\ Mirror!Shown
  BY DEF Mirror!SnapshotFollowed, Mirror!WindowExpires, Mirror!Latch, Mirror!coreVars,
         Mirror!pollVars, Mirror!Follow, CoreKept
<1>3. CoreTypes' /\ portState \in Mirror!PortStates
  BY <1>1, <1>2, CoreKeptTyped DEF CoreTypes
<1>s. /\ snapshot \in [state : Mirror!PortStates, gen : Nat] /\ mirrorGen \in Nat
      /\ snapshot.state \in Mirror!PortStates /\ snapshot.gen \in Nat
      /\ lastSeen \in Mirror!PortStates /\ mirror \in Mirror!MirrorStates
      /\ phase \in {"none", "open"} /\ grace \in BOOLEAN /\ pending \in BOOLEAN
  BY <1>1 DEF UiTypes
<1>a. /\ asked' \in {"open", "close", "shown"}
      /\ asked' = "close" => asked = "close" /\ mirror' \notin {"OPEN", "OPENING"}
  BY <1>1, <1>2, ShownIs
<1>4. /\ snapshot' \in [state : Mirror!PortStates, gen : Nat] /\ lastSeen' \in Mirror!PortStates
  <2>1. CASE Mirror!SnapshotFollowed
    <3>1. snapshot' = [snapshot EXCEPT !.state = portState] /\ lastSeen' = portState
      BY <2>1 DEF Mirror!SnapshotFollowed
    <3> QED BY <1>3, <1>s, <3>1
  <2>2. CASE Mirror!WindowExpires \/ Mirror!Latch
    BY <1>s, <2>2 DEF Mirror!WindowExpires, Mirror!Latch, Mirror!pollVars
  <2> QED BY <2>1, <2>2
<1>5. /\ mirrorGen' \in {mirrorGen, snapshot.gen}
      /\ \/ mirror' = mirror
         \/ mirror' \in Mirror!PortStates
      /\ \/ UNCHANGED <<grace, phase, pending>>
         \/ /\ grace' = FALSE /\ phase' = "none" /\ pending' = FALSE
            /\ mirror' # "RECONNECTING"
  <2>1. CASE Mirror!SnapshotFollowed
    <3>1. /\ grace' = FALSE /\ phase' = "none" /\ pending' = FALSE
          /\ \/ mirror' = portState /\ mirrorGen' = snapshot.gen
             \/ mirror' = mirror /\ mirrorGen' = mirrorGen
          /\ ~Mirror!Open
      BY <2>1 DEF Mirror!SnapshotFollowed, Mirror!DriverEnds, Mirror!Follow, Mirror!hsmVars
    <3>2. mirror # "RECONNECTING"
      BY <1>1, <3>1 DEF Mirror!Open, WindowRight
    <3> QED BY <1>3, <3>1, <3>2, StatesApart
  <2>2. CASE Mirror!WindowExpires
    <3>1. /\ grace' = FALSE /\ phase' = "none" /\ pending' = FALSE
          /\ \/ mirror' = snapshot.state /\ mirrorGen' = snapshot.gen
             \/ mirror' = "FAULT" /\ mirrorGen' = mirrorGen
      BY <2>2 DEF Mirror!WindowExpires, Mirror!DriverEnds
    <3> QED BY <1>s, <3>1, StatesApart
  <2>3. CASE Mirror!Latch
    <3>1. \/ /\ mirror' = snapshot.state /\ mirrorGen' = snapshot.gen
             /\ grace' = FALSE /\ phase' = "none" /\ pending' = FALSE
          \/ UNCHANGED <<mirror, mirrorGen, grace, phase, pending>>
      BY <2>3 DEF Mirror!Latch, Mirror!DriverEnds, Mirror!hsmVars
    <3> QED BY <1>s, <3>1, StatesApart
  <2> QED BY <2>1, <2>2, <2>3
<1>6. /\ mirror' \in Mirror!MirrorStates /\ mirrorGen' \in Nat /\ grace' \in BOOLEAN
      /\ phase' \in {"none", "open"} /\ pending' \in BOOLEAN
  BY <1>s, <1>5, StatesApart
<1>7. UiTypes'
  BY <1>1, <1>2, <1>a, <1>4, <1>6 DEF UiTypes
<1>8. WindowRight'
  <2>1. mirror' = "RECONNECTING" => mirror = "RECONNECTING" /\ grace' = grace
    BY <1>5, StatesApart
  <2> QED BY <1>1, <1>2, <1>a, <2>1 DEF WindowRight
<1> QED BY <1>3, <1>7, <1>8, MirrorTypesAre DEF MirrorInv

\* The steps of the driver.
LEMMA DriverSteps ==
  ASSUME MirrorInv,
         Mirror!DriverCloses \/ Mirror!ResetReturns \/ Mirror!DriverOpens \/ Mirror!DriverProbes
  PROVE  MirrorInv'
<1>1. CoreTypes /\ UiTypes /\ WindowRight
  BY MirrorParts
<1>2. /\ UNCHANGED <<mirror, mirrorGen, snapshot, lastSeen, watchdog, grace, clicks, asked>>
      /\ ui' \in {"idle", "latch", "reset"}
  BY DEF Mirror!DriverCloses, Mirror!ResetReturns, Mirror!DriverOpens, Mirror!DriverProbes,
         Mirror!hsmVars, Mirror!pollVars, Mirror!driverVars, Mirror!AfterDrive
<1>3. CoreTypes'
  <2>1. CoreKept \/ Mirror!QueueOpen \/ Mirror!QueueClose
    BY DEF Mirror!DriverCloses, Mirror!ResetReturns, Mirror!DriverOpens, Mirror!DriverProbes,
           Mirror!coreVars, CoreKept
  <2> QED BY <1>1, <2>1, CoreKeptTyped, CallsTyped
<1>4. phase' \in {"none", "open"} /\ pending' \in BOOLEAN /\ renames' \in 0 .. RenameBound
  <2>0. phase \in {"none", "open"} /\ pending \in BOOLEAN /\ renames \in 0 .. RenameBound
    BY <1>1 DEF UiTypes
  <2>1. CASE Mirror!DriverCloses
    <3>1. /\ renames' = renames \/ (renames < RenameBound /\ renames' = renames + 1)
          /\ phase' = "open" /\ pending' = FALSE
      BY <2>1 DEF Mirror!DriverCloses
    <3>2. renames' \in 0 .. RenameBound
      BY <2>0, <3>1, MirrorNumbers
    <3> QED BY <3>1, <3>2
  <2>2. CASE Mirror!ResetReturns
    BY <2>0, <2>2 DEF Mirror!ResetReturns, Mirror!driverVars
  <2>3. CASE Mirror!DriverOpens
    BY <2>0, <2>3 DEF Mirror!DriverOpens, Mirror!OpenAccepted
  <2>4. CASE Mirror!DriverProbes
    BY <2>0, <2>4 DEF Mirror!DriverProbes
  <2> QED BY <2>1, <2>2, <2>3, <2>4
<1>5. UiTypes'
  BY <1>1, <1>2, <1>4 DEF UiTypes
<1>6. WindowRight'
  BY <1>1, <1>2 DEF WindowRight
<1> QED BY <1>3, <1>5, <1>6, MirrorTypesAre DEF MirrorInv

-----------------------------------------------------------------------------
(* The mirror                                                              *)

LEMMA MirrorInit == Mirror!Init => MirrorInv
<1> SUFFICES ASSUME Mirror!Init PROVE MirrorInv
  OBVIOUS
<1>1. CoreTypes
  <2>1. queue \in Seq(Signals) /\ faults \in 0 .. FaultBound
    BY MirrorNumbers DEF Mirror!Init
  <2> QED BY <2>1, StatesApart DEF Mirror!Init, CoreTypes
<1>2. UiTypes
  <2>1. /\ snapshot \in [state : Mirror!PortStates, gen : Nat]
        /\ clicks \in 0 .. ClickBound /\ renames \in 0 .. RenameBound
        /\ mirror \in Mirror!MirrorStates
    BY StatesApart, MirrorNumbers DEF Mirror!Init
  <2> QED BY <2>1, StatesApart DEF Mirror!Init, UiTypes
<1>3. WindowRight
  BY DEF Mirror!Init, WindowRight
<1> QED BY <1>1, <1>2, <1>3, MirrorTypesAre DEF MirrorInv

LEMMA MirrorStep == MirrorInv /\ [Mirror!Next]_(Mirror!vars) => MirrorInv'
<1> SUFFICES ASSUME MirrorInv, [Mirror!Next]_(Mirror!vars) PROVE MirrorInv'
  OBVIOUS
<1>1. CoreTypes /\ UiTypes /\ WindowRight
  BY MirrorParts
<1>2. ASSUME UNCHANGED <<mirror, mirrorGen, ui, snapshot, lastSeen, watchdog, grace, phase, pending,
                         renames, clicks, asked>>
      PROVE  UiTypes' /\ WindowRight'
  BY <1>1, <1>2 DEF UiTypes, WindowRight
<1>3. CASE Mirror!CoreStep
  <2>1. /\ UNCHANGED <<mirror, mirrorGen, ui, snapshot, lastSeen, watchdog, grace, phase, pending,
                       renames, clicks, asked>>
        /\ Mirror!Dispatch \/ Mirror!ReportFault
    BY <1>3 DEF Mirror!CoreStep, Mirror!hsmVars, Mirror!pollVars, Mirror!driverVars
  <2>2. CoreTypes'
    BY <1>1, <2>1, DispatchTyped
  <2> QED BY <1>2, <2>1, <2>2, MirrorTypesAre DEF MirrorInv
<1>4. CASE UNCHANGED Mirror!vars
  <2>1. /\ UNCHANGED <<mirror, mirrorGen, ui, snapshot, lastSeen, watchdog, grace, phase, pending,
                       renames, clicks, asked>>
        /\ CoreKept
    BY <1>4 DEF Mirror!vars, Mirror!coreVars, Mirror!hsmVars, Mirror!pollVars, Mirror!driverVars,
                CoreKept
  <2> QED BY <1>1, <1>2, <2>1, CoreKeptTyped, MirrorTypesAre DEF MirrorInv
<1>5. CASE Mirror!Ui
  BY <1>5, UserSteps, SnapshotSteps, FollowSteps, DriverSteps
     DEF Mirror!Ui, Mirror!Poll, Mirror!Drive
<1> QED BY <1>3, <1>4, <1>5 DEF Mirror!Next

\* PortMirror, for any number of clicks, faults and renames: the mirror shows a window
\* of grace only while one is driven, and what the driver reopens is not what the user
\* closed and has not seen up again.
THEOREM MirrorIsSafe ==
  Mirror!Spec => [](Mirror!TypeOK /\ Mirror!WindowIsDriven) /\ Mirror!ReopensForUser
<1>1. Mirror!Spec => []MirrorInv
  BY MirrorInit, MirrorStep, PTL DEF Mirror!Spec
<1>2. MirrorInv => Mirror!TypeOK /\ Mirror!WindowIsDriven
  BY DEF MirrorInv, WindowRight, Mirror!WindowIsDriven
<1>3. MirrorInv /\ [Mirror!Next]_(Mirror!vars) => [Mirror!Reopens => asked # "close"]_(Mirror!vars)
  BY DEF MirrorInv, WindowRight, Mirror!Reopens
<1>4. Mirror!Spec => Mirror!ReopensForUser
  BY <1>1, <1>3, PTL DEF Mirror!Spec, Mirror!ReopensForUser
<1> QED BY <1>1, <1>2, <1>4, PTL

-----------------------------------------------------------------------------
(* The parts together                                                      *)

LEMMA AllIsSafe == AllSpec => AllInit /\ [][AllNext]_allVars
BY PTL DEF AllSpec

LEMMA AllIsPool == AllSpec => Spec
<1>1. AllInit => Init
  BY DEF AllInit
<1>2. [AllNext]_allVars => [Next]_(vars)
  <2> SUFFICES ASSUME [AllNext]_allVars PROVE [Next]_(vars)
    OBVIOUS
  <2>1. Next \/ UNCHANGED vars
    BY DEF AllNext, allVars
  <2> QED BY <2>1
<1> QED BY <1>1, <1>2, AllIsSafe, PTL DEF Spec

LEMMA AllIsRing == AllSpec => Ring!Spec
<1>1. AllInit => Ring!Init
  BY DEF AllInit
<1>2. [AllNext]_allVars => [Ring!Next]_(Ring!vars)
  <2> SUFFICES ASSUME [AllNext]_allVars PROVE [Ring!Next]_(Ring!vars)
    OBVIOUS
  <2>1. Ring!Next \/ UNCHANGED ringVars
    BY DEF AllNext, allVars
  <2> QED BY <2>1 DEF ringVars, Ring!vars
<1> QED BY <1>1, <1>2, AllIsSafe, PTL DEF Ring!Spec

LEMMA AllIsTimer == AllSpec => Timer!Spec
<1>1. AllInit => Timer!Init
  BY DEF AllInit
<1>2. [AllNext]_allVars => [Timer!Next]_(Timer!vars)
  <2> SUFFICES ASSUME [AllNext]_allVars PROVE [Timer!Next]_(Timer!vars)
    OBVIOUS
  <2>1. Timer!Next \/ UNCHANGED timerVars
    BY DEF AllNext, allVars
  <2> QED BY <2>1 DEF timerVars, Timer!vars
<1> QED BY <1>1, <1>2, AllIsSafe, PTL DEF Timer!Spec

LEMMA AllIsLines == AllSpec => Beside!Spec
<1>1. AllInit => Beside!Init
  BY DEF AllInit
<1>2. [AllNext]_allVars => [Beside!Next]_(Beside!vars)
  <2> SUFFICES ASSUME [AllNext]_allVars PROVE [Beside!Next]_(Beside!vars)
    OBVIOUS
  <2>1. Beside!Next \/ UNCHANGED lineVars
    BY DEF AllNext, allVars
  <2> QED BY <2>1 DEF lineVars, Beside!vars, Beside!link, Beside!poll, Beside!device, Beside!metrics,
                      Beside!call
<1> QED BY <1>1, <1>2, AllIsSafe, PTL DEF Beside!Spec

LEMMA AllIsHealth == AllSpec => Health!Spec
<1>1. AllInit => Health!Init
  BY DEF AllInit
<1>2. [AllNext]_allVars => [Health!Next]_(Health!vars)
  <2> SUFFICES ASSUME [AllNext]_allVars PROVE [Health!Next]_(Health!vars)
    OBVIOUS
  <2>1. Health!Next \/ UNCHANGED healthVars
    BY DEF AllNext, allVars
  <2> QED BY <2>1 DEF healthVars, Health!vars
<1> QED BY <1>1, <1>2, AllIsSafe, PTL DEF Health!Spec

LEMMA AllIsMirror == AllSpec => Mirror!Spec
<1>1. AllInit => Mirror!Init
  BY DEF AllInit
<1>2. [AllNext]_allVars => [Mirror!Next]_(Mirror!vars)
  <2> SUFFICES ASSUME [AllNext]_allVars PROVE [Mirror!Next]_(Mirror!vars)
    OBVIOUS
  <2>1. Mirror!Next \/ UNCHANGED mirrorVars
    BY DEF AllNext, allVars
  <2> QED BY <2>1 DEF mirrorVars, Mirror!vars, Mirror!coreVars, Mirror!hsmVars, Mirror!pollVars,
                      Mirror!driverVars
<1> QED BY <1>1, <1>2, AllIsSafe, PTL DEF Mirror!Spec

\* The behaviours the parts run checks keep every safety promise but that of the views
\* (ViewsFaithful, a fold over the bytes received).
THEOREM PartsAreSafe ==
  AllSpec => /\ []PoolInv /\ OnlyFreeTaken
             /\ RingExact /\ DeadlinesRight /\ LinesTrue /\ ReportsAreReal
             /\ [](Mirror!TypeOK /\ Mirror!WindowIsDriven) /\ Mirror!ReopensForUser
<1>1. AllSpec => []PoolInv /\ OnlyFreeTaken
  BY AllIsPool, PoolInvariant, AllocateTakesFree
<1>2. AllSpec => RingExact /\ DeadlinesRight /\ LinesTrue /\ ReportsAreReal
  BY AllIsRing, AllIsTimer, AllIsLines, AllIsHealth,
     RingIsExact, DeadlinesAreRight, LinesAreTrue, ReportsAreTrue
<1>3. AllSpec => [](Mirror!TypeOK /\ Mirror!WindowIsDriven) /\ Mirror!ReopensForUser
  BY AllIsMirror, MirrorIsSafe
<1> QED BY <1>1, <1>2, <1>3, PTL

===============================================================================
