----------------------- MODULE MemoryAllocatorProofs ------------------------
(***************************************************************************)
(* Theorems about MemoryAllocator, for every size of the arena and every   *)
(* set of styles, proved with TLAPS.                                       *)
(***************************************************************************)
EXTENDS MemoryAllocator, TLAPS

USE MemSizeAssumption, StylesAssumption, NullAssumption
USE DEF ASCENDING_SIZE, DESCENDING_SIZE, ADDRESS

\* The ranges of the variables, but for those whose ranges depend on which
\* operations the manager has: pc and refcount.
Typed ==
    /\ sort \in Styles
    /\ first \in Ptr /\ last \in Ptr
    /\ live \subseteq Addr
    /\ next \in [Addr -> Ptr] /\ prev \in [Addr -> Ptr]
    /\ size \in [Addr -> 0 .. MemSize]
    /\ mark \in [Addr -> {0, 1}]
    /\ cur \in Ptr /\ bytes \in Requests /\ object \in Ptr
    /\ todo \in Seq(Addr)

\* What one needs to know to see that a step keeps the tiling: which chunks
\* the pointers in play lead to, and in which phase of a call todo is filled.
Closure ==
    /\ first \in live
    /\ cur \in live \union {NULL}
    /\ \A c \in live : next[c] \in live \union {NULL}
    /\ \A i \in 1 .. Len(todo) : todo[i] \in live
    /\ pc = "find" => bytes > 0
    /\ pc = "insert" => cur # NULL /\ Len(todo) \in {1, 2}
    /\ pc # "insert" => todo = <<>>

\* In address order a chunk is followed by its neighbour in the arena, so
\* that merging with the next chunk on the list is merging neighbours.
AddressLinks ==
    /\ sort = ADDRESS =>
        /\ first = 0 /\ pc # "insert"
        /\ \A c \in live : next[c] = IF c + size[c] = MemSize THEN NULL ELSE c + size[c]
    /\ pc = "concat" => sort = ADDRESS

\* The invariant that is inductive: every step keeps it, from any state.
IInv == Typed /\ Tiling /\ Closure /\ AddressLinks

\* The same while memConcat runs: no such pair starts before its cursor.
CoalescedUpTo ==
    sort = ADDRESS =>
        \A c \in live :
            c + size[c] \in live /\ (pc = "concat" /\ cur # NULL => c < cur)
                => mark[c] = 1 \/ mark[c + size[c]] = 1

\* A fresh manager satisfies the invariant.
LEMMA InitInv == Init => IInv
<1> SUFFICES ASSUME Init PROVE IInv
  OBVIOUS
<1>1. Typed
  BY DEF Init, Fresh, Typed, Addr, Ptr, Requests
<1>2. Tiling
  BY DEF Init, Fresh, Tiling, Addr
<1>3. Closure
  BY DEF Init, Fresh, Closure, Addr
<1>4. AddressLinks
  BY DEF Init, Fresh, AddressLinks, Addr
<1> QED
  BY <1>1, <1>2, <1>3, <1>4 DEF IInv

\* A step that leaves the list and the cuts of the arena as they are keeps
\* the invariant, whatever it marks and wherever it moves the iterator: the
\* whole of reference counting and most of collect are such steps.
LEMMA MoveInv ==
    ASSUME IInv,
           UNCHANGED <<list, live, next, prev, size>>,
           mark' \in [Addr -> {0, 1}],
           cur' \in live \union {NULL}, bytes' \in Requests, object' \in Ptr,
           pc' = "find" => bytes' > 0,
           pc' = "insert" => pc = "insert" /\ cur' # NULL /\ todo' = todo,
           pc' # "insert" => todo' = <<>>,
           pc' = "concat" => sort = ADDRESS
    PROVE  IInv'
<1>1. todo' \in Seq(Addr) /\ \A i \in 1 .. Len(todo') : todo'[i] \in live
  <2>1. CASE todo' = todo
    BY <2>1 DEF IInv, Typed, Closure
  <2>2. CASE todo' = <<>>
    BY <2>2
  <2> QED
    BY <2>1, <2>2
<1>2. Typed'
  BY <1>1 DEF IInv, Typed, list, Ptr
<1>3. Tiling'
  BY DEF IInv, Tiling
<1>4. Closure'
  BY <1>1 DEF IInv, Closure, list
<1>5. AddressLinks'
  BY DEF IInv, AddressLinks, list
<1> QED
  BY <1>2, <1>3, <1>4, <1>5 DEF IInv

\* Bookkeeping: the steps that only move the cursor, or start or end a call.
Walking == \/ Client \/ FindNext \/ FindFail \/ InsertWalk \/ LookupNext
           \/ LookupFail \/ ConcatNext \/ ConcatDone

LEMMA WalkingInv == IInv /\ Walking => IInv'
<1> SUFFICES ASSUME IInv, Walking PROVE IInv'
  OBVIOUS
<1>1. UNCHANGED <<list, chunk>>
  BY DEF Walking, Client, AllocInt, FreeMem, FindNext, FindFail, InsertWalk,
         LookupNext, LookupFail, ConcatNext, ConcatDone
<1>2. /\ cur' \in live \union {NULL}
      /\ bytes' \in Requests /\ object' \in Ptr
      /\ pc' = "find" => bytes' > 0
      /\ pc' = "insert" => cur' # NULL /\ todo' = todo /\ pc = "insert"
      /\ pc' # "insert" => todo' = <<>>
      /\ pc' = "concat" => pc = "concat"
  <2> USE DEF IInv, Typed, Closure, Return, call
  <2>1. CASE \E b \in Requests : AllocInt(b)
    BY <2>1 DEF AllocInt, Requests
  <2>2. CASE \E p \in Ptr : FreeMem(p)
    BY <2>2 DEF FreeMem
  <2>3. CASE FindNext \/ LookupNext \/ ConcatNext
    BY <2>3 DEF FindNext, LookupNext, ConcatNext
  <2>4. CASE InsertWalk
    BY <2>4 DEF InsertWalk
  <2>5. CASE FindFail \/ LookupFail \/ ConcatDone
    BY <2>5 DEF FindFail, LookupFail, ConcatDone, Requests, Ptr
  <2> QED
    BY <2>1, <2>2, <2>3, <2>4, <2>5 DEF Walking, Client
<1>3. mark' \in [Addr -> {0, 1}] /\ (pc' = "concat" => sort = ADDRESS)
  BY <1>1, <1>2 DEF IInv, Typed, AddressLinks, chunk
<1> QED
  BY <1>1, <1>2, <1>3, MoveInv DEF chunk

\* What Carve does to the tiling: chunk c, cut after its first b words, is
\* replaced by itself and the rest, and no field leaves its range.
LEMMA CarveTiling ==
    ASSUME IInv, NEW c \in live, NEW b \in 1 .. size[c], Carve(c, b)
    PROVE  /\ live' = IF b < size[c] THEN live \union {c + b} ELSE live
           /\ size' \in [Addr -> 0 .. MemSize]
           /\ mark' \in [Addr -> {0, 1}]
           /\ size'[c] = b
           /\ \A d \in live \ {c} : size'[d] = size[d] /\ mark'[d] = mark[d]
           /\ b < size[c] => /\ c + b \in Addr /\ c + b \notin live
                            /\ size'[c + b] = size[c] - b
           /\ Tiling'
<1>1. /\ live \subseteq 0 .. MemSize - 1
      /\ size \in [0 .. MemSize - 1 -> 0 .. MemSize]
      /\ mark \in [Addr -> {0, 1}]
      /\ Tiling
  BY DEF IInv, Typed, Addr
<1>2. CASE size[c] = b
  <2>1. live' = live /\ size' = size
    BY <1>2 DEF Carve
  <2>2. /\ mark' \in [Addr -> {0, 1}]
        /\ \A d \in live \ {c} : mark'[d] = mark[d]
    BY <1>1, <1>2 DEF Carve, Addr
  <2>3. Tiling'
    BY <1>1, <2>1 DEF Tiling
  <2>4. ~ (b < size[c])
    BY <1>2
  <2> QED
    BY <1>1, <1>2, <2>1, <2>2, <2>3, <2>4 DEF Addr
<1>3. CASE size[c] # b
  <2> DEFINE n == c + b
  <2>1. c \in Int /\ b \in Int /\ size[c] \in Int /\ 0 <= c /\ 0 < b /\ b < size[c]
    BY <1>1, <1>3
  <2>2. c + size[c] <= MemSize
    BY <1>1, <2>1 DEF Tiling
  <2>3. n \in 0 .. MemSize - 1
    BY <2>1, <2>2
  <2>4. n \notin live
    BY <1>1, <2>1 DEF Tiling
  <2>0. n = c + b /\ n # c
    BY <2>1
  <2>5. /\ live' = live \union {n}
        /\ size' = [size EXCEPT ![c] = b, ![n] = size[c] - b]
    BY <1>3 DEF Carve, Rest
  <2>6. /\ mark' \in [Addr -> {0, 1}]
        /\ \A d \in live \ {c} : mark'[d] = mark[d]
    BY <1>1, <1>3, <2>0, <2>4 DEF Carve, Addr
  <2>7. /\ size' \in [0 .. MemSize - 1 -> 0 .. MemSize]
        /\ size'[c] = b /\ size'[n] = size[c] - b
        /\ \A d \in live \ {c} : size'[d] = size[d]
    <3> HIDE DEF n
    <3>1. c \in 0 .. MemSize - 1 /\ b \in 0 .. MemSize /\ size[c] - b \in 0 .. MemSize
      BY <1>1, <2>1, <2>2
    <3> QED
      BY <1>1, <2>0, <2>3, <2>4, <2>5, <3>1
  <2>8. Tiling'
    <3> HIDE DEF n
    <3>1. 0 \in live'
      BY <1>1, <2>5 DEF Tiling
    <3>2. ASSUME NEW d \in live'
          PROVE  size'[d] > 0 /\ (d + size'[d] = MemSize \/ d + size'[d] \in live')
      <4>1. CASE d = c
        BY <4>1, <2>1, <2>5, <2>7, <2>0
      <4>2. CASE d = n
        <5>1. n + size'[n] = c + size[c] /\ size'[n] > 0
          BY <2>0, <2>1, <2>7
        <5> QED
          BY <4>2, <5>1, <1>1, <2>5 DEF Tiling
      <4>3. CASE d \in live \ {c}
        BY <4>3, <1>1, <2>5, <2>7 DEF Tiling
      <4> QED
        BY <4>1, <4>2, <4>3, <2>5
    <3>3. ASSUME NEW d \in live', NEW e \in live', d < e
          PROVE  d + size'[d] <= e
      <4>1. CASE d \in live \ {c} /\ e \in live
        BY <4>1, <3>3, <1>1, <2>7 DEF Tiling
      <4>2. CASE d \in live \ {c} /\ e = n
        \* d starts before c, and so ends before it
        <5>1. d \in Int /\ size[d] \in Int /\ size'[d] = size[d] /\ d < n
          BY <4>2, <3>3, <1>1, <2>7
        <5>2. ~ (c < d)
          BY <4>2, <5>1, <1>1, <2>0, <2>1 DEF Tiling
        <5>3. d + size[d] <= c
          BY <4>2, <5>1, <5>2, <1>1, <2>1 DEF Tiling
        <5> QED
          BY <4>2, <5>1, <5>3, <2>0, <2>1
      <4>3. CASE d = c
        <5>1. CASE e = n
          BY <4>3, <5>1, <2>0, <2>1, <2>7
        <5>2. CASE e \in live
          <6>1. e \in Int /\ c + size[c] <= e
            BY <4>3, <5>2, <3>3, <1>1 DEF Tiling
          <6> QED
            BY <4>3, <6>1, <2>1, <2>7
        <5> QED
          BY <5>1, <5>2, <2>5
      <4>4. CASE d = n
        <5>1. e \in live /\ e \in Int
          BY <4>4, <3>3, <1>1, <2>0, <2>1, <2>5
        <5>2. c + size[c] <= e
          BY <4>4, <5>1, <3>3, <1>1, <2>0, <2>1 DEF Tiling
        <5> QED
          BY <4>4, <5>1, <5>2, <2>0, <2>1, <2>7
      <4> QED
        BY <4>1, <4>2, <4>3, <4>4, <2>5
    <3> QED
      BY <3>1, <3>2, <3>3 DEF Tiling
  <2>9. live' = IF b < size[c] THEN live \union {c + b} ELSE live
    BY <2>1, <2>5
  <2> QED
    BY <2>3, <2>4, <2>6, <2>7, <2>8, <2>9 DEF Addr
<1> QED
  BY <1>2, <1>3

\* The steps of alloc that found a chunk and cut it.
LEMMA SplitInv ==
    IInv /\ (SplitAddress \/ SplitExact \/ SplitInPlace \/ SplitDetach) => IInv'
<1> SUFFICES ASSUME IInv, SplitAddress \/ SplitExact \/ SplitInPlace \/ SplitDetach
             PROVE  IInv'
  OBVIOUS
<1> DEFINE n == cur + bytes
<1>1. cur \in live /\ bytes \in 1 .. size[cur] /\ Carve(cur, bytes) /\ mark[cur] = 0
  <2>1. cur # NULL /\ Fits(cur, bytes) /\ Carve(cur, bytes) /\ pc = "find"
    BY DEF SplitAddress, SplitExact, SplitInPlace, SplitDetach
  <2>2. cur \in live /\ bytes > 0 /\ bytes \in Requests /\ size[cur] \in Int
    BY <2>1 DEF IInv, Typed, Closure, Addr
  <2> QED
    BY <2>1, <2>2 DEF Fits, Requests
<1>2. /\ live' = IF bytes < size[cur] THEN live \union {n} ELSE live
      /\ size' \in [Addr -> 0 .. MemSize]
      /\ mark' \in [Addr -> {0, 1}]
      /\ size'[cur] = bytes /\ \A d \in live \ {cur} : size'[d] = size[d]
      /\ bytes < size[cur] => n \in Addr /\ n \notin live /\ size'[n] = size[cur] - bytes
      /\ Tiling'
  BY <1>1, CarveTiling
<1> HIDE DEF n
<1>3. /\ live \subseteq Addr /\ cur \in Addr /\ NULL \notin Addr
      /\ next \in [Addr -> Ptr] /\ prev \in [Addr -> Ptr]
      /\ first \in live /\ last \in Ptr /\ sort \in Styles
      /\ \A c \in live : next[c] \in live \union {NULL}
      /\ bytes \in Requests /\ object \in Ptr
      /\ live' \subseteq Addr /\ live \subseteq live'
  <2>1. NULL \notin Addr
    BY DEF Addr
  <2>2. live' \subseteq Addr /\ live \subseteq live'
    BY <1>2 DEF IInv, Typed
  <2> QED
    BY <1>1, <2>1, <2>2 DEF IInv, Typed, Closure
<1>4. CASE SplitExact
  <2>1. UNCHANGED <<sort, first, last, next, prev, live>> /\ bytes = size[cur]
    BY <1>2, <1>3, <1>4 DEF SplitExact, Carve, list
  <2>2. pc' = "client" /\ cur' = NULL /\ bytes' = 0 /\ object' = NULL /\ todo' = <<>>
    BY <1>4 DEF SplitExact, Return
  <2>3. Typed'
    BY <1>2, <1>3, <2>1, <2>2 DEF Typed, Ptr, Requests
  <2>4. Closure'
    BY <1>3, <2>1, <2>2 DEF Closure
  <2>5. AddressLinks'
    BY <1>4, <2>1, <2>2 DEF SplitExact, AddressLinks
  <2> QED
    BY <1>2, <2>3, <2>4, <2>5 DEF IInv
<1>5. CASE SplitAddress
  <2>1. sort = ADDRESS /\ sort' = sort /\ first' = first /\ first = 0
    BY <1>5 DEF SplitAddress, IInv, AddressLinks
  <2>2. pc' = "client" /\ cur' = NULL /\ bytes' = 0 /\ object' = NULL /\ todo' = <<>>
    BY <1>5 DEF SplitAddress, Return
  <2>3. CASE size[cur] = bytes
    <3>1. UNCHANGED <<next, prev, last, live>>
      BY <1>2, <1>3, <1>5, <2>3 DEF SplitAddress, Carve
    <3>2. Typed'
      BY <1>2, <1>3, <2>1, <2>2, <3>1 DEF Typed, Ptr, Requests
    <3>3. Closure'
      BY <1>3, <2>1, <2>2, <3>1 DEF Closure
    <3>4. AddressLinks'
      BY <1>2, <1>3, <2>1, <2>2, <2>3, <3>1 DEF IInv, AddressLinks
    <3> QED
      BY <1>2, <3>2, <3>3, <3>4 DEF IInv
  <2>4. CASE size[cur] # bytes
    <3>1. /\ next' = [next EXCEPT ![cur] = n, ![n] = next[cur]]
          /\ prev' = Store([prev EXCEPT ![n] = cur], next[cur], n)
          /\ last' = IF next[cur] = NULL THEN n ELSE last
      BY <1>5, <2>4 DEF SplitAddress, n
    <3>2. /\ live' = live \union {n} /\ n \in Addr /\ n \notin live
          /\ size'[n] = size[cur] - bytes /\ n = cur + bytes
      BY <1>1, <1>2, <2>4 DEF n, IInv, Typed
    <3>3. next[cur] \in Ptr
      BY <1>3
    <3>4. prev' \in [Addr -> Ptr]
      BY <1>3, <3>1, <3>2, <3>3 DEF Store, Ptr
    <3>5. /\ next' \in [Addr -> Ptr] /\ next'[cur] = n /\ next'[n] = next[cur]
          /\ \A c \in live \ {cur} : next'[c] = next[c]
      BY <1>1, <1>3, <3>1, <3>2, <3>3 DEF Ptr
    <3>6. Typed'
      <4>1. last' \in Ptr /\ first' \in Ptr
        BY <1>3, <2>1, <3>1, <3>2 DEF Ptr
      <4> QED
        BY <1>2, <1>3, <2>1, <2>2, <3>4, <3>5, <4>1 DEF Typed, Ptr, Requests
    <3>7. Closure'
      BY <1>1, <1>3, <2>1, <2>2, <3>2, <3>5 DEF Closure
    <3>8. \A c \in live' : next'[c] = IF c + size'[c] = MemSize THEN NULL ELSE c + size'[c]
      <4>1. next[cur] = IF cur + size[cur] = MemSize THEN NULL ELSE cur + size[cur]
        BY <1>1, <2>1 DEF IInv, AddressLinks
      <4>2. cur + size'[cur] = n /\ n # MemSize /\ n + size'[n] = cur + size[cur]
        BY <1>1, <1>2, <3>2 DEF Addr, IInv, Typed
      <4>3. \A c \in live \ {cur} :
                next'[c] = IF c + size'[c] = MemSize THEN NULL ELSE c + size'[c]
        BY <1>2, <2>1, <3>5 DEF IInv, AddressLinks
      <4> QED
        BY <3>2, <3>5, <4>1, <4>2, <4>3
    <3>9. AddressLinks'
      BY <2>1, <2>2, <3>8 DEF AddressLinks
    <3> QED
      BY <1>2, <3>6, <3>7, <3>9 DEF IInv
  <2> QED
    BY <2>3, <2>4
<1>6. CASE SplitInPlace
  <2>1. /\ UNCHANGED <<sort, first, last, bytes, object>> /\ sort # ADDRESS
        /\ pc' = "insert" /\ todo' = <<n>> /\ cur' = first /\ bytes < size[cur]
        /\ next' = [next EXCEPT ![n] = NULL] /\ prev' = [prev EXCEPT ![n] = NULL]
    BY <1>1, <1>6 DEF SplitInPlace, list, n, IInv, Typed
  <2>2. live' = live \union {n} /\ n \in Addr
    BY <1>2, <2>1
  <2>3. Typed'
    BY <1>2, <1>3, <2>1, <2>2 DEF Typed, Ptr
  <2>4. Closure'
    BY <1>3, <2>1, <2>2 DEF Closure
  <2>5. AddressLinks'
    BY <2>1 DEF AddressLinks
  <2> QED
    BY <1>2, <2>3, <2>4, <2>5 DEF IInv
<1>7. CASE SplitDetach
  <2>1. /\ UNCHANGED <<sort, last, bytes, object>> /\ sort # ADDRESS
        /\ pc' = "insert" /\ cur' = first' /\ size[cur] > bytes
        /\ next' = Detached(next, prev[cur], next[cur], cur, n)
        /\ prev' = Detached(prev, next[cur], prev[cur], cur, n)
        /\ first' = IF prev[cur] = NULL THEN next[cur] ELSE first
        /\ prev[cur] = NULL => next[cur] # NULL
    BY <1>3, <1>7 DEF SplitDetach, n
  <2>2. todo' = <<cur, n>> \/ todo' = <<n, cur>>
    BY <1>7 DEF SplitDetach, n
  <2>3. live' = live \union {n} /\ n \in Addr /\ n \notin live
    BY <1>1, <1>2, <2>1 DEF IInv, Typed
  <2>4. todo' \in Seq(Addr) /\ Len(todo') = 2 /\ \A i \in 1 .. 2 : todo'[i] \in live'
    <3>1. CASE todo' = <<cur, n>>
      BY <1>1, <1>3, <2>3, <3>1
    <3>2. CASE todo' = <<n, cur>>
      BY <1>1, <1>3, <2>3, <3>2
    <3> QED
      BY <2>2, <3>1, <3>2
  <2>5. first' \in live /\ next[cur] \in Ptr /\ prev[cur] \in Ptr
    BY <1>1, <1>3, <2>1
  <2>6. next' \in [Addr -> Ptr] /\ prev' \in [Addr -> Ptr]
    BY <1>3, <2>1, <2>5 DEF Detached, Store, Ptr
  <2>7. \A c \in live' : next'[c] \in live' \union {NULL}
    <3>1. next'[n] = NULL /\ next'[cur] = NULL
      BY <1>3, <2>1, <2>3, <2>5 DEF Detached, Store
    <3>2. \A c \in live \ {cur} : next'[c] \in {next[c], next[cur]}
      BY <1>3, <2>1, <2>3, <2>5 DEF Detached, Store
    <3> QED
      BY <1>1, <1>3, <2>3, <3>1, <3>2
  <2>8. Typed'
    BY <1>2, <1>3, <2>1, <2>3, <2>4, <2>5, <2>6 DEF Typed, Ptr
  <2>9. Closure'
    BY <2>1, <2>3, <2>4, <2>5, <2>7, <1>3 DEF Closure
  <2>10. AddressLinks'
    BY <2>1 DEF AddressLinks
  <2> QED
    BY <1>2, <2>8, <2>9, <2>10 DEF IInv
<1> QED
  BY <1>4, <1>5, <1>6, <1>7

\* The steps that put a piece into the list.
LEMMA InsertInv == IInv /\ (InsertFront \/ InsertBefore \/ InsertLast) => IInv'
<1> SUFFICES ASSUME IInv, InsertFront \/ InsertBefore \/ InsertLast PROVE IInv'
  OBVIOUS
<1> DEFINE x == Head(todo)
<1>1. pc = "insert" /\ UNCHANGED <<sort, live, size, mark, refcount>> /\ Inserted
  BY DEF InsertFront, InsertBefore, InsertLast
<1>2. /\ live \subseteq Addr /\ NULL \notin Addr
      /\ next \in [Addr -> Ptr] /\ prev \in [Addr -> Ptr]
      /\ first \in live /\ last \in Ptr /\ sort \in Styles
      /\ \A c \in live : next[c] \in live \union {NULL}
      /\ bytes \in Requests /\ object \in Ptr
      /\ cur \in live
  BY <1>1 DEF IInv, Typed, Closure, Addr
<1>3. /\ todo \in Seq(Addr) /\ Len(todo) \in {1, 2} /\ \A i \in 1 .. Len(todo) : todo[i] \in live
      /\ sort # ADDRESS
  BY <1>1 DEF IInv, Typed, Closure, AddressLinks
<1>4. x \in live
  BY <1>3
<1> HIDE DEF x
<1>5. /\ next' \in [Addr -> Ptr] /\ prev' \in [Addr -> Ptr]
      /\ \A c \in live : next'[c] \in live \union {NULL}
      /\ first' \in live /\ last' \in Ptr
  <2>1. CASE InsertFront
    BY <1>2, <1>4, <2>1 DEF InsertFront, x, Ptr
  <2>2. CASE InsertBefore
    BY <1>2, <1>4, <2>2 DEF InsertBefore, x, Ptr
  <2>3. CASE InsertLast
    BY <1>2, <1>4, <2>3 DEF InsertLast, x, Ptr
  <2> QED
    BY <2>1, <2>2, <2>3
<1>6. /\ todo' \in Seq(Addr) /\ \A i \in 1 .. Len(todo') : todo'[i] \in live
      /\ cur' \in live \union {NULL} /\ bytes' \in Requests /\ object' \in Ptr
      /\ pc' \in {"client", "insert"}
      /\ pc' = "insert" => cur' # NULL /\ Len(todo') \in {1, 2}
      /\ pc' # "insert" => todo' = <<>>
  <2>1. CASE Len(todo) = 1
    BY <1>1, <2>1 DEF Inserted, Return, Requests, Ptr
  <2>2. CASE Len(todo) = 2
    <3>1. todo' = Tail(todo) /\ cur' = first' /\ UNCHANGED <<pc, bytes, object>>
      BY <1>1, <2>2 DEF Inserted
    <3>2. todo' \in Seq(Addr) /\ Len(todo') = 1 /\ todo'[1] = todo[2]
      BY <1>3, <2>2, <3>1
    <3> QED
      BY <1>1, <1>2, <1>3, <1>5, <2>2, <3>1, <3>2
  <2> QED
    BY <1>3, <2>1, <2>2
<1>7. Typed'
  BY <1>1, <1>2, <1>5, <1>6 DEF IInv, Typed, Ptr
<1>8. Tiling'
  BY <1>1 DEF IInv, Tiling
<1>9. Closure'
  BY <1>1, <1>5, <1>6 DEF Closure
<1>10. AddressLinks'
  BY <1>1, <1>3, <1>6 DEF AddressLinks
<1> QED
  BY <1>7, <1>8, <1>9, <1>10 DEF IInv

\* The step of free that finds the chunk.
LEMMA LookupFoundInv == IInv /\ LookupFound => IInv'
<1> SUFFICES ASSUME IInv, LookupFound PROVE IInv'
  OBVIOUS
<1>1. /\ UNCHANGED <<sort, first, last, live, next, prev, size, refcount>>
      /\ mark' = [mark EXCEPT ![cur] = 0]
      /\ pc = "lookup"
  BY DEF LookupFound, list
<1>2. IF sort = ADDRESS
      THEN pc' = "concat" /\ cur' = first /\ UNCHANGED <<bytes, object, todo>>
      ELSE pc' = "client" /\ cur' = NULL /\ bytes' = 0 /\ object' = NULL /\ todo' = <<>>
  BY DEF LookupFound, Return
<1>3. mark' \in [Addr -> {0, 1}]
  BY <1>1 DEF IInv, Typed
<1>4. /\ pc' \in {"client", "concat"} /\ (pc' = "concat" => sort = ADDRESS)
      /\ cur' \in live \union {NULL} /\ bytes' \in Requests /\ object' \in Ptr
      /\ todo' = <<>>
  <2>1. CASE sort = ADDRESS
    BY <1>1, <1>2, <2>1 DEF IInv, Typed, Closure
  <2>2. CASE sort # ADDRESS
    BY <1>2, <2>2 DEF Ptr, Requests
  <2> QED
    BY <2>1, <2>2
<1> QED
  BY <1>1, <1>3, <1>4, MoveInv DEF list

\* The step of memConcat that merges two chunks.
LEMMA ConcatMergeInv == IInv /\ ConcatMerge => IInv'
<1> SUFFICES ASSUME IInv, ConcatMerge PROVE IInv'
  OBVIOUS
<1>0. PICK temp : temp = next[cur]
  OBVIOUS
<1>1. /\ pc = "concat" /\ cur # NULL /\ temp # NULL
      /\ last' = IF last = temp THEN cur ELSE last
      /\ size' = [size EXCEPT ![cur] = size[cur] + size[temp], ![temp] = 0]
      /\ next' = [next EXCEPT ![cur] = next[temp], ![temp] = NULL]
      /\ prev' = [prev EXCEPT ![temp] = NULL]
      /\ refcount' = [refcount EXCEPT ![temp] = 0]
      /\ live' = live \ {temp}
      /\ cur' = first
      /\ UNCHANGED <<sort, first, mark, pc, bytes, object, todo>>
  BY <1>0 DEF ConcatMerge
<1>2. /\ live \subseteq 0 .. MemSize - 1
      /\ size \in [0 .. MemSize - 1 -> 0 .. MemSize]
      /\ next \in [0 .. MemSize - 1 -> Ptr] /\ NULL \notin 0 .. MemSize - 1
      /\ Tiling
      /\ cur \in live /\ first = 0 /\ sort = ADDRESS
      /\ \A c \in live : next[c] = IF c + size[c] = MemSize THEN NULL ELSE c + size[c]
  BY <1>1 DEF IInv, Typed, Addr, Closure, AddressLinks
<1>3. /\ temp \in live /\ temp = cur + size[cur] /\ cur < temp
      /\ cur \in Int /\ temp \in Int /\ size[cur] \in Int /\ size[temp] \in Int
      /\ temp + size[temp] <= MemSize /\ size[cur] > 0 /\ size[temp] > 0
  BY <1>0, <1>1, <1>2 DEF Tiling
<1>4. size[cur] + size[temp] \in 0 .. MemSize
  BY <1>2, <1>3
<1>5. /\ size' \in [0 .. MemSize - 1 -> 0 .. MemSize]
      /\ size'[cur] = size[cur] + size[temp]
      /\ next'[cur] = next[temp]
      /\ \A c \in live' \ {cur} : size'[c] = size[c] /\ next'[c] = next[c]
  BY <1>1, <1>2, <1>3, <1>4
<1>6. cur + size'[cur] = temp + size[temp]
  <2>1. \A a, b, d \in Int : a + (b + d) = (a + b) + d
    OBVIOUS
  <2>2. cur + (size[cur] + size[temp]) = (cur + size[cur]) + size[temp]
    BY <1>3, <2>1
  <2> QED
    BY <1>3, <1>5, <2>2
<1>7. next[temp] \in Ptr /\ next' \in [0 .. MemSize - 1 -> Ptr]
  <2>1. next[temp] \in Ptr /\ NULL \in Ptr
    BY <1>2, <1>3 DEF Ptr
  <2> QED
    BY <1>1, <1>2, <2>1
<1>8. Typed'
  <2>1. /\ last' \in Ptr /\ first \in Ptr
        /\ prev' \in [Addr -> Ptr]
    BY <1>1, <1>2, <1>3 DEF IInv, Typed, Ptr, Addr
  <2> QED
    BY <1>1, <1>5, <1>7, <2>1 DEF IInv, Typed, Addr, Ptr
<1>9. Tiling'
  <2>1. 0 \in live'
    BY <1>1, <1>2, <1>3 DEF Tiling
  <2>2. ASSUME NEW c \in live'
        PROVE  size'[c] > 0 /\ (c + size'[c] = MemSize \/ c + size'[c] \in live')
    <3>1. CASE c = cur
      <4>1. c + size'[c] = temp + size[temp]
        BY <1>6, <3>1
      <4>2. temp + size[temp] = MemSize \/ temp + size[temp] \in live'
        <5>1. temp + size[temp] = MemSize \/ temp + size[temp] \in live
          BY <1>2, <1>3 DEF Tiling
        <5>2. temp + size[temp] # temp
          BY <1>3
        <5> QED
          BY <1>1, <5>1, <5>2
      <4> QED
        BY <1>3, <1>5, <3>1, <4>1, <4>2
    <3>2. CASE c # cur
      \* a chunk that ended at temp would overlap cur
      <4>1. c + size[c] # temp
        BY <1>1, <1>2, <1>3, <3>2 DEF Tiling
      <4> QED
        BY <1>1, <1>2, <1>5, <3>2, <4>1 DEF Tiling
    <3> QED
      BY <3>1, <3>2
  <2>3. ASSUME NEW c \in live', NEW d \in live', c < d
        PROVE  c + size'[c] <= d
    <3>1. CASE c = cur
      <4>1. temp < d
        BY <1>1, <1>2, <1>3, <2>3, <3>1 DEF Tiling
      <4>2. temp + size[temp] <= d
        BY <1>1, <1>2, <1>3, <4>1 DEF Tiling
      <4>3. cur + size'[cur] = temp + size[temp]
        BY <1>6
      <4> QED
        BY <3>1, <4>2, <4>3
    <3>2. CASE c # cur
      <4>1. c \in live /\ d \in live /\ size'[c] = size[c]
        BY <1>1, <1>5, <3>2
      <4> QED
        BY <1>2, <2>3, <4>1 DEF Tiling
    <3> QED
      BY <3>1, <3>2
  <2> QED
    BY <2>1, <2>2, <2>3 DEF Tiling
<1>10. \A c \in live' : next'[c] = IF c + size'[c] = MemSize THEN NULL ELSE c + size'[c]
  <2>1. ASSUME NEW c \in live', c # cur
        PROVE  next'[c] = IF c + size'[c] = MemSize THEN NULL ELSE c + size'[c]
    BY <1>1, <1>2, <1>5, <2>1
  <2> QED
    BY <1>2, <1>3, <1>5, <1>6, <2>1
<1>11. Closure'
  <2>1. \A c \in live' : next'[c] \in live' \union {NULL}
    BY <1>9, <1>10 DEF Tiling
  <2>2. first \in live'
    BY <1>1, <1>2, <1>9 DEF Tiling
  <2>3. todo' = <<>> /\ first' = first /\ cur' = first /\ pc' = "concat"
    BY <1>1 DEF IInv, Closure
  <2> QED
    BY <2>1, <2>2, <2>3 DEF Closure
<1>12. AddressLinks'
  BY <1>1, <1>2, <1>10 DEF AddressLinks
<1> QED
  BY <1>8, <1>9, <1>11, <1>12 DEF IInv

\* IInv is an invariant of the manager, ...
LEMMA InvStep == IInv /\ [Next]_vars => IInv'
<1>1. ASSUME IInv, UNCHANGED vars PROVE IInv'
  <2>1. UNCHANGED <<list, chunk, call>>
    BY <1>1 DEF vars
  <2>2. Typed' /\ Tiling'
    BY <1>1, <2>1 DEF IInv, Typed, Tiling, list, chunk, call
  <2>3. Closure' /\ AddressLinks'
    BY <1>1, <2>1 DEF IInv, Closure, AddressLinks, list, chunk, call
  <2> QED
    BY <2>2, <2>3 DEF IInv
<1>2. ASSUME IInv, Next PROVE IInv'
  BY <1>2, WalkingInv, SplitInv, InsertInv, LookupFoundInv, ConcatMergeInv
     DEF Next, Code, Find, Insert, Lookup, Concat, Walking
<1> QED
  BY <1>1, <1>2

\* The inductive invariant holds at every step of alloc, free and memConcat.
THEOREM Invariance == Spec => []IInv
  BY InitInv, InvStep, PTL DEF Spec

\* What alloc and memConcat write into the reference counts, whatever the
\* range of the counts is: one, or the zero of a struct that is new or gone.
LEMMA CountsTyped ==
    ASSUME NEW S, {0, 1} \subseteq S, refcount \in [Addr -> S],
           \/ SplitAddress \/ SplitExact \/ SplitInPlace \/ SplitDetach
           \/ ConcatMerge
    PROVE  refcount' \in [Addr -> S]
<1>1. CASE ConcatMerge
  BY <1>1 DEF ConcatMerge
<1>2. CASE Carve(cur, bytes)
  BY <1>2 DEF Carve
<1> QED
  BY <1>1, <1>2 DEF SplitAddress, SplitExact, SplitInPlace, SplitDetach

\* Every field, pointer and local keeps to its range, whatever the calls.
THEOREM TypeCorrectness == Spec => []TypeOK
<1> DEFINE Ranges == /\ refcount \in [Addr -> {0, 1}]
                    /\ pc \in {"client", "find", "insert", "lookup", "concat"}
<1>1. Init => Ranges
  BY DEF Init, Fresh
<1>2. Ranges /\ [Next]_vars => Ranges'
  <2> SUFFICES ASSUME Ranges, [Next]_vars PROVE Ranges'
    OBVIOUS
  <2>1. CASE \/ SplitAddress \/ SplitExact \/ SplitInPlace \/ SplitDetach \/ ConcatMerge
    <3>1. refcount' \in [Addr -> {0, 1}]
      BY <2>1, CountsTyped
    <3>2. pc' \in {"client", "find", "insert", "lookup", "concat"}
      BY <2>1 DEF SplitAddress, SplitExact, SplitInPlace, SplitDetach, ConcatMerge, Return
    <3> QED
      BY <3>1, <3>2
  <2>2. CASE Client \/ FindNext \/ FindFail \/ Insert \/ Lookup \/ ConcatNext \/ ConcatDone
    BY <2>2 DEF Client, AllocInt, FreeMem, FindNext, FindFail, Insert, InsertFront,
                InsertBefore, InsertLast, InsertWalk, Inserted, Lookup, LookupNext,
                LookupFail, LookupFound, ConcatNext, ConcatDone, Return, chunk, call
  <2>3. CASE UNCHANGED vars
    BY <2>3 DEF vars, chunk, call
  <2> QED
    BY <2>1, <2>2, <2>3 DEF Next, Code, Find, Concat
<1>3. IInv /\ Ranges => TypeOK
  BY DEF IInv, Typed, TypeOK
<1> QED
  BY <1>1, <1>2, <1>3, Invariance, PTL DEF Spec

\* The chunks always tile the arena: no split or merge loses a word of it or
\* gives one to two chunks.
THEOREM TilingInvariant == Spec => []Tiling
<1>1. IInv => Tiling
  BY DEF IInv
<1> QED
  BY <1>1, Invariance, PTL

\* What memConcat has passed stays coalesced, and so does a list it has left.
LEMMA CoalescedStep == IInv /\ CoalescedUpTo /\ Next => CoalescedUpTo'
<1> SUFFICES ASSUME IInv, CoalescedUpTo, Next, sort' = ADDRESS,
                    NEW c \in live', c + size'[c] \in live',
                    pc' = "concat" /\ cur' # NULL => c < cur'
             PROVE  mark'[c] = 1 \/ mark'[c + size'[c]] = 1
  BY DEF CoalescedUpTo
<1>1. sort = ADDRESS /\ pc # "insert"
  BY DEF IInv, AddressLinks, Next, Client, Code, Find, Insert, Lookup, Concat,
         AllocInt, FreeMem, FindNext, FindFail, SplitAddress, SplitExact, SplitInPlace,
         SplitDetach, InsertFront, InsertBefore, InsertLast, InsertWalk, LookupNext,
         LookupFail, LookupFound, ConcatMerge, ConcatNext, ConcatDone, list
<1>2. /\ live \subseteq 0 .. MemSize - 1 /\ Tiling
      /\ size \in [0 .. MemSize - 1 -> 0 .. MemSize]
      /\ mark \in [0 .. MemSize - 1 -> {0, 1}] /\ NULL \notin 0 .. MemSize - 1
      /\ first = 0 /\ cur \in live \union {NULL}
      /\ \A d \in live : next[d] = IF d + size[d] = MemSize THEN NULL ELSE d + size[d]
  BY <1>1 DEF IInv, Typed, Addr, Closure, AddressLinks
<1>3. \A d \in live : d + size[d] \in live /\ (pc = "concat" /\ cur # NULL => d < cur)
          => mark[d] = 1 \/ mark[d + size[d]] = 1
  BY <1>1 DEF CoalescedUpTo
<1>4. CASE Client \/ FindNext \/ FindFail \/ LookupNext \/ LookupFail
  <2>1. UNCHANGED <<live, size, mark>> /\ pc # "concat"
    BY <1>4 DEF Client, AllocInt, FreeMem, FindNext, FindFail, LookupNext, LookupFail, chunk
  <2> QED
    BY <1>3, <2>1
<1>5. CASE SplitAddress
  <2>1. /\ cur \in live /\ bytes \in 1 .. size[cur] /\ Carve(cur, bytes)
        /\ mark[cur] = 0 /\ pc = "find"
    BY <1>5 DEF SplitAddress, Fits, IInv, Typed, Closure, Requests, Addr
  <2>2. CASE c = cur
    BY <1>2, <2>1, <2>2 DEF Carve, IInv, Typed, Addr
  <2>3. CASE c + size'[c] = cur
    BY <1>2, <2>1, <2>3 DEF Carve, IInv, Typed, Addr
  <2>4. CASE c # cur /\ c + size'[c] # cur
    <3> DEFINE n == cur + bytes
    <3>1. /\ live' = IF bytes < size[cur] THEN live \union {n} ELSE live
          /\ bytes < size[cur] => n \in Addr /\ n \notin live /\ size'[n] = size[cur] - bytes
      BY <2>1, CarveTiling
    <3>2. \A d \in live \ {cur} : size'[d] = size[d] /\ mark'[d] = mark[d]
      BY <2>1, CarveTiling
    <3>3. CASE c \in live
      \* both chunks were there before, and neither is cur
      <4>1. c + size[c] = c + size'[c] /\ c + size[c] # MemSize
        BY <1>2, <2>4, <3>1, <3>2, <3>3 DEF Addr
      <4>2. c + size[c] \in live \ {cur}
        BY <1>2, <2>4, <3>3, <4>1 DEF Tiling
      <4> QED
        BY <1>3, <2>1, <2>4, <3>2, <3>3, <4>1, <4>2
    <3>4. CASE c \notin live
      \* c is what cur had over; the chunk after it came after cur, and was used
      <4>1. c = n /\ size'[c] = size[cur] - bytes
        BY <3>1, <3>4
      <4>2. c + size'[c] = cur + size[cur] /\ cur + size[cur] # n
        BY <1>2, <2>1, <3>1, <3>4, <4>1
      <4>3. cur + size[cur] \in live \ {cur}
        BY <1>2, <2>4, <3>1, <4>2
      <4>4. mark[cur + size[cur]] = 1
        BY <1>3, <2>1, <4>3
      <4> QED
        BY <3>2, <4>2, <4>3, <4>4
    <3> QED
      BY <3>3, <3>4
  <2> QED
    BY <2>2, <2>3, <2>4
<1>6. CASE LookupFound
  <2>1. pc' = "concat" /\ cur' = 0 /\ live' = live
    BY <1>1, <1>2, <1>6 DEF LookupFound
  <2> QED
    BY <1>2, <2>1
<1>7. CASE ConcatMerge
  <2>1. pc' = "concat" /\ cur' = 0 /\ live' \subseteq live
    BY <1>1, <1>2, <1>7 DEF ConcatMerge
  <2> QED
    BY <1>2, <2>1
<1>8. CASE ConcatNext
  <2>1. /\ pc = "concat" /\ cur # NULL /\ cur' = next[cur] /\ next[cur] # NULL
        /\ mark[cur] # 0 \/ mark[next[cur]] # 0
        /\ UNCHANGED <<live, size, mark, pc>>
    BY <1>8 DEF ConcatNext, Mergeable, chunk
  <2>2. cur \in live /\ next[cur] = cur + size[cur] /\ next[cur] \in live
    BY <1>2, <2>1 DEF Tiling
  <2>3. c < cur \/ c = cur
    \* no chunk starts between cur and its neighbour
    BY <1>2, <2>1, <2>2 DEF Tiling
  <2> QED
    BY <1>2, <1>3, <2>1, <2>2, <2>3
<1>9. CASE ConcatDone
  <2>1. /\ pc = "concat" /\ (cur = NULL \/ next[cur] = NULL)
        /\ UNCHANGED <<live, size, mark>>
    BY <1>9 DEF ConcatDone, chunk
  <2>2. cur # NULL => c < cur
    \* cur is the last chunk of the arena, and c is not
    <3> SUFFICES ASSUME cur # NULL PROVE c < cur
      OBVIOUS
    <3>1. cur \in live /\ cur + size[cur] = MemSize
      BY <1>2, <2>1
    <3>2. c \in live /\ c + size[c] \in live /\ c \in Int /\ cur \in Int
      BY <1>2, <2>1, <3>1
    <3>3. c + size[c] < MemSize
      BY <1>2, <3>2
    <3>4. ~ (cur < c)
      BY <1>2, <3>1, <3>2, <3>3 DEF Tiling
    <3> QED
      BY <3>1, <3>2, <3>3, <3>4
  <2> QED
    BY <1>3, <2>1, <2>2
<1> QED
  BY <1>1, <1>4, <1>5, <1>6, <1>7, <1>8, <1>9
     DEF Next, Code, Find, Insert, Lookup, Concat, SplitExact, SplitInPlace, SplitDetach,
         InsertFront, InsertBefore, InsertLast, InsertWalk

\* In address order no two neighbours are both free between two calls: what
\* free() promises the next alloc(), whatever was allocated and freed before.
THEOREM CoalescedInvariant == Spec => []Coalesced
<1>1. Init => CoalescedUpTo
  BY DEF Init, Fresh, CoalescedUpTo, Addr
<1>2. IInv /\ CoalescedUpTo /\ [Next]_vars => CoalescedUpTo'
  <2>1. CoalescedUpTo /\ UNCHANGED vars => CoalescedUpTo'
    BY DEF CoalescedUpTo, vars, list, chunk, call
  <2> QED
    BY <2>1, CoalescedStep
<1>3. CoalescedUpTo => Coalesced
  BY DEF CoalescedUpTo, Coalesced
<1> QED
  BY <1>1, <1>2, <1>3, Invariance, PTL DEF Spec
=============================================================================
