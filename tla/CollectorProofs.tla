-------------------------- MODULE CollectorProofs ---------------------------
(***************************************************************************)
(* Mark and sweep: what the marks and the count of collect mean while its  *)
(* loops go over the list, and that collect and gc.alloc keep the arena    *)
(* and the list in order.                                                  *)
(***************************************************************************)
EXTENDS Collector, RefCountProofs

USE MemSizeAssumption, StylesAssumption, NullAssumption, RefCountAssumption, CollectorAssumption
USE DEF ASCENDING_SIZE, DESCENDING_SIZE, ADDRESS

\* The loops of collect that come before the merging.
Collecting == {"markZero", "markStack", "trace", "traverse", "findChunk", "sweep"}

\* The chunks that the loop over the list has dealt with.
Passed(pos) == { c \in live : cur = NULL \/ pos[c] < pos[cur] }

Unmarked(S) == { c \in S : mark[c] = 0 }

\* A word of the stack points into c, or looks as if it did.
Rooted(c)    == \E p \in Words(c) : handles[p] > 0
StackHits(c) == \E p \in Words(c) : handles[p] > 0 \/ p \in Leftovers

----------------------------------------------------------------------------
GCTyped ==
    /\ data \in [Addr -> Ptr \union {Foreign}]
    /\ pc \in {"client", "find", "insert", "concat", "collected"} \union Collecting
    /\ pc = "collected" => sort # ADDRESS
    /\ typed \in BOOLEAN /\ (typed => pc # "client" /\ bytes > 0)
    /\ pc \in {"client", "find", "insert"} => count = 0 /\ before = {}
    /\ before \subseteq Addr

\* The calls of traverseChunk under way.
VisitsInv ==
    /\ visits \in Seq(Frame)
    /\ visits = <<>> <=> pc \notin {"traverse", "findChunk"}
    /\ \A i \in 1 .. Len(visits) :
        /\ visits[i].chunk \in Marked
        /\ visits[i].chunk <= visits[i].word
        /\ visits[i].word <= visits[i].chunk + size[visits[i].chunk]
        /\ i < Len(visits) \/ pc = "findChunk"
            => visits[i].word < visits[i].chunk + size[visits[i].chunk]
    /\ pc = "traverse" => cur # NULL
    /\ pc = "findChunk" => InWindow(Visit.word)

\* What the scan of the stack has found keeps its mark.
RootsInv ==
    /\ pc = "markStack" => \A pos \in [Addr -> Int] : Runs(pos) =>
        \A c \in Passed(pos) : Rooted(c) => mark[c] = 1
    /\ pc \in {"trace", "traverse", "findChunk", "sweep", "collected"} =>
        \A c \in live : Rooted(c) => mark[c] = 1

\* What else the marks are in the first two loops.
MarksInv ==
    /\ pc = "markZero" => \A pos \in [Addr -> Int] : Runs(pos) =>
        \A c \in live : mark[c] = 1 <=> c \in before \ Passed(pos)
    /\ pc = "markStack" => \A c \in Marked : StackHits(c)

\* What collect has counted so far.
CountInv ==
    /\ pc \in Collecting => before \subseteq live
    /\ pc = "markZero" => \A pos \in [Addr -> Int] : Runs(pos) =>
        count = Cardinality(Passed(pos) \ before)
    /\ pc \in {"markStack", "trace", "traverse", "findChunk"} =>
        count = Cardinality(live \ before)
    /\ pc = "sweep" => \A pos \in [Addr -> Int] : Runs(pos) =>
        count = Cardinality(live \ before) - Cardinality(Unmarked(Passed(pos)))
    /\ pc \in {"concat", "collected"} => count = Cardinality(Marked) - Cardinality(before)

\* No two neighbours were free when collect began.
WereCoalesced ==
    sort = ADDRESS => \A c \in live :
        c + size[c] \in live => c \in before \/ c + size[c] \in before

\* The collection of a gc.alloc that found no room: as long as the marks are
\* what they were, there is none.
StarvedInv ==
    typed /\ (pc \in Collecting \/ (pc \in {"concat", "collected"} /\ Marked = before)) =>
        /\ \A c \in live \ before : size[c] < bytes
        /\ WereCoalesced

GCCoalesced == pc \notin Collecting => CoalescedUpTo

GCBase == IInv /\ ListInv /\ GCTyped /\ VisitsInv
GCInv  == GCCoalesced /\ MarksInv /\ CountInv /\ StarvedInv

----------------------------------------------------------------------------
(* The heap and the list under collect. *)

\* What the steps of collect have in common.
LEMMA CollectMoves ==
    ASSUME IInv, ListInv, pc # "insert",
           UNCHANGED <<list, live, next, prev, size, bytes, object, todo>>,
           mark' \in [Addr -> {0, 1}], cur' \in live \union {NULL},
           pc' \notin {"find", "insert"}, pc' = "concat" => sort = ADDRESS
    PROVE  IInv' /\ ListInv'
<1>1. todo' = <<>> /\ bytes' \in Requests /\ object' \in Ptr
  BY DEF IInv, Typed, Closure
<1>2. IInv'
  BY <1>1, MoveInv
<1> QED
  BY <1>2, ListKept

LEMMA GCBaseInit == GCInit => GCBase
<1> SUFFICES ASSUME GCInit PROVE GCBase
  OBVIOUS
<1>1. Init /\ Unused /\ Idle
  BY DEF GCInit, RCInit
<1>2. IInv /\ ListInv
  BY <1>1, InitInv, ListInit
<1>3. GCTyped
  BY <1>1 DEF Init, Fresh, Unused, Idle, GCTyped, Ptr, Collecting
<1>4. VisitsInv
  BY <1>1 DEF Init, Fresh, Idle, VisitsInv
<1> QED
  BY <1>2, <1>3, <1>4 DEF GCBase

\* The program's steps between calls that leave the heap alone.
LEMMA QuietBase ==
    ASSUME GCBase, pc = "client", UNCHANGED <<vars, gc>>,
           data' \in [Addr -> Ptr \union {Foreign}]
    PROVE  GCBase'
<1>1. UNCHANGED <<list, live, next, prev, size, mark, pc, cur, bytes, object, todo,
                  count, visits, typed, before>>
  BY DEF vars, chunk, call, gc
<1>2. /\ mark \in [Addr -> {0, 1}] /\ cur \in live \union {NULL}
  BY DEF GCBase, IInv, Typed, Closure
<1>3. IInv' /\ ListInv'
  BY <1>1, <1>2, CollectMoves DEF GCBase
<1>4. GCTyped'
  BY <1>1 DEF GCBase, GCTyped, list
<1>5. VisitsInv'
  BY <1>1 DEF GCBase, VisitsInv
<1> QED
  BY <1>3, <1>4, <1>5 DEF GCBase

LEMMA ProgramGCBase == GCBase /\ GCProgram => GCBase'
<1> SUFFICES ASSUME GCBase, GCProgram PROVE GCBase'
  OBVIOUS
<1>1. /\ live \subseteq Addr /\ data \in [Addr -> Ptr \union {Foreign}]
      /\ \A c \in live : Words(c) \subseteq Addr
  BY WordsOfChunk DEF GCBase, GCTyped, IInv, Typed, Words
<1>2. ASSUME NEW b \in AllocSizes, AllocInt(b), UNCHANGED <<program, frames, count, visits, before>>,
             typed' \in BOOLEAN
      PROVE  GCBase'
  <2>1. /\ b \in Requests /\ b > 0 /\ b \in Int
    BY DEF Requests
  <2>2. Next
    BY <1>2, <2>1 DEF Next, Client
  <2>3. IInv' /\ ListInv'
    BY <2>2, InvStep, ListStep DEF GCBase
  <2>4. /\ pc = "client" /\ pc' = "find" /\ bytes' = b /\ UNCHANGED <<list, chunk>>
    BY <1>2, <2>1 DEF AllocInt
  <2>5. GCTyped'
    BY <1>2, <2>1, <2>4 DEF GCBase, GCTyped, program, list
  <2>6. VisitsInv'
    BY <1>2, <2>4 DEF GCBase, VisitsInv
  <2> QED
    BY <2>3, <2>5, <2>6 DEF GCBase
<1>3. CASE GCAlloc \/ AllocChar
  BY <1>2, <1>3 DEF GCAlloc, AllocChar, Alloc, gc, GCBase, GCTyped
<1>4. CASE Collect
  <2>1. /\ pc = "client" /\ pc' = "markZero" /\ cur' = first /\ before' = Used
        /\ UNCHANGED <<list, live, next, prev, size, mark, bytes, object, todo, data,
                       count, visits, typed>>
    BY <1>4 DEF Collect, Begin, chunk, program
  <2>2. mark \in [Addr -> {0, 1}] /\ first \in live
    BY DEF GCBase, IInv, Typed, Closure
  <2>3. IInv' /\ ListInv'
    BY <2>1, <2>2, CollectMoves DEF GCBase
  <2>4. GCTyped'
    BY <1>1, <2>1 DEF GCBase, GCTyped, Collecting, Used
  <2>5. VisitsInv'
    BY <2>1 DEF GCBase, VisitsInv
  <2> QED
    BY <2>3, <2>4, <2>5 DEF GCBase
<1>5. ASSUME NEW p \in Addr, Drop(p) PROVE GCBase'
  BY <1>1, <1>5, QuietBase DEF Drop
<1>6. ASSUME NEW d \in live, NEW w \in Words(d), UNCHANGED gc,
             (\E c \in live : \E p \in Words(c) : StorePointer(d, w, c, p)) \/ TakePointer(d, w)
      PROVE  GCBase'
  <2>1. data' \in [Addr -> Ptr \union {Foreign}]
    BY <1>1, <1>6 DEF StorePointer, TakePointer, Ptr
  <2> QED
    BY <1>6, <2>1, QuietBase DEF StorePointer, TakePointer
<1>7. ASSUME NEW d \in live, NEW w \in Words(d), StoreForeign(d, w) PROVE GCBase'
  <2>1. data' \in [Addr -> Ptr \union {Foreign}]
    BY <1>1, <1>7 DEF StoreForeign
  <2> QED
    BY <1>7, <2>1, QuietBase DEF StoreForeign
<1> QED
  BY <1>3, <1>4, <1>5, <1>6, <1>7 DEF GCProgram

\* alloc, and the merging, which are steps of the allocator.
LEMMA AllocatorGCBase == GCBase /\ (GCAllocStep \/ GCConcat) => GCBase'
<1> SUFFICES ASSUME GCBase, GCAllocStep \/ GCConcat PROVE GCBase'
  OBVIOUS
<1>1. Next
  BY DEF GCAllocStep, AllocStep, GCConcat, Next, Code, Find, Concat
<1>2. IInv' /\ ListInv'
  BY <1>1, InvStep, ListStep DEF GCBase
<1>3. CASE GCAllocStep
  <2>1. /\ pc \in {"find", "insert"} /\ pc' \in {"client", "find", "insert"}
        /\ pc' # "client" => bytes' = bytes
    BY <1>3 DEF GCAllocStep, AllocStep, FindNext, FindFail, SplitAddress, SplitExact, SplitInPlace,
                SplitDetach, Insert, InsertFront, InsertBefore, InsertLast, InsertWalk,
                Inserted, Return
  <2>2. data' \in [Addr -> Ptr \union {Foreign}]
    <3>1. CASE data' = data
      BY <3>1 DEF GCBase, GCTyped
    <3>2. CASE data' = [w \in Addr |-> IF Initialises /\ w \in cur .. cur + bytes - 1
                                      THEN NULL ELSE data[w]]
      BY <3>2 DEF GCBase, GCTyped, Ptr
    <3> QED
      BY <1>3, <3>1, <3>2 DEF GCAllocStep, AllocStep, program
  <2>3. UNCHANGED <<count, visits, before>> /\ typed' = (typed /\ pc' # "client")
    BY <1>3 DEF GCAllocStep
  <2>4. GCTyped'
    BY <2>1, <2>2, <2>3 DEF GCBase, GCTyped
  <2>5. VisitsInv'
    BY <2>1, <2>3 DEF GCBase, VisitsInv
  <2> QED
    BY <1>2, <2>4, <2>5 DEF GCBase
<1>4. CASE GCConcat
  <2>1. /\ pc = "concat" /\ pc' = "concat" /\ sort' = sort
        /\ UNCHANGED <<data, bytes, count, visits, typed, before>>
    BY <1>4 DEF GCConcat, ConcatMerge, ConcatNext, program, gc, list
  <2>2. GCTyped'
    BY <2>1 DEF GCBase, GCTyped
  <2>3. VisitsInv'
    BY <2>1 DEF GCBase, VisitsInv
  <2> QED
    BY <1>2, <2>2, <2>3 DEF GCBase
<1> QED
  BY <1>3, <1>4

\* The loops over the list, outside of traverseChunk.
Looping == \/ CollectStarved \/ MarkZero \/ MarkZeroDone \/ MarkStack \/ MarkStackDone
           \/ TraceNext \/ TraceDone \/ Sweep \/ SweepDone

LEMMA LoopingGCBase == GCBase /\ Looping => GCBase'
<1> SUFFICES ASSUME GCBase, Looping PROVE GCBase'
  OBVIOUS
<1>1. /\ mark \in [Addr -> {0, 1}] /\ first \in live /\ live \subseteq Addr
      /\ cur \in live \union {NULL}
      /\ \A c \in live : next[c] \in live \union {NULL}
  BY DEF GCBase, IInv, Typed, Closure
<1>2. /\ UNCHANGED <<list, live, next, prev, size, bytes, object, todo, data, visits, typed>>
      /\ mark' \in [Addr -> {0, 1}] /\ cur' \in live \union {NULL}
  <2> USE DEF chunk, program, gc
  <2>1. CASE CollectStarved
    BY <1>1, <2>1 DEF CollectStarved, Begin
  <2>2. CASE MarkZero
    <3>1. mark' = [mark EXCEPT ![cur] = 0]
      BY <2>2 DEF MarkZero, Zeroed
    <3> QED
      BY <1>1, <2>2, <3>1 DEF MarkZero
  <2>3. CASE MarkZeroDone \/ MarkStackDone \/ TraceDone \/ SweepDone
    BY <1>1, <2>3 DEF MarkZeroDone, MarkStackDone, TraceDone, SweepDone, Turn
  <2>4. CASE MarkStack
    <3>1. mark' = mark \/ mark' = [mark EXCEPT ![cur] = 1]
      BY <2>4 DEF MarkStack
    <3> QED
      BY <1>1, <2>4, <3>1 DEF MarkStack
  <2>5. CASE TraceNext
    BY <1>1, <2>5 DEF TraceNext
  <2>6. CASE Sweep
    BY <1>1, <2>6 DEF Sweep
  <2> QED
    BY <2>1, <2>2, <2>3, <2>4, <2>5, <2>6 DEF Looping
<1>3. /\ pc \in {"find", "markZero", "markStack", "trace", "sweep"}
      /\ pc' \in {"markZero", "markStack", "trace", "sweep", "concat", "collected"}
      /\ pc' = "concat" => sort = ADDRESS
      /\ pc' = "collected" => sort # ADDRESS
  BY DEF Looping, CollectStarved, Starved, Begin, MarkZero, MarkZeroDone, MarkStack,
         MarkStackDone, TraceNext, TraceDone, Sweep, SweepDone, Turn, AfterSweep
<1>4. before' \subseteq Addr
  <2>1. CASE CollectStarved
    BY <1>1, <2>1 DEF CollectStarved, Begin, Used
  <2>2. CASE before' = before
    BY <2>2 DEF GCBase, GCTyped
  <2> QED
    BY <2>1, <2>2 DEF Looping, MarkZero, MarkZeroDone, MarkStack, MarkStackDone, TraceNext,
                      TraceDone, Sweep, SweepDone, Turn, gc
<1>5. IInv' /\ ListInv'
  BY <1>1, <1>2, <1>3, CollectMoves DEF GCBase
<1>6. GCTyped'
  BY <1>2, <1>3, <1>4 DEF GCBase, GCTyped, Collecting, list
<1>7. VisitsInv'
  BY <1>2, <1>3 DEF GCBase, VisitsInv
<1> QED
  BY <1>5, <1>6, <1>7 DEF GCBase

\* The result of collect is returned, or the search starts over.
LEMMA CollectDoneGCBase == GCBase /\ CollectDone => GCBase'
<1> SUFFICES ASSUME GCBase, CollectDone PROVE GCBase'
  OBVIOUS
<1>1. /\ UNCHANGED <<list, live, next, prev, size, mark, data, visits>>
      /\ pc \in {"collected", "concat"} /\ count' = 0 /\ before' = {}
  BY DEF CollectDone, Returning, chunk, program
<1>2. /\ mark \in [Addr -> {0, 1}] /\ first \in live /\ todo = <<>> /\ object \in Ptr
      /\ bytes \in Requests
  BY <1>1 DEF GCBase, IInv, Typed, Closure
<1>3. CASE typed /\ Gained(count)
  <2>1. pc' = "find" /\ cur' = first /\ UNCHANGED <<bytes, object, todo, typed>>
    BY <1>3 DEF CollectDone
  <2>2. bytes > 0
    BY <1>3 DEF GCBase, GCTyped
  <2>3. IInv'
    BY <1>1, <1>2, <2>1, <2>2, MoveInv DEF GCBase
  <2>4. ListInv'
    BY <1>1, <2>1, SearchStarts DEF GCBase
  <2>5. GCTyped'
    BY <1>1, <1>3, <2>1, <2>2 DEF GCBase, GCTyped
  <2>6. VisitsInv'
    BY <1>1, <2>1 DEF GCBase, VisitsInv
  <2> QED
    BY <2>3, <2>4, <2>5, <2>6 DEF GCBase
<1>4. CASE ~ (typed /\ Gained(count))
  <2>1. /\ pc' = "client" /\ cur' = NULL /\ bytes' = 0 /\ object' = NULL /\ todo' = <<>>
        /\ typed' = FALSE
    BY <1>4 DEF CollectDone, Return
  <2>2. 0 \in Requests /\ NULL \in Ptr
    BY DEF Requests, Ptr
  <2>3. IInv'
    BY <1>1, <1>2, <2>1, <2>2, MoveInv DEF GCBase
  <2>4. ListInv'
    BY <1>1, <1>2, <2>1, ListKept DEF GCBase
  <2>5. GCTyped'
    BY <1>1, <2>1 DEF GCBase, GCTyped
  <2>6. VisitsInv'
    BY <1>1, <2>1 DEF GCBase, VisitsInv
  <2> QED
    BY <2>3, <2>4, <2>5, <2>6 DEF GCBase
<1> QED
  BY <1>3, <1>4

\* A word of a chunk that is being traversed.
LEMMA VisitTyped ==
    ASSUME GCBase, NEW i \in 1 .. Len(visits)
    PROVE  /\ visits[i] \in Frame /\ visits[i].chunk \in live /\ mark[visits[i].chunk] = 1
           /\ visits[i].chunk \in Int /\ visits[i].word \in Int /\ size[visits[i].chunk] \in Int
           /\ visits[i].chunk + size[visits[i].chunk] <= MemSize
<1>1. visits[i] \in Frame /\ visits[i].chunk \in live /\ mark[visits[i].chunk] = 1
  BY DEF GCBase, VisitsInv, Marked
<1>2. \A c \in live : c \in Int /\ size[c] \in Int /\ c + size[c] <= MemSize
  <2>1. \A x \in live : x <= MemSize /\ x \in Int /\ size[x] \in Int
    BY DEF GCBase, IInv, Typed, Addr
  <2>2. \A c \in live : c + size[c] = MemSize \/ c + size[c] \in live
    BY DEF GCBase, IInv, Tiling
  <2> QED
    BY <2>1, <2>2
<1> QED
  BY <1>1, <1>2 DEF Frame

\* vs are calls of traverseChunk whose words all lie in their chunks.
Visiting(vs) ==
    /\ vs \in Seq(Frame)
    /\ \A i \in 1 .. Len(vs) :
        /\ vs[i].chunk \in Marked
        /\ vs[i].chunk <= vs[i].word
        /\ vs[i].word < vs[i].chunk + size[vs[i].chunk]

LEMMA AdvanceVisits ==
    ASSUME GCBase, NEW vs, Visiting(vs), vs # <<>>,
           visits' = [vs EXCEPT ![Len(vs)].word = NextWord(@)],
           pc' = "traverse", cur' # NULL, UNCHANGED <<live, mark, size>>
    PROVE  VisitsInv'
<1>1. PICK n, vs2 : n = Len(vs) /\ vs2 = visits'
  OBVIOUS
<1>2. n \in Nat /\ n > 0 /\ n \in 1 .. n
  BY <1>1, EmptyIff DEF Visiting
<1>3. ASSUME NEW i \in 1 .. n
      PROVE  /\ vs[i] \in Frame /\ vs[i].chunk \in Marked
             /\ vs[i].chunk \in Int /\ vs[i].word \in Int /\ size[vs[i].chunk] \in Int
             /\ vs[i].chunk <= vs[i].word
             /\ vs[i].word < vs[i].chunk + size[vs[i].chunk]
             /\ vs[i].chunk + size[vs[i].chunk] <= MemSize
  <2>1. vs[i] \in Frame /\ vs[i].chunk \in Marked
    BY <1>1 DEF Visiting
  <2> QED
    BY <1>1, <2>1, WordsTyped DEF Visiting, Frame, GCBase, Marked
<1>4. vs[n].word + 1 <= MemSize
  BY <1>2, <1>3
<1>5. /\ vs2 \in Seq(Frame) /\ Len(vs2) = n
      /\ \A i \in 1 .. n : i # n => vs2[i] = vs[i]
      /\ vs2[n].chunk = vs[n].chunk /\ vs2[n].word = vs[n].word + 1
  <2>1. vs \in Seq(Frame) /\ vs[n] \in Frame
    BY <1>2, <1>3 DEF Visiting
  <2>2. vs[n].word + 1 \in 0 .. MemSize
    BY <1>4, <2>1 DEF Frame
  <2>3. PICK r : r = [vs[n] EXCEPT !.word = vs[n].word + 1]
    OBVIOUS
  <2>4. r \in Frame /\ r.chunk = vs[n].chunk /\ r.word = vs[n].word + 1
    BY <2>1, <2>2, <2>3 DEF Frame
  <2>5. vs2 = [vs EXCEPT ![n] = r]
    BY <1>1, <2>3 DEF NextWord
  <2>6. /\ vs2 \in Seq(Frame) /\ Len(vs2) = n /\ vs2[n] = r
        /\ \A i \in 1 .. n : i # n => vs2[i] = vs[i]
    <3>1. vs \in Seq(Frame) /\ n \in 1 .. Len(vs) /\ r \in Frame
      BY <1>1, <1>2, <2>1, <2>4
    <3>2. /\ [vs EXCEPT ![n] = r] \in Seq(Frame) /\ Len([vs EXCEPT ![n] = r]) = Len(vs)
          /\ [vs EXCEPT ![n] = r][n] = r
          /\ \A i \in 1 .. Len(vs) : i # n => [vs EXCEPT ![n] = r][i] = vs[i]
      BY <3>1, Replaced
    <3> QED
      BY <1>1, <2>5, <3>2
  <2> QED
    BY <2>4, <2>6
<1>6. vs2 # <<>>
  BY <1>2, <1>5
<1>7. Marked' = Marked
  BY DEF Marked
<1>8. ASSUME NEW i \in 1 .. Len(vs2)
      PROVE  /\ vs2[i].chunk \in Marked
             /\ vs2[i].chunk <= vs2[i].word
             /\ vs2[i].word <= vs2[i].chunk + size[vs2[i].chunk]
             /\ i < Len(vs2) => vs2[i].word < vs2[i].chunk + size[vs2[i].chunk]
  <2>1. CASE i = n
    <3>1. /\ vs[n].chunk \in Marked
          /\ vs[n].chunk \in Int /\ vs[n].word \in Int /\ size[vs[n].chunk] \in Int
          /\ vs[n].chunk <= vs[n].word
          /\ vs[n].word < vs[n].chunk + size[vs[n].chunk]
      BY <1>2, <1>3
    <3>2. /\ vs2[n].chunk \in Marked
          /\ vs2[n].chunk <= vs2[n].word
          /\ vs2[n].word <= vs2[n].chunk + size[vs2[n].chunk]
      BY <1>5, <3>1
    <3>3. ~ (n < Len(vs2))
      BY <1>2, <1>5
    <3> QED
      BY <2>1, <3>2, <3>3
  <2>2. CASE i # n
    <3>1. i \in 1 .. n /\ vs2[i] = vs[i]
      BY <1>5, <2>2
    <3> QED
      BY <1>3, <3>1
  <2> QED
    BY <2>1, <2>2
<1> QED
  BY <1>1, <1>5, <1>6, <1>7, <1>8 DEF VisitsInv

Traversing == \/ TraceMarked \/ TraverseFind \/ TraverseSkip \/ TraverseDone
              \/ FindChunkNext \/ FindChunkMark \/ FindChunkDone

LEMMA InnermostVisit ==
    ASSUME GCBase, pc \in {"traverse", "findChunk"}
    PROVE  /\ Len(visits) \in Nat \ {0} /\ Len(visits) \in 1 .. Len(visits)
           /\ Visit = visits[Len(visits)] /\ visits # <<>>
           /\ Visit.chunk \in live /\ mark[Visit.chunk] = 1
           /\ Visit.chunk \in Int /\ Visit.word \in Int /\ size[Visit.chunk] \in Int
           /\ Visit.chunk <= Visit.word
           /\ pc = "findChunk" => Visit.word \in Words(Visit.chunk)
           /\ Visit.word \in Words(Visit.chunk) => Visiting(visits)
<1>1. visits \in Seq(Frame) /\ visits # <<>>
  BY DEF GCBase, VisitsInv
<1>2. /\ Len(visits) \in Nat \ {0} /\ Len(visits) \in 1 .. Len(visits)
      /\ Visit = visits[Len(visits)]
  BY <1>1, EmptyIff DEF Visit
<1>3. /\ Visit.chunk \in live /\ mark[Visit.chunk] = 1
      /\ Visit.chunk \in Int /\ Visit.word \in Int /\ size[Visit.chunk] \in Int
  BY <1>2, VisitTyped
<1>4. /\ Visit.chunk <= Visit.word
      /\ pc = "findChunk" => Visit.word < Visit.chunk + size[Visit.chunk]
  BY <1>2 DEF GCBase, VisitsInv
<1>5. pc = "findChunk" => Visit.word \in Words(Visit.chunk)
  BY <1>3, <1>4 DEF Words
<1>6. ASSUME Visit.word \in Words(Visit.chunk) PROVE Visiting(visits)
  <2>1. Visit.word < Visit.chunk + size[Visit.chunk]
    BY <1>3, <1>6 DEF Words
  <2>2. ASSUME NEW i \in 1 .. Len(visits)
        PROVE  /\ visits[i].chunk \in Marked
               /\ visits[i].chunk <= visits[i].word
               /\ visits[i].word < visits[i].chunk + size[visits[i].chunk]
    <3>1. CASE i = Len(visits)
      BY <1>2, <2>1, <3>1 DEF GCBase, VisitsInv
    <3>2. CASE i # Len(visits)
      BY <1>2, <3>2 DEF GCBase, VisitsInv
    <3> QED
      BY <3>1, <3>2
  <2> QED
    BY <1>1, <2>2 DEF Visiting
<1> QED
  BY <1>1, <1>2, <1>3, <1>4, <1>5, <1>6

LEMMA TraversingGCBase == GCBase /\ Traversing => GCBase'
<1> SUFFICES ASSUME GCBase, Traversing PROVE GCBase'
  OBVIOUS
<1>1. /\ mark \in [Addr -> {0, 1}] /\ first \in live /\ live \subseteq Addr
      /\ cur \in live \union {NULL} /\ first # NULL
      /\ \A c \in live : next[c] \in live \union {NULL}
  BY DEF GCBase, IInv, Typed, Closure, Addr
<1>2. /\ UNCHANGED <<list, live, next, prev, size, bytes, object, todo, data, count,
                     typed, before>>
      /\ pc \in {"trace", "traverse", "findChunk"} /\ pc' \in {"trace", "traverse", "findChunk"}
  BY DEF Traversing, TraceMarked, TraverseFind, TraverseSkip, TraverseDone, FindChunkNext,
         FindChunkMark, FindChunkDone, FindReturn, vars, call, chunk, program, gc
<1>3. mark' \in [Addr -> {0, 1}] /\ cur' \in live \union {NULL}
  <2>1. CASE FindChunkMark
    <3>1. mark' = [mark EXCEPT ![cur] = 1] /\ cur' = cur
      BY <2>1 DEF FindChunkMark
    <3> QED
      BY <1>1, <3>1
  <2>2. CASE TraverseDone
    <3>1. pc = "traverse" => cur # NULL
      BY DEF GCBase, VisitsInv
    <3> QED
      BY <1>1, <2>2, <3>1 DEF TraverseDone, FindReturn, chunk
  <2>3. CASE TraceMarked \/ TraverseFind \/ TraverseSkip \/ FindChunkNext \/ FindChunkDone
    BY <1>1, <2>3 DEF TraceMarked, TraverseFind, TraverseSkip, FindChunkNext, FindChunkDone,
                      FindReturn, vars, call, chunk
  <2> QED
    BY <2>1, <2>2, <2>3 DEF Traversing
<1>4. IInv' /\ ListInv'
  BY <1>2, <1>3, CollectMoves DEF GCBase
<1>5. GCTyped'
  BY <1>2 DEF GCBase, GCTyped, Collecting, list
<1>6. VisitsInv'
  <2>1. CASE TraceMarked
    <3>1. PICK a : a = cur
      OBVIOUS
    <3>2. /\ visits' = <<[chunk |-> a, word |-> a]>> /\ pc' = "traverse" /\ mark' = mark
          /\ a \in live /\ mark[a] = 1 /\ cur' = a /\ a # NULL
      BY <1>1, <2>1, <3>1 DEF TraceMarked, chunk
    <3>3. /\ a \in Int /\ size[a] \in Int /\ size[a] > 0 /\ a \in Addr
          /\ [chunk |-> a, word |-> a] \in Frame
      BY <3>2, WordsTyped DEF GCBase, Frame, Addr
    <3>4. /\ visits' \in Seq(Frame) /\ Len(visits') = 1 /\ visits' # <<>>
          /\ visits'[1] = [chunk |-> a, word |-> a]
      BY <3>2, <3>3
    <3> QED
      BY <1>2, <3>2, <3>3, <3>4 DEF VisitsInv, Marked
  <2>2. CASE TraverseFind
    <3>1. /\ visits' = visits /\ mark' = mark /\ pc = "traverse" /\ pc' = "findChunk"
          /\ Visit.word \in Words(Visit.chunk) /\ InWindow(Visit.word)
      BY <2>2 DEF TraverseFind, chunk, gc
    <3>2. Visiting(visits) /\ visits # <<>>
      BY <3>1, InnermostVisit
    <3>3. Visit' = Visit /\ InWindow(Visit.word)'
      BY <1>2, <3>1 DEF Visit, InWindow
    <3> QED
      BY <1>2, <3>1, <3>2, <3>3 DEF GCBase, VisitsInv, Visiting, Marked
  <2>3. CASE TraverseSkip
    <3>1. /\ pc = "traverse" /\ pc' = "traverse" /\ cur' = cur /\ mark' = mark
          /\ Visit.word \in Words(Visit.chunk)
          /\ visits' = [visits EXCEPT ![Len(visits)].word = NextWord(@)]
      BY <2>3 DEF TraverseSkip, vars, call, chunk
    <3>2. Visiting(visits) /\ visits # <<>> /\ cur # NULL
      BY <3>1, InnermostVisit DEF GCBase, VisitsInv
    <3> QED
      BY <1>2, <3>1, <3>2, AdvanceVisits
  <2>4. CASE FindChunkDone
    <3>1. /\ pc = "findChunk" /\ pc' = "traverse" /\ cur' = first /\ mark' = mark
          /\ visits' = [visits EXCEPT ![Len(visits)].word = NextWord(@)]
      BY <2>4 DEF FindChunkDone, FindReturn, chunk
    <3>2. Visiting(visits) /\ visits # <<>>
      BY <3>1, InnermostVisit
    <3> QED
      BY <1>1, <1>2, <3>1, <3>2, AdvanceVisits
  <2>5. CASE FindChunkNext
    <3>1. visits' = visits /\ mark' = mark /\ pc = "findChunk" /\ pc' = "findChunk"
      BY <2>5 DEF FindChunkNext, chunk, gc
    <3>2. Visit' = Visit /\ (InWindow(Visit.word)' <=> InWindow(Visit.word))
      BY <1>2, <3>1 DEF Visit, InWindow
    <3> QED
      BY <1>2, <3>1, <3>2 DEF GCBase, VisitsInv, Marked
  <2>6. CASE FindChunkMark
    <3>1. PICK a, n, s : a = cur /\ n = Len(visits) /\ s = visits
      OBVIOUS
    <3>2. /\ pc = "findChunk" /\ pc' = "traverse" /\ a \in live /\ a # NULL /\ cur' = a
          /\ mark' = [mark EXCEPT ![a] = 1]
          /\ visits' = Append(visits, [chunk |-> a, word |-> a])
      BY <1>1, <2>6, <3>1 DEF FindChunkMark
    <3>3. Visiting(visits) /\ visits \in Seq(Frame)
      BY <3>2, InnermostVisit DEF Visiting
    <3>4. /\ a \in Int /\ size[a] \in Int /\ size[a] > 0 /\ a \in Addr
          /\ [chunk |-> a, word |-> a] \in Frame
      BY <3>2, WordsTyped DEF GCBase, Frame, Addr
    <3>5. /\ visits' \in Seq(Frame) /\ Len(visits') = n + 1 /\ n \in Nat /\ visits' # <<>>
          /\ \A i \in 1 .. n : visits'[i] = visits[i]
          /\ visits'[n + 1] = [chunk |-> a, word |-> a]
      BY <3>1, <3>2, <3>3, <3>4, Pushed
    <3>6. Marked \subseteq Marked' /\ a \in Marked'
      BY <1>1, <1>2, <3>2, <3>4 DEF Marked
    <3>7. ASSUME NEW i \in 1 .. n + 1
          PROVE  /\ visits'[i].chunk \in Marked'
                 /\ visits'[i].chunk <= visits'[i].word
                 /\ visits'[i].word < visits'[i].chunk + size[visits'[i].chunk]
      <4>1. CASE i = n + 1
        BY <3>4, <3>5, <3>6, <4>1
      <4>2. CASE i \in 1 .. n
        BY <3>1, <3>3, <3>5, <3>6, <4>2 DEF Visiting
      <4> QED
        BY <3>5, <4>1, <4>2
    <3>8. \A i \in 1 .. n + 1 : /\ visits'[i].chunk \in Int /\ visits'[i].word \in Int
                                /\ size[visits'[i].chunk] \in Int
      <4>1. \A i \in 1 .. n : /\ visits[i].chunk \in Int /\ visits[i].word \in Int
                              /\ size[visits[i].chunk] \in Int
        BY <3>1, VisitTyped
      <4> QED
        BY <3>4, <3>5, <4>1
    <3> QED
      BY <1>2, <3>2, <3>5, <3>7, <3>8 DEF VisitsInv
  <2>7. CASE TraverseDone
    <3>1. PICK s, t, n : s = visits /\ t = SubSeq(visits, 1, Len(visits) - 1) /\ n = Len(visits) - 1
      OBVIOUS
    <3>2. pc = "traverse" /\ mark' = mark
      BY <2>7 DEF TraverseDone, chunk
    <3>3. s \in Seq(Frame) /\ s # <<>> /\ t = SubSeq(s, 1, Len(s) - 1) /\ n = Len(s) - 1
      BY <3>1, <3>2 DEF GCBase, VisitsInv
    <3>4. /\ n \in Nat /\ Len(s) = n + 1 /\ Len(t) = n /\ \A i \in 1 .. n : t[i] = s[i]
          /\ t \in Seq(Frame)
      BY <3>3, Popped
    <3>5. Visiting(t)
      <4>1. ASSUME NEW i \in 1 .. Len(t)
            PROVE  /\ t[i].chunk \in Marked /\ t[i].chunk <= t[i].word
                   /\ t[i].word < t[i].chunk + size[t[i].chunk]
        <5>1. i \in 1 .. Len(visits) /\ i < Len(visits) /\ t[i] = visits[i]
          BY <3>1, <3>4
        <5> QED
          BY <5>1 DEF GCBase, VisitsInv
      <4> QED
        BY <3>4, <4>1 DEF Visiting
    <3>6. CASE t = <<>>
      <4>1. pc' = "trace" /\ visits' = <<>>
        BY <2>7, <3>1, <3>6 DEF TraverseDone
      <4> QED
        BY <4>1 DEF VisitsInv
    <3>7. CASE t # <<>>
      <4>1. /\ visits' = [t EXCEPT ![Len(t)].word = NextWord(@)] /\ pc' = "traverse" /\ cur' = first
        BY <2>7, <3>1, <3>7 DEF TraverseDone, FindReturn
      <4> QED
        BY <1>1, <1>2, <3>2, <3>5, <3>7, <4>1, AdvanceVisits
    <3> QED
      BY <3>6, <3>7
  <2> QED
    BY <2>1, <2>2, <2>3, <2>4, <2>5, <2>6, <2>7 DEF Traversing
<1> QED
  BY <1>4, <1>5, <1>6 DEF GCBase

LEMMA GCBaseStep == GCBase /\ [GCNext]_gcVars => GCBase'
<1> SUFFICES ASSUME GCBase, [GCNext]_gcVars PROVE GCBase'
  OBVIOUS
<1>1. CASE GCProgram
  BY <1>1, ProgramGCBase
<1>2. CASE GCCode
  BY <1>2, AllocatorGCBase, LoopingGCBase, CollectDoneGCBase, TraversingGCBase
     DEF GCCode, CollectStep, Looping, Traversing
<1>3. CASE UNCHANGED gcVars
  <2>1. UNCHANGED <<list, live, next, prev, size, mark, pc, cur, bytes, object, todo,
                    data, count, visits, typed, before>>
    BY <1>3 DEF gcVars, rcVars, vars, chunk, call, program, gc
  <2>2. IInv'
    BY <2>1 DEF GCBase, IInv, Typed, Tiling, Closure, AddressLinks, list
  <2>3. ListInv'
    <3>1. PICK pos \in [Addr -> Int] : Runs(pos) /\ InOrder(pos) /\ Searched(pos) /\ Placing(pos)
      BY DEF GCBase, ListInv
    <3>2. Listed' = Listed /\ Waiting' /\ BackLinks' /\ Runs(pos)' /\ InOrder(pos)'
      BY <2>1, <3>1, ListUnchanged DEF GCBase
    <3>3. Searched(pos)' /\ Placing(pos)'
      BY <2>1, <3>1, <3>2 DEF Searched, Placing, Fits, Beyond, list
    <3> QED
      BY <3>2, <3>3 DEF ListInv
  <2>4. GCTyped'
    BY <2>1 DEF GCBase, GCTyped, list
  <2>5. VisitsInv'
    BY <2>1 DEF GCBase, VisitsInv, Marked, Visit, InWindow
  <2> QED
    BY <2>2, <2>3, <2>4, <2>5 DEF GCBase
<1> QED
  BY <1>1, <1>2, <1>3 DEF GCNext

\* The chunks tile the arena under collect and gc.alloc too.
THEOREM GCTilingInvariant == GCSpec => []Tiling
<1>1. GCBase => Tiling
  BY DEF GCBase, IInv
<1> QED
  BY <1>1, GCBaseInit, GCBaseStep, PTL DEF GCSpec

----------------------------------------------------------------------------
(* The loops over the list. *)

LEMMA NumbersKept ==
    ASSUME UNCHANGED <<list, live, next, todo>>, NEW pos
    PROVE  Runs(pos)' <=> Runs(pos)
  BY DEF Runs, Listed, Todo, list

LEMMA PassedNone ==
    ASSUME IInv, pc # "insert", NEW pos \in [Addr -> Int], Runs(pos),
           UNCHANGED <<list, live>>, cur' = first
    PROVE  Passed(pos)' = {}
<1>1. Listed = live /\ first # NULL /\ first \in live /\ live \subseteq Addr
  <2>1. Listed = live
    BY NothingWaits
  <2>2. live \subseteq Addr
    BY DEF IInv, Typed
  <2>3. first \in live
    BY <2>1 DEF Runs
  <2> QED
    BY <2>1, <2>2, <2>3 DEF Addr
<1>2. \A c \in live : ~ (pos[c] < pos[first])
  BY <1>1 DEF Runs
<1> QED
  BY <1>1, <1>2 DEF Passed

LEMMA PassedOneMore ==
    ASSUME IInv, pc # "insert", NEW pos \in [Addr -> Int], Runs(pos),
           UNCHANGED <<list, live>>, NEW a \in live, a = cur, cur' = next[a]
    PROVE  a \notin Passed(pos) /\ Passed(pos)' = Passed(pos) \union {a}
<1>1. Listed = live /\ live \subseteq Addr /\ a # NULL
  BY NothingWaits DEF IInv, Typed, Addr
<1>2. \A c \in live : pos[c] \in Int
  BY <1>1
<1>3. Passed(pos) = { c \in live : pos[c] < pos[a] }
  BY <1>1 DEF Passed
<1>4. \A c \in live : (next[a] = NULL \/ pos[c] < pos[next[a]]) <=> pos[c] <= pos[a]
  <2>1. CASE next[a] = NULL
    BY <1>1, <2>1 DEF Runs
  <2>2. CASE next[a] # NULL
    <3>1. pos[next[a]] = pos[a] + 1
      BY <1>1, <2>2 DEF Runs
    <3> QED
      BY <1>2, <2>2, <3>1
  <2> QED
    BY <2>1, <2>2
<1>5. Passed(pos)' = { c \in live : pos[c] <= pos[a] }
  BY <1>4 DEF Passed
<1>6. \A c \in live : pos[c] <= pos[a] <=> pos[c] < pos[a] \/ c = a
  BY <1>1, <1>2 DEF Runs
<1> QED
  BY <1>2, <1>3, <1>5, <1>6

\* collect begins with the marks that the chunks in use have.
LEMMA BeginInv ==
    ASSUME GCBase, GCInv, Begin, Collect \/ CollectStarved
    PROVE  GCInv'
<1>1. /\ pc' = "markZero" /\ cur' = first /\ before' = Used
      /\ UNCHANGED <<list, live, next, prev, size, mark, bytes, todo, count, typed>>
      /\ pc \in {"client", "find"}
      /\ typed => pc = "find" /\ cur = NULL
  BY DEF Begin, Collect, CollectStarved, Starved, chunk, GCBase, GCTyped
<1>2. live \subseteq Addr /\ mark \in [Addr -> {0, 1}] /\ count = 0
  BY <1>1 DEF GCBase, GCTyped, IInv, Typed
<1>3. GCCoalesced'
  BY <1>1 DEF GCCoalesced, Collecting
<1>4. ASSUME NEW pos \in [Addr -> Int], Runs(pos)' PROVE Passed(pos)' = {}
  BY <1>1, <1>4, NumbersKept, PassedNone DEF GCBase
<1>5. MarksInv'
  BY <1>1, <1>2, <1>4 DEF MarksInv, Used
<1>6. CountInv'
  <2>1. before' \subseteq live'
    BY <1>1 DEF Used
  <2>2. ASSUME NEW pos \in [Addr -> Int], Runs(pos)'
        PROVE  count' = Cardinality(Passed(pos)' \ before')
    <3>1. Passed(pos)' \ before' = {}
      BY <1>4, <2>2
    <3> QED
      BY <1>1, <1>2, <3>1, FS_EmptySet
  <2> QED
    BY <1>1, <2>1, <2>2 DEF CountInv
<1>7. StarvedInv'
  <2> SUFFICES ASSUME typed
               PROVE  /\ \A c \in live \ Used : size[c] < bytes
                      /\ sort = ADDRESS => \A c \in live :
                           c + size[c] \in live => c \in Used \/ c + size[c] \in Used
    BY <1>1 DEF StarvedInv, WereCoalesced, list
  <2>1. \A d \in live : ~ Fits(d, bytes)
    BY <1>1, DenyFollows DEF GCBase, DenyOnlyWhenFull
  <2>2. \A c \in live \ Used : mark[c] = 0 /\ size[c] \in Int
    BY <1>2 DEF Used, GCBase, IInv, Typed
  <2>3. bytes \in Int
    BY DEF GCBase, IInv, Typed, Requests
  <2>4. CoalescedUpTo
    BY <1>1 DEF GCInv, GCCoalesced, Collecting
  <2> QED
    BY <1>1, <2>1, <2>2, <2>3, <2>4 DEF Fits, CoalescedUpTo, Used
<1> QED
  BY <1>3, <1>5, <1>6, <1>7 DEF GCInv

\* Outside of collect there is nothing to say but that free neighbours do not stay.
LEMMA OutsideInv ==
    ASSUME pc' \in {"client", "find", "insert"}, CoalescedUpTo'
    PROVE  GCInv'
  BY DEF GCInv, GCCoalesced, MarksInv, CountInv, StarvedInv, Collecting

LEMMA ProgramGCInv == GCBase /\ GCInv /\ GCProgram => GCInv'
<1> SUFFICES ASSUME GCBase, GCInv, GCProgram PROVE GCInv'
  OBVIOUS
<1>1. CASE Collect
  BY <1>1, BeginInv DEF Collect
<1>2. ASSUME pc = "client", UNCHANGED <<list, chunk>>, pc' \in {"client", "find"}
      PROVE  GCInv'
  <2>1. CoalescedUpTo'
    BY <1>2 DEF GCInv, GCCoalesced, CoalescedUpTo, Collecting, list, chunk
  <2> QED
    BY <1>2, <2>1, OutsideInv
<1>3. CASE GCAlloc \/ AllocChar
  BY <1>2, <1>3 DEF GCAlloc, AllocChar, Alloc, AllocInt, call
<1>4. CASE \E p \in Addr : Drop(p)
  BY <1>2, <1>4 DEF Drop, vars, call
<1>5. CASE \E d \in live : \E w \in Words(d) :
             /\ (\E c \in live : \E p \in Words(c) : StorePointer(d, w, c, p)) \/ TakePointer(d, w)
             /\ UNCHANGED gc
  BY <1>2, <1>5 DEF StorePointer, TakePointer, vars, call
<1>6. CASE \E d \in live : \E w \in Words(d) : StoreForeign(d, w)
  BY <1>2, <1>6 DEF StoreForeign, vars, call
<1> QED
  BY <1>1, <1>3, <1>4, <1>5, <1>6 DEF GCProgram

LEMMA AllocGCInv == GCBase /\ GCInv /\ GCAllocStep => GCInv'
<1> SUFFICES ASSUME GCBase, GCInv, GCAllocStep PROVE GCInv'
  OBVIOUS
<1>1. pc \in {"find", "insert"} /\ pc' \in {"client", "find", "insert"} /\ Next
  BY DEF GCAllocStep, AllocStep, FindNext, FindFail, SplitAddress, SplitExact, SplitInPlace,
         SplitDetach, Insert, InsertFront, InsertBefore, InsertLast, InsertWalk,
         Inserted, Return, Next, Code, Find
<1>2. CoalescedUpTo'
  BY <1>1, CoalescedStep DEF GCBase, GCInv, GCCoalesced, Collecting
<1> QED
  BY <1>1, <1>2, OutsideInv

\* The program has no say while collect runs.
LEMMA CollectKeeps ==
    ASSUME StarvedInv, pc \in Collecting, pc' \in Collecting,
           UNCHANGED <<list, live, size, bytes, typed, before>>
    PROVE  GCCoalesced' /\ StarvedInv'
  BY DEF GCCoalesced, StarvedInv, WereCoalesced, list

\* In particular, the sets that collect counts are finite.
LEMMA SetsFinite ==
    ASSUME IInv
    PROVE  /\ IsFiniteSet(live) /\ Cardinality(live) \in 0 .. MemSize
           /\ \A S \in SUBSET live : IsFiniteSet(S) /\ Cardinality(S) \in 0 .. MemSize
<1>1. IsFiniteSet(Addr) /\ Cardinality(Addr) = MemSize
  BY FS_Interval DEF Addr
<1>2. \A S \in SUBSET Addr : IsFiniteSet(S) /\ Cardinality(S) \in 0 .. MemSize
  BY <1>1, FS_Subset, FS_CardinalityType
<1> QED
  BY <1>2 DEF IInv, Typed

LEMMA MarkZeroInv == GCBase /\ GCInv /\ MarkZero => GCInv'
<1> SUFFICES ASSUME GCBase, GCInv, MarkZero PROVE GCInv'
  OBVIOUS
<1>1. PICK a : a = cur
  OBVIOUS
<1>2. /\ live \subseteq Addr /\ mark \in [Addr -> {0, 1}] /\ cur \in live \union {NULL}
      /\ IsFiniteSet(live)
  BY SetsFinite DEF GCBase, IInv, Typed, Closure
<1>3. /\ a \in live /\ a \in Addr /\ pc = "markZero" /\ pc' = "markZero" /\ cur' = next[a]
      /\ count' = count + (1 - mark[a]) /\ mark' = [mark EXCEPT ![a] = 0]
      /\ UNCHANGED <<list, live, next, size, todo, bytes, typed, before>>
  BY <1>1, <1>2 DEF MarkZero, Zeroed
<1>4. ASSUME NEW pos \in [Addr -> Int], Runs(pos)'
      PROVE  /\ Runs(pos) /\ a \notin Passed(pos) /\ Passed(pos)' = Passed(pos) \union {a}
  BY <1>1, <1>3, <1>4, NumbersKept, PassedOneMore DEF GCBase
<1>5. ASSUME NEW pos \in [Addr -> Int], Runs(pos)'
      PROVE  \A c \in live : mark'[c] = 1 <=> c \in before \ Passed(pos)'
  <2>1. \A c \in live : mark[c] = 1 <=> c \in before \ Passed(pos)
    BY <1>3, <1>4, <1>5 DEF GCInv, MarksInv
  <2> QED
    BY <1>2, <1>3, <1>4, <1>5, <2>1
<1>6. ASSUME NEW pos \in [Addr -> Int], Runs(pos)'
      PROVE  count' = Cardinality(Passed(pos)' \ before)
  <2>1. count = Cardinality(Passed(pos) \ before)
    BY <1>3, <1>4, <1>6 DEF GCInv, CountInv
  <2>2. mark[a] = IF a \in before THEN 1 ELSE 0
    <3>1. mark[a] = 1 <=> a \in before \ Passed(pos)
      BY <1>3, <1>4, <1>6 DEF GCInv, MarksInv
    <3> QED
      BY <1>2, <1>3, <1>4, <1>6, <3>1
  <2>3. PICK S : S = Passed(pos) \ before
    OBVIOUS
  <2>4. IsFiniteSet(S) /\ Cardinality(S) \in Int
    <3>1. S \in SUBSET live
      BY <2>3 DEF Passed
    <3> QED
      BY <3>1, SetsFinite DEF GCBase
  <2>5. CASE a \in before
    <3>1. Passed(pos)' \ before = S
      BY <1>4, <1>6, <2>3, <2>5
    <3>2. count' = count + (1 - 1) /\ count = Cardinality(S)
      BY <1>3, <2>1, <2>2, <2>3, <2>5
    <3>3. count' = Cardinality(S)
      BY <2>4, <3>2
    <3> QED
      BY <3>1, <3>3
  <2>6. CASE a \notin before
    <3>1. Passed(pos)' \ before = S \union {a} /\ a \notin S
      BY <1>4, <1>6, <2>3, <2>6
    <3>2. Cardinality(S \union {a}) = Cardinality(S) + 1
      BY <2>4, <3>1, FS_AddElement
    <3>3. count' = count + (1 - 0) /\ count = Cardinality(S)
      BY <1>3, <2>1, <2>2, <2>3, <2>6
    <3>4. count' = Cardinality(S) + 1
      BY <2>4, <3>3
    <3> QED
      BY <3>1, <3>2, <3>4
  <2> QED
    BY <2>5, <2>6
<1>7. MarksInv'
  BY <1>3, <1>5 DEF MarksInv
<1>8. CountInv'
  BY <1>3, <1>6 DEF CountInv, GCInv, Collecting
<1> QED
  BY <1>3, <1>7, <1>8, CollectKeeps DEF GCInv, Collecting

LEMMA MarkStackInv == GCBase /\ GCInv /\ MarkStack => GCInv'
<1> SUFFICES ASSUME GCBase, GCInv, MarkStack PROVE GCInv'
  OBVIOUS
<1>1. PICK a : a = cur
  OBVIOUS
<1>2. mark \in [Addr -> {0, 1}] /\ cur \in live \union {NULL} /\ live \subseteq Addr
  BY DEF GCBase, IInv, Typed, Closure
<1>3. /\ a \in live /\ a \in Addr /\ pc = "markStack" /\ pc' = "markStack"
      /\ UNCHANGED <<list, live, size, bytes, typed, before, count, handles>>
  BY <1>1, <1>2 DEF MarkStack, gc, program
<1>4. PICK m \in StackMarks(a) : mark' = IF m = 1 THEN [mark EXCEPT ![a] = 1] ELSE mark
  BY <1>1 DEF MarkStack
<1>5. m = 1 => StackHits(a)
  BY DEF StackMarks, SpaceOf, StackHits
<1>6. \A c \in live : mark'[c] = 1 => mark[c] = 1 \/ (c = a /\ m = 1)
  BY <1>2, <1>3, <1>4
<1>7. MarksInv'
  <2>1. ASSUME NEW c \in Marked' PROVE StackHits(c)'
    <3>1. c \in live /\ (c \in Marked \/ (c = a /\ m = 1))
      BY <1>3, <1>6 DEF Marked
    <3>2. StackHits(c)
      BY <1>3, <1>5, <3>1 DEF GCInv, MarksInv
    <3> QED
      BY <1>3, <3>2 DEF StackHits, Words
  <2> QED
    BY <1>3, <2>1 DEF MarksInv
<1>8. CountInv'
  BY <1>3 DEF CountInv, GCInv, Collecting
<1> QED
  BY <1>3, <1>7, <1>8, CollectKeeps DEF GCInv, Collecting

LEMMA SweepInv == GCBase /\ GCInv /\ Sweep => GCInv'
<1> SUFFICES ASSUME GCBase, GCInv, Sweep PROVE GCInv'
  OBVIOUS
<1>1. PICK a : a = cur
  OBVIOUS
<1>2. live \subseteq Addr /\ mark \in [Addr -> {0, 1}] /\ cur \in live \union {NULL}
  BY DEF GCBase, IInv, Typed, Closure
<1>3. /\ a \in live /\ a \in Addr /\ pc = "sweep" /\ pc' = "sweep" /\ cur' = next[a]
      /\ count' = count - (1 - mark[a])
      /\ UNCHANGED <<list, live, next, size, mark, todo, bytes, typed, before, handles, data>>
  BY <1>1, <1>2 DEF Sweep, LessFree, chunk, program
<1>4. MarksInv'
  BY <1>3 DEF MarksInv
<1>5. ASSUME NEW pos \in [Addr -> Int], Runs(pos)'
      PROVE  count' = Cardinality(live \ before) - Cardinality(Unmarked(Passed(pos)'))
  <2>1. Runs(pos) /\ a \notin Passed(pos) /\ Passed(pos)' = Passed(pos) \union {a}
    BY <1>1, <1>3, <1>5, NumbersKept, PassedOneMore DEF GCBase
  <2>2. count = Cardinality(live \ before) - Cardinality(Unmarked(Passed(pos)))
    BY <1>3, <2>1 DEF GCInv, CountInv
  <2>3. PICK S, n : S = Unmarked(Passed(pos)) /\ n = Cardinality(live \ before)
    OBVIOUS
  <2>4. IsFiniteSet(S) /\ Cardinality(S) \in Int /\ n \in Int
    <3>1. S \in SUBSET live /\ live \ before \in SUBSET live
      BY <2>3 DEF Unmarked, Passed
    <3> QED
      BY <2>3, <3>1, SetsFinite DEF GCBase
  <2>5. CASE mark[a] = 0
    <3>1. Unmarked(Passed(pos)') = S \union {a} /\ a \notin S
      BY <2>1, <2>3, <2>5 DEF Unmarked
    <3>2. Cardinality(S \union {a}) = Cardinality(S) + 1
      BY <2>4, <3>1, FS_AddElement
    <3> QED
      BY <1>3, <2>2, <2>3, <2>4, <2>5, <3>1, <3>2
  <2>6. CASE mark[a] = 1
    <3>1. Unmarked(Passed(pos)') = S
      BY <2>1, <2>3, <2>6 DEF Unmarked
    <3> QED
      BY <1>3, <2>2, <2>3, <2>4, <2>6, <3>1
  <2> QED
    BY <1>2, <1>3, <2>5, <2>6
<1>6. CountInv'
  <2>1. \A pos \in [Addr -> Int] : Unmarked(Passed(pos)') = Unmarked(Passed(pos))'
    BY <1>3 DEF Unmarked
  <2> QED
    BY <1>3, <1>5, <2>1 DEF CountInv, GCInv, Collecting
<1> QED
  BY <1>3, <1>4, <1>6, CollectKeeps DEF GCInv, Collecting

\* A loop that has come to the end of the list has dealt with all chunks; the
\* next one starts with none.
LEMMA TurnFacts ==
    ASSUME GCBase, NEW from, NEW to, Turn(from, to), from \in Collecting
    PROVE  /\ pc = from /\ pc' = to /\ cur = NULL /\ cur' = first
           /\ UNCHANGED <<list, live, next, size, mark, todo, bytes, typed, before, count,
                          handles, data>>
           /\ \A pos \in [Addr -> Int] : Runs(pos)' <=> Runs(pos)
           /\ \A pos \in [Addr -> Int] : Passed(pos) = live
           /\ \E pos \in [Addr -> Int] : Runs(pos)
           /\ \A pos \in [Addr -> Int] : Runs(pos) => Passed(pos)' = {}
<1>1. /\ pc = from /\ pc' = to /\ cur = NULL /\ cur' = first /\ pc # "insert"
      /\ UNCHANGED <<list, live, next, size, mark, todo, bytes, typed, before, count,
                     handles, data>>
  BY DEF Turn, chunk, program, gc, Collecting
<1>2. \A pos \in [Addr -> Int] : Runs(pos)' <=> Runs(pos)
  BY <1>1, NumbersKept
<1>3. \A pos \in [Addr -> Int] : Passed(pos) = live
  BY <1>1 DEF Passed
<1>4. \E pos \in [Addr -> Int] : Runs(pos)
  BY DEF GCBase, ListInv
<1>5. \A pos \in [Addr -> Int] : Runs(pos) => Passed(pos)' = {}
  BY <1>1, PassedNone DEF GCBase
<1> QED
  BY <1>1, <1>2, <1>3, <1>4, <1>5

LEMMA MarkZeroDoneInv == GCBase /\ GCInv /\ MarkZeroDone => GCInv'
<1> SUFFICES ASSUME GCBase, GCInv, MarkZeroDone PROVE GCInv'
  OBVIOUS
<1>1. Turn("markZero", "markStack") /\ "markZero" \in Collecting
  BY DEF MarkZeroDone, Collecting
<1>2. /\ pc = "markZero" /\ pc' = "markStack"
      /\ UNCHANGED <<list, live, size, mark, bytes, typed, before, count>>
      /\ \A pos \in [Addr -> Int] : Runs(pos)' <=> Runs(pos)
      /\ \A pos \in [Addr -> Int] : Runs(pos) => Passed(pos)' = {}
  BY <1>1, TurnFacts
<1>3. PICK pos \in [Addr -> Int] : Runs(pos) /\ Passed(pos) = live
  BY <1>1, TurnFacts
<1>4. \A c \in live : mark[c] # 1
  BY <1>2, <1>3 DEF GCInv, MarksInv
<1>5. count = Cardinality(live \ before)
  BY <1>2, <1>3 DEF GCInv, CountInv
<1>6. MarksInv'
  BY <1>2, <1>4 DEF MarksInv, Marked
<1>7. CountInv'
  BY <1>2, <1>5 DEF CountInv, GCInv, Collecting
<1> QED
  BY <1>2, <1>6, <1>7, CollectKeeps DEF GCInv, Collecting

LEMMA MarkStackDoneInv == GCBase /\ GCInv /\ MarkStackDone => GCInv'
<1> SUFFICES ASSUME GCBase, GCInv, MarkStackDone PROVE GCInv'
  OBVIOUS
<1>1. Turn("markStack", "trace") /\ "markStack" \in Collecting
  BY DEF MarkStackDone, Collecting
<1>2. /\ pc = "markStack" /\ pc' = "trace"
      /\ UNCHANGED <<list, live, size, bytes, typed, before, count>>
  BY <1>1, TurnFacts
<1>3. MarksInv' /\ CountInv'
  BY <1>2 DEF MarksInv, CountInv, GCInv, Collecting
<1> QED
  BY <1>2, <1>3, CollectKeeps DEF GCInv, Collecting

LEMMA TraceNextInv == GCBase /\ GCInv /\ TraceNext => GCInv'
<1> SUFFICES ASSUME GCBase, GCInv, TraceNext PROVE GCInv'
  OBVIOUS
<1>1. /\ pc = "trace" /\ pc' = "trace"
      /\ UNCHANGED <<list, live, size, mark, bytes, typed, before, count, handles, data>>
  BY DEF TraceNext, chunk, program, gc
<1>2. MarksInv'
  BY <1>1 DEF MarksInv
<1>3. CountInv'
  BY <1>1 DEF CountInv, GCInv, Collecting
<1> QED
  BY <1>1, <1>2, <1>3, CollectKeeps DEF GCInv, Collecting

LEMMA TraceDoneInv == GCBase /\ GCInv /\ TraceDone => GCInv'
<1> SUFFICES ASSUME GCBase, GCInv, TraceDone PROVE GCInv'
  OBVIOUS
<1>1. Turn("trace", "sweep") /\ "trace" \in Collecting
  BY DEF TraceDone, Collecting
<1>2. /\ pc = "trace" /\ pc' = "sweep"
      /\ UNCHANGED <<list, live, size, mark, bytes, typed, before, count, handles, data>>
      /\ \A pos \in [Addr -> Int] : Runs(pos)' <=> Runs(pos)
      /\ \A pos \in [Addr -> Int] : Runs(pos) => Passed(pos)' = {}
  BY <1>1, TurnFacts
<1>3. MarksInv'
  BY <1>2 DEF MarksInv
<1>4. count = Cardinality(live \ before) /\ count \in Int
  <2>1. live \ before \in SUBSET live
    OBVIOUS
  <2> QED
    BY <1>2, <2>1, SetsFinite DEF GCBase, GCInv, CountInv
<1>5. ASSUME NEW pos \in [Addr -> Int], Runs(pos)'
      PROVE  count' = Cardinality((live \ before)') - Cardinality(Unmarked(Passed(pos))')
  <2>1. Unmarked(Passed(pos))' = {}
    BY <1>2, <1>5 DEF Unmarked
  <2>2. Cardinality(Unmarked(Passed(pos))') = 0
    BY <2>1, FS_EmptySet
  <2>3. (live \ before)' = live \ before /\ count' = count
    BY <1>2
  <2>4. count' = count - 0
    BY <1>4, <2>3
  <2> QED
    BY <1>4, <2>2, <2>3, <2>4
<1>6. CountInv'
  BY <1>2, <1>5 DEF CountInv, GCInv, Collecting
<1> QED
  BY <1>2, <1>3, <1>6, CollectKeeps DEF GCInv, Collecting

\* The sweep takes off what is free now: with the chunks that were not in use
\* before, the difference is the change in the number of chunks in use.
LEMMA SweptCount ==
    ASSUME IInv, before \subseteq live
    PROVE  Cardinality(live \ before) - Cardinality(Unmarked(live))
               = Cardinality(Marked) - Cardinality(before)
<1>1. mark \in [Addr -> {0, 1}] /\ live \subseteq Addr
  BY DEF IInv, Typed
<1>2. PICK L, B, M : L = live /\ B = before /\ M = Marked
  OBVIOUS
<1>3. B \subseteq L /\ M \subseteq L /\ IsFiniteSet(L)
  BY <1>2, SetsFinite DEF Marked
<1>4. /\ Cardinality(L) \in Int /\ Cardinality(B) \in Int /\ Cardinality(M) \in Int
  BY <1>2, <1>3, SetsFinite
<1>5. L \intersect B = B /\ L \intersect M = M /\ Unmarked(live) = L \ M
  BY <1>1, <1>2, <1>3 DEF Unmarked, Marked
<1>6. /\ Cardinality(L \ B) = Cardinality(L) - Cardinality(B)
      /\ Cardinality(L \ M) = Cardinality(L) - Cardinality(M)
  BY <1>3, <1>5, FS_Difference
<1>7. Cardinality(L \ B) - Cardinality(L \ M) = Cardinality(M) - Cardinality(B)
  BY <1>4, <1>6
<1> QED
  BY <1>2, <1>5, <1>7

LEMMA SweepDoneInv == GCBase /\ GCInv /\ SweepDone => GCInv'
<1> SUFFICES ASSUME GCBase, GCInv, SweepDone PROVE GCInv'
  OBVIOUS
<1>1. Turn("sweep", AfterSweep) /\ "sweep" \in Collecting
  BY DEF SweepDone, Collecting
<1>2. /\ pc = "sweep" /\ pc' = AfterSweep /\ cur' = first
      /\ UNCHANGED <<list, live, size, mark, bytes, typed, before, count, handles, data>>
  BY <1>1, TurnFacts
<1>3. PICK pos \in [Addr -> Int] : Runs(pos) /\ Passed(pos) = live
  BY <1>1, TurnFacts
<1>4. pc' = IF sort = ADDRESS THEN "concat" ELSE "collected"
  BY <1>2 DEF AfterSweep
<1>5. GCCoalesced'
  <2> SUFFICES ASSUME sort = ADDRESS, NEW c \in live
               PROVE  ~ (c < first) /\ first # NULL /\ pc' = "concat"
    BY <1>2, <1>4 DEF GCCoalesced, CoalescedUpTo, list
  <2> QED
    BY <1>2, <1>4 DEF GCBase, IInv, Typed, Closure, AddressLinks, Addr
<1>6. MarksInv'
  BY <1>2, <1>4 DEF MarksInv
<1>7. CountInv'
  <2>1. count = Cardinality(live \ before) - Cardinality(Unmarked(live)) /\ before \subseteq live
    BY <1>2, <1>3 DEF GCInv, CountInv, Collecting
  <2>2. count = Cardinality(Marked) - Cardinality(before)
    BY <2>1, SweptCount DEF GCBase
  <2>3. Marked' = Marked
    BY <1>2 DEF Marked
  <2> QED
    BY <1>2, <1>4, <2>2, <2>3 DEF CountInv, Collecting
<1>8. StarvedInv'
  BY <1>2 DEF GCInv, StarvedInv, WereCoalesced, Collecting, list
<1> QED
  BY <1>5, <1>6, <1>7, <1>8 DEF GCInv

LEMMA TraversingInv == GCBase /\ GCInv /\ Traversing => GCInv'
<1> SUFFICES ASSUME GCBase, GCInv, Traversing PROVE GCInv'
  OBVIOUS
<1>1. /\ UNCHANGED <<list, live, size, bytes, typed, before, count>>
      /\ pc \in {"trace", "traverse", "findChunk"} /\ pc' \in {"trace", "traverse", "findChunk"}
  BY DEF Traversing, TraceMarked, TraverseFind, TraverseSkip, TraverseDone, FindChunkNext,
         FindChunkMark, FindChunkDone, FindReturn, vars, call, chunk, gc
<1>2. MarksInv' /\ CountInv'
  BY <1>1 DEF MarksInv, CountInv, GCInv, Collecting
<1> QED
  BY <1>1, <1>2, CollectKeeps DEF GCInv, Collecting

\* The merging changes no mark of a chunk in use, and merges nothing if the
\* chunks in use are the ones that were.
LEMMA GCConcatInv == GCBase /\ GCInv /\ GCConcat => GCInv'
<1> SUFFICES ASSUME GCBase, GCInv, GCConcat PROVE GCInv'
  OBVIOUS
<1>1. PICK a : a = cur
  OBVIOUS
<1>2. /\ pc = "concat" /\ pc' = "concat" /\ mark' = mark /\ sort' = sort /\ Next
      /\ UNCHANGED <<bytes, typed, before, count, handles, data>>
      /\ a \in live /\ next[a] # NULL /\ sort = ADDRESS
  BY <1>1 DEF GCConcat, ConcatMerge, ConcatNext, Next, Code, Concat, gc, program, chunk, list,
              GCBase, IInv, Closure, AddressLinks
<1>3. /\ live \subseteq Addr /\ mark \in [Addr -> {0, 1}] /\ NULL \notin Addr
      /\ next[a] = a + size[a] /\ next[a] \in live
  BY <1>2 DEF GCBase, IInv, Typed, Closure, AddressLinks, Addr
<1>4. \/ mark[a] = 0 /\ mark[next[a]] = 0 /\ live' = live \ {next[a]}
      \/ ~ (mark[a] = 0 /\ mark[next[a]] = 0) /\ UNCHANGED <<live, size>>
  BY <1>1 DEF GCConcat, ConcatMerge, ConcatNext, Mergeable, chunk
<1>5. Marked' = Marked
  BY <1>2, <1>3, <1>4 DEF Marked
<1>6. GCCoalesced'
  BY <1>2, CoalescedStep DEF GCBase, GCInv, GCCoalesced, Collecting
<1>7. MarksInv' /\ CountInv'
  BY <1>2, <1>5 DEF MarksInv, CountInv, GCInv, Collecting
<1>8. StarvedInv'
  <2> SUFFICES ASSUME typed, Marked = before
               PROVE  /\ \A c \in live' \ before : size'[c] < bytes
                      /\ WereCoalesced'
    BY <1>2, <1>5 DEF StarvedInv, Collecting
  <2>1. (\A c \in live \ before : size[c] < bytes) /\ WereCoalesced
    BY <1>2 DEF GCInv, StarvedInv
  <2>2. a \in before \/ next[a] \in before
    BY <1>2, <1>3, <2>1 DEF WereCoalesced
  <2>3. ~ (mark[a] = 0 /\ mark[next[a]] = 0)
    BY <2>2 DEF Marked
  <2>4. UNCHANGED <<live, size>>
    BY <1>4, <2>3
  <2> QED
    BY <1>2, <2>1, <2>4 DEF WereCoalesced
<1> QED
  BY <1>6, <1>7, <1>8 DEF GCInv

LEMMA CollectDoneInv == GCBase /\ GCInv /\ CollectDone => GCInv'
<1> SUFFICES ASSUME GCBase, GCInv, CollectDone PROVE GCInv'
  OBVIOUS
<1>1. /\ UNCHANGED <<list, live, size, mark>> /\ Returning /\ pc' \in {"client", "find"}
      /\ pc \in {"collected", "concat"}
  BY DEF CollectDone, Returning, Return, chunk
<1>2. CoalescedUpTo
  BY <1>1 DEF GCInv, GCCoalesced, Collecting
<1>3. CoalescedUpTo'
  <2> SUFFICES ASSUME sort = ADDRESS, NEW c \in live, c + size[c] \in live,
                      pc = "concat" /\ cur # NULL
               PROVE  c < cur
    BY <1>1, <1>2 DEF CoalescedUpTo, list
  <2>1. /\ cur \in live /\ next[cur] = NULL
    BY DEF CollectDone, Returning, GCBase, IInv, Closure
  <2>2. cur + size[cur] = MemSize
    <3>1. next[cur] = IF cur + size[cur] = MemSize THEN NULL ELSE cur + size[cur]
      BY <2>1 DEF GCBase, IInv, AddressLinks
    <3>2. cur + size[cur] \in Int
      BY <2>1, WordsTyped DEF GCBase
    <3> QED
      BY <2>1, <3>1, <3>2
  <2>3. /\ c \in Int /\ size[c] \in Int /\ cur \in Int /\ size[cur] \in Int
        /\ c + size[c] \in Int /\ size[c + size[c]] > 0 /\ size[c + size[c]] \in Int
        /\ (c + size[c]) + size[c + size[c]] <= MemSize /\ size[c] > 0
    BY <2>1, WordsTyped DEF GCBase
  <2>4. ASSUME c > cur PROVE FALSE
    <3>1. c \in Words(cur) /\ c \in Words(c) /\ c # cur
      BY <2>2, <2>3, <2>4 DEF Words
    <3> QED
      BY <2>1, <3>1, WordsTyped DEF GCBase
  <2>5. c # cur
    BY <2>2, <2>3
  <2> QED
    BY <2>3, <2>4, <2>5
<1> QED
  BY <1>1, <1>3, OutsideInv

LEMMA Retyped ==
    ASSUME NEW S, NEW T, NEW s \in Seq(S), \A i \in 1 .. Len(s) : s[i] \in T
    PROVE  s \in Seq(T)
<1>1. Len(s) \in Nat /\ s = [i \in 1 .. Len(s) |-> s[i]]
  OBVIOUS
<1>2. \A n \in Nat : \A f \in [1 .. n -> T] : f \in Seq(T)
  OBVIOUS
<1> QED
  BY <1>1, <1>2

LEMMA GCInvInit == GCInit => GCInv
<1> SUFFICES ASSUME GCInit PROVE GCInv
  OBVIOUS
<1>1. pc = "client" /\ live = {0} /\ size[0] = MemSize /\ typed = FALSE /\ count = 0
  BY DEF GCInit, RCInit, Init, Fresh, Idle, Addr
<1>2. CoalescedUpTo
  BY <1>1 DEF CoalescedUpTo
<1> QED
  BY <1>1, <1>2 DEF GCInv, GCCoalesced, MarksInv, CountInv, StarvedInv, Collecting

LEMMA GCInvStep == GCBase /\ GCInv /\ [GCNext]_gcVars => GCInv'
<1> SUFFICES ASSUME GCBase, GCInv, [GCNext]_gcVars PROVE GCInv'
  OBVIOUS
<1>1. CASE GCProgram
  BY <1>1, ProgramGCInv
<1>2. CASE GCAllocStep
  BY <1>2, AllocGCInv
<1>3. CASE CollectStep
  <2>1. CASE CollectStarved
    BY <2>1, BeginInv DEF CollectStarved
  <2>2. CASE MarkZero \/ MarkZeroDone \/ MarkStack \/ MarkStackDone
    BY <2>2, MarkZeroInv, MarkZeroDoneInv, MarkStackInv, MarkStackDoneInv
  <2>3. CASE Traversing
    BY <2>3, TraversingInv
  <2>4. CASE TraceNext \/ TraceDone \/ Sweep \/ SweepDone
    BY <2>4, TraceNextInv, TraceDoneInv, SweepInv, SweepDoneInv
  <2>5. CASE GCConcat \/ CollectDone
    BY <2>5, GCConcatInv, CollectDoneInv
  <2> QED
    BY <1>3, <2>1, <2>2, <2>3, <2>4, <2>5 DEF CollectStep, Traversing
<1>4. CASE UNCHANGED gcVars
  <2>1. UNCHANGED <<list, live, next, size, mark, pc, cur, bytes, todo, data, handles,
                    count, visits, typed, before>>
    BY <1>4 DEF gcVars, rcVars, vars, chunk, call, program, gc
  <2>2. UNCHANGED <<Marked, CoalescedUpTo, WereCoalesced>>
    BY <2>1 DEF Marked, CoalescedUpTo, WereCoalesced, list
  <2>3. GCCoalesced' /\ StarvedInv'
    BY <2>1, <2>2 DEF GCInv, GCCoalesced, StarvedInv
  <2>4. ASSUME NEW pos PROVE (Runs(pos)' <=> Runs(pos)) /\ Passed(pos)' = Passed(pos)
    BY <2>1, NumbersKept DEF Passed
  <2>5. CountInv'
    <3>1. ASSUME NEW pos PROVE Unmarked(Passed(pos))' = Unmarked(Passed(pos))
      BY <2>1, <2>4 DEF Unmarked
    <3>2. pc' = "markZero" => \A pos \in [Addr -> Int] : Runs(pos)' =>
            count' = Cardinality(Passed(pos)' \ before')
      BY <2>1, <2>4 DEF GCInv, CountInv
    <3>3. pc' = "sweep" => \A pos \in [Addr -> Int] : Runs(pos)' =>
            count' = Cardinality(live' \ before') - Cardinality(Unmarked(Passed(pos))')
      BY <2>1, <2>4, <3>1 DEF GCInv, CountInv
    <3> QED
      BY <2>1, <2>2, <3>2, <3>3 DEF GCInv, CountInv
  <2>6. \A c \in live : StackHits(c)' <=> StackHits(c)
    BY <2>1 DEF StackHits, Words
  <2>7. MarksInv'
    BY <2>1, <2>2, <2>4, <2>6 DEF GCInv, MarksInv, Marked, Passed
  <2> QED
    BY <2>3, <2>5, <2>7 DEF GCInv
<1> QED
  BY <1>1, <1>2, <1>3, <1>4 DEF GCNext, GCCode

LEMMA GCInvariance == GCSpec => [](GCBase /\ GCInv)
  BY GCBaseInit, GCBaseStep, GCInvInit, GCInvStep, PTL DEF GCSpec

----------------------------------------------------------------------------
\* The ranges of the variables: the count of collect never exceeds the number
\* of chunks, up or down, and the calls under way traverse chunks of the list.
THEOREM GCTypeCorrectness == GCSpec => []GCTypeOK
<1>1. ASSUME GCBase, GCInv PROVE GCTypeOK
  <2>1. /\ first \in Ptr /\ live \subseteq Addr /\ mark \in [Addr -> {0, 1}] /\ cur \in Ptr
        /\ data \in [Addr -> Ptr \union {Foreign}] /\ before \subseteq Addr
    BY <1>1 DEF GCBase, IInv, Typed, GCTyped
  <2>2. count \in -MemSize .. MemSize
    <3>1. PICK pos \in [Addr -> Int] : Runs(pos)
      BY <1>1 DEF GCBase, ListInv
    <3>2. \A S \in SUBSET live : Cardinality(S) \in 0 .. MemSize
      BY <1>1, SetsFinite DEF GCBase
    <3>3. /\ Passed(pos) \ before \in SUBSET live /\ live \ before \in SUBSET live
          /\ Unmarked(Passed(pos)) \in SUBSET live /\ Marked \in SUBSET live
      BY DEF Passed, Unmarked, Marked
    <3>4. /\ Cardinality(Passed(pos) \ before) \in 0 .. MemSize
          /\ Cardinality(live \ before) \in 0 .. MemSize
          /\ Cardinality(Unmarked(Passed(pos))) \in 0 .. MemSize
          /\ Cardinality(Marked) \in 0 .. MemSize
      BY <3>2, <3>3
    <3>5. Cardinality(before) \in 0 .. MemSize
      <4>1. IsFiniteSet(Addr) /\ Cardinality(Addr) = MemSize
        BY FS_Interval DEF Addr
      <4> QED
        BY <2>1, <4>1, FS_Subset, FS_CardinalityType
    <3>6. /\ pc = "markZero" => count = Cardinality(Passed(pos) \ before)
          /\ pc \in {"markStack", "trace", "traverse", "findChunk"}
                => count = Cardinality(live \ before)
          /\ pc = "sweep" =>
                count = Cardinality(live \ before) - Cardinality(Unmarked(Passed(pos)))
          /\ pc \in {"concat", "collected"} => count = Cardinality(Marked) - Cardinality(before)
          /\ pc \in {"client", "find", "insert"} => count = 0
      BY <1>1, <3>1 DEF GCBase, GCTyped, GCInv, CountInv
    <3>7. pc \in {"client", "find", "insert", "concat", "collected", "markZero", "markStack",
                  "trace", "traverse", "findChunk", "sweep"}
      BY <1>1 DEF GCBase, GCTyped, Collecting
    <3> QED
      BY <3>4, <3>5, <3>6, <3>7
  <2>3. visits \in Seq([chunk : live, word : 0 .. MemSize])
    <3>1. visits \in Seq(Frame)
      BY <1>1 DEF GCBase, VisitsInv
    <3>2. ASSUME NEW i \in 1 .. Len(visits) PROVE visits[i] \in [chunk : live, word : 0 .. MemSize]
      BY <1>1, <3>2, VisitTyped DEF Frame
    <3> QED
      BY <3>1, <3>2, Retyped
  <2> QED
    BY <2>1, <2>2, <2>3 DEF GCTypeOK
<1> QED
  BY <1>1, GCInvariance, PTL

\* Under gc.alloc and collect, too, a manager in address order leaves no two
\* free neighbours behind when a call returns.
THEOREM GCCoalescedInvariant == GCSpec => []Coalesced
<1>1. GCInv => Coalesced
  BY DEF GCInv, GCCoalesced, CoalescedUpTo, Coalesced, Collecting
<1> QED
  BY <1>1, GCInvariance, PTL

\* The loops that a step which is none of the marking's leads to.
LEMMA PhasesAfter ==
    /\ GCProgram => pc' \in {"client", "find", "markZero"}
    /\ GCAllocStep => pc' \in {"client", "find", "insert"}
    /\ CollectStarved \/ MarkZero => pc' = "markZero"
    /\ MarkZeroDone \/ MarkStack => pc' = "markStack"
    /\ SweepDone => pc' \in {"concat", "collected"}
    /\ GCConcat => pc' = "concat"
    /\ CollectDone => pc' \in {"client", "find"}
<1>1. GCProgram => pc' \in {"client", "find", "markZero"}
  BY DEF GCProgram, GCAlloc, AllocChar, Alloc, AllocInt, Collect, Begin, Drop, StorePointer,
         TakePointer, StoreForeign, vars, call
<1>2. GCAllocStep => pc' \in {"client", "find", "insert"}
  BY DEF GCAllocStep, AllocStep, FindNext, FindFail, SplitAddress, SplitExact, SplitInPlace,
         SplitDetach, Insert, InsertFront, InsertBefore, InsertLast, InsertWalk, Inserted, Return
<1>3. /\ CollectStarved \/ MarkZero => pc' = "markZero"
      /\ MarkZeroDone \/ MarkStack => pc' = "markStack"
      /\ SweepDone => pc' \in {"concat", "collected"}
  BY DEF CollectStarved, Begin, MarkZero, MarkZeroDone, MarkStack, SweepDone, AfterSweep, Turn
<1>4. GCConcat => pc' = "concat"
  BY DEF GCConcat, ConcatMerge, ConcatNext
<1>5. CollectDone => pc' \in {"client", "find"}
  BY DEF CollectDone, Return
<1> QED
  BY <1>1, <1>2, <1>3, <1>4, <1>5

LEMMA RootsStep == GCBase /\ RootsInv /\ [GCNext]_gcVars => RootsInv'
<1> SUFFICES ASSUME GCBase, RootsInv, [GCNext]_gcVars PROVE RootsInv'
  OBVIOUS
<1>1. /\ live \subseteq Addr /\ mark \in [Addr -> {0, 1}] /\ cur \in live \union {NULL}
  BY DEF GCBase, IInv, Typed, Closure
<1>2. CASE MarkStack
  <2>1. PICK a : a = cur
    OBVIOUS
  <2>2. /\ a \in live /\ pc = "markStack" /\ pc' = "markStack" /\ cur' = next[a]
        /\ UNCHANGED <<list, live, next, size, todo, handles>>
    BY <1>1, <1>2, <2>1 DEF MarkStack, program
  <2>3. PICK m \in StackMarks(a) : mark' = IF m = 1 THEN [mark EXCEPT ![a] = 1] ELSE mark
    BY <1>2, <2>1 DEF MarkStack
  <2>4. /\ Rooted(a) => mark'[a] = 1
        /\ \A c \in live : mark[c] = 1 => mark'[c] = 1
    BY <1>1, <2>2, <2>3 DEF StackMarks, SpaceOf, Rooted
  <2>5. ASSUME NEW pos \in [Addr -> Int], Runs(pos)', NEW c \in Passed(pos)', Rooted(c)'
        PROVE  mark'[c] = 1
    <3>1. Runs(pos) /\ Passed(pos)' = Passed(pos) \union {a}
      BY <2>1, <2>2, <2>5, NumbersKept, PassedOneMore DEF GCBase
    <3>2. Rooted(c)
      BY <2>2, <2>5 DEF Rooted, Words
    <3>3. c \in Passed(pos) => c \in live /\ mark[c] = 1
      BY <2>2, <3>1, <3>2 DEF Passed, RootsInv
    <3> QED
      BY <2>4, <2>5, <3>1, <3>2, <3>3
  <2> QED
    BY <2>2, <2>5 DEF RootsInv
<1>3. CASE MarkZeroDone
  <2>1. Turn("markZero", "markStack") /\ "markZero" \in Collecting
    BY <1>3 DEF MarkZeroDone, Collecting
  <2>2. /\ pc' = "markStack"
        /\ \A pos \in [Addr -> Int] : Runs(pos)' => Passed(pos)' = {}
    BY <2>1, TurnFacts
  <2> QED
    BY <2>2 DEF RootsInv
<1>4. CASE MarkStackDone
  <2>1. Turn("markStack", "trace") /\ "markStack" \in Collecting
    BY <1>4 DEF MarkStackDone, Collecting
  <2>2. /\ pc = "markStack" /\ pc' = "trace" /\ UNCHANGED <<live, size, mark, handles>>
    BY <2>1, TurnFacts
  <2>3. PICK pos \in [Addr -> Int] : Runs(pos) /\ Passed(pos) = live
    BY <2>1, TurnFacts
  <2> QED
    BY <2>2, <2>3 DEF RootsInv, Rooted, Words
<1>5. CASE Traversing \/ TraceNext \/ TraceDone \/ Sweep \/ SweepDone
  <2>1. /\ UNCHANGED <<live, size, handles>> /\ pc' # "markStack"
        /\ pc \in {"trace", "traverse", "findChunk", "sweep"}
    BY <1>5 DEF Traversing, TraceMarked, TraverseFind, TraverseSkip, TraverseDone, FindChunkNext,
           FindChunkMark, FindChunkDone, FindReturn, TraceNext, TraceDone, Sweep, SweepDone,
           AfterSweep, Turn, vars, call, chunk, program
  <2>2. \A c \in live : mark[c] = 1 => mark'[c] = 1
    <3>1. CASE FindChunkMark
      BY <1>1, <3>1 DEF FindChunkMark
    <3>2. CASE mark' = mark
      BY <3>2
    <3> QED
      BY <1>5, <3>1, <3>2
         DEF Traversing, TraceMarked, TraverseFind, TraverseSkip, TraverseDone, FindChunkNext,
             FindChunkDone, FindReturn, TraceNext, TraceDone, Sweep, SweepDone, Turn, vars, chunk
  <2> QED
    BY <2>1, <2>2 DEF RootsInv, Rooted, Words
<1>6. CASE UNCHANGED gcVars
  <2>1. UNCHANGED <<list, live, next, size, mark, pc, cur, todo, handles>>
    BY <1>6 DEF gcVars, rcVars, vars, chunk, call, program
  <2>2. \A pos : (Runs(pos)' <=> Runs(pos)) /\ Passed(pos)' = Passed(pos)
    BY <2>1, NumbersKept DEF Passed
  <2>3. \A c : Rooted(c)' <=> Rooted(c)
    BY <2>1 DEF Rooted, Words
  <2> QED
    BY <2>1, <2>2, <2>3 DEF RootsInv
<1>7. CASE GCNext /\ ~ (\/ MarkStack \/ MarkZeroDone \/ MarkStackDone \/ Traversing
                        \/ TraceNext \/ TraceDone \/ Sweep \/ SweepDone)
  <2>1. pc' \notin {"markStack", "trace", "traverse", "findChunk", "sweep", "collected"}
    BY <1>7, PhasesAfter DEF Traversing, GCNext, GCCode, CollectStep
  <2> QED
    BY <2>1 DEF RootsInv
<1> QED
  BY <1>2, <1>3, <1>4, <1>5, <1>6, <1>7

\* collect frees nothing that a variable of the program refers to: markStack
\* finds every such chunk, and neither the tracing nor the sweep clears a mark.
THEOREM RootsInvariant == GCSpec => []RootsKept
<1>1. GCInit => RootsInv
  BY DEF GCInit, RCInit, Init, Fresh, RootsInv
<1>2. RootsInv => RootsKept
  BY DEF RootsInv, Rooted, RootsKept
<1> QED
  BY <1>1, <1>2, GCInvariance, RootsStep, PTL DEF GCSpec

\* collect reports a success only when there are more free chunks than before,
\* and always when it has freed a chunk and brought none back to life.
THEOREM ReportInvariant == GCSpec => []ReportsNetGain
<1>1. ASSUME GCBase, GCInv, pc = "sweep", cur = NULL
      PROVE  Gained(count) <=> Cardinality(Freed) > Cardinality(Revived)
  <2>1. PICK pos \in [Addr -> Int] : Runs(pos) /\ Passed(pos) = live
    BY <1>1 DEF GCBase, ListInv, Passed
  <2>2. before \subseteq live /\ live \subseteq Addr
    BY <1>1 DEF GCInv, CountInv, Collecting, GCBase, IInv, Typed
  <2>3. count = Cardinality(Marked) - Cardinality(before)
    BY <1>1, <2>1, <2>2, SweptCount DEF GCInv, CountInv, GCBase
  <2>4. PICK B, M : B = before /\ M = Marked
    OBVIOUS
  <2>5. /\ IsFiniteSet(B) /\ IsFiniteSet(M) /\ M \intersect B = B \intersect M
        /\ Cardinality(B) \in Int /\ Cardinality(M) \in Int
        /\ Cardinality(B \intersect M) \in Int
    <3>1. B \in SUBSET live /\ M \in SUBSET live /\ B \intersect M \in SUBSET live
      BY <2>2, <2>4 DEF Marked
    <3> QED
      BY <1>1, <3>1, SetsFinite DEF GCBase
  <2>6. /\ Cardinality(B \ M) = Cardinality(B) - Cardinality(B \intersect M)
        /\ Cardinality(M \ B) = Cardinality(M) - Cardinality(B \intersect M)
    BY <2>5, FS_Difference
  <2>7. Freed = B \ M /\ Revived = M \ B
    BY <2>4 DEF Freed, Revived
  <2> QED
    BY <2>3, <2>4, <2>5, <2>6, <2>7 DEF Gained
<1>2. ASSUME GCBase, GCInv, pc = "sweep", Freed # {}, Revived = {}
      PROVE  Cardinality(Freed) > Cardinality(Revived)
  <2>1. Freed \in SUBSET live
    BY <1>2 DEF GCInv, CountInv, Collecting, Freed
  <2>2. IsFiniteSet(Freed) /\ Cardinality(Freed) \in 0 .. MemSize
    BY <1>2, <2>1, SetsFinite DEF GCBase
  <2>3. Cardinality(Freed) # 0 /\ Cardinality(Revived) = 0
    BY <1>2, <2>2, FS_EmptySet
  <2> QED
    BY <2>2, <2>3
<1>3. GCBase /\ GCInv => ReportsNetGain
  BY <1>1, <1>2 DEF ReportsNetGain
<1> QED
  BY <1>3, GCInvariance, PTL

\* gc.alloc gives up only when no free chunk is large enough, unless its
\* collection has brought a chunk back to life.
THEOREM GivesUpInvariant == GCSpec => []GivesUpWhenFull
<1>1. ASSUME GCBase, GCInv, Returning, typed, ~ Gained(count), Revived = {}, NEW c \in live
      PROVE  ~ Fits(c, bytes)
  <2>1. /\ pc \in {"concat", "collected"} /\ live \subseteq Addr /\ before \subseteq Addr
        /\ mark \in [Addr -> {0, 1}] /\ size \in [Addr -> 0 .. MemSize] /\ bytes \in Int
    BY <1>1 DEF Returning, GCBase, GCTyped, IInv, Typed, Requests
  <2>2. count = Cardinality(Marked) - Cardinality(before)
    BY <1>1, <2>1 DEF GCInv, CountInv
  <2>3. Marked \subseteq before
    BY <1>1 DEF Revived
  <2>4. /\ IsFiniteSet(before) /\ Cardinality(before) \in Int
        /\ Cardinality(Marked) \in Int /\ Cardinality(Marked) <= Cardinality(before)
        /\ Cardinality(before) = Cardinality(Marked) => before = Marked
    <3>1. IsFiniteSet(Addr)
      BY FS_Interval DEF Addr
    <3>2. IsFiniteSet(before)
      BY <2>1, <3>1, FS_Subset
    <3>3. IsFiniteSet(Marked)
      BY <2>3, <3>2, FS_Subset
    <3> QED
      BY <2>3, <3>2, <3>3, FS_Subset, FS_CardinalityType
  <2>5. Marked = before
    BY <1>1, <2>2, <2>4 DEF Gained
  <2>6. \A d \in live \ before : size[d] < bytes
    BY <1>1, <2>1, <2>5 DEF GCInv, StarvedInv
  <2>7. mark[c] = 0 => c \notin before
    BY <2>5 DEF Marked
  <2> QED
    BY <2>1, <2>6, <2>7 DEF Fits
<1>2. GCBase /\ GCInv => GivesUpWhenFull
  BY <1>1 DEF GivesUpWhenFull
<1> QED
  BY <1>2, GCInvariance, PTL

----------------------------------------------------------------------------
(* The traversal of the marked chunks. *)

\* The words that traverseChunk looks up.
LEMMA WindowWords ==
    ASSUME GCTyped, NEW w \in Addr
    PROVE  InWindow(w) <=> data[w] \in Window
<1>1. data[w] \in Addr \union {NULL, Foreign}
  BY DEF GCTyped, Ptr
<1> QED
  BY <1>1 DEF InWindow, Window, Addr

\* Unless it is diverted, collect makes one call of traverseChunk at a time,
\* and the iterator is on the chunk that it traverses.
OneVisit ==
    pc \in {"traverse", "findChunk"} /\ ~ Diverted =>
        /\ Len(visits) = 1 /\ cur = Visit.chunk
        /\ pc = "findChunk" => cur = first

\* While collect traverses chunks, no mark goes and nothing else changes.
LEMMA StaysDiverted ==
    ASSUME UNCHANGED <<list, live, size, data>>, \A c \in live : mark[c] = 1 => mark'[c] = 1,
           pc \in {"trace", "traverse", "findChunk"}, pc' \in {"trace", "traverse", "findChunk"},
           ~ Diverted'
    PROVE  ~ Diverted
<1>1. \A c : Words(c)' = Words(c)
  BY DEF Words
<1> QED
  BY <1>1 DEF Diverted, Marked, list

\* A chunk that is traversed and has led to findChunk is the first, where the
\* walk of findChunk begins and, as the word is one of its own, ends.
LEMMA VisitsFirst ==
    ASSUME GCBase, ~ Diverted, pc \in {"traverse", "findChunk"},
           Visit.word \in Words(Visit.chunk), InWindow(Visit.word)
    PROVE  Visit.chunk = first
<1>1. Visit.chunk \in Marked
  BY InnermostVisit DEF Marked
<1>2. Visit.word \in Addr
  BY <1>1, WordsTyped DEF Marked, GCBase
<1>3. data[Visit.word] \in Window
  BY <1>2, WindowWords DEF GCBase
<1> QED
  BY <1>1, <1>3 DEF Diverted

LEMMA FindsFirst ==
    ASSUME GCBase, OneVisit, ~ Diverted, pc = "findChunk"
    PROVE  cur = first /\ cur # NULL /\ Visit.chunk = cur /\ Encloses(cur, Visit.word)
<1>1. cur = first /\ Visit.chunk = cur
  BY DEF OneVisit
<1>2. /\ Visit.chunk \in live /\ Visit.chunk \in Int /\ size[Visit.chunk] \in Int
      /\ Visit.word \in Words(Visit.chunk)
  BY InnermostVisit
<1>3. Visit.chunk # NULL
  BY <1>2
<1>4. Encloses(Visit.chunk, Visit.word)
  BY <1>2 DEF Encloses, Words
<1> QED
  BY <1>1, <1>3, <1>4

LEMMA OneAdvances ==
    ASSUME GCBase, pc \in {"traverse", "findChunk"},
           visits' = [visits EXCEPT ![Len(visits)].word = NextWord(@)]
    PROVE  /\ Len(visits') = Len(visits) /\ Visit'.chunk = Visit.chunk
           /\ Visit'.word = Visit.word + 1
<1>1. PICK n, v, r : n = Len(visits) /\ v = visits /\ r = [visits[n] EXCEPT !.word = visits[n].word + 1]
  OBVIOUS
<1>2. n \in 1 .. Len(v) /\ v \in Seq(Frame) /\ Visit = v[n] /\ v[n] \in Frame
  BY <1>1, InnermostVisit, VisitTyped DEF GCBase, VisitsInv
<1>3. r.chunk = v[n].chunk /\ r.word = v[n].word + 1
  BY <1>1, <1>2 DEF Frame
<1>4. visits' = [v EXCEPT ![n] = r]
  BY <1>1 DEF NextWord
<1>5. Len(visits') = n /\ visits'[n] = r
  BY <1>1, <1>2, <1>4
<1> QED
  BY <1>1, <1>2, <1>3, <1>5 DEF Visit

LEMMA OneVisitStep == GCBase /\ OneVisit /\ [GCNext]_gcVars => OneVisit'
<1> SUFFICES ASSUME GCBase, OneVisit, [GCNext]_gcVars,
                    pc' \in {"traverse", "findChunk"}, ~ Diverted'
             PROVE  /\ Len(visits') = 1 /\ cur' = Visit'.chunk
                    /\ pc' = "findChunk" => cur' = first'
  BY DEF OneVisit
<1>1. CASE TraceMarked
  <2>1. visits' = <<[chunk |-> cur, word |-> cur]>> /\ cur' = cur /\ pc' = "traverse"
    BY <1>1 DEF TraceMarked
  <2>2. Len(visits') = 1 /\ visits'[1].chunk = cur
    BY <2>1
  <2> QED
    BY <2>1, <2>2 DEF Visit
<1>2. ASSUME pc \in {"traverse", "findChunk"}, UNCHANGED <<list, live, size, data, mark>>
      PROVE  ~ Diverted /\ Len(visits) = 1 /\ cur = Visit.chunk
  BY <1>2, StaysDiverted DEF OneVisit
<1>3. CASE TraverseFind
  <2>1. /\ pc = "traverse" /\ UNCHANGED <<list, live, size, data, mark, visits>>
        /\ Visit.word \in Words(Visit.chunk) /\ InWindow(Visit.word) /\ cur' = first
    BY <1>3 DEF TraverseFind, chunk, program, gc
  <2>2. Visit.chunk = first
    BY <1>2, <2>1, VisitsFirst
  <2> QED
    BY <1>2, <2>1, <2>2 DEF Visit, list
<1>4. CASE TraverseSkip
  <2>1. /\ pc = "traverse" /\ pc' = "traverse" /\ cur' = cur
        /\ UNCHANGED <<list, live, size, data, mark>>
        /\ visits' = [visits EXCEPT ![Len(visits)].word = NextWord(@)]
    BY <1>4 DEF TraverseSkip, vars, chunk, call, program
  <2>2. Len(visits') = 1 /\ Visit'.chunk = Visit.chunk
    BY <1>2, <2>1, OneAdvances
  <2> QED
    BY <1>2, <2>1, <2>2
<1>5. CASE FindChunkDone
  <2>1. /\ pc = "findChunk" /\ pc' = "traverse" /\ cur' = first
        /\ UNCHANGED <<list, live, size, data, mark>>
        /\ visits' = [visits EXCEPT ![Len(visits)].word = NextWord(@)]
    BY <1>5 DEF FindChunkDone, FindReturn, chunk, program
  <2>2. Len(visits') = 1 /\ Visit'.chunk = Visit.chunk
    BY <1>2, <2>1, OneAdvances
  <2> QED
    BY <1>2, <2>1, <2>2, FindsFirst
<1>6. CASE TraverseDone
  <2>1. pc = "traverse" /\ UNCHANGED <<list, live, size, data, mark>>
    BY <1>6 DEF TraverseDone, chunk, program
  <2>2. Len(visits) = 1
    BY <1>2, <2>1
  <2>3. SubSeq(visits, 1, Len(visits) - 1) = <<>>
    BY <2>2
  <2> QED
    BY <1>6, <2>3 DEF TraverseDone
<1>7. CASE FindChunkNext
  <2>1. pc = "findChunk" /\ UNCHANGED <<list, live, size, data, mark>> /\ ~ Encloses(cur, Visit.word)
    BY <1>7 DEF FindChunkNext, chunk, program
  <2> QED
    BY <1>2, <2>1, FindsFirst
<1>8. CASE FindChunkMark
  <2>1. /\ pc = "findChunk" /\ pc' = "traverse" /\ UNCHANGED <<list, live, size, data>>
        /\ mark' = [mark EXCEPT ![cur] = 1] /\ cur # Visit.chunk
    BY <1>8 DEF FindChunkMark, program
  <2>2. \A c \in live : mark[c] = 1 => mark'[c] = 1
    BY <2>1 DEF GCBase, IInv, Typed
  <2>3. ~ Diverted
    BY <2>1, <2>2, StaysDiverted
  <2> QED
    BY <2>1, <2>3, FindsFirst
<1>9. CASE UNCHANGED gcVars
  <2>1. UNCHANGED <<list, live, size, data, mark, visits, cur, pc>>
    BY <1>9 DEF gcVars, rcVars, vars, chunk, call, program, gc
  <2> QED
    BY <1>2, <2>1, FindsFirst DEF Visit, list
<1>10. CASE ~ Traversing /\ GCNext
  <2>1. pc' \notin {"traverse", "findChunk"}
    BY <1>10 DEF Traversing, GCNext, GCProgram, GCCode, CollectStep, GCAlloc, AllocChar, Collect,
           CollectStarved, Begin, Alloc, AllocInt, Drop, StorePointer, TakePointer, StoreForeign,
           GCAllocStep, AllocStep, FindNext, FindFail, SplitAddress, SplitExact, SplitInPlace,
           SplitDetach, Insert, InsertFront, InsertBefore, InsertLast, InsertWalk, Inserted, Return,
           MarkZero, MarkZeroDone, MarkStack, MarkStackDone, TraceNext, TraceDone, Turn, Sweep,
           SweepDone, AfterSweep, GCConcat, ConcatMerge, ConcatNext, CollectDone, vars, call
  <2> QED
    BY <2>1
<1> QED
  BY <1>1, <1>3, <1>4, <1>5, <1>6, <1>7, <1>8, <1>9, <1>10 DEF Traversing

----------------------------------------------------------------------------
(* Why a chunk survives. *)

\* The marked chunks that the loop of collect has passed since it began, or
\* was last sent back, the first one apart, hold nothing that collect takes
\* for a pointer.
Cleared ==
    \A pos \in [Addr -> Int] : Runs(pos) =>
        \A c \in Passed(pos) : mark[c] = 1 /\ c # first => \A w \in Words(c) : data[w] \notin Window

\* Unless it is diverted, the traversal saves no chunk; and if it is, the loop
\* of collect cannot come to the end of the list: the outermost call of
\* traverseChunk leaves the iterator on its chunk only if that is clear too.
Unhelped ==
    /\ pc = "sweep" \/ (pc \in {"trace", "traverse", "findChunk"} /\ ~ Diverted)
          => \A c \in Marked : StackHits(c)
    /\ pc = "trace" => Cleared
    /\ pc = "traverse" /\ Len(visits) = 1 /\ cur # first =>
          /\ Cleared /\ cur = Visit.chunk
          /\ \A w \in cur .. Visit.word - 1 : data[w] \notin Window

LEMMA ClearedKept ==
    ASSUME UNCHANGED <<list, live, next, todo, size, mark, cur, data>>, Cleared
    PROVE  Cleared'
<1>1. \A c \in live : Words(c)' = Words(c)
  BY DEF Words
<1>2. \A pos : Passed(pos)' = Passed(pos) /\ Passed(pos) \subseteq live
  BY DEF Passed
<1> QED
  BY <1>1, <1>2, NumbersKept DEF Cleared, list

LEMMA ClearedAtFirst ==
    ASSUME GCBase, pc # "insert", UNCHANGED <<list, live, next, todo>>, cur' = first
    PROVE  Cleared'
<1>1. ASSUME NEW pos \in [Addr -> Int], Runs(pos)' PROVE Passed(pos)' = {}
  BY <1>1, NumbersKept, PassedNone DEF GCBase
<1> QED
  BY <1>1 DEF Cleared

LEMMA ClearedOneMore ==
    ASSUME GCBase, pc # "insert", NEW a \in live, a = cur, cur' = next[a],
           UNCHANGED <<list, live, next, todo, size, mark, data>>,
           Cleared \/ a = first,
           mark[a] = 1 /\ a # first => \A w \in Words(a) : data[w] \notin Window
    PROVE  Cleared'
<1>1. ASSUME NEW pos \in [Addr -> Int], Runs(pos)', NEW c \in Passed(pos)', mark[c] = 1, c # first
      PROVE  \A w \in Words(c) : data[w] \notin Window
  <2>1. Runs(pos) /\ Passed(pos)' = Passed(pos) \union {a}
    BY <1>1, NumbersKept, PassedOneMore DEF GCBase
  <2>2. CASE c = a
    BY <1>1, <2>2
  <2>3. CASE c \in Passed(pos) /\ Cleared
    BY <1>1, <2>1, <2>3 DEF Cleared
  <2>4. CASE c \in Passed(pos) /\ a = first
    <3>1. c \in live /\ pos[c] < pos[first]
      BY <2>4 DEF Passed, GCBase, IInv, Typed, Addr
    <3>2. c \in Listed /\ pos[c] \in Int /\ pos[first] \in Int
      BY <2>4, <3>1, NothingWaits DEF GCBase, IInv, Typed
    <3> QED
      BY <2>1, <3>1, <3>2 DEF Runs
  <2> QED
    BY <1>1, <2>1, <2>2, <2>3, <2>4
<1>2. \A c \in live : Words(c)' = Words(c)
  BY DEF Words
<1>3. \A pos : Passed(pos)' \subseteq live
  BY DEF Passed
<1> QED
  BY <1>1, <1>2, <1>3 DEF Cleared, list

\* The steps of traverseChunk and findChunk.
LEMMA TraversingUnhelped ==
    ASSUME GCBase, OneVisit, Unhelped, Traversing
    PROVE  Unhelped'
<1>1. /\ UNCHANGED <<list, live, next, todo, size, data, handles>>
      /\ pc \in {"trace", "traverse", "findChunk"} /\ pc' \in {"trace", "traverse", "findChunk"}
  BY DEF Traversing, TraceMarked, TraverseFind, TraverseSkip, TraverseDone, FindChunkNext,
         FindChunkMark, FindChunkDone, FindReturn, vars, call, chunk, program, gc
<1>2. /\ mark \in [Addr -> {0, 1}] /\ live \subseteq Addr
      /\ pc = "traverse" => cur \in live
  BY DEF GCBase, IInv, Typed, Closure, VisitsInv
<1>3. ASSUME ~ Diverted' PROVE \A c \in Marked' : StackHits(c)'
  <2>1. mark' = mark
    <3>1. ASSUME FindChunkMark PROVE FALSE
      <4>1. /\ pc = "findChunk" /\ mark' = [mark EXCEPT ![cur] = 1] /\ cur # Visit.chunk
        BY <3>1 DEF FindChunkMark
      <4>2. ~ Diverted
        BY <1>1, <1>2, <1>3, <4>1, StaysDiverted
      <4> QED
        BY <4>1, <4>2, FindsFirst
    <3> QED
      BY <3>1 DEF Traversing, TraceMarked, TraverseFind, TraverseSkip, TraverseDone,
                  FindChunkNext, FindChunkDone, FindReturn, vars, chunk
  <2>2. ~ Diverted
    BY <1>1, <1>3, <2>1, StaysDiverted
  <2>3. \A c \in Marked : StackHits(c)
    BY <1>1, <2>2 DEF Unhelped
  <2> QED
    BY <1>1, <2>1, <2>3 DEF Marked, StackHits, Words
<1>4. pc' = "trace" => Cleared'
  <2> SUFFICES ASSUME pc' = "trace" PROVE Cleared'
    OBVIOUS
  <2>1. /\ TraverseDone /\ pc = "traverse" /\ cur' = next[cur] /\ mark' = mark
        /\ Visit.word \notin Words(Visit.chunk)
        /\ SubSeq(visits, 1, Len(visits) - 1) = <<>>
    BY DEF Traversing, TraceMarked, TraverseFind, TraverseSkip, TraverseDone,
           FindChunkNext, FindChunkMark, FindChunkDone, FindReturn, vars, call, chunk
  <2>2. Len(visits) = 1
    <3>1. PICK s, t, n : s = visits /\ t = SubSeq(s, 1, Len(s) - 1) /\ n = Len(s) - 1
      OBVIOUS
    <3>2. s \in Seq(Frame) /\ s # <<>>
      BY <2>1, <3>1 DEF GCBase, VisitsInv
    <3>3. n \in Nat /\ Len(s) = n + 1 /\ Len(t) = n
      BY <3>1, <3>2, Popped
    <3>4. Len(t) = 0
      BY <2>1, <3>1
    <3> QED
      BY <3>1, <3>3, <3>4
  <2>3. ASSUME cur # first, NEW w \in Words(cur) PROVE data[w] \notin Window
    <3>1. cur = Visit.chunk /\ \A x \in cur .. Visit.word - 1 : data[x] \notin Window
      BY <2>1, <2>2, <2>3 DEF Unhelped
    <3>2. /\ Visit.chunk \in Int /\ Visit.word \in Int /\ size[Visit.chunk] \in Int
          /\ Visit.chunk <= Visit.word
      BY <2>1, InnermostVisit
    <3>3. Words(cur) \subseteq cur .. Visit.word - 1
      BY <2>1, <3>1, <3>2 DEF Words
    <3> QED
      BY <2>3, <3>1, <3>3
  <2>4. Cleared \/ cur = first
    BY <2>1, <2>2 DEF Unhelped
  <2> QED
    BY <1>1, <1>2, <2>1, <2>3, <2>4, ClearedOneMore
<1>5. ASSUME pc' = "traverse", Len(visits') = 1, cur' # first'
      PROVE  /\ Cleared' /\ cur' = Visit'.chunk
             /\ \A w \in cur' .. Visit'.word - 1 : data'[w] \notin Window
  <2>1. CASE TraceMarked
    <3>1. /\ visits' = <<[chunk |-> cur, word |-> cur]>> /\ cur' = cur /\ mark' = mark
          /\ pc = "trace" /\ cur \in live
      BY <2>1 DEF TraceMarked, chunk, GCBase, IInv, Closure
    <3>2. Visit'.chunk = cur /\ Visit'.word = cur /\ cur \in Int
      BY <1>2, <3>1 DEF Visit, Addr
    <3>3. cur .. cur - 1 = {}
      BY <3>2
    <3> QED
      BY <1>1, <3>1, <3>2, <3>3, ClearedKept DEF Unhelped
  <2>2. CASE TraverseSkip
    <3>1. /\ pc = "traverse" /\ cur' = cur /\ mark' = mark
          /\ Visit.word \in Words(Visit.chunk) /\ ~ InWindow(Visit.word)
          /\ visits' = [visits EXCEPT ![Len(visits)].word = NextWord(@)]
      BY <2>2 DEF TraverseSkip, vars, call, chunk
    <3>2. /\ Len(visits') = Len(visits) /\ Visit'.chunk = Visit.chunk
          /\ Visit'.word = Visit.word + 1
      BY <3>1, OneAdvances
    <3>3. /\ Cleared /\ cur = Visit.chunk
          /\ \A w \in cur .. Visit.word - 1 : data[w] \notin Window
      BY <1>1, <1>5, <3>1, <3>2 DEF Unhelped, list
    <3>4. /\ Visit.chunk \in live /\ Visit.chunk \in Int /\ Visit.word \in Int
      BY <3>1, InnermostVisit
    <3>5. data[Visit.word] \notin Window
      <4>1. Visit.word \in Addr
        BY <3>1, <3>4, WordsTyped DEF GCBase
      <4> QED
        BY <3>1, <4>1, WindowWords DEF GCBase
    <3>6. \A w \in cur .. (Visit.word + 1) - 1 : w \in cur .. Visit.word - 1 \/ w = Visit.word
      BY <3>3, <3>4
    <3> QED
      BY <1>1, <3>1, <3>2, <3>3, <3>5, <3>6, ClearedKept
  <2>3. CASE FindChunkMark
    <3>1. /\ pc = "findChunk" /\ visits' = Append(visits, [chunk |-> cur, word |-> cur])
      BY <2>3 DEF FindChunkMark
    <3>2. visits \in Seq(Frame) /\ Len(visits) \in Nat \ {0}
      BY <3>1, InnermostVisit DEF GCBase, VisitsInv
    <3>3. Len(visits') = Len(visits) + 1
      BY <3>1, <3>2
    <3> QED
      BY <1>5, <3>2, <3>3
  <2>4. CASE TraverseFind \/ TraverseDone \/ FindChunkNext \/ FindChunkDone
    BY <1>1, <1>5, <2>4 DEF TraverseFind, TraverseDone, FindChunkNext, FindChunkDone, FindReturn,
                            list
  <2> QED
    BY <2>1, <2>2, <2>3, <2>4 DEF Traversing
<1> QED
  BY <1>1, <1>3, <1>4, <1>5 DEF Unhelped

LEMMA UnhelpedStep == GCBase /\ GCInv /\ OneVisit /\ Unhelped /\ [GCNext]_gcVars => Unhelped'
<1> SUFFICES ASSUME GCBase, GCInv, OneVisit, Unhelped, [GCNext]_gcVars PROVE Unhelped'
  OBVIOUS
<1>1. CASE Traversing
  BY <1>1, TraversingUnhelped
<1>2. CASE MarkStackDone
  <2>1. Turn("markStack", "trace") /\ "markStack" \in Collecting
    BY <1>2 DEF MarkStackDone, Collecting
  <2>2. /\ pc = "markStack" /\ pc' = "trace" /\ cur' = first
        /\ UNCHANGED <<list, live, next, todo, size, mark, handles>>
    BY <2>1, TurnFacts
  <2>3. \A c \in Marked' : StackHits(c)'
    BY <2>2 DEF GCInv, MarksInv, Marked, StackHits, Words
  <2>4. Cleared'
    BY <2>2, ClearedAtFirst
  <2> QED
    BY <2>2, <2>3, <2>4 DEF Unhelped
<1>3. CASE TraceNext
  <2>1. /\ pc = "trace" /\ pc' = "trace" /\ cur' = next[cur] /\ mark[cur] # 1 /\ cur \in live
        /\ UNCHANGED <<list, live, next, todo, size, mark, data, handles>>
    BY <1>3 DEF TraceNext, chunk, program, gc, GCBase, IInv, Closure
  <2>2. Cleared'
    BY <2>1, ClearedOneMore DEF Unhelped
  <2>3. ASSUME ~ Diverted' PROVE \A c \in Marked' : StackHits(c)'
    BY <2>1, <2>3, StaysDiverted DEF Unhelped, Marked, StackHits, Words
  <2> QED
    BY <2>1, <2>2, <2>3 DEF Unhelped
<1>4. CASE TraceDone
  <2>1. Turn("trace", "sweep") /\ "trace" \in Collecting
    BY <1>4 DEF TraceDone, Collecting
  <2>2. /\ pc = "trace" /\ pc' = "sweep"
        /\ UNCHANGED <<list, live, size, mark, handles>>
    BY <2>1, TurnFacts
  <2>3. PICK pos \in [Addr -> Int] : Runs(pos) /\ Passed(pos) = live
    BY <2>1, TurnFacts
  <2>4. ~ Diverted
    BY <2>2, <2>3 DEF Unhelped, Cleared, Diverted, Marked
  <2>5. \A c \in Marked : StackHits(c)
    BY <2>2, <2>4 DEF Unhelped
  <2> QED
    BY <2>2, <2>5 DEF Unhelped, Marked, StackHits, Words
<1>5. CASE Sweep
  <2>1. pc = "sweep" /\ pc' = "sweep" /\ UNCHANGED <<list, live, size, mark, handles>>
    BY <1>5 DEF Sweep, chunk, program
  <2> QED
    BY <2>1 DEF Unhelped, Marked, StackHits, Words
<1>6. CASE UNCHANGED gcVars
  <2>1. UNCHANGED <<list, live, next, todo, size, mark, pc, cur, data, handles, visits>>
    BY <1>6 DEF gcVars, rcVars, vars, chunk, call, program, gc
  <2>2. /\ Diverted' <=> Diverted
        /\ Visit' = Visit
        /\ (\A c \in Marked : StackHits(c)) => \A c \in Marked' : StackHits(c)'
    BY <2>1 DEF Diverted, Visit, Marked, StackHits, Words, list
  <2>3. Cleared => Cleared'
    BY <2>1, ClearedKept
  <2> QED
    BY <2>1, <2>2, <2>3 DEF Unhelped, list
<1>7. CASE GCNext /\ ~ (Traversing \/ MarkStackDone \/ TraceNext \/ TraceDone \/ Sweep)
  <2>1. pc' \notin {"trace", "traverse", "findChunk", "sweep"}
    BY <1>7, PhasesAfter DEF Traversing, GCNext, GCCode, CollectStep
  <2> QED
    BY <2>1 DEF Unhelped
<1> QED
  BY <1>1, <1>2, <1>3, <1>4, <1>5, <1>6, <1>7

\* A chunk survives a collection for one reason only: a word of the stack in
\* its space.  The traversal of the marked chunks brings none through: a chunk
\* that it marks diverts the loop of collect, which then never reaches its end.
THEOREM ExplainedInvariant == GCSpec => []MarksExplained
<1>1. GCInit => OneVisit /\ Unhelped
  BY DEF GCInit, RCInit, Init, Fresh, OneVisit, Unhelped
<1>2. Unhelped => MarksExplained
  BY DEF Unhelped, StackHits, MarksExplained
<1> QED
  BY <1>1, <1>2, GCInvariance, OneVisitStep, UnhelpedStep, PTL DEF GCSpec

----------------------------------------------------------------------------
(* The measure of a call that is not diverted. *)

\* The digits of CollectTurns are within their ranges.
LEMMA FewWalks == IInv => PassesLeft \in 0 .. (MemSize + 4) * (MemSize + 2) - 1
<1> SUFFICES ASSUME IInv PROVE PassesLeft \in 0 .. (MemSize + 4) * (MemSize + 2) - 1
  OBVIOUS
<1>1. live \subseteq Addr /\ Len(todo) \in {0, 1, 2}
  BY DEF IInv, Typed, Closure
<1>2. WalksLeft \in 0 .. MemSize + 3
  <2>1. Cardinality(live) \in 0 .. MemSize + 3 /\ Len(todo) \in 0 .. MemSize + 3
    <3>1. PICK c, n : c = Cardinality(live) /\ n = Len(todo)
      OBVIOUS
    <3>2. c \in 0 .. MemSize /\ n \in {0, 1, 2}
      BY <1>1, <3>1, FewLive
    <3>3. c \in 0 .. MemSize + 3 /\ n \in 0 .. MemSize + 3
      BY <3>2
    <3> QED
      BY <3>1, <3>3
  <2>2. {0, 3, MemSize + 1} \subseteq 0 .. MemSize + 3
    OBVIOUS
  <2> QED
    BY <2>1, <2>2 DEF WalksLeft
<1>3. PICK w, t, m : w = WalksLeft /\ t = Cardinality(ToCome) /\ m = MemSize + 2
  OBVIOUS
<1>4. w \in 0 .. m + 1 /\ t \in 0 .. m - 1 /\ m \in Nat
  BY <1>2, <1>3, FewToCome
<1>5. w * m + t \in Nat /\ w * m + t < (m + 2) * m
  <2>1. w * m + t \in Nat
    BY <1>4
  <2>2. w * m + t < (m + 2) * m + 0
    BY <1>4, Lower
  <2>3. (m + 2) * m \in Nat
    BY <1>4
  <2> QED
    BY <2>1, <2>2, <2>3
<1>6. PassesLeft = w * m + t /\ m + 2 = MemSize + 4
  BY <1>3, <1>4 DEF PassesLeft
<1> QED
  BY <1>3, <1>4, <1>5, <1>6

LEMMA FewChunks ==
    \A S : S \subseteq Addr => IsFiniteSet(S) /\ Cardinality(S) \in Nat
<1>1. IsFiniteSet(Addr)
  BY FS_Interval DEF Addr
<1> QED
  BY <1>1, FS_Subset, FS_CardinalityType

LEMMA TurnDigits ==
    GCBase => /\ Retries \in Nat /\ LoopsLeft \in 0 .. 6
              /\ PassesLeft \in 0 .. (MemSize + 4) * (MemSize + 2) - 1
              /\ WordTurns \in 0 .. 2 * MemSize + 2
<1> SUFFICES ASSUME GCBase
             PROVE  /\ Retries \in Nat /\ LoopsLeft \in 0 .. 6
                    /\ PassesLeft \in 0 .. (MemSize + 4) * (MemSize + 2) - 1
                    /\ WordTurns \in 0 .. 2 * MemSize + 2
  OBVIOUS
<1>1. Retries \in Nat
  <2>1. Used \subseteq Addr /\ before \subseteq Addr
    BY DEF GCBase, IInv, Typed, GCTyped, Used
  <2>2. Cardinality(Used) \in Nat /\ Cardinality(before) \in Nat
    BY <2>1, FewChunks
  <2> QED
    BY <2>2 DEF Retries, GCBase, GCTyped
<1>2. LoopsLeft \in 0 .. 6
  BY DEF LoopsLeft
<1>3. WordTurns \in 0 .. 2 * MemSize + 2
  <2>1. ASSUME pc \in {"traverse", "findChunk"}
        PROVE  Visit.chunk + size[Visit.chunk] - Visit.word \in 0 .. MemSize
    <3>1. PICK n : n = Len(visits) /\ n \in 1 .. Len(visits) /\ Visit = visits[n]
      BY <2>1, InnermostVisit
    <3>2. /\ Visit.chunk \in Int /\ Visit.word \in Int /\ size[Visit.chunk] \in Int
          /\ Visit.chunk + size[Visit.chunk] <= MemSize /\ Visit \in Frame
      BY <3>1, VisitTyped
    <3>3. Visit.word <= Visit.chunk + size[Visit.chunk]
      BY <3>1 DEF GCBase, VisitsInv
    <3>4. Visit.word >= 0
      BY <3>2 DEF Frame
    <3> QED
      BY <3>2, <3>3, <3>4
  <2> QED
    BY <2>1 DEF WordTurns
<1> QED
  BY <1>1, <1>2, <1>3, FewWalks DEF GCBase

LEMMA TurnDigitsNext ==
    (GCBase => /\ Retries \in Nat /\ LoopsLeft \in 0 .. 6
               /\ PassesLeft \in 0 .. (MemSize + 4) * (MemSize + 2) - 1
               /\ WordTurns \in 0 .. 2 * MemSize + 2)'
  BY TurnDigits, PTL

\* One digit of CollectTurns falls and those before it do not rise.
LEMMA TurnsGoDown ==
    ASSUME GCBase, GCBase',
           \/ Retries' < Retries
           \/ /\ Retries' = Retries
              /\ \/ LoopsLeft' < LoopsLeft
                 \/ /\ LoopsLeft' = LoopsLeft
                    /\ \/ PassesLeft' < PassesLeft
                       \/ PassesLeft' = PassesLeft /\ WordTurns' < WordTurns
    PROVE  CollectTurns' < CollectTurns
<1>1. PICK r, l, p, w, s, m, q, x, K, L :
            /\ r = Retries' /\ l = LoopsLeft' /\ p = PassesLeft' /\ w = WordTurns'
            /\ s = Retries /\ m = LoopsLeft /\ q = PassesLeft /\ x = WordTurns
            /\ K = (MemSize + 4) * (MemSize + 2) /\ L = 2 * MemSize + 3
  OBVIOUS
<1>2. /\ r \in Nat /\ l \in Nat /\ l < 7 /\ p \in Nat /\ p < K /\ w \in Nat /\ w < L
      /\ s \in Nat /\ m \in Nat /\ q \in Nat /\ x \in Nat /\ K \in Nat /\ L \in Nat
  <2>1. K \in Nat /\ L \in Nat
    BY <1>1
  <2> QED
    BY <1>1, <2>1, TurnDigits, TurnDigitsNext
<1>3. \/ r < s
      \/ r = s /\ (l < m \/ (l = m /\ (p < q \/ (p = q /\ w < x))))
  BY <1>1
<1>4. PICK a, b, c, d : /\ a = r * 7 + l /\ b = s * 7 + m
                        /\ c = a * K + p /\ d = b * K + q
  OBVIOUS
<1>5. a \in Nat /\ b \in Nat /\ c \in Nat /\ d \in Nat
  <2>1. a \in Nat /\ b \in Nat
    BY <1>2, <1>4
  <2> QED
    BY <1>2, <1>4, <2>1
<1>6. a < b \/ (a = b /\ (p < q \/ (p = q /\ w < x)))
  <2>1. r < s \/ (r = s /\ l < m) => a < b
    BY <1>2, <1>4, Lower
  <2> QED
    BY <1>3, <1>4, <2>1
<1>7. c < d \/ (c = d /\ w < x)
  <2>1. a < b \/ (a = b /\ p < q) => c < d
    BY <1>2, <1>4, <1>5, Lower
  <2> QED
    BY <1>4, <1>6, <2>1
<1>8. c * L + w < d * L + x
  BY <1>2, <1>5, <1>7, Lower
<1>9. CollectTurns' = c * L + w /\ CollectTurns = d * L + x
  BY <1>1, <1>4 DEF CollectTurns
<1> QED
  BY <1>8, <1>9

\* A step along a list that nothing changes, in one of collect's loops, ...
LEMMA WalkTurns ==
    ASSUME GCBase, UNCHANGED <<list, live, next, todo, typed, before>>,
           cur \in live, cur' = next[cur], pc \in Collecting, pc' \in Collecting, pc' = pc
              \/ (pc = "traverse" /\ pc' = "trace")
    PROVE  Retries' = Retries /\ LoopsLeft' = LoopsLeft /\ PassesLeft' < PassesLeft
<1>1. PICK pos \in [Addr -> Int] : Runs(pos)
  BY DEF GCBase, ListInv
<1>2. cur \in Listed
  BY NothingWaits DEF GCBase, Collecting
<1>3. Cardinality(ToCome') < Cardinality(ToCome)
  BY <1>1, <1>2, WalksOn DEF GCBase
<1>4. WalksLeft = 0 /\ WalksLeft' = 0
  BY DEF WalksLeft, Collecting
<1>5. PassesLeft' < PassesLeft
  BY <1>3, <1>4, PassesFall
<1>6. Retries' = Retries /\ LoopsLeft' = LoopsLeft
  BY DEF Retries, LoopsLeft, Collecting
<1> QED
  BY <1>5, <1>6

\* ... and one that leaves the iterator where it is.
LEMMA StillTurns ==
    ASSUME UNCHANGED <<list, next, cur, typed, before>>,
           pc \in {"trace", "traverse", "findChunk"}, pc' \in {"trace", "traverse", "findChunk"}
    PROVE  Retries' = Retries /\ LoopsLeft' = LoopsLeft /\ PassesLeft' = PassesLeft
<1>1. WalksLeft = 0 /\ WalksLeft' = 0
  BY DEF WalksLeft
<1>2. Walk' = Walk
  BY DEF Walk, list
<1>3. ToCome' = ToCome
  BY <1>2 DEF ToCome
<1> QED
  BY <1>1, <1>3 DEF PassesLeft, Retries, LoopsLeft

\* alloc, and the merging at the end of collect.
LEMMA AllocatorTurns ==
    ASSUME GCBase, GCBase', GCAllocStep \/ GCConcat
    PROVE  CollectTurns' < CollectTurns
<1>1. PassesLeft' < PassesLeft
  <2>1. Code
    BY DEF GCAllocStep, GCConcat, AllocStep, Code, Find, Insert, Concat
  <2> QED
    BY <2>1, CodeRunsDown DEF GCBase
<1>2. CASE GCConcat
  <2>1. pc = "concat" /\ pc' = "concat" /\ UNCHANGED <<typed, before>>
    BY <1>2 DEF GCConcat, ConcatMerge, ConcatNext, gc
  <2>2. Retries' = Retries /\ LoopsLeft' = LoopsLeft
    BY <2>1 DEF Retries, LoopsLeft
  <2> QED
    BY <1>1, <2>2, TurnsGoDown
<1>3. CASE GCAllocStep /\ pc' = "find"
  <2>1. FindNext /\ typed' = typed
    BY <1>3 DEF GCAllocStep, AllocStep, FindFail, SplitAddress, SplitExact, SplitInPlace,
                SplitDetach, Insert, InsertFront, InsertBefore, InsertLast, InsertWalk, Inserted,
                Return, GCBase, GCTyped
  <2>2. pc = "find" /\ Used' = Used
    BY <2>1 DEF FindNext, Used, chunk
  <2>3. Retries' = Retries /\ LoopsLeft' = LoopsLeft
    BY <1>3, <2>1, <2>2 DEF Retries, LoopsLeft
  <2> QED
    BY <1>1, <2>3, TurnsGoDown
<1>4. CASE GCAllocStep /\ pc' # "find"
  <2>1. /\ pc \in {"find", "insert"} /\ pc' \in {"insert", "client"}
        /\ before = {} /\ before' = {}
        /\ typed' = (typed /\ pc' # "client")
    <3>1. AllocStep /\ typed' = (typed /\ pc' # "client") /\ before' = before
      BY <1>4 DEF GCAllocStep
    <3>2. pc \in {"find", "insert"}
      BY <3>1 DEF AllocStep, FindNext, FindFail, SplitAddress, SplitExact, SplitInPlace,
                  SplitDetach, Insert, InsertFront, InsertBefore, InsertLast, InsertWalk
    <3>3. pc' \in {"find", "insert", "client"}
      BY <3>1, <3>2 DEF AllocStep, FindNext, FindFail, SplitAddress, SplitExact, SplitInPlace,
                  SplitDetach, Insert, InsertFront, InsertBefore, InsertLast, InsertWalk,
                  Inserted, Return
    <3> QED
      BY <1>4, <3>1, <3>2, <3>3 DEF GCBase, GCTyped
  <2>2. Cardinality({}) = 0
    BY FS_EmptySet
  <2>3. Retries' = 0 /\ (pc = "insert" => Retries = 0) /\ Retries \in Nat
    BY <2>1, <2>2, TurnDigits DEF Retries
  <2>4. \/ LoopsLeft' < LoopsLeft
        \/ LoopsLeft' = LoopsLeft /\ pc = "insert"
    BY <2>1 DEF LoopsLeft
  <2>5. Retries' < Retries \/ Retries' = Retries
    BY <2>3
  <2> QED
    BY <1>1, <2>3, <2>4, <2>5, TurnsGoDown
<1> QED
  BY <1>2, <1>3, <1>4

\* The loops of collect, where it is not diverted.
LEMMA LoopTurns ==
    ASSUME GCBase, GCBase',
           \/ CollectStarved \/ MarkZero \/ MarkZeroDone \/ MarkStack \/ MarkStackDone
           \/ TraceNext \/ TraceDone \/ Sweep \/ SweepDone
    PROVE  CollectTurns' < CollectTurns
<1>1. CASE MarkZero \/ MarkStack \/ TraceNext \/ Sweep
  <2>1. /\ UNCHANGED <<list, live, next, todo, typed, before>> /\ cur # NULL
        /\ cur' = next[cur] /\ pc \in Collecting /\ pc' = pc
    BY <1>1 DEF MarkZero, MarkStack, TraceNext, Sweep, Collecting, chunk, gc
  <2>2. cur \in live
    BY <2>1 DEF GCBase, IInv, Closure
  <2> QED
    BY <2>1, <2>2, WalkTurns, TurnsGoDown
<1>2. CASE MarkZeroDone \/ MarkStackDone \/ TraceDone \/ SweepDone
  <2>1. UNCHANGED <<typed, before>> /\ pc # "find" /\ pc' # "find"
    BY <1>2 DEF MarkZeroDone, MarkStackDone, TraceDone, SweepDone, Turn, AfterSweep, gc
  <2>2. Retries' = Retries
    BY <2>1 DEF Retries
  <2>3. LoopsLeft' < LoopsLeft
    <3>1. \/ pc = "markZero" /\ pc' = "markStack"
          \/ pc = "markStack" /\ pc' = "trace"
          \/ pc = "trace" /\ pc' = "sweep"
          \/ pc = "sweep" /\ pc' \in {"concat", "collected"}
      BY <1>2 DEF MarkZeroDone, MarkStackDone, TraceDone, SweepDone, Turn, AfterSweep
    <3> QED
      BY <3>1 DEF LoopsLeft
  <2> QED
    BY <2>2, <2>3, TurnsGoDown
<1>3. CASE CollectStarved
  <2>1. /\ typed /\ typed' = typed /\ pc = "find" /\ pc' = "markZero" /\ before' = Used
    BY <1>3 DEF CollectStarved, Starved, Begin
  <2>2. Retries' = Retries /\ LoopsLeft' < LoopsLeft
    BY <2>1 DEF Retries, LoopsLeft
  <2> QED
    BY <2>2, TurnsGoDown
<1> QED
  BY <1>1, <1>2, <1>3

\* traverseChunk, where it is not diverted.
LEMMA TraversingTurns ==
    ASSUME GCBase, GCBase', OneVisit, ~ Diverted, Traversing
    PROVE  CollectTurns' < CollectTurns
<1>1. PICK t : t = Visit.chunk + size[Visit.chunk] - Visit.word
  OBVIOUS
<1>2. pc \in {"traverse", "findChunk"} => t \in Int
  BY <1>1, InnermostVisit
<1>3. CASE TraceMarked
  <2>1. /\ UNCHANGED <<list, next, cur, typed, before, size>> /\ pc = "trace" /\ pc' = "traverse"
        /\ cur \in live /\ visits' = <<[chunk |-> cur, word |-> cur]>>
    BY <1>3 DEF TraceMarked, chunk, GCBase, IInv, Closure
  <2>2. Visit'.chunk = cur /\ Visit'.word = cur
    BY <2>1 DEF Visit
  <2>3. cur \in Int /\ size[cur] \in 0 .. MemSize
    BY <2>1 DEF GCBase, IInv, Typed, Addr
  <2>4. WordTurns' = 2 * (cur + size[cur] - cur) + 1 /\ WordTurns = 2 * MemSize + 2
    BY <2>1, <2>2 DEF WordTurns
  <2>5. WordTurns' < WordTurns
    BY <2>3, <2>4
  <2> QED
    BY <2>1, <2>5, StillTurns, TurnsGoDown
<1>4. CASE TraverseFind
  <2>1. /\ UNCHANGED <<list, next, typed, before, size, visits>> /\ pc = "traverse"
        /\ pc' = "findChunk" /\ cur' = first
        /\ Visit.word \in Words(Visit.chunk) /\ InWindow(Visit.word)
    BY <1>4 DEF TraverseFind, chunk, gc
  <2>2. cur' = cur
    BY <2>1, VisitsFirst DEF OneVisit
  <2>3. WordTurns = 2 * t + 1 /\ WordTurns' = 2 * t
    BY <1>1, <2>1 DEF WordTurns, Visit
  <2> QED
    BY <1>2, <2>1, <2>2, <2>3, StillTurns, TurnsGoDown
<1>5. CASE TraverseSkip
  <2>1. /\ UNCHANGED <<list, next, cur, typed, before, size>> /\ pc = "traverse" /\ pc' = pc
        /\ visits' = [visits EXCEPT ![Len(visits)].word = NextWord(@)]
    BY <1>5 DEF TraverseSkip, vars, chunk, call
  <2>2. Visit'.chunk = Visit.chunk /\ Visit'.word = Visit.word + 1
    BY <2>1, OneAdvances
  <2>3. WordTurns = 2 * t + 1 /\ WordTurns' = 2 * (t - 1) + 1
    <3>1. t - 1 = Visit.chunk + size[Visit.chunk] - (Visit.word + 1)
      BY <1>1, <2>1, InnermostVisit
    <3> QED
      BY <1>1, <2>1, <2>2, <3>1 DEF WordTurns
  <2>4. WordTurns' < WordTurns
    BY <1>2, <2>1, <2>3
  <2> QED
    BY <2>1, <2>4, StillTurns, TurnsGoDown
<1>6. CASE FindChunkDone
  <2>1. /\ UNCHANGED <<list, next, typed, before, size>> /\ pc = "findChunk" /\ pc' = "traverse"
        /\ cur' = first /\ visits' = [visits EXCEPT ![Len(visits)].word = NextWord(@)]
    BY <1>6 DEF FindChunkDone, FindReturn, chunk
  <2>2. Visit'.chunk = Visit.chunk /\ Visit'.word = Visit.word + 1
    BY <2>1, OneAdvances
  <2>3. WordTurns = 2 * t /\ WordTurns' = 2 * (t - 1) + 1
    <3>1. t - 1 = Visit.chunk + size[Visit.chunk] - (Visit.word + 1)
      BY <1>1, <2>1, InnermostVisit
    <3> QED
      BY <1>1, <2>1, <2>2, <3>1 DEF WordTurns
  <2>4. WordTurns' < WordTurns
    BY <1>2, <2>1, <2>3
  <2>5. cur' = cur
    BY <2>1, FindsFirst
  <2> QED
    BY <2>1, <2>4, <2>5, StillTurns, TurnsGoDown
<1>7. CASE TraverseDone
  <2>1. pc = "traverse" /\ UNCHANGED <<list, live, next, todo, typed, before>>
    BY <1>7 DEF TraverseDone, chunk
  <2>2. SubSeq(visits, 1, Len(visits) - 1) = <<>>
    <3>1. Len(visits) = 1
      BY <2>1 DEF OneVisit
    <3> QED
      BY <3>1
  <2>3. pc' = "trace" /\ cur' = next[cur] /\ cur \in live
    BY <1>7, <2>1, <2>2, InnermostVisit DEF TraverseDone, OneVisit
  <2> QED
    BY <2>1, <2>3, WalkTurns, TurnsGoDown DEF Collecting
<1>8. ~ FindChunkNext /\ ~ FindChunkMark
  BY FindsFirst DEF FindChunkNext, FindChunkMark
<1> QED
  BY <1>3, <1>4, <1>5, <1>6, <1>7, <1>8 DEF Traversing

\* gc.alloc tries again only if the collection has left fewer chunks in use.
LEMMA CollectDoneTurns ==
    ASSUME GCBase, GCBase', CountInv, CollectDone
    PROVE  CollectTurns' < CollectTurns
<1>1. /\ pc \in {"concat", "collected"} /\ LoopsLeft = 1
      /\ count = Cardinality(Marked) - Cardinality(before)
  <2>1. pc \in {"concat", "collected"}
    BY DEF CollectDone, Returning
  <2> QED
    BY <2>1 DEF LoopsLeft, CountInv
<1>2. /\ Cardinality(Marked) \in Nat /\ Cardinality(before) \in Nat
      /\ Retries \in Nat
  <2>1. Marked \subseteq Addr /\ before \subseteq Addr
    BY DEF GCBase, IInv, Typed, GCTyped, Marked
  <2> QED
    BY <2>1, FewChunks, TurnDigits
<1>3. CASE typed /\ Gained(count)
  <2>1. pc' = "find" /\ typed /\ typed' = typed /\ UNCHANGED chunk
    BY <1>3 DEF CollectDone
  <2>2. Used' = Marked
    BY <2>1 DEF chunk, Used, Marked
  <2>3. Retries' = Cardinality(Marked) /\ Retries = Cardinality(before)
    BY <1>1, <2>1, <2>2 DEF Retries
  <2>4. Cardinality(Marked) < Cardinality(before)
    BY <1>1, <1>2, <1>3 DEF Gained
  <2> QED
    BY <2>3, <2>4, TurnsGoDown
<1>4. CASE ~ (typed /\ Gained(count))
  <2>1. pc' = "client" /\ typed' = FALSE
    BY <1>4 DEF CollectDone, Return
  <2>2. Retries' = 0 /\ LoopsLeft' = 0
    BY <2>1 DEF Retries, LoopsLeft
  <2>3. Retries' < Retries \/ Retries' = Retries
    BY <1>2, <2>2
  <2> QED
    BY <1>1, <2>2, <2>3, TurnsGoDown
<1> QED
  BY <1>3, <1>4

\* Wherever it is not diverted, every step of alloc and collect brings the
\* call nearer to its return, the retries of gc.alloc included.
THEOREM CollectRunsDownHolds == GCSpec => CollectRunsDown
<1>1. GCInit => OneVisit
  BY DEF GCInit, RCInit, Init, Fresh, OneVisit
<1>2. GCBase /\ GCInv /\ OneVisit /\ [GCNext]_gcVars
        => [GCCode /\ ~ Diverted => CollectTurns' < CollectTurns]_gcVars
  <2> SUFFICES ASSUME GCBase, GCInv, OneVisit, GCNext, GCCode, ~ Diverted
               PROVE  CollectTurns' < CollectTurns
    OBVIOUS
  <2>1. GCBase'
    BY GCBaseStep
  <2> QED
    BY <2>1, AllocatorTurns, LoopTurns, TraversingTurns, CollectDoneTurns
       DEF GCCode, CollectStep, Traversing, GCInv
<1>3. GCSpec => [](GCBase /\ GCInv)
  BY GCInvariance
<1> QED
  BY <1>1, <1>2, <1>3, OneVisitStep, PTL DEF GCSpec, CollectRunsDown
=============================================================================
