----------------------------- MODULE HeapProofs -----------------------------
(***************************************************************************)
(* MemoryAllocator implements Heap: each step of the free list is a step   *)
(* of the abstract heap or changes nothing that it speaks of.  In every    *)
(* order free gives up the block it was asked for, and no other; in        *)
(* address order the heap never denies what there is room for and always   *)
(* uses the lowest room there is.                                          *)
(***************************************************************************)
EXTENDS WalkProofs

USE MemSizeAssumption, StylesAssumption, NullAssumption
USE DEF ASCENDING_SIZE, DESCENDING_SIZE, ADDRESS

\* The search of free has not passed the chunk it is after.
LookedUp ==
    pc = "lookup" => \E pos \in [Addr -> Int] :
        /\ Runs(pos)
        /\ \A d \in live : cur = NULL \/ pos[d] < pos[cur] => d # object

HInv == IInv /\ ListInv /\ CoalescedUpTo /\ LookedUp

\* The search starts at the head of the list and goes on link by link.
LEMMA LookedUpStep ==
    ASSUME IInv, ListInv, LookedUp, [Next]_vars
    PROVE  LookedUp'
<1>1. first # NULL /\ (pc # "insert" => Listed = live)
  <2>1. first # NULL
    BY DEF IInv, Typed, Closure, Addr
  <2> QED
    BY <2>1, NothingWaits
<1>2. ASSUME NEW p \in Ptr, FreeMem(p) PROVE LookedUp'
  <2>1. UNCHANGED <<first, live, next, todo>> /\ cur' = first /\ pc = "client"
    BY <1>2 DEF FreeMem, list, chunk
  <2>2. PICK pos \in [Addr -> Int] : Runs(pos)
    BY DEF ListInv
  <2>3. Runs(pos)'
    BY <2>1, <2>2 DEF Runs, Listed, Todo
  <2>4. \A d \in live : pos[d] >= pos[first]
    BY <1>1, <2>1, <2>2 DEF Runs
  <2>5. live \subseteq Addr /\ first \in Addr
    BY DEF IInv, Typed, Closure
  <2> QED
    BY <1>1, <2>1, <2>2, <2>3, <2>4, <2>5 DEF LookedUp
<1>3. CASE LookupNext
  <2>1. /\ UNCHANGED <<first, live, next, todo, object>> /\ cur' = next[cur]
        /\ pc = "lookup" /\ cur # NULL /\ cur # object
    BY <1>3 DEF LookupNext, Sought, list, chunk
  <2>2. cur \in live /\ live \subseteq Addr
    BY <2>1 DEF IInv, Typed, Closure
  <2>3. PICK pos \in [Addr -> Int] :
               Runs(pos) /\ \A d \in live : pos[d] < pos[cur] => d # object
    BY <2>1 DEF LookedUp
  <2>4. Runs(pos)'
    BY <2>1, <2>3 DEF Runs, Listed, Todo
  <2>5. ASSUME NEW d \in live, next[cur] = NULL \/ pos[d] < pos[next[cur]] PROVE d # object
    <3>1. pos[d] \in Int /\ pos[cur] \in Int
      BY <2>2, <2>3
    <3>2. pos[d] <= pos[cur]
      BY <1>1, <2>1, <2>2, <2>3, <2>5, <3>1 DEF Runs
    <3>3. pos[d] = pos[cur] => d = cur
      BY <1>1, <2>1, <2>2, <2>3 DEF Runs
    <3> QED
      BY <2>1, <2>3, <3>1, <3>2, <3>3
  <2> QED
    BY <2>1, <2>3, <2>4, <2>5 DEF LookedUp
<1>4. CASE UNCHANGED vars
  BY <1>4 DEF LookedUp, Runs, Listed, Todo, vars, list, chunk, call
<1>5. CASE (\E b \in Requests : AllocInt(b)) \/ Find \/ Insert \/ LookupFail \/ LookupFound \/ Concat
  <2>1. pc' # "lookup"
    BY <1>5 DEF Find, Insert, Concat, AllocInt, FindNext, FindFail, SplitAddress, SplitExact,
                SplitInPlace, SplitDetach, InsertFront, InsertBefore, InsertLast, InsertWalk,
                Inserted, LookupFail, LookupFound, ConcatMerge, ConcatNext, ConcatDone, Return, call
  <2> QED
    BY <2>1 DEF LookedUp
<1> QED
  BY <1>2, <1>3, <1>4, <1>5 DEF Next, Client, Code, Lookup

LEMMA HInvariance == Spec => []HInv
<1>1. Init => CoalescedUpTo /\ LookedUp
  BY DEF Init, Fresh, CoalescedUpTo, LookedUp, Addr
<1>2. CoalescedUpTo /\ UNCHANGED vars => CoalescedUpTo'
  BY DEF CoalescedUpTo, vars, list, chunk, call
<1> QED
  BY <1>1, <1>2, CoalescedStep, LookedUpStep, ListInit, ListStep, InitInv, InvStep,
     PTL DEF Spec, HInv

\* Where there is room in the arena for b words, between two uses of a list
\* in address order, there is one free chunk that holds them: it starts
\* there or before.
LEMMA RoomIsChunk ==
    ASSUME HInv, sort = ADDRESS, pc = "find", NEW q \in Nat, q + bytes <= MemSize,
           \A c \in Used : q + bytes <= c \/ c + size[c] <= q
    PROVE  \E d \in live : d <= q /\ Fits(d, bytes)
<1>1. /\ Tiling /\ bytes \in Int /\ bytes > 0 /\ q \in Addr
      /\ \A c \in live : c \in Int /\ size[c] \in Int /\ size[c] > 0 /\ mark[c] \in {0, 1}
  BY DEF HInv, IInv, Typed, Closure, Tiling, Addr, Requests
<1>2. PICK d \in live : d <= q /\ q < d + size[d]
  BY <1>1, Covered DEF HInv
<1>3. \A c \in live : c < q + bytes /\ q < c + size[c] => mark[c] = 0
  BY <1>1 DEF Used
<1>4. mark[d] = 0
  BY <1>1, <1>2, <1>3
<1>5. q + bytes <= d + size[d]
  <2> SUFFICES ASSUME d + size[d] < q + bytes PROVE FALSE
    BY <1>1
  <2>1. d + size[d] \in live
    BY <1>1, <1>2 DEF Tiling
  <2>2. mark[d + size[d]] = 0
    BY <1>1, <1>2, <1>3, <2>1
  <2> QED
    \* neighbours, and both free
    BY <1>4, <2>1, <2>2 DEF HInv, CoalescedUpTo
<1>6. size[d] >= bytes
  BY <1>1, <1>2, <1>5
<1> QED
  BY <1>2, <1>4, <1>6 DEF Fits

\* The steps that hand out a chunk grant the request.
LEMMA SplitGrants ==
    ASSUME HInv, SplitAddress \/ SplitExact \/ SplitInPlace \/ SplitDetach
    PROVE  \E p \in 0 .. MemSize - 1 : H!Grant(p)
<1>0. PICK a, b : a = cur /\ b = bytes
  OBVIOUS
<1>1. /\ pc = "find" /\ cur # NULL /\ Fits(a, b) /\ Carve(a, b) /\ pc' \in {"client", "insert"}
  BY <1>0 DEF SplitAddress, SplitExact, SplitInPlace, SplitDetach, Return
<1>2. /\ a \in live /\ b \in Int /\ b > 0 /\ mark[a] = 0 /\ live \subseteq Addr /\ Tiling
      /\ \A c \in live : c \in Int /\ size[c] \in Int /\ size[c] > 0 /\ mark[c] \in {0, 1}
      /\ mark \in [Addr -> {0, 1}]
  BY <1>0, <1>1 DEF HInv, IInv, Typed, Closure, Tiling, Addr, Requests, Fits
<1>3. b \in 1 .. size[a]
  BY <1>1, <1>2 DEF Fits
<1>4. /\ live' = IF b < size[a] THEN live \union {a + b} ELSE live
      /\ size'[a] = b
      /\ \A d \in live \ {a} : size'[d] = size[d] /\ mark'[d] = mark[d]
      /\ b < size[a] => a + b \in Addr /\ a + b \notin live
  BY <1>1, <1>2, <1>3, CarveTiling DEF HInv
<1>5. mark'[a] = 1 /\ (b < size[a] => mark'[a + b] = 0)
  BY <1>1, <1>2, <1>4 DEF Carve
<1>6. Used' = Used \union {a}
  BY <1>2, <1>4, <1>5 DEF Used
<1>7. [c \in Used' |-> size'[c]]
        = [q \in Used \union {a} |-> IF q = a THEN b ELSE [c \in Used |-> size[c]][q]]
  BY <1>2, <1>4, <1>6 DEF Used
<1>8. /\ a \in 0 .. MemSize - 1 /\ a + b <= MemSize
      /\ \A c \in Used : a + b <= c \/ c + size[c] <= a
  <2>1. a \in 0 .. MemSize - 1 /\ a + size[a] <= MemSize
    BY <1>2 DEF Tiling, Addr
  <2>2. \A c \in Used : a + size[a] <= c \/ c + size[c] <= a
    BY <1>2 DEF Used, Tiling
  <2> QED
    BY <1>2, <1>3, <2>1, <2>2 DEF Used
<1>9. ASSUME sort = ADDRESS, NEW q \in 0 .. a - 1, q + b <= MemSize,
             \A c \in Used : q + b <= c \/ c + size[c] <= q
      PROVE  FALSE
  <2>1. PICK d \in live : d <= q /\ Fits(d, b)
    BY <1>0, <1>1, <1>9, RoomIsChunk
  <2>2. a <= d
    BY <1>0, <1>1, <1>9, <2>1, PolicyFollows DEF HInv, Policy
  <2> QED
    BY <1>2, <2>1, <2>2
<1>10. H!Room(a, b)
  BY <1>8 DEF H!Room
<1>11. sort = ADDRESS => \A q \in 0 .. a - 1 : ~ H!Room(q, b)
  BY <1>9 DEF H!Room
<1>12. H!Grant(a)
  BY <1>0, <1>1, <1>2, <1>7, <1>10, <1>11 DEF H!Grant
<1> QED
  BY <1>8, <1>12

\* A search that met no chunk that fits denies the request.
LEMMA FindFailDenies ==
    ASSUME HInv, FindFail
    PROVE  H!Deny
<1>1. /\ pc = "find" /\ cur = NULL /\ pc' = "client" /\ UNCHANGED <<live, size, mark>>
      /\ bytes \in Int /\ bytes > 0
  BY DEF FindFail, Return, chunk, HInv, IInv, Typed, Closure, Requests
<1>2. ASSUME sort = ADDRESS, NEW q \in 0 .. MemSize - 1, q + bytes <= MemSize,
             \A c \in Used : q + bytes <= c \/ c + size[c] <= q
      PROVE  FALSE
  <2>1. PICK d \in live : Fits(d, bytes)
    BY <1>1, <1>2, RoomIsChunk
  <2> QED
    BY <1>1, <2>1, DenyFollows DEF HInv, DenyOnlyWhenFull
<1>3. sort = ADDRESS => \A q \in 0 .. MemSize - 1 : ~ H!Room(q, bytes)
  BY <1>2 DEF H!Room
<1>4. Used' = Used /\ [c \in Used' |-> size'[c]] = [c \in Used |-> size[c]]
  BY <1>1 DEF Used
<1> QED
  BY <1>1, <1>3, <1>4 DEF H!Deny

\* The steps that neither search nor mark.
LEMMA HeapStutters ==
    ASSUME HInv, pc \notin {"find", "lookup"}, pc' \notin {"find", "lookup"},
           UNCHANGED sort,
           UNCHANGED <<live, size, mark>> \/ ConcatMerge
    PROVE  UNCHANGED H!vars
<1>1. Used' = Used /\ \A c \in Used : size'[c] = size[c]
  <2>1. CASE UNCHANGED <<live, size, mark>>
    BY <2>1 DEF Used
  <2>2. CASE ConcatMerge
    BY <2>2 DEF ConcatMerge, Mergeable, Used, HInv, IInv, Typed
  <2> QED
    BY <2>1, <2>2
<1>2. [c \in Used' |-> size'[c]] = [c \in Used |-> size[c]]
  BY <1>1
<1> QED
  BY <1>2 DEF H!vars

\* free gives up the block that starts at its argument, if there is one.
LEMMA LookupFrees ==
    ASSUME HInv, LookupFound \/ LookupFail, object # NULL
    PROVE  H!Free
<1>1. /\ pc = "lookup" /\ pc' \notin {"find", "lookup"} /\ UNCHANGED <<live, size>>
      /\ mark \in [Addr -> {0, 1}] /\ live \subseteq Addr
  BY DEF LookupFound, LookupFail, Return, chunk, HInv, IInv, Typed
<1>2. Used' = Used \ {object}
  <2>1. CASE LookupFound
    <3>1. cur = object /\ cur \in live /\ mark' = [mark EXCEPT ![cur] = 0]
      BY <2>1 DEF LookupFound, Sought, HInv, IInv, Closure
    <3> QED
      BY <1>1, <3>1 DEF Used
  <2>2. CASE LookupFail
    <3>1. cur = NULL /\ UNCHANGED mark
      BY <2>2 DEF LookupFail, chunk
    <3>2. object \notin live
      BY <1>1, <3>1 DEF HInv, LookedUp
    <3> QED
      BY <1>1, <3>1, <3>2 DEF Used
  <2> QED
    BY <2>1, <2>2
<1>3. [c \in Used' |-> size'[c]] = [q \in Used \ {object} |-> [c \in Used |-> size[c]][q]]
  BY <1>1, <1>2
<1> QED
  BY <1>1, <1>3 DEF H!Free

\* The style of a list is what it was created with.
LEMMA SortStays == [Next]_vars => UNCHANGED sort
BY DEF Next, Client, Code, Find, Insert, Lookup, Concat, AllocInt, FindNext, FindFail,
       SplitAddress, SplitExact, SplitInPlace, SplitDetach, InsertFront, InsertBefore,
       InsertLast, InsertWalk, FreeMem, LookupNext, LookupFail, LookupFound,
       ConcatMerge, ConcatNext, ConcatDone, vars, list

\* Each step of the manager is a step of the heap, or is not seen by it.
LEMMA HeapStep == HInv /\ [Next]_vars => [H!Next]_(H!vars)
<1> SUFFICES ASSUME HInv, [Next]_vars PROVE H!Next \/ UNCHANGED H!vars
  OBVIOUS
<1>0. UNCHANGED sort /\ UNCHANGED (sort = ADDRESS)
  BY SortStays
<1>1. ASSUME NEW b \in Requests, AllocInt(b) PROVE H!Next \/ UNCHANGED H!vars
  <2>1. pc = "client" /\ UNCHANGED <<live, size, mark>>
    BY <1>1 DEF AllocInt, chunk
  <2>2. CASE b = 0
    <3>1. pc' = "client"
      BY <1>1, <2>1, <2>2 DEF AllocInt, call
    <3> QED
      BY <1>0, <2>1, <3>1, HeapStutters
  <2>3. CASE b # 0
    <3>1. pc' = "find" /\ bytes' = b /\ b \in 1 .. MemSize + 1
      BY <1>1, <2>3 DEF AllocInt, Requests
    <3>2. Used' = Used /\ [c \in Used' |-> size'[c]] = [c \in Used |-> size[c]]
      BY <2>1 DEF Used
    <3>3. H!Request(b)
      BY <2>1, <3>1, <3>2 DEF H!Request, H!Idle
    <3> QED
      BY <1>0, <3>1, <3>3 DEF H!Next
  <2> QED
    BY <2>2, <2>3
<1>2. ASSUME NEW p \in Ptr, FreeMem(p) PROVE H!Next \/ UNCHANGED H!vars
  <2>1. pc = "client" /\ pc' = "lookup" /\ object' = p /\ UNCHANGED <<live, size, mark>>
    BY <1>2 DEF FreeMem, chunk
  <2>2. [c \in Used' |-> size'[c]] = [c \in Used |-> size[c]]
    BY <2>1 DEF Used
  <2>3. CASE p = NULL
    BY <1>0, <2>1, <2>2, <2>3 DEF H!vars
  <2>4. CASE p # NULL
    <3>1. H!HandBack(p) /\ p \in 0 .. MemSize - 1
      BY <2>1, <2>2, <2>4 DEF H!HandBack, H!Idle, Ptr, Addr
    <3> QED
      BY <1>0, <3>1 DEF H!Next
  <2> QED
    BY <2>3, <2>4
<1>3. CASE FindNext \/ LookupNext \/ UNCHANGED vars
  <2>1. UNCHANGED <<live, size, mark, pc, bytes, object>>
    BY <1>3 DEF FindNext, LookupNext, vars, chunk, call
  <2>2. [c \in Used' |-> size'[c]] = [c \in Used |-> size[c]]
    BY <2>1 DEF Used
  <2> QED
    BY <1>0, <2>1, <2>2 DEF H!vars
<1>4. CASE FindFail
  <2>1. H!Deny
    BY <1>4, FindFailDenies
  <2> QED
    BY <1>0, <2>1 DEF H!Next
<1>5. CASE SplitAddress \/ SplitExact \/ SplitInPlace \/ SplitDetach
  <2>1. PICK p \in 0 .. MemSize - 1 : H!Grant(p)
    BY <1>5, SplitGrants
  <2> QED
    BY <1>0, <2>1 DEF H!Next
<1>6. CASE Insert \/ Concat
  <2>1. /\ pc \in {"insert", "concat"} /\ pc' \in {"client", "insert", "concat"}
        /\ UNCHANGED <<live, size, mark>> \/ ConcatMerge
    BY <1>6 DEF Insert, InsertFront, InsertBefore, InsertLast, InsertWalk, Inserted, Concat,
                ConcatMerge, ConcatNext, ConcatDone, Return, chunk
  <2> QED
    BY <1>0, <2>1, HeapStutters
<1>7. CASE LookupFound \/ LookupFail
  <2>1. CASE object = NULL
    <3>1. /\ LookupFail /\ pc = "lookup" /\ pc' = "client"
          /\ UNCHANGED <<live, size, mark>>
      BY <1>7, <2>1 DEF LookupFound, LookupFail, Sought, Return, chunk
    <3>2. [c \in Used' |-> size'[c]] = [c \in Used |-> size[c]]
      BY <3>1 DEF Used
    <3> QED
      BY <1>0, <2>1, <3>1, <3>2 DEF H!vars
  <2>2. CASE object # NULL
    <3>1. H!Free
      BY <1>7, <2>2, LookupFrees
    <3> QED
      BY <1>0, <3>1 DEF H!Next
  <2> QED
    BY <2>1, <2>2
<1> QED
  BY <1>1, <1>2, <1>3, <1>4, <1>5, <1>6, <1>7 DEF Next, Client, Code, Find, Lookup

\* The manager implements the abstract heap: blocks in use never overlap,
\* move, shrink or vanish, free gives up the block it is asked for and no
\* other, and a manager whose list is in address order denies a request only
\* if there is no room for it anywhere.
THEOREM HeapRefinement == Spec => HeapSpec
<1>1. Init => H!Init
  <2> SUFFICES ASSUME Init PROVE H!Init
    OBVIOUS
  <2>1. Used = {} /\ pc = "client"
    BY DEF Init, Fresh, Used, Addr
  <2>2. [c \in Used |-> size[c]] = [p \in {} |-> 0]
    BY <2>1
  <2> QED
    BY <2>1, <2>2 DEF H!Init, H!Idle
<1> QED
  BY <1>1, HInvariance, HeapStep, PTL DEF Spec, HeapSpec, H!Spec
=============================================================================
