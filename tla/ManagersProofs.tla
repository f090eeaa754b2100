--------------------------- MODULE ManagersProofs ----------------------------
(***************************************************************************)
(* A manager with everything its kind offers, from iMalloc to iMallocFree: *)
(* the invariants of the allocator, of release and of collect hold side by *)
(* side, teardown meets every struct once, and the managers created later  *)
(* can make a count too high, but never too low.                           *)
(***************************************************************************)
EXTENDS Managers, CollectorProofs, CountProofs

USE MemSizeAssumption, StylesAssumption, NullAssumption, RefCountAssumption,
    CollectorAssumption, KindsAssumption
USE DEF ASCENDING_SIZE, DESCENDING_SIZE, ADDRESS, MANUAL, REFCOUNT, GCD

\* The phases of a call: alloc and the time between calls, release, collect, and free.
Allocating == {"client", "find", "insert"}
Releasing  == {"scan", "chunkMem", "resume"}
Sweeping   == Collecting \union {"collected", "concat"}
Freeing    == {"lookup", "concat"}

\* What release works on, while no call of it is under way.
Unscanned ==
    /\ refcount \in [Addr -> 0 .. UintRange - 1]
    /\ data \in [Addr -> Ptr]
    /\ handles \in [Addr -> 0 .. MaxHandles]
    /\ target \in [Addr -> Ptr]
    /\ frames = <<>>

\* S is what was on the list when iMallocFree began, numbered by pos; the
\* structs that are left are those from cur on, and the embedded one.
Tearing(S, pos) ==
    /\ S \subseteq Addr /\ 0 \in S
    /\ \A c, d \in S : pos[c] = pos[d] => c = d
    /\ \A c \in S :
        /\ next[c] = NULL => \A d \in S : pos[d] <= pos[c]
        /\ next[c] # NULL => next[c] \in S /\ pos[next[c]] = pos[c] + 1
    /\ cur \in S \union {NULL}
    /\ live = { c \in S : c = 0 \/ (cur # NULL /\ pos[c] >= pos[cur]) }

AtAlloc   == /\ pc \in Allocating
             /\ RCBase /\ GCBase /\ (typed => Collects(kind))
AtRelease == /\ pc \in Releasing /\ Counts(kind) /\ globalpList = "this"
             /\ RCBase /\ Idle
AtCollect == /\ pc \in Sweeping /\ Collects(kind)
             /\ GCBase /\ Unscanned
AtFree    == /\ pc \in Freeing /\ kind = MANUAL
             /\ IInv /\ ListInv /\ Unscanned /\ Idle
AtEnd     == /\ pc = "teardown"
             /\ \E S \in SUBSET Addr, pos \in [Addr -> Int] : Tearing(S, pos)

\* In each phase of a call what its own steps need, and the rest at rest.
MBase ==
    /\ kind \in {MANUAL, REFCOUNT, GCD, GCD + REFCOUNT}
    /\ globalpList \in {"this", "other", "freed"}
    /\ \/ AtAlloc \/ AtRelease \/ AtCollect \/ AtFree \/ AtEnd
       \/ pc = "gone" /\ live = {}
       \/ pc = "crash" /\ Counts(kind)

----------------------------------------------------------------------------
(* The phases of a call. *)

LEMMA MBaseInit == MInit => MBase
<1> SUFFICES ASSUME MInit PROVE MBase
  OBVIOUS
<1>1. GCInit /\ RCInit /\ kind \in {MANUAL, REFCOUNT, GCD, GCD + REFCOUNT}
      /\ globalpList = "this"
  BY DEF MInit, GCInit
<1>2. pc = "client" /\ typed = FALSE
  BY <1>1 DEF RCInit, Init, Fresh, GCInit, Idle
<1>3. AtAlloc
  BY <1>1, <1>2, RCBaseInit, GCBaseInit DEF AtAlloc, Allocating
<1> QED
  BY <1>1, <1>3 DEF MBase

\* Where no call of release or collect is under way, what they need is at rest.
LEMMA Resting == (RCBase /\ pc \in Allocating => Unscanned)
  BY DEF RCBase, RCTyped, FramesInv, Unscanned, Allocating

LEMMA RestingNext == (RCBase /\ pc \in Allocating => Unscanned)'
  BY Resting, PTL

LEMMA Rested == (IInv /\ ListInv /\ Unscanned /\ pc \in Allocating => RCBase)
<1> SUFFICES ASSUME IInv, ListInv, Unscanned, pc \in Allocating PROVE RCBase
  OBVIOUS
<1>1. frames \in Seq(Frame) /\ Len(frames) = 0
  BY DEF Unscanned
<1> QED
  BY <1>1 DEF RCBase, RCTyped, FramesInv, Unscanned, Allocating

LEMMA RestedNext == (IInv /\ ListInv /\ Unscanned /\ pc \in Allocating => RCBase)'
  BY Rested, PTL

LEMMA Joined == (IInv /\ ListInv /\ Unscanned /\ Idle /\ pc = "client" => AtAlloc)
<1> SUFFICES ASSUME IInv, ListInv, Unscanned, Idle, pc = "client" PROVE AtAlloc
  OBVIOUS
<1>1. RCBase
  BY Rested DEF Allocating
<1>2. GCTyped
  BY DEF GCTyped, Idle, Unscanned
<1>3. VisitsInv
  BY DEF VisitsInv, Idle
<1> QED
  BY <1>1, <1>2, <1>3 DEF AtAlloc, GCBase, Allocating, Idle

LEMMA JoinedNext == (IInv /\ ListInv /\ Unscanned /\ Idle /\ pc = "client" => AtAlloc)'
  BY Joined, PTL

LEMMA ClientIdle == AtAlloc /\ pc = "client" => Idle /\ Unscanned /\ IInv /\ ListInv
<1> SUFFICES ASSUME AtAlloc, pc = "client" PROVE Idle /\ Unscanned /\ IInv /\ ListInv
  OBVIOUS
<1>1. GCTyped /\ VisitsInv /\ RCBase /\ IInv /\ ListInv
  BY DEF AtAlloc, GCBase
<1> QED
  BY <1>1, Resting DEF GCTyped, VisitsInv, Idle, AtAlloc

\* The phases in which the parts of the code run.
LEMMA PhasesOfSteps ==
    /\ MProgram => pc = "client"
    /\ GCAllocStep => pc \in {"find", "insert"}
    /\ FreeStep => pc \in Freeing /\ kind = MANUAL
    /\ ReleaseStep => pc \in Releasing
    /\ CollectStep => CollectStarved \/ pc \in Sweeping
    /\ CollectStarved => pc = "find" /\ typed
<1>1. MProgram => pc = "client"
  BY DEF MProgram, GCAlloc, AllocChar, Alloc, AllocInt, Collect, Drop, Free, FreeMem,
         RetainHeld, ReleaseHeld, StorePointer, TakePointer, IMallocFree
<1>2. GCAllocStep => pc \in {"find", "insert"}
  BY DEF GCAllocStep, AllocStep, FindNext, FindFail, SplitAddress, SplitExact, SplitInPlace,
         SplitDetach, Insert, InsertFront, InsertBefore, InsertLast, InsertWalk
<1>3. FreeStep => pc \in Freeing /\ kind = MANUAL
  BY DEF FreeStep, Lookup, LookupNext, LookupFail, LookupFound, Concat, ConcatMerge,
         ConcatNext, ConcatDone, Freeing
<1>4. ReleaseStep => pc \in Releasing
  BY DEF ReleaseStep, ScanWord, ScanDone, MemRelease, MemNext, MemDone, Releasing
<1>5. CollectStep => CollectStarved \/ pc \in Sweeping
  BY DEF CollectStep, MarkZero, MarkZeroDone, MarkStack, MarkStackDone, TraceMarked, TraceNext,
         TraceDone, TraverseFind, TraverseSkip, TraverseDone, FindChunkNext, FindChunkMark,
         FindChunkDone, Sweep, SweepDone, GCConcat, ConcatMerge, ConcatNext, CollectDone,
         Returning, Turn, Sweeping, Collecting
<1>6. CollectStarved => pc = "find" /\ typed
  BY DEF CollectStarved, Starved
<1> QED
  BY <1>1, <1>2, <1>3, <1>4, <1>5, <1>6

\* collect, from a call of the program or from gc.alloc, until it returns.
LEMMA CollectPhase ==
    ASSUME AtAlloc \/ AtCollect, CollectStep \/ Collect, Collects(kind), UNCHANGED kind
    PROVE  AtAlloc' \/ AtCollect'
<1>1. GCBase /\ Unscanned
  BY Resting DEF AtAlloc, AtCollect
<1>2. GCBase'
  <2>1. GCNext
    BY DEF GCNext, GCCode, GCProgram
  <2> QED
    BY <1>1, <2>1, GCBaseStep
<1>3. Unscanned'
  <2>1. UNCHANGED <<data, handles, target, frames>>
    BY DEF CollectStep, CollectStarved, Collect, Begin, MarkZero, MarkZeroDone, MarkStack,
           MarkStackDone, TraceMarked, TraceNext, TraceDone, TraverseFind, TraverseSkip,
           TraverseDone, FindChunkNext, FindChunkMark, FindChunkDone, FindReturn, Sweep,
           SweepDone, GCConcat, CollectDone, Turn, program
  <2>2. refcount' = refcount \/ refcount' = [refcount EXCEPT ![next[cur]] = 0]
    BY DEF CollectStep, CollectStarved, Collect, Begin, MarkZero, MarkZeroDone, MarkStack,
           MarkStackDone, TraceMarked, TraceNext, TraceDone, TraverseFind, TraverseSkip,
           TraverseDone, FindChunkNext, FindChunkMark, FindChunkDone, FindReturn, Sweep,
           SweepDone, GCConcat, ConcatMerge, ConcatNext, CollectDone, Turn, chunk, vars
  <2>3. refcount' \in [Addr -> 0 .. UintRange - 1]
    BY <1>1, <2>2 DEF Unscanned
  <2> QED
    BY <1>1, <2>1, <2>3 DEF Unscanned
<1>4. pc' \in Allocating \union Sweeping
  BY <1>2 DEF GCBase, GCTyped, Allocating, Sweeping
<1>5. Collects(kind)'
  BY DEF Collects
<1>6. CASE pc' \in Allocating
  BY <1>2, <1>3, <1>5, <1>6, RestedNext DEF AtAlloc, GCBase
<1>7. CASE pc' \in Sweeping
  BY <1>2, <1>3, <1>5, <1>7 DEF AtCollect
<1> QED
  BY <1>4, <1>6, <1>7

\* release, until the outermost call returns.
LEMMA ReleasePhase ==
    ASSUME Counts(kind), globalpList = "this", RCBase, Idle,
           RCNext, pc' \in Releasing \union {"client"}, UNCHANGED <<gc, kind, globalpList>>
    PROVE  AtAlloc' \/ AtRelease'
<1>1. RCBase'
  BY RCBaseStep
<1>2. Idle' /\ Counts(kind)' /\ globalpList' = "this"
  BY DEF Idle, gc, Counts
<1>3. CASE pc' = "client"
  BY <1>1, <1>2, <1>3, RestingNext, JoinedNext DEF RCBase, Allocating
<1>4. CASE pc' \in Releasing
  BY <1>1, <1>2, <1>4 DEF AtRelease
<1> QED
  BY <1>3, <1>4

\* free, which only a manual manager has.
LEMMA FreePhase ==
    ASSUME AtFree, FreeStep, UNCHANGED kind
    PROVE  AtAlloc' \/ AtFree'
<1>1. IInv' /\ ListInv'
  <2>1. Next
    BY DEF FreeStep, Next, Code
  <2> QED
    BY <2>1, InvStep, ListStep DEF AtFree
<1>2. Unscanned' /\ Idle'
  <2>1. UNCHANGED <<data, handles, target, frames, count, visits, typed, before>>
    BY DEF FreeStep, program, gc
  <2>2. refcount' = refcount \/ refcount' = [refcount EXCEPT ![next[cur]] = 0]
    BY DEF FreeStep, Lookup, LookupNext, LookupFail, LookupFound, Concat, ConcatMerge,
           ConcatNext, ConcatDone, chunk
  <2>3. refcount' \in [Addr -> 0 .. UintRange - 1]
    BY <2>2 DEF AtFree, Unscanned
  <2> QED
    BY <2>1, <2>3 DEF AtFree, Unscanned, Idle
<1>3. pc' \in Freeing \union {"client"}
  BY DEF FreeStep, Lookup, LookupNext, LookupFail, LookupFound, Concat, ConcatMerge,
         ConcatNext, ConcatDone, Return, Freeing
<1>4. CASE pc' = "client"
  BY <1>1, <1>2, <1>4, JoinedNext
<1>5. CASE pc' \in Freeing
  BY <1>1, <1>2, <1>5 DEF AtFree
<1> QED
  BY <1>3, <1>4, <1>5

----------------------------------------------------------------------------
(* What the program may do between the calls. *)

\* A step between calls that leaves the allocator and the collector at rest.
LEMMA BetweenCalls ==
    ASSUME AtAlloc, pc = "client", RCBase', UNCHANGED gc, pc' = "client"
    PROVE  AtAlloc'
<1>1. Idle'
  BY ClientIdle DEF Idle, gc
<1>2. IInv' /\ ListInv' /\ Unscanned'
  BY RestingNext DEF RCBase, Allocating
<1> QED
  BY <1>1, <1>2, JoinedNext

\* A search that finds something has found a chunk that there is.
LEMMA SearchFinds ==
    ASSUME IInv, ListInv, pc = "client", NEW p \in Addr, Search(p) # NULL
    PROVE  p \in live /\ globalpList = "this" /\ FindAChunk(p) = p
<1>1. globalpList = "this" /\ FindAChunk(p) # NULL
  BY DEF Search
<1>2. p \in { Walk[k] : k \in 0 .. MemSize }
  BY <1>1 DEF FindAChunk
<1>3. p # NULL
  BY DEF Addr
<1> QED
  BY <1>1, <1>2, <1>3, CompleteFollows, NothingWaits, FindAChunkFinds DEF ListComplete

LEMMA AllocPhase ==
    ASSUME AtAlloc, \/ GCAlloc
                    \/ AllocChar /\ Collects(kind)
                    \/ GCAllocStep,
           UNCHANGED kind
    PROVE  AtAlloc'
<1>1. GCNext /\ (Alloc \/ AllocStep)
  BY DEF GCNext, GCProgram, GCCode, GCAlloc, AllocChar, GCAllocStep
<1>2. GCBase'
  BY <1>1, GCBaseStep DEF AtAlloc
<1>3. RCBase'
  BY <1>1, AllocBase DEF AtAlloc
<1>4. pc' \in Allocating
  BY <1>1 DEF Alloc, AllocStep, AllocInt, FindNext, FindFail, Insert,
              SplitAddress, SplitExact, SplitInPlace, SplitDetach, InsertFront, InsertBefore,
              InsertLast, InsertWalk, Inserted, Return, call, AtAlloc, Allocating
<1>5. typed' => Collects(kind)'
  BY DEF GCAlloc, AllocChar, GCAllocStep, gc, AtAlloc, Collects
<1> QED
  BY <1>2, <1>3, <1>4, <1>5 DEF AtAlloc

LEMMA RetainPhase ==
    ASSUME AtAlloc, pc = "client", NEW p \in Addr, RetainHeld(p), UNCHANGED <<kind, globalpList>>
    PROVE  AtAlloc' \/ (pc' = "crash" /\ Counts(kind)')
<1>1. CASE Search(p) = NULL
  BY <1>1 DEF RetainHeld, Crash, Counts
<1>2. CASE Search(p) # NULL
  <2>1. p \in live
    BY <1>2, SearchFinds, ClientIdle
  <2>2. Retain(p) /\ UNCHANGED gc
    BY <1>2 DEF RetainHeld
  <2>3. RCBase'
    BY <2>1, <2>2, RCBaseStep DEF AtAlloc, RCNext, Program
  <2>4. pc' = "client"
    BY <2>2 DEF Retain, call
  <2> QED
    BY <2>2, <2>3, <2>4, BetweenCalls
<1> QED
  BY <1>1, <1>2

LEMMA ReleaseHeldPhase ==
    ASSUME AtAlloc, pc = "client", NEW p \in Addr, ReleaseHeld(p), UNCHANGED <<kind, globalpList>>
    PROVE  AtAlloc' \/ AtRelease' \/ (pc' = "crash" /\ Counts(kind)')
<1>1. CASE globalpList = "freed" /\ Crash
  BY <1>1 DEF Crash, ReleaseHeld, Counts
<1>2. CASE /\ handles' = [handles EXCEPT ![p] = handles[p] - 1]
           /\ UNCHANGED <<vars, data, target, frames, gc>>
  <2>1. /\ handles \in [Addr -> 0 .. MaxHandles] /\ handles[p] > 0 /\ RCBase
        /\ refcount \in [Addr -> 0 .. UintRange - 1] /\ data \in [Addr -> Ptr]
        /\ target \in [Addr -> Ptr]
    BY DEF ReleaseHeld, AtAlloc, RCBase, RCTyped
  <2>2. handles' \in [Addr -> 0 .. MaxHandles]
    BY <1>2, <2>1
  <2>3. RCBase' /\ pc' = "client"
    BY <1>2, <2>1, <2>2, ProgramBase DEF vars, chunk, call
  <2> QED
    BY <1>2, <2>3, BetweenCalls
<1>3. CASE Search(p) # NULL /\ Release(p) /\ UNCHANGED gc
  <2>1. p \in live /\ globalpList = "this"
    BY <1>3, SearchFinds, ClientIdle
  <2>2. RCNext /\ RCBase /\ Idle /\ Counts(kind)
    BY <1>3, <2>1, ClientIdle DEF RCNext, Program, AtAlloc, ReleaseHeld
  <2>3. PICK n : n = (refcount[p] - 1) % UintRange
    OBVIOUS
  <2>4. pc' \in Releasing \union {"client"}
    BY <1>3, <2>1, <2>2, <2>3, ReleaseEffect DEF Release, RCBase, FramesInv, Releasing
  <2> QED
    BY <1>3, <2>1, <2>2, <2>4, ReleasePhase
<1> QED
  BY <1>1, <1>2, <1>3 DEF ReleaseHeld

\* A word takes a pointer from a variable, or gives one up.
PointerStep ==
    \E d \in live : \E w \in Words(d) :
        (\E c \in live : \E p \in Words(c) : StorePointer(d, w, c, p)) \/ TakePointer(d, w)

\* Variables and words of blocks change hands, or a variable is dropped.
LEMMA HeldPhase ==
    ASSUME AtAlloc, pc = "client",
           (\E p \in Addr : Drop(p)) \/ (PointerStep /\ UNCHANGED gc)
    PROVE  AtAlloc'
<1>1. /\ handles \in [Addr -> 0 .. MaxHandles] /\ RCBase /\ target \in [Addr -> Ptr]
      /\ refcount \in [Addr -> 0 .. UintRange - 1] /\ data \in [Addr -> Ptr]
  BY DEF AtAlloc, RCBase, RCTyped
<1>2. CASE \E p \in Addr : Drop(p)
  <2>1. PICK p \in Addr : Drop(p)
    BY <1>2
  <2>2. handles' \in [Addr -> 0 .. MaxHandles]
    BY <1>1, <2>1 DEF Drop
  <2>3. RCBase' /\ pc' = "client" /\ UNCHANGED gc
    BY <1>1, <2>1, <2>2, ProgramBase DEF Drop, vars, chunk, call
  <2> QED
    BY <2>3, BetweenCalls
<1>3. CASE PointerStep /\ UNCHANGED gc
  <2>1. RCNext /\ UNCHANGED gc
    BY <1>3 DEF RCNext, Program, PointerStep
  <2>2. pc' = "client"
    BY <1>3 DEF PointerStep, StorePointer, TakePointer, vars, call
  <2> QED
    BY <1>1, <2>1, <2>2, RCBaseStep, BetweenCalls
<1> QED
  BY <1>2, <1>3

LEMMA FreeBegins ==
    ASSUME AtAlloc, pc = "client", NEW p \in Addr, Free(p), UNCHANGED kind
    PROVE  AtFree'
<1>1. FreeMem(p) /\ kind = MANUAL /\ UNCHANGED <<data, target, frames, gc>>
      /\ handles' = [handles EXCEPT ![p] = 0]
  BY DEF Free
<1>2. IInv' /\ ListInv'
  <2>1. Next
    BY <1>1 DEF Next, Client, Ptr
  <2> QED
    BY <2>1, InvStep, ListStep, ClientIdle
<1>3. Unscanned' /\ Idle'
  <2>1. refcount' = refcount
    BY <1>1 DEF FreeMem, chunk
  <2>2. handles' \in [Addr -> 0 .. MaxHandles]
    BY <1>1, ClientIdle DEF Unscanned
  <2> QED
    BY <1>1, <2>1, <2>2, ClientIdle DEF Unscanned, Idle, gc
<1>4. pc' \in Freeing
  BY <1>1 DEF FreeMem, Freeing
<1> QED
  BY <1>1, <1>2, <1>3, <1>4 DEF AtFree

----------------------------------------------------------------------------
(* iMallocFree. *)

LEMMA TeardownBegins ==
    ASSUME AtAlloc, IMallocFree
    PROVE  AtEnd'
<1>1. /\ pc = "client" /\ pc' = "teardown" /\ cur' = first
      /\ UNCHANGED <<next, live>>
  BY DEF IMallocFree, chunk
<1>2. IInv /\ ListInv
  BY <1>1, ClientIdle
<1>3. PICK pos \in [Addr -> Int] : Runs(pos)
  BY <1>2 DEF ListInv
<1>4. Listed = live /\ live \subseteq Addr /\ 0 \in live
  BY <1>1, <1>2, NothingWaits DEF IInv, Typed, Tiling
<1>5. Tearing(live, pos)'
  <2>1. first # NULL
    BY <1>3, <1>4 DEF Runs, Addr
  <2>2. \A c \in live : pos[c] >= pos[first]
    BY <1>3, <1>4 DEF Runs
  <2> QED
    BY <1>1, <1>3, <1>4, <2>1, <2>2 DEF Tearing, Runs
<1> QED
  BY <1>1, <1>4, <1>5 DEF AtEnd

\* The struct that is read is one of those that are left, and the step frees
\* no other than that.
LEMMA TeardownGoesOn ==
    ASSUME AtEnd, TeardownNext
    PROVE  AtEnd'
<1>1. PICK S \in SUBSET Addr, pos \in [Addr -> Int] : Tearing(S, pos)
  BY DEF AtEnd
<1>2. /\ pc = "teardown" /\ cur # NULL /\ cur \in S
      /\ live' = IF cur = 0 THEN live ELSE live \ {cur}
      /\ cur' = next[cur] /\ next' = next /\ pc' = "teardown"
  BY <1>1 DEF TeardownNext, Tearing, Embedded
<1>3. \A c \in S : pos[c] \in Int
  OBVIOUS
<1>4. live' = { c \in S : c = 0 \/ (cur' # NULL /\ pos[c] >= pos[cur']) }
  <2>1. CASE next[cur] = NULL
    <3>1. \A c \in S : pos[c] >= pos[cur] => c = cur
      BY <1>1, <1>2, <1>3, <2>1 DEF Tearing
    <3> QED
      BY <1>1, <1>2, <2>1, <3>1 DEF Tearing
  <2>2. CASE next[cur] # NULL
    <3>1. \A c \in S : c # cur => (pos[c] >= pos[cur] <=> pos[c] >= pos[next[cur]])
      BY <1>1, <1>2, <1>3, <2>2 DEF Tearing
    <3>2. ~ (pos[cur] >= pos[next[cur]])
      BY <1>1, <1>2, <1>3, <2>2 DEF Tearing
    <3> QED
      BY <1>1, <1>2, <2>2, <3>1, <3>2 DEF Tearing
  <2> QED
    BY <2>1, <2>2
<1>5. cur' \in S \union {NULL}
  BY <1>1, <1>2 DEF Tearing
<1>6. Tearing(S, pos)'
  BY <1>1, <1>2, <1>4, <1>5 DEF Tearing
<1> QED
  BY <1>2, <1>6 DEF AtEnd

LEMMA TeardownEnds ==
    ASSUME AtEnd, TeardownDone
    PROVE  pc' = "gone" /\ live' = {}
<1>1. PICK S \in SUBSET Addr, pos \in [Addr -> Int] : Tearing(S, pos)
  BY DEF AtEnd
<1> QED
  BY <1>1 DEF TeardownDone, Tearing

----------------------------------------------------------------------------
(* The invariant. *)

LEMMA ProgramPhase ==
    ASSUME MBase, MProgram, Keep
    PROVE  MBase'
<1>1. pc = "client" /\ UNCHANGED <<kind, globalpList>>
  BY PhasesOfSteps DEF Keep
<1>2. AtAlloc
  BY <1>1 DEF MBase, AtRelease, AtCollect, AtFree, AtEnd, Releasing, Sweeping, Collecting, Freeing
<1>3. CASE GCAlloc \/ (Collects(kind) /\ AllocChar)
  BY <1>1, <1>2, <1>3, AllocPhase DEF MBase
<1>4. CASE Collects(kind) /\ Collect
  BY <1>1, <1>2, <1>4, CollectPhase DEF MBase
<1>5. CASE \E p \in Addr : Drop(p)
  BY <1>1, <1>2, <1>5, HeldPhase DEF MBase
<1>6. CASE \E p \in Addr : Free(p)
  BY <1>1, <1>2, <1>6, FreeBegins DEF MBase
<1>7. CASE \E p \in Addr : RetainHeld(p)
  BY <1>1, <1>2, <1>7, RetainPhase DEF MBase
<1>8. CASE \E p \in Addr : ReleaseHeld(p)
  BY <1>1, <1>2, <1>8, ReleaseHeldPhase DEF MBase
<1>9. CASE PointerStep /\ UNCHANGED gc
  BY <1>1, <1>2, <1>9, HeldPhase DEF MBase
<1>10. CASE IMallocFree
  BY <1>1, <1>2, <1>10, TeardownBegins DEF MBase
<1> QED
  BY <1>3, <1>4, <1>5, <1>6, <1>7, <1>8, <1>9, <1>10 DEF MProgram, PointerStep

LEMMA CodePhase ==
    ASSUME MBase, MCode, Keep
    PROVE  MBase'
<1>1. UNCHANGED <<kind, globalpList>>
  BY DEF Keep
<1>2. CASE GCAllocStep
  <2>1. AtAlloc
    BY <1>2, PhasesOfSteps
       DEF MBase, AtRelease, AtCollect, AtFree, AtEnd, Releasing, Sweeping, Collecting, Freeing
  <2> QED
    BY <1>1, <1>2, <2>1, AllocPhase DEF MBase
<1>3. CASE FreeStep
  <2>1. AtFree
    BY <1>3, PhasesOfSteps
       DEF MBase, AtAlloc, AtRelease, AtCollect, AtEnd, Allocating, Releasing, Freeing,
           Collects
  <2> QED
    BY <1>1, <1>3, <2>1, FreePhase DEF MBase
<1>4. CASE ReleaseStep /\ UNCHANGED gc
  <2>1. AtRelease
    BY <1>4, PhasesOfSteps
       DEF MBase, AtAlloc, AtCollect, AtFree, AtEnd, Allocating, Releasing, Sweeping,
           Collecting, Freeing
  <2>2. RCNext
    BY <1>4 DEF RCNext, RCCode
  <2>3. pc' \in Releasing \union {"client"}
    <3>1. CASE MemRelease
      <4>1. pc = "chunkMem" /\ cur \in live /\ ReleaseChunk(cur) /\ RCBase
        BY <2>1, <3>1 DEF MemRelease, AtRelease, RCBase, IInv, Closure
      <4>2. PICK n : n = (refcount[cur] - 1) % UintRange
        OBVIOUS
      <4> QED
        BY <4>1, <4>2, ReleaseEffect DEF Releasing
    <3>2. CASE ~ MemRelease
      BY <1>4, <3>2 DEF ReleaseStep, ScanWord, ScanDone, MemNext, MemDone, Resume, Releasing
    <3> QED
      BY <3>1, <3>2
  <2> QED
    BY <1>1, <1>4, <2>1, <2>2, <2>3, ReleasePhase DEF MBase, AtRelease
<1>5. CASE kind # MANUAL /\ CollectStep
  <2>1. (AtAlloc \/ AtCollect) /\ Collects(kind)
    BY <1>5, PhasesOfSteps
       DEF MBase, AtAlloc, AtRelease, AtCollect, AtFree, AtEnd, Allocating, Releasing, Sweeping,
           Collecting, Freeing
  <2> QED
    BY <1>1, <1>5, <2>1, CollectPhase DEF MBase
<1>6. CASE TeardownNext
  <2>1. AtEnd
    BY <1>6 DEF TeardownNext, MBase, AtAlloc, AtRelease, AtCollect, AtFree, Allocating,
                Releasing, Sweeping, Collecting, Freeing
  <2> QED
    BY <1>1, <1>6, <2>1, TeardownGoesOn DEF MBase
<1> QED
  BY <1>2, <1>3, <1>4, <1>5, <1>6 DEF MCode

\* Another manager's calls change nothing but where globalpList leads to.
LEMMA OthersPhase ==
    ASSUME MBase, OtherIMalloc \/ OtherFree \/ UNCHANGED all
    PROVE  MBase'
<1>1. UNCHANGED <<gcVars, kind>> /\ globalpList' \in {"this", "other", "freed"}
      /\ (globalpList' = globalpList \/ pc = "client")
  BY DEF OtherIMalloc, OtherFree, all, MBase
<1>2. UNCHANGED <<vars, rcVars, gc, frames, data, handles, target, refcount, next, live, cur, pc, typed,
                  count, visits, before>>
  BY <1>1 DEF gcVars, rcVars, vars, chunk, call, program, gc
<1>3. (RCBase => RCBase') /\ (GCBase => GCBase')
  BY <1>1, <1>2, RCBaseStep, GCBaseStep
<1>4. IInv /\ ListInv => IInv' /\ ListInv'
  BY <1>2, InvStep, ListStep
<1>5. AtAlloc => AtAlloc'
  BY <1>1, <1>2, <1>3 DEF AtAlloc, Collects
<1>6. AtRelease => AtRelease'
  BY <1>1, <1>2, <1>3 DEF AtRelease, Counts, Idle, Releasing
<1>7. AtCollect => AtCollect'
  BY <1>1, <1>2, <1>3 DEF AtCollect, Collects, Unscanned
<1>8. AtFree => AtFree'
  BY <1>1, <1>2, <1>4 DEF AtFree, Unscanned, Idle
<1>9. AtEnd => AtEnd'
  BY <1>2 DEF AtEnd, Tearing
<1> QED
  BY <1>1, <1>2, <1>5, <1>6, <1>7, <1>8, <1>9 DEF MBase, Counts

LEMMA MBaseStep == MBase /\ [MNext]_all => MBase'
<1> SUFFICES ASSUME MBase, [MNext]_all PROVE MBase'
  OBVIOUS
<1>1. CASE MProgram /\ Keep
  BY <1>1, ProgramPhase
<1>2. CASE MCode /\ Keep
  BY <1>2, CodePhase
<1>3. CASE TeardownDone
  <2>1. AtEnd
    BY <1>3 DEF TeardownDone, MBase, AtAlloc, AtRelease, AtCollect, AtFree, Allocating,
                Releasing, Sweeping, Collecting, Freeing
  <2>2. pc' = "gone" /\ live' = {}
    BY <1>3, <2>1, TeardownEnds
  <2>3. kind' = kind /\ globalpList' \in {"this", "other", "freed"}
    BY <1>3 DEF TeardownDone, MBase
  <2> QED
    BY <2>2, <2>3 DEF MBase
<1>4. CASE OtherIMalloc \/ OtherFree \/ Ended \/ UNCHANGED all
  BY <1>4, OthersPhase DEF Ended
<1> QED
  BY <1>1, <1>2, <1>3, <1>4 DEF MNext

LEMMA MBaseInvariance == MSpec => []MBase
<1> QED
  BY MBaseInit, MBaseStep, PTL DEF MSpec

\* iMallocFree, whatever it is called after, reads no struct that it has freed
\* and leaves none behind.
THEOREM TeardownInvariant == MSpec => []TeardownClean
<1>1. MBase => TeardownClean
  <2> SUFFICES ASSUME MBase PROVE TeardownClean
    OBVIOUS
  <2>1. pc = "teardown" => cur \in live \union {NULL}
    <3>1. SUFFICES ASSUME pc = "teardown" PROVE cur \in live \union {NULL}
      OBVIOUS
    <3>2. AtEnd
      BY <3>1 DEF MBase, AtAlloc, AtRelease, AtCollect, AtFree, Allocating, Releasing, Sweeping,
                  Collecting, Freeing
    <3>3. PICK S \in SUBSET Addr, pos \in [Addr -> Int] : Tearing(S, pos)
      BY <3>2 DEF AtEnd
    <3>4. \A c \in S : pos[c] \in Int
      OBVIOUS
    <3> QED
      BY <3>3, <3>4 DEF Tearing
  <2>2. pc = "gone" => live = {}
    BY DEF MBase, AtAlloc, AtRelease, AtCollect, AtFree, AtEnd, Allocating, Releasing, Sweeping,
           Collecting, Freeing
  <2> QED
    BY <2>1, <2>2 DEF TeardownClean
<1> QED
  BY <1>1, MBaseInvariance, PTL

----------------------------------------------------------------------------
(* What the program's pointers refer to. *)

\* The program's variables refer to chunks that there are.
HandlesLive == \A a \in Addr \ live : handles[a] = 0

\* T are blocks that there are, among them all to which a variable of the
\* program or, as far as it knows, a word of these blocks refers.
Anchors(T) ==
    /\ T \subseteq live
    /\ \A a \in Addr : handles[a] > 0 => a \in T
    /\ \A d \in T : \A w \in Words(d) : target[w] \in T \union {NULL}

Anchored == \E T \in SUBSET Addr : Anchors(T)

LEMMA AnchoredHandles ==
    ASSUME handles \in [Addr -> 0 .. MaxHandles], Anchored
    PROVE  HandlesLive
  BY DEF Anchored, Anchors, HandlesLive

\* Steps that touch no block, and give no variable a pointer that it had not.
LEMMA AnchoredKept ==
    ASSUME Anchored, UNCHANGED <<live, size, target>>,
           \A a \in Addr : handles'[a] > 0 => handles[a] > 0
    PROVE  Anchored'
<1>1. PICK T \in SUBSET Addr : Anchors(T)
  BY DEF Anchored
<1>2. Anchors(T)'
  BY <1>1 DEF Anchors, Words
<1> QED
  BY <1>2 DEF Anchored

\* The block that alloc hands out refers to nothing.
LEMMA AnchoredSplit ==
    ASSUME RCBase, Anchored, SplitAddress \/ SplitExact \/ SplitInPlace \/ SplitDetach,
           handles' = [handles EXCEPT ![cur] = 1],
           target' = [w \in Addr |-> IF w \in cur .. cur + bytes - 1 THEN NULL ELSE target[w]]
    PROVE  Anchored'
<1>1. PICK T \in SUBSET Addr : Anchors(T)
  BY DEF Anchored
<1>2. PICK a, b : a = cur /\ b = bytes
  OBVIOUS
<1>3. /\ a \in live /\ Fits(a, b) /\ Carve(a, b) /\ b \in Int /\ b > 0
  BY <1>2 DEF SplitAddress, SplitExact, SplitInPlace, SplitDetach, RCBase, IInv, Typed, Closure,
              Requests
<1>4. /\ a \in Int /\ size[a] \in Int /\ live \subseteq Addr
      /\ handles \in [Addr -> 0 .. MaxHandles]
  BY <1>3, WordsTyped DEF RCBase, RCTyped, IInv, Typed
<1>5. /\ live \subseteq live' /\ size'[a] = b /\ b <= size[a]
      /\ \A d \in live \ {a} : size'[d] = size[d]
  <2>1. b \in 1 .. size[a]
    BY <1>3, <1>4 DEF Fits
  <2> QED
    BY <1>3, <2>1, CarveTiling DEF RCBase
<1>6. Anchors(T \union {a})'
  <2>1. T \union {a} \subseteq live'
    BY <1>1, <1>3, <1>5 DEF Anchors
  <2>2. \A c \in Addr : handles'[c] > 0 => c \in T \union {a}
    BY <1>1, <1>2, <1>4 DEF Anchors
  <2>3. ASSUME NEW d \in T \union {a}, NEW w \in Words(d)'
        PROVE  target'[w] \in T \union {a, NULL}
    <3>1. CASE d = a
      <4>1. w \in a .. a + b - 1 /\ w \in Words(a)
        BY <1>3, <1>4, <1>5, <2>3, <3>1 DEF Words
      <4> QED
        BY <1>2, <1>3, <4>1, WordsTyped DEF RCBase
    <3>2. CASE d # a
      <4>1. d \in T /\ d \in live /\ w \in Words(d)
        BY <1>1, <1>5, <2>3, <3>2 DEF Anchors, Words
      <4>2. w \in Addr /\ target[w] \in T \union {NULL}
        BY <1>1, <4>1, WordsTyped DEF Anchors, RCBase
      <4> QED
        BY <4>2
    <3> QED
      BY <3>1, <3>2
  <2> QED
    BY <2>1, <2>2, <2>3 DEF Anchors
<1> QED
  BY <1>3, <1>4, <1>6 DEF Anchored

LEMMA AnchoredAlloc ==
    ASSUME RCBase, Anchored, Alloc \/ AllocStep
    PROVE  Anchored'
<1>1. CASE UNCHANGED <<live, size, target, handles>>
  BY <1>1, AnchoredKept
<1>2. CASE /\ SplitAddress \/ SplitExact \/ SplitInPlace \/ SplitDetach
           /\ handles' = [handles EXCEPT ![cur] = 1]
           /\ target' = [w \in Addr |-> IF w \in cur .. cur + bytes - 1 THEN NULL ELSE target[w]]
  BY <1>2, AnchoredSplit
<1> QED
  BY <1>1, <1>2 DEF Alloc, AllocInt, AllocStep, FindNext, FindFail, Insert, InsertFront,
                    InsertBefore, InsertLast, InsertWalk, chunk, program

\* A pointer that is stored or taken stays with what is held.
LEMMA AnchoredPointer ==
    ASSUME RCBase, Anchored, PointerStep
    PROVE  Anchored'
<1>1. PICK T \in SUBSET Addr : Anchors(T)
  BY DEF Anchored
<1>0. PICK d \in live : \E w \in Words(d) :
          (\E c \in live : \E p \in Words(c) : StorePointer(d, w, c, p)) \/ TakePointer(d, w)
  BY DEF PointerStep
<1>2. PICK w \in Words(d) :
          (\E c \in live : \E p \in Words(c) : StorePointer(d, w, c, p)) \/ TakePointer(d, w)
  BY <1>0
<1>3. /\ handles \in [Addr -> 0 .. MaxHandles] /\ target \in [Addr -> Ptr]
      /\ live \subseteq Addr /\ w \in Addr
      /\ \A x \in live : Words(x) \subseteq Addr
  BY <1>2, WordsTyped DEF RCBase, RCTyped, IInv, Typed
<1>4. UNCHANGED <<live, size>> /\ d \in T
  BY <1>1, <1>2, <1>3 DEF StorePointer, TakePointer, vars, chunk, Anchors
<1>5. /\ \A c \in Addr : handles'[c] > 0 => c \in T
      /\ \A v \in Addr : target'[v] = target[v] \/ target'[v] \in T \union {NULL}
  <2>1. ASSUME NEW c \in live, NEW p \in Words(c), StorePointer(d, w, c, p)
        PROVE  /\ \A x \in Addr : handles'[x] > 0 => x \in T
               /\ \A v \in Addr : target'[v] = target[v] \/ target'[v] \in T \union {NULL}
    <3>1. c \in T
      BY <1>1, <1>3, <2>1 DEF StorePointer, Anchors
    <3> QED
      BY <1>1, <1>3, <2>1, <3>1 DEF StorePointer, Anchors
  <2>2. CASE TakePointer(d, w)
    <3>1. target[w] \in T
      BY <1>1, <1>2, <1>4, <2>2 DEF TakePointer, Anchors
    <3> QED
      BY <1>1, <1>3, <2>2, <3>1 DEF TakePointer, Anchors
  <2> QED
    BY <1>2, <2>1, <2>2
<1>6. Anchors(T)'
  <2>1. \A x \in T : \A v \in Words(x) : v \in Addr /\ target[v] \in T \union {NULL}
    BY <1>1, <1>3 DEF Anchors
  <2>2. \A x : Words(x)' = Words(x)
    BY <1>4 DEF Words
  <2> QED
    BY <1>1, <1>4, <1>5, <2>1, <2>2 DEF Anchors
<1> QED
  BY <1>6 DEF Anchored

\* A variable gives a pointer up, or a second one has it.
LEMMA AnchoredHeld ==
    ASSUME handles \in [Addr -> 0 .. MaxHandles], Anchored, NEW p \in Addr, handles[p] > 0, NEW k,
           handles' = [handles EXCEPT ![p] = k], UNCHANGED <<live, size, target>>
    PROVE  Anchored'
  BY AnchoredKept

\* release clears marks, and no more than that.
LEMMA AnchoredRelease ==
    ASSUME Anchored, ReleaseStep
    PROVE  Anchored'
<1>1. UNCHANGED <<live, size, target, handles>>
  BY DEF ReleaseStep, ScanWord, ScanDone, MemRelease, MemNext, MemDone, ReleaseChunk, chunk, program
<1> QED
  BY <1>1, AnchoredKept

LEMMA AnchoredCollect ==
    ASSUME Anchored, Collect \/ CollectStep, ~ GCConcat
    PROVE  Anchored'
<1>1. UNCHANGED <<live, size, target, handles>>
  BY DEF CollectStep, CollectStarved, Collect, Begin, MarkZero, MarkZeroDone, MarkStack,
         MarkStackDone, TraceMarked, TraceNext, TraceDone, TraverseFind, TraverseSkip,
         TraverseDone, FindChunkNext, FindChunkMark, FindChunkDone, FindReturn, Sweep,
         SweepDone, CollectDone, Turn, chunk, vars, program
<1> QED
  BY <1>1, AnchoredKept

\* After a collection that has missed nothing, that is so of what it has left
\* in use, because it has left what the variables refer to; ...
LEMMA AnchorsSwept ==
    ASSUME GCBase, Unscanned, RootsInv, Anchored, SweepDone, ~ Misses
    PROVE  Anchors(Used)'
<1>1. pc = "sweep" /\ UNCHANGED <<live, size, mark, target, handles>>
  BY DEF SweepDone, Turn, chunk, program
<1>2. Anchors(Used)
  <2>1. ASSUME NEW a \in Addr, handles[a] > 0 PROVE a \in Used
    <3>1. a \in live /\ a \in Words(a)
      BY <2>1, WordsTyped DEF Anchored, Anchors, GCBase, Words
    <3>2. mark[a] = 1
      BY <1>1, <2>1, <3>1 DEF RootsInv, Rooted
    <3> QED
      BY <3>1, <3>2 DEF Used
  <2>2. ASSUME NEW d \in Used, NEW w \in Words(d) PROVE target[w] \in Used \union {NULL}
    <3>1. w \in Addr
      BY <2>2, WordsTyped DEF Used, GCBase
    <3>2. target[w] \in Addr \union {NULL} /\ target[w] \notin Addr \ Used
      BY <2>2, <3>1 DEF Unscanned, Ptr, Misses
    <3> QED
      BY <3>2
  <2> QED
    BY <2>1, <2>2 DEF Anchors, Used
<1> QED
  BY <1>1, <1>2 DEF Anchors, Used, Words

\* ... and the merging takes no block in use.
LEMMA AnchorsMerged ==
    ASSUME GCBase, Anchors(Used), GCConcat
    PROVE  Anchors(Used)'
<1>1. PICK a : a = cur
  OBVIOUS
<1>2. /\ pc = "concat" /\ a \in live /\ next[a] # NULL /\ sort = ADDRESS
      /\ UNCHANGED <<mark, target, handles>>
  BY <1>1 DEF GCConcat, ConcatMerge, ConcatNext, program, chunk, GCBase, IInv, Closure, AddressLinks
<1>3. \/ /\ mark[a] = 0 /\ mark[next[a]] = 0 /\ live' = live \ {next[a]}
         /\ \A d \in Addr \ {a, next[a]} : size'[d] = size[d]
      \/ UNCHANGED <<live, size>>
  <2>1. size \in [Addr -> Int]
    BY DEF GCBase, IInv, Typed
  <2> QED
    BY <1>1, <2>1 DEF GCConcat, ConcatMerge, ConcatNext, Mergeable, chunk
<1>4. Used' = Used /\ \A d \in Used : size'[d] = size[d]
  BY <1>2, <1>3 DEF Used, GCBase, IInv, Typed
<1> QED
  BY <1>2, <1>4 DEF Anchors, Used, Words

\* What the program holds is there, and nothing but what it does not know of
\* can take it away.
AnchorInv ==
    /\ missed \in BOOLEAN
    /\ ~ Collects(kind) => ~ missed
    /\ Counts(kind) /\ ~ missed /\ pc \in Allocating \union Releasing \union Sweeping => Anchored
    /\ Counts(kind) /\ ~ missed /\ pc \in {"concat", "collected"} => Anchors(Used)
    /\ RootsInv

LEMMA AnchorInvInit == MInit => AnchorInv
<1> SUFFICES ASSUME MInit PROVE AnchorInv
  OBVIOUS
<1>1. /\ pc = "client" /\ missed = FALSE /\ handles = [c \in Addr |-> 0]
  BY DEF MInit, GCInit, RCInit, Init, Fresh, Unused
<1>2. Anchors({})
  BY <1>1 DEF Anchors
<1>3. Anchored
  BY <1>2 DEF Anchored
<1> QED
  BY <1>1, <1>3 DEF AnchorInv, RootsInv

\* The step of retain and release by which the program is at its end.
LEMMA CrashHasReason ==
    ASSUME AtAlloc, pc = "client", HandlesLive, NEW p \in Addr,
           RetainHeld(p) \/ ReleaseHeld(p), pc' = "crash"
    PROVE  globalpList # "this"
<1>1. CASE globalpList = "freed"
  BY <1>1
<1>2. CASE globalpList # "freed"
  <2>1. Search(p) = NULL /\ handles[p] > 0
    BY <1>2 DEF RetainHeld, ReleaseHeld, Retain, Release, ReleaseChunk, Resume, vars, call
  <2>2. p \in live /\ p # NULL
    BY <2>1 DEF HandlesLive, Addr
  <2> QED
    BY <2>1, <2>2, ClientIdle, FindAChunkFinds DEF Search
<1> QED
  BY <1>1, <1>2

LEMMA AnchoredProgram ==
    ASSUME AtAlloc, Anchored, MProgram, pc' \notin {"crash", "teardown", "lookup"}
    PROVE  Anchored'
<1>1. pc = "client" /\ RCBase /\ handles \in [Addr -> 0 .. MaxHandles]
  BY PhasesOfSteps DEF AtAlloc, RCBase, RCTyped
<1>2. CASE GCAlloc \/ AllocChar
  BY <1>1, <1>2, AnchoredAlloc DEF GCAlloc, AllocChar
<1>3. CASE Collect
  <2>1. ~ GCConcat
    BY <1>1 DEF GCConcat, ConcatMerge, ConcatNext
  <2> QED
    BY <1>3, <2>1, AnchoredCollect
<1>4. CASE \E p \in Addr : Drop(p)
  BY <1>1, <1>4, AnchoredHeld DEF Drop, vars, chunk
<1>5. ASSUME NEW p \in Addr, RetainHeld(p) PROVE Anchored'
  BY <1>1, <1>5, AnchoredHeld DEF RetainHeld, Crash, Retain
<1>6. ASSUME NEW p \in Addr, ReleaseHeld(p) PROVE Anchored'
  BY <1>1, <1>6, AnchoredHeld DEF ReleaseHeld, Crash, Release, ReleaseChunk, vars, chunk
<1>7. CASE PointerStep
  BY <1>1, <1>7, AnchoredPointer
<1>8. ~ IMallocFree /\ \A p \in Addr : ~ Free(p)
  BY DEF IMallocFree, Free, FreeMem
<1> QED
  BY <1>2, <1>3, <1>4, <1>5, <1>6, <1>7, <1>8 DEF MProgram, PointerStep

\* The phases in which another manager's calls come, and those of the ends.
LEMMA PhasesOfEnds ==
    ASSUME [MNext]_all, ~ ((MProgram \/ MCode) /\ Keep /\ Remember)
    PROVE  /\ UNCHANGED kind /\ missed' = missed
           /\ UNCHANGED gcVars \/ (pc = "teardown" /\ pc' = "gone" /\ TeardownDone)
           /\ globalpList' = globalpList \/ pc \in {"client", "teardown"}
  BY DEF MNext, TeardownDone, OtherIMalloc, OtherFree, Ended, all

\* The loops of collect run between a call of it and its return.
LEMMA CollectorSteps ==
    ASSUME MBase, [MNext]_all, pc' \in Collecting \union {"collected"}
    PROVE  GCBase /\ [GCNext]_gcVars /\ (AtAlloc \/ AtCollect)
<1>1. CASE UNCHANGED gcVars
  <2>1. pc' = pc
    BY <1>1 DEF gcVars, rcVars, vars, call
  <2> QED
    BY <1>1, <2>1 DEF MBase, AtAlloc, AtRelease, AtCollect, AtFree, AtEnd, Releasing, Freeing,
                      Collecting
<1>2. CASE MProgram
  <2>1. pc = "client" /\ pc' # "client"
    BY <1>2, PhasesOfSteps DEF Collecting
  <2>2. ~ GCAlloc /\ ~ AllocChar /\ ~ IMallocFree
    BY DEF GCAlloc, AllocChar, Alloc, AllocInt, IMallocFree, Collecting
  <2>3. \A p \in Addr : ~ Free(p) /\ ~ Drop(p) /\ ~ RetainHeld(p)
    BY <2>1 DEF Free, FreeMem, Drop, RetainHeld, Retain, Crash, vars, call, Collecting
  <2>4. \A p \in Addr : ~ ReleaseHeld(p)
    BY <2>1 DEF ReleaseHeld, Release, ReleaseChunk, Resume, Crash, vars, call, Collecting
  <2>5. ~ PointerStep
    BY <2>1 DEF PointerStep, StorePointer, TakePointer, vars, call
  <2>6. Collect
    BY <1>2, <2>2, <2>3, <2>4, <2>5 DEF MProgram, PointerStep
  <2>7. AtAlloc
    BY <2>6 DEF Collect, MBase, AtRelease, AtCollect, AtFree, AtEnd, Releasing, Sweeping,
                Collecting, Freeing
  <2> QED
    BY <2>6, <2>7 DEF AtAlloc, GCNext, GCProgram
<1>3. CASE MCode
  <2>1. CollectStep /\ kind # MANUAL
    BY <1>3 DEF MCode, GCAllocStep, AllocStep, FindNext, FindFail, SplitAddress, SplitExact,
           SplitInPlace, SplitDetach, Insert, InsertFront, InsertBefore, InsertLast, InsertWalk,
           Inserted, Return, FreeStep, Lookup, LookupNext, LookupFail, LookupFound, Concat,
           ConcatMerge, ConcatNext, ConcatDone, ReleaseStep, ScanWord, ScanDone, MemRelease,
           MemNext, MemDone, ReleaseChunk, Resume, TeardownNext, Collecting
  <2>2. AtAlloc \/ AtCollect
    BY <2>1, PhasesOfSteps
       DEF MBase, AtAlloc, AtRelease, AtCollect, AtFree, AtEnd, Allocating, Releasing,
           Sweeping, Collecting, Freeing
  <2> QED
    BY <2>1, <2>2 DEF AtAlloc, AtCollect, GCNext, GCCode
<1>4. CASE ~ MProgram /\ ~ MCode
  <2>1. UNCHANGED gcVars
    BY <1>4, PhasesOfEnds DEF Collecting
  <2> QED
    BY <1>1, <2>1
<1> QED
  BY <1>2, <1>3, <1>4

LEMMA AnchorInvStep == MBase /\ AnchorInv /\ [MNext]_all => AnchorInv'
<1> SUFFICES ASSUME MBase, AnchorInv, [MNext]_all PROVE AnchorInv'
  OBVIOUS
<1>1. /\ kind' = kind /\ (missed => missed') /\ (pc # "sweep" => missed' = missed)
      /\ ~ missed' /\ Remember => ~ (pc = "sweep" /\ Misses)
  <2>1. missed \in BOOLEAN
    BY DEF AnchorInv
  <2>2. missed' = missed \/ Remember
    BY PhasesOfEnds
  <2> QED
    BY <2>1, <2>2, PhasesOfEnds DEF Keep, Remember
<1>2. missed' \in BOOLEAN /\ (~ Collects(kind)' => ~ missed')
  BY <1>1, PhasesOfEnds DEF Remember, AnchorInv, MBase, AtAlloc, AtRelease, AtCollect, AtFree, AtEnd, Allocating, Releasing,
              Freeing, Collects
<1>3. RootsInv'
  <2>1. CASE pc' \in Collecting \union {"collected"}
    BY <2>1, CollectorSteps, RootsStep DEF AnchorInv
  <2>2. CASE pc' \notin Collecting \union {"collected"}
    BY <2>2 DEF RootsInv, Collecting
  <2> QED
    BY <2>1, <2>2
<1>4. ASSUME Counts(kind), ~ missed', pc' \in Allocating \union Releasing \union Sweeping
      PROVE  /\ Anchored'
             /\ pc' \in {"concat", "collected"} => Anchors(Used)'
  <2>1. kind # MANUAL /\ ~ missed
    BY <1>1, <1>4 DEF Counts
  <2>2. CASE UNCHANGED gcVars
    <3>1. UNCHANGED <<pc, live, size, mark, target, handles>>
      BY <2>2 DEF gcVars, rcVars, vars, call, chunk, program
    <3>2. Anchored /\ (pc \in {"concat", "collected"} => Anchors(Used))
      BY <1>4, <2>1, <3>1 DEF AnchorInv
    <3>3. Anchored'
      BY <3>1, <3>2, AnchoredKept
    <3> QED
      BY <3>1, <3>2, <3>3 DEF Anchors, Used, Words
  <2>3. CASE MProgram
    <3>1. AtAlloc /\ pc = "client"
      BY <2>3, PhasesOfSteps DEF MBase, AtRelease, AtCollect, AtFree, AtEnd, Releasing, Sweeping,
                                 Collecting, Freeing
    <3>2. Anchored
      BY <1>4, <2>1, <3>1 DEF AnchorInv, Allocating
    <3>3. pc' \notin {"crash", "teardown", "lookup"}
      BY <1>4 DEF Allocating, Releasing, Sweeping, Collecting
    <3>4. pc' \notin {"concat", "collected"}
      <4>1. GCAlloc \/ AllocChar \/ Collect \/ IMallocFree => pc' \notin {"concat", "collected"}
        BY <3>1 DEF GCAlloc, AllocChar, Alloc, AllocInt, Collect, Begin, IMallocFree, vars, call
      <4>2. \A p \in Addr : Drop(p) \/ Free(p) \/ RetainHeld(p)
                => pc' \notin {"concat", "collected"}
        BY <3>1 DEF Drop, Free, FreeMem, RetainHeld, Retain, Crash, vars, call
      <4>3. \A p \in Addr : ReleaseHeld(p) => pc' \notin {"concat", "collected"}
        BY <3>1 DEF ReleaseHeld, Release, ReleaseChunk, Resume, Crash, vars, call
      <4>4. PointerStep => pc' \notin {"concat", "collected"}
        BY <3>1 DEF PointerStep, StorePointer, TakePointer, vars, call
      <4> QED
        BY <2>3, <4>1, <4>2, <4>3, <4>4 DEF MProgram, PointerStep
    <3> QED
      BY <2>3, <3>1, <3>2, <3>3, <3>4, AnchoredProgram
  <2>4. CASE GCAllocStep
    <3>1. AtAlloc
      BY <2>4, PhasesOfSteps DEF MBase, AtRelease, AtCollect, AtFree, AtEnd, Releasing, Sweeping,
                                 Collecting, Freeing
    <3>2. Anchored
      BY <1>4, <2>1, <3>1 DEF AnchorInv, AtAlloc
    <3>3. AtAlloc'
      BY <1>1, <2>4, <3>1, AllocPhase
    <3>4. pc' \notin {"concat", "collected"}
      BY <3>3 DEF AtAlloc, Allocating
    <3> QED
      BY <2>4, <3>1, <3>2, <3>4, AnchoredAlloc DEF GCAllocStep, AtAlloc
  <2>5. CASE ReleaseStep
    <3>1. pc \in Releasing /\ pc' \notin {"concat", "collected"}
      BY <2>5, PhasesOfSteps DEF ReleaseStep, ScanWord, ScanDone, MemRelease, MemNext, MemDone,
                                 ReleaseChunk, Resume
    <3> QED
      BY <1>4, <2>1, <2>5, <3>1, AnchoredRelease DEF AnchorInv
  <2>6. CASE CollectStep
    <3>1. AtAlloc \/ AtCollect
      BY <2>1, <2>6, PhasesOfSteps
         DEF MBase, AtAlloc, AtRelease, AtCollect, AtFree, AtEnd, Allocating, Releasing, Sweeping,
             Collecting, Freeing
    <3>2. GCBase /\ Unscanned /\ Anchored
      BY <1>4, <2>1, <3>1, Resting DEF AnchorInv, AtAlloc, AtCollect
    <3>3. CASE GCConcat
      <4>1. pc = "concat"
        BY <3>3 DEF GCConcat, ConcatMerge, ConcatNext
      <4>2. Anchors(Used)'
        BY <1>4, <2>1, <3>2, <3>3, <4>1, AnchorsMerged DEF AnchorInv
      <4>3. Used' \in SUBSET Addr
        <5>1. IInv'
          BY <3>2, <3>3, AllocatorGCBase DEF GCBase
        <5> QED
          BY <5>1 DEF Used, IInv, Typed
      <4> QED
        BY <4>2, <4>3 DEF Anchored
    <3>4. CASE SweepDone
      <4>1. pc = "sweep" /\ ~ GCConcat
        BY <3>4 DEF SweepDone, Turn, GCConcat, ConcatMerge, ConcatNext
      <4>2. ~ Misses
        <5>1. pc' # pc /\ pc # "teardown"
          BY <3>4, <4>1 DEF SweepDone, Turn, AfterSweep
        <5>2. ~ UNCHANGED gcVars
          BY <5>1 DEF gcVars, rcVars, vars, call
        <5> QED
          BY <1>1, <1>4, <4>1, <5>1, <5>2, PhasesOfEnds
      <4> QED
        BY <2>6, <3>2, <3>4, <4>1, <4>2, AnchorsSwept, AnchoredCollect DEF AnchorInv
    <3>5. CASE ~ GCConcat /\ ~ SweepDone
      <4>1. pc' \notin {"concat", "collected"}
        BY <2>6, <3>5 DEF CollectStep, CollectStarved, Begin, MarkZero, MarkZeroDone, MarkStack,
               MarkStackDone, TraceMarked, TraceNext, TraceDone, TraverseFind, TraverseSkip,
               TraverseDone, FindChunkNext, FindChunkMark, FindChunkDone, FindReturn, Sweep,
               CollectDone, Return, Turn, vars, call
      <4> QED
        BY <2>6, <3>2, <3>5, <4>1, AnchoredCollect
    <3> QED
      BY <3>3, <3>4, <3>5
  <2>7. ~ FreeStep /\ ~ TeardownNext /\ ~ TeardownDone
    BY <1>4, <2>1 DEF FreeStep, TeardownNext, TeardownDone, Allocating, Releasing, Sweeping,
                      Collecting
  <2> QED
    BY <2>2, <2>3, <2>4, <2>5, <2>6, <2>7, PhasesOfEnds DEF MCode
<1> QED
  BY <1>1, <1>2, <1>3, <1>4 DEF AnchorInv, Counts, Sweeping

\* A crash has its reason.
LEMMA CrashStep ==
    ASSUME MBase, AnchorInv, CrashOnlyWhenStale, [MNext]_all
    PROVE  CrashOnlyWhenStale'
<1> SUFFICES ASSUME pc' = "crash" PROVE globalpList' # "this" \/ missed'
  BY DEF CrashOnlyWhenStale
<1>1. CASE ~ ((MProgram \/ MCode) /\ Keep /\ Remember)
  <2>1. UNCHANGED <<pc, globalpList, missed>>
    BY <1>1, PhasesOfEnds DEF gcVars, rcVars, vars, call
  <2> QED
    BY <2>1 DEF CrashOnlyWhenStale
<1>2. CASE MCode
  <2>1. pc # "crash"
    BY <1>2, PhasesOfSteps DEF MCode, TeardownNext, Freeing, Releasing, Sweeping, Collecting
  <2>2. MBase'
    BY MBaseStep
  <2> QED
    BY <1>2, <2>1
       DEF MCode, GCAllocStep, AllocStep, FindNext, FindFail, SplitAddress, SplitExact,
           SplitInPlace, SplitDetach, Insert, InsertFront, InsertBefore, InsertLast, InsertWalk,
           Inserted, Return, FreeStep, Lookup, LookupNext, LookupFail, LookupFound, Concat,
           ConcatMerge, ConcatNext, ConcatDone, ReleaseStep, ScanWord, ScanDone, MemRelease,
           MemNext, MemDone, ReleaseChunk, Resume, TeardownNext,
           CollectStep, CollectStarved, Begin, MarkZero, MarkZeroDone, MarkStack,
           MarkStackDone, TraceMarked, TraceNext, TraceDone, TraverseFind, TraverseSkip,
           TraverseDone, FindChunkNext, FindChunkMark, FindChunkDone, FindReturn, Sweep,
           SweepDone, AfterSweep, GCConcat, CollectDone, Turn, vars, call
<1>3. CASE MProgram /\ Keep /\ Remember
  <2>1. /\ pc = "client" /\ UNCHANGED globalpList /\ AtAlloc
        /\ missed => missed'
    BY <1>3, PhasesOfSteps DEF Keep, Remember, MBase, AtRelease, AtCollect, AtFree, AtEnd,
                               Releasing, Sweeping, Collecting, Freeing
  <2>2. PICK p \in Addr : RetainHeld(p) \/ ReleaseHeld(p)
    BY <1>3 DEF MProgram, GCAlloc, AllocChar, Alloc, AllocInt, Collect, Begin, Drop, Free,
           FreeMem, StorePointer, TakePointer, IMallocFree, vars, call
  <2>3. CASE ~ missed
    <3>1. Counts(kind) /\ handles \in [Addr -> 0 .. MaxHandles]
      BY <2>1, <2>2 DEF RetainHeld, ReleaseHeld, AtAlloc, RCBase, RCTyped
    <3>2. HandlesLive
      BY <2>1, <2>3, <3>1, AnchoredHandles DEF AnchorInv, Allocating
    <3> QED
      BY <2>1, <2>2, <3>2, CrashHasReason
  <2> QED
    BY <2>1, <2>3
<1> QED
  BY <1>1, <1>2, <1>3

\* A program that holds what it counts crashes in retain or release only when
\* another manager has been created since, or a collection has freed a block
\* to which, as the program knows, a block in use refers.
THEOREM CrashInvariant == MSpec => []CrashOnlyWhenStale
<1>1. MInit => CrashOnlyWhenStale
  BY DEF MInit, GCInit, RCInit, Init, Fresh, CrashOnlyWhenStale
<1> QED
  BY <1>1, MBaseInit, MBaseStep, AnchorInvInit, AnchorInvStep, CrashStep, PTL DEF MSpec

----------------------------------------------------------------------------
(* A manager that counts references and does not collect. *)

\* release of a block of which the list is not to be seen: nothing is given up.
SilentRelease(p) ==
    /\ pc = "client" /\ handles[p] > 0
    /\ handles' = [handles EXCEPT ![p] = handles[p] - 1]
    /\ UNCHANGED <<vars, data, target, frames>>

\* What such a manager does while the program runs.
CountingStep ==
    \/ globalpList' = globalpList /\ globalpList = "this" /\ RCNext
    \/ /\ globalpList' = globalpList /\ globalpList # "this" /\ pc \in Allocating
       /\ Alloc \/ AllocStep \/ PointerStep \/ \E p \in live : SilentRelease(p)
    \/ /\ globalpList' = globalpList \/ (globalpList' # "this" /\ pc = "client")
       /\ UNCHANGED rcVars

LEMMA CountingSteps ==
    ASSUME MBase, [MNext]_all, kind = REFCOUNT, pc \in Allocating \union Releasing, HandlesLive
    PROVE  \/ pc' = "teardown"
           \/ pc' = "crash" /\ globalpList' # "this"
           \/ CountingStep
<1>1. /\ AtAlloc \/ AtRelease
      /\ RCBase /\ ~ Collects(kind) /\ Counts(kind) /\ kind # MANUAL
      /\ pc \notin Sweeping \union Freeing \union {"teardown", "gone", "crash"}
  BY DEF MBase, AtAlloc, AtRelease, AtCollect, AtFree, AtEnd, Allocating, Releasing, Sweeping,
         Collecting, Freeing, Collects, Counts
<1>2. pc \in Allocating => AtAlloc
  BY <1>1 DEF AtRelease, Allocating, Releasing
<1>3. pc \in Releasing => globalpList = "this"
  BY <1>1 DEF AtRelease, AtAlloc, Allocating, Releasing
<1>4. CASE MProgram /\ Keep /\ Remember
  <2>1. /\ pc = "client" /\ AtAlloc /\ IInv /\ ListInv /\ globalpList' = globalpList
        /\ pc \in Allocating
    BY <1>2, <1>4, PhasesOfSteps DEF Keep, Allocating, AtAlloc, GCBase
  <2>2. CASE GCAlloc
    BY <2>1, <2>2 DEF GCAlloc, CountingStep, RCNext, Program
  <2>3. CASE PointerStep
    BY <2>1, <2>3 DEF PointerStep, CountingStep, RCNext, Program
  <2>4. ASSUME NEW p \in Addr, RetainHeld(p)
        PROVE  (pc' = "crash" /\ globalpList' # "this") \/ CountingStep
    <3>1. CASE Search(p) = NULL
      <4>1. handles[p] > 0 /\ pc' = "crash"
        BY <2>4, <3>1 DEF RetainHeld, Crash
      <4>2. p \in live /\ p # NULL
        BY <4>1 DEF HandlesLive, Addr
      <4>3. globalpList # "this"
        BY <2>1, <3>1, <4>2, FindAChunkFinds DEF Search
      <4> QED
        BY <2>1, <4>1, <4>3
    <3>2. CASE Search(p) # NULL
      <4>1. Retain(p) /\ p \in live /\ globalpList = "this"
        BY <2>1, <2>4, <3>2, SearchFinds DEF RetainHeld
      <4> QED
        BY <2>1, <4>1 DEF CountingStep, RCNext, Program
    <3> QED
      BY <3>1, <3>2
  <2>5. ASSUME NEW p \in Addr, ReleaseHeld(p)
        PROVE  (pc' = "crash" /\ globalpList' # "this") \/ CountingStep
    <3>1. p \in live /\ p # NULL
      BY <2>5 DEF HandlesLive, Addr, ReleaseHeld, RCBase, RCTyped
    <3>2. CASE globalpList = "freed" /\ Crash
      BY <2>1, <3>2 DEF Crash
    <3>3. CASE /\ Search(p) = NULL
               /\ handles' = [handles EXCEPT ![p] = handles[p] - 1]
               /\ UNCHANGED <<vars, data, target, frames, gc>>
      <4>1. globalpList # "this"
        BY <2>1, <3>1, <3>3, FindAChunkFinds DEF Search
      <4>2. SilentRelease(p)
        BY <2>1, <2>5, <3>3 DEF SilentRelease, ReleaseHeld
      <4> QED
        BY <2>1, <3>1, <4>1, <4>2 DEF CountingStep
    <3>4. CASE Search(p) # NULL /\ Release(p)
      <4>1. globalpList = "this"
        BY <2>1, <3>4, SearchFinds
      <4> QED
        BY <2>1, <3>1, <3>4, <4>1 DEF CountingStep, RCNext, Program
    <3> QED
      BY <2>5, <3>2, <3>3, <3>4 DEF ReleaseHeld
  <2>6. CASE IMallocFree
    BY <2>6 DEF IMallocFree
  <2>7. \A p \in Addr : ~ Free(p)
    BY <1>1 DEF Free
  <2> QED
    BY <1>1, <1>4, <2>2, <2>3, <2>4, <2>5, <2>6, <2>7 DEF MProgram, PointerStep
<1>5. CASE MCode /\ Keep /\ Remember
  <2>1. globalpList' = globalpList
    BY <1>5 DEF Keep
  <2>2. CASE GCAllocStep
    <3>1. AllocStep /\ pc \in Allocating
      BY <2>2, PhasesOfSteps DEF GCAllocStep, Allocating
    <3> QED
      BY <2>1, <3>1 DEF CountingStep, RCNext, RCCode
  <2>3. CASE ReleaseStep
    BY <1>3, <2>1, <2>3, PhasesOfSteps DEF CountingStep, RCNext, RCCode
  <2>4. ~ CollectStep
    <3>1. pc = "find" => ~ typed
      BY <1>1, <1>2 DEF AtAlloc, Allocating
    <3> QED
      BY <1>1, <3>1, PhasesOfSteps
  <2>5. ~ FreeStep /\ ~ TeardownNext
    BY <1>1 DEF FreeStep, TeardownNext
  <2> QED
    BY <1>5, <2>2, <2>3, <2>4, <2>5 DEF MCode
<1>6. CASE OtherIMalloc \/ OtherFree
  BY <1>6 DEF OtherIMalloc, OtherFree, CountingStep, gcVars
<1>7. CASE UNCHANGED all
  BY <1>7 DEF all, gcVars, CountingStep
<1>8. ~ TeardownDone /\ ~ Ended
  BY <1>1 DEF TeardownDone, Ended
<1> QED
  BY <1>4, <1>5, <1>6, <1>7, <1>8 DEF MNext

LEMMA CountingBase ==
    ASSUME RCBase, CountingStep
    PROVE  RCBase'
<1>1. CASE RCNext \/ UNCHANGED rcVars
  BY <1>1, RCBaseStep
<1>2. CASE Alloc \/ AllocStep \/ PointerStep
  BY <1>2, RCBaseStep DEF RCNext, Program, RCCode, PointerStep
<1>3. CASE \E p \in live : SilentRelease(p)
  <2>1. PICK p \in live : SilentRelease(p)
    BY <1>3
  <2>2. /\ handles \in [Addr -> 0 .. MaxHandles] /\ live \subseteq Addr
        /\ refcount \in [Addr -> 0 .. UintRange - 1] /\ data \in [Addr -> Ptr]
        /\ target \in [Addr -> Ptr]
    BY DEF RCBase, RCTyped, IInv, Typed
  <2>3. handles' \in [Addr -> 0 .. MaxHandles]
    BY <2>1, <2>2 DEF SilentRelease
  <2> QED
    BY <2>1, <2>2, <2>3, ProgramBase DEF SilentRelease, vars, chunk
<1> QED
  BY <1>1, <1>2, <1>3 DEF CountingStep

----------------------------------------------------------------------------
(* Counts that are too high at worst. *)

\* What the words of C and the variables refer to is in use and counted.
Admitted(C, c) == handles[c] + Cardinality(Pointing(C, c))

AtLeast(C) ==
    \A c \in live :
        /\ refcount[c] >= Admitted(C, c)
        /\ Admitted(C, c) > 0 => mark[c] = 1

\* Exact until another manager takes globalpList away, and never too low then.
LowInv ==
    kind = REFCOUNT =>
        /\ pc \in Allocating \union Releasing => Targeted
        /\ globalpList = "this" /\ pc \in Allocating \union Releasing => ExactInv
        /\ globalpList # "this" /\ pc \in Allocating => AtLeast(Counted)

LEMMA AdmittedTyped ==
    ASSUME RCBase, NEW C, C \subseteq Addr, NEW c \in live
    PROVE  /\ Cardinality(Pointing(C, c)) \in Int /\ Cardinality(Pointing(C, c)) >= 0
           /\ handles[c] \in Int /\ handles[c] >= 0
           /\ refcount[c] \in Int
           /\ c \in Addr
<1>1. Cardinality(Pointing(C, c)) \in 0 .. MemSize
  BY PointingFinite
<1>2. handles[c] \in 0 .. MaxHandles /\ refcount[c] \in 0 .. UintRange - 1 /\ c \in Addr
  BY WordsTyped DEF RCBase, RCTyped
<1> QED
  BY <1>1, <1>2

LEMMA ExactIsAtLeast ==
    ASSUME RCBase, NEW C, C \subseteq Addr, Exact(C)
    PROVE  AtLeast(C)
<1> SUFFICES ASSUME NEW c \in live
             PROVE  /\ refcount[c] >= Admitted(C, c)
                    /\ Admitted(C, c) > 0 => mark[c] = 1
  BY DEF AtLeast
<1>1. /\ refcount[c] = handles[c] + Cardinality(Pointing(C, c))
      /\ mark[c] = 1 <=> refcount[c] > 0
  BY DEF Exact
<1> QED
  BY <1>1, AdmittedTyped DEF Admitted

LEMMA AtLeastMoves ==
    ASSUME UNCHANGED <<live, size, mark, refcount, data, handles>>, NEW C, AtLeast(C)
    PROVE  AtLeast(C)'
  BY DEF AtLeast, Admitted, Pointing, Words

LEMMA SplitAtLeast ==
    ASSUME RCBase, Initialises, HandlesLive, AtLeast(Counted),
           SplitAddress \/ SplitExact \/ SplitInPlace \/ SplitDetach,
           handles' = [handles EXCEPT ![cur] = 1],
           data' = [w \in Addr |-> IF Initialises /\ w \in cur .. cur + bytes - 1
                                  THEN NULL ELSE data[w]],
           UNCHANGED frames
    PROVE  AtLeast(Counted)'
<1>1. PICK a, C : a = cur /\ C = Counted
  OBVIOUS
<1>2. a \in live /\ mark[a] = 0
  BY <1>1 DEF SplitAddress, SplitExact, SplitInPlace, SplitDetach, Fits, RCBase, IInv, Closure
<1>3. C \subseteq Addr /\ AtLeast(C)
  BY <1>1, CountedFinite
<1>4. \A w \in C : data[w] \notin Words(a)
  <2> SUFFICES ASSUME NEW w \in C, data[w] \in Words(a) PROVE FALSE
    OBVIOUS
  <2>1. w \in Pointing(C, a) /\ IsFiniteSet(Pointing(C, a))
    BY <1>3, PointingFinite DEF Pointing
  <2>2. Cardinality(Pointing(C, a)) # 0
    BY <2>1, FS_EmptySet
  <2>3. Admitted(C, a) > 0
    BY <1>2, <1>3, <2>2, AdmittedTyped DEF Admitted
  <2> QED
    BY <1>2, <1>3, <2>3 DEF AtLeast
<1>5. /\ live \subseteq live'
      /\ \A c \in live \ {a} :
           /\ mark'[c] = mark[c] /\ refcount'[c] = refcount[c] /\ handles'[c] = handles[c]
           /\ Pointing(Counted, c)' = Pointing(C, c)
      /\ \A c \in live' : c \notin live \ {a} =>
           /\ mark'[c] = refcount'[c] /\ refcount'[c] = handles'[c]
           /\ refcount'[c] \in {0, 1}
           /\ Cardinality(Pointing(Counted, c)') = 0
  BY <1>1, <1>4, SplitCounts DEF HandlesLive
<1> SUFFICES ASSUME NEW c \in live'
             PROVE  /\ refcount'[c] >= Admitted(Counted, c)'
                    /\ Admitted(Counted, c)' > 0 => mark'[c] = 1
  BY DEF AtLeast
<1>6. CASE c \in live \ {a}
  <2>1. Admitted(Counted, c)' = Admitted(C, c)
    BY <1>5, <1>6 DEF Admitted
  <2> QED
    BY <1>3, <1>5, <1>6, <2>1 DEF AtLeast
<1>7. CASE c \notin live \ {a}
  <2>1. Admitted(Counted, c)' = handles'[c] + 0
    BY <1>5, <1>7 DEF Admitted
  <2> QED
    BY <1>5, <1>7, <2>1
<1> QED
  BY <1>6, <1>7

\* A variable that counts holds a block in use, ...
LEMMA AdmittedUsed ==
    ASSUME RCBase, AtLeast(Counted), NEW c \in live, handles[c] > 0
    PROVE  c \in Used
<1>1. Admitted(Counted, c) > 0
  BY CountedFinite, AdmittedTyped DEF Admitted
<1> QED
  BY <1>1 DEF AtLeast, Used

\* ... and so does a word that counts.
LEMMA AdmittedPointed ==
    ASSUME RCBase, AtLeast(Counted), NEW w \in Counted, NEW c \in live, data[w] \in Words(c)
    PROVE  mark[c] = 1
<1>1. w \in Pointing(Counted, c) /\ IsFiniteSet(Pointing(Counted, c))
  BY CountedFinite, PointingFinite DEF Pointing
<1>2. Cardinality(Pointing(Counted, c)) # 0
  BY <1>1, FS_EmptySet
<1>3. Admitted(Counted, c) > 0
  BY <1>2, CountedFinite, AdmittedTyped DEF Admitted
<1> QED
  BY <1>3 DEF AtLeast

\* What the program knows of its pointers is so, whatever list release sees.
LEMMA LowTargeted ==
    ASSUME RCBase, AtLeast(Counted), Targeted,
           Alloc \/ AllocStep \/ PointerStep \/ (\E p \in live : SilentRelease(p)) \/ UNCHANGED rcVars
    PROVE  Targeted'
<1>1. CASE /\ SplitAddress \/ SplitExact \/ SplitInPlace \/ SplitDetach
           /\ AllocStep
  <2>1. pc = "find" /\ mark[cur] = 0 /\ cur \in live
    BY <1>1 DEF SplitAddress, SplitExact, SplitInPlace, SplitDetach, Fits, RCBase, IInv, Closure
  <2>2. \A d \in Used : \A w \in Words(d) : data[w] \notin Words(cur)
    BY <2>1, AdmittedPointed, CountedIsInPlay DEF InPlay
  <2>3. /\ data' = [w \in Addr |-> IF Initialises /\ w \in cur .. cur + bytes - 1
                                  THEN NULL ELSE data[w]]
        /\ target' = [w \in Addr |-> IF w \in cur .. cur + bytes - 1 THEN NULL ELSE target[w]]
    BY <1>1, <2>1 DEF AllocStep, SplitAddress, SplitExact, SplitInPlace, SplitDetach, Fits,
                      FindNext, FindFail, Insert, InsertFront, InsertBefore, InsertLast, InsertWalk
  <2> QED
    BY <1>1, <2>2, <2>3, SplitTargeted
<1>2. CASE Alloc \/ ((FindNext \/ FindFail \/ Insert) /\ UNCHANGED <<program, frames>>)
  BY <1>2, TargetedKept DEF Alloc, AllocInt, FindNext, FindFail, Insert, InsertFront,
                            InsertBefore, InsertLast, InsertWalk, chunk, program
<1>3. CASE PointerStep
  <2>0. PICK d \in live : \E w \in Words(d) :
            (\E c \in live : \E p \in Words(c) : StorePointer(d, w, c, p)) \/ TakePointer(d, w)
    BY <1>3 DEF PointerStep
  <2>1. PICK w \in Words(d) :
            (\E c \in live : \E p \in Words(c) : StorePointer(d, w, c, p)) \/ TakePointer(d, w)
    BY <2>0
  <2>2. d \in Used
    BY <2>1, AdmittedUsed DEF StorePointer, TakePointer
  <2> QED
    BY <2>1, <2>2, PointerTargeted
<1>4. CASE (\E p \in live : SilentRelease(p)) \/ UNCHANGED rcVars
  BY <1>4, TargetedKept DEF SilentRelease, rcVars, vars, chunk, program
<1> QED
  BY <1>1, <1>2, <1>3, <1>4 DEF AllocStep

LEMMA PointerAtLeast ==
    ASSUME RCBase, AtLeast(Counted), Targeted, PointerStep
    PROVE  AtLeast(Counted)'
<1>1. PICK C : C = Counted
  OBVIOUS
<1>2. C \subseteq Addr /\ AtLeast(C)
  BY <1>1, CountedFinite
<1>0. PICK d \in live : \E w \in Words(d) :
          (\E c \in live : \E p \in Words(c) : StorePointer(d, w, c, p)) \/ TakePointer(d, w)
  BY DEF PointerStep
<1>3. PICK w \in Words(d) :
          (\E c \in live : \E p \in Words(c) : StorePointer(d, w, c, p)) \/ TakePointer(d, w)
  BY <1>0
<1>4. d \in Used
  BY <1>3, AdmittedUsed DEF StorePointer, TakePointer
<1>5. PICK c \in live : (\E p \in Words(c) : StorePointer(d, w, c, p)) \/ Takes(d, w, c)
  BY <1>3, <1>4, TakesTarget
<1>7. /\ UNCHANGED <<live, mark, refcount>>
      /\ \A a \in live : handles'[a] + Cardinality(Pointing(Counted, a)')
                             = handles[a] + Cardinality(Pointing(C, a))
  BY <1>1, <1>4, <1>5, PointerMoves
<1>8. \A a \in live : Admitted(Counted, a)' = Admitted(C, a)
  BY <1>7 DEF Admitted
<1> QED
  BY <1>2, <1>7, <1>8 DEF AtLeast

LEMMA SilentAtLeast ==
    ASSUME RCBase, AtLeast(Counted), NEW p \in live, SilentRelease(p)
    PROVE  AtLeast(Counted)'
<1>1. PICK C : C = Counted
  OBVIOUS
<1>2. C \subseteq Addr /\ AtLeast(C)
  BY <1>1, CountedFinite
<1>3. UNCHANGED <<live, size, mark, refcount, data, frames>>
      /\ handles' = [handles EXCEPT ![p] = handles[p] - 1]
  BY DEF SilentRelease, vars, chunk
<1>4. Counted' = C
  BY <1>1, <1>3, CountedKept
<1> SUFFICES ASSUME NEW c \in live
             PROVE  /\ refcount[c] >= Admitted(Counted, c)'
                    /\ Admitted(Counted, c)' > 0 => mark[c] = 1
  BY <1>3 DEF AtLeast
<1>5. Pointing(Counted, c)' = Pointing(C, c)
  BY <1>3, <1>4 DEF Pointing, Words
<1>6. handles'[c] \in Int /\ handles'[c] <= handles[c]
  <2>1. handles \in [Addr -> 0 .. MaxHandles] /\ c \in Addr /\ handles[c] \in Int
    BY WordsTyped DEF RCBase, RCTyped
  <2>2. handles'[c] = IF c = p THEN handles[c] - 1 ELSE handles[c]
    BY <1>3, <2>1
  <2> QED
    BY <2>1, <2>2
<1>7. Admitted(Counted, c)' \in Int /\ Admitted(Counted, c)' <= Admitted(C, c)
      /\ Admitted(C, c) \in Int /\ refcount[c] \in Int
  BY <1>2, <1>5, <1>6, AdmittedTyped DEF Admitted
<1> QED
  BY <1>2, <1>7 DEF AtLeast

LEMMA AllocAtLeast ==
    ASSUME RCBase, Initialises, HandlesLive, AtLeast(Counted), Alloc \/ AllocStep
    PROVE  AtLeast(Counted)'
<1>1. CASE UNCHANGED <<live, size, mark, refcount, data, handles, frames>>
  <2>1. PICK C : C = Counted
    OBVIOUS
  <2>2. Counted' = C
    BY <1>1, <2>1, CountedKept
  <2> QED
    BY <1>1, <2>1, <2>2, AtLeastMoves DEF AtLeast, Admitted
<1>2. CASE /\ SplitAddress \/ SplitExact \/ SplitInPlace \/ SplitDetach
           /\ handles' = [handles EXCEPT ![cur] = 1]
           /\ data' = [w \in Addr |-> IF Initialises /\ w \in cur .. cur + bytes - 1
                                      THEN NULL ELSE data[w]]
           /\ UNCHANGED frames
  BY <1>2, SplitAtLeast
<1> QED
  BY <1>1, <1>2 DEF Alloc, AllocInt, AllocStep, FindNext, FindFail, Insert, InsertFront,
                    InsertBefore, InsertLast, InsertWalk, chunk, program

LEMMA LowInvInit == MInit => LowInv
  BY ExactInit, TargetedInit DEF MInit, GCInit, LowInv

LEMMA LowInvStep ==
    ASSUME Initialises, MBase, AnchorInv, LowInv, [MNext]_all
    PROVE  LowInv'
<1>1. kind' = kind
  BY DEF MNext, Keep, TeardownDone, OtherIMalloc, OtherFree, Ended, all
<1>2. CASE kind # REFCOUNT
  BY <1>1, <1>2 DEF LowInv
<1>3. CASE kind = REFCOUNT /\ pc \notin Allocating \union Releasing
  <2>1. pc' \notin Allocating \union Releasing
    <3>1. pc \in {"teardown", "gone", "crash"}
      BY <1>3 DEF MBase, AtAlloc, AtRelease, AtCollect, AtFree, AtEnd, Collects
    <3>2. ~ MProgram /\ (MCode => TeardownNext) /\ ~ OtherIMalloc /\ ~ OtherFree
      BY <3>1, PhasesOfSteps DEF MCode, OtherIMalloc, OtherFree,
                                 Freeing, Releasing, Sweeping, Collecting
    <3>3. pc' \in {"teardown", "gone", "crash"}
      BY <3>1, <3>2 DEF MNext, TeardownNext, TeardownDone, Ended, all, gcVars, rcVars, vars, call
    <3> QED
      BY <3>3 DEF Allocating, Releasing
  <2> QED
    BY <2>1 DEF LowInv
<1>4. CASE kind = REFCOUNT /\ pc \in Allocating \union Releasing
  <2>1. RCBase /\ Targeted /\ (pc \in Releasing => globalpList = "this")
    BY <1>4 DEF LowInv, MBase, AtAlloc, AtRelease, AtCollect, AtFree, AtEnd, Allocating,
                Releasing, Sweeping, Collecting, Freeing, Collects
  <2>0. HandlesLive
    <3>1. Anchored
      BY <1>4 DEF AnchorInv, Counts, Collects
    <3>2. handles \in [Addr -> 0 .. MaxHandles]
      BY <2>1 DEF RCBase, RCTyped
    <3> QED
      BY <3>1, <3>2, AnchoredHandles
  <2>2. CASE pc' \in {"teardown", "crash"}
    BY <2>2 DEF LowInv, Allocating, Releasing
  <2>3. CASE globalpList = "this" /\ globalpList' = "this" /\ [RCNext]_rcVars
    <3>1. ExactInv' /\ Targeted'
      BY <1>4, <2>1, <2>3, ExactStep, TargetedStep DEF LowInv
    <3> QED
      BY <2>3, <3>1 DEF LowInv
  <2>4. CASE globalpList = "this" /\ globalpList' # "this" /\ pc = "client" /\ UNCHANGED rcVars
    <3>1. PICK C : C = Counted
      OBVIOUS
    <3>2. AtLeast(C)
      BY <1>4, <2>1, <2>4, <3>1, ExactIsAtLeast, CountedFinite DEF LowInv, ExactInv
    <3>3. AtLeast(C)' /\ Counted' = C
      BY <2>4, <3>1, <3>2, AtLeastMoves, CountedKept DEF rcVars, vars, chunk, program
    <3>4. AtLeast(Counted)' /\ Targeted'
      BY <2>1, <2>4, <3>3, TargetedKept DEF AtLeast, Admitted, rcVars, vars, chunk, program
    <3> QED
      BY <2>4, <3>4 DEF LowInv
  <2>5. CASE /\ globalpList # "this" /\ globalpList' # "this"
             /\ \/ Alloc \/ AllocStep \/ PointerStep \/ \E p \in live : SilentRelease(p)
                \/ UNCHANGED rcVars
    <3>1. AtLeast(Counted)
      BY <1>4, <2>1, <2>5 DEF LowInv
    <3>2. AtLeast(Counted)'
      <4>1. CASE UNCHANGED rcVars
        <5>1. PICK C : C = Counted
          OBVIOUS
        <5>2. AtLeast(C)' /\ Counted' = C
          BY <3>1, <4>1, <5>1, AtLeastMoves, CountedKept DEF rcVars, vars, chunk, program
        <5> QED
          BY <5>2 DEF AtLeast, Admitted
      <4> QED
        BY <2>0, <2>1, <2>5, <3>1, <4>1, AllocAtLeast, PointerAtLeast, SilentAtLeast
    <3>3. Targeted'
      BY <2>1, <2>5, <3>1, LowTargeted
    <3> QED
      BY <2>5, <3>2, <3>3 DEF LowInv
  <2> QED
    BY <1>4, <2>0, <2>1, <2>2, <2>3, <2>4, <2>5, CountingSteps DEF CountingStep
<1> QED
  BY <1>2, <1>3, <1>4

\* The managers created later can make the counts of a program that clears its
\* blocks too high, but never too low: what is referred to is in use.
THEOREM NeverLowInvariant ==
    ASSUME Initialises
    PROVE  MSpec => []CountsNeverLow
<1>1. MBase /\ AnchorInv /\ LowInv /\ [MNext]_all => MBase' /\ AnchorInv' /\ LowInv'
  BY MBaseStep, AnchorInvStep, LowInvStep
<1>2. MBase /\ LowInv => CountsNeverLow
  <2> SUFFICES ASSUME MBase, LowInv, pc = "client", kind = REFCOUNT, NEW c \in live
               PROVE  /\ refcount[c] >= References(c)
                      /\ References(c) > 0 => mark[c] = 1
    BY DEF CountsNeverLow
  <2>1. RCBase
    BY DEF MBase, AtAlloc, AtRelease, AtCollect, AtFree, AtEnd, Releasing, Sweeping, Collecting,
           Freeing
  <2>2. PICK C : C = Counted
    OBVIOUS
  <2>3. AtLeast(C)
    BY <2>1, <2>2, ExactIsAtLeast, CountedFinite DEF LowInv, ExactInv, Allocating
  <2>4. References(c) = Admitted(C, c)
    BY <2>2 DEF References, Admitted, Pointing
  <2> QED
    BY <2>3, <2>4 DEF AtLeast
<1> QED
  BY <1>1, <1>2, MBaseInit, AnchorInvInit, LowInvInit, PTL DEF MSpec
=============================================================================
