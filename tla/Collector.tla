----------------------------- MODULE Collector ------------------------------
(***************************************************************************)
(* Mark and sweep (src/kod/collect.c, with the scans of rootset.c) and     *)
(* gc.alloc (allocChar), which collects and tries again when nothing fits. *)
(* The program is that of RefCount: handles counts its variables, which    *)
(* are words of the stack, and data is what it has stored in its blocks.   *)
(* It may drop a variable at any time, without a release.                  *)
(*                                                                         *)
(* Every pass of a loop is a step.  All the walks of the list but that of  *)
(* memConcat use L->current (here cur); traverseChunk and findChunk call   *)
(* each other, and the calls of traverseChunk are the stack visits.        *)
(***************************************************************************)
EXTENDS RefCount

CONSTANTS Leftovers,    \* addresses that dead words of the stack may still hold
          Foreign,      \* an address behind the arena but in the collector's space
          WindowStart   \* the word of the arena at which that space starts

ASSUME CollectorAssumption ==
    /\ Leftovers \subseteq Addr
    /\ Foreign \notin Int \union {NULL}
    /\ WindowStart \in Nat

VARIABLES count,        \* collect's count: free chunks before, less those after
          visits,       \* the calls of traverseChunk, outermost first
          typed,        \* is the alloc in progress gc.alloc?
          before        \* auxiliary: the chunks that were in use when collect began

gc     == <<count, visits, typed, before>>
gcVars == <<rcVars, gc>>

Idle == count = 0 /\ visits = <<>> /\ typed = FALSE /\ before = {}

GCInit == RCInit /\ Idle

----------------------------------------------------------------------------
(* The program. *)

GCAlloc == Alloc /\ UNCHANGED gc

\* gc.alloc: what the format string adds up to is one of the sizes.
AllocChar == Alloc /\ typed' = TRUE /\ UNCHANGED <<count, visits, before>>

Drop(p) ==
    /\ pc = "client" /\ handles[p] > 0
    /\ handles' = [handles EXCEPT ![p] = @ - 1]
    /\ UNCHANGED <<vars, data, target, frames, gc>>

\* A word that is no pointer into the arena, but looks like one to collect.
StoreForeign(d, w) ==
    /\ pc = "client" /\ handles[d] > 0 /\ w \in Words(d) /\ data[w] = NULL
    /\ data' = [data EXCEPT ![w] = Foreign]
    /\ UNCHANGED <<vars, handles, target, frames, gc>>

----------------------------------------------------------------------------
(* alloc, up to the point where allocChar finds that nothing fits. *)

Starved == typed /\ pc = "find" /\ cur = NULL

GCAllocStep ==
    /\ ~ Starved
    /\ AllocStep
    /\ typed' = (typed /\ pc' # "client")
    /\ UNCHANGED <<count, visits, before>>

----------------------------------------------------------------------------
(* collect: clear all marks, ... *)

Begin ==
    /\ pc' = "markZero" /\ cur' = first /\ before' = Used
    /\ UNCHANGED <<list, chunk, bytes, object, todo, program, frames, count, visits, typed>>

Collect == pc = "client" /\ Begin

CollectStarved == Starved /\ Begin

\* Mutant: a mark is not cleared.
Kept(c) == mark[c]

\* The mark that markZero leaves on c.
Zeroed(c) == 0

MarkZero ==
    /\ pc = "markZero" /\ cur # NULL
    /\ count' = count + (1 - mark[cur])
    /\ mark' = [mark EXCEPT ![cur] = Zeroed(cur)]
    /\ cur' = next[cur]
    /\ UNCHANGED <<list, live, next, prev, size, refcount, pc, bytes, object, todo,
                   program, frames, visits, typed, before>>

\* The next of collect's loops over the list starts.
Turn(from, to) ==
    /\ pc = from /\ cur = NULL
    /\ pc' = to /\ cur' = first
    /\ UNCHANGED <<list, chunk, bytes, object, todo, program, frames, gc>>

MarkZeroDone == Turn("markZero", "markStack")

----------------------------------------------------------------------------
(* ... set those of the chunks that a word of the stack points into, ... *)

\* Mutant: a pointer to the start of a chunk is not seen.
InsideOf(c) == Words(c) \ {c}

\* The address space of c: first to last byte.
SpaceOf(c) == Words(c)

\* What traverseStack leaves as the mark of c.  A live variable is always
\* found; what else lies on the stack is anybody's guess.
StackMarks(c) ==
    IF \E p \in SpaceOf(c) : handles[p] > 0 THEN {1}
    ELSE IF Leftovers \intersect SpaceOf(c) # {} THEN {0, 1} ELSE {0}

MarkStack ==
    /\ pc = "markStack" /\ cur # NULL
    /\ \E m \in StackMarks(cur) :
          mark' = IF m = 1 THEN [mark EXCEPT ![cur] = 1] ELSE mark
    /\ cur' = next[cur]
    /\ UNCHANGED <<list, live, next, prev, size, refcount, pc, bytes, object, todo,
                   program, frames, gc>>

MarkStackDone == Turn("markStack", "trace")

----------------------------------------------------------------------------
(* ... traverse the marked chunks, ... *)

Visit == visits[Len(visits)]

\* Mutant: the space starts with the arena.
InWindowFromStart(w) == data[w] # NULL

\* Does the word look like a pointer into the arena?  The space starts at
\* L + sizeof(list) lists, behind the start of the arena, and ends behind its end.
InWindow(w) == data[w] = Foreign \/ data[w] \in WindowStart .. MemSize - 1

TraceMarked ==
    /\ pc = "trace" /\ cur # NULL /\ mark[cur] = 1
    /\ visits' = <<[chunk |-> cur, word |-> cur]>>
    /\ pc' = "traverse"
    /\ UNCHANGED <<list, chunk, cur, bytes, object, todo, program, frames, count, typed, before>>

TraceNext ==
    /\ pc = "trace" /\ cur # NULL /\ mark[cur] # 1
    /\ cur' = next[cur]
    /\ UNCHANGED <<list, chunk, pc, bytes, object, todo, program, frames, gc>>

TraceDone == Turn("trace", "sweep")

\* traverseChunk hands findChunk the word's own address, not what it holds.
TraverseFind ==
    /\ pc = "traverse" /\ Visit.word \in Words(Visit.chunk)
    /\ InWindow(Visit.word)
    /\ pc' = "findChunk" /\ cur' = first
    /\ UNCHANGED <<list, chunk, bytes, object, todo, program, frames, gc>>

TraverseSkip ==
    /\ pc = "traverse" /\ Visit.word \in Words(Visit.chunk)
    /\ ~ InWindow(Visit.word)
    /\ visits' = [visits EXCEPT ![Len(visits)].word = NextWord(@)]
    /\ UNCHANGED <<vars, program, frames, count, typed, before>>

\* The end of a findChunk whose caller is the innermost of vs.
FindReturn(vs) ==
    /\ visits' = [vs EXCEPT ![Len(vs)].word = NextWord(@)]
    /\ pc' = "traverse" /\ cur' = first

\* Back to the findChunk that made the call, or to the loop of collect, which
\* goes on from where the iterator was left.
TraverseDone ==
    LET outer == SubSeq(visits, 1, Len(visits) - 1) IN
    /\ pc = "traverse" /\ Visit.word \notin Words(Visit.chunk)
    /\ IF outer = <<>>
       THEN pc' = "trace" /\ cur' = next[cur] /\ visits' = outer
       ELSE FindReturn(outer)
    /\ UNCHANGED <<list, chunk, bytes, object, todo, program, frames, count, typed, before>>

\* findChunk's address space of c ends on the first byte of the next chunk.
Encloses(c, p) == p \in c .. c + size[c]

FindChunkNext ==
    /\ pc = "findChunk" /\ cur # NULL
    /\ ~ Encloses(cur, Visit.word)
    /\ cur' = next[cur]
    /\ UNCHANGED <<list, chunk, pc, bytes, object, todo, program, frames, gc>>

FindChunkMark ==
    /\ pc = "findChunk" /\ cur # NULL
    /\ Encloses(cur, Visit.word) /\ cur # Visit.chunk
    /\ mark' = [mark EXCEPT ![cur] = 1]
    /\ visits' = Append(visits, [chunk |-> cur, word |-> cur])
    /\ pc' = "traverse"
    /\ UNCHANGED <<list, live, next, prev, size, refcount, cur, bytes, object, todo,
                   program, frames, count, typed, before>>

FindChunkDone ==
    /\ pc = "findChunk"
    /\ cur = NULL \/ (Encloses(cur, Visit.word) /\ cur = Visit.chunk)
    /\ FindReturn(visits)
    /\ UNCHANGED <<list, chunk, bytes, object, todo, program, frames, count, typed, before>>

----------------------------------------------------------------------------
(* ... count those left unmarked, and merge them in address order. *)

\* Mutant: the free chunks are added, not taken off.
PlusFree(n, c) == n + (1 - mark[c])

LessFree(n, c) == n - (1 - mark[c])

Sweep ==
    /\ pc = "sweep" /\ cur # NULL
    /\ count' = LessFree(count, cur)
    /\ cur' = next[cur]
    /\ UNCHANGED <<list, chunk, pc, bytes, object, todo, program, frames, visits, typed, before>>

\* Mutant: the merge is left out.
NoMerge == "collected"

\* Mutant: chunks that follow each other on the list are merged in any order.
MergeAnyOrder == "concat"

\* What follows the count.
AfterSweep == IF sort = ADDRESS THEN "concat" ELSE "collected"

SweepDone == Turn("sweep", AfterSweep)

GCConcat == (ConcatMerge \/ ConcatNext) /\ UNCHANGED <<program, frames, gc>>

\* Mutant: a collection that has gained nothing is worth a retry.
NotLost(n) == n <= 0

\* Mutant: one chunk is not enough to be worth a retry.
GainedTwo(n) == n < -1

\* The result of collect: is the count below zero?
Gained(n) == n < 0

Returning == pc = "collected" \/ (pc = "concat" /\ (cur = NULL \/ next[cur] = NULL))

\* allocChar starts over if it was the caller and something was freed.
CollectDone ==
    /\ Returning
    /\ IF typed /\ Gained(count)
       THEN pc' = "find" /\ cur' = first /\ UNCHANGED <<bytes, object, todo, typed>>
       ELSE Return /\ typed' = FALSE
    /\ count' = 0 /\ before' = {}
    /\ UNCHANGED <<list, chunk, program, frames, visits>>

----------------------------------------------------------------------------
GCProgram ==
    \/ GCAlloc \/ AllocChar \/ Collect
    \/ \E p \in Addr : Drop(p)
    \/ \E d \in live : \E w \in Words(d) :
          /\ (\E c \in live : \E p \in Words(c) : StorePointer(d, w, c, p)) \/ TakePointer(d, w)
          /\ UNCHANGED gc
    \/ \E d \in live : \E w \in Words(d) : StoreForeign(d, w)

CollectStep ==
    \/ CollectStarved \/ MarkZero \/ MarkZeroDone \/ MarkStack \/ MarkStackDone
    \/ TraceMarked \/ TraceNext \/ TraceDone
    \/ TraverseFind \/ TraverseSkip \/ TraverseDone
    \/ FindChunkNext \/ FindChunkMark \/ FindChunkDone
    \/ Sweep \/ SweepDone \/ GCConcat \/ CollectDone

GCCode == GCAllocStep \/ CollectStep

GCNext == GCProgram \/ GCCode

GCSpec     == GCInit /\ [][GCNext]_gcVars
GCFairSpec == GCSpec /\ WF_gcVars(GCCode)

----------------------------------------------------------------------------
Marked   == { c \in live : mark[c] = 1 }
Freed    == before \ Marked         \* after the marking: the chunks it has freed
Revived  == Marked \ before         \* the free chunks that it has marked as used

GCTypeOK ==
    /\ first \in Ptr /\ live \subseteq Addr
    /\ mark \in [Addr -> {0, 1}]
    /\ cur \in Ptr
    /\ data \in [Addr -> Ptr \union {Foreign}]
    /\ count \in -MemSize .. MemSize
    /\ visits \in Seq([chunk : live, word : 0 .. MemSize])
    /\ before \subseteq Addr

\* collect frees nothing that a variable of the program refers to: once the
\* stack is scanned, such a chunk stays marked through all that follows.
RootsKept ==
    pc \in {"trace", "traverse", "findChunk", "sweep", "collected"} =>
        \A c \in live : (\E p \in Words(c) : handles[p] > 0) => mark[c] = 1

\* What the content of a word must be for collect to look up a chunk for it:
\* its space leaves out the start of the arena and takes in what lies behind.
Window == (Addr \ 0 .. WindowStart - 1) \union {Foreign}

\* A chunk survives only for a reason: a word of the stack in its space.  The
\* traversal of the marked chunks saves none: findChunk marks a chunk only for
\* a word of one further down the list, and then the loop of collect, which
\* that has sent back, never comes to an end.
MarksExplained ==
    pc = "sweep" => \A c \in Marked : \E p \in Words(c) : handles[p] > 0 \/ p \in Leftovers

\* collect never reports a success in vain: allocChar tries again only when
\* there are more free chunks than before.  When no chunk was brought back to
\* life it reports every success; when some were, see ReportsFreed.
ReportsNetGain ==
    pc = "sweep" /\ cur = NULL =>
        /\ Gained(count) => Cardinality(Freed) > Cardinality(Revived)
        /\ Freed # {} /\ Revived = {} => Gained(count)

\* collect.c says that collect returns 1 if at least one chunk was freed.
ReportsFreed == pc = "sweep" /\ cur = NULL => (Freed # {} => Gained(count))

\* When gc.alloc gives up after its collection, no free chunk is large
\* enough, unless the collection brought a chunk back to life.
GivesUpWhenFull ==
    Returning /\ typed /\ ~ Gained(count) =>
        Revived # {} \/ \A c \in live : ~ Fits(c, bytes)

\* A marked chunk that is not the first on the list holds what collect takes
\* for a pointer while it traverses the marked chunks: findChunk leaves
\* the iterator at the first chunk, and the loop of collect goes on from there.
Diverted ==
    /\ pc \in {"trace", "traverse", "findChunk"}
    /\ \E c \in Marked \ {first} : \E w \in Words(c) : data[w] \in Window

\* A call fails to return only because of that one thing.
LoopsOnlyThere == []<>(pc = "client") \/ <>[]Diverted

\* The collections that gc.alloc has left: it tries again only after one that
\* has left fewer chunks in use than there were.
Retries ==
    CASE ~ typed               -> 0
      [] typed /\ pc = "find"  -> Cardinality(Used)
      [] typed /\ pc # "find"  -> Cardinality(before)

\* The loops over the list that a call has left before it returns or tries again.
LoopsLeft ==
    CASE pc = "find"                                -> 6
      [] pc = "markZero"                            -> 5
      [] pc = "markStack"                           -> 4
      [] pc \in {"trace", "traverse", "findChunk"}  -> 3
      [] pc = "sweep"                               -> 2
      [] pc \in {"insert", "concat", "collected"}   -> 1
      [] OTHER                                      -> 0

\* The turns that traverseChunk has left for the words of its chunk.
WordTurns ==
    LET words == Visit.chunk + size[Visit.chunk] - Visit.word IN
    CASE pc = "trace"     -> 2 * MemSize + 2
      [] pc = "traverse"  -> 2 * words + 1
      [] pc = "findChunk" -> 2 * words
      [] OTHER            -> 0

CollectTurns ==
    ((Retries * 7 + LoopsLeft) * ((MemSize + 4) * (MemSize + 2)) + PassesLeft)
        * (2 * MemSize + 3) + WordTurns

\* Wherever it is not diverted so, every step of alloc and collect brings the
\* call nearer to its return, retries of gc.alloc included: each has fewer
\* chunks in use to begin with, whatever the stack makes collect believe.
CollectRunsDown ==
    [][GCCode /\ ~ Diverted => CollectTurns' < CollectTurns]_gcVars

\* collect.c says that traverseChunk looks up the chunk that a word of a
\* marked chunk points to, if it looks like a pointer: after the marking,
\* those chunks are marked too.
ReferencedKept ==
    pc = "sweep" => \A c \in Marked, d \in live :
        (\E w \in Words(c) : data[w] \in Window \intersect Words(d)) => d \in Marked

\* collect.c says that collect returns 1 or 0.
CollectReturns == (pc = "markZero") ~> (pc \in {"client", "find"})
=============================================================================
