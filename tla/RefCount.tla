------------------------------ MODULE RefCount ------------------------------
(***************************************************************************)
(* Reference counting (src/kod/refcount.c) over the allocator of           *)
(* MemoryAllocator, under a program that keeps the books: handles[c] is    *)
(* the number of its own variables that refer to chunk c, and a pointer    *)
(* stored in a chunk it holds is one more reference, which release is to   *)
(* give up when it frees that chunk.                                       *)
(*                                                                         *)
(* release scans the words of the chunk it frees; each goes to chunkMem,   *)
(* which walks the list and calls release again on the chunk the word      *)
(* points into.  The recursion is the stack frames.  Both walks use the    *)
(* one iterator of the list, L->current (here cur), so the inner calls     *)
(* move it under the outer loops.                                          *)
(***************************************************************************)
EXTENDS MemoryAllocator

CONSTANTS AllocSizes,   \* the sizes the program allocates
          MaxHandles,   \* bound: variables of the program that refer to one chunk
          UintRange,    \* the values of an unsigned int are 0 .. UintRange - 1
          Initialises   \* does the program clear a block before it first uses it?

ASSUME RefCountAssumption ==
    /\ AllocSizes \subseteq 1 .. MemSize
    /\ MaxHandles \in Nat \ {0} /\ UintRange \in Nat
    /\ UintRange > MaxHandles + MemSize     \* no count the program can reach wraps
    /\ Initialises \in BOOLEAN

VARIABLES data,         \* the words of the arena: a pointer into it, or NULL for other data
          handles,      \* references the program's variables hold, by chunk
          target,       \* the block that the program knows a word to refer to, or NULL
          frames        \* the calls of release that scan a chunk, outermost first

program == <<data, handles, target>>
rcVars  == <<vars, program, frames>>

Words(c) == c .. c + size[c] - 1
Top      == frames[Len(frames)]
Pop      == SubSeq(frames, 1, Len(frames) - 1)

Unused ==
    /\ data = [w \in Addr |-> NULL]
    /\ handles = [c \in Addr |-> 0]
    /\ target = [w \in Addr |-> NULL]
    /\ frames = <<>>

RCInit == Init /\ Unused

----------------------------------------------------------------------------
(* The program: alloc, and what it does with the block it is given. *)

Alloc == \E b \in AllocSizes : AllocInt(b) /\ UNCHANGED <<program, frames>>

\* The steps of alloc; the one that cuts chunk cur gives the program a handle
\* on it.  A program that initialises its blocks clears it before anything else.
AllocStep ==
    \/ /\ SplitAddress \/ SplitExact \/ SplitInPlace \/ SplitDetach
       /\ handles' = [handles EXCEPT ![cur] = 1]
       /\ data' = [w \in Addr |-> IF Initialises /\ w \in cur .. cur + bytes - 1
                                  THEN NULL ELSE data[w]]
       /\ target' = [w \in Addr |-> IF w \in cur .. cur + bytes - 1 THEN NULL ELSE target[w]]
       /\ UNCHANGED frames
    \/ /\ FindNext \/ FindFail \/ Insert
       /\ UNCHANGED <<program, frames>>

\* The program moves a reference it holds into a word of a chunk it holds, ...
StorePointer(d, w, c, p) ==
    /\ pc = "client"
    /\ handles[d] > 0 /\ w \in Words(d) /\ data[w] = NULL
    /\ handles[c] > 0 /\ p \in Words(c)
    /\ d = c => handles[c] > 1
    /\ data' = [data EXCEPT ![w] = p]
    /\ target' = [target EXCEPT ![w] = c]
    /\ handles' = [handles EXCEPT ![c] = @ - 1]
    /\ UNCHANGED <<vars, frames>>

\* ... or takes one that it has stored out of it again, whatever the manager
\* has done with the block meanwhile: the variable gets the pointer it was.
TakePointer(d, w) ==
    LET c == target[w] IN
    /\ pc = "client"
    /\ handles[d] > 0 /\ w \in Words(d)
    /\ c # NULL /\ handles[c] < MaxHandles
    /\ data' = [data EXCEPT ![w] = NULL]
    /\ target' = [target EXCEPT ![w] = NULL]
    /\ handles' = [handles EXCEPT ![c] = @ + 1]
    /\ UNCHANGED <<vars, frames>>

----------------------------------------------------------------------------
(* retain and release. *)

\* findAChunk: the chunk on the list whose data pointer is p, or NULL.
FindAChunk(p) == IF \E k \in 0 .. MemSize : Walk[k] = p THEN p ELSE NULL

Retain(p) ==
    LET c == FindAChunk(p) IN
    /\ pc = "client"
    /\ handles[p] \in 1 .. MaxHandles - 1
    /\ refcount' = [refcount EXCEPT ![c] = (refcount[c] + 1) % UintRange]
    /\ handles' = [handles EXCEPT ![p] = @ + 1]
    /\ UNCHANGED <<list, live, next, prev, size, mark, call, data, target, frames>>

\* The return from a call of release, to the chunkMem that made it or to the program.
Resume(outer) == pc' = IF outer = <<>> THEN "client" ELSE "resume"

\* The body of release up to its loop.  findAChunk leaves the iterator at c.
ReleaseChunk(p) ==
    LET c == FindAChunk(p)
        count == (refcount[c] - 1) % UintRange
    IN  /\ IF c = NULL THEN UNCHANGED <<refcount, mark, frames>> /\ Resume(frames)
           ELSE /\ refcount' = [refcount EXCEPT ![c] = count]
                /\ IF count = 0
                   THEN /\ mark' = [mark EXCEPT ![c] = 0]
                        /\ frames' = Append(frames, [chunk |-> c, word |-> c])
                        /\ pc' = "scan"
                   ELSE UNCHANGED <<mark, frames>> /\ Resume(frames)
        /\ cur' = c
        /\ UNCHANGED <<list, live, next, prev, size, bytes, object, todo, data, target>>

Release(p) ==
    /\ pc = "client"
    /\ handles[p] > 0
    /\ handles' = [handles EXCEPT ![p] = @ - 1]
    /\ ReleaseChunk(p)

\* The loop of release: hand the next word of the chunk to chunkMem, ...
ScanWord ==
    /\ pc = "scan" /\ Top.word \in Words(Top.chunk)
    /\ pc' = "chunkMem" /\ cur' = first
    /\ UNCHANGED <<list, chunk, bytes, object, todo, program, frames>>

\* ... or return, all words done.
ScanDone ==
    /\ pc = "scan" /\ Top.word \notin Words(Top.chunk)
    /\ frames' = Pop
    /\ Resume(Pop)
    /\ UNCHANGED <<list, chunk, cur, bytes, object, todo, program>>

\* Mutant: the word after the chunk is taken for one of its own.
HitEnd == mark[cur] # 0 /\ data[Top.word] \in cur .. cur + size[cur]

\* chunkMem: is the word a pointer into the used chunk at the iterator?
Hit == mark[cur] # 0 /\ data[Top.word] \in Words(cur)

MemRelease ==
    /\ pc = "chunkMem" /\ cur # NULL
    /\ Hit
    /\ ReleaseChunk(cur)
    /\ UNCHANGED handles

\* The walk goes on from where the iterator was left, by release or not.
MemNext ==
    /\ \/ pc = "chunkMem" /\ cur # NULL /\ ~ Hit
       \/ pc = "resume"
    /\ pc' = "chunkMem" /\ cur' = next[cur]
    /\ UNCHANGED <<list, chunk, bytes, object, todo, program, frames>>

\* Mutant: the pointer to the words is advanced by two.
NextWordButOne(w) == w + 2

\* Mutant: the pointer to the words is not advanced.
SameWord(w) == w

NextWord(w) == w + 1

\* Mutant: the iterator is left at the end of the list.
MemDoneAtEnd ==
    /\ pc = "chunkMem" /\ cur = NULL
    /\ pc' = "scan"
    /\ frames' = [frames EXCEPT ![Len(frames)].word = NextWord(@)]
    /\ UNCHANGED <<list, chunk, cur, bytes, object, todo, program>>

MemDone ==
    /\ pc = "chunkMem" /\ cur = NULL
    /\ pc' = "scan" /\ cur' = first
    /\ frames' = [frames EXCEPT ![Len(frames)].word = NextWord(@)]
    /\ UNCHANGED <<list, chunk, bytes, object, todo, program>>

----------------------------------------------------------------------------
Program ==
    \/ Alloc
    \/ \E p \in live : Retain(p) \/ Release(p)
    \/ \E d \in live : \E w \in Words(d) :
          (\E c \in live : \E p \in Words(c) : StorePointer(d, w, c, p)) \/ TakePointer(d, w)

ReleaseStep == ScanWord \/ ScanDone \/ MemRelease \/ MemNext \/ MemDone

RCCode == AllocStep \/ ReleaseStep

RCNext == Program \/ RCCode

RCSpec     == RCInit /\ [][RCNext]_rcVars
RCFairSpec == RCSpec /\ WF_rcVars(RCCode)

----------------------------------------------------------------------------
\* The words that the i-th call of release has not come to yet.  Of a chunk
\* other than the innermost, the word at hand has been given up.
Remaining(i) ==
    frames[i].word + (IF i < Len(frames) THEN 1 ELSE 0)
        .. frames[i].chunk + size[frames[i].chunk] - 1

\* The words that hold a reference: those of the chunks in use, and those of
\* the chunks being freed that release has not come to yet.
Counted ==
    (UNION { Words(c) : c \in Used })
    \union (UNION { Remaining(i) : i \in 1 .. Len(frames) })

References(c) == handles[c] + Cardinality({ w \in Counted : data[w] \in Words(c) })

RCTypeOK ==
    /\ first \in Ptr /\ live \subseteq Addr
    /\ size \in [Addr -> 0 .. MemSize] /\ mark \in [Addr -> {0, 1}]
    /\ refcount \in [Addr -> 0 .. UintRange - 1]
    /\ pc \in {"client", "find", "insert", "scan", "chunkMem", "resume"}
    /\ cur \in Ptr
    /\ data \in [Addr -> Ptr]
    /\ handles \in [Addr -> 0 .. MaxHandles]
    /\ target \in [Addr -> Ptr]
    /\ frames \in Seq([chunk : Addr, word : 0 .. MemSize])

\* refcount is the number of references to a chunk, and a chunk is in use as
\* long as there is one: between calls, and at every turn of release however
\* deep the recursion and wherever the iterator was left.
CountsExact ==
    pc \notin {"chunkMem", "resume"} => \A c \in live :
        /\ refcount[c] = References(c)
        /\ mark[c] = 1 <=> refcount[c] > 0

\* A chunk that a variable of the program refers to is in use.
HeldInUse == pc = "client" => \A c \in live : handles[c] > 0 => mark[c] = 1

\* The iterator is on a chunk when chunkMem goes on after a release.
IteratorValid == pc = "resume" => cur \in live

\* The chunks that calls of release under way are scanning, and the words of
\* them they have not come to yet.
Scanning == { frames[i].chunk : i \in 1 .. Len(frames) }
ToScan   == UNION { frames[i].word .. frames[i].chunk + size[frames[i].chunk] - 1 :
                    i \in 1 .. Len(frames) }

\* The passes chunkMem has left for the word at hand.
MemPasses ==
    CASE pc = "scan"     -> 2 * MemSize + 4
      [] pc = "chunkMem" -> 2 * Cardinality(ToCome) + 1
      [] pc = "resume"   -> 2 * Cardinality(ToCome)
      [] OTHER           -> 0

\* A call of release frees a chunk, finishes a word or a chunk, or goes on
\* with its walk: the first happens as often as there are chunks in use, ...
TurnsLeft ==
    (Cardinality(Used) * (2 * MemSize + 1) + Cardinality(Scanning) + Cardinality(ToScan))
        * (2 * MemSize + 5) + MemPasses

\* ... so that no chain and no cycle of references keeps release busy for ever,
\* whatever its words hold: every turn brings it nearer to its return, however
\* deep the recursion and wherever an inner call left the iterator.
ReleaseRunsDown ==
    [][/\ ReleaseStep => TurnsLeft' < TurnsLeft
       /\ AllocStep => PassesLeft' < PassesLeft]_rcVars

\* The chunks in use that stay when release is done: the largest set of them
\* in which each is referred to by a variable or by a word of one that stays.
Supported(S) ==
    \A c \in S : handles[c] > 0 \/ \E d \in S : \E w \in Words(d) : data[w] \in Words(c)

Surviving == UNION { S \in SUBSET Used : Supported(S) }

\* While calls of release are under way, what they have yet to free is gone.
InUse == IF frames = <<>> THEN Used ELSE Surviving

\* retain and release implement the sharing of blocks: whatever the order in
\* which release comes to the words, on whatever structure, it frees the
\* blocks that nothing refers to any more, all of them and no others.
Shared == INSTANCE Sharing WITH used <- [c \in InUse |-> size[c]]

SharingSpec == Shared!Spec

\* Every call returns, on cyclic structures too.
ReleaseReturns == (pc # "client") ~> (pc = "client")
=============================================================================
