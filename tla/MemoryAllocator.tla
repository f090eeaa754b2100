-------------------------- MODULE MemoryAllocator ---------------------------
(***************************************************************************)
(* The free list of one memory manager (src/kod/memoryAllocator.c) under a *)
(* program that calls alloc(mem, bytes) and free(mem, object).             *)
(*                                                                         *)
(* The arena of a manager is cut into chunks.  All of them, used and free, *)
(* are on one doubly linked list, kept in the order of their sizes or of   *)
(* their addresses.  Every pass of a loop of the code is a step of its     *)
(* own: pc names the loop that is running and cur, bytes, object and todo  *)
(* are the locals it works on.  A new call starts only when pc is          *)
(* "client": the code is sequential and a call runs to its end.            *)
(*                                                                         *)
(* A chunk is known by its data pointer, counted in words from the start   *)
(* of the arena.  The fields are functions on all of Addr; those of an     *)
(* address outside live, which has no struct, mean nothing.                *)
(***************************************************************************)
EXTENDS Integers, Sequences, FiniteSets

CONSTANTS MemSize,    \* memsiz, the size of the arena
          Styles,     \* the FreelistStyles a manager may be created with
          NULL        \* the null pointer

ASCENDING_SIZE  == 1
DESCENDING_SIZE == 2
ADDRESS         == 4

ASSUME MemSizeAssumption == MemSize \in Nat \ {0}
ASSUME StylesAssumption  == Styles \subseteq {ASCENDING_SIZE, DESCENDING_SIZE, ADDRESS}
ASSUME NullAssumption    == NULL \notin Int

Addr     == 0 .. MemSize - 1
Ptr      == Addr \union {NULL}
Requests == 0 .. MemSize + 1    \* the sizes a client asks for: from none to one too many

VARIABLES
    sort, first, last,                        \* struct list
    live,                                     \* the chunk structs there are
    next, prev, size, mark, refcount,         \* struct chunk, by data pointer
    pc, cur, bytes, object, todo              \* the call in progress and its locals

list  == <<sort, first, last>>
chunk == <<live, next, prev, size, mark, refcount>>
call  == <<pc, cur, bytes, object, todo>>
vars  == <<list, chunk, call>>

Todo   == { todo[i] : i \in 1 .. Len(todo) }   \* detached, still to be inserted
Listed == live \ Todo

----------------------------------------------------------------------------
(* A fresh manager: one free chunk holds the whole arena of n words. *)

Fresh(n) ==
    /\ sort \in Styles
    /\ first = 0 /\ last = 0
    /\ live = {0}
    /\ next = [c \in Addr |-> NULL]
    /\ prev = [c \in Addr |-> NULL]
    /\ size = [c \in Addr |-> IF c = 0 THEN n ELSE 0]
    /\ mark = [c \in Addr |-> 0]
    /\ refcount = [c \in Addr |-> 0]
    /\ pc = "client" /\ cur = NULL /\ bytes = 0 /\ object = NULL /\ todo = <<>>

Init == Fresh(MemSize)

\* Mutant: the neighbour is left alone.
StoreNothing(field, p, v) == field

\* The write p->field = v, left out by the code when p is NULL.
Store(field, p, v) == IF p = NULL THEN field ELSE [field EXCEPT ![p] = v]

Return == pc' = "client" /\ cur' = NULL /\ bytes' = 0 /\ object' = NULL /\ todo' = <<>>

----------------------------------------------------------------------------
(* alloc: find the first chunk on the list that is free and large enough. *)

Fits(c, b) == size[c] >= b /\ mark[c] = 0

AllocInt(b) ==
    /\ pc = "client"
    /\ IF b = 0 THEN UNCHANGED call
                ELSE /\ pc' = "find" /\ cur' = first /\ bytes' = b
                     /\ UNCHANGED <<object, todo>>
    /\ UNCHANGED <<list, chunk>>

\* Mutant: the search stops at list->last instead of at NULL.
FindNextUpToLast ==
    /\ pc = "find" /\ cur # NULL
    /\ ~ Fits(cur, bytes)
    /\ cur' = IF cur = last THEN NULL ELSE next[cur]
    /\ UNCHANGED <<list, chunk, pc, bytes, object, todo>>

FindNext ==
    /\ pc = "find" /\ cur # NULL
    /\ ~ Fits(cur, bytes)
    /\ cur' = next[cur]
    /\ UNCHANGED <<list, chunk, pc, bytes, object, todo>>

FindFail ==
    /\ pc = "find" /\ cur = NULL
    /\ Return
    /\ UNCHANGED <<list, chunk>>

\* Mutant: the rest is given the size of the request.
RestAsRequested(c, b) == b

\* What c has over b words.
Rest(c, b) == size[c] - b

\* c is handed out; what it has over b words becomes a new free chunk n.
Carve(c, b) ==
    LET n == c + b IN
    IF size[c] = b
    THEN /\ mark' = [mark EXCEPT ![c] = 1]
         /\ refcount' = [refcount EXCEPT ![c] = 1]
         /\ UNCHANGED <<live, size>>
    ELSE /\ live' = live \union {n}
         /\ size' = [size EXCEPT ![c] = b, ![n] = Rest(c, b)]
         /\ mark' = [mark EXCEPT ![c] = 1, ![n] = 0]
         /\ refcount' = [refcount EXCEPT ![c] = 1, ![n] = 0]

SplitAddress ==
    LET n == cur + bytes  temp == next[cur] IN
    /\ pc = "find" /\ cur # NULL
    /\ Fits(cur, bytes) /\ sort = ADDRESS
    /\ Carve(cur, bytes)
    /\ IF size[cur] = bytes
       THEN UNCHANGED <<next, prev, last>>
       ELSE /\ next' = [next EXCEPT ![cur] = n, ![n] = temp]
            /\ prev' = Store([prev EXCEPT ![n] = cur], temp, n)
            /\ last' = IF temp = NULL THEN n ELSE last
    /\ Return
    /\ UNCHANGED <<sort, first>>

SplitExact ==
    /\ pc = "find" /\ cur # NULL
    /\ Fits(cur, bytes) /\ sort # ADDRESS
    /\ size[cur] = bytes
    /\ Carve(cur, bytes)
    /\ Return
    /\ UNCHANGED <<list, next, prev>>

\* c keeps its place at the head of the list; only the rest is inserted.
SplitInPlace ==
    LET n == cur + bytes IN
    /\ pc = "find" /\ cur # NULL
    /\ Fits(cur, bytes) /\ sort # ADDRESS
    /\ size[cur] > bytes
    /\ prev[cur] = NULL /\ (next[cur] = NULL \/ sort = ASCENDING_SIZE)
    /\ Carve(cur, bytes)
    /\ next' = [next EXCEPT ![n] = NULL]
    /\ prev' = [prev EXCEPT ![n] = NULL]
    /\ pc' = "insert" /\ todo' = <<n>> /\ cur' = first
    /\ UNCHANGED <<list, bytes, object>>

\* Mutant: the chunk that was taken off keeps its links.
DetachedLinked(field, p, v, c, n) == [Store(field, p, v) EXCEPT ![n] = NULL]

\* The links of one direction once c is taken off the list: its neighbour p
\* leads to its neighbour v, and c and the new chunk n lead nowhere.
Detached(field, p, v, c, n) == [Store(field, p, v) EXCEPT ![c] = NULL, ![n] = NULL]

\* c is taken off the list (list->last is left as it is), then both pieces
\* are inserted, in an order that depends on the case.
SplitDetach ==
    LET n == cur + bytes IN
    /\ pc = "find" /\ cur # NULL
    /\ Fits(cur, bytes) /\ sort # ADDRESS
    /\ size[cur] > bytes
    /\ ~ (prev[cur] = NULL /\ (next[cur] = NULL \/ sort = ASCENDING_SIZE))
    /\ Carve(cur, bytes)
    /\ next' = Detached(next, prev[cur], next[cur], cur, n)
    /\ prev' = Detached(prev, next[cur], prev[cur], cur, n)
    /\ first' = IF prev[cur] = NULL THEN next[cur] ELSE first
    /\ todo' = IF (sort = ASCENDING_SIZE) <=> (next[cur] # NULL)
               THEN <<cur, n>> ELSE <<n, cur>>
    /\ pc' = "insert" /\ cur' = first'
    /\ UNCHANGED <<sort, last, bytes, object>>

----------------------------------------------------------------------------
(* ascendingSort, descendingSort: insert Head(todo) before the first chunk *)
(* it need not follow, or at the end.                                      *)

\* Mutant: the order by falling size compares the wrong way round.
BeyondAscending(x, c) == size[x] > size[c]

Beyond(x, c) == IF sort = ASCENDING_SIZE THEN size[x] > size[c] ELSE size[x] < size[c]

Inserted ==
    IF Len(todo) = 1 THEN Return
    ELSE /\ todo' = Tail(todo) /\ cur' = first'
         /\ UNCHANGED <<pc, bytes, object>>

InsertFront ==
    LET x == Head(todo) IN
    /\ pc = "insert" /\ cur = first
    /\ ~ Beyond(x, cur)
    /\ next' = [next EXCEPT ![x] = cur]
    /\ prev' = [prev EXCEPT ![cur] = x]
    /\ first' = x
    /\ Inserted
    /\ UNCHANGED <<sort, last, live, size, mark, refcount>>

InsertBefore ==
    LET x == Head(todo) IN
    /\ pc = "insert" /\ cur # first
    /\ ~ Beyond(x, cur)
    /\ next' = [next EXCEPT ![prev[cur]] = x, ![x] = cur]
    /\ prev' = [prev EXCEPT ![x] = prev[cur], ![cur] = x]
    /\ UNCHANGED first
    /\ Inserted
    /\ UNCHANGED <<sort, last, live, size, mark, refcount>>

InsertLast ==
    LET x == Head(todo) IN
    /\ pc = "insert" /\ next[cur] = NULL
    /\ Beyond(x, cur)
    /\ next' = [next EXCEPT ![cur] = x]
    /\ prev' = [prev EXCEPT ![x] = cur]
    /\ last' = x
    /\ UNCHANGED first
    /\ Inserted
    /\ UNCHANGED <<sort, live, size, mark, refcount>>

InsertWalk ==
    /\ pc = "insert" /\ next[cur] # NULL
    /\ Beyond(Head(todo), cur)
    /\ cur' = next[cur]
    /\ UNCHANGED <<list, chunk, pc, bytes, object, todo>>

----------------------------------------------------------------------------
(* free: find the chunk by its data pointer, clear its mark, and merge free *)
(* neighbours if the list is in the order of addresses.  Any pointer will   *)
(* do: one that is no chunk, or whose chunk is free already, included.      *)

FreeMem(p) ==
    /\ pc = "client"
    /\ pc' = "lookup" /\ cur' = first /\ object' = p
    /\ UNCHANGED <<list, chunk, bytes, todo>>

\* Mutant: any pointer into a chunk will do.
SoughtInside(c) == object \in c .. c + size[c] - 1

\* Is c the chunk that the pointer is the data pointer of?
Sought(c) == c = object

LookupNext ==
    /\ pc = "lookup" /\ cur # NULL
    /\ ~ Sought(cur)
    /\ cur' = next[cur]
    /\ UNCHANGED <<list, chunk, pc, bytes, object, todo>>

LookupFail ==
    /\ pc = "lookup" /\ cur = NULL
    /\ Return
    /\ UNCHANGED <<list, chunk>>

LookupFound ==
    /\ pc = "lookup" /\ cur # NULL
    /\ Sought(cur)
    /\ mark' = [mark EXCEPT ![cur] = 0]
    /\ IF sort = ADDRESS
       THEN pc' = "concat" /\ cur' = first /\ UNCHANGED <<bytes, object, todo>>
       ELSE Return
    /\ UNCHANGED <<list, live, next, prev, size, refcount>>

\* Mutant: the loop stops one chunk early.
MergeableNotLast(c) == next[next[c]] # NULL /\ mark[c] = 0 /\ mark[next[c]] = 0

\* c and the chunk after it are both free.
Mergeable(c) == mark[c] = 0 /\ mark[next[c]] = 0

\* memConcat: the chunk after c is swallowed and the scan starts over.  The
\* prev of the chunk after that one still leads to the struct freed here.
ConcatMerge ==
    LET temp == next[cur] IN
    /\ pc = "concat" /\ cur # NULL /\ temp # NULL
    /\ Mergeable(cur)
    /\ last' = IF last = temp THEN cur ELSE last
    /\ size' = [size EXCEPT ![cur] = size[cur] + size[temp], ![temp] = 0]
    /\ next' = [next EXCEPT ![cur] = next[temp], ![temp] = NULL]
    /\ prev' = [prev EXCEPT ![temp] = NULL]
    /\ refcount' = [refcount EXCEPT ![temp] = 0]
    /\ live' = live \ {temp}
    /\ cur' = first
    /\ UNCHANGED <<sort, first, mark, pc, bytes, object, todo>>

ConcatNext ==
    /\ pc = "concat" /\ cur # NULL /\ next[cur] # NULL
    /\ ~ Mergeable(cur)
    /\ cur' = next[cur]
    /\ UNCHANGED <<list, chunk, pc, bytes, object, todo>>

ConcatDone ==
    /\ pc = "concat"
    /\ cur = NULL \/ next[cur] = NULL
    /\ Return
    /\ UNCHANGED <<list, chunk>>

----------------------------------------------------------------------------
Client ==
    \/ \E b \in Requests : AllocInt(b)
    \/ \E p \in Ptr : FreeMem(p)

Find   == FindNext \/ FindFail \/ SplitAddress \/ SplitExact \/ SplitInPlace \/ SplitDetach
Insert == InsertFront \/ InsertBefore \/ InsertLast \/ InsertWalk
Lookup == LookupNext \/ LookupFail \/ LookupFound
Concat == ConcatMerge \/ ConcatNext \/ ConcatDone

\* The code of a call that was made, as opposed to the client's choice of one.
Code == Find \/ Insert \/ Lookup \/ Concat

Next == Client \/ Code

Spec == Init /\ [][Next]_vars

\* Sequential code runs on until it returns; nothing obliges the client to call.
FairSpec == Spec /\ WF_vars(Code)

----------------------------------------------------------------------------
(* Readings of the list. *)

\* The chunk reached after k steps along next, the way every loop of the code walks.
Walk == LET W[k \in 0 .. MemSize] ==
              IF k = 0 THEN first ELSE IF W[k - 1] = NULL THEN NULL ELSE next[W[k - 1]]
        IN  W

\* Mutant: used chunks count as well.
AvailableUsed(c) == size[c]

\* What a chunk adds to the memory that is available.
Available(c) == IF mark[c] = 0 THEN size[c] ELSE 0

\* availableMemory: the free chunks met on the way.
AvailableMemory ==
    LET S[k \in 0 .. MemSize] ==
          IF Walk[k] = NULL THEN 0
          ELSE Available(Walk[k]) + (IF k < MemSize THEN S[k + 1] ELSE 0)
    IN  S[0]

Used == { c \in live : mark[c] = 1 }

----------------------------------------------------------------------------
TypeOK ==
    /\ sort \in Styles
    /\ first \in Ptr /\ last \in Ptr
    /\ live \subseteq Addr
    /\ next \in [Addr -> Ptr] /\ prev \in [Addr -> Ptr]
    /\ size \in [Addr -> 0 .. MemSize]
    /\ mark \in [Addr -> {0, 1}]
    /\ refcount \in [Addr -> {0, 1}]
    /\ pc \in {"client", "find", "insert", "lookup", "concat"}
    /\ cur \in Ptr /\ bytes \in Requests /\ object \in Ptr
    /\ todo \in Seq(Addr)

\* The chunks tile the arena: each one ends where another one starts or at
\* the end of the arena, and no two overlap, through every split and merge.
Tiling ==
    /\ 0 \in live
    /\ \A c \in live :
        /\ size[c] > 0
        /\ c + size[c] = MemSize \/ c + size[c] \in live
        /\ \A d \in live : c < d => c + size[c] <= d

\* Nothing is lost and nothing is met twice: at every step of the code the
\* walk from first along next reaches exactly the chunks that are not
\* detached at the moment, and then NULL.
ListComplete == { Walk[k] : k \in 0 .. MemSize } = Listed \union {NULL}

\* At every step the list is in the order the manager was created with.
ListSorted ==
    \A c \in Listed : next[c] # NULL =>
        CASE sort = ASCENDING_SIZE  -> size[c] <= size[next[c]]
          [] sort = DESCENDING_SIZE -> size[c] >= size[next[c]]
          [] sort = ADDRESS         -> c < next[c]

\* In the two orders by size, whose insertion writes through prev, prev is
\* the inverse of next on the list: the write never lands elsewhere.
BackLinks ==
    sort # ADDRESS => \A c \in Listed :
        IF c = first THEN prev[c] = NULL
                     ELSE prev[c] \in Listed /\ next[prev[c]] = c

\* When no call is running on a list in address order, no two neighbours in
\* the arena are both free: one free() is enough to undo every cut it can.
Coalesced ==
    pc = "client" /\ sort = ADDRESS =>
        \A c \in live : c + size[c] \in live => mark[c] = 1 \/ mark[c + size[c]] = 1

\* The chunk a request is about to be cut from is the one the order of the
\* list is there for: the tightest fit, the loosest fit, or the lowest one.
Policy ==
    pc = "find" /\ cur # NULL /\ Fits(cur, bytes) =>
        \A d \in live : Fits(d, bytes) =>
            CASE sort = ASCENDING_SIZE  -> size[cur] <= size[d]
              [] sort = DESCENDING_SIZE -> size[cur] >= size[d]
              [] sort = ADDRESS         -> cur <= d

\* alloc returns NULL only when not one free chunk is large enough.
DenyOnlyWhenFull ==
    pc = "find" /\ cur = NULL => \A d \in live : ~ Fits(d, bytes)

\* availableMemory, which walks the list, reports what the blocks in use
\* leave of the arena, after any sequence of calls.
Conservation ==
    pc = "client" =>
        AvailableMemory = MemSize
            - Cardinality(UNION { c .. c + size[c] - 1 : c \in Used })

\* Every call returns: no list the code builds makes a loop run for ever.
CallsReturn == (pc # "client") ~> (pc = "client")

\* The steps along the list that reach a chunk from cur on.
ToCome == { k \in 0 .. MemSize : Walk[k] # NULL /\ \E i \in 0 .. k : Walk[i] = cur }

\* The walks a call still has to make at the most: one for each piece to be
\* inserted, and one more of memConcat for each chunk that may be merged away.
WalksLeft ==
    CASE pc = "lookup" -> MemSize + 1
      [] pc = "concat" -> Cardinality(live)
      [] pc = "find"   -> 3
      [] pc = "insert" -> Len(todo)
      [] OTHER         -> 0

\* A walk makes no more than MemSize + 1 passes.
PassesLeft == WalksLeft * (MemSize + 2) + Cardinality(ToCome)

\* Every pass of every loop brings the call nearer to its return, so that a
\* call makes no more than PassesLeft passes, whatever list and arena it finds.
RunsDown == [][Code => PassesLeft' < PassesLeft]_vars

\* The manager implements the abstract heap, in address order even the one
\* that fits first.  A block is in use from the step that marks its chunk, and
\* free lasts until its search is over: whatever it is handed, a block, a
\* chunk that is free already or was merged away, or no chunk at all, it
\* gives up the block that starts there, if there is one, and no other.
H == INSTANCE Heap WITH
        firstFit <- sort = ADDRESS,
        used     <- [c \in Used |-> size[c]],
        pending  <- IF pc = "find" THEN bytes ELSE 0,
        freeing  <- IF pc = "lookup" THEN object ELSE NULL

HeapSpec == H!Spec

\* priv_imalloc.h says of list->last that it points at the last chunk of the list.
LastIsLast == pc = "client" => last \in live /\ next[last] = NULL

\* priv_imalloc.h says of chunk->prev that it points at the previous chunk of the list.
PrevPointsBack ==
    pc = "client" => \A c \in live :
        next[c] # NULL => prev[next[c]] = c
=============================================================================
