# iMalloc in TLA+

A specification of **iMalloc** (`src/kod`), a memory manager written in C: a
program asks for an arena with `iMalloc(size, flags)` and then allocates and
frees blocks of it, by hand (`free`), by reference counting (`retain`,
`release`) or by mark and sweep (`collect`).  This directory holds TLA+ modules
that model its code, configurations with which TLC checks small instances, and
theorems that TLAPS checks for every size of the arena.

    tlc -config alloc_all.cfg MCMemoryAllocator
    tlapm MemoryAllocatorProofs.tla

`PROJECT.json` lists the runs, the properties with a mutation of the code that
each of them detects, the source lines behind every definition, and the hazards
that the properties are aimed at.

## 1. Inventory of the system

| component | code | state | operations | modelled |
|---|---|---|---|---|
| free list allocator | `memoryAllocator.c` | the list (`first`, `last`, `sort`) and its chunks (`data`, `size`, `next`, `prev`, `mark`, `refcount`) | `allocInt`, `freeMem`, `availableMemory`; `allocChar` | `MemoryAllocator`; `allocChar` in `Collector` |
| reference counting | `refcount.c` | `refcount` and `mark` of the chunks, the iterator `current` of the list, the words in the blocks, the C stack of the recursion | `retain`, `release`, `count` | `RefCount`; on a stale list in `Managers` |
| mark and sweep collector | `collect.c` | `mark`, `current`, the words in the blocks and on the stack, the C stack of the recursion | `collect` | `Collector` |
| managers | `imalloc.c`, `imalloc.h` | one list, one first chunk and one table of functions per manager; `globalpList` | `iMalloc`, `iMallocFree` | `Managers`, but the sizes of the allocation and invalid flags |
| root set scan | `rootset.c` | none | `inAddressSpace`, `traverseStack` | its result, in `Collector` |
| demo program | `projektredo.c` | its variables | three managers, four blocks each | replayed by `UnitTests` |
| unit tests | `unittests.c` | their variables | 31 test functions | replayed by `UnitTests`, but three |
| build, documents | `Makefile`, `readme.txt`, ... | none | none | no |

**How they interact.**  Everything is one thread and direct calls.  A manager is
one `malloc` holding, in this order, its first chunk struct, its `list`, the
table of functions (the pointer the program gets) and the arena.  All the
components work on the same chunk list.  `alloc` cuts a chunk in two and puts
the pieces where the order of the list wants them; `free` clears a mark and, in
address order only, merges neighbours (`memConcat`); `release` clears a mark
when a count reaches zero and recurses into whatever the block points at, and
never merges; `collect` clears all marks, sets those it can reach and merges.
`refcount.c` and `collect.c` walk the list with the one iterator the list has,
`current`, and re-enter each other's walks through their recursion.
`retain`, `release` and `count` find the list through a global variable that
every `iMalloc` redirects.

**What is hard to get right.**  There is no concurrency and nothing persists; the
difficulty is in long sequences of legal calls on a mutable doubly linked list,
in iterators that are moved under a loop, and in the limits:

* *Free list.*  The four cases of `splitAscDesc` take a chunk off the list and put
  two back, in an order that depends on the case, through two insertions that
  write via `prev->next`.  It is correct if the chunks always tile the arena, the
  list holds each of them once and in order, `prev` inverts `next` wherever it is
  read, a request is placed by the policy the order stands for and denied only if
  nothing fits, no loop runs for ever, and in address order free neighbours never
  remain.
* *Reference counting.*  `release` and `chunkMem` recurse through the data of the
  program with a shared iterator.  It is correct if every count is the number of
  references at every depth, a chunk is in use exactly as long as there is one,
  and it always terminates, on cycles too.
* *Collector.*  It is correct if a chunk that can be reached keeps its mark, the
  others lose theirs, the result says whether one was freed, and the loop ends.
  Only a part of this is so: what holds is checked, and section 5 has what does not.
* *Managers.*  Correct if the calls on one manager never touch another's list, and
  `iMallocFree` frees every struct once.  With the global list pointer the first is
  out of the question; what remains true of the counts, and when a call can
  crash, is checked.

The hazards, line by line, are in `PROJECT.json`.

## 2. The modules

| module | what it is |
|---|---|
| `Heap` | the abstract heap: what a manager promises, with no list in sight |
| `MemoryAllocator` | the free list and the code of alloc and free |
| `MemoryAllocatorProofs` | proofs: the tiling of the arena, the merging of neighbours, the ranges of the variables |
| `ListProofs` | proofs: the order and the links of the list, and what alloc finds on it |
| `WalkProofs` | proofs: what a walk along the list meets, what `availableMemory` adds up, and that every walk comes to an end |
| `HeapProofs` | proof that `MemoryAllocator` implements `Heap` |
| `MCMemoryAllocator` | constants of its TLC instances |
| `Sharing` | the abstract counting: blocks, who refers to them, and what goes when a reference does |
| `RefCount` | extends `MemoryAllocator` with retain, release and the program's data |
| `RefCountProofs` | proofs: the calls of release under way and their iterator |
| `CountProofs` | proofs: the counts are exact, release comes to an end, and `RefCount` implements `Sharing` |
| `MCRefCount` | constants of its TLC instances |
| `Collector` | extends `RefCount` with collect and `gc.alloc` |
| `CollectorProofs` | proofs: what a collection keeps, frees, counts and reports, and when it comes to an end |
| `MCCollector` | constants of its TLC instances |
| `Managers` | extends `Collector` with the kinds of manager, `globalpList` and `iMallocFree` |
| `ManagersProofs` | proofs: teardown, crashes, and the counts under several managers |
| `MCManagers` | constants of its TLC instance |
| `TestScripts` | the unit tests and the demo program as sequences of calls and assertions |
| `UnitTests` | extends `TestScripts`: the machine that replays a script with the actions of the other modules |
| `MCUnitTests` | the tests, by name, and the constants of the instance |

### MemoryAllocator

*State.*  A chunk is known by its `data` pointer, counted in words from the start
of the arena; the fields of `struct chunk` are functions from addresses, and
`live` is the set of structs that exist.  Two live structs never share a data
pointer (that is part of `Tiling`), and the address of a freed struct carries no
meaning, so nothing is lost by naming a struct this way except the pointer that
dangles: `PrevPointsBack` catches it as a `prev` that is not the previous chunk.
`refcount` is written by `alloc` alone here; `mark` and `size` are as in the code.

*Steps.*  Every pass of a loop of the code is one step.  `pc` says which loop is
running and `cur`, `bytes`, `object`, `todo` are its locals.

| pc | code | actions |
|---|---|---|
| `client` | no call is running | `AllocInt`, `FreeMem` |
| `find` | `while (c && !fits(c, bytes))`, then the split | `FindNext`, `FindFail`, `SplitAddress`, `SplitExact`, `SplitInPlace`, `SplitDetach` |
| `insert` | `ascendingSort`, `descendingSort` | `InsertFront`, `InsertBefore`, `InsertLast`, `InsertWalk` |
| `lookup` | the search of `freeMem` | `LookupNext`, `LookupFail`, `LookupFound` |
| `concat` | the loop of `memConcat` | `ConcatMerge`, `ConcatNext`, `ConcatDone` |

`todo` is the sequence of detached chunks that are still to be inserted, in the
order of the calls to the insertion.  A call starts only at `client` and only
`Code` steps are possible otherwise, so the trailing insertions of `alloc` and the
trailing merge of `free` cannot be left out or interleaved with another call; the
steps in between are there because the invariants are stated at every one of them.
`SplitInPlace` is the case of one chunk and the case of the first chunk in
ascending order; `SplitDetach` is the other three.  The two insertions differ in
the comparison only, `Beyond`.  The guards that `free` does not have, the model does
not have either: the program may free anything, at any time, any number of times.

*Init* is the result of `iMalloc`: `initChunk` and `initList`, one free chunk
(`Fresh(n)`, for an arena of `n` words; the unit tests create smaller ones than
`MemSize`).

### Heap

Blocks in use (`used`, start to length), the request in progress (`pending`) and the pointer
that is being handed back (`freeing`).  `Grant` picks any place that meets no block; where `firstFit`
holds it picks the lowest one and `Deny` is allowed only if there is none, whatever the manager's own
division of its unused memory.  `Free` ends the block that starts at `freeing`, if there is one, and touches
no other.  `MemoryAllocator` is shown to implement it under

    used     <- [c \in Used |-> size[c]]
    pending  <- IF pc = "find" THEN bytes ELSE 0
    freeing  <- IF pc = "lookup" THEN object ELSE NULL
    firstFit <- sort = ADDRESS

so a block is in use from the step that sets its mark, and `free`, whatever pointer it is called with, lasts
from the call to the end of its search; insertion, the passes of the search and merging
are stuttering steps: no block moves, shrinks or vanishes in any of them.

### RefCount

Adds the words of the arena (`data`: each is a pointer into the arena or something
else, `NULL`), the references the program's variables hold (`handles`) and the
recursion of `release` (`frames`: the chunk being freed and the word it has come
to).  `cur` stands for the list's `current`, which all depths share: when an
inner `release` returns, `pc = "resume"` and `chunkMem` goes on from wherever `cur` was
left.  The steps are `ReleaseChunk` (the body of `release` up to its loop, with
`findAChunk`), `ScanWord`/`ScanDone` (its loop) and `MemRelease`/`MemNext`/`MemDone`
(`chunkMem`).  `alloc` is the allocator's own actions.

The program (`Program`) is the environment, and keeps the discipline reference counting
asks for: it releases only what it holds, and a reference stored in a block it holds
moves there from a variable (`StorePointer`) and may be taken out again (`TakePointer`).  It
may store a pointer into the middle of a block, and knows which block it means: `target` is the
block that it stored a word for.  So a reference that is taken out is one to that block, whatever has become of
it in the meantime, and not to the chunk that happens to enclose the address by then.  `Initialises` says whether it clears a block before first
use; iMalloc does not do it.

### Sharing

The same state without a count, a mark or a list: `used`, `data` and `handles`.  `Release` gives up
one reference and leaves in use, in that one step, the largest set of blocks in which each is referred
to by a variable or by a word of a block that stays (`Lasting`).  A chain or a tree goes as a whole
with its last reference; a ring, which counting cannot free, stays for good, and `Sharing` says so.
`RefCount` is shown to implement it under

    used <- [c \in InUse |-> size[c]]
    InUse == IF frames = <<>> THEN Used ELSE Surviving

where `Surviving` is that largest set, among the chunks still marked: from its first step on a
release under way is taken to have freed already whatever it will come to, so that all its other steps
have to stutter.

### Collector

Works on the state of `RefCount`: `handles` are the program's variables, which are words of
the stack, and `data` the words of the blocks.  The program drops variables without a
release.  It adds `visits`, the calls of `traverseChunk` that are open (the chunk of each
and the word it has come to), `count`, and `typed`, whether the `alloc` in
progress is `allocChar`; `before` is auxiliary.

| pc | code | actions |
|---|---|---|
| `client` | no call is running | `GCAlloc`, `AllocChar`, `Collect`, `Drop`, `StorePointer`, `TakePointer`, `StoreForeign` |
| `markZero` | the loop that clears the marks and counts | `MarkZero`, `MarkZeroDone` |
| `markStack` | the loop over `traverseStack` | `MarkStack`, `MarkStackDone` |
| `trace` | the loop over the marked chunks | `TraceMarked`, `TraceNext`, `TraceDone` |
| `traverse` | the loop of `traverseChunk` | `TraverseFind`, `TraverseSkip`, `TraverseDone` |
| `findChunk` | the loop of `findChunk` | `FindChunkNext`, `FindChunkMark`, `FindChunkDone` |
| `sweep` | the loop that counts what is unmarked | `Sweep`, `SweepDone` |
| `concat` | `memConcat` | `GCConcat` |
| `collected` | the result; back to the caller, or to the search of `allocChar` | `CollectDone` |

`cur` is `L->current` throughout, so `findChunk` moves it under the loop of `trace`.
A step of the code that looks odd is a step of the model:

* `traverseChunk` steps by words, tests the *content* of the word, and gives `findChunk`
  its *address* (`TraverseFind`); the address space `findChunk` builds for a chunk ends on
  the byte behind it (`Encloses`).
* The address space that contents are tested against starts at `TOLIST + sizeof(list)`, which pointer
  arithmetic scales by the size of the list: 1024 bytes behind the list, 944 bytes into the
  arena on x86_64, and it ends far behind the arena.  `WindowStart` is the first word of the arena
  inside it, `Foreign` stands for every address behind the arena and inside it.  The properties
  say by themselves which words lie there (`Window`) and do not use the model's test, `InWindow`.
* `traverseStack` always finds a live variable; of other words (`Leftovers`) it
  finds any selection, another one for each chunk and each collection (`StackMarks`).
  A dead word can point into a free chunk, which is then marked as used, that is,
  brought back to life.
* The result is *free chunks after, less free chunks before*.

### Managers

One manager in full, with the operations its kind has: `free` for a manual one, `retain`
and `release` for the counting ones, `collect` and `gc.alloc` for the collected ones.  `free` of
a counting or collected manager is not in its table.  Of the others only that they exist:
`iMalloc` redirects `globalpList` to the new list (`OtherIMalloc`), `iMallocFree` does not
redirect it back (`OtherFree`, `TeardownDone`).  So `globalpList` is `"this"`, `"other"`
or `"freed"`, and `retain` and `release` find a chunk only if it is `"this"`: `retain`
dereferences the `NULL` it gets (`pc = "crash"`), `release` does nothing, and after the list is
gone both read freed memory, which the model counts as a crash.  A pointer that is not found for
another reason, because its chunk was collected and merged away, has the same effect in `retain`.
The auxiliary `missed` remembers whether a collection has freed a block to which a block in use
refers, by what the program knows (`target`).  `IMallocFree` and the loop of
`freeChunks` are the end of the manager (`teardown`, `gone`).

### TestScripts and UnitTests

A test is a record of what it hands to `iMalloc` and a sequence of entries: calls and
assertions, in the order of the C text.  `UnitTests` runs through it: an entry that is a call starts
the action of the component, the steps of the code follow until the call returns, and then
the next entry has its turn; an assertion is looked at in the state it is reached in.  This
connects the model with the code in the other direction: the assertions that the authors
wrote for the program, and which it passes, are asserted of the model.

The unit of memory is the test's own, kilobytes or bytes; the blocks of the reference count
tests, which are scanned word by word, are in units of 128 or 4 kilobytes, and the arenas of
`testALLOCCHAR` are 1024 times smaller (they still do not fill up).  What the model cannot take
over from a real run is made definite: there is nothing left on the stack, and memory that was
never written holds no pointers.  A pointer that a test stores in a block takes the reference of the
variable with it.  Where a test passes `free` a pointer that no `malloc` returned (its
`free(foo)`) the script ends; `testALLOCCHAR` calls `freeMem` itself, which its manager does
not offer.  Not replayed: `testIMALLOC_MANUAL` and `testIMALLOC_MANAGED`, which
write values and read them back (the first stores an 8-byte pointer in a 6-byte
block on a 64-bit machine), and `testBUGG`, which asserts what happens to lie on the stack.

## 3. The runs

| run | bounds | what it shows |
|---|---|---|
| `alloc_all` | arena of 5 words, all three orders, requests of 0 to 6 words, any pointer freed | type invariant; `Tiling`, `ListComplete`, `ListSorted`, `BackLinks` at every pass of every loop; `Coalesced`: in address order free neighbours never remain; `Policy` and `DenyOnlyWhenFull`; `Conservation` of what `availableMemory` reports; `CallsReturn`; `RunsDown`: every pass of a loop makes `PassesLeft` smaller; `HeapSpec`: `free` ends the block it is called with and no other, and in address order a request is denied only when no stretch of unused memory is long enough |
| `rc_exact` | 3 words, all three orders, blocks of 1 and 2 words, at most 2 variables per chunk | `CountsExact`: every count is right at each turn of the recursion; `IteratorValid`: the shared iterator is never `NULL` when a walk goes on; `ReleaseReturns`: the recursion ends on every structure, cycles included; `ReleaseRunsDown`: every step of it makes `TurnsLeft` smaller; `SharingSpec`: it frees what `Sharing` frees |
| `gc_sound` | 3 words, ascending and address order, one variable per chunk, a dead stack word that points to word 1 | `GCTypeOK`, `Tiling` and `Coalesced` with the collector at work; `RootsKept`: what a variable refers to survives; `MarksExplained`: nothing survives but for a word of the stack in its own space; `ReportsNetGain`: no success is reported in vain; `GivesUpWhenFull`: when `gc.alloc` is right to give up; `LoopsOnlyThere`: the one way in which collect can run for ever; `CollectRunsDown`: wherever it is not on that way, every step makes `CollectTurns` smaller |
| `managers` | 3 words, descending and address order, blocks of 1 and 2 words, at most 2 variables per chunk, kinds MANUAL and REFCOUNT | `CountsNeverLow`: later managers make counts too high, never too low; `CrashOnlyWhenStale`: without a later `iMalloc` nothing crashes; `TeardownClean`: `iMallocFree` reads no freed struct and leaves none |
| `managers_collected` | 3 words, address order, blocks of 1 word, one variable per chunk, kind GCD + REFCOUNT, no other manager | `CrashOnlyWhenStale`: with `globalpList` its own such a manager crashes only after a collection that has freed a block to which a block in use referred, which it does |
| `unit_tests` | the arenas of the tests, up to 2048 units | `AssertsHold`: every assertion of 28 tests and the demo; `TestsEnd`: each runs to its end |
| `gc_reports` | 3 words, address order, a dead stack word that points to word 1 | a disagreement with a comment, section 5 |
| `gc_unreached` | 3 words, address order | the same |
| `gc_loops` | 3 words, address order | the same |
| `last_stale` | 5 words, ascending | the same |
| `prev_stale` | 5 words, address | the same |
| `rc_stale_data` | 4 words, a program that does not clear its blocks | the same |

*Why the bounds are enough.*  What tells the cases of the code apart is the position
of a chunk on the list (only, first, last, in the middle), how its size compares
with the request and the pieces with their neighbours, and which neighbours are free.
Five words allow up to five chunks: a detached middle chunk with two different
neighbours on each side of the place the pieces return to.  Requests run from zero
to one more than the arena.  In address order five words are a run of three free
chunks between two used ones, which `memConcat` needs its restart for.  In `RefCount` three
words are three chunks that refer to one another in a ring or a chain, or a two-word chunk with
pointers to another and to itself, and recursion through all of them; a pointer that the iterator
has passed already when an inner release returns needs no more.  What four chunks would add, longer chains, is
left to the theorems.  `UintRange` (7) is
above any count the program can reach, so no wrap-around is hidden or produced by it.
Three words are what the collector needs: a first chunk, a marked chunk behind it whose
words point at it, at itself, at its neighbour or out of the arena, and a free chunk in between
or at the end; the pointer to a chunk's first byte, the closed end of the address space and
the start of the window at word 1 all tell chunks apart there.  The descending order adds
nothing for the collector, which only walks the list; ascending and address order differ
in the merge.  In `managers` the embedded chunk is first on the list in one order and may
be last in the other, and three words leave room for two chunks that refer to each other and a third
that does not.  `managers_collected` needs the three words for a crash at all: a block in use that holds the
reference, the block it refers to, which collect frees, and a free neighbour in front of that, into which
it is merged away; one variable and blocks of one word are enough for it, and such a crash is reachable (TLC
finds `pc # "crash"` violated under this configuration, in which no other manager is created: `Others`
is `FALSE`).  There `WindowStart` is
outside the arena, because how collect traverses chunks is the question of `gc_sound`.
The bounds are `MemSize`, `Requests`, `AllocSizes`, `MaxHandles`, `UintRange` and the
sets `Leftovers` and `Kinds`, and `Others`; nothing else is bounded.  No symmetry is used: addresses are ordered.

*Fairness.*  `WF(Code)`, `WF(RCCode)` and `WF(GCCode)`: a sequential program that has entered a
call goes on executing it.  Nothing obliges the client to call.  `TestSpec` has
`WF(TestNext)`, because a test makes its calls by itself.

*Deadlock* is checked in every run: some call is always possible, and no call gets stuck.
A program that has crashed or freed its manager, and a test that is over, stutter (`Ended`,
`TestEnded`).

## 4. What is proved

Each theorem is of the form `Spec => []Inv`, `Spec => [][A]_vars` or a refinement, and holds for every value of
the constants that their assumptions admit: any arena of at least one word, any set of
orders, any `Leftovers` and `WindowStart`, any kinds of manager.

| module | theorems |
|---|---|
| `MemoryAllocatorProofs` | `TypeCorrectness` (`TypeOK`), `TilingInvariant` (`Tiling`), `CoalescedInvariant` (`Coalesced`) |
| `ListProofs` | `SortedInvariant` (`ListSorted`), `BackLinksInvariant` (`BackLinks`), `PolicyInvariant` (`Policy`), `DenyInvariant` (`DenyOnlyWhenFull`) |
| `WalkProofs` | `CompleteInvariant` (`ListComplete`), `ConservationInvariant` (`Conservation`), `RunsDownHolds` (`RunsDown`) |
| `HeapProofs` | `HeapRefinement` (`HeapSpec`) |
| `RefCountProofs` | `RCTypeCorrectness` (`RCTypeOK`), `IteratorInvariant` (`IteratorValid`) |
| `CountProofs` | `CountsInvariant` (`CountsExact`), `HeldInvariant` (`HeldInUse`), `ReleaseRunsDownHolds` (`ReleaseRunsDown`), `SharingRefinement` (`SharingSpec`) |
| `CollectorProofs` | `GCTypeCorrectness` (`GCTypeOK`), `GCTilingInvariant` (`Tiling`), `GCCoalescedInvariant` (`Coalesced`), `RootsInvariant` (`RootsKept`), `ExplainedInvariant` (`MarksExplained`), `ReportInvariant` (`ReportsNetGain`), `GivesUpInvariant` (`GivesUpWhenFull`), `CollectRunsDownHolds` (`CollectRunsDown`) |
| `ManagersProofs` | `TeardownInvariant` (`TeardownClean`), `CrashInvariant` (`CrashOnlyWhenStale`), `NeverLowInvariant` (`CountsNeverLow`) |

*Assumptions.*  `MemSizeAssumption` (at least one word), `StylesAssumption`, `NullAssumption`
(`NULL` is not a number), `RefCountAssumption` (block sizes from 1 to the arena; at least
one variable may refer to a block, since `alloc` gives the program one; no
count the program can reach wraps), `CollectorAssumption` (`Foreign` is no address of the
arena) and `KindsAssumption`.  `CountsInvariant`, `HeldInvariant`, `NeverLowInvariant` and
`SharingRefinement` have one more hypothesis, that the program clears its blocks (`Initialises`); it is
needed, as `rc_stale_data` shows.  `ReleaseRunsDownHolds` does not have it: release ends on whatever it finds.

### Free list

*Tiling.*  `IInv` is `Typed /\ Tiling /\ Closure /\ AddressLinks`.  `Tiling` is not
inductive alone: `memConcat` merges a chunk with the *next one on the list*, and that is the
next one in the arena only because of the order.  `AddressLinks` says so: in address order
`next[c]` is `c + size[c]`, or `NULL` at the end of the arena, for every live chunk.
`Closure` says that `first`, the links, the locals and `todo` lead to live chunks,
so that the fields read belong to a struct.  Each group of actions has its
lemma: `WalkingInv` for the steps that move a local, `SplitInv` (over `CarveTiling`)
for the cuts, `InsertInv`, `LookupFoundInv`, `ConcatMergeInv`.  `Typed` leaves out the range of
`refcount`, the one part of `TypeOK` that is different once `retain` is there.

*Merging.*  `Coalesced` speaks of the moment between calls, so its invariant has to speak
of the loop of `memConcat`: `CoalescedUpTo` says that no two free neighbours lie below
the chunk the loop has come to; when the loop ends, everything
lies below it.  Outside `free` it holds for the whole arena, because a cut puts the new free
chunk behind a used one and in front of a used one: the neighbour of the free chunk it
is cut from.

*The list.*  That a list built of `next` pointers is one chain without a cycle says
something about all its chunks at once.  `ListInv` says it through a numbering:
there is a function `pos` that gives the first chunk 0, each `next` one number more, and no two chunks
the same (`Runs`).  An insertion shifts the numbers behind it by one (`RunsFront`,
`RunsAfter`), a removal shifts them back (`RunsWithout`).  The rest of `ListInv` is stated
with the numbers: the order (`InOrder`), that what alloc has passed does not fit (`Searched`), and
that an insertion has passed only chunks that belong in front (`Placing`).  Two facts that the steps
of `splitAscDesc` rely on are part of it: a detached chunk leads nowhere (`Waiting`), and `prev`
inverts `next` (`BackLinks`), without which `InsertBefore` would write into another chunk.
`Policy` follows from `InOrder` and `Searched`, `DenyOnlyWhenFull` from `Searched` alone.

*The walk.*  `ListComplete` and `Conservation` are about functions defined by recursion along the
list.  The induction theorems of the library cannot be used here (they take a predicate as a
parameter), so these proofs take the least counterexample instead (`Least`): the least number
that no chunk has, the least step at which the walk is not at the chunk of that number, the last
at which the sum differs from the number of free words.

*Ending.*  That a call returns is liveness, but what makes it return is not: a number that every
step of the call makes smaller (`RunsDown`).  `PassesLeft` has two digits.  The lower one is the
number of chunks a walk has yet to come to (`ToCome`, from the walk along the list), which falls
with every pass because the list has no cycle (`WalksOn`); the upper one is the number of walks the call has
yet to make (`WalksLeft`): after a cut one for each piece to insert, in `memConcat`
one for each chunk, because a merge that starts the walk over has removed one.  A digit never exceeds
`MemSize + 1` (`FewToCome`), so a fall of the upper one outweighs any rise of the lower (`Lower`).

*Refinement.*  `HeapRefinement` maps each step of the code to a step of `Heap` or to a stutter.  A cut is
a `Grant`: it meets no block in use because the chunks do not overlap.  `LookupFound` is a `Free` of the chunk
at the pointer of the call, since two chunks never have the same `data`; `LookupFail` is one that ends no
block, and that needs the search to have missed none: the chunks it has passed do not start at the pointer
(`LookedUp`), and it passes every chunk.  For `firstFit`, the
argument is that an unused stretch of the arena in address order lies within one free chunk
(`RoomIsChunk`): every word is in some chunk (`Covered`), and free neighbours have
been merged (`CoalescedUpTo`).  So the list's first fit is the arena's, and `Deny` is right.

### Reference counting

*The iterator.*  `RCBase` adds the ranges (`RCTyped`) and `FramesInv` to the above: the calls of
release under way scan different chunks, all of them already free, and none but the innermost is at the end of
its chunk.  That is why the recursion cannot free a chunk twice, and why `cur` is on a chunk
when `chunkMem` goes on.

*The counts.*  `CountsExact` says nothing of the middle of `chunkMem`, so `ExactInv` has to.
The word that chunkMem looks at counts as a reference as long as the walk has yet to come to
the chunk it points into (`Ahead`), and no longer once it has released it.  The
iterator may be anywhere when an inner release returns; the walk goes on from there, and the
reference must not be given up twice: after `resume`, the chunk that the word points into is either the
one at the iterator or no longer in use, and so it is at every outer depth.

*Ending.*  The measure `TurnsLeft` has on top what the recursion uses up: a chunk in use (when a release
frees one), or else a call under way or a word still to be scanned.  Below it are the passes of `chunkMem`
for the word at hand, which count the walk from wherever the iterator was left.  An inner release can move
the iterator back to the first chunk, and so make the walk longer; but then it has freed a
chunk, or it has returned in the step it was called in, and left the iterator where it was.  No
property of the data is needed for this.

*Refinement.*  Every step of a release but the first has to leave `Surviving` alone.  The step that
frees a chunk does, because the chunk is supported by nothing: its count was one, the counts are exact,
and the reference that is being given up was that one (`FreeUnreferred`, from
`ExactInv`).  A step that only moves the iterator changes neither marks nor references.  When the last
call returns no word is left to scan, so every chunk in use has a count, hence a reference from a
variable or from another chunk in use, and `Used` supports itself (`AllReferred`): what release has
left in use is the largest such set, nothing has been forgotten.  The first step, which takes the reference from
the variable, is `Release` itself; the program's stores and loads move one reference from
a variable to a word or back.  For the loads that takes one more invariant, `Targeted`: as long as the counts
are exact, a word of a block in use still points into the chunk that the program stored it for, so
the block that the program takes its reference to be one to is the one that the count has it for.

### Collector

`GCBase` carries the free list's invariants through a collection; `VisitsInv` keeps the open
calls of `traverseChunk` on marked chunks.  `GCInv` says what the marks
are in each loop (`MarksInv`): in `markZero` those of the chunks not yet passed are as they were; in
`markStack` no chunk is marked without a word of the stack in its space.  `RootsInv`: what a variable refers to is
marked as soon as the loop of `markStack` has passed it, and stays so to the end of the collection.  `CountInv` has the
count at every pass of the two counting loops, so that at the end it is the difference of two
cardinalities; `StarvedInv` carries the fact that nothing fitted from the search of `gc.alloc` to the end of the
collection, as long as the marks are what they were, and that no two free neighbours
could have been merged.

*Why a chunk survives.*  `MarksExplained` says that the traversal of the marked chunks never saves one.
`findChunk` marks a chunk on behalf of a word that looks like a pointer, and when the chunk of that word is
not the first on the list, the loop of `trace` is sent back, meets it again, and never ends.  So it has to be
shown that a traversal that does reach the end has marked nothing.  `Cleared` says that the marked chunks
which the loop has passed since it was last at the start hold no such word, the first apart; if the first
holds one, `findChunk` begins its search at that very chunk, finds it and marks nothing.
`Unhelped` puts this together with `OneVisit`: unless diverted, every mark is one of
the stack, and a diverted loop cannot have everything behind it clear.

*Ending.*  `CollectTurns` puts the allocator's measure between two more: above it the loops that the
collection has left (`LoopsLeft`) and above those the collections that `gc.alloc` has left (`Retries`),
below it the words that `traverseChunk` has left.  A retry follows only a collection with a
negative count, and that one has fewer chunks in use than there were before (`before`, by
`CountInv`), so that the number of chunks in use bounds the retries, whatever the stack
makes the collector believe.  The one step that can go back is `findChunk` moving the iterator of the loop of
`trace`; it does so only on behalf of a chunk that is `Diverted`, or of the first chunk, where there is
nothing to go back over.  `OneVisit` says that: unless diverted, a single call of `traverseChunk` is open
at a time and the iterator is on its chunk.

### Managers

`MBase` says, for each phase of a call, what that phase needs and that the other parts are at rest:
`RCBase` in release, `GCBase` in collect, both in alloc and between calls.  `TeardownClean` needs the numbering of the list
when `iMallocFree` begins: the structs left are those from the cursor on, and the embedded
one (`Tearing`).

*Crashes.*  `CrashInvariant` is about every kind of manager, and does not speak of the counts: with a program
that does not clear its blocks they may be anything.  What keeps a chunk on the list is that no
chunk is merged away while it is marked, and that only `release` and `collect` clear marks, of which
the former never merges and the latter, at its merge, has just set them anew.  `Anchors(T)` says that the chunks of
`T` are on the list, every variable refers to one of them and every word of one of them that the program
knows as a pointer refers to one of them; `Anchored`, that there is such a set.  A cut adds the chunk it hands out, whose
words the program takes for no pointers (`AnchoredSplit`), stores and loads stay within the set
(`AnchoredPointer`), `release` changes nothing that it speaks of.  After a
collection that has missed nothing the chunks that are marked are such a set (`AnchorsSwept`, from
`RootsInv`), and the merge takes none of those (`AnchorsMerged`).  So, until a collection has missed something, every
variable refers to a chunk on the list (`AnchoredHandles`), and `findAChunk` finds it if `globalpList` leads to
the list, because the walk meets every chunk.

*Counts.*  For `CountsNeverLow`, the counts are exact until another manager is created (`ExactInv`), and from then
on only cuts, moves of references and releases without effect follow, none of which
makes a count too low (`AtLeast`) or lets a word point elsewhere than the program knows (`Targeted`).

*Only model-checked.*  The liveness properties `CallsReturn`, `ReleaseReturns`,
`LoopsOnlyThere` and `TestsEnd`: fairness is out of the prover's reach.  What these
say beyond the measures proved above is that a call under way is never stuck without a step to take, which the
deadlock check of the runs covers on the same instances.  `AssertsHold`: the
tests are fixed scripts, and running them to their end is a proof already.

## 5. What the code does otherwise than its comments say

* `last_stale`: `splitAscDesc` takes the last chunk off the list and leaves `list->last`
  alone; if in ascending order neither piece goes back to the end, `list->last` is no longer the
  last chunk (`priv_imalloc.h:51` says it is).  Harmless today: only `memConcat` compares
  with it, in the order where it is right.
* `prev_stale`: `memConcat` does not set the `prev` of the chunk after the merged pair, which
  is left pointing at a freed struct (`priv_imalloc.h:35`).  Harmless today: in address
  order nothing reads `prev`.
* `rc_stale_data`: `alloc` hands out blocks with the words of earlier blocks in them, and
  `release` takes every word of a block for a reference.  A chunk that a variable still
  refers to is freed (`priv_imalloc.h:31`, `:36`).

* `gc_unreached`: `traverseChunk` looks up the chunk that holds a pointer and not the one it
  points to (`collect.c:46`, against the comment at `collect.c:45`).  A chunk that is referred to from
  another chunk only is swept while in use.
* `gc_loops`: `findChunk` leaves `L->current` at the first chunk, and the loop of `collect` goes on from
  there.  If a marked chunk that is not the first holds a word that looks like a pointer, the
  loop meets it again and again and `collect` does not return (`collect.c:36`, against
  `collect.c:77`).

* `gc_reports`: `collect` compares the number of free chunks before and after its marking.  A word left on
  the stack can mark a free chunk as used, and then one chunk freed and one brought back to life cancel
  out: `collect` returns 0 although it has freed a chunk (`collect.c:112`, against `collect.c:77` and
  `priv_imalloc.h:110`, "returnerar 1 om minst en chunk har frigorts").  `allocChar` then gives up.  What
  holds of the result is `ReportsNetGain`: it is never 1 in vain, and 1 whenever a chunk was freed and none brought
  back; `GivesUpWhenFull` has its exception for the same reason.

Some more that the properties allow for; they have no runs of their own.

* `findChunk` takes a chunk to extend up to and including the first byte behind it (`collect.c:21`), the scan of
  the stack not (`collect.c:86`), and `collect.c:15` speaks of the chunk whose data contains the
  pointer.  So a word that is the first of a chunk is looked up in the chunk in front of it if that comes first on
  the list.  It can only be seen in the marks while `trace` is under way: where `findChunk` marks
  a chunk behind another's back the loop does not come to its end (`gc_loops`), and where it ends the marks
  are those of the stack alone (`MarksExplained`).
* `GivesUpWhenFull` is checked for managers that are only collected.  With reference counts as
  well, `release` leaves free neighbours unmerged; `memConcat` at the end of a collection
  makes room, but `collect` returns 0 and `allocChar` does not look again
  (`memoryAllocator.c:258`).
* A block that is counted can be collected, when only a block refers to it and `traverseChunk`
  misses it; when it is merged away as well, a reference that the program takes back from the
  block is one that `retain` does not find, and it dereferences `NULL` (`refcount.c:56`).  That is `missed` in
  `CrashOnlyWhenStale`, and `managers_collected` reaches it.

## 6. What is left out, and why

* `count`, `printMem`: only read.
* A failing `malloc` of a struct: the code dereferences the result; the model would end there.
  The address space structs that `collect` and `findChunk` allocate and never free: the
  heap outside the arena is not modelled.
* `caseSize + memsiz` in `iMalloc`, in 32-bit arithmetic, and flags that are no case of its
  switch: the model starts with the managers that `iMalloc` does create.
* `traverseStack` is inline assembly over the machine stack and registers; the model has what
  it finds.  That it reads outside the stack if the program forgets `SET_STACK_BOTTOM` has no
  counterpart in it.
* Sizes that are no multiple of a word: `release` reads a whole word from any address of the
  block, so the last one may reach past it.  The model counts in words.
* A program that releases more than it holds: the count wraps (`refcount.c:80`), and nothing that
  the other properties say is meant for such a program.
* The Makefile and the documents: no behaviour of their own.

## 7. What could be added

Every safety property that a run checks is proved, but for `AssertsHold`, and so are both refinements
and, as far as they are safety, the ends of all loops.  Left are the counts of a manager that
collects as well: `CountsNeverLow` is stated for the kinds that do not combine the two, because
a block that is counted can be collected (section 5), and what remains of it, and of `GivesUpWhenFull`,
for `GCD + REFCOUNT` has yet to be stated.
