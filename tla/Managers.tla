------------------------------ MODULE Managers ------------------------------
(***************************************************************************)
(* A manager from iMalloc to iMallocFree (src/kod/imalloc.c): the flags it *)
(* is created with decide which operations its table offers; retain and    *)
(* release find the list through the global globalpList, which every       *)
(* iMalloc redirects; iMallocFree frees the chunk structs.                 *)
(*                                                                         *)
(* One manager is modelled in full; of the others a program creates after  *)
(* it all that matters is that globalpList leads to their list.            *)
(***************************************************************************)
EXTENDS Collector

CONSTANTS Kinds,        \* the MallocStyles a manager may be created with
          Others        \* may the program create managers after this one?

MANUAL   == 8
REFCOUNT == 16
GCD      == 32

ASSUME KindsAssumption == /\ Kinds \subseteq {MANUAL, REFCOUNT, GCD, GCD + REFCOUNT}
                          /\ Others \in BOOLEAN

VARIABLES kind,         \* the MallocStyle of this manager
          globalpList,  \* whose list it is: "this", "other", or "freed" if that is gone
          missed        \* auxiliary: has a collection freed what a block in use refers to?

all == <<gcVars, kind, globalpList, missed>>

Keep == UNCHANGED <<kind, globalpList>>

MInit == GCInit /\ kind \in Kinds /\ globalpList = "this" /\ missed = FALSE

----------------------------------------------------------------------------
(* The other managers. *)

OtherIMalloc ==
    /\ Others /\ pc = "client"
    /\ globalpList' = "other"
    /\ UNCHANGED <<gcVars, kind, missed>>

OtherFree ==
    /\ pc = "client" /\ globalpList = "other"
    /\ globalpList' = "freed"
    /\ UNCHANGED <<gcVars, kind, missed>>

----------------------------------------------------------------------------
(* The table of this manager: initManual and initManaged. *)

Counts(k)   == k \in {REFCOUNT, GCD + REFCOUNT}
Collects(k) == k \in {GCD, GCD + REFCOUNT}

\* free, of a block that the program holds.
Free(p) ==
    /\ kind = MANUAL
    /\ handles[p] > 0
    /\ FreeMem(p)
    /\ handles' = [handles EXCEPT ![p] = 0]
    /\ UNCHANGED <<data, target, frames, gc>>

\* Mutant: the search ends in front of the last chunk.
SearchToLast(p) == IF globalpList = "this" /\ p # last THEN FindAChunk(p) ELSE NULL

\* What findAChunk returns: the search is in the list that globalpList leads to.
Search(p) == IF globalpList = "this" THEN FindAChunk(p) ELSE NULL

\* Dereferencing NULL, or a list that was freed, ends the program.
Crash ==
    /\ pc' = "crash"
    /\ UNCHANGED <<list, chunk, cur, bytes, object, todo, data, target, frames, gc>>

\* Mutant: retain ignores a pointer that it does not find, as release does.
RetainIgnoring(p) ==
    /\ pc = "client" /\ Counts(kind)
    /\ IF Search(p) = NULL
       THEN /\ handles[p] \in 1 .. MaxHandles - 1
            /\ handles' = [handles EXCEPT ![p] = @ + 1]
            /\ UNCHANGED <<vars, data, target, frames, gc>>
       ELSE Retain(p) /\ UNCHANGED gc

RetainHeld(p) ==
    /\ pc = "client" /\ Counts(kind)
    /\ IF Search(p) = NULL
       THEN handles[p] > 0 /\ Crash /\ UNCHANGED handles
       ELSE Retain(p) /\ UNCHANGED gc

ReleaseHeld(p) ==
    /\ pc = "client" /\ Counts(kind) /\ handles[p] > 0
    /\ \/ globalpList = "freed" /\ Crash /\ UNCHANGED handles
       \/ /\ globalpList # "freed" /\ Search(p) = NULL
          /\ handles' = [handles EXCEPT ![p] = @ - 1]
          /\ UNCHANGED <<vars, data, target, frames, gc>>
       \/ globalpList # "freed" /\ Search(p) # NULL /\ Release(p) /\ UNCHANGED gc

----------------------------------------------------------------------------
(* iMallocFree: free the structs along the list, the first one, which is   *)
(* part of the manager's own memory, with that memory at the end.          *)

IMallocFree ==
    /\ pc = "client"
    /\ pc' = "teardown" /\ cur' = first
    /\ handles' = [p \in Addr |-> 0]
    /\ UNCHANGED <<list, chunk, bytes, object, todo, data, target, frames, gc>>

\* Mutant: the chunk first on the list is taken for the embedded one.
EmbeddedFirst(c) == c = first

\* Is c the chunk inside the manager's own memory?
Embedded(c) == c = 0

TeardownNext ==
    /\ pc = "teardown" /\ cur # NULL
    /\ live' = IF Embedded(cur) THEN live ELSE live \ {cur}
    /\ cur' = next[cur]
    /\ UNCHANGED <<list, next, prev, size, mark, refcount, pc, bytes, object, todo,
                   program, frames, gc>>

TeardownDone ==
    /\ pc = "teardown" /\ cur = NULL
    /\ live' = live \ {0}
    /\ pc' = "gone"
    /\ globalpList' = IF globalpList = "this" THEN "freed" ELSE globalpList
    /\ UNCHANGED <<list, next, prev, size, mark, refcount, cur, bytes, object, todo,
                   program, frames, gc, kind, missed>>

----------------------------------------------------------------------------
MProgram ==
    \/ GCAlloc
    \/ Collects(kind) /\ (AllocChar \/ Collect \/ \E p \in Addr : Drop(p))
    \/ \E p \in Addr : Free(p) \/ RetainHeld(p) \/ ReleaseHeld(p)
    \/ \E d \in live : \E w \in Words(d) :
          /\ (\E c \in live : \E p \in Words(c) : StorePointer(d, w, c, p)) \/ TakePointer(d, w)
          /\ UNCHANGED gc
    \/ IMallocFree

FreeStep ==
    /\ kind = MANUAL
    /\ Lookup \/ Concat
    /\ UNCHANGED <<program, frames, gc>>

MCode ==
    \/ GCAllocStep
    \/ FreeStep
    \/ ReleaseStep /\ UNCHANGED gc
    \/ kind # MANUAL /\ CollectStep
    \/ TeardownNext

\* A block that stays in use holds a pointer to one that does not.
Misses == \E d \in Used : \E w \in Words(d) : target[w] \in Addr \ Used

\* What the marks are once collect is done with them is what it has missed.
Remember == missed' = (missed \/ (pc = "sweep" /\ Misses))

\* The program has ended.
Ended == pc \in {"gone", "crash"} /\ UNCHANGED all

MNext ==
    \/ (MProgram \/ MCode) /\ Keep /\ Remember
    \/ TeardownDone
    \/ OtherIMalloc \/ OtherFree
    \/ Ended

MSpec == MInit /\ [][MNext]_all

----------------------------------------------------------------------------
\* The managers created later can make counts too high and blocks leak, but
\* never too low: what is referred to is in use, and its count admits it.
CountsNeverLow ==
    pc = "client" /\ kind = REFCOUNT => \A c \in live :
        /\ refcount[c] >= References(c)
        /\ References(c) > 0 => mark[c] = 1

\* A program that holds what it counts crashes in retain or release only
\* after a later iMalloc, or after a collection that has freed a block to
\* which a block in use referred: neither merging nor any history of calls on
\* the one manager takes a block from under a pointer that counts.
CrashOnlyWhenStale == pc = "crash" => globalpList # "this" \/ missed

\* iMallocFree reads no struct that it has freed, after any history of cuts,
\* merges and releases, and in the end every struct is freed.
TeardownClean ==
    /\ pc = "teardown" => cur \in live \union {NULL}
    /\ pc = "gone" => live = {}
=============================================================================
