------------------------------- MODULE Heap --------------------------------
(***************************************************************************)
(* What a memory manager of iMalloc promises the program that uses it,     *)
(* with no free list in sight: a set of disjoint blocks of the arena are   *)
(* in use; a request is granted a block that overlaps none of them, or is  *)
(* denied; a block in use stays where it is, as long as it is, until it is *)
(* handed back.  Any pointer may be handed back: one that is the start of  *)
(* a block in use gives up that block and no other, and any other pointer  *)
(* nothing at all.  Where firstFit holds the manager also promises never   *)
(* to deny a request for which some stretch of unused memory is long       *)
(* enough, and to use the lowest such stretch: what merging neighbours at  *)
(* once buys.                                                              *)
(***************************************************************************)
EXTENDS Integers

CONSTANTS MemSize,    \* the arena is the words 0 .. MemSize - 1
          NULL        \* no pointer

VARIABLES used,       \* the blocks in use: their start, mapped to their length
          pending,    \* the length asked for by the alloc in progress, or 0
          freeing,    \* the pointer handed to the free in progress, or NULL
          firstFit    \* does the manager place at the lowest address that will do?

vars == <<used, pending, freeing, firstFit>>

\* n words from p on lie in the arena and meet no block in use.
Room(p, n) ==
    /\ p \in Nat
    /\ p + n <= MemSize
    /\ \A q \in DOMAIN used : p + n <= q \/ q + used[q] <= p

Idle == pending = 0 /\ freeing = NULL

Init == used = [p \in {} |-> 0] /\ Idle /\ firstFit \in BOOLEAN

Request(n) ==
    /\ Idle
    /\ pending' = n
    /\ UNCHANGED <<used, freeing>>

Grant(p) ==
    /\ pending > 0
    /\ Room(p, pending)
    /\ firstFit => \A q \in 0 .. p - 1 : ~ Room(q, pending)
    /\ used' = [q \in DOMAIN used \union {p} |-> IF q = p THEN pending ELSE used[q]]
    /\ pending' = 0
    /\ UNCHANGED freeing

Deny ==
    /\ pending > 0
    /\ firstFit => \A p \in 0 .. MemSize - 1 : ~ Room(p, pending)
    /\ pending' = 0
    /\ UNCHANGED <<used, freeing>>

HandBack(p) ==
    /\ Idle
    /\ freeing' = p
    /\ UNCHANGED <<used, pending>>

Free ==
    /\ freeing # NULL
    /\ used' = [q \in DOMAIN used \ {freeing} |-> used[q]]
    /\ freeing' = NULL
    /\ UNCHANGED pending

Next ==
    /\ \/ \E n \in 1 .. MemSize + 1 : Request(n)
       \/ \E p \in 0 .. MemSize - 1 : Grant(p) \/ HandBack(p)
       \/ Deny
       \/ Free
    /\ UNCHANGED firstFit

Spec == Init /\ [][Next]_vars
=============================================================================
