------------------------------ MODULE Sharing -------------------------------
(***************************************************************************)
(* What reference counting (src/kod/refcount.c) promises a program that    *)
(* shares its blocks, with no count, no list and no order of work in       *)
(* sight.  When the program gives up a reference, the blocks that stay in  *)
(* use are, at once, the largest set of them in which each one is referred *)
(* to by a variable or by a word of a block that stays: a chain goes with  *)
(* its last reference, however it is shared, and a ring stays for good.    *)
(***************************************************************************)
EXTENDS Integers

CONSTANTS MemSize,     \* the arena is the words 0 .. MemSize - 1
          MaxHandles,  \* bound: variables of the program that refer to one block
          NULL         \* what a word holds that refers to nothing

VARIABLES used,        \* the blocks in use: their start, mapped to their length
          data,        \* the words of the arena
          handles      \* references the program's variables hold, by block

vars == <<used, data, handles>>

Addr     == 0 .. MemSize - 1
Words(c) == c .. c + used[c] - 1

Init ==
    /\ used = [c \in {} |-> 0]
    /\ data = [w \in Addr |-> NULL]
    /\ handles = [c \in Addr |-> 0]

\* A word of one of the blocks S points into block c.
Pointed(S, c) == \E d \in S : \E w \in Words(d) : data[w] \in Words(c)

\* The largest set of blocks whose members refer to each other or are
\* referred to by a variable, of which h says how many there are.
Lasting(h) ==
    UNION { S \in SUBSET DOMAIN used : \A c \in S : h[c] > 0 \/ Pointed(S, c) }

\* A block of n words, cleared, in memory that is not in use.
Allocate(c, n) ==
    /\ c + n <= MemSize
    /\ \A d \in DOMAIN used : c + n <= d \/ d + used[d] <= c
    /\ used' = [d \in DOMAIN used \union {c} |-> IF d = c THEN n ELSE used[d]]
    /\ data' = [w \in Addr |-> IF w \in c .. c + n - 1 THEN NULL ELSE data[w]]
    /\ handles' = [handles EXCEPT ![c] = 1]

Retain(c) ==
    /\ handles[c] \in 1 .. MaxHandles - 1
    /\ handles' = [handles EXCEPT ![c] = @ + 1]
    /\ UNCHANGED <<used, data>>

Release(c) ==
    /\ handles[c] > 0
    /\ handles' = [handles EXCEPT ![c] = @ - 1]
    /\ used' = [d \in Lasting(handles') |-> used[d]]
    /\ UNCHANGED data

\* A reference moves from a variable into a word of a block, ...
Store(d, w, c, p) ==
    /\ handles[d] > 0 /\ data[w] = NULL
    /\ handles[c] > (IF d = c THEN 1 ELSE 0)
    /\ data' = [data EXCEPT ![w] = p]
    /\ handles' = [handles EXCEPT ![c] = @ - 1]
    /\ UNCHANGED used

\* ... or from there into a variable.
Take(d, w, c) ==
    /\ handles[d] > 0 /\ data[w] \in Words(c)
    /\ handles[c] < MaxHandles
    /\ data' = [data EXCEPT ![w] = NULL]
    /\ handles' = [handles EXCEPT ![c] = @ + 1]
    /\ UNCHANGED used

Next ==
    \/ \E c \in Addr : \E n \in 1 .. MemSize : Allocate(c, n)
    \/ \E c \in DOMAIN used : Retain(c) \/ Release(c)
    \/ \E d, c \in DOMAIN used : \E w \in Words(d) :
          (\E p \in Words(c) : Store(d, w, c, p)) \/ Take(d, w, c)

Spec == Init /\ [][Next]_vars
=============================================================================
