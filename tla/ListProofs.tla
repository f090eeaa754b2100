----------------------------- MODULE ListProofs -----------------------------
(***************************************************************************)
(* The doubly linked list of MemoryAllocator: that it holds every chunk    *)
(* once and in order, that its back links are right wherever they are      *)
(* followed, and what a search along it therefore finds.                   *)
(***************************************************************************)
EXTENDS MemoryAllocatorProofs

USE MemSizeAssumption, StylesAssumption, NullAssumption
USE DEF ASCENDING_SIZE, DESCENDING_SIZE, ADDRESS

\* pos numbers the chunks on the list from 0 on, in the order in which next
\* runs through them.
Runs(pos) ==
    /\ first \in Listed /\ pos[first] = 0
    /\ \A c, d \in Listed : pos[c] = pos[d] => c = d
    /\ \A c \in Listed :
        /\ pos[c] >= 0
        /\ next[c] = NULL => \A d \in Listed : pos[d] <= pos[c]
        /\ next[c] # NULL => next[c] \in Listed /\ pos[next[c]] = pos[c] + 1

\* c may come before d on a list of this style.
MayPrecede(c, d) ==
    CASE sort = ASCENDING_SIZE  -> size[c] <= size[d]
      [] sort = DESCENDING_SIZE -> size[c] >= size[d]
      [] sort = ADDRESS         -> c < d

InOrder(pos) == \A c, d \in Listed : pos[c] < pos[d] => MayPrecede(c, d)

\* What alloc has passed does not fit.
Searched(pos) ==
    pc = "find" => \A d \in Listed : cur = NULL \/ pos[d] < pos[cur] => ~ Fits(d, bytes)

\* The insertion goes on from where the chunk belongs, or from before that.
Placing(pos) ==
    pc = "insert" =>
        /\ cur \in Listed
        /\ \A d \in Listed : pos[d] < pos[cur] => Beyond(Head(todo), d)

\* A chunk that waits to be inserted waits once, and leads nowhere.
Waiting ==
    /\ Len(todo) = 2 => todo[1] # todo[2]
    /\ \A i \in 1 .. Len(todo) : next[todo[i]] = NULL /\ prev[todo[i]] = NULL

\* The invariant of the list, inductive together with IInv.
ListInv ==
    /\ Waiting
    /\ BackLinks
    /\ \E pos \in [Addr -> Int] : Runs(pos) /\ InOrder(pos) /\ Searched(pos) /\ Placing(pos)

----------------------------------------------------------------------------
(* How the numbers change when a chunk joins or leaves the list. *)

With(pos, x, k) ==
    [c \in Addr |-> IF c = x THEN k ELSE IF pos[c] >= k THEN pos[c] + 1 ELSE pos[c]]

Without(pos, x) == [c \in Addr |-> IF pos[c] > pos[x] THEN pos[c] - 1 ELSE pos[c]]

\* A chunk put in front of all others.
LEMMA RunsFront ==
    ASSUME NEW pos \in [Addr -> Int], Runs(pos), NEW x \in Addr \ Listed,
           Listed \subseteq Addr, Listed' = Listed \union {x},
           first' = x, next'[x] = first, \A c \in Listed : next'[c] = next[c]
    PROVE  Runs(With(pos, x, 0))'
<1> DEFINE new == With(pos, x, 0)
<1>1. new[x] = 0 /\ \A c \in Listed : pos[c] \in Int /\ pos[c] >= 0 /\ new[c] = pos[c] + 1
  BY DEF With, Runs
<1> HIDE DEF new
<1>2. first \in Listed /\ pos[first] = 0 /\ first # NULL
  BY DEF Runs, Addr
<1>3. \A c, d \in Listed' : new[c] = new[d] => c = d
  BY <1>1 DEF Runs
<1>4. ASSUME NEW c \in Listed' PROVE
        /\ new[c] >= 0
        /\ next'[c] = NULL => \A d \in Listed' : new[d] <= new[c]
        /\ next'[c] # NULL => next'[c] \in Listed' /\ new[next'[c]] = new[c] + 1
  <2>1. CASE c = x
    BY <1>1, <1>2, <2>1
  <2>2. CASE c \in Listed
    BY <1>1, <2>2 DEF Runs
  <2> QED
    BY <2>1, <2>2
<1> QED
  BY <1>1, <1>3, <1>4 DEF Runs, new

\* A chunk put behind another one.
LEMMA RunsAfter ==
    ASSUME NEW pos \in [Addr -> Int], Runs(pos), NEW x \in Addr \ Listed, NEW a \in Listed,
           Listed \subseteq Addr, Listed' = Listed \union {x},
           first' = first, next'[a] = x, next'[x] = next[a],
           \A c \in Listed \ {a} : next'[c] = next[c]
    PROVE  Runs(With(pos, x, pos[a] + 1))'
<1> DEFINE k == pos[a] + 1
           new == With(pos, x, k)
<1>1. /\ k \in Int /\ k > 0 /\ new[x] = k
      /\ \A c \in Listed : /\ pos[c] \in Int /\ pos[c] >= 0
                           /\ new[c] = IF pos[c] >= k THEN pos[c] + 1 ELSE pos[c]
  BY DEF With, Runs
<1> HIDE DEF new
<1>2. first \in Listed /\ pos[first] = 0 /\ new[first] = 0
  BY <1>1 DEF Runs
<1>3. \A c, d \in Listed' : new[c] = new[d] => c = d
  <2>1. \A c, d \in Listed : new[c] = new[d] => pos[c] = pos[d]
    BY <1>1
  <2>2. \A c \in Listed : new[c] # k
    BY <1>1
  <2> QED
    BY <1>1, <2>1, <2>2 DEF Runs
<1>4. ASSUME NEW c \in Listed' PROVE
        /\ new[c] >= 0
        /\ next'[c] = NULL => \A d \in Listed' : new[d] <= new[c]
        /\ next'[c] # NULL => next'[c] \in Listed' /\ new[next'[c]] = new[c] + 1
  <2>1. CASE c = x
    BY <1>1, <2>1 DEF Runs
  <2>2. CASE c = a
    BY <1>1, <2>2 DEF Addr
  <2>3. CASE c \in Listed \ {a}
    <3>1. pos[c] # pos[a] /\ next'[c] = next[c]
      BY <2>3 DEF Runs
    <3>2. CASE next[c] = NULL
      <4>1. \A d \in Listed : pos[d] <= pos[c]
        BY <2>3, <3>2 DEF Runs
      <4> QED
        BY <1>1, <2>3, <3>1, <3>2, <4>1
    <3>3. CASE next[c] # NULL
      <4>1. next[c] \in Listed /\ pos[next[c]] = pos[c] + 1
        BY <2>3, <3>3 DEF Runs
      <4> QED
        BY <1>1, <2>3, <3>1, <3>3, <4>1
    <3> QED
      BY <3>2, <3>3
  <2> QED
    BY <2>1, <2>2, <2>3
<1> QED
  BY <1>2, <1>3, <1>4 DEF Runs, new

\* A chunk taken off the list.
LEMMA RunsWithout ==
    ASSUME NEW pos \in [Addr -> Int], Runs(pos), NEW x \in Listed,
           Listed \subseteq Addr, Listed' = Listed \ {x},
           x = first => next[x] # NULL,
           first' = IF x = first THEN next[x] ELSE first,
           \A c \in Listed \ {x} : next'[c] = IF next[c] = x THEN next[x] ELSE next[c]
    PROVE  Runs(Without(pos, x))'
<1> DEFINE new == Without(pos, x)
<1>1. /\ pos[x] \in Int /\ pos[x] >= 0
      /\ \A c \in Listed : /\ pos[c] \in Int /\ pos[c] >= 0
                           /\ new[c] = IF pos[c] > pos[x] THEN pos[c] - 1 ELSE pos[c]
  BY DEF Without, Runs
<1> HIDE DEF new
<1>2. next[x] # NULL => next[x] \in Listed' /\ pos[next[x]] = pos[x] + 1 /\ new[next[x]] = pos[x]
  BY <1>1 DEF Runs
<1>3. first' \in Listed' /\ new[first'] = 0
  BY <1>1, <1>2 DEF Runs
<1>4. \A c \in Listed' : c \in Listed /\ pos[c] # pos[x]
  BY DEF Runs
<1>5. \A c, d \in Listed' : new[c] = new[d] => c = d
  BY <1>1, <1>4 DEF Runs
<1>6. ASSUME NEW c \in Listed' PROVE
        /\ new[c] >= 0
        /\ next'[c] = NULL => \A d \in Listed' : new[d] <= new[c]
        /\ next'[c] # NULL => next'[c] \in Listed' /\ new[next'[c]] = new[c] + 1
  <2>1. CASE next[c] = x
    <3>1. next'[c] = next[x] /\ pos[x] = pos[c] + 1 /\ new[c] = pos[c]
      BY <1>1, <1>4, <2>1 DEF Runs, Addr
    <3>2. CASE next[x] = NULL
      <4>1. \A d \in Listed : pos[d] <= pos[x]
        BY <3>2 DEF Runs
      <4> QED
        BY <1>1, <1>4, <3>1, <3>2, <4>1
    <3> QED
      BY <1>1, <1>2, <1>4, <3>1, <3>2
  <2>2. CASE next[c] # x
    <3>1. next'[c] = next[c]
      BY <2>2
    <3>2. CASE next[c] = NULL
      <4>1. \A d \in Listed : pos[d] <= pos[c]
        BY <1>4, <3>2 DEF Runs
      <4> QED
        BY <1>1, <1>4, <3>1, <3>2, <4>1
    <3>3. CASE next[c] # NULL
      <4>1. next[c] \in Listed' /\ pos[next[c]] = pos[c] + 1
        BY <1>4, <2>2, <3>3 DEF Runs
      <4> QED
        BY <1>1, <1>4, <3>1, <3>3, <4>1
    <3> QED
      BY <3>2, <3>3
  <2> QED
    BY <2>1, <2>2
<1> QED
  BY <1>3, <1>5, <1>6 DEF Runs, new

----------------------------------------------------------------------------
(* Facts about one state. *)

\* But for an insertion, every chunk is on the list.
LEMMA NothingWaits == IInv /\ pc # "insert" => Todo = {} /\ Listed = live
  BY DEF IInv, Closure, Todo, Listed

\* The chunks on the list have addresses, and numbers.
LEMMA ListedTyped ==
    IInv => /\ Listed \subseteq live /\ live \subseteq Addr /\ NULL \notin Addr
            /\ \A pos \in [Addr -> Int] : \A c \in Listed : pos[c] \in Int
  BY DEF IInv, Typed, Listed, Addr

\* In the orders by size a chunk off the front is reached from its prev only.
LEMMA PrevIsPredecessor ==
    ASSUME IInv, BackLinks, sort # ADDRESS,
           NEW pos \in [Addr -> Int], Runs(pos), NEW x \in Listed
    PROVE  /\ x = first <=> prev[x] = NULL
           /\ x # first => prev[x] \in Listed /\ next[prev[x]] = x /\ pos[x] = pos[prev[x]] + 1
           /\ \A c \in Listed : next[c] = x <=> prev[x] = c
<1>1. /\ Listed \subseteq Addr /\ NULL \notin Addr /\ \A c \in Listed : pos[c] \in Int
      /\ x # NULL
  BY ListedTyped
<1>2. /\ x = first => prev[x] = NULL
      /\ x # first => prev[x] \in Listed /\ next[prev[x]] = x
  BY DEF BackLinks
<1>3. \A c \in Listed : next[c] = x => pos[x] = pos[c] + 1
  BY <1>1 DEF Runs
<1>4. ASSUME NEW c \in Listed PROVE next[c] = x <=> prev[x] = c
  <2>1. CASE x = first
    <3>1. prev[x] # c
      BY <1>1, <1>2, <2>1
    <3>2. pos[x] = 0 /\ pos[c] >= 0 /\ pos[c] \in Int
      BY <1>1, <2>1 DEF Runs
    <3>3. next[c] # x
      BY <1>3, <3>2
    <3> QED
      BY <3>1, <3>3
  <2>2. CASE x # first
    <3>1. next[c] = x => pos[c] = pos[prev[x]]
      BY <1>1, <1>2, <1>3, <2>2
    <3> QED
      BY <1>2, <2>2, <3>1 DEF Runs
  <2> QED
    BY <2>1, <2>2
<1> QED
  BY <1>1, <1>2, <1>3, <1>4

\* What comes after c on the list may follow what comes before it.
LEMMA OrderIsTransitive ==
    ASSUME IInv, sort # ADDRESS, NEW x \in live,
           NEW pos \in [Addr -> Int], InOrder(pos), NEW c \in Listed, NEW d \in Listed,
           pos[c] <= pos[d], c = d \/ pos[c] # pos[d], ~ Beyond(x, c)
    PROVE  ~ Beyond(x, d)
<1>1. size[c] \in Int /\ size[d] \in Int /\ size[x] \in Int /\ sort \in {1, 2}
  BY ListedTyped DEF IInv, Typed
<1>2. CASE c = d
  BY <1>2
<1>3. CASE c # d
  <2>1. pos[c] < pos[d]
    BY ListedTyped, <1>3
  <2>2. MayPrecede(c, d)
    BY <2>1 DEF InOrder
  <2>3. CASE sort = ASCENDING_SIZE
    <3>1. size[c] <= size[d] /\ size[x] <= size[c]
      BY <1>1, <2>2, <2>3 DEF MayPrecede, Beyond
    <3> QED
      BY <1>1, <2>3, <3>1 DEF Beyond
  <2>4. CASE sort = DESCENDING_SIZE
    <3>1. size[c] >= size[d] /\ size[x] >= size[c]
      BY <1>1, <2>2, <2>4 DEF MayPrecede, Beyond
    <3> QED
      BY <1>1, <2>4, <3>1 DEF Beyond
  <2> QED
    BY <1>1, <2>3, <2>4
<1> QED
  BY <1>2, <1>3

\* The insertion compares as the order wants it.
LEMMA BeyondIsOrder ==
    ASSUME sort \in {1, 2}, NEW x, NEW c, size[x] \in Int, size[c] \in Int
    PROVE  /\ Beyond(x, c) => MayPrecede(c, x)
           /\ ~ Beyond(x, c) => MayPrecede(x, c)
<1>1. CASE sort = 1
  BY <1>1 DEF Beyond, MayPrecede
<1>2. CASE sort = 2
  BY <1>2 DEF Beyond, MayPrecede
<1> QED
  BY <1>1, <1>2

----------------------------------------------------------------------------
(* The steps that leave the list as it is. *)

\* What of the list invariant is about the list alone stays as it is.
LEMMA ListUnchanged ==
    ASSUME IInv, ListInv, UNCHANGED <<list, live, next, prev, size, todo>>,
           NEW pos \in [Addr -> Int], Runs(pos), InOrder(pos)
    PROVE  /\ Listed' = Listed /\ Waiting' /\ BackLinks'
           /\ Runs(pos)' /\ InOrder(pos)'
<1>1. Listed' = Listed
  BY DEF Listed, Todo
<1> QED
  BY <1>1 DEF ListInv, Waiting, BackLinks, Runs, InOrder, MayPrecede, list

\* Between searches and insertions, nothing that leaves the links and the
\* sizes alone can harm the list: marking, counting, walking.
LEMMA ListKept ==
    ASSUME IInv, ListInv, UNCHANGED <<list, live, next, prev, size, todo>>,
           pc' \notin {"find", "insert"}
    PROVE  ListInv'
<1>1. PICK pos \in [Addr -> Int] : Runs(pos) /\ InOrder(pos)
  BY DEF ListInv
<1>2. Waiting' /\ BackLinks' /\ Runs(pos)' /\ InOrder(pos)'
  BY <1>1, ListUnchanged
<1>3. Searched(pos)' /\ Placing(pos)'
  BY DEF Searched, Placing
<1> QED
  BY <1>2, <1>3 DEF ListInv

\* A search starts at the front of the list.
LEMMA SearchStarts ==
    ASSUME IInv, ListInv, UNCHANGED <<list, live, next, prev, size, todo>>,
           pc' = "find", cur' = first
    PROVE  ListInv'
<1>1. PICK pos \in [Addr -> Int] : Runs(pos) /\ InOrder(pos)
  BY DEF ListInv
<1>2. Listed' = Listed /\ Waiting' /\ BackLinks' /\ Runs(pos)' /\ InOrder(pos)'
  BY <1>1, ListUnchanged
<1>3. first # NULL /\ \A d \in Listed : ~ (pos[d] < pos[first])
  BY <1>1, ListedTyped DEF Runs
<1>4. Searched(pos)' /\ Placing(pos)'
  BY <1>2, <1>3 DEF Searched, Placing
<1> QED
  BY <1>2, <1>4 DEF ListInv

\* The search goes on: what it leaves behind did not fit.
LEMMA SearchGoesOn ==
    ASSUME IInv, ListInv, FindNext
    PROVE  ListInv'
<1>1. /\ pc = "find" /\ cur # NULL /\ ~ Fits(cur, bytes) /\ cur' = next[cur]
      /\ UNCHANGED <<list, live, next, prev, size, mark, todo, bytes, pc>>
  BY DEF FindNext, chunk
<1>2. PICK pos \in [Addr -> Int] : Runs(pos) /\ InOrder(pos) /\ Searched(pos)
  BY DEF ListInv
<1>3. Listed' = Listed /\ Waiting' /\ BackLinks' /\ Runs(pos)' /\ InOrder(pos)'
  BY <1>1, <1>2, ListUnchanged
<1>4. cur \in Listed /\ \A d \in Listed : pos[d] \in Int
  BY <1>1, NothingWaits, ListedTyped DEF IInv, Closure
<1>5. ASSUME NEW d \in Listed, cur' = NULL \/ pos[d] < pos[cur'] PROVE ~ Fits(d, bytes)
  <2>1. pos[d] <= pos[cur]
    BY <1>1, <1>2, <1>4, <1>5 DEF Runs
  <2>2. d = cur \/ pos[d] < pos[cur]
    BY <1>2, <1>4, <2>1 DEF Runs
  <2> QED
    BY <1>1, <1>2, <2>2 DEF Searched
<1>6. Searched(pos)' /\ Placing(pos)'
  BY <1>1, <1>3, <1>5 DEF Searched, Placing, Fits
<1> QED
  BY <1>3, <1>6 DEF ListInv

\* The insertion goes on: the new chunk belongs behind what it passes.
LEMMA InsertGoesOn ==
    ASSUME IInv, ListInv, InsertWalk
    PROVE  ListInv'
<1>1. /\ pc = "insert" /\ next[cur] # NULL /\ Beyond(Head(todo), cur) /\ cur' = next[cur]
      /\ UNCHANGED <<list, live, next, prev, size, todo, pc>>
  BY DEF InsertWalk, chunk
<1>2. PICK pos \in [Addr -> Int] : Runs(pos) /\ InOrder(pos) /\ Placing(pos)
  BY DEF ListInv
<1>3. Listed' = Listed /\ Waiting' /\ BackLinks' /\ Runs(pos)' /\ InOrder(pos)'
  BY <1>1, <1>2, ListUnchanged
<1>4. /\ cur \in Listed /\ next[cur] \in Listed /\ pos[next[cur]] = pos[cur] + 1
      /\ \A d \in Listed : pos[d] = pos[cur] => d = cur
      /\ \A d \in Listed : pos[d] < pos[cur] => Beyond(Head(todo), d)
  BY <1>1, <1>2 DEF Runs, Placing
<1>5. ASSUME NEW d \in Listed, pos[d] < pos[next[cur]] PROVE Beyond(Head(todo), d)
  <2>1. pos[d] = pos[cur] \/ pos[d] < pos[cur]
    BY <1>4, <1>5, ListedTyped
  <2> QED
    BY <1>1, <1>4, <2>1
<1>6. Placing(pos)'
  BY <1>1, <1>3, <1>4, <1>5 DEF Placing, Beyond, list
<1>7. Searched(pos)'
  BY <1>1 DEF Searched
<1> QED
  BY <1>3, <1>6, <1>7 DEF ListInv

----------------------------------------------------------------------------
(* The steps in address order that change the list. *)

\* A new chunk follows, on the list and in the arena, the one it is cut from.
LEMMA SplitAddressList ==
    ASSUME IInv, IInv', ListInv, SplitAddress
    PROVE  ListInv'
<1>0. PICK n : n = cur + bytes
  OBVIOUS
<1>1. /\ cur \in live /\ bytes \in 1 .. size[cur] /\ Carve(cur, bytes)
      /\ sort = ADDRESS /\ sort' = sort /\ first' = first /\ pc = "find"
      /\ pc' = "client" /\ todo' = <<>> /\ Listed = live
  <2>1. cur # NULL /\ Fits(cur, bytes) /\ Carve(cur, bytes) /\ pc = "find" /\ sort = ADDRESS
    BY DEF SplitAddress
  <2>2. bytes \in 1 .. size[cur] /\ cur \in live
    BY <2>1 DEF Fits, IInv, Typed, Closure, Addr, Requests
  <2> QED
    BY <2>1, <2>2, NothingWaits DEF SplitAddress, Return
<1>2. PICK pos \in [Addr -> Int] : Runs(pos) /\ InOrder(pos)
  BY DEF ListInv
<1>3. CASE size[cur] = bytes
  <2>1. UNCHANGED <<list, live, next, prev, size, todo>>
    BY <1>1, <1>3 DEF SplitAddress, Carve, list, IInv, Closure
  <2> QED
    BY <1>1, <2>1, ListKept
<1>4. CASE size[cur] # bytes
  <2>1. /\ live' = live \union {n} /\ n \in Addr \ live /\ Listed' = Listed \union {n}
        /\ size'[cur] = bytes /\ size'[n] = size[cur] - bytes
        /\ \A d \in live \ {cur} : size'[d] = size[d]
    <3>1. bytes < size[cur]
      BY <1>1, <1>4 DEF IInv, Typed
    <3>2. live' = live \union {n} /\ n \in Addr \ live
      BY <1>0, <1>1, <3>1, CarveTiling
    <3>3. Listed' = live'
      BY <1>1 DEF Listed, Todo
    <3> QED
      BY <1>0, <1>1, <3>1, <3>2, <3>3, CarveTiling
  <2>2. next' = [next EXCEPT ![cur] = n, ![n] = next[cur]]
    BY <1>0, <1>4 DEF SplitAddress
  <2>3. /\ next'[cur] = n /\ next'[n] = next[cur]
        /\ \A c \in live \ {cur} : next'[c] = next[c]
    BY <1>1, <2>1, <2>2 DEF IInv, Typed
  <2>4. PICK a : a = cur
    OBVIOUS
  <2> DEFINE new == With(pos, n, pos[a] + 1)
  <2>5. Runs(new)'
    <3>1. a \in Listed /\ n \in Addr \ Listed /\ Listed \subseteq Addr
      BY <1>1, <2>1, <2>4, ListedTyped
    <3>2. next'[a] = n /\ next'[n] = next[a] /\ \A c \in Listed \ {a} : next'[c] = next[c]
      BY <1>1, <2>3, <2>4
    <3> QED
      BY <1>1, <1>2, <2>1, <3>1, <3>2, RunsAfter
  <2>6. new \in [Addr -> Int] /\ new[n] = pos[a] + 1 /\ pos[a] \in Int
        /\ \A c \in live : /\ pos[c] \in Int /\ c \in Int /\ c \in Addr
                           /\ new[c] = IF pos[c] > pos[a] THEN pos[c] + 1 ELSE pos[c]
    BY <1>1, <2>1, <2>4, ListedTyped DEF With, Addr
  <2> HIDE DEF new
  <2>7. ASSUME NEW c \in live', NEW d \in live', new[c] < new[d]
        PROVE  c < d
    <3>1. \A e, f \in live : pos[e] < pos[f] => e < f
      BY <1>1, <1>2 DEF InOrder, MayPrecede
    <3>2. n \in Int /\ a \in Int /\ size[a] \in Int /\ a < n /\ n < a + size[a]
      <4>1. a \in Addr /\ size[a] \in 0 .. MemSize /\ bytes \in 1 .. size[a] /\ size[a] # bytes
        BY <1>1, <1>4, <2>4 DEF IInv, Typed
      <4> QED
        BY <1>0, <2>4, <4>1 DEF Addr
    <3>3. \A e, f \in live : pos[e] = pos[f] => e = f
      BY <1>1, <1>2 DEF Runs
    <3>4. CASE c \in live /\ d \in live
      BY <2>6, <2>7, <3>1, <3>4
    <3>5. CASE c = n /\ d \in live
      <4>1. pos[a] < pos[d]
        BY <2>4, <2>6, <2>7, <3>5, <1>1
      <4>2. a < d /\ a + size[a] <= d
        BY <1>1, <2>4, <3>1, <3>5, <4>1 DEF IInv, Tiling
      <4> QED
        BY <2>6, <3>2, <3>5, <4>2
    <3>6. CASE c \in live /\ d = n
      <4>1. pos[c] <= pos[a]
        BY <2>4, <2>6, <2>7, <3>6, <1>1
      <4>2. c < a \/ c = a
        BY <1>1, <2>4, <2>6, <3>1, <3>3, <3>6, <4>1
      <4> QED
        BY <2>6, <3>2, <3>6, <4>2
    <3> QED
      BY <2>1, <2>6, <2>7, <3>4, <3>5, <3>6
  <2>8. InOrder(new)' /\ Listed' = live'
    BY <1>1, <2>1, <2>7 DEF InOrder, MayPrecede
  <2>9. Waiting' /\ BackLinks' /\ Searched(new)' /\ Placing(new)'
    BY <1>1 DEF Waiting, BackLinks, Searched, Placing
  <2> QED
    BY <2>5, <2>6, <2>8, <2>9 DEF ListInv
<1> QED
  BY <1>3, <1>4

\* Taking a chunk off the list does not change the order of the others.
LEMMA OrderWithout ==
    ASSUME NEW pos \in [Addr -> Int], Listed \subseteq Addr, NEW x \in Listed,
           NEW c \in Listed, NEW d \in Listed, Without(pos, x)[c] < Without(pos, x)[d]
    PROVE  pos[c] < pos[d]
<1>1. /\ pos[c] \in Int /\ pos[d] \in Int /\ pos[x] \in Int
      /\ Without(pos, x)[c] = IF pos[c] > pos[x] THEN pos[c] - 1 ELSE pos[c]
      /\ Without(pos, x)[d] = IF pos[d] > pos[x] THEN pos[d] - 1 ELSE pos[d]
  BY DEF Without
<1> QED
  BY <1>1

\* The chunk after the cursor is merged into it, and leaves the list.
LEMMA ConcatMergeList ==
    ASSUME IInv, ListInv, ConcatMerge
    PROVE  ListInv'
<1>0. PICK x : x = next[cur]
  OBVIOUS
<1>1. /\ pc = "concat" /\ cur # NULL /\ x # NULL /\ UNCHANGED <<sort, pc, first, todo>>
      /\ next' = [next EXCEPT ![cur] = next[x], ![x] = NULL]
      /\ live' = live \ {x}
  BY <1>0 DEF ConcatMerge
<1>2. /\ sort = ADDRESS /\ todo = <<>> /\ Listed = live /\ Listed' = live'
      /\ cur \in live /\ live \subseteq Addr /\ next \in [Addr -> Ptr]
  BY <1>1, NothingWaits DEF IInv, Typed, Closure, AddressLinks, Listed, Todo
<1>3. PICK pos \in [Addr -> Int] : Runs(pos) /\ InOrder(pos)
  BY DEF ListInv
<1>4. /\ x \in live /\ pos[x] = pos[cur] + 1 /\ x # first
      /\ \A c \in live : next[c] = x => c = cur
  <2>1. \A c \in live : next[c] = x => pos[x] = pos[c] + 1 /\ x \in live
    BY <1>1, <1>2, <1>3 DEF Runs
  <2>2. \A c \in live : pos[c] \in Int /\ pos[c] >= 0
    BY <1>2, <1>3 DEF Runs
  <2>3. x # first
    BY <1>0, <1>2, <1>3, <2>1, <2>2 DEF Runs
  <2>4. \A c \in live : next[c] = x => pos[c] = pos[cur]
    BY <1>0, <1>2, <2>1, <2>2
  <2> QED
    BY <1>0, <1>2, <1>3, <2>1, <2>3, <2>4 DEF Runs
<1>5. \A c \in live \ {x} : next'[c] = IF next[c] = x THEN next[x] ELSE next[c]
  BY <1>0, <1>1, <1>2, <1>4
<1> DEFINE new == Without(pos, x)
<1>6. Runs(new)'
  BY <1>1, <1>2, <1>3, <1>4, <1>5, RunsWithout
<1>7. InOrder(new)'
  <2> SUFFICES ASSUME NEW c \in live', NEW d \in live', new[c] < new[d]
               PROVE  c < d
    BY <1>1, <1>2 DEF InOrder, MayPrecede
  <2>1. pos[c] < pos[d]
    BY <1>1, <1>2, <1>4, OrderWithout
  <2> QED
    BY <1>1, <1>2, <1>3, <2>1 DEF InOrder, MayPrecede
<1>8. new \in [Addr -> Int]
  BY <1>2, <1>4 DEF Without
<1>9. Waiting' /\ BackLinks' /\ Searched(new)' /\ Placing(new)'
  BY <1>1, <1>2 DEF Waiting, BackLinks, Searched, Placing
<1> HIDE DEF new
<1> QED
  BY <1>6, <1>7, <1>8, <1>9 DEF ListInv

----------------------------------------------------------------------------
(* The steps in the orders by size that change the list. *)

\* A piece cut off the chunk at the front: the chunk stays where it is.
LEMMA SplitInPlaceList ==
    ASSUME IInv, ListInv, SplitInPlace
    PROVE  ListInv'
<1>0. PICK a, n : a = cur /\ n = cur + bytes
  OBVIOUS
<1>1. /\ pc = "find" /\ a # NULL /\ sort # ADDRESS /\ bytes < size[a]
      /\ prev[a] = NULL /\ (next[a] = NULL \/ sort = ASCENDING_SIZE)
      /\ next' = [next EXCEPT ![n] = NULL] /\ prev' = [prev EXCEPT ![n] = NULL]
      /\ pc' = "insert" /\ todo' = <<n>> /\ cur' = first /\ UNCHANGED list
  <2>1. Fits(cur, bytes) /\ size[cur] > bytes
    BY DEF SplitInPlace
  <2> QED
    BY <1>0, <2>1 DEF SplitInPlace
<1>2. /\ Listed = live /\ a \in live /\ live \subseteq Addr
      /\ next \in [Addr -> Ptr] /\ prev \in [Addr -> Ptr]
      /\ bytes \in 1 .. size[a] /\ Carve(a, bytes)
  <2>1. Carve(a, bytes)
    BY <1>0 DEF SplitInPlace
  <2>2. Listed = live /\ a \in live
    BY <1>0, <1>1, NothingWaits DEF IInv, Closure
  <2>3. /\ live \subseteq Addr /\ next \in [Addr -> Ptr] /\ prev \in [Addr -> Ptr]
        /\ size[a] \in Int /\ bytes \in Int /\ bytes > 0
    BY <1>1, <2>2 DEF IInv, Typed, Closure, Requests
  <2> QED
    BY <1>1, <2>1, <2>2, <2>3
<1>3. /\ live' = live \union {n} /\ n \in Addr \ live
      /\ size'[a] = bytes /\ \A d \in live \ {a} : size'[d] = size[d]
  BY <1>0, <1>1, <1>2, CarveTiling
<1>4. Listed' = live
  BY <1>1, <1>3 DEF Listed, Todo
<1>5. \A c \in live : next'[c] = next[c] /\ prev'[c] = prev[c]
  BY <1>1, <1>2, <1>3
<1>6. PICK pos \in [Addr -> Int] : Runs(pos) /\ InOrder(pos)
  BY DEF ListInv
<1>7. a = first
  BY <1>0, <1>1, <1>2, <1>6, PrevIsPredecessor DEF ListInv
<1>8. Runs(pos)'
  BY <1>1, <1>2, <1>4, <1>5, <1>6 DEF Runs, list
<1>9. InOrder(pos)'
  <2> SUFFICES ASSUME NEW c \in live, NEW d \in live, pos[c] < pos[d]
               PROVE  MayPrecede(c, d)'
    BY <1>4 DEF InOrder
  <2>1. d # a /\ size'[d] = size[d] /\ pos[d] > pos[a]
    BY <1>2, <1>3, <1>6, <1>7 DEF Runs
  <2>2. sort = ASCENDING_SIZE
    BY <1>1, <1>2, <1>6, <2>1, ListedTyped DEF Runs
  <2>3. size[c] <= size[d]
    BY <1>2, <1>6, <2>2 DEF InOrder, MayPrecede
  <2>4. size'[c] <= size'[d]
    <3>1. size[a] \in Int /\ size[c] \in Int /\ size[d] \in Int
      BY <1>2 DEF IInv, Typed
    <3>2. size'[c] <= size[c]
      <4>1. c # a => size'[c] = size[c]
        BY <1>3
      <4>2. c = a => size'[c] = bytes /\ bytes \in Int
        BY <1>2, <1>3
      <4> QED
        BY <1>1, <3>1, <4>1, <4>2
    <3> QED
      BY <1>2, <1>3, <2>1, <2>3, <3>1, <3>2
  <2> QED
    BY <1>1, <2>2, <2>4 DEF MayPrecede, list
<1>10. Searched(pos)' /\ Placing(pos)'
  BY <1>1, <1>2, <1>4, <1>6 DEF Searched, Placing, Runs, list
<1>11. BackLinks'
  BY <1>1, <1>2, <1>4, <1>5 DEF ListInv, BackLinks, list
<1>12. Waiting'
  BY <1>1, <1>2, <1>3 DEF Waiting
<1> QED
  BY <1>8, <1>9, <1>10, <1>11, <1>12 DEF ListInv

\* A chunk taken off the list, its two pieces waiting to be inserted.
LEMMA SplitDetachList ==
    ASSUME IInv, ListInv, SplitDetach
    PROVE  ListInv'
<1>0. PICK x, n, p, v : x = cur /\ n = cur + bytes /\ p = prev[cur] /\ v = next[cur]
  OBVIOUS
<1>1. /\ pc = "find" /\ x # NULL /\ sort # ADDRESS /\ bytes < size[x] /\ UNCHANGED sort
      /\ p = NULL => v # NULL
      /\ next' = Detached(next, p, v, x, n) /\ prev' = Detached(prev, v, p, x, n)
      /\ first' = IF p = NULL THEN v ELSE first
      /\ pc' = "insert" /\ cur' = first' /\ (todo' = <<x, n>> \/ todo' = <<n, x>>)
      /\ Carve(x, bytes)
  <2>1. size[cur] > bytes
    BY DEF SplitDetach
  <2> QED
    BY <1>0, <2>1 DEF SplitDetach
<1>2. /\ Listed = live /\ x \in live /\ live \subseteq Addr /\ NULL \notin Addr
      /\ next \in [Addr -> Ptr] /\ prev \in [Addr -> Ptr]
      /\ bytes \in 1 .. size[x]
  <2>1. Listed = live /\ x \in live
    BY <1>0, <1>1, NothingWaits DEF IInv, Closure
  <2>2. live \subseteq Addr /\ next \in [Addr -> Ptr] /\ prev \in [Addr -> Ptr]
    BY DEF IInv, Typed
  <2>3. size[x] \in Int /\ NULL \notin Addr
    BY <2>1, <2>2 DEF IInv, Typed, Addr
  <2>4. bytes \in Int /\ bytes > 0
    BY <1>1 DEF IInv, Typed, Closure, Requests
  <2> QED
    BY <1>1, <2>1, <2>2, <2>3, <2>4
<1>3. /\ live' = live \union {n} /\ n \in Addr \ live
      /\ \A d \in live \ {x} : size'[d] = size[d]
  BY <1>0, <1>1, <1>2, CarveTiling
<1>4. Listed' = live \ {x}
  <2>1. Todo' = {x, n}
    BY <1>1 DEF Todo
  <2> QED
    BY <1>2, <1>3, <2>1 DEF Listed
<1>5. PICK pos \in [Addr -> Int] : Runs(pos) /\ InOrder(pos)
  BY DEF ListInv
<1>6. /\ x = first <=> p = NULL
      /\ x # first => p \in live /\ next[p] = x /\ p # x
      /\ \A c \in live : next[c] = x <=> p = c
      /\ v # NULL => v \in live /\ v # x /\ prev[v] = x /\ v # first
      /\ p # NULL => p # v
  <2>1. \A c \in live : pos[c] \in Int /\ pos[c] >= 0
    BY <1>2, <1>5, ListedTyped DEF Runs
  <2>2. /\ x = first <=> p = NULL
        /\ x # first => p \in live /\ next[p] = x /\ pos[x] = pos[p] + 1
        /\ \A c \in live : next[c] = x <=> p = c
    BY <1>0, <1>1, <1>2, <1>5, PrevIsPredecessor DEF ListInv
  <2>3. v # NULL => v \in live /\ pos[v] = pos[x] + 1
    BY <1>0, <1>2, <1>5 DEF Runs
  <2>4. v # NULL => v # first
    BY <1>2, <1>5, <2>1, <2>3 DEF Runs
  <2>5. v # NULL => prev[v] = x
    BY <1>0, <1>1, <1>2, <1>5, <2>3, PrevIsPredecessor DEF ListInv
  <2>6. (v # NULL => v # x) /\ (x # first => p # x) /\ (x # first => p # v)
    BY <1>2, <2>1, <2>2, <2>3
  <2> QED
    BY <2>2, <2>3, <2>4, <2>5, <2>6
<1>7. /\ \A c \in live \ {x} : /\ next'[c] = IF c = p THEN v ELSE next[c]
                               /\ prev'[c] = IF c = v THEN p ELSE prev[c]
      /\ next'[x] = NULL /\ next'[n] = NULL /\ prev'[x] = NULL /\ prev'[n] = NULL
  BY <1>1, <1>2, <1>3, <1>6 DEF Detached, Store
<1> DEFINE new == Without(pos, x)
<1>8. Runs(new)' 
  <2>1. \A c \in live \ {x} : next'[c] = IF next[c] = x THEN next[x] ELSE next[c]
    BY <1>0, <1>6, <1>7
  <2>2. x = first => next[x] # NULL
    BY <1>0, <1>1, <1>6
  <2>3. first' = IF x = first THEN next[x] ELSE first
    BY <1>0, <1>1, <1>6
  <2> QED
    BY <1>2, <1>4, <1>5, <2>1, <2>2, <2>3, RunsWithout
<1>9. InOrder(new)'
  <2> SUFFICES ASSUME NEW c \in live \ {x}, NEW d \in live \ {x}, new[c] < new[d]
               PROVE  MayPrecede(c, d)'
    BY <1>4 DEF InOrder
  <2>1. pos[c] < pos[d]
    BY <1>2, OrderWithout
  <2>2. MayPrecede(c, d)
    BY <1>2, <1>5, <2>1 DEF InOrder
  <2> QED
    BY <1>1, <1>3, <2>2 DEF MayPrecede
<1>10. new \in [Addr -> Int]
  BY <1>2 DEF Without
<1> HIDE DEF new
<1>11. Searched(new)' /\ Placing(new)'
  <2>1. \A d \in Listed' : ~ (new[d] < new[first'])
    <3>1. first' \in Listed' /\ new[first'] = 0 /\ \A d \in Listed' : new[d] >= 0
      BY <1>8 DEF Runs
    <3>2. \A d \in Listed' : new[d] \in Int
      BY <1>2, <1>4, <1>10
    <3> QED
      BY <3>1, <3>2
  <2> QED
    BY <1>1, <1>8, <2>1 DEF Searched, Placing, Runs
<1>12. BackLinks'
  <2> SUFFICES ASSUME NEW c \in live \ {x}
               PROVE  IF c = first' THEN prev'[c] = NULL
                      ELSE prev'[c] \in live \ {x} /\ next'[prev'[c]] = c
    BY <1>1, <1>4 DEF BackLinks
  <2>1. IF c = first THEN prev[c] = NULL ELSE prev[c] \in live /\ next[prev[c]] = c
    BY <1>1, <1>2 DEF ListInv, BackLinks
  <2>2. CASE c = v
    BY <1>1, <1>2, <1>6, <1>7, <2>2
  <2>3. CASE c # v
    <3>1. prev'[c] = prev[c] /\ (c = first' <=> c = first)
      BY <1>1, <1>6, <1>7, <2>3
    <3>2. c # first => prev[c] # x /\ prev[c] # p
      BY <1>0, <1>2, <1>6, <2>1, <2>3
    <3> QED
      BY <1>7, <2>1, <3>1, <3>2
  <2> QED
    BY <2>2, <2>3
<1>13. Waiting'
  BY <1>1, <1>2, <1>3, <1>7 DEF Waiting
<1> QED
  BY <1>8, <1>9, <1>10, <1>11, <1>12, <1>13 DEF ListInv

\* x = Head(todo) joins the list as number k, in front of what it need not follow.
LEMMA InsertedList ==
    ASSUME IInv, ListInv, pc = "insert", Inserted, UNCHANGED <<sort, live, size>>,
           NEW x, x = Head(todo), Listed' = Listed \union {x},
           NEW k \in Int, NEW pos \in [Addr -> Int], Runs(pos), InOrder(pos),
           \A c \in Listed : pos[c] < k => Beyond(x, c),
           \A c \in Listed : pos[c] >= k => ~ Beyond(x, c),
           Runs(With(pos, x, k))', BackLinks',
           \A c \in live \ (Listed \union {x}) : next'[c] = next[c] /\ prev'[c] = prev[c]
    PROVE  ListInv'
<1>1. /\ todo \in Seq(Addr) /\ Len(todo) \in {1, 2} /\ \A i \in 1 .. Len(todo) : todo[i] \in live
      /\ sort # ADDRESS /\ sort \in {1, 2}
  BY DEF IInv, Typed, Closure, AddressLinks
<1>2. x \in live /\ x \in Addr /\ Listed \subseteq Addr /\ Listed \subseteq live
  BY <1>1, ListedTyped
<1> DEFINE new == With(pos, x, k)
<1>3. /\ new \in [Addr -> Int] /\ new[x] = k
      /\ \A c \in Listed : /\ pos[c] \in Int
                           /\ c # x => new[c] = IF pos[c] >= k THEN pos[c] + 1 ELSE pos[c]
  BY <1>2 DEF With
<1> HIDE DEF new
<1>4. InOrder(new)'
  <2> SUFFICES ASSUME NEW c \in Listed \union {x}, NEW d \in Listed \union {x}, new[c] < new[d]
               PROVE  MayPrecede(c, d)'
    BY DEF InOrder
  <2>0. size[c] \in Int /\ size[d] \in Int /\ size[x] \in Int
    BY <1>2 DEF IInv, Typed
  <2>1. CASE c # x /\ d # x
    <3>1. pos[c] < pos[d]
      BY <1>3, <2>1
    <3>2. MayPrecede(c, d)
      BY <2>1, <3>1 DEF InOrder
    <3> QED
      BY <1>1, <3>2 DEF MayPrecede
  <2>2. CASE c # x /\ d = x
    <3>1. Beyond(x, c)
      BY <1>3, <2>2
    <3>2. MayPrecede(c, x)
      BY <1>1, <2>0, <3>1, BeyondIsOrder
    <3> QED
      BY <1>1, <2>2, <3>2 DEF MayPrecede
  <2>3. CASE c = x /\ d # x
    <3>1. ~ Beyond(x, d)
      BY <1>3, <2>3
    <3>2. MayPrecede(x, d)
      BY <1>1, <2>0, <3>1, BeyondIsOrder
    <3> QED
      BY <1>1, <2>3, <3>2 DEF MayPrecede
  <2>4. CASE c = x /\ d = x
    BY <1>3, <2>4
  <2> QED
    BY <2>1, <2>2, <2>3, <2>4
<1>5. /\ pc' \in {"client", "insert"} /\ (pc' = "insert" => cur' = first')
      /\ todo' = <<>> \/ (Len(todo) = 2 /\ todo' = Tail(todo))
  BY <1>1 DEF Inserted, Return
<1>6. Searched(new)' /\ Placing(new)'
  <2>1. first' \in Listed' /\ new[first'] = 0 /\ \A d \in Listed' : new[d] >= 0
    BY DEF Runs, new
  <2>2. \A d \in Listed' : new[d] \in Int
    BY <1>2, <1>3
  <2> QED
    BY <1>5, <2>1, <2>2 DEF Searched, Placing
<1>7. Waiting'
  <2>1. CASE todo' = <<>>
    BY <2>1 DEF Waiting
  <2>2. CASE Len(todo) = 2 /\ todo' = Tail(todo)
    <3>1. Len(todo') = 1 /\ todo'[1] = todo[2] /\ todo[1] = x
      BY <1>1, <2>2
    <3>2. todo[2] # x /\ next[todo[2]] = NULL /\ prev[todo[2]] = NULL
      BY <2>2, <3>1 DEF ListInv, Waiting
    <3>3. todo[2] \in live \ (Listed \union {x})
      BY <1>1, <2>2, <3>2 DEF Listed, Todo
    <3> QED
      BY <3>1, <3>2, <3>3 DEF Waiting
  <2> QED
    BY <1>5, <2>1, <2>2
<1> QED
  BY <1>3, <1>4, <1>6, <1>7 DEF ListInv, new

\* The first to be inserted waits, and once it is inserted it does not.
LEMMA HeadJoins ==
    ASSUME IInv, ListInv, pc = "insert", Inserted, live' = live
    PROVE  /\ Head(todo) \in live \ Listed /\ Listed' = Listed \union {Head(todo)}
           /\ next[Head(todo)] = NULL /\ prev[Head(todo)] = NULL
<1>1. /\ todo \in Seq(Addr) /\ Len(todo) \in {1, 2} /\ \A i \in 1 .. Len(todo) : todo[i] \in live
      /\ Len(todo) = 2 => todo[1] # todo[2]
      /\ Head(todo) = todo[1] /\ next[todo[1]] = NULL /\ prev[todo[1]] = NULL
  BY DEF IInv, Typed, Closure, ListInv, Waiting
<1>2. CASE Len(todo) = 1
  <2>1. Todo = {todo[1]} /\ todo' = <<>>
    BY <1>1, <1>2 DEF Todo, Inserted, Return
  <2> QED
    BY <1>1, <2>1 DEF Listed, Todo
<1>3. CASE Len(todo) = 2
  <2>1. Todo = {todo[1], todo[2]}
    BY <1>3 DEF Todo
  <2>2. Len(todo') = 1 /\ todo'[1] = todo[2]
    <3>1. todo' = Tail(todo)
      BY <1>3 DEF Inserted
    <3>2. todo \in Seq(Addr)
      BY <1>1
    <3>3. Len(Tail(todo)) = 1 /\ Tail(todo)[1] = todo[2]
      BY <1>3, <3>2
    <3> QED
      BY <3>1, <3>3
  <2>3. Todo' = {todo[2]}
    BY <2>2 DEF Todo
  <2> QED
    BY <1>1, <1>3, <2>1, <2>3 DEF Listed
<1> QED
  BY <1>1, <1>2, <1>3

\* In front of the whole list.
LEMMA InsertFrontList ==
    ASSUME IInv, ListInv, InsertFront
    PROVE  ListInv'
<1>0. PICK x : x = Head(todo)
  OBVIOUS
<1>1. /\ pc = "insert" /\ cur = first /\ ~ Beyond(x, cur) /\ Inserted
      /\ next' = [next EXCEPT ![x] = cur] /\ prev' = [prev EXCEPT ![cur] = x] /\ first' = x
      /\ UNCHANGED <<sort, live, size>>
  BY <1>0 DEF InsertFront
<1>2. /\ x \in live \ Listed /\ Listed' = Listed \union {x} /\ prev[x] = NULL
      /\ Listed \subseteq live /\ live \subseteq Addr /\ sort # ADDRESS
      /\ next \in [Addr -> Ptr] /\ prev \in [Addr -> Ptr]
  BY <1>0, <1>1, HeadJoins, ListedTyped DEF IInv, Typed, AddressLinks
<1>3. PICK pos \in [Addr -> Int] : Runs(pos) /\ InOrder(pos)
  BY DEF ListInv
<1>4. /\ first \in Listed /\ pos[first] = 0
      /\ \A c \in Listed : pos[c] \in Int /\ pos[c] >= 0 /\ (pos[c] = 0 => c = first)
  BY <1>3, ListedTyped DEF Runs
<1>5. /\ next'[x] = first /\ \A c \in live \ {x} : next'[c] = next[c]
      /\ prev'[first] = x /\ \A c \in live \ {first} : prev'[c] = prev[c]
  BY <1>1, <1>2, <1>4
<1>6. Runs(With(pos, x, 0))'
  BY <1>1, <1>2, <1>3, <1>5, RunsFront
<1>7. \A c \in Listed : ~ (pos[c] < 0) /\ ~ Beyond(x, c)
  <2> SUFFICES ASSUME NEW c \in Listed PROVE ~ Beyond(x, c)
    BY <1>4
  <2> QED
    BY <1>1, <1>2, <1>3, <1>4, OrderIsTransitive
<1>8. BackLinks'
  <2> SUFFICES ASSUME NEW c \in Listed \union {x}
               PROVE  IF c = x THEN prev'[c] = NULL
                      ELSE prev'[c] \in Listed' /\ next'[prev'[c]] = c
    BY <1>1, <1>2 DEF BackLinks
  <2>1. c # x => (IF c = first THEN prev[c] = NULL ELSE prev[c] \in Listed /\ next[prev[c]] = c)
    BY <1>2 DEF ListInv, BackLinks
  <2> QED
    BY <1>2, <1>4, <1>5, <2>1
<1> QED
  BY <1>0, <1>1, <1>2, <1>3, <1>4, <1>5, <1>6, <1>7, <1>8, InsertedList

\* In front of the chunk at the cursor, found by way of its back link.
LEMMA InsertBeforeList ==
    ASSUME IInv, ListInv, InsertBefore
    PROVE  ListInv'
<1>0. PICK x, a, p : x = Head(todo) /\ a = cur /\ p = prev[cur]
  OBVIOUS
<1>1. /\ pc = "insert" /\ a # first /\ ~ Beyond(x, a) /\ Inserted
      /\ next' = [next EXCEPT ![p] = x, ![x] = a]
      /\ prev' = [prev EXCEPT ![x] = p, ![a] = x]
      /\ UNCHANGED <<sort, live, size, first>>
  BY <1>0 DEF InsertBefore
<1>2. /\ x \in live \ Listed /\ Listed' = Listed \union {x}
      /\ Listed \subseteq live /\ live \subseteq Addr /\ sort # ADDRESS
      /\ next \in [Addr -> Ptr] /\ prev \in [Addr -> Ptr]
  BY <1>0, <1>1, HeadJoins, ListedTyped DEF IInv, Typed, AddressLinks
<1>3. PICK pos \in [Addr -> Int] : Runs(pos) /\ InOrder(pos) /\ Placing(pos)
  BY DEF ListInv
<1>4. /\ a \in Listed /\ \A c \in Listed : pos[c] < pos[a] => Beyond(x, c)
      /\ \A c \in Listed : pos[c] \in Int /\ (pos[c] = pos[a] => c = a)
  BY <1>0, <1>1, <1>3, ListedTyped DEF Placing, Runs
<1>5. p \in Listed /\ next[p] = a /\ pos[a] = pos[p] + 1
      /\ \A c \in Listed : prev[c] = a => next[a] = c
  BY <1>0, <1>1, <1>2, <1>3, <1>4, PrevIsPredecessor DEF ListInv
<1>6. /\ next'[p] = x /\ next'[x] = next[p] /\ \A c \in live \ {x, p} : next'[c] = next[c]
      /\ prev'[x] = p /\ prev'[a] = x /\ \A c \in live \ {x, a} : prev'[c] = prev[c]
  BY <1>1, <1>2, <1>4, <1>5
<1>7. Runs(With(pos, x, pos[p] + 1))'
  BY <1>1, <1>2, <1>3, <1>5, <1>6, RunsAfter
<1>8. /\ \A c \in Listed : pos[c] < pos[p] + 1 => Beyond(x, c)
      /\ \A c \in Listed : pos[c] >= pos[p] + 1 => ~ Beyond(x, c)
  <2>1. ASSUME NEW c \in Listed, pos[c] >= pos[a] PROVE ~ Beyond(x, c)
    BY <1>1, <1>2, <1>3, <1>4, <2>1, OrderIsTransitive
  <2> QED
    BY <1>4, <1>5, <2>1
<1>9. BackLinks'
  <2> SUFFICES ASSUME NEW c \in Listed \union {x}
               PROVE  IF c = first THEN prev'[c] = NULL
                      ELSE prev'[c] \in Listed' /\ next'[prev'[c]] = c
    BY <1>1, <1>2 DEF BackLinks
  <2>1. c # x => (IF c = first THEN prev[c] = NULL ELSE prev[c] \in Listed /\ next[prev[c]] = c)
    BY <1>2 DEF ListInv, BackLinks
  <2>2. x # first
    BY <1>2, <1>3 DEF Runs
  <2>3. CASE c \in {x, a}
    BY <1>1, <1>2, <1>4, <1>5, <1>6, <2>2, <2>3
  <2>4. CASE c \notin {x, a}
    <3>1. prev'[c] = prev[c]
      BY <1>2, <1>6, <2>4
    <3>2. c # first => prev[c] # p /\ prev[c] # x
      BY <1>2, <1>5, <2>1, <2>4
    <3> QED
      BY <1>2, <1>6, <2>1, <2>4, <3>1, <3>2
  <2> QED
    BY <2>3, <2>4
<1>10. pos[p] + 1 \in Int
  BY <1>4, <1>5
<1> QED
  BY <1>0, <1>1, <1>2, <1>3, <1>6, <1>7, <1>8, <1>9, <1>10, <1>4, <1>5, InsertedList

\* At the end of the list.
LEMMA InsertLastList ==
    ASSUME IInv, ListInv, InsertLast
    PROVE  ListInv'
<1>0. PICK x, a : x = Head(todo) /\ a = cur
  OBVIOUS
<1>1. /\ pc = "insert" /\ next[a] = NULL /\ Beyond(x, a) /\ Inserted
      /\ next' = [next EXCEPT ![a] = x] /\ prev' = [prev EXCEPT ![x] = a]
      /\ UNCHANGED <<sort, live, size, first>>
  BY <1>0 DEF InsertLast
<1>2. /\ x \in live \ Listed /\ Listed' = Listed \union {x} /\ next[x] = NULL
      /\ Listed \subseteq live /\ live \subseteq Addr /\ sort # ADDRESS
      /\ next \in [Addr -> Ptr] /\ prev \in [Addr -> Ptr]
  BY <1>0, <1>1, HeadJoins, ListedTyped DEF IInv, Typed, AddressLinks
<1>3. PICK pos \in [Addr -> Int] : Runs(pos) /\ InOrder(pos) /\ Placing(pos)
  BY DEF ListInv
<1>4. /\ a \in Listed /\ \A c \in Listed : pos[c] < pos[a] => Beyond(x, c)
      /\ \A c \in Listed : pos[c] \in Int /\ (pos[c] = pos[a] => c = a) /\ pos[c] <= pos[a]
  BY <1>0, <1>1, <1>3, ListedTyped DEF Placing, Runs
<1>5. /\ next'[a] = x /\ next'[x] = next[a] /\ \A c \in live \ {x, a} : next'[c] = next[c]
      /\ prev'[x] = a /\ \A c \in live \ {x} : prev'[c] = prev[c]
  BY <1>1, <1>2, <1>4
<1>6. Runs(With(pos, x, pos[a] + 1))'
  BY <1>1, <1>2, <1>3, <1>4, <1>5, RunsAfter
<1>7. /\ \A c \in Listed : pos[c] < pos[a] + 1 => Beyond(x, c)
      /\ \A c \in Listed : ~ (pos[c] >= pos[a] + 1)
  <2> SUFFICES ASSUME NEW c \in Listed PROVE Beyond(x, c) /\ ~ (pos[c] >= pos[a] + 1)
    OBVIOUS
  <2>1. c = a \/ pos[c] < pos[a]
    BY <1>4
  <2> QED
    BY <1>1, <1>4, <2>1
<1>8. BackLinks'
  <2> SUFFICES ASSUME NEW c \in Listed \union {x}
               PROVE  IF c = first THEN prev'[c] = NULL
                      ELSE prev'[c] \in Listed' /\ next'[prev'[c]] = c
    BY <1>1, <1>2 DEF BackLinks
  <2>1. c # x => (IF c = first THEN prev[c] = NULL ELSE prev[c] \in Listed /\ next[prev[c]] = c)
    BY <1>2 DEF ListInv, BackLinks
  <2>2. x # first
    BY <1>2, <1>3 DEF Runs
  <2>3. CASE c = x
    BY <1>2, <1>4, <1>5, <2>2, <2>3
  <2>4. CASE c # x
    <3>1. c # first => prev[c] # a /\ prev[c] # x
      BY <1>1, <1>2, <2>1, <2>4, ListedTyped
    <3> QED
      BY <1>2, <1>5, <2>1, <2>4, <3>1
  <2> QED
    BY <2>3, <2>4
<1>9. pos[a] + 1 \in Int
  BY <1>4
<1> QED
  BY <1>0, <1>1, <1>2, <1>3, <1>5, <1>6, <1>7, <1>8, <1>9, <1>4, InsertedList

----------------------------------------------------------------------------
(* The invariant of the list. *)

LEMMA ListInit == Init => ListInv
<1> SUFFICES ASSUME Init PROVE ListInv
  OBVIOUS
<1> DEFINE pos == [c \in Addr |-> c]
<1>1. /\ Listed = {0} /\ 0 \in Addr /\ first = 0 /\ next[0] = NULL /\ prev[0] = NULL
      /\ pc = "client" /\ todo = <<>>
  BY DEF Init, Fresh, Listed, Todo, Addr
<1>2. pos \in [Addr -> Int] /\ pos[0] = 0
  BY <1>1 DEF Addr
<1> HIDE DEF pos
<1>3. Waiting /\ BackLinks /\ Runs(pos) /\ InOrder(pos) /\ Searched(pos) /\ Placing(pos)
  BY <1>1, <1>2 DEF Waiting, BackLinks, Runs, InOrder, Searched, Placing
<1> QED
  BY <1>2, <1>3 DEF ListInv

\* Every step of a call keeps it, whoever made the call.
LEMMA ListStep == IInv /\ IInv' /\ ListInv /\ [Next]_vars => ListInv'
<1> SUFFICES ASSUME IInv, IInv', ListInv, [Next]_vars PROVE ListInv'
  OBVIOUS
<1>1. CASE Client
  <2>1. /\ pc = "client" /\ UNCHANGED <<list, live, next, prev, size, todo>>
        /\ pc' \in {"client", "find", "lookup"} /\ (pc' = "find" => cur' = first)
    BY <1>1 DEF Client, AllocInt, FreeMem, chunk, call
  <2> QED
    BY <2>1, ListKept, SearchStarts
<1>2. CASE FindFail \/ SplitExact \/ Lookup \/ ConcatNext \/ ConcatDone
  <2>1. pc \in {"find", "lookup", "concat"} /\ todo = <<>>
    BY <1>2 DEF FindFail, SplitExact, Lookup, LookupNext, LookupFail, LookupFound,
                ConcatNext, ConcatDone, IInv, Closure
  <2>2. UNCHANGED <<list, live, next, prev, size, todo>> /\ pc' \notin {"find", "insert"}
    BY <1>2, <2>1 DEF FindFail, SplitExact, Carve, Lookup, LookupNext, LookupFail,
                      LookupFound, ConcatNext, ConcatDone, Return, list, chunk
  <2> QED
    BY <2>2, ListKept
<1>3. CASE UNCHANGED vars
  <2>1. UNCHANGED <<list, live, next, prev, size, mark, todo, pc, cur, bytes>>
    BY <1>3 DEF vars, chunk, call
  <2>2. PICK pos \in [Addr -> Int] : Runs(pos) /\ InOrder(pos) /\ Searched(pos) /\ Placing(pos)
    BY DEF ListInv
  <2>3. Listed' = Listed /\ Waiting' /\ BackLinks' /\ Runs(pos)' /\ InOrder(pos)'
    BY <2>1, <2>2, ListUnchanged
  <2>4. Searched(pos)' /\ Placing(pos)'
    BY <2>1, <2>2, <2>3 DEF Searched, Placing, Fits, Beyond, list
  <2> QED
    BY <2>3, <2>4 DEF ListInv
<1> QED
  BY <1>1, <1>2, <1>3, SearchGoesOn, SplitAddressList, SplitInPlaceList, SplitDetachList,
     InsertFrontList, InsertBeforeList, InsertLastList, InsertGoesOn, ConcatMergeList
     DEF Next, Code, Find, Insert, Concat

\* The chunks on the list can be numbered along next at every step of alloc,
\* free and memConcat, and what the code has yet to do fits those numbers.
THEOREM ListInvariance == Spec => [](IInv /\ ListInv)
  BY ListInit, ListStep, InitInv, InvStep, PTL DEF Spec

----------------------------------------------------------------------------
(* What it is there for. *)

LEMMA SortedFollows == IInv /\ ListInv => ListSorted
<1> SUFFICES ASSUME IInv, ListInv, NEW c \in Listed, next[c] # NULL
             PROVE  MayPrecede(c, next[c])
  BY DEF ListSorted, MayPrecede
<1>1. PICK pos \in [Addr -> Int] : Runs(pos) /\ InOrder(pos)
  BY DEF ListInv
<1>2. next[c] \in Listed /\ pos[next[c]] = pos[c] + 1 /\ pos[c] \in Int
  BY <1>1, ListedTyped DEF Runs
<1>3. pos[c] < pos[next[c]]
  BY <1>2
<1> QED
  BY <1>1, <1>2, <1>3 DEF InOrder

\* The list is in the order of the manager at every step, in the middle of an
\* insertion too.
THEOREM SortedInvariant == Spec => []ListSorted
  BY SortedFollows, ListInvariance, PTL

\* The back links that the insertion follows are right.
THEOREM BackLinksInvariant == Spec => []BackLinks
<1>1. ListInv => BackLinks
  BY DEF ListInv
<1> QED
  BY <1>1, ListInvariance, PTL

LEMMA PolicyFollows == IInv /\ ListInv => Policy
<1> SUFFICES ASSUME IInv, ListInv, pc = "find", cur # NULL, Fits(cur, bytes),
                    NEW d \in live, Fits(d, bytes)
             PROVE  CASE sort = ASCENDING_SIZE  -> size[cur] <= size[d]
                      [] sort = DESCENDING_SIZE -> size[cur] >= size[d]
                      [] sort = ADDRESS         -> cur <= d
  BY DEF Policy
<1>1. PICK pos \in [Addr -> Int] : Runs(pos) /\ InOrder(pos) /\ Searched(pos)
  BY DEF ListInv
<1>2. /\ Listed = live /\ cur \in live /\ sort \in {1, 2, 4}
      /\ size[cur] \in Int /\ size[d] \in Int /\ cur \in Int /\ d \in Int
      /\ pos[cur] \in Int /\ pos[d] \in Int
  <2>1. Listed = live /\ cur \in live
    BY NothingWaits DEF IInv, Closure
  <2> QED
    BY <2>1, ListedTyped DEF IInv, Typed, Addr
<1>3. d = cur \/ pos[cur] < pos[d]
  BY <1>1, <1>2 DEF Searched, Runs
<1>4. d # cur => MayPrecede(cur, d)
  BY <1>1, <1>2, <1>3 DEF InOrder
<1>5. CASE sort = ASCENDING_SIZE
  <2>1. size[cur] <= size[d]
    BY <1>2, <1>4, <1>5 DEF MayPrecede
  <2> QED
    BY <1>5, <2>1
<1>6. CASE sort = DESCENDING_SIZE
  <2>1. size[cur] >= size[d]
    BY <1>2, <1>4, <1>6 DEF MayPrecede
  <2> QED
    BY <1>6, <2>1
<1>7. CASE sort = ADDRESS
  <2>1. cur <= d
    BY <1>2, <1>4, <1>7 DEF MayPrecede
  <2> QED
    BY <1>7, <2>1
<1> QED
  BY <1>2, <1>5, <1>6, <1>7

\* The chunk that alloc cuts is the tightest fit, the loosest fit or the lowest
\* one, according to the order.
THEOREM PolicyInvariant == Spec => []Policy
  BY PolicyFollows, ListInvariance, PTL

LEMMA DenyFollows == IInv /\ ListInv => DenyOnlyWhenFull
  BY NothingWaits DEF ListInv, Searched, DenyOnlyWhenFull

\* alloc returns NULL only if no free chunk will do: its search misses none.
THEOREM DenyInvariant == Spec => []DenyOnlyWhenFull
  BY DenyFollows, ListInvariance, PTL
=============================================================================
