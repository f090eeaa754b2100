----------------------------- MODULE WalkProofs -----------------------------
(***************************************************************************)
(* Walk, the way every loop of MemoryAllocator runs along its list, and    *)
(* what it adds up: proofs that need an induction over the steps of the    *)
(* walk.  They argue from the least number at which a claim would fail.    *)
(***************************************************************************)
EXTENDS ListProofs, FiniteSetTheorems, WellFoundedInduction

USE MemSizeAssumption, StylesAssumption, NullAssumption
USE DEF ASCENDING_SIZE, DESCENDING_SIZE, ADDRESS

\* A set of numbers that is not empty has a least member.
LEMMA Least ==
    ASSUME NEW T \in SUBSET Nat, T # {}
    PROVE  \E m \in T : \A n \in T : m <= n
<1>1. PICK m \in T : \A n \in T : ~ (<<n, m>> \in OpToRel(<, Nat))
  BY NatLessThanWellFounded, WFMin, Zenon
<1>2. \A n \in T : <<n, m>> \in OpToRel(<, Nat) <=> n < m
  BY Zenon DEF OpToRel
<1>3. \A n \in T : ~ (n < m)
  BY <1>1, <1>2, Zenon
<1> QED
  BY <1>3

\* No number is left out.
LEMMA NoGaps ==
    ASSUME NEW pos \in [Addr -> Int], Runs(pos), Listed \subseteq Addr,
           NEW c \in Listed, NEW k \in 0 .. pos[c]
    PROVE  \E d \in Listed : pos[d] = k
<1> DEFINE T == { j \in 0 .. pos[c] : \A d \in Listed : pos[d] # j }
<1>1. SUFFICES ASSUME T # {} PROVE FALSE
  OBVIOUS
<1>2. pos[c] \in Int /\ \A d \in Listed : pos[d] \in Int
  OBVIOUS
<1>3. PICK m \in T : \A n \in T : m <= n
  <2>1. T \in SUBSET Nat
    OBVIOUS
  <2> HIDE DEF T
  <2> QED
    BY <1>1, <2>1, Least
<1>4. m > 0 /\ m <= pos[c] /\ m \in Int
  BY <1>2, <1>3 DEF Runs
<1>5. PICK d \in Listed : pos[d] = m - 1
  BY <1>2, <1>3, <1>4
<1>6. next[d] # NULL
  BY <1>2, <1>4, <1>5 DEF Runs
<1>7. next[d] \in Listed /\ pos[next[d]] = m
  BY <1>2, <1>4, <1>5, <1>6 DEF Runs
<1> QED
  BY <1>3, <1>7

\* The numbers stay below MemSize.
LEMMA NumbersBounded ==
    ASSUME NEW pos \in [Addr -> Int], Runs(pos), Listed \subseteq Addr,
           NEW c \in Listed
    PROVE  pos[c] \in 0 .. MemSize - 1
<1> SUFFICES ASSUME pos[c] >= MemSize PROVE FALSE
  BY DEF Runs
<1> DEFINE at == [k \in 0 .. MemSize |-> CHOOSE d \in Listed : pos[d] = k]
<1>1. \A k \in 0 .. MemSize : at[k] \in Addr /\ pos[at[k]] = k
  <2> TAKE k \in 0 .. MemSize
  <2>1. \E d \in Listed : pos[d] = k
    BY NoGaps
  <2> QED
    BY <2>1
<1> HIDE DEF at
<1>2. at \in Injection(0 .. MemSize, Addr)
  BY <1>1 DEF Injection, IsInjective, at
<1>3. /\ IsFiniteSet(Addr) /\ Cardinality(Addr) = MemSize
      /\ IsFiniteSet(0 .. MemSize) /\ Cardinality(0 .. MemSize) = MemSize + 1
  BY FS_Interval DEF Addr
<1> QED
  BY <1>2, <1>3, FS_Injection

\* After k steps the walk is on the chunk numbered k, or at the end.
LEMMA WalkNumbers ==
    ASSUME NEW pos \in [Addr -> Int], Runs(pos), Listed \subseteq Addr, NEW k \in 0 .. MemSize
    PROVE  IF \E c \in Listed : pos[c] = k
           THEN Walk[k] \in Listed /\ pos[Walk[k]] = k
           ELSE Walk[k] = NULL
<1> DEFINE at == [j \in 0 .. MemSize |-> IF \E c \in Listed : pos[c] = j
                                          THEN CHOOSE c \in Listed : pos[c] = j ELSE NULL]
           Follows(W) == W = [j \in 0 .. MemSize |->
               IF j = 0 THEN first ELSE IF W[j - 1] = NULL THEN NULL ELSE next[W[j - 1]]]
<1>1. \A j \in 0 .. MemSize : IF \E c \in Listed : pos[c] = j
                              THEN at[j] \in Listed /\ pos[at[j]] = j
                              ELSE at[j] = NULL
  OBVIOUS
<1>2. at = [j \in 0 .. MemSize |-> at[j]]
  OBVIOUS
<1> HIDE DEF at
<1>3. NULL \notin Listed /\ \A c \in Listed : pos[c] \in Int /\ pos[c] >= 0
  <2>1. NULL \notin Addr
    BY DEF Addr
  <2> QED
    BY <2>1 DEF Runs
<1>4. at[0] = first
  BY <1>1 DEF Runs
<1>5. ASSUME NEW j \in 1 .. MemSize
      PROVE  at[j] = IF at[j - 1] = NULL THEN NULL ELSE next[at[j - 1]]
  <2>1. CASE \E c \in Listed : pos[c] = j - 1
    <3>1. at[j - 1] \in Listed /\ pos[at[j - 1]] = j - 1
      BY <1>1, <2>1
    <3>2. CASE next[at[j - 1]] = NULL
      <4>1. \A d \in Listed : pos[d] <= j - 1
        BY <3>1, <3>2 DEF Runs
      <4> QED
        BY <1>1, <1>3, <3>1, <3>2, <4>1
    <3>3. CASE next[at[j - 1]] # NULL
      <4>1. next[at[j - 1]] \in Listed /\ pos[next[at[j - 1]]] = j
        BY <3>1, <3>3 DEF Runs
      <4>2. at[j] \in Listed /\ pos[at[j]] = j
        BY <1>1, <4>1
      <4> QED
        BY <1>3, <3>1, <4>1, <4>2 DEF Runs
    <3> QED
      BY <3>2, <3>3
  <2>2. CASE ~ \E c \in Listed : pos[c] = j - 1
    <3>1. ~ \E c \in Listed : pos[c] = j
      <4>1. \A c \in Listed : pos[c] = j => j - 1 \in 0 .. pos[c]
        OBVIOUS
      <4> QED
        BY <2>2, <4>1, NoGaps
    <3> QED
      BY <1>1, <2>2, <3>1
  <2> QED
    BY <2>1, <2>2
<1>6. Follows(at)
  BY <1>2, <1>4, <1>5
<1>7. Follows(Walk)
  <2>1. Walk = CHOOSE W : Follows(W)
    BY DEF Walk
  <2> HIDE DEF Follows
  <2> QED
    BY <1>6, <2>1
<1>8. /\ Walk[0] = first
      /\ \A j \in 1 .. MemSize : Walk[j] = IF Walk[j - 1] = NULL THEN NULL ELSE next[Walk[j - 1]]
  BY <1>7
<1>9. Walk[k] = at[k]
  <2> DEFINE T == { j \in 0 .. MemSize : Walk[j] # at[j] }
  <2>1. SUFFICES ASSUME T # {} PROVE FALSE
    OBVIOUS
  <2>2. PICK m \in T : \A n \in T : m <= n
    <3>1. T \in SUBSET Nat
      OBVIOUS
    <3> HIDE DEF T
    <3> QED
      BY <2>1, <3>1, Least
  <2>3. m \in 1 .. MemSize /\ Walk[m - 1] = at[m - 1]
    BY <1>4, <1>8, <2>2
  <2> QED
    BY <1>5, <1>8, <2>2, <2>3
<1> QED
  BY <1>1, <1>9

\* The walk meets every chunk of the list and nothing else.
LEMMA CompleteFollows == IInv /\ ListInv => ListComplete
<1> SUFFICES ASSUME IInv, ListInv PROVE ListComplete
  OBVIOUS
<1>1. PICK pos \in [Addr -> Int] : Runs(pos)
  BY DEF ListInv
<1>2. Listed \subseteq Addr
  BY ListedTyped
<1>3. \A k \in 0 .. MemSize : Walk[k] \in Listed \union {NULL}
  BY <1>1, <1>2, WalkNumbers
<1>4. \A c \in Listed : \E k \in 0 .. MemSize : Walk[k] = c
  <2> TAKE c \in Listed
  <2>1. pos[c] \in 0 .. MemSize
    BY <1>1, <1>2, NumbersBounded
  <2>2. Walk[pos[c]] \in Listed /\ pos[Walk[pos[c]]] = pos[c]
    BY <1>1, <1>2, <2>1, WalkNumbers
  <2>3. Walk[pos[c]] = c
    BY <1>1, <2>2 DEF Runs
  <2> QED
    BY <2>1, <2>3
<1>5. Walk[MemSize] = NULL
  <2>1. \A c \in Listed : pos[c] # MemSize
    BY <1>1, <1>2, NumbersBounded
  <2> QED
    BY <1>1, <1>2, <2>1, WalkNumbers
<1> QED
  BY <1>3, <1>4, <1>5 DEF ListComplete

\* Nothing is lost from the list and nothing is met twice, at every step.
THEOREM CompleteInvariant == Spec => []ListComplete
  BY CompleteFollows, ListInvariance, PTL

----------------------------------------------------------------------------
(* What the walk adds up. *)

\* Every word of the arena belongs to a chunk, ...
LEMMA Covered ==
    ASSUME IInv, NEW w \in Addr
    PROVE  \E c \in live : c <= w /\ w < c + size[c]
<1> DEFINE T == { q \in Addr : ~ \E c \in live : c <= q /\ q < c + size[c] }
<1>1. SUFFICES ASSUME T # {} PROVE FALSE
  OBVIOUS
<1>2. /\ Tiling /\ live \subseteq 0 .. MemSize - 1
      /\ \A c \in live : c \in Int /\ size[c] \in Int
  BY DEF IInv, Typed, Addr
<1>3. PICK m \in T : \A n \in T : m <= n
  <2>1. T \in SUBSET Nat
    BY DEF Addr
  <2> HIDE DEF T
  <2> QED
    BY <1>1, <2>1, Least
<1>4. m \in 1 .. MemSize - 1
  BY <1>2, <1>3 DEF Tiling, Addr
<1>5. PICK c \in live : c <= m - 1 /\ m - 1 < c + size[c]
  BY <1>3, <1>4 DEF Addr
<1>6. c + size[c] = m
  BY <1>2, <1>3, <1>4, <1>5
<1>7. m \in live /\ m <= m /\ m < m + size[m]
  BY <1>2, <1>4, <1>5, <1>6 DEF Tiling
<1> QED
  BY <1>3, <1>7

\* ... and to one only.
LEMMA Disjoint ==
    ASSUME IInv, NEW c \in live, NEW d \in live, c # d
    PROVE  (c .. c + size[c] - 1) \intersect (d .. d + size[d] - 1) = {}
<1>1. /\ c \in Int /\ d \in Int /\ size[c] \in Int /\ size[d] \in Int
      /\ c < d => c + size[c] <= d
      /\ d < c => d + size[d] <= c
  BY DEF IInv, Typed, Addr, Tiling
<1> QED
  BY <1>1

\* The words of a chunk, and how many they are.
LEMMA WordsOfChunk ==
    ASSUME IInv, NEW c \in live
    PROVE  /\ c .. c + size[c] - 1 \subseteq Addr
           /\ IsFiniteSet(c .. c + size[c] - 1)
           /\ Cardinality(c .. c + size[c] - 1) = size[c]
<1>1. /\ c \in Int /\ size[c] \in Int /\ size[c] > 0 /\ c >= 0
      /\ c + size[c] <= MemSize
  BY DEF IInv, Typed, Addr, Tiling
<1>2. PICK e \in Int : e = c + size[c] - 1
  BY <1>1
<1>3. Cardinality(c .. e) = (IF c > e THEN 0 ELSE e - c + 1) /\ IsFiniteSet(c .. e)
  BY <1>1, FS_Interval
<1> QED
  BY <1>1, <1>2, <1>3 DEF Addr

\* availableMemory reports what the chunks in use leave of the arena.
LEMMA ConservationFollows == IInv /\ ListInv => Conservation
<1> SUFFICES ASSUME IInv, ListInv, pc = "client"
             PROVE  AvailableMemory =
                        MemSize - Cardinality(UNION { c .. c + size[c] - 1 : c \in Used })
  BY DEF Conservation
<1> DEFINE words(c) == c .. c + size[c] - 1
<1>1. PICK pos \in [Addr -> Int] : Runs(pos)
  BY DEF ListInv
<1>2. /\ Listed = live /\ live \subseteq Addr /\ NULL \notin live
      /\ \A c \in live : /\ pos[c] \in 0 .. MemSize - 1
                         /\ c \in Int /\ size[c] \in Nat /\ mark[c] \in {0, 1}
  <2>1. Listed = live /\ live \subseteq Addr /\ NULL \notin live
    BY NothingWaits, ListedTyped
  <2>2. \A c \in live : c \in Int /\ size[c] \in Nat /\ mark[c] \in {0, 1}
    BY <2>1 DEF IInv, Typed, Addr
  <2> QED
    BY <1>1, <2>1, <2>2, NumbersBounded
<1> DEFINE free(k) == UNION { words(c) : c \in { d \in live : mark[d] = 0 /\ pos[d] >= k } }
           sum == [k \in 0 .. MemSize |-> Cardinality(free(k))]
           Adds(S) == S = [k \in 0 .. MemSize |->
               IF Walk[k] = NULL THEN 0
               ELSE Available(Walk[k]) + (IF k < MemSize THEN S[k + 1] ELSE 0)]
<1>3. \A k \in Int : IsFiniteSet(free(k)) /\ Cardinality(free(k)) \in Nat
  <2> TAKE k \in Int
  <2>1. IsFiniteSet(Addr)
    BY FS_Interval DEF Addr
  <2>2. free(k) \subseteq Addr
    BY WordsOfChunk
  <2> HIDE DEF free
  <2> QED
    BY <2>1, <2>2, FS_Subset, FS_CardinalityType
<1>4. ASSUME NEW k \in 0 .. MemSize, Walk[k] = NULL PROVE sum[k] = 0
  <2>1. \A c \in live : pos[c] < k
    <3>1. \A c \in live : pos[c] # k
      BY <1>1, <1>2, <1>4, WalkNumbers
    <3>2. \A c \in live : pos[c] >= k => \E d \in live : pos[d] = k
      BY <1>1, <1>2, NoGaps
    <3> QED
      BY <1>2, <3>1, <3>2
  <2>2. free(k) = {}
    BY <1>2, <2>1
  <2> HIDE DEF free
  <2> QED
    BY <2>2, FS_EmptySet
<1>5. ASSUME NEW k \in 0 .. MemSize, Walk[k] # NULL
      PROVE  k < MemSize /\ sum[k] = Available(Walk[k]) + sum[k + 1]
  <2>1. PICK c \in live : c = Walk[k] /\ pos[c] = k
    BY <1>1, <1>2, <1>5, WalkNumbers
  <2>2. k < MemSize
    BY <1>2, <2>1
  <2>3. \A d \in live : pos[d] >= k <=> d = c \/ pos[d] >= k + 1
    BY <1>1, <1>2, <2>1 DEF Runs
  <2>4. CASE mark[c] = 0
    <3>1. free(k) = words(c) \union free(k + 1)
      BY <2>1, <2>3, <2>4
    <3>2. words(c) \intersect free(k + 1) = {}
      BY <1>2, <2>1, Disjoint
    <3>3. IsFiniteSet(words(c)) /\ Cardinality(words(c)) = size[c]
      BY WordsOfChunk
    <3> HIDE DEF free, words
    <3>4. Cardinality(free(k)) = Cardinality(words(c)) + Cardinality(free(k + 1)) - 0
      BY <1>3, <3>1, <3>2, <3>3, FS_Union, FS_EmptySet
    <3> QED
      BY <1>2, <1>3, <2>1, <2>2, <2>4, <3>3, <3>4 DEF Available
  <2>5. CASE mark[c] # 0
    <3>1. free(k) = free(k + 1)
      BY <2>1, <2>3, <2>5
    <3> HIDE DEF free
    <3> QED
      BY <1>3, <2>1, <2>2, <2>5, <3>1 DEF Available
  <2> QED
    BY <2>2, <2>4, <2>5
<1> HIDE DEF free, words
<1>6. sum[MemSize] = 0 /\ Walk[MemSize] = NULL
  <2>1. MemSize \in 0 .. MemSize /\ ~ (MemSize < MemSize)
    OBVIOUS
  <2> HIDE DEF sum
  <2> QED
    BY <1>4, <1>5, <2>1
<1>7. Adds(sum)
  <2>1. sum = [k \in 0 .. MemSize |-> sum[k]]
    OBVIOUS
  <2> HIDE DEF sum
  <2> QED
    BY <1>4, <1>5, <2>1
<1>8. PICK S : Adds(S) /\ AvailableMemory = S[0]
  <2> DEFINE S == CHOOSE S : Adds(S)
  <2>1. AvailableMemory = S[0]
    BY DEF AvailableMemory
  <2> HIDE DEF Adds
  <2>2. Adds(S)
    BY <1>7
  <2> QED
    BY <2>1, <2>2
<1>9. \A k \in 0 .. MemSize : S[k] = IF Walk[k] = NULL THEN 0
          ELSE Available(Walk[k]) + (IF k < MemSize THEN S[k + 1] ELSE 0)
  BY <1>8
<1>10. S[0] = sum[0]
  \* from the end of the walk back: at the largest number the two would agree
  <2> DEFINE T == { n \in 0 .. MemSize : S[MemSize - n] # sum[MemSize - n] }
  <2>1. SUFFICES ASSUME T # {} PROVE FALSE
    <3>1. MemSize \in 0 .. MemSize /\ MemSize - MemSize = 0
      OBVIOUS
    <3>2. MemSize \notin T => S[0] = sum[0]
      <4> HIDE DEF sum
      <4> QED
        BY <3>1
    <3> QED
      BY <2>1, <3>2
  <2>2. PICK m \in T : \A n \in T : m <= n
    <3>1. T \in SUBSET Nat
      OBVIOUS
    <3> HIDE DEF T
    <3> QED
      BY <2>1, <3>1, Least
  <2>3. PICK k \in 0 .. MemSize : k = MemSize - m /\ S[k] # sum[k]
    BY <2>2
  <2>4. k # MemSize => S[k + 1] = sum[k + 1]
    <3>1. k # MemSize => m - 1 \in 0 .. MemSize /\ m - 1 \notin T /\ MemSize - (m - 1) = k + 1
      BY <2>2, <2>3
    <3> QED
      BY <3>1
  <2> QED
    BY <1>4, <1>5, <1>6, <1>9, <2>3, <2>4
<1>11. sum[0] = Cardinality(free(0))
  OBVIOUS
<1>12. free(0) = Addr \ UNION { c .. c + size[c] - 1 : c \in Used }
  <2>1. \A c \in live : pos[c] >= 0
    BY <1>2
  <2>2. ASSUME NEW w \in Addr
        PROVE  w \in free(0) <=> w \notin UNION { c .. c + size[c] - 1 : c \in Used }
    <3>1. PICK c \in live : c <= w /\ w < c + size[c]
      BY Covered
    <3>2. w \in words(c) /\ \A d \in live : w \in words(d) => d = c
      <4>1. w \in Int /\ c \in Int /\ size[c] \in Int
        BY <1>2 DEF Addr
      <4>2. w \in words(c)
        BY <3>1, <4>1 DEF words
      <4> QED
        BY <4>2, Disjoint DEF words
    <3> QED
      BY <1>2, <2>1, <3>1, <3>2 DEF free, words, Used
  <2>3. free(0) \subseteq Addr
    BY WordsOfChunk DEF free, words
  <2> QED
    BY <2>2, <2>3
<1>13. UNION { c .. c + size[c] - 1 : c \in Used } \subseteq Addr
  BY WordsOfChunk DEF Used
<1>14. IsFiniteSet(Addr) /\ Cardinality(Addr) = MemSize
  BY FS_Interval DEF Addr
<1> QED
  <2> DEFINE U == UNION { c .. c + size[c] - 1 : c \in Used }
  <2>1. U \subseteq Addr /\ free(0) = Addr \ U
    BY <1>12, <1>13
  <2> HIDE DEF U, sum
  <2>2. Cardinality(free(0)) = Cardinality(Addr) - Cardinality(Addr \intersect U)
        /\ Addr \intersect U = U
    BY <1>14, <2>1, FS_Difference
  <2> QED
    BY <1>8, <1>10, <1>11, <1>14, <2>2 DEF U

\* The memory reported as available is right between any two calls.
THEOREM ConservationInvariant == Spec => []Conservation
  BY ConservationFollows, ListInvariance, PTL

----------------------------------------------------------------------------
(* How many passes a call has left. *)

\* A smaller first digit makes a smaller number, whatever the second one is.
LEMMA Digits ==
    ASSUME NEW m \in Nat, NEW r \in Nat, NEW s \in Nat, r < s,
           NEW a \in Nat, a < m, NEW b \in Nat
    PROVE  r * m + a < s * m + b
<1>1. PICK d \in Nat : s = r + 1 + d
  <2>1. s - r - 1 \in Nat /\ s = r + 1 + (s - r - 1)
    OBVIOUS
  <2> QED
    BY <2>1
<1>2. s * m = r * m + m + d * m
  BY <1>1
<1>3. d * m >= 0 /\ d * m \in Int /\ r * m \in Int
  OBVIOUS
<1> QED
  BY <1>2, <1>3

\* The steps to come are numbers up to MemSize, so there are few of them.
LEMMA FewToCome == IsFiniteSet(ToCome) /\ Cardinality(ToCome) \in 0 .. MemSize + 1
<1>1. ToCome \subseteq 0 .. MemSize
  BY DEF ToCome
<1>2. IsFiniteSet(0 .. MemSize) /\ Cardinality(0 .. MemSize) = MemSize + 1
  BY FS_Interval
<1>3. IsFiniteSet(ToCome) /\ Cardinality(ToCome) <= MemSize + 1
  BY <1>1, <1>2, FS_Subset
<1> QED
  BY <1>3, FS_CardinalityType

LEMMA FewToComeNext == (IsFiniteSet(ToCome) /\ Cardinality(ToCome) \in 0 .. MemSize + 1)'
  BY FewToCome, PTL

\* A loop that goes on to the next chunk of a list it does not change leaves
\* one step of its walk behind.
LEMMA WalksOn ==
    ASSUME IInv, NEW pos \in [Addr -> Int], Runs(pos),
           UNCHANGED <<list, live, next, todo>>, cur \in Listed, cur' = next[cur]
    PROVE  Cardinality(ToCome') < Cardinality(ToCome)
<1>1. Listed \subseteq Addr /\ NULL \notin Addr
  BY ListedTyped
<1>2. Walk' = Walk
  BY DEF Walk, list
<1>3. PICK W, T, U : W = Walk /\ T = ToCome /\ U = ToCome'
  OBVIOUS
<1>4. /\ T = { k \in 0 .. MemSize : W[k] # NULL /\ \E i \in 0 .. k : W[i] = cur }
      /\ U = { k \in 0 .. MemSize : W[k] # NULL /\ \E i \in 0 .. k : W[i] = next[cur] }
  BY <1>2, <1>3 DEF ToCome
<1>5. \A k \in 0 .. MemSize : W[k] # NULL => W[k] \in Listed /\ pos[W[k]] = k
  BY <1>1, <1>3, WalkNumbers
<1>6. PICK m \in 0 .. MemSize : m = pos[cur] /\ W[m] = cur
  <2>1. pos[cur] \in 0 .. MemSize
    BY <1>1, NumbersBounded
  <2>2. W[pos[cur]] \in Listed /\ pos[W[pos[cur]]] = pos[cur]
    BY <1>1, <1>3, <2>1, WalkNumbers
  <2> QED
    BY <2>1, <2>2 DEF Runs
<1>7. \A i \in 0 .. MemSize : W[i] # NULL /\ W[i] = next[cur] => i = m + 1
  BY <1>5, <1>6 DEF Runs
<1>8. ASSUME NEW k \in U PROVE k \in T /\ k # m
  <2>1. PICK i \in 0 .. k : W[i] = next[cur]
    BY <1>4
  <2>2. k \in 0 .. MemSize /\ W[k] # NULL /\ i \in 0 .. MemSize
    BY <1>4
  <2>3. W[i] # NULL
    <3>1. W[k] \in Listed /\ pos[W[k]] = k
      BY <1>5, <2>2
    <3>2. \E d \in Listed : pos[d] = i
      BY <1>1, <3>1, NoGaps
    <3>3. W[i] \in Listed
      BY <1>1, <1>3, <2>2, <3>2, WalkNumbers
    <3> QED
      BY <1>1, <3>3
  <2>4. i = m + 1
    BY <1>7, <2>1, <2>2, <2>3
  <2>5. m \in 0 .. k /\ k # m
    BY <2>2, <2>4
  <2> QED
    BY <1>4, <1>6, <2>2, <2>5
<1>9. m \in T /\ W[m] # NULL
  BY <1>1, <1>4, <1>6
<1>10. U \subseteq T /\ U # T
  BY <1>8, <1>9
<1>11. IsFiniteSet(T)
  BY <1>3, FewToCome
<1>12. Cardinality(U) < Cardinality(T)
  BY <1>10, <1>11, FS_Subset, FS_CardinalityType
<1> QED
  BY <1>3, <1>12

\* The first of two digits is smaller, or they are equal and the second is.
LEMMA Lower ==
    ASSUME NEW m \in Nat, NEW r \in Nat, NEW s \in Nat, NEW a \in Nat, a < m, NEW b \in Nat,
           r < s \/ (r = s /\ a < b)
    PROVE  r * m + a < s * m + b
<1>1. CASE r < s
  BY <1>1, Digits
<1>2. CASE r = s /\ a < b
  <2>1. r * m \in Int
    OBVIOUS
  <2> QED
    BY <1>2, <2>1
<1> QED
  BY <1>1, <1>2

\* Fewer walks are left, or this one is shorter by a step.
LEMMA PassesFall ==
    ASSUME WalksLeft \in Nat, WalksLeft' \in Nat,
           \/ WalksLeft' < WalksLeft
           \/ WalksLeft' = WalksLeft /\ Cardinality(ToCome') < Cardinality(ToCome)
    PROVE  PassesLeft' < PassesLeft
<1>1. PICK r, s, a, b, m : /\ r = WalksLeft' /\ s = WalksLeft /\ m = MemSize + 2
                           /\ a = Cardinality(ToCome') /\ b = Cardinality(ToCome)
  OBVIOUS
<1>2. r \in Nat /\ s \in Nat /\ a \in Nat /\ b \in Nat /\ m \in Nat /\ a < m
  BY <1>1, FewToCome, FewToComeNext
<1>3. r * m + a < s * m + b
  BY <1>1, <1>2, Lower
<1>4. PassesLeft' = r * m + a /\ PassesLeft = s * m + b
  BY <1>1 DEF PassesLeft
<1> QED
  BY <1>3, <1>4

\* The chunks are few.
LEMMA FewLive == live \subseteq Addr => IsFiniteSet(live) /\ Cardinality(live) \in 0 .. MemSize
<1>1. IsFiniteSet(Addr) /\ Cardinality(Addr) = MemSize
  BY FS_Interval DEF Addr
<1> QED
  BY <1>1, FS_Subset, FS_CardinalityType

LEMMA WalksTyped == IInv => WalksLeft \in Nat
<1>1. IInv => live \subseteq Addr /\ Len(todo) \in Nat
  BY DEF IInv, Typed
<1>2. IInv => Cardinality(live) \in Nat
  BY <1>1, FewLive
<1> QED
  BY <1>1, <1>2 DEF WalksLeft

LEMMA WalksTypedNext == (IInv => WalksLeft \in Nat)'
  BY WalksTyped, PTL

\* Each step of the code either goes on with its walk or has fewer walks left.
LEMMA CodeRunsDown ==
    ASSUME IInv, ListInv, Code
    PROVE  PassesLeft' < PassesLeft
<1>1. IInv' /\ WalksLeft \in Nat /\ WalksLeft' \in Nat
  <2>1. IInv'
    BY InvStep DEF Next
  <2> QED
    BY <2>1, WalksTyped, WalksTypedNext
<1>2. PICK pos \in [Addr -> Int] : Runs(pos) /\ Placing(pos)
  BY DEF ListInv
<1>3. CASE FindNext \/ InsertWalk \/ LookupNext \/ ConcatNext
  <2>1. /\ UNCHANGED <<list, live, next, todo, pc>>
        /\ pc # "client" /\ cur' = next[cur] /\ cur # NULL
    BY <1>3 DEF FindNext, InsertWalk, LookupNext, ConcatNext, chunk, IInv, Closure
  <2>2. cur \in Listed
    <3>1. CASE pc = "insert"
      BY <1>2, <3>1 DEF Placing
    <3>2. CASE pc # "insert"
      BY <2>1, <3>2, NothingWaits DEF IInv, Closure
    <3> QED
      BY <3>1, <3>2
  <2>3. Cardinality(ToCome') < Cardinality(ToCome)
    BY <1>2, <2>1, <2>2, WalksOn
  <2>4. WalksLeft' = WalksLeft
    BY <2>1 DEF WalksLeft
  <2> QED
    BY <1>1, <2>3, <2>4, PassesFall
<1>4. SUFFICES ASSUME ~ (FindNext \/ InsertWalk \/ LookupNext \/ ConcatNext)
               PROVE  WalksLeft' < WalksLeft
  BY <1>1, <1>3, PassesFall
<1>5. Cardinality(live) \in 1 .. MemSize /\ IsFiniteSet(live)
  <2>1. Cardinality(live) \in 0 .. MemSize /\ IsFiniteSet(live)
    BY FewLive DEF IInv, Typed
  <2>2. Cardinality(live) # 0
    BY <2>1, FS_EmptySet DEF IInv, Closure
  <2> QED
    BY <2>1, <2>2
<1>6. CASE Find
  <2>1. /\ pc = "find"
        /\ \/ pc' = "client"
           \/ pc' = "insert" /\ (\E c, d : todo' = <<c>> \/ todo' = <<c, d>>)
    <3>1. CASE FindFail \/ SplitAddress \/ SplitExact
      <4>1. pc = "find" /\ Return
        BY <3>1 DEF FindFail, SplitAddress, SplitExact
      <4> QED
        BY <4>1 DEF Return
    <3>2. CASE SplitInPlace \/ SplitDetach
      BY <3>2 DEF SplitInPlace, SplitDetach
    <3> QED
      BY <1>4, <1>6, <3>1, <3>2 DEF Find
  <2>2. \A c, d : Len(<<c>>) = 1 /\ Len(<<c, d>>) = 2
    OBVIOUS
  <2>3. \/ pc' = "client"
        \/ pc' = "insert" /\ Len(todo') \in {1, 2}
    BY <2>1, <2>2
  <2>4. WalksLeft = 3
    BY <2>1 DEF WalksLeft
  <2>5. WalksLeft' \in {0, 1, 2}
    BY <2>3 DEF WalksLeft
  <2> QED
    BY <2>4, <2>5
<1>7. CASE Insert
  <2>1. pc = "insert" /\ Inserted /\ Len(todo) \in {1, 2}
    BY <1>4, <1>7 DEF Insert, InsertFront, InsertBefore, InsertLast, IInv, Closure
  <2>2. CASE Len(todo) = 1
    <3>1. pc' = "client"
      BY <2>1, <2>2 DEF Inserted, Return
    <3> QED
      BY <2>1, <2>2, <3>1 DEF WalksLeft
  <2>3. CASE Len(todo) = 2
    <3>1. pc' = "insert" /\ todo' = Tail(todo)
      BY <2>1, <2>3 DEF Inserted
    <3>2. Len(todo') = 1
      <4>1. \A t \in Seq(Addr) : Len(t) = 2 => Len(Tail(t)) = 1
        OBVIOUS
      <4> QED
        BY <2>3, <3>1, <4>1 DEF IInv, Typed
    <3>3. WalksLeft = 2 /\ WalksLeft' = 1
      BY <2>1, <2>3, <3>1, <3>2 DEF WalksLeft
    <3> QED
      BY <3>3
  <2> QED
    BY <2>1, <2>2, <2>3
<1>8. CASE Lookup
  <2>1. /\ pc = "lookup"
        /\ \/ pc' = "client"
           \/ pc' = "concat" /\ live' = live
    BY <1>4, <1>8 DEF Lookup, LookupFail, LookupFound, Return, chunk
  <2> QED
    BY <1>5, <2>1 DEF WalksLeft
<1>9. CASE ConcatMerge
  <2>1. /\ pc = "concat" /\ pc' = "concat" /\ live' = live \ {next[cur]}
        /\ next[cur] \in live
    BY <1>9 DEF ConcatMerge, IInv, Closure
  <2>2. Cardinality(live') = Cardinality(live) - 1
    BY <1>5, <2>1, FS_RemoveElement
  <2> QED
    BY <1>5, <2>1, <2>2 DEF WalksLeft
<1>10. CASE ConcatDone
  <2>1. pc = "concat" /\ pc' = "client"
    BY <1>10 DEF ConcatDone, Return
  <2> QED
    BY <1>5, <2>1 DEF WalksLeft
<1> QED
  BY <1>4, <1>6, <1>7, <1>8, <1>9, <1>10 DEF Code, Concat

\* Every pass of every loop of alloc and free counts down to the return of the
\* call: none makes a walk start over, and none walks in a circle.
THEOREM RunsDownHolds == Spec => RunsDown
<1>1. IInv /\ ListInv /\ [Next]_vars => [Code => PassesLeft' < PassesLeft]_vars
  BY CodeRunsDown
<1> QED
  BY <1>1, ListInvariance, PTL DEF Spec, RunsDown
=============================================================================
