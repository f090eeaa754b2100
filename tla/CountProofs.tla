----------------------------- MODULE CountProofs -----------------------------
(***************************************************************************)
(* The reference counts are exact at every turn of release, however deep   *)
(* its recursion and wherever its inner calls have left the iterator, for  *)
(* a program that clears its blocks.                                       *)
(***************************************************************************)
EXTENDS RefCountProofs

USE MemSizeAssumption, StylesAssumption, NullAssumption, RefCountAssumption
USE DEF ASCENDING_SIZE, DESCENDING_SIZE, ADDRESS

\* The words of C that point into chunk c.
Pointing(C, c) == { w \in C : data[w] \in Words(c) }

\* The counts are right if the words of C are the ones that hold a reference.
Exact(C) ==
    \A c \in live :
        /\ refcount[c] = handles[c] + Cardinality(Pointing(C, c))
        /\ mark[c] = 1 <=> refcount[c] > 0

\* The walk of chunkMem has yet to come to the chunk its word points into.
Ahead(pos) ==
    cur # NULL /\ \E c \in live :
        mark[c] = 1 /\ data[Top.word] \in Words(c) /\ pos[c] >= pos[cur]

\* What makes CountsExact inductive: what the counts are in the middle of
\* chunkMem, and that a call of release that waits for another has nothing
\* more to find for the word it is at.
ExactInv ==
    /\ \A a \in Addr \ live : handles[a] = 0
    /\ pc \in {"client", "find", "insert", "scan"} => Exact(Counted)
    /\ pc = "chunkMem" => \A pos \in [Addr -> Int] : Runs(pos) =>
        IF Ahead(pos) THEN Exact(Counted) ELSE Exact(Counted \ {Top.word})
    /\ pc = "resume" =>
        /\ Exact(Counted \ {Top.word})
        /\ \A c \in live : data[Top.word] \in Words(c) => c = cur \/ mark[c] = 0
    /\ \A i \in 1 .. Len(frames) - 1 : \A c \in live :
        data[frames[i].word] \in Words(c) => mark[c] = 0

\* A word of a block in use points into the block that the program knows it
\* to refer to.
Targeted ==
    \A d \in Used : \A w \in Words(d) :
        target[w] # NULL => target[w] \in live /\ data[w] \in Words(target[w])

\* The word that the program takes its reference out of points into c.
Takes(d, w, c) == TakePointer(d, w) /\ target[w] = c /\ data[w] \in Words(c)

----------------------------------------------------------------------------
(* The words that hold a reference, one at a time. *)

InPlay(w) == \/ \E c \in Used : w \in Words(c)
             \/ \E i \in 1 .. Len(frames) : w \in Remaining(i)

LEMMA CountedIsInPlay == \A w : w \in Counted <=> InPlay(w)
<1> SUFFICES ASSUME NEW w PROVE w \in Counted <=> InPlay(w)
  OBVIOUS
<1>1. w \in UNION { Words(c) : c \in Used } <=> \E c \in Used : w \in Words(c)
  OBVIOUS
<1>2. w \in UNION { Remaining(i) : i \in 1 .. Len(frames) }
        <=> \E i \in 1 .. Len(frames) : w \in Remaining(i)
  OBVIOUS
<1> QED
  BY <1>1, <1>2 DEF Counted, InPlay

LEMMA CountedIsInPlayNext == (\A w : w \in Counted <=> InPlay(w))'
  BY CountedIsInPlay, PTL

LEMMA CountedFinite ==
    ASSUME RCBase
    PROVE  Counted \subseteq Addr /\ IsFiniteSet(Counted)
<1>1. ASSUME NEW w \in Counted PROVE w \in Addr
  <2>1. CASE \E c \in Used : w \in Words(c)
    BY <2>1, WordsTyped DEF RCBase, Used
  <2>2. CASE \E i \in 1 .. Len(frames) : w \in Remaining(i)
    <3>1. PICK i \in 1 .. Len(frames) : w \in Remaining(i)
      BY <2>2
    <3>2. frames[i] \in Frame /\ frames[i].chunk \in live
          /\ frames[i].chunk <= frames[i].word
      <4>1. frames[i] \in Frame
        BY DEF RCBase, RCTyped
      <4> QED
        BY <4>1 DEF RCBase, FramesInv
    <3>3. /\ frames[i].chunk \in Addr /\ frames[i].word \in 0 .. MemSize
          /\ size[frames[i].chunk] \in Int
          /\ frames[i].chunk + size[frames[i].chunk] <= MemSize
      <4>1. frames[i].chunk \in Addr /\ frames[i].word \in 0 .. MemSize
        BY <3>2 DEF Frame
      <4> QED
        BY <3>2, <4>1, WordsTyped DEF RCBase
    <3> QED
      BY <3>1, <3>2, <3>3 DEF Remaining, Addr
  <2> QED
    BY <2>1, <2>2, CountedIsInPlay DEF InPlay
<1>2. IsFiniteSet(Addr)
  BY FS_Interval DEF Addr
<1> QED
  BY <1>1, <1>2, FS_Subset

\* A part of the arena has no more words than the arena.
LEMMA FewWords ==
    ASSUME NEW S, S \subseteq Addr
    PROVE  IsFiniteSet(S) /\ Cardinality(S) \in 0 .. MemSize
<1>1. IsFiniteSet(Addr) /\ Cardinality(Addr) = MemSize
  BY FS_Interval DEF Addr
<1>2. IsFiniteSet(S) /\ Cardinality(S) <= Cardinality(Addr)
  BY <1>1, FS_Subset
<1> QED
  BY <1>1, <1>2, FS_CardinalityType

\* The word that the innermost call of release is at is in play, as part of
\* the chunk of that call only.
LEMMA TopWord ==
    ASSUME RCBase, pc \in {"chunkMem", "resume"}
    PROVE  /\ Top.word \in Counted /\ Top.word \in Addr
           /\ \A c \in Used : Top.word \notin Words(c)
           /\ \A i \in 1 .. Len(frames) - 1 : Top.word \notin Remaining(i)
           /\ Len(frames) \in Nat \ {0} /\ Top = frames[Len(frames)]
<1>1. Len(frames) \in Nat \ {0} /\ Top = frames[Len(frames)]
  <2>1. frames \in Seq(Frame) /\ frames # <<>>
    BY DEF RCBase, RCTyped, FramesInv
  <2>2. Len(frames) \in Nat /\ Len(frames) # 0
    BY <2>1, EmptyIff
  <2> QED
    BY <2>2 DEF Top
<1>2. ASSUME NEW i \in 1 .. Len(frames)
      PROVE  /\ frames[i] \in Frame
             /\ frames[i].chunk \in live /\ mark[frames[i].chunk] = 0
             /\ frames[i].chunk \in Int /\ size[frames[i].chunk] \in Int /\ frames[i].word \in Int
             /\ frames[i].chunk <= frames[i].word
             /\ frames[i].word < frames[i].chunk + size[frames[i].chunk]
             /\ frames[i].word \in Words(frames[i].chunk)
             /\ Remaining(i) \subseteq Words(frames[i].chunk)
  <2>1. frames[i] \in Frame
    BY DEF RCBase, RCTyped
  <2>2. /\ frames[i].chunk \in live /\ mark[frames[i].chunk] = 0
        /\ frames[i].chunk <= frames[i].word
        /\ frames[i].word < frames[i].chunk + size[frames[i].chunk]
    BY DEF RCBase, FramesInv
  <2>3. frames[i].chunk \in Int /\ size[frames[i].chunk] \in Int /\ frames[i].word \in Int
    BY <2>1, <2>2, WordsTyped DEF RCBase, Frame
  <2> QED
    BY <2>1, <2>2, <2>3 DEF Words, Remaining
<1>3. Top.word \in Words(Top.chunk) /\ Top.chunk \in live /\ mark[Top.chunk] = 0
  BY <1>1, <1>2
<1>4. Top.word \in Remaining(Len(frames))
  <2>1. Len(frames) \in 1 .. Len(frames)
    BY <1>1
  <2> QED
    BY <1>1, <1>2, <2>1 DEF Remaining
<1>5. Top.word \in Counted
  BY <1>1, <1>4, CountedIsInPlay DEF InPlay
<1>6. \A c \in Used : Top.word \notin Words(c)
  <2>1. \A c \in Used : c \in live /\ c # Top.chunk
    BY <1>3 DEF Used
  <2> QED
    BY <1>3, <2>1, WordsTyped DEF RCBase
<1>7. ASSUME NEW i \in 1 .. Len(frames) - 1 PROVE Top.word \notin Remaining(i)
  <2>1. i \in 1 .. Len(frames) /\ Len(frames) \in 1 .. Len(frames) /\ i # Len(frames)
    BY <1>1
  <2>2. frames[i].chunk # Top.chunk
    BY <1>1, <2>1 DEF RCBase, FramesInv
  <2>3. Words(frames[i].chunk) \intersect Words(Top.chunk) = {}
    BY <1>2, <1>3, <2>1, <2>2, WordsTyped DEF RCBase
  <2> QED
    BY <1>2, <1>3, <2>1, <2>3
<1> QED
  BY <1>1, <1>5, <1>6, <1>7, CountedFinite

----------------------------------------------------------------------------
(* How the counts depend on the words that are in play. *)

LEMMA PointingFinite ==
    ASSUME NEW C, C \subseteq Addr, NEW c
    PROVE  IsFiniteSet(Pointing(C, c)) /\ Cardinality(Pointing(C, c)) \in 0 .. MemSize
  BY FewWords DEF Pointing

\* A word that points into a chunk makes one reference to it, and none to others.
LEMMA OneFewer ==
    ASSUME RCBase, NEW C, C \subseteq Addr, NEW w \in C, NEW a \in live, data[w] \in Words(a),
           NEW c \in live
    PROVE  Cardinality(Pointing(C \ {w}, c))
             = Cardinality(Pointing(C, c)) - (IF c = a THEN 1 ELSE 0)
<1>1. Pointing(C \ {w}, c) = Pointing(C, c) \ {w}
  BY DEF Pointing
<1>2. w \in Pointing(C, c) <=> c = a
  BY WordsTyped DEF Pointing, RCBase
<1>3. IsFiniteSet(Pointing(C, c)) /\ Cardinality(Pointing(C, c)) \in Int
  BY PointingFinite
<1>4. Cardinality(Pointing(C, c) \ {w})
        = IF w \in Pointing(C, c) THEN Cardinality(Pointing(C, c)) - 1
                                  ELSE Cardinality(Pointing(C, c))
  BY <1>3, FS_RemoveElement
<1>5. CASE c = a
  BY <1>1, <1>2, <1>3, <1>4, <1>5
<1>6. CASE c # a
  <2>1. Cardinality(Pointing(C \ {w}, c)) = Cardinality(Pointing(C, c))
    BY <1>1, <1>2, <1>4, <1>6
  <2> QED
    BY <1>3, <1>6, <2>1
<1> QED
  BY <1>5, <1>6

\* No reference is lost with a word that points into no chunk.
LEMMA NoneFewer ==
    ASSUME NEW C, NEW w, \A c \in live : data[w] \notin Words(c), Exact(C)
    PROVE  Exact(C \ {w})
<1>1. \A c \in live : Pointing(C \ {w}, c) = Pointing(C, c)
  BY DEF Pointing
<1> QED
  BY <1>1 DEF Exact

\* A chunk that a word in play points into is in use, ...
LEMMA PointedInUse ==
    ASSUME RCBase, NEW C, C \subseteq Addr, Exact(C), NEW w \in C, NEW c \in live,
           data[w] \in Words(c)
    PROVE  mark[c] = 1
<1>1. w \in Pointing(C, c)
  BY DEF Pointing
<1>2. IsFiniteSet(Pointing(C, c)) /\ Cardinality(Pointing(C, c)) \in Int
      /\ Cardinality(Pointing(C, c)) >= 0
  BY PointingFinite
<1>3. Cardinality(Pointing(C, c)) # 0
  BY <1>1, <1>2, FS_EmptySet
<1>4. handles[c] \in Int /\ handles[c] >= 0
  BY WordsTyped DEF RCBase, RCTyped
<1> QED
  BY <1>2, <1>3, <1>4 DEF Exact

\* ... and the counts are far from the end of the range.
LEMMA NoWrap ==
    ASSUME RCBase, NEW C, C \subseteq Addr, Exact(C), NEW c \in live
    PROVE  /\ refcount[c] \in Int /\ refcount[c] >= handles[c] /\ handles[c] \in Int
           /\ handles[c] >= 0
           /\ refcount[c] <= handles[c] + MemSize
           /\ handles[c] < MaxHandles => refcount[c] + 1 < UintRange
           /\ refcount[c] < UintRange
<1>1. Cardinality(Pointing(C, c)) \in 0 .. MemSize
  BY PointingFinite
<1>2. handles[c] \in 0 .. MaxHandles /\ refcount[c] \in 0 .. UintRange - 1
  BY WordsTyped DEF RCBase, RCTyped
<1>3. refcount[c] = handles[c] + Cardinality(Pointing(C, c))
  BY DEF Exact
<1> QED
  BY <1>1, <1>2, <1>3

LEMMA ExactMoves ==
    ASSUME UNCHANGED <<live, size, mark, refcount, data, handles>>, NEW C, Exact(C)
    PROVE  Exact(C)'
  BY DEF Exact, Pointing, Words

LEMMA CountedKept == UNCHANGED <<live, size, mark, frames>> => Counted' = Counted
  BY DEF Counted, Remaining, Used, Words

LEMMA ExactInit == RCInit => ExactInv
<1> SUFFICES ASSUME RCInit PROVE ExactInv
  OBVIOUS
<1>1. /\ live = {0} /\ mark = [c \in Addr |-> 0] /\ refcount = [c \in Addr |-> 0]
      /\ data = [w \in Addr |-> NULL] /\ handles = [c \in Addr |-> 0] /\ frames = <<>>
      /\ pc = "client"
  BY DEF RCInit, Init, Fresh, Unused
<1>2. 0 \in Addr /\ Len(frames) = 0
  BY <1>1 DEF Addr
<1>3. Counted = {}
  <2>1. \A w : ~ InPlay(w)
    BY <1>1, <1>2 DEF InPlay, Used
  <2> QED
    BY <2>1, CountedIsInPlay
<1>4. Pointing({}, 0) = {}
  BY DEF Pointing
<1>5. Exact(Counted)
  BY <1>1, <1>2, <1>3, <1>4, FS_EmptySet DEF Exact
<1> QED
  BY <1>1, <1>2, <1>5 DEF ExactInv

----------------------------------------------------------------------------
(* The program's own steps. *)

\* alloc gives the program one reference to a chunk that nothing referred to.
LEMMA SplitCounts ==
    ASSUME RCBase, Initialises, \A a \in Addr \ live : handles[a] = 0,
           SplitAddress \/ SplitExact \/ SplitInPlace \/ SplitDetach,
           handles' = [handles EXCEPT ![cur] = 1],
           data' = [w \in Addr |-> IF Initialises /\ w \in cur .. cur + bytes - 1
                                  THEN NULL ELSE data[w]],
           UNCHANGED frames,
           \A w \in Counted : data[w] \notin Words(cur)
    PROVE  /\ pc' \in {"client", "insert"} /\ frames' = <<>>
           /\ cur \in live /\ live \subseteq live'
           /\ \A c \in live \ {cur} :
                /\ mark'[c] = mark[c] /\ refcount'[c] = refcount[c] /\ handles'[c] = handles[c]
                /\ Pointing(Counted, c)' = Pointing(Counted, c)
           /\ \A c \in live' : c \notin live \ {cur} =>
                /\ mark'[c] = refcount'[c] /\ refcount'[c] = handles'[c]
                /\ refcount'[c] \in {0, 1}
                /\ Cardinality(Pointing(Counted, c)') = 0
           /\ \A a \in Addr \ live' : handles'[a] = 0
<1>1. /\ pc = "find" /\ cur # NULL /\ Fits(cur, bytes) /\ Carve(cur, bytes)
      /\ pc' \in {"client", "insert"}
  BY DEF SplitAddress, SplitExact, SplitInPlace, SplitDetach, Return
<1>2. PICK a, n, b : a = cur /\ b = bytes /\ n = cur + bytes
  OBVIOUS
<1>3. /\ a \in live /\ b \in Int /\ b > 0 /\ mark[a] = 0 /\ size[a] >= b
      /\ frames = <<>> /\ Len(frames) = 0 /\ live \subseteq Addr
  BY <1>1, <1>2 DEF RCBase, IInv, Typed, Closure, Requests, Fits, FramesInv
<1>4. /\ a \in Int /\ size[a] \in Int /\ a \in Addr /\ n = a + b
      /\ Words(a) = a .. a + size[a] - 1
  BY <1>2, <1>3, WordsTyped DEF RCBase, Words
<1>5. PICK C : C = Counted
  OBVIOUS
<1>6. C \subseteq Addr
  BY <1>5, CountedFinite
<1>7. \A w \in C : data[w] \notin Words(a)
  BY <1>2, <1>5
<1>9. /\ live' \subseteq live \union {n} /\ live \subseteq live' /\ n \in Int
      /\ \A c \in live \ {a} : /\ size'[c] = size[c] /\ mark'[c] = mark[c]
                               /\ refcount'[c] = refcount[c]
      /\ size'[a] = b /\ mark'[a] = 1 /\ refcount'[a] = 1
      /\ n \in live' \ live => /\ n \in Addr /\ size'[n] = size[a] - b
                              /\ mark'[n] = 0 /\ refcount'[n] = 0
  <2>1. /\ size \in [Addr -> 0 .. MemSize] /\ mark \in [Addr -> {0, 1}]
        /\ refcount \in [Addr -> 0 .. UintRange - 1]
    BY DEF RCBase, IInv, Typed, RCTyped
  <2>2. CASE size[a] = b
    <3>1. /\ live' = live /\ size' = size /\ mark' = [mark EXCEPT ![a] = 1]
          /\ refcount' = [refcount EXCEPT ![a] = 1]
      BY <1>1, <1>2, <2>2 DEF Carve
    <3> QED
      BY <1>3, <1>4, <2>1, <2>2, <3>1
  <2>3. CASE size[a] # b
    <3>1. /\ live' = live \union {n}
          /\ size' = [size EXCEPT ![a] = b, ![n] = size[a] - b]
          /\ mark' = [mark EXCEPT ![a] = 1, ![n] = 0]
          /\ refcount' = [refcount EXCEPT ![a] = 1, ![n] = 0]
      BY <1>1, <1>2, <1>4, <2>3 DEF Carve, Rest
    <3>2. n \in Addr /\ n # a /\ n \in Words(a)
      BY <1>3, <1>4, <2>3, WordsTyped DEF RCBase
    <3>3. n \notin live
      <4>1. SUFFICES ASSUME n \in live PROVE FALSE
        OBVIOUS
      <4>2. a + size[a] <= n
        BY <1>3, <1>4, <3>2, <4>1 DEF RCBase, IInv, Tiling
      <4> QED
        BY <1>3, <1>4, <2>3, <4>2
    <3>4. /\ size'[a] = b /\ mark'[a] = 1 /\ refcount'[a] = 1
          /\ size'[n] = size[a] - b /\ mark'[n] = 0 /\ refcount'[n] = 0
      BY <1>4, <2>1, <3>1, <3>2
    <3>5. \A c \in live \ {a} : /\ size'[c] = size[c] /\ mark'[c] = mark[c]
                               /\ refcount'[c] = refcount[c]
      BY <1>3, <1>4, <2>1, <3>1, <3>2, <3>3
    <3>6. live' = live \union {n} /\ n \in Int
      BY <1>3, <1>4, <3>1
    <3> QED
      BY <3>2, <3>4, <3>5, <3>6
  <2> QED
    BY <2>2, <2>3
<1>10. PICK D : D = a .. a + b - 1
  OBVIOUS
<1>11. Used' = Used \union {a}
  BY <1>3, <1>9 DEF Used
<1>12. /\ D \subseteq Words(a) /\ D \subseteq Addr /\ Words(a)' = D
       /\ \A c \in live \ {a} : Words(c)' = Words(c)
       /\ n \in live' \ live => Words(n)' \subseteq Words(a)
  <2>1. Words(a)' = D
    BY <1>2, <1>9, <1>10 DEF Words
  <2>2. D \subseteq Words(a) /\ Words(a) \subseteq Addr
    BY <1>3, <1>4, <1>10, WordsTyped DEF RCBase
  <2>3. \A c \in live \ {a} : Words(c)' = Words(c)
    BY <1>9 DEF Words
  <2>4. n \in live' \ live => Words(n)' \subseteq Words(a)
    BY <1>3, <1>4, <1>9 DEF Words
  <2> QED
    BY <2>1, <2>2, <2>3, <2>4
<1>13. Counted' = C \union D
  <2>1. ASSUME NEW w PROVE w \in Counted' <=> w \in C \/ w \in D
    <3>1. w \in Counted' <=> \E c \in Used' : w \in Words(c)'
      BY <1>3, CountedIsInPlayNext DEF InPlay
    <3>2. w \in C <=> \E c \in Used : w \in Words(c)
      BY <1>3, <1>5, CountedIsInPlay DEF InPlay
    <3> QED
      BY <1>3, <1>11, <1>12, <3>1, <3>2 DEF Used
  <2> QED
    BY <2>1
<1>14. /\ \A w \in D : data'[w] = NULL
       /\ \A w \in C : data'[w] = data[w] \/ w \in D
  <2>1. data' = [w \in Addr |-> IF w \in D THEN NULL ELSE data[w]]
    BY <1>2, <1>10
  <2> QED
    BY <1>6, <1>12, <2>1
<1>15. ASSUME NEW w \in C PROVE w \notin D
  <2>1. PICK c \in Used : w \in Words(c)
    BY <1>3, <1>5, CountedIsInPlay DEF InPlay
  <2>2. c \in live /\ c # a
    BY <1>3, <2>1 DEF Used
  <2> QED
    BY <1>3, <1>12, <2>1, <2>2, WordsTyped DEF RCBase
<1>16. ASSUME NEW c \in live \ {a} PROVE Pointing(Counted, c)' = Pointing(C, c)
  <2>1. NULL \notin Words(c)
    BY WordsTyped DEF RCBase, Addr
  <2> QED
    BY <1>12, <1>13, <1>14, <1>15, <2>1 DEF Pointing
<1>17. ASSUME NEW c \in live', c \notin live \ {a} PROVE Pointing(Counted, c)' = {}
  <2>1. Words(c)' \subseteq Words(a) /\ NULL \notin Words(a)
    <3>1. NULL \notin Words(a)
      BY <1>3, WordsTyped DEF RCBase, Addr
    <3>2. CASE c = a
      BY <1>12, <3>1, <3>2
    <3>3. CASE c # a
      BY <1>9, <1>12, <1>17, <3>1, <3>3
    <3> QED
      BY <3>2, <3>3
  <2> QED
    BY <1>7, <1>13, <1>14, <1>15, <2>1 DEF Pointing
<1>18. /\ handles'[a] = 1 /\ \A c \in live' \ {a} : handles'[c] = handles[c]
       /\ \A c \in Addr \ live' : handles'[c] = 0
       /\ \A c \in live' \ live : handles'[c] = 0
  <2>1. handles' = [handles EXCEPT ![a] = 1] /\ handles \in [Addr -> 0 .. MaxHandles]
    BY <1>2 DEF RCBase, RCTyped
  <2> QED
    BY <1>3, <1>4, <1>9, <2>1
<1>19. ASSUME NEW c \in live', c \notin live \ {a}
       PROVE  /\ mark'[c] = refcount'[c] /\ refcount'[c] = handles'[c]
              /\ refcount'[c] \in {0, 1}
              /\ Cardinality(Pointing(Counted, c)') = 0
  <2>1. Cardinality(Pointing(Counted, c)') = 0
    BY <1>17, <1>19, FS_EmptySet
  <2>2. CASE c = a
    BY <1>9, <1>18, <2>1, <2>2
  <2>3. CASE c # a
    BY <1>9, <1>18, <1>19, <2>1, <2>3
  <2> QED
    BY <2>2, <2>3
<1>20. \A c \in live \ {a} : handles'[c] = handles[c]
  BY <1>9, <1>18
<1> QED
  BY <1>1, <1>2, <1>3, <1>5, <1>9, <1>16, <1>18, <1>19, <1>20

LEMMA SplitExactly ==
    ASSUME RCBase, ExactInv, Initialises,
           SplitAddress \/ SplitExact \/ SplitInPlace \/ SplitDetach,
           handles' = [handles EXCEPT ![cur] = 1],
           data' = [w \in Addr |-> IF Initialises /\ w \in cur .. cur + bytes - 1
                                  THEN NULL ELSE data[w]],
           UNCHANGED frames
    PROVE  ExactInv'
<1>1. PICK a, C : a = cur /\ C = Counted
  OBVIOUS
<1>2. a \in live /\ mark[a] = 0 /\ pc = "find"
  BY <1>1 DEF SplitAddress, SplitExact, SplitInPlace, SplitDetach, Fits, RCBase, IInv, Closure
<1>3. C \subseteq Addr /\ Exact(C)
  BY <1>1, <1>2, CountedFinite DEF ExactInv
<1>4. \A w \in C : data[w] \notin Words(a)
  BY <1>2, <1>3, PointedInUse
<1>5. \A d \in Addr \ live : handles[d] = 0
  BY DEF ExactInv
<1>6. /\ pc' \in {"client", "insert"} /\ frames' = <<>> /\ live \subseteq live'
      /\ \A c \in live \ {a} :
           /\ mark'[c] = mark[c] /\ refcount'[c] = refcount[c] /\ handles'[c] = handles[c]
           /\ Pointing(Counted, c)' = Pointing(C, c)
      /\ \A c \in live' : c \notin live \ {a} =>
           /\ mark'[c] = refcount'[c] /\ refcount'[c] = handles'[c]
           /\ refcount'[c] \in {0, 1}
           /\ Cardinality(Pointing(Counted, c)') = 0
      /\ \A d \in Addr \ live' : handles'[d] = 0
  BY <1>1, <1>4, <1>5, SplitCounts
<1>7. Exact(Counted)'
  <2> SUFFICES ASSUME NEW c \in live'
               PROVE  /\ refcount'[c] = handles'[c] + Cardinality(Pointing(Counted, c)')
                      /\ mark'[c] = 1 <=> refcount'[c] > 0
    BY DEF Exact
  <2>1. CASE c \in live \ {a}
    BY <1>3, <1>6, <2>1 DEF Exact
  <2>2. CASE c \notin live \ {a}
    BY <1>6, <2>2
  <2> QED
    BY <2>1, <2>2
<1> QED
  BY <1>6, <1>7 DEF ExactInv

LEMMA AllocExact ==
    ASSUME RCBase, ExactInv, Initialises, Alloc \/ AllocStep
    PROVE  ExactInv'
<1>1. CASE /\ SplitAddress \/ SplitExact \/ SplitInPlace \/ SplitDetach
           /\ handles' = [handles EXCEPT ![cur] = 1]
           /\ data' = [w \in Addr |-> IF Initialises /\ w \in cur .. cur + bytes - 1
                                      THEN NULL ELSE data[w]]
           /\ UNCHANGED frames
  BY <1>1, SplitExactly
<1>2. CASE Alloc \/ ((FindNext \/ FindFail \/ Insert) /\ UNCHANGED <<program, frames>>)
  <2>1. UNCHANGED <<live, size, mark, refcount, data, handles, frames>>
    BY <1>2 DEF Alloc, AllocInt, FindNext, FindFail, Insert, InsertFront, InsertBefore,
                InsertLast, InsertWalk, chunk, program
  <2>2. /\ pc \in {"client", "find", "insert"} /\ pc' \in {"client", "find", "insert"}
        /\ frames = <<>>
    <3>1. pc \in {"client", "find", "insert"} /\ pc' \in {"client", "find", "insert"}
      BY <1>2 DEF Alloc, AllocInt, FindNext, FindFail, Insert, InsertFront, InsertBefore,
                  InsertLast, InsertWalk, Inserted, Return, call
    <3> QED
      BY <3>1 DEF RCBase, FramesInv
  <2>3. PICK C : C = Counted
    OBVIOUS
  <2>4. Exact(C)' /\ Counted' = C
    BY <2>1, <2>2, <2>3, ExactMoves, CountedKept DEF ExactInv
  <2> QED
    BY <2>1, <2>2, <2>4 DEF ExactInv
<1> QED
  BY <1>1, <1>2 DEF AllocStep

\* retain counts the reference it makes.
LEMMA RetainExact ==
    ASSUME RCBase, ExactInv, NEW p \in live, Retain(p)
    PROVE  ExactInv'
<1>1. pc = "client" /\ FindAChunk(p) = p /\ p \in Addr
  BY FindAChunkFinds, WordsTyped DEF Retain, RCBase
<1>2. PICK C : C = Counted
  OBVIOUS
<1>3. C \subseteq Addr /\ Exact(C)
  BY <1>1, <1>2, CountedFinite DEF ExactInv
<1>4. /\ refcount' = [refcount EXCEPT ![p] = (refcount[p] + 1) % UintRange]
      /\ handles' = [handles EXCEPT ![p] = handles[p] + 1]
      /\ handles[p] \in 1 .. MaxHandles - 1
      /\ UNCHANGED <<list, live, next, prev, size, mark, call, data, frames>>
  BY <1>1 DEF Retain
<1>5. /\ refcount[p] \in Int /\ refcount[p] >= handles[p] /\ refcount[p] + 1 < UintRange
      /\ (refcount[p] + 1) % UintRange = refcount[p] + 1
  BY <1>3, <1>4, NoWrap
<1>6. \A c \in live : Pointing(C, c)' = Pointing(C, c) /\ Cardinality(Pointing(C, c)) \in Int
  <2>1. \A c \in live : Pointing(C, c)' = Pointing(C, c)
    BY <1>4 DEF Pointing, Words
  <2>2. \A c \in live : Cardinality(Pointing(C, c)) \in Int
    BY <1>3, PointingFinite
  <2> QED
    BY <2>1, <2>2
<1>7. \A c \in live : c # p => refcount'[c] = refcount[c] /\ handles'[c] = handles[c]
  BY <1>4 DEF RCBase, RCTyped, IInv, Typed
<1>8. refcount'[p] = refcount[p] + 1 /\ handles'[p] = handles[p] + 1
  BY <1>1, <1>4, <1>5 DEF RCBase, RCTyped
<1>9. Exact(C)'
  <2> SUFFICES ASSUME NEW c \in live
               PROVE  /\ refcount'[c] = handles'[c] + Cardinality(Pointing(C, c)')
                      /\ mark'[c] = 1 <=> refcount'[c] > 0
    BY <1>4 DEF Exact
  <2>1. CASE c # p
    BY <1>3, <1>4, <1>6, <1>7, <2>1 DEF Exact
  <2>2. CASE c = p
    BY <1>3, <1>4, <1>5, <1>6, <1>8, <2>2 DEF Exact
  <2> QED
    BY <2>1, <2>2
<1>10. Counted' = C /\ pc' = "client" /\ frames' = <<>>
  BY <1>1, <1>2, <1>4, CountedKept DEF call, RCBase, FramesInv
<1>11. \A a \in Addr \ live : handles'[a] = 0
  BY <1>4 DEF ExactInv, RCBase, RCTyped
<1> QED
  BY <1>4, <1>9, <1>10, <1>11 DEF ExactInv

\* A reference that moves between a variable and a word is one all the time.
LEMMA PointerMoves ==
    ASSUME RCBase, NEW d \in Used, NEW c \in live, NEW w \in Words(d),
           \/ \E p \in Words(c) : StorePointer(d, w, c, p)
           \/ Takes(d, w, c)
    PROVE  /\ pc' = "client" /\ frames' = <<>> /\ Counted' = Counted
           /\ UNCHANGED <<live, mark, refcount>>
           /\ \A a \in live : handles'[a] + Cardinality(Pointing(Counted, a)')
                                  = handles[a] + Cardinality(Pointing(Counted, a))
           /\ \A a \in Addr \ live : handles'[a] = handles[a]
<1>1. /\ pc = "client" /\ pc' = "client" /\ handles[d] > 0
      /\ UNCHANGED <<list, live, next, prev, size, mark, refcount, frames>>
  BY DEF StorePointer, Takes, TakePointer, vars, chunk, call
<1>2. PICK C : C = Counted
  OBVIOUS
<1>3. C \subseteq Addr /\ d \in live
  BY <1>1, <1>2, CountedFinite DEF Used
<1>5. w \in C
  BY <1>2, CountedIsInPlay DEF InPlay
<1>6. /\ handles \in [Addr -> 0 .. MaxHandles] /\ data \in [Addr -> Ptr]
      /\ c \in Addr /\ w \in Addr /\ live \subseteq Addr
  BY <1>3, WordsTyped DEF RCBase, RCTyped, IInv, Typed
<1>7. ASSUME NEW a \in live
      PROVE  /\ IsFiniteSet(Pointing(C, a)) /\ Cardinality(Pointing(C, a)) \in Int
             /\ Words(a)' = Words(a) /\ NULL \notin Words(a)
             /\ a # c => Words(a) \intersect Words(c) = {}
  <2>1. IsFiniteSet(Pointing(C, a)) /\ Cardinality(Pointing(C, a)) \in Int
    BY <1>3, PointingFinite
  <2>2. Words(a)' = Words(a)
    BY <1>1 DEF Words
  <2> QED
    BY <2>1, <2>2, WordsTyped DEF RCBase, Addr
<1> DEFINE Stored(p) == /\ data[w] = NULL /\ p \in Words(c)
                        /\ handles'[c] = handles[c] - 1 /\ data'[w] = p
           Taken     == /\ data[w] \in Words(c)
                        /\ handles'[c] = handles[c] + 1 /\ data'[w] = NULL
<1>13. /\ Taken \/ \E p \in Words(c) : Stored(p)
       /\ \A x \in C : x # w => data'[x] = data[x]
       /\ \A a \in live : a # c => handles'[a] = handles[a]
  <2>1. CASE \E p \in Words(c) : StorePointer(d, w, c, p)
    <3>1. PICK p \in Words(c) : StorePointer(d, w, c, p)
      BY <2>1
    <3>2. Stored(p)
      BY <1>6, <3>1 DEF StorePointer
    <3>3. /\ \A x \in C : x # w => data'[x] = data[x]
          /\ \A a \in live : a # c => handles'[a] = handles[a]
      BY <1>3, <1>6, <3>1 DEF StorePointer
    <3> QED
      BY <3>2, <3>3
  <2>2. CASE Takes(d, w, c)
    <3>1. Taken
      BY <1>6, <2>2 DEF Takes, TakePointer
    <3>2. /\ \A x \in C : x # w => data'[x] = data[x]
          /\ \A a \in live : a # c => handles'[a] = handles[a]
      BY <1>3, <1>6, <2>2 DEF Takes, TakePointer
    <3> QED
      BY <3>1, <3>2
  <2> QED
    BY <2>1, <2>2
<1>8. ASSUME NEW a \in live, a # c
      PROVE  Pointing(C, a)' = Pointing(C, a) /\ handles'[a] = handles[a]
  <2>1. data[w] \notin Words(a) /\ data'[w] \notin Words(a)
    BY <1>7, <1>8, <1>13
  <2>2. \A x \in C : data[x] \in Words(a) <=> data'[x] \in Words(a)
    BY <1>13, <2>1
  <2>3. Pointing(C, a)' = Pointing(C, a)
    BY <1>7, <2>2 DEF Pointing
  <2> QED
    BY <1>8, <1>13, <2>3
<1>9. handles'[c] + Cardinality(Pointing(C, c)') = handles[c] + Cardinality(Pointing(C, c))
  <2>1. ASSUME NEW p \in Words(c), Stored(p)
        PROVE  handles'[c] + Cardinality(Pointing(C, c)') = handles[c] + Cardinality(Pointing(C, c))
    <3>1. Pointing(C, c)' = Pointing(C, c) \union {w} /\ w \notin Pointing(C, c)
      <4>1. Words(c)' = Words(c) /\ data[w] \notin Words(c) /\ data'[w] \in Words(c)
        BY <1>7, <2>1
      <4> QED
        BY <1>5, <1>13, <4>1 DEF Pointing
    <3>2. Cardinality(Pointing(C, c)') = Cardinality(Pointing(C, c)) + 1
      BY <1>7, <3>1, FS_AddElement
    <3> QED
      BY <1>6, <1>7, <2>1, <3>2
  <2>2. CASE Taken
    <3>1. Pointing(C, c)' = Pointing(C, c) \ {w} /\ w \in Pointing(C, c)
      <4>1. Words(c)' = Words(c) /\ data[w] \in Words(c) /\ data'[w] \notin Words(c)
        BY <1>7, <2>2
      <4> QED
        BY <1>5, <1>13, <4>1 DEF Pointing
    <3>2. Cardinality(Pointing(C, c)') = Cardinality(Pointing(C, c)) - 1
      BY <1>7, <3>1, FS_RemoveElement
    <3> QED
      BY <1>6, <1>7, <2>2, <3>2
  <2> QED
    BY <1>13, <2>1, <2>2
<1>10. Counted' = C /\ frames' = <<>>
  BY <1>1, <1>2, CountedKept DEF RCBase, FramesInv
<1>11. \A a \in Addr \ live : handles'[a] = handles[a]
  BY <1>6 DEF StorePointer, Takes, TakePointer
<1>12. \A a \in live : handles'[a] + Cardinality(Pointing(Counted, a)')
                         = handles[a] + Cardinality(Pointing(C, a))
  <2>1. \A a : Pointing(Counted, a)' = Pointing(C, a)'
    BY <1>10 DEF Pointing
  <2> QED
    BY <1>8, <1>9, <2>1
<1> QED
  BY <1>1, <1>2, <1>10, <1>11, <1>12

LEMMA PointerExact ==
    ASSUME RCBase, ExactInv, NEW d \in live, NEW c \in live, NEW w \in Words(d),
           \/ \E p \in Words(c) : StorePointer(d, w, c, p)
           \/ Takes(d, w, c)
    PROVE  ExactInv'
<1>1. pc = "client" /\ handles[d] > 0
  BY DEF StorePointer, Takes, TakePointer
<1>2. PICK C : C = Counted
  OBVIOUS
<1>3. C \subseteq Addr /\ Exact(C)
  BY <1>1, <1>2, CountedFinite DEF ExactInv
<1>4. d \in Used
  <2>1. refcount[d] > 0
    BY <1>1, <1>3, NoWrap
  <2> QED
    BY <1>3, <2>1 DEF Exact, Used
<1>5. /\ pc' = "client" /\ frames' = <<>> /\ Counted' = C
      /\ UNCHANGED <<live, mark, refcount>>
      /\ \A a \in live : handles'[a] + Cardinality(Pointing(Counted, a)')
                             = handles[a] + Cardinality(Pointing(C, a))
      /\ \A a \in Addr \ live : handles'[a] = handles[a]
  BY <1>2, <1>4, PointerMoves
<1>6. Exact(Counted)'
  BY <1>3, <1>5 DEF Exact
<1> QED
  BY <1>5, <1>6 DEF ExactInv

----------------------------------------------------------------------------
(* What the program knows of its pointers is so. *)

LEMMA TargetedInit == RCInit => Targeted
  BY DEF RCInit, Init, Fresh, Unused, Targeted, Used, Addr

\* The words of a block that is handed out refer to nothing, and no word in
\* use points into the chunk that it is cut from.
LEMMA SplitTargeted ==
    ASSUME RCBase, Targeted, SplitAddress \/ SplitExact \/ SplitInPlace \/ SplitDetach,
           data' = [w \in Addr |-> IF Initialises /\ w \in cur .. cur + bytes - 1
                                  THEN NULL ELSE data[w]],
           target' = [w \in Addr |-> IF w \in cur .. cur + bytes - 1 THEN NULL ELSE target[w]],
           \A d \in Used : \A w \in Words(d) : data[w] \notin Words(cur)
    PROVE  Targeted'
<1>0. PICK a, b : a = cur /\ b = bytes
  OBVIOUS
<1>1. /\ a \in live /\ Fits(a, b) /\ Carve(a, b) /\ b \in Int /\ b > 0
  BY <1>0 DEF SplitAddress, SplitExact, SplitInPlace, SplitDetach, RCBase, IInv, Typed, Closure,
              Requests
<1>2. /\ a \in Int /\ size[a] \in Int /\ size[a] > 0 /\ live \subseteq Addr
      /\ Words(a) = a .. a + size[a] - 1 /\ mark \in [Addr -> {0, 1}]
  BY <1>1, WordsTyped DEF RCBase, IInv, Typed, Words
<1>3. b \in 1 .. size[a] /\ a .. a + b - 1 \subseteq Words(a) /\ mark[a] = 0
  BY <1>1, <1>2 DEF Fits
<1>4. /\ live' = IF b < size[a] THEN live \union {a + b} ELSE live
      /\ size'[a] = b
      /\ \A d \in live \ {a} : size'[d] = size[d] /\ mark'[d] = mark[d]
      /\ b < size[a] => mark'[a + b] = 0
  <2>1. IInv
    BY DEF RCBase
  <2>2. b < size[a] => a + b \in Addr /\ mark'[a + b] = 0
    BY <1>1, <1>2, <1>3, <2>1, CarveTiling DEF Carve
  <2> QED
    BY <1>1, <1>3, <2>1, <2>2, CarveTiling
<1>5. Used' \subseteq Used \union {a} /\ Used \subseteq live \ {a}
  BY <1>3, <1>4 DEF Used
<1> SUFFICES ASSUME NEW d \in Used', NEW w \in Words(d)', target'[w] # NULL
             PROVE  target'[w] \in live' /\ data'[w] \in Words(target[w])'
  BY DEF Targeted
<1>6. w \in Addr /\ (w \in a .. a + b - 1 => target'[w] = NULL)
  <2>1. CASE d = a
    BY <1>0, <1>1, <1>2, <1>3, <1>4, <2>1, WordsTyped DEF Words, RCBase
  <2>2. CASE d # a
    <3>1. d \in live /\ w \in Words(d)
      BY <1>4, <1>5, <2>2 DEF Words
    <3> QED
      BY <1>0, <3>1, WordsTyped DEF RCBase
  <2> QED
    BY <2>1, <2>2
<1>7. d \in Used /\ w \in Words(d) /\ w \notin a .. a + b - 1
  BY <1>4, <1>5, <1>6 DEF Words
<1>8. target'[w] = target[w] /\ data'[w] = data[w]
  BY <1>0, <1>6, <1>7
<1>9. target[w] \in live \ {a} /\ data[w] \in Words(target[w])
  BY <1>0, <1>7, <1>8 DEF Targeted
<1> QED
  BY <1>4, <1>8, <1>9 DEF Words

\* The steps that hand out, move and revive nothing.
LEMMA TargetedKept ==
    ASSUME Targeted, UNCHANGED <<live, size, data, target>>,
           \A c \in live : mark'[c] = 1 => mark[c] = 1
    PROVE  Targeted'
  BY DEF Targeted, Used, Words

\* The program stores what it knows, and forgets what it takes out.
LEMMA PointerTargeted ==
    ASSUME RCBase, Targeted, NEW d \in Used, NEW w \in Words(d),
           (\E c \in live : \E p \in Words(c) : StorePointer(d, w, c, p)) \/ TakePointer(d, w)
    PROVE  Targeted'
<1>1. /\ data \in [Addr -> Ptr] /\ target \in [Addr -> Ptr]
      /\ \A x \in Used : Words(x) \subseteq Addr
      /\ UNCHANGED <<live, size, mark>>
  BY WordsTyped DEF RCBase, RCTyped, Used, StorePointer, TakePointer, vars, chunk
<1>2. Used' = Used /\ \A c : Words(c)' = Words(c)
  BY <1>1 DEF Used, Words
<1>3. \A v \in Addr \ {w} : data'[v] = data[v] /\ target'[v] = target[v]
  BY <1>1 DEF StorePointer, TakePointer
<1>4. target'[w] = NULL \/ \E c \in live : target'[w] = c /\ data'[w] \in Words(c)
  BY <1>1 DEF StorePointer, TakePointer
<1> QED
  BY <1>1, <1>2, <1>3, <1>4 DEF Targeted

\* A reference that is taken out of a word is one to the block it points into.
LEMMA TakesTarget ==
    ASSUME Targeted, NEW d \in Used, NEW w \in Words(d), TakePointer(d, w)
    PROVE  \E c \in live : Takes(d, w, c)
  BY DEF Targeted, Takes, TakePointer

\* No word of a block in use points into a chunk that is free.
LEMMA UsedProtected ==
    ASSUME RCBase, Exact(Counted), NEW d \in Used, NEW w \in Words(d), NEW c \in live,
           data[w] \in Words(c)
    PROVE  mark[c] = 1
  BY CountedFinite, CountedIsInPlay, PointedInUse DEF InPlay

LEMMA HeldIsUsed ==
    ASSUME RCBase, Exact(Counted), NEW c \in live, handles[c] > 0
    PROVE  c \in Used
<1>1. refcount[c] > 0
  BY CountedFinite, NoWrap
<1> QED
  BY <1>1 DEF Exact, Used

LEMMA TargetedStep ==
    ASSUME RCBase, ExactInv, Targeted, [RCNext]_rcVars
    PROVE  Targeted'
<1>1. CASE /\ SplitAddress \/ SplitExact \/ SplitInPlace \/ SplitDetach
           /\ AllocStep
  <2>1. pc = "find" /\ mark[cur] = 0 /\ cur \in live
    BY <1>1 DEF SplitAddress, SplitExact, SplitInPlace, SplitDetach, Fits, RCBase, IInv, Closure
  <2>2. \A d \in Used : \A w \in Words(d) : data[w] \notin Words(cur)
    BY <2>1, UsedProtected DEF ExactInv
  <2>3. /\ data' = [w \in Addr |-> IF Initialises /\ w \in cur .. cur + bytes - 1
                                  THEN NULL ELSE data[w]]
        /\ target' = [w \in Addr |-> IF w \in cur .. cur + bytes - 1 THEN NULL ELSE target[w]]
    BY <1>1, <2>1 DEF AllocStep, SplitAddress, SplitExact, SplitInPlace, SplitDetach, Fits,
                      FindNext, FindFail, Insert, InsertFront, InsertBefore, InsertLast, InsertWalk
  <2> QED
    BY <1>1, <2>2, <2>3, SplitTargeted
<1>2. CASE Alloc \/ ((FindNext \/ FindFail \/ Insert) /\ UNCHANGED <<program, frames>>)
  BY <1>2, TargetedKept DEF Alloc, AllocInt, FindNext, FindFail, Insert, InsertFront,
                            InsertBefore, InsertLast, InsertWalk, chunk, program
<1>3. ASSUME NEW p \in live, Retain(p) PROVE Targeted'
  BY <1>3, TargetedKept DEF Retain
<1>4. ASSUME NEW p, ReleaseChunk(p) PROVE Targeted'
  <2>1. mark \in [Addr -> {0, 1}] /\ live \subseteq Addr
    BY DEF RCBase, IInv, Typed
  <2>2. UNCHANGED <<live, size, data, target>>
    BY <1>4 DEF ReleaseChunk
  <2>3. mark' = mark \/ \E c : mark' = [mark EXCEPT ![c] = 0]
    BY <1>4 DEF ReleaseChunk
  <2>4. \A c \in live : mark'[c] = 1 => mark[c] = 1
    BY <2>1, <2>3
  <2> QED
    BY <2>2, <2>4, TargetedKept
<1>5. ASSUME NEW d \in live, NEW w \in Words(d),
             (\E c \in live : \E p \in Words(c) : StorePointer(d, w, c, p)) \/ TakePointer(d, w)
      PROVE  Targeted'
  <2>1. pc = "client" /\ handles[d] > 0
    BY <1>5 DEF StorePointer, TakePointer
  <2>2. d \in Used
    BY <2>1, HeldIsUsed DEF ExactInv
  <2> QED
    BY <1>5, <2>2, PointerTargeted
<1>6. CASE ScanWord \/ ScanDone \/ MemNext \/ MemDone
  BY <1>6, TargetedKept DEF ScanWord, ScanDone, MemNext, MemDone, chunk, program
<1>7. CASE UNCHANGED rcVars
  BY <1>7, TargetedKept DEF rcVars, vars, chunk, program
<1> QED
  BY <1>1, <1>2, <1>3, <1>4, <1>5, <1>6, <1>7
     DEF RCNext, Program, RCCode, AllocStep, ReleaseStep, Release, MemRelease

----------------------------------------------------------------------------
(* The steps of release. *)

LEMMA FramesTyped ==
    ASSUME RCBase, NEW i \in 1 .. Len(frames)
    PROVE  /\ frames[i] \in Frame /\ frames[i].chunk \in live
           /\ frames[i].chunk \in Int /\ frames[i].word \in Int
           /\ size[frames[i].chunk] \in Int
<1>1. frames[i] \in Frame /\ frames[i].chunk \in live
  BY DEF RCBase, RCTyped, FramesInv
<1> QED
  BY <1>1, WordsTyped DEF RCBase, Frame

\* When a chunk starts to be scanned its words stay in play, and the word
\* that led to it is given up.
LEMMA PushCounted ==
    ASSUME RCBase, pc \in {"client", "chunkMem"}, NEW p \in Used,
           UNCHANGED <<live, size>>, mark' = [mark EXCEPT ![p] = 0],
           frames' = Append(frames, [chunk |-> p, word |-> p])
    PROVE  Counted' = IF pc = "client" THEN Counted ELSE Counted \ {Top.word}
<1>1. p \in live /\ p \in Addr /\ p \in Int /\ size[p] \in Int /\ mark \in [Addr -> {0, 1}]
  BY WordsTyped DEF Used, RCBase, IInv, Typed
<1>2. [chunk |-> p, word |-> p] \in Frame /\ frames \in Seq(Frame)
  BY <1>1 DEF Frame, Addr, RCBase, RCTyped
<1>3. PICK n : n = Len(frames)
  OBVIOUS
<1>4. /\ n \in Nat /\ Len(frames') = n + 1 /\ \A i \in 1 .. n : frames'[i] = frames[i]
      /\ frames'[n + 1] = [chunk |-> p, word |-> p]
      /\ pc = "client" <=> n = 0
  <2>1. pc = "client" <=> n = 0
    BY <1>2, <1>3, EmptyIff DEF RCBase, FramesInv
  <2> QED
    BY <1>2, <1>3, <2>1, Pushed
<1>5. Used' = Used \ {p}
  BY <1>1 DEF Used, RCBase, IInv, Typed
<1>6. \A c : Words(c)' = Words(c)
  BY DEF Words
<1>7. Remaining(n + 1)' = Words(p)
  BY <1>1, <1>4 DEF Remaining, Words
<1>8. ASSUME NEW i \in 1 .. n
      PROVE  Remaining(i)' = IF i = n THEN Remaining(i) \ {frames[i].word} ELSE Remaining(i)
  <2>1. /\ frames[i].chunk \in Int /\ frames[i].word \in Int /\ size[frames[i].chunk] \in Int
        /\ frames'[i] = frames[i] /\ i < Len(frames')
    BY <1>3, <1>4, FramesTyped
  <2>2. Remaining(i)' = frames[i].word + 1 .. frames[i].chunk + size[frames[i].chunk] - 1
    BY <2>1 DEF Remaining
  <2>3. CASE i = n
    <3>1. Remaining(i) = frames[i].word .. frames[i].chunk + size[frames[i].chunk] - 1
      BY <1>3, <2>1, <2>3 DEF Remaining
    <3> QED
      BY <2>1, <2>2, <2>3, <3>1
  <2>4. CASE i # n
    <3>1. Remaining(i) = frames[i].word + 1 .. frames[i].chunk + size[frames[i].chunk] - 1
      BY <1>3, <1>4, <2>1, <2>4 DEF Remaining
    <3> QED
      BY <2>2, <2>4, <3>1
  <2> QED
    BY <2>3, <2>4
<1>9. ASSUME NEW w
      PROVE  w \in Counted' <=> \/ \E c \in Used : w \in Words(c)
                               \/ \E i \in 1 .. n : w \in Remaining(i) /\ (i = n => w # frames[i].word)
  <2>1. w \in Counted' <=> \/ \E c \in Used \ {p} : w \in Words(c)
                          \/ \E i \in 1 .. n + 1 : w \in Remaining(i)'
    BY <1>4, <1>5, <1>6, CountedIsInPlayNext DEF InPlay
  <2>2. (\E i \in 1 .. n + 1 : w \in Remaining(i)')
          <=> w \in Words(p) \/ \E i \in 1 .. n : w \in Remaining(i)'
    BY <1>4, <1>7
  <2>3. \A i \in 1 .. n : w \in Remaining(i)' <=> w \in Remaining(i) /\ (i = n => w # frames[i].word)
    BY <1>8
  <2> QED
    BY <2>1, <2>2, <2>3
<1>10. ASSUME NEW w
       PROVE  w \in Counted <=> \/ \E c \in Used : w \in Words(c)
                               \/ \E i \in 1 .. n : w \in Remaining(i)
  BY <1>3, CountedIsInPlay DEF InPlay
<1>11. CASE pc = "client"
  <2>1. \A w : w \in Counted' <=> w \in Counted
    BY <1>4, <1>9, <1>10, <1>11
  <2> QED
    BY <1>11, <2>1
<1>12. CASE pc = "chunkMem"
  <2>1. /\ \A c \in Used : Top.word \notin Words(c)
        /\ \A i \in 1 .. n - 1 : Top.word \notin Remaining(i)
        /\ n \in Nat \ {0} /\ Top = frames[n]
    BY <1>3, <1>12, TopWord
  <2>2. \A w : w \in Counted' <=> w \in Counted /\ w # Top.word
    BY <1>9, <1>10, <2>1
  <2> QED
    BY <1>12, <2>2
<1> QED
  BY <1>11, <1>12

\* One reference less, and the chunk is out of use with the last one.
LEMMA ReleaseCounts ==
    ASSUME RCBase, pc \in {"client", "chunkMem"}, NEW p \in live, ReleaseChunk(p),
           NEW D, D \subseteq Addr, refcount[p] > 0,
           \A c \in live : mark[c] = 1 <=> refcount[c] > 0,
           \A c \in live : refcount[c] - (IF c = p THEN 1 ELSE 0)
                               = handles'[c] + Cardinality(Pointing(D, c))
    PROVE  /\ Exact(D)'
           /\ refcount[p] = 1 => /\ mark' = [mark EXCEPT ![p] = 0] /\ pc' = "scan"
                                 /\ frames' = Append(frames, [chunk |-> p, word |-> p])
           /\ refcount[p] # 1 => /\ UNCHANGED <<mark, frames>>
                                 /\ pc' = IF frames = <<>> THEN "client" ELSE "resume"
           /\ UNCHANGED <<list, live, next, prev, size, data>> /\ cur' = p
<1>1. PICK count : count = (refcount[p] - 1) % UintRange
  OBVIOUS
<1>2. /\ UNCHANGED <<list, live, next, prev, size, bytes, object, todo, data>> /\ cur' = p
      /\ refcount' = [refcount EXCEPT ![p] = count]
      /\ count = 0 => /\ mark' = [mark EXCEPT ![p] = 0]
                      /\ frames' = Append(frames, [chunk |-> p, word |-> p])
                      /\ pc' = "scan"
      /\ count # 0 => /\ UNCHANGED <<mark, frames>>
                      /\ pc' = IF frames = <<>> THEN "client" ELSE "resume"
  BY <1>1, ReleaseEffect
<1>3. /\ p \in Addr /\ live \subseteq Addr /\ mark \in [Addr -> {0, 1}]
      /\ refcount \in [Addr -> 0 .. UintRange - 1]
  BY DEF RCBase, RCTyped, IInv, Typed
<1>4. count = refcount[p] - 1 /\ refcount[p] \in Int
  <2>1. refcount[p] \in 1 .. UintRange - 1
    BY <1>3
  <2> QED
    BY <1>1, <2>1
<1>5. \A c \in live : Pointing(D, c)' = Pointing(D, c)
  BY <1>2 DEF Pointing, Words
<1>6. ASSUME NEW c \in live
      PROVE  /\ refcount'[c] = handles'[c] + Cardinality(Pointing(D, c)')
             /\ mark'[c] = 1 <=> refcount'[c] > 0
  <2>1. refcount[c] \in Int /\ c \in Addr
    BY <1>3
  <2>2. refcount'[c] = refcount[c] - (IF c = p THEN 1 ELSE 0)
    BY <1>2, <1>3, <1>4, <2>1
  <2>3. mark'[c] = 1 <=> refcount'[c] > 0
    <3>1. CASE c # p
      BY <1>2, <1>3, <2>1, <2>2, <3>1
    <3>2. CASE c = p /\ count = 0
      BY <1>2, <1>3, <1>4, <2>2, <3>2
    <3>3. CASE c = p /\ count # 0
      BY <1>2, <1>3, <1>4, <2>2, <3>3
    <3> QED
      BY <3>1, <3>2, <3>3
  <2> QED
    BY <1>5, <2>2, <2>3
<1>7. Exact(D)'
  BY <1>2, <1>6 DEF Exact
<1> QED
  BY <1>2, <1>4, <1>7

LEMMA ReleaseExact ==
    ASSUME RCBase, ExactInv, NEW p \in live, Release(p)
    PROVE  ExactInv'
<1>1. /\ pc = "client" /\ handles[p] > 0 /\ handles' = [handles EXCEPT ![p] = handles[p] - 1]
      /\ ReleaseChunk(p)
  BY DEF Release
<1>2. PICK C : C = Counted
  OBVIOUS
<1>3. C \subseteq Addr /\ Exact(C)
  BY <1>1, <1>2, CountedFinite DEF ExactInv
<1>4. handles \in [Addr -> 0 .. MaxHandles] /\ live \subseteq Addr /\ frames = <<>>
  BY <1>1 DEF RCBase, RCTyped, IInv, Typed, FramesInv
<1>5. ASSUME NEW c \in live
      PROVE  refcount[c] - (IF c = p THEN 1 ELSE 0) = handles'[c] + Cardinality(Pointing(C, c))
  <2>1. Cardinality(Pointing(C, c)) \in Int /\ handles[c] \in Int
    BY <1>3, <1>4, PointingFinite
  <2>2. refcount[c] = handles[c] + Cardinality(Pointing(C, c))
    BY <1>3 DEF Exact
  <2>3. handles'[c] = handles[c] - (IF c = p THEN 1 ELSE 0)
    BY <1>1, <1>4, <2>1
  <2> QED
    BY <2>1, <2>2, <2>3
<1>6. refcount[p] > 0 /\ \A c \in live : mark[c] = 1 <=> refcount[c] > 0
  BY <1>1, <1>3, NoWrap DEF Exact
<1>7. /\ Exact(C)'
      /\ refcount[p] = 1 => /\ mark' = [mark EXCEPT ![p] = 0] /\ pc' = "scan"
                            /\ frames' = Append(frames, [chunk |-> p, word |-> p])
      /\ refcount[p] # 1 => /\ UNCHANGED <<mark, frames>>
                            /\ pc' = IF frames = <<>> THEN "client" ELSE "resume"
      /\ UNCHANGED <<list, live, next, prev, size, data>> /\ cur' = p
  BY <1>1, <1>3, <1>5, <1>6, ReleaseCounts
<1>8. Counted' = C /\ pc' \in {"client", "scan"}
  <2>1. CASE refcount[p] = 1
    BY <1>1, <1>2, <1>6, <1>7, <2>1, PushCounted DEF Used
  <2>2. CASE refcount[p] # 1
    BY <1>2, <1>4, <1>7, <2>2, CountedKept
  <2> QED
    BY <2>1, <2>2
<1>9. Len(frames') - 1 <= 0 /\ Len(frames') - 1 \in Int
  <2>1. frames \in Seq(Frame) /\ [chunk |-> p, word |-> p] \in Frame /\ Len(frames) = 0
    BY <1>4, WordsTyped DEF RCBase, RCTyped, Frame, Addr
  <2>2. CASE refcount[p] = 1
    <3>1. frames' = Append(frames, [chunk |-> p, word |-> p])
      BY <1>7, <2>2
    <3>2. Len(frames') = Len(frames) + 1
      BY <2>1, <3>1, Pushed
    <3> QED
      BY <2>1, <3>2
  <2>3. CASE refcount[p] # 1
    BY <1>7, <2>1, <2>3
  <2> QED
    BY <2>2, <2>3
<1>10. \A a \in Addr \ live : handles'[a] = 0
  BY <1>1, <1>4 DEF ExactInv
<1> QED
  BY <1>7, <1>8, <1>9, <1>10 DEF ExactInv

LEMMA MemReleaseExact ==
    ASSUME RCBase, ExactInv, MemRelease
    PROVE  ExactInv'
<1>1. /\ pc = "chunkMem" /\ cur # NULL /\ mark[cur] # 0 /\ data[Top.word] \in Words(cur)
      /\ ReleaseChunk(cur) /\ handles' = handles
  BY DEF MemRelease, Hit
<1>2. PICK a, w, C : a = cur /\ w = Top.word /\ C = Counted
  OBVIOUS
<1>3. a \in live /\ mark[a] = 1 /\ data[w] \in Words(a) /\ ReleaseChunk(a)
  BY <1>1, <1>2 DEF RCBase, IInv, Closure, Typed
<1>4. C \subseteq Addr /\ w \in C
  BY <1>1, <1>2, CountedFinite, TopWord
<1>5. Exact(C)
  <2>1. PICK pos \in [Addr -> Int] : Runs(pos)
    BY DEF RCBase, ListInv
  <2>2. pos[a] \in Int
    BY <1>3, WordsTyped DEF RCBase
  <2>3. pos[a] >= pos[a]
    BY <2>2
  <2>4. Ahead(pos)
    BY <1>1, <1>2, <1>3, <2>3 DEF Ahead
  <2> QED
    BY <1>1, <1>2, <2>1, <2>4 DEF ExactInv
<1>6. C \ {w} \subseteq Addr
  BY <1>4
<1>7. ASSUME NEW c \in live
      PROVE  refcount[c] - (IF c = a THEN 1 ELSE 0)
               = handles'[c] + Cardinality(Pointing(C \ {w}, c))
  <2>1. Cardinality(Pointing(C \ {w}, c))
          = Cardinality(Pointing(C, c)) - (IF c = a THEN 1 ELSE 0)
    BY <1>3, <1>4, OneFewer
  <2>2. Cardinality(Pointing(C, c)) \in Int /\ handles[c] \in Int
    BY <1>4, PointingFinite, WordsTyped DEF RCBase, RCTyped
  <2>3. refcount[c] = handles[c] + Cardinality(Pointing(C, c))
    BY <1>5 DEF Exact
  <2> QED
    BY <1>1, <2>1, <2>2, <2>3
<1>8. refcount[a] > 0 /\ \A c \in live : mark[c] = 1 <=> refcount[c] > 0
  BY <1>3, <1>5 DEF Exact
<1>9. /\ Exact(C \ {w})'
      /\ refcount[a] = 1 => /\ mark' = [mark EXCEPT ![a] = 0] /\ pc' = "scan"
                            /\ frames' = Append(frames, [chunk |-> a, word |-> a])
      /\ refcount[a] # 1 => /\ UNCHANGED <<mark, frames>>
                            /\ pc' = IF frames = <<>> THEN "client" ELSE "resume"
      /\ UNCHANGED <<list, live, next, prev, size, data>> /\ cur' = a
  BY <1>1, <1>3, <1>6, <1>7, <1>8, ReleaseCounts
<1>10. /\ Len(frames) \in Nat \ {0} /\ Top = frames[Len(frames)] /\ frames # <<>>
       /\ frames \in Seq(Frame) /\ mark \in [Addr -> {0, 1}]
  BY <1>1, TopWord DEF RCBase, FramesInv, RCTyped, IInv, Typed
<1>11. \A b \in Addr \ live' : handles'[b] = 0
  BY <1>1, <1>9 DEF ExactInv
<1>12. \A c \in live : Words(c)' = Words(c)
  BY <1>9 DEF Words
<1>13. \A c \in live : data[w] \in Words(c) => c = a
  BY <1>3, WordsTyped DEF RCBase
<1>14. CASE refcount[a] # 1
  <2>1. Top' = Top /\ Counted' = C /\ pc' = "resume" /\ cur' = a /\ frames' = frames
    BY <1>2, <1>9, <1>10, <1>14, CountedKept DEF Top
  <2>2. Exact(Counted \ {Top.word})'
    BY <1>2, <1>9, <2>1
  <2>3. \A i \in 1 .. Len(frames') - 1 : \A c \in live' :
          data'[frames'[i].word] \in Words(c)' => mark'[c] = 0
    BY <1>9, <1>12, <1>14, <2>1 DEF ExactInv
  <2>4. \A c \in live' : data'[Top'.word] \in Words(c)' => c = cur' \/ mark'[c] = 0
    BY <1>2, <1>9, <1>12, <1>13, <2>1
  <2> QED
    BY <1>11, <2>1, <2>2, <2>3, <2>4 DEF ExactInv
<1>15. CASE refcount[a] = 1
  <2>1. Counted' = C \ {w} /\ pc' = "scan"
    BY <1>1, <1>2, <1>3, <1>9, <1>15, PushCounted DEF Used
  <2>2. Exact(Counted)'
    BY <1>9, <2>1
  <2>3. /\ Len(frames') = Len(frames) + 1
        /\ \A i \in 1 .. Len(frames) : frames'[i] = frames[i]
    <3>1. [chunk |-> a, word |-> a] \in Frame
      BY <1>3, WordsTyped DEF Frame, Addr, RCBase
    <3> QED
      BY <1>9, <1>10, <1>15, <3>1, Pushed
  <2>4. ASSUME NEW i \in 1 .. Len(frames') - 1, NEW c \in live',
               data'[frames'[i].word] \in Words(c)'
        PROVE  mark'[c] = 0
    <3>1. i \in 1 .. Len(frames) /\ frames'[i] = frames[i] /\ c \in live /\ c \in Addr
      BY <1>9, <1>10, <2>3, <2>4, WordsTyped DEF RCBase
    <3>2. CASE i = Len(frames)
      BY <1>2, <1>9, <1>10, <1>12, <1>13, <1>15, <2>4, <3>1, <3>2
    <3>3. CASE i # Len(frames)
      <4>1. i \in 1 .. Len(frames) - 1
        BY <1>10, <3>1, <3>3
      <4>2. mark[c] = 0
        BY <1>9, <1>12, <2>4, <3>1, <4>1 DEF ExactInv
      <4> QED
        BY <1>9, <1>10, <1>15, <3>1, <4>2
    <3> QED
      BY <3>2, <3>3
  <2> QED
    BY <1>11, <2>1, <2>2, <2>4 DEF ExactInv
<1> QED
  BY <1>14, <1>15

\* chunkMem starts at the first chunk: all of the list is ahead.
LEMMA ScanWordExact ==
    ASSUME RCBase, ExactInv, ScanWord
    PROVE  ExactInv'
<1>1. /\ pc = "scan" /\ pc' = "chunkMem" /\ cur' = first
      /\ UNCHANGED <<list, live, next, prev, size, mark, refcount, todo, data, handles, frames>>
  BY DEF ScanWord, chunk, program
<1>2. /\ first \in live /\ first # NULL /\ Listed' = Listed /\ Listed = live
  BY <1>1, NothingWaits DEF RCBase, IInv, Typed, Closure, Addr, Listed, Todo
<1>3. PICK w, C : w = Top.word /\ C = Counted
  OBVIOUS
<1>4. C \subseteq Addr /\ Exact(C)
  BY <1>1, <1>3, CountedFinite DEF ExactInv
<1>5. Exact(C)' /\ Counted' = C /\ Top'.word = w
  BY <1>1, <1>3, <1>4, ExactMoves, CountedKept DEF Top
<1>6. w \in C
  <2>1. frames \in Seq(Frame) /\ frames # <<>>
    BY <1>1 DEF RCBase, RCTyped, FramesInv
  <2>2. Len(frames) \in Nat /\ Len(frames) # 0 /\ Len(frames) \in 1 .. Len(frames)
    BY <2>1, EmptyIff
  <2>3. w \in Words(Top.chunk) /\ Top = frames[Len(frames)]
    BY <1>3, <2>1 DEF ScanWord, Top
  <2>4. frames[Len(frames)].word \in Int /\ frames[Len(frames)].chunk \in Int
        /\ size[frames[Len(frames)].chunk] \in Int
    BY <2>2, FramesTyped
  <2>5. w \in Remaining(Len(frames))
    BY <1>3, <2>2, <2>3, <2>4 DEF Remaining, Words
  <2> QED
    BY <1>3, <2>2, <2>5, CountedIsInPlay DEF InPlay
<1>7. ASSUME NEW pos \in [Addr -> Int], Runs(pos)', ~ Ahead(pos)'
      PROVE  Exact(C \ {w})'
  <2>1. \A c \in live : pos[c] >= pos[first]
    BY <1>1, <1>2, <1>7 DEF Runs, list
  <2>2. \A c \in live : data[w] \in Words(c) => mark[c] # 1
    BY <1>1, <1>2, <1>5, <1>7, <2>1 DEF Ahead, Words
  <2>3. \A c \in live : data[w] \notin Words(c)
    BY <1>4, <1>6, <2>2, PointedInUse
  <2>4. Exact(C \ {w})
    BY <1>4, <2>3, NoneFewer
  <2> QED
    BY <1>1, <2>4, ExactMoves
<1>8. \A c \in live : Words(c)' = Words(c)
  BY <1>1 DEF Words
<1> QED
  BY <1>1, <1>5, <1>7, <1>8 DEF ExactInv

\* The walk of chunkMem leaves behind no chunk that its word points into.
LEMMA MemNextExact ==
    ASSUME RCBase, ExactInv, MemNext
    PROVE  ExactInv'
<1>1. /\ pc' = "chunkMem" /\ cur' = next[cur] /\ pc \in {"chunkMem", "resume"}
      /\ UNCHANGED <<list, live, next, prev, size, mark, refcount, todo, data, handles, frames>>
      /\ cur # NULL
  <2>1. cur # NULL
    <3>1. CASE pc = "resume"
      <4>1. cur \in live
        BY <3>1 DEF RCBase, FramesInv
      <4> QED
        BY <4>1, WordsTyped DEF RCBase
    <3> QED
      BY <3>1 DEF MemNext
  <2> QED
    BY <2>1 DEF MemNext, chunk, program
<1>2. PICK a, w, C : a = cur /\ w = Top.word /\ C = Counted
  OBVIOUS
<1>3. a \in live /\ Listed' = Listed /\ Listed = live /\ mark \in [Addr -> {0, 1}] /\ live \subseteq Addr
  BY <1>1, <1>2, NothingWaits DEF RCBase, IInv, Typed, Closure, Listed, Todo
<1>4. Counted' = C /\ Top'.word = w /\ \A c \in live : Words(c)' = Words(c)
  BY <1>1, <1>2, CountedKept DEF Top, Words
<1>5. ASSUME NEW pos \in [Addr -> Int], Runs(pos)'
      PROVE  IF Ahead(pos)' THEN Exact(C)' ELSE Exact(C \ {w})'
  <2>1. Runs(pos)
    BY <1>1, <1>3, <1>5 DEF Runs, list
  <2>2. \A c \in live : pos[c] \in Int
    BY <1>3
  <2>3. Ahead(pos)' <=> \E c \in live :
          mark[c] = 1 /\ data[w] \in Words(c) /\ pos[c] > pos[a]
    <3>1. CASE next[a] = NULL
      <4>1. \A c \in live : ~ (pos[c] > pos[a])
        BY <1>3, <2>1, <2>2, <3>1 DEF Runs
      <4> QED
        BY <1>1, <1>2, <3>1, <4>1 DEF Ahead
    <3>2. CASE next[a] # NULL
      <4>1. \A c \in live : pos[c] >= pos[next[a]] <=> pos[c] > pos[a]
        BY <1>3, <2>1, <2>2, <3>2 DEF Runs
      <4> QED
        BY <1>1, <1>2, <1>4, <3>2, <4>1 DEF Ahead
    <3> QED
      BY <3>1, <3>2
  <2>4. CASE pc = "chunkMem"
    <3>1. ~ (mark[a] = 1 /\ data[w] \in Words(a))
      BY <1>2, <2>4 DEF MemNext, Hit
    <3>2. Ahead(pos) <=> Ahead(pos)'
      <4>1. Ahead(pos) <=> \E c \in live :
              mark[c] = 1 /\ data[w] \in Words(c) /\ pos[c] >= pos[a]
        BY <1>1, <1>2 DEF Ahead
      <4>2. \A c \in live : mark[c] = 1 /\ data[w] \in Words(c) =>
              (pos[c] >= pos[a] <=> pos[c] > pos[a])
        <5>1. \A c \in live : pos[c] = pos[a] => c = a
          BY <1>3, <2>1 DEF Runs
        <5> QED
          BY <1>3, <2>2, <3>1, <5>1
      <4> QED
        BY <2>3, <4>1, <4>2
    <3>3. IF Ahead(pos) THEN Exact(C) ELSE Exact(C \ {w})
      BY <1>2, <2>1, <2>4 DEF ExactInv
    <3>4. (Exact(C) => Exact(C)') /\ (Exact(C \ {w}) => Exact(C \ {w})')
      BY <1>1, ExactMoves
    <3> QED
      BY <3>2, <3>3, <3>4
  <2>5. CASE pc = "resume"
    <3>1. \A c \in live : mark[c] = 1 /\ data[w] \in Words(c) => c = a
      BY <1>2, <1>3, <2>5 DEF ExactInv
    <3>2. ~ Ahead(pos)'
      BY <1>3, <2>2, <2>3, <3>1
    <3>3. Exact(C \ {w})
      BY <1>2, <2>5 DEF ExactInv
    <3>4. Exact(C \ {w})'
      BY <1>1, <3>3, ExactMoves
    <3> QED
      BY <3>2, <3>4
  <2> QED
    BY <1>1, <2>4, <2>5
<1> QED
  BY <1>1, <1>4, <1>5 DEF ExactInv

\* chunkMem has come to the end of the list: its word refers to nothing any more.
LEMMA MemDoneExact ==
    ASSUME RCBase, ExactInv, MemDone
    PROVE  ExactInv'
<1>1. /\ pc = "chunkMem" /\ cur = NULL /\ pc' = "scan"
      /\ UNCHANGED <<list, live, next, prev, size, mark, refcount, todo, data, handles>>
      /\ frames' = [frames EXCEPT ![Len(frames)].word = NextWord(@)]
  BY DEF MemDone, chunk, program
<1>2. PICK w, C, n : w = Top.word /\ C = Counted /\ n = Len(frames)
  OBVIOUS
<1>3. /\ n \in Nat \ {0} /\ Top = frames[n] /\ frames \in Seq(Frame)
      /\ \A c \in Used : w \notin Words(c)
      /\ \A i \in 1 .. n - 1 : w \notin Remaining(i)
  BY <1>1, <1>2, TopWord DEF RCBase, RCTyped
<1>4. Exact(C \ {w})
  <2>1. PICK pos \in [Addr -> Int] : Runs(pos)
    BY DEF RCBase, ListInv
  <2>2. ~ Ahead(pos)
    BY <1>1 DEF Ahead
  <2> QED
    BY <1>1, <1>2, <2>1, <2>2 DEF ExactInv
<1>5. /\ Len(frames') = n
      /\ frames'[n].chunk = frames[n].chunk /\ frames'[n].word = w + 1 /\ w = frames[n].word
      /\ \A i \in 1 .. n - 1 : frames'[i] = frames[i]
  <2>1. frames' = [frames EXCEPT ![n] = [frames[n] EXCEPT !.word = w + 1]] /\ w = frames[n].word
    BY <1>1, <1>2, <1>3 DEF NextWord
  <2>2. frames[n] \in Frame
    BY <1>2, <1>3
  <2>3. DOMAIN frames = 1 .. n
    BY <1>2, <1>3
  <2>4. Len(frames') = n /\ \A i \in 1 .. n - 1 : frames'[i] = frames[i]
    BY <1>2, <1>3, <2>1
  <2>5. frames'[n] = [frames[n] EXCEPT !.word = w + 1]
    BY <1>3, <2>1, <2>3
  <2> QED
    BY <2>1, <2>2, <2>4, <2>5 DEF Frame
<1>6. \A c : Words(c)' = Words(c)
  BY <1>1 DEF Words
<1>7. \A i \in 1 .. n - 1 : Remaining(i)' = Remaining(i)
  BY <1>1, <1>2, <1>3, <1>5 DEF Remaining
<1>8. Remaining(n)' = Remaining(n) \ {w}
  <2>1. n \in 1 .. Len(frames)
    BY <1>2, <1>3
  <2>2. frames[n].chunk \in Int /\ w \in Int /\ size[frames[n].chunk] \in Int
    BY <1>5, <2>1, FramesTyped
  <2>3. Remaining(n) = w .. frames[n].chunk + size[frames[n].chunk] - 1
    BY <1>2, <1>3, <1>5, <2>2 DEF Remaining
  <2>4. Remaining(n)' = w + 1 .. frames[n].chunk + size[frames[n].chunk] - 1
    BY <1>1, <1>2, <1>3, <1>5, <2>2 DEF Remaining
  <2> QED
    BY <2>2, <2>3, <2>4
<1>9. Counted' = C \ {w}
  <2>1. ASSUME NEW x PROVE x \in Counted' <=> x \in C /\ x # w
    <3>1. Used' = Used
      BY <1>1 DEF Used
    <3>2. x \in Counted' <=> \/ \E c \in Used : x \in Words(c)
                            \/ \E i \in 1 .. n : x \in Remaining(i)'
      BY <1>5, <1>6, <3>1, CountedIsInPlayNext DEF InPlay
    <3>3. x \in C <=> \/ \E c \in Used : x \in Words(c)
                     \/ \E i \in 1 .. n : x \in Remaining(i)
      BY <1>2, CountedIsInPlay DEF InPlay
    <3>4. \A i \in 1 .. n : x \in Remaining(i)' <=> x \in Remaining(i) /\ (i = n => x # w)
      BY <1>3, <1>7, <1>8
    <3> QED
      BY <1>3, <3>2, <3>3, <3>4
  <2> QED
    BY <2>1
<1>10. Exact(Counted)'
  BY <1>1, <1>4, <1>9, ExactMoves
<1>11. \A i \in 1 .. Len(frames') - 1 : \A c \in live' :
         data'[frames'[i].word] \in Words(c)' => mark'[c] = 0
  BY <1>1, <1>2, <1>5, <1>6 DEF ExactInv
<1> QED
  BY <1>1, <1>10, <1>11 DEF ExactInv

LEMMA TopWordNext ==
    (RCBase /\ pc \in {"chunkMem", "resume"} =>
        /\ \A c \in Used : Top.word \notin Words(c)
        /\ \A i \in 1 .. Len(frames) - 1 : Top.word \notin Remaining(i))'
<1>1. RCBase /\ pc \in {"chunkMem", "resume"} =>
        /\ \A c \in Used : Top.word \notin Words(c)
        /\ \A i \in 1 .. Len(frames) - 1 : Top.word \notin Remaining(i)
  BY TopWord
<1> QED
  BY <1>1, PTL

\* The return to the call whose word led here: that word had been given up.
LEMMA ScanDoneExact ==
    ASSUME RCBase, RCBase', ExactInv, ScanDone
    PROVE  ExactInv'
<1>1. /\ pc = "scan" /\ Top.word \notin Words(Top.chunk)
      /\ UNCHANGED <<list, live, next, prev, size, mark, refcount, cur, todo, data, handles>>
      /\ frames' = SubSeq(frames, 1, Len(frames) - 1)
      /\ pc' = IF frames' = <<>> THEN "client" ELSE "resume"
  BY DEF ScanDone, Resume, Pop, chunk, program
<1>2. PICK C, n, s, t : C = Counted /\ n = Len(frames) - 1 /\ s = frames /\ t = frames'
  OBVIOUS
<1>3. /\ s \in Seq(Frame) /\ s # <<>> /\ t = SubSeq(s, 1, Len(s) - 1) /\ n = Len(s) - 1
  BY <1>1, <1>2 DEF RCBase, RCTyped, FramesInv
<1>4. /\ n \in Nat /\ Len(s) = n + 1 /\ Len(t) = n /\ \A i \in 1 .. n : t[i] = s[i]
      /\ t = <<>> <=> n = 0
  <2>1. /\ t \in Seq(Frame) /\ Len(s) \in Nat /\ Len(s) > 0 /\ Len(t) = Len(s) - 1
        /\ \A i \in 1 .. Len(s) - 1 : t[i] = s[i]
    BY <1>3, Popped
  <2>2. t = <<>> <=> Len(t) = 0
    BY <2>1, EmptyIff
  <2> QED
    BY <1>3, <2>1, <2>2
<1>5. ASSUME NEW i \in 1 .. n + 1
      PROVE  /\ s[i].chunk \in Int /\ s[i].word \in Int /\ size[s[i].chunk] \in Int
             /\ s[i].chunk <= s[i].word
             /\ i < n + 1 => s[i].word < s[i].chunk + size[s[i].chunk]
  <2>1. i \in 1 .. Len(frames)
    BY <1>2, <1>4
  <2> QED
    BY <1>2, <1>4, <2>1, FramesTyped DEF RCBase, FramesInv
<1>6. Exact(C) /\ Exact(C)'
  BY <1>1, <1>2, ExactMoves DEF ExactInv
<1>7. \A c : Words(c)' = Words(c)
  BY <1>1 DEF Words
<1>8. Remaining(n + 1) = {}
  <2>1. Top = s[n + 1]
    BY <1>2, <1>4 DEF Top
  <2>2. s[n + 1].word >= s[n + 1].chunk + size[s[n + 1].chunk]
    BY <1>1, <1>4, <1>5, <2>1 DEF Words
  <2>3. Remaining(n + 1) = s[n + 1].word .. s[n + 1].chunk + size[s[n + 1].chunk] - 1
    BY <1>2, <1>4, <1>5 DEF Remaining
  <2> QED
    BY <1>4, <1>5, <2>2, <2>3
<1>9. ASSUME NEW i \in 1 .. n
      PROVE  Remaining(i)' = IF i = n THEN Remaining(i) \union {s[i].word} ELSE Remaining(i)
  <2>1. /\ s[i].chunk \in Int /\ s[i].word \in Int /\ size[s[i].chunk] \in Int
        /\ s[i].word < s[i].chunk + size[s[i].chunk]
    BY <1>4, <1>5
  <2>2. Remaining(i) = s[i].word + 1 .. s[i].chunk + size[s[i].chunk] - 1
    BY <1>2, <1>4, <2>1 DEF Remaining
  <2>3. CASE i = n
    <3>1. Remaining(i)' = s[i].word .. s[i].chunk + size[s[i].chunk] - 1
      BY <1>1, <1>2, <1>4, <2>1, <2>3 DEF Remaining
    <3> QED
      BY <2>1, <2>2, <2>3, <3>1
  <2>4. CASE i # n
    <3>1. Remaining(i)' = s[i].word + 1 .. s[i].chunk + size[s[i].chunk] - 1
      BY <1>1, <1>2, <1>4, <2>1, <2>4 DEF Remaining
    <3> QED
      BY <2>2, <2>4, <3>1
  <2> QED
    BY <2>3, <2>4
<1>10. Used' = Used
  BY <1>1 DEF Used
<1>11. ASSUME NEW x
       PROVE  /\ x \in Counted' <=> \/ \E c \in Used : x \in Words(c)
                                   \/ \E i \in 1 .. n : x \in Remaining(i)'
              /\ x \in C <=> \/ \E c \in Used : x \in Words(c)
                            \/ \E i \in 1 .. n : x \in Remaining(i)
  <2>1. x \in Counted' <=> \/ \E c \in Used : x \in Words(c)
                          \/ \E i \in 1 .. n : x \in Remaining(i)'
    BY <1>2, <1>4, <1>7, <1>10, CountedIsInPlayNext DEF InPlay
  <2>2. x \in C <=> \/ \E c \in Used : x \in Words(c)
                   \/ \E i \in 1 .. n + 1 : x \in Remaining(i)
    BY <1>2, <1>4, CountedIsInPlay DEF InPlay
  <2> QED
    BY <1>4, <1>8, <2>1, <2>2
<1>12. \A a \in Addr \ live' : handles'[a] = 0
  BY <1>1 DEF ExactInv
<1>13. ASSUME NEW i \in 1 .. n, NEW c \in live', data'[t[i].word] \in Words(c)'
       PROVE  mark'[c] = 0
  <2>1. i \in 1 .. Len(frames) - 1 /\ t[i] = frames[i]
    BY <1>2, <1>4
  <2> QED
    BY <1>1, <1>7, <1>13, <2>1 DEF ExactInv
<1>14. CASE n = 0
  <2>1. \A x : x \in Counted' <=> x \in C
    BY <1>11, <1>14
  <2>2. Counted' = C
    BY <2>1
  <2>3. pc' = "client" /\ Len(frames') = 0
    BY <1>1, <1>2, <1>4, <1>14
  <2> QED
    BY <1>6, <1>12, <2>2, <2>3 DEF ExactInv
<1>15. CASE n # 0
  <2>1. PICK w : w = s[n].word
    OBVIOUS
  <2>2. /\ pc' = "resume" /\ n \in 1 .. n /\ Top'.word = w /\ Len(frames') = n
        /\ t[n].word = w
    BY <1>1, <1>2, <1>4, <1>15, <2>1 DEF Top
  <2>3. /\ \A c \in Used : w \notin Words(c)
        /\ \A i \in 1 .. n - 1 : w \notin Remaining(i)'
    BY <1>7, <1>10, <2>2, TopWordNext
  <2>4. w \notin Remaining(n)
    BY <1>2, <1>4, <1>5, <2>1, <2>2 DEF Remaining
  <2>5. ASSUME NEW x PROVE x \in Counted' /\ x # w <=> x \in C
    <3>1. \A i \in 1 .. n : x \in Remaining(i)' /\ x # w <=> x \in Remaining(i)
      <4>1. SUFFICES ASSUME NEW i \in 1 .. n
                     PROVE  x \in Remaining(i)' /\ x # w <=> x \in Remaining(i)
        OBVIOUS
      <4>2. CASE i = n
        BY <1>9, <2>1, <2>2, <2>4, <4>2
      <4>3. CASE i # n
        <5>1. i \in 1 .. n - 1
          BY <1>4, <4>3
        <5> QED
          BY <1>9, <2>3, <4>3, <5>1
      <4> QED
        BY <4>2, <4>3
    <3> QED
      BY <1>11, <2>3, <3>1
  <2>6. Counted' \ {w} = C
    BY <2>5
  <2>7. Exact(Counted \ {Top.word})'
    BY <1>6, <2>2, <2>6
  <2>8. \A c \in live' : data'[Top'.word] \in Words(c)' => mark'[c] = 0
    BY <1>13, <2>2
  <2>9. ASSUME NEW i \in 1 .. Len(frames') - 1, NEW c \in live',
               data'[frames'[i].word] \in Words(c)'
        PROVE  mark'[c] = 0
    <3>1. i \in 1 .. n /\ frames'[i] = t[i]
      BY <1>2, <1>4, <2>2
    <3> QED
      BY <1>13, <2>9, <3>1
  <2> QED
    BY <1>12, <2>2, <2>7, <2>8, <2>9 DEF ExactInv
<1> QED
  BY <1>14, <1>15

LEMMA ExactStep ==
    ASSUME Initialises, RCBase, ExactInv, Targeted, [RCNext]_rcVars
    PROVE  ExactInv'
<1>1. RCBase'
  BY RCBaseStep
<1>2. CASE Alloc \/ AllocStep
  BY <1>2, AllocExact
<1>3. ASSUME NEW p \in live, Retain(p) \/ Release(p) PROVE ExactInv'
  BY <1>3, RetainExact, ReleaseExact
<1>4. ASSUME NEW d \in live, NEW w \in Words(d),
             (\E c \in live : \E p \in Words(c) : StorePointer(d, w, c, p)) \/ TakePointer(d, w)
      PROVE  ExactInv'
  <2>1. d \in Used
    BY <1>4, HeldIsUsed DEF StorePointer, TakePointer, ExactInv
  <2>2. \E c \in live : (\E p \in Words(c) : StorePointer(d, w, c, p)) \/ Takes(d, w, c)
    BY <1>4, <2>1, TakesTarget
  <2> QED
    BY <2>2, PointerExact
<1>5. CASE ReleaseStep
  BY <1>1, <1>5, ScanWordExact, ScanDoneExact, MemReleaseExact, MemNextExact, MemDoneExact
     DEF ReleaseStep
<1>6. CASE UNCHANGED rcVars
  <2>1. UNCHANGED <<list, live, next, prev, size, mark, refcount, pc, cur, todo,
                    data, handles, frames>>
    BY <1>6 DEF rcVars, vars, program, chunk, call
  <2>2. PICK C, D : C = Counted /\ D = Counted \ {Top.word}
    OBVIOUS
  <2>3. Counted' = C /\ Top' = Top /\ (Counted \ {Top.word})' = D
    BY <2>1, <2>2, CountedKept DEF Top
  <2>4. (Exact(C) => Exact(C)') /\ (Exact(D) => Exact(D)')
    BY <2>1, ExactMoves
  <2>5. \A pos : (Runs(pos)' <=> Runs(pos)) /\ (Ahead(pos)' <=> Ahead(pos))
    BY <2>1, <2>3 DEF Runs, Ahead, Listed, Todo, Words, list
  <2>6. \A c : Words(c)' = Words(c)
    BY <2>1 DEF Words
  <2> QED
    BY <2>1, <2>2, <2>3, <2>4, <2>5, <2>6 DEF ExactInv
<1> QED
  BY <1>2, <1>3, <1>4, <1>5, <1>6 DEF RCNext, Program, RCCode

LEMMA ExactInvariance ==
    ASSUME Initialises
    PROVE  RCSpec => [](RCBase /\ ExactInv /\ Targeted)
<1>1. RCBase /\ ExactInv /\ Targeted /\ [RCNext]_rcVars => RCBase' /\ ExactInv' /\ Targeted'
  BY RCBaseStep, ExactStep, TargetedStep
<1> QED
  BY <1>1, RCBaseInit, ExactInit, TargetedInit, PTL DEF RCSpec

\* refcount is the number of references to a chunk, and a chunk is in use as
\* long as there is one: between calls, and at every turn of release however
\* deep the recursion and wherever the iterator was left, provided that the
\* program clears the blocks that it is given.
THEOREM CountsInvariant ==
    ASSUME Initialises
    PROVE  RCSpec => []CountsExact
<1>1. ExactInv /\ RCBase => CountsExact
  <2> SUFFICES ASSUME ExactInv, RCBase, pc \notin {"chunkMem", "resume"}, NEW c \in live
               PROVE  /\ refcount[c] = References(c)
                      /\ mark[c] = 1 <=> refcount[c] > 0
    BY DEF CountsExact
  <2>1. Exact(Counted)
    BY DEF ExactInv, RCBase, RCTyped
  <2> QED
    BY <2>1 DEF Exact, References, Pointing
<1> QED
  BY <1>1, ExactInvariance, PTL

\* A chunk that a variable of such a program refers to is in use: release
\* frees nothing that the program still has a reference to.
THEOREM HeldInvariant ==
    ASSUME Initialises
    PROVE  RCSpec => []HeldInUse
<1>1. ExactInv /\ RCBase => HeldInUse
  <2> SUFFICES ASSUME ExactInv, RCBase, pc = "client", NEW c \in live, handles[c] > 0
               PROVE  mark[c] = 1
    BY DEF HeldInUse
  <2>1. PICK C : C = Counted
    OBVIOUS
  <2>2. Exact(C) /\ C \subseteq Addr
    BY <2>1, CountedFinite DEF ExactInv
  <2>3. refcount[c] > 0
    BY <2>2, NoWrap
  <2> QED
    BY <2>2, <2>3 DEF Exact
<1> QED
  BY <1>1, ExactInvariance, PTL

----------------------------------------------------------------------------
(* How many turns release has left, whatever the words of the chunks hold. *)

Open == Cardinality(Scanning) + Cardinality(ToScan)

\* The frames, one at a time.
LEMMA FrameScans ==
    ASSUME RCBase, NEW i \in 1 .. Len(frames)
    PROVE  /\ frames[i].chunk \in live /\ frames[i].chunk \in Addr
           /\ frames[i].chunk \in Int /\ frames[i].word \in Int
           /\ size[frames[i].chunk] \in Int
           /\ frames[i].word .. frames[i].chunk + size[frames[i].chunk] - 1
                \subseteq Words(frames[i].chunk)
<1>1. /\ frames[i].chunk \in live /\ frames[i].chunk \in Int /\ frames[i].word \in Int
      /\ size[frames[i].chunk] \in Int
  BY FramesTyped
<1>2. frames[i].chunk <= frames[i].word
  BY DEF RCBase, FramesInv
<1> QED
  BY <1>1, <1>2, WordsTyped DEF RCBase, Words

LEMMA TurnsTyped ==
    RCBase => /\ IsFiniteSet(Used) /\ Cardinality(Used) \in 0 .. MemSize
              /\ IsFiniteSet(Scanning) /\ Cardinality(Scanning) \in 0 .. MemSize
              /\ IsFiniteSet(ToScan) /\ Cardinality(ToScan) \in 0 .. MemSize
              /\ MemPasses \in 0 .. 2 * MemSize + 4
<1> SUFFICES ASSUME RCBase
             PROVE  /\ IsFiniteSet(Used) /\ Cardinality(Used) \in 0 .. MemSize
                    /\ IsFiniteSet(Scanning) /\ Cardinality(Scanning) \in 0 .. MemSize
                    /\ IsFiniteSet(ToScan) /\ Cardinality(ToScan) \in 0 .. MemSize
                    /\ MemPasses \in 0 .. 2 * MemSize + 4
  OBVIOUS
<1>1. Used \subseteq Addr
  BY DEF Used, RCBase, IInv, Typed
<1>2. Scanning \subseteq Addr
  BY FrameScans DEF Scanning
<1>3. ToScan \subseteq Addr
  <2>1. \A i \in 1 .. Len(frames) :
          frames[i].word .. frames[i].chunk + size[frames[i].chunk] - 1 \subseteq Addr
    BY FrameScans, WordsTyped DEF RCBase
  <2> QED
    BY <2>1 DEF ToScan
<1>4. MemPasses \in 0 .. 2 * MemSize + 4
  BY FewToCome DEF MemPasses
<1> QED
  BY <1>1, <1>2, <1>3, <1>4, FewWords

LEMMA TurnsTypedNext ==
    (RCBase => /\ IsFiniteSet(Used) /\ Cardinality(Used) \in 0 .. MemSize
               /\ IsFiniteSet(Scanning) /\ Cardinality(Scanning) \in 0 .. MemSize
               /\ IsFiniteSet(ToScan) /\ Cardinality(ToScan) \in 0 .. MemSize
               /\ MemPasses \in 0 .. 2 * MemSize + 4)'
  BY TurnsTyped, PTL

\* A chunk less in use, or less to scan, or a shorter way along the list.
LEMMA TurnsFall ==
    ASSUME RCBase, RCBase',
           \/ Cardinality(Used') < Cardinality(Used)
           \/ Used' = Used /\ Open' < Open
           \/ Used' = Used /\ Open' = Open /\ MemPasses' < MemPasses
    PROVE  TurnsLeft' < TurnsLeft
<1>1. PICK u, v, s, t, a, b, m, k :
          /\ u = Cardinality(Used') /\ v = Cardinality(Used) /\ s = Open' /\ t = Open
          /\ a = MemPasses' /\ b = MemPasses /\ m = 2 * MemSize + 1 /\ k = 2 * MemSize + 5
  OBVIOUS
<1>2. /\ u \in Nat /\ v \in Nat /\ s \in Nat /\ s < m /\ t \in Nat
      /\ a \in Nat /\ a < k /\ b \in Nat /\ m \in Nat /\ k \in Nat
  <2>1. u \in Nat /\ s \in Nat /\ s < m /\ a \in Nat /\ a < k
    BY <1>1, TurnsTypedNext DEF Open
  <2>2. v \in Nat /\ t \in Nat /\ b \in Nat /\ m \in Nat /\ k \in Nat
    BY <1>1, TurnsTyped DEF Open
  <2> QED
    BY <2>1, <2>2
<1>3. u < v \/ (u = v /\ s < t) \/ (u = v /\ s = t /\ a < b)
  BY <1>1
<1>4. PICK x, y : x = u * m + s /\ y = v * m + t
  OBVIOUS
<1>5. x \in Nat /\ y \in Nat
  <2>1. u * m \in Nat /\ v * m \in Nat
    BY <1>2
  <2> QED
    BY <1>2, <1>4, <2>1
<1>6. x < y \/ (x = y /\ a < b)
  <2>1. CASE u < v
    BY <1>2, <1>4, <2>1, Digits
  <2>2. CASE u = v
    <3>1. u * m \in Int
      BY <1>2
    <3> QED
      BY <1>2, <1>3, <1>4, <2>2, <3>1
  <2> QED
    BY <1>3, <2>1, <2>2
<1>7. x * k + a < y * k + b
  <2>1. CASE x < y
    BY <1>2, <1>5, <2>1, Digits
  <2>2. CASE x = y /\ a < b
    <3>1. x * k \in Int
      BY <1>2, <1>5
    <3> QED
      BY <1>2, <2>2, <3>1
  <2> QED
    BY <1>6, <2>1, <2>2
<1>8. /\ TurnsLeft = (v * m + Cardinality(Scanning) + Cardinality(ToScan)) * k + b
      /\ TurnsLeft' = (u * m + Cardinality(Scanning') + Cardinality(ToScan')) * k + a
  BY <1>1 DEF TurnsLeft
<1>9. /\ v * m + Cardinality(Scanning) + Cardinality(ToScan) = y
      /\ u * m + Cardinality(Scanning') + Cardinality(ToScan') = x
  <2>1. v * m \in Int /\ u * m \in Int
    BY <1>2
  <2> QED
    BY <1>1, <1>4, <2>1, TurnsTyped, TurnsTypedNext DEF Open
<1> QED
  BY <1>7, <1>8, <1>9

\* A part of a finite set is no larger, and smaller if it lacks an element.
LEMMA Smaller ==
    \A S, T : IsFiniteSet(S) /\ T \subseteq S =>
        /\ Cardinality(T) <= Cardinality(S)
        /\ \A x \in S : x \notin T => Cardinality(T) < Cardinality(S)
<1> SUFFICES ASSUME NEW S, NEW T, IsFiniteSet(S), T \subseteq S
             PROVE  /\ Cardinality(T) <= Cardinality(S)
                    /\ \A x \in S : x \notin T => Cardinality(T) < Cardinality(S)
  OBVIOUS
<1>1. /\ IsFiniteSet(T) /\ Cardinality(T) <= Cardinality(S)
      /\ Cardinality(T) = Cardinality(S) => S = T
  BY FS_Subset
<1>2. Cardinality(T) \in Nat /\ Cardinality(S) \in Nat
  BY <1>1, FS_CardinalityType
<1> QED
  BY <1>1, <1>2

LEMMA SameScan == UNCHANGED <<live, size, mark, frames>> => Used' = Used /\ Open' = Open
<1> SUFFICES ASSUME UNCHANGED <<live, size, mark, frames>> PROVE Used' = Used /\ Open' = Open
  OBVIOUS
<1>1. Used' = Used /\ Scanning' = Scanning /\ ToScan' = ToScan
  BY DEF Used, Scanning, ToScan
<1> QED
  BY <1>1 DEF Open

\* Each turn of release leaves it fewer turns.
LEMMA ReleaseStepRunsDown ==
    ASSUME RCBase, ReleaseStep
    PROVE  TurnsLeft' < TurnsLeft
<1>1. RCBase'
  BY RCBaseStep DEF RCNext, RCCode
<1>2. pc \in {"scan", "chunkMem", "resume"} /\ frames # <<>>
  <2>1. pc \in {"scan", "chunkMem", "resume"}
    BY DEF ReleaseStep, ScanWord, ScanDone, MemRelease, MemNext, MemDone
  <2> QED
    BY <2>1 DEF RCBase, FramesInv
<1>3. PICK n \in Nat \ {0} : /\ n = Len(frames) /\ Top = frames[n] /\ frames \in Seq(Frame)
                             /\ Top.word \in Int
  <2>1. frames \in Seq(Frame) /\ Len(frames) \in Nat /\ Len(frames) # 0
    BY <1>2, EmptyIff DEF RCBase, RCTyped
  <2>2. frames[Len(frames)] \in Frame
    BY <2>1
  <2> QED
    BY <2>1, <2>2 DEF Top, Frame
<1>4. Cardinality(ToCome) \in 0 .. MemSize + 1 /\ Cardinality(ToCome') \in 0 .. MemSize + 1
  BY FewToCome, FewToComeNext
<1>5. CASE ScanWord
  <2>1. pc = "scan" /\ pc' = "chunkMem" /\ UNCHANGED <<live, size, mark, frames>>
    BY <1>5 DEF ScanWord, chunk
  <2>2. MemPasses' < MemPasses
    BY <1>4, <2>1 DEF MemPasses
  <2> QED
    BY <1>1, <2>1, <2>2, SameScan, TurnsFall
<1>6. CASE MemNext
  <2>1. /\ UNCHANGED <<list, live, next, todo, size, mark, frames>>
        /\ cur \in live /\ cur' = next[cur]
        /\ pc \in {"chunkMem", "resume"} /\ pc' = "chunkMem"
    BY <1>6 DEF MemNext, chunk, RCBase, IInv, Closure, FramesInv
  <2>2. cur \in Listed
    BY <2>1, NothingWaits DEF RCBase
  <2>3. PICK pos \in [Addr -> Int] : Runs(pos)
    BY DEF RCBase, ListInv
  <2>4. Cardinality(ToCome') < Cardinality(ToCome)
    BY <2>1, <2>2, <2>3, WalksOn DEF RCBase
  <2>5. MemPasses' < MemPasses
    BY <1>4, <2>1, <2>4 DEF MemPasses
  <2> QED
    BY <1>1, <2>1, <2>5, SameScan, TurnsFall
<1>7. CASE MemRelease
  <2>1. pc = "chunkMem" /\ cur \in live /\ mark[cur] = 1 /\ ReleaseChunk(cur)
    BY <1>7 DEF MemRelease, Hit, RCBase, IInv, Closure, Typed
  <2>2. PICK count : count = (refcount[cur] - 1) % UintRange
    OBVIOUS
  <2>3. /\ UNCHANGED <<list, live, next, size>> /\ cur' = cur
        /\ count = 0 => mark' = [mark EXCEPT ![cur] = 0]
        /\ count # 0 => /\ UNCHANGED <<mark, frames>>
                        /\ pc' = IF frames = <<>> THEN "client" ELSE "resume"
    BY <2>1, <2>2, ReleaseEffect
  <2>4. CASE count = 0
    <3>1. /\ live' = live /\ mark' = [mark EXCEPT ![cur] = 0]
          /\ mark \in [Addr -> {0, 1}] /\ live \subseteq Addr
      BY <2>3, <2>4 DEF RCBase, IInv, Typed
    <3>2. Used' = Used \ {cur} /\ cur \in Used
      BY <2>1, <3>1 DEF Used
    <3>3. Cardinality(Used') = Cardinality(Used) - 1
      BY <3>2, TurnsTyped, FS_RemoveElement
    <3>4. Cardinality(Used') < Cardinality(Used)
      BY <3>3, TurnsTyped
    <3> QED
      BY <1>1, <3>4, TurnsFall
  <2>5. CASE count # 0
    <3>1. pc' = "resume"
      BY <1>2, <2>3, <2>5
    <3>2. ToCome' = ToCome
      <4>1. Walk' = Walk
        BY <2>3 DEF Walk, list
      <4> QED
        BY <2>3, <4>1 DEF ToCome
    <3>3. MemPasses' < MemPasses
      BY <1>4, <2>1, <3>1, <3>2 DEF MemPasses
    <3> QED
      BY <1>1, <2>3, <2>5, <3>3, SameScan, TurnsFall
  <2> QED
    BY <2>4, <2>5
<1>8. CASE ScanDone
  <2>1. UNCHANGED <<live, size, mark>> /\ frames' = SubSeq(frames, 1, Len(frames) - 1)
    BY <1>8 DEF ScanDone, Pop, chunk
  <2>2. Len(frames') = n - 1 /\ \A i \in 1 .. n - 1 : frames'[i] = frames[i]
    BY <1>2, <1>3, <2>1, Popped
  <2>3. Used' = Used
    BY <2>1 DEF Used
  <2>4. ToScan' \subseteq ToScan
    BY <1>3, <2>1, <2>2 DEF ToScan
  <2>5. Scanning' \subseteq Scanning /\ Top.chunk \in Scanning /\ Top.chunk \notin Scanning'
    <3>1. Scanning' = { frames[i].chunk : i \in 1 .. n - 1 }
      BY <2>2 DEF Scanning
    <3>2. \A i \in 1 .. n - 1 : frames[i].chunk # frames[n].chunk
      BY <1>3 DEF RCBase, FramesInv
    <3>3. Scanning = { frames[i].chunk : i \in 1 .. n }
      BY <1>3 DEF Scanning
    <3>4. n \in 1 .. n /\ \A i \in 1 .. n - 1 : i \in 1 .. n
      OBVIOUS
    <3> QED
      BY <1>3, <3>1, <3>2, <3>3, <3>4
  <2>6. Cardinality(Scanning') < Cardinality(Scanning) /\ Cardinality(ToScan') <= Cardinality(ToScan)
    BY <2>4, <2>5, TurnsTyped, Smaller
  <2>7. Open' < Open
    BY <1>1, <2>6, TurnsTyped, TurnsTypedNext DEF Open
  <2> QED
    BY <1>1, <2>3, <2>7, TurnsFall
<1>9. CASE MemDone
  <2>1. /\ pc = "chunkMem" /\ UNCHANGED <<live, size, mark>>
        /\ frames' = [frames EXCEPT ![n].word = Top.word + 1]
    BY <1>3, <1>9 DEF MemDone, NextWord, Top, chunk
  <2>2. /\ Len(frames') = n /\ \A i \in 1 .. n : frames'[i].chunk = frames[i].chunk
        /\ \A i \in 1 .. n - 1 : frames'[i] = frames[i]
        /\ frames'[n].word = Top.word + 1
    BY <1>3, <2>1 DEF Frame
  <2>3. Used' = Used
    BY <2>1 DEF Used
  <2>4. Scanning' = Scanning
    BY <1>3, <2>2 DEF Scanning
  <2> DEFINE words(i) == frames[i].word .. frames[i].chunk + size[frames[i].chunk] - 1
  <2>5. n \in 1 .. n /\ words(n) \subseteq Words(Top.chunk) /\ Top.chunk \in live
        /\ Top.word \in words(n)
    <3>1. Top.word < Top.chunk + size[Top.chunk]
      BY <1>3, <2>1 DEF RCBase, FramesInv
    <3> QED
      BY <1>3, <3>1, FrameScans
  <2>6. \A i \in 1 .. n - 1 : Top.word \notin words(i)
    <3> TAKE i \in 1 .. n - 1
    <3>1. i \in 1 .. Len(frames) /\ frames[i].chunk # Top.chunk
      BY <1>3 DEF RCBase, FramesInv
    <3>2. words(i) \subseteq Words(frames[i].chunk) /\ frames[i].chunk \in live
      BY <3>1, FrameScans
    <3>3. Words(frames[i].chunk) \intersect Words(Top.chunk) = {}
      BY <2>5, <3>1, <3>2, WordsTyped DEF RCBase
    <3> QED
      BY <2>5, <3>2, <3>3
  <2>7. /\ \A i \in 1 .. n - 1 : words(i)' = words(i)
        /\ words(n)' = words(n) \ {Top.word}
    <3>1. Top.chunk \in Int /\ size[Top.chunk] \in Int
      BY <1>3, <2>5, FrameScans
    <3>2. words(n) = Top.word .. Top.chunk + size[Top.chunk] - 1
      BY <1>3
    <3>3. words(n)' = Top.word + 1 .. Top.chunk + size[Top.chunk] - 1
      BY <1>3, <2>1, <2>2, <2>5
    <3> QED
      BY <1>3, <2>1, <2>2, <3>1, <3>2, <3>3
  <2>8. ToScan = UNION { words(i) : i \in 1 .. n } /\ ToScan' = UNION { words(i)' : i \in 1 .. n }
    BY <1>3, <2>2 DEF ToScan
  <2>9. ToScan' \subseteq ToScan /\ Top.word \in ToScan /\ Top.word \notin ToScan'
    <3> HIDE DEF words
    <3>1. \A i \in 1 .. n : i = n \/ i \in 1 .. n - 1
      OBVIOUS
    <3>2. Top.word \notin ToScan'
      BY <2>6, <2>7, <2>8, <3>1
    <3>3. ToScan' \subseteq ToScan
      BY <2>7, <2>8, <3>1
    <3> QED
      BY <2>5, <2>8, <3>2, <3>3
  <2>10. Cardinality(ToScan') < Cardinality(ToScan)
    BY <2>9, TurnsTyped, Smaller
  <2>11. Open' < Open
    BY <1>1, <2>4, <2>10, TurnsTyped, TurnsTypedNext DEF Open
  <2> QED
    BY <1>1, <2>3, <2>11, TurnsFall
<1> QED
  BY <1>5, <1>6, <1>7, <1>8, <1>9 DEF ReleaseStep

\* release finishes whatever it is let loose on: chains and cycles of chunks,
\* words that mean nothing and counts that are wrong included.
THEOREM ReleaseRunsDownHolds == RCSpec => ReleaseRunsDown
<1>1. RCBase /\ AllocStep => PassesLeft' < PassesLeft
  <2> SUFFICES ASSUME RCBase, AllocStep PROVE PassesLeft' < PassesLeft
    OBVIOUS
  <2>1. Code
    BY DEF AllocStep, Code, Find, Insert
  <2> QED
    BY <2>1, CodeRunsDown DEF RCBase
<1>2. RCBase /\ [RCNext]_rcVars => [/\ ReleaseStep => TurnsLeft' < TurnsLeft
                                    /\ AllocStep => PassesLeft' < PassesLeft]_rcVars
  BY <1>1, ReleaseStepRunsDown
<1> QED
  BY <1>2, RCBaseInvariance, PTL DEF RCSpec, ReleaseRunsDown

----------------------------------------------------------------------------
(* What the counts are for: release frees what nothing refers to any more. *)

\* Supported, if h says how many variables refer to each block.
HeldBy(S, h) ==
    \A c \in S : h[c] > 0 \/ \E d \in S : \E w \in Words(d) : data[w] \in Words(c)

\* Between calls of release each chunk in use is referred to.
LEMMA AllReferred == RCBase /\ ExactInv /\ frames = <<>> => Supported(Used)
<1> SUFFICES ASSUME RCBase, ExactInv, frames = <<>>, NEW c \in Used, ~ (handles[c] > 0)
             PROVE  \E d \in Used : \E w \in Words(d) : data[w] \in Words(c)
  BY DEF Supported
<1>1. PICK C : C = Counted
  OBVIOUS
<1>2. C \subseteq Addr /\ Exact(C)
  <2>1. pc \in {"client", "find", "insert"}
    BY DEF RCBase, RCTyped, FramesInv
  <2> QED
    BY <1>1, <2>1, CountedFinite DEF ExactInv
<1>3. c \in live /\ refcount[c] > 0 /\ handles[c] = 0
  <2>1. c \in live /\ refcount[c] > 0
    BY <1>2 DEF Exact, Used
  <2> QED
    BY <1>2, <2>1, NoWrap
<1>4. Cardinality(Pointing(C, c)) # 0
  BY <1>2, <1>3, PointingFinite DEF Exact
<1>5. PICK w \in C : data[w] \in Words(c)
  <2>1. Pointing(C, c) # {}
    BY <1>4, FS_EmptySet
  <2> QED
    BY <2>1 DEF Pointing
<1>6. Len(frames) = 0
  OBVIOUS
<1>7. \E d \in Used : w \in Words(d)
  BY <1>1, <1>6, CountedIsInPlay DEF InPlay
<1> QED
  BY <1>5, <1>7

LEMMA AllReferredNext == (RCBase /\ ExactInv /\ frames = <<>> => Supported(Used))'
  BY AllReferred, PTL

\* Nothing refers to a chunk that is free.
LEMMA FreeUnreferred ==
    RCBase /\ Exact(Counted) =>
        \A a \in live : mark[a] = 0 =>
            handles[a] = 0 /\ \A w \in Counted : data[w] \notin Words(a)
<1> SUFFICES ASSUME RCBase, Exact(Counted), NEW a \in live, mark[a] = 0
             PROVE  handles[a] = 0 /\ \A w \in Counted : data[w] \notin Words(a)
  OBVIOUS
<1>1. PICK C : C = Counted
  OBVIOUS
<1>2. C \subseteq Addr /\ Exact(C)
  BY <1>1, CountedFinite
<1>3. handles[a] = 0
  <2>1. ~ (refcount[a] > 0)
    BY <1>2 DEF Exact
  <2> QED
    BY <1>2, <2>1, NoWrap
<1>4. \A w \in C : data[w] \notin Words(a)
  BY <1>2, PointedInUse
<1> QED
  BY <1>1, <1>3, <1>4

LEMMA FreeUnreferredNext ==
    (RCBase /\ Exact(Counted) =>
        \A a \in live : mark[a] = 0 =>
            handles[a] = 0 /\ \A w \in Counted : data[w] \notin Words(a))'
  BY FreeUnreferred, PTL

\* The chunks that survive are the same while only the cursors move, ...
LEMMA SurvivingMoves ==
    ASSUME UNCHANGED <<live, size, mark, data, handles>>
    PROVE  Used' = Used /\ Surviving' = Surviving
<1>1. Used' = Used
  BY DEF Used
<1>2. ASSUME NEW S PROVE Supported(S)' <=> Supported(S)
  BY DEF Supported, Words
<1> QED
  BY <1>1, <1>2 DEF Surviving

\* ... and when a chunk is freed because its count is 0: it is in no set of
\* chunks that support each other.
LEMMA FreedUnsupported ==
    ASSUME RCBase, RCBase', Exact(Counted)', NEW a \in Used,
           UNCHANGED <<live, size, data>>, mark' = [mark EXCEPT ![a] = 0],
           frames' = Append(frames, [chunk |-> a, word |-> a])
    PROVE  /\ Used' = Used \ {a}
           /\ Surviving' = UNION { S \in SUBSET Used : HeldBy(S, handles') }
<1>1. /\ a \in live /\ a \in Addr /\ a \in Int /\ size[a] \in Int
      /\ mark \in [Addr -> {0, 1}] /\ live \subseteq Addr
  BY WordsTyped DEF Used, RCBase, IInv, Typed
<1>2. Used' = Used \ {a}
  BY <1>1 DEF Used
<1>3. mark'[a] = 0 /\ \A c : Words(c)' = Words(c)
  BY <1>1 DEF Words
<1>4. /\ handles'[a] = 0
      /\ \A w \in Counted' : data[w] \notin Words(a)
  BY <1>1, <1>3, FreeUnreferredNext
<1>5. ASSUME NEW d \in Used, NEW w \in Words(d) PROVE w \in Counted'
  <2>1. CASE d = a
    <3>1. PICK n : n = Len(frames')
      OBVIOUS
    <3>2. n \in 1 .. n /\ n = Len(frames') /\ frames'[n] = [chunk |-> a, word |-> a]
      <4>1. [chunk |-> a, word |-> a] \in Frame /\ frames \in Seq(Frame)
        BY <1>1 DEF Frame, Addr, RCBase, RCTyped
      <4> QED
        BY <3>1, <4>1, Pushed
    <3>3. Remaining(n)' = a .. a + size[a] - 1
      BY <1>1, <3>2 DEF Remaining
    <3>4. w \in Remaining(n)'
      BY <1>5, <2>1, <3>3 DEF Words
    <3> QED
      BY <3>2, <3>4, CountedIsInPlayNext DEF InPlay
  <2>2. CASE d # a
    BY <1>2, <1>3, <2>2, CountedIsInPlayNext DEF InPlay
  <2> QED
    BY <2>1, <2>2
<1>6. ASSUME NEW S \in SUBSET Used, HeldBy(S, handles') PROVE a \notin S
  <2> SUFFICES ASSUME a \in S PROVE FALSE
    OBVIOUS
  <2>1. PICK d \in S : \E w \in Words(d) : data[w] \in Words(a)
    BY <1>4, <1>6 DEF HeldBy
  <2> QED
    BY <1>4, <1>5, <2>1
<1>7. ASSUME NEW S PROVE Supported(S)' <=> HeldBy(S, handles')
  BY <1>3 DEF Supported, HeldBy
<1>8. \A S : S \in SUBSET (Used \ {a}) /\ HeldBy(S, handles')
                <=> S \in SUBSET Used /\ HeldBy(S, handles')
  BY <1>6
<1> QED
  BY <1>2, <1>7, <1>8 DEF Surviving

\* A set of chunks that support each other is made of chunks that survive, and
\* the chunks that survive make one.
LEMMA WholeLasts ==
    ASSUME NEW S, NEW h, HeldBy(S, h)
    PROVE  UNION { R \in SUBSET S : HeldBy(R, h) } = S
  OBVIOUS

\* What the abstract heap lets last, between calls of release.
LEMMA LastingIs ==
    ASSUME frames = <<>>, NEW h
    PROVE  Shared!Lasting(h) = UNION { S \in SUBSET Used : HeldBy(S, h) }
<1>1. InUse = Used
  BY DEF InUse
<1>2. ASSUME NEW c \in Used PROVE Shared!Words(c) = Words(c)
  BY <1>1, <1>2 DEF Shared!Words, Words
<1>3. ASSUME NEW S \in SUBSET Used
      PROVE  HeldBy(S, h) <=> \A c \in S : h[c] > 0 \/ Shared!Pointed(S, c)
  <2>1. ASSUME NEW c \in S
        PROVE  Shared!Pointed(S, c) <=> \E d \in S : \E w \in Words(d) : data[w] \in Words(c)
    BY <1>2 DEF Shared!Pointed
  <2> QED
    BY <2>1 DEF HeldBy
<1>4. { S \in SUBSET DOMAIN [c \in InUse |-> size[c]] :
          \A c \in S : h[c] > 0 \/ Shared!Pointed(S, c) }
        = { S \in SUBSET Used : HeldBy(S, h) }
  BY <1>1, <1>3
<1> QED
  BY <1>4 DEF Shared!Lasting

\* The blocks in use are all of them again when the last call of release returns.
LEMMA AllSurvive ==
    ASSUME RCBase, ExactInv, frames = <<>>
    PROVE  Surviving = Used
<1>1. Supported(Used)
  BY AllReferred
<1> QED
  BY <1>1 DEF Surviving

LEMMA AllSurviveNext == (RCBase /\ ExactInv /\ frames = <<>> => Surviving = Used)'
<1>1. RCBase /\ ExactInv /\ frames = <<>> => Surviving = Used
  BY AllSurvive
<1> QED
  BY <1>1, PTL

\* The count of the chunk that a call of release is made on goes down by one,
\* and the chunk is free with the last one: it is then in no set of chunks
\* that support each other.
LEMMA ReleaseChunkShares ==
    ASSUME RCBase, RCBase', ExactInv', pc \in {"client", "chunkMem"},
           NEW p \in Used, ReleaseChunk(p)
    PROVE  /\ UNCHANGED <<live, size, data>>
           /\ \/ /\ frames' # <<>>
                 /\ Surviving' = UNION { S \in SUBSET Used : HeldBy(S, handles') }
              \/ UNCHANGED <<mark, frames>>
<1>1. PICK count : count = (refcount[p] - 1) % UintRange
  OBVIOUS
<1>2. /\ UNCHANGED <<live, size, data>>
      /\ count = 0 => /\ mark' = [mark EXCEPT ![p] = 0]
                      /\ frames' = Append(frames, [chunk |-> p, word |-> p])
                      /\ pc' = "scan"
      /\ count # 0 => UNCHANGED <<mark, frames>>
  BY <1>1, ReleaseEffect DEF Used
<1>3. CASE count = 0
  <2>1. Exact(Counted)'
    BY <1>2, <1>3 DEF ExactInv
  <2>2. Surviving' = UNION { S \in SUBSET Used : HeldBy(S, handles') }
    BY <1>2, <1>3, <2>1, FreedUnsupported
  <2>3. frames' # <<>>
    BY <1>2, <1>3 DEF RCBase, FramesInv
  <2> QED
    BY <1>2, <2>2, <2>3
<1> QED
  BY <1>2, <1>3

\* release, when the program calls it: what the abstract heap keeps is what
\* survives, however long it takes the code to free the rest.
LEMMA ReleaseShares ==
    ASSUME RCBase, RCBase', ExactInv, ExactInv', NEW p \in live, Release(p)
    PROVE  p \in InUse /\ Shared!Release(p)
<1>1. /\ pc = "client" /\ handles[p] > 0 /\ handles' = [handles EXCEPT ![p] = handles[p] - 1]
      /\ ReleaseChunk(p) /\ frames = <<>>
  BY DEF Release, RCBase, FramesInv
<1>2. p \in Used /\ InUse = Used
  <2>1. PICK C : C = Counted
    OBVIOUS
  <2>2. C \subseteq Addr /\ Exact(C)
    BY <1>1, <2>1, CountedFinite DEF ExactInv
  <2>3. refcount[p] > 0
    BY <1>1, <2>2, NoWrap
  <2> QED
    BY <1>1, <2>2, <2>3 DEF Exact, Used, InUse
<1>3. PICK L : L = UNION { S \in SUBSET Used : HeldBy(S, handles') }
  OBVIOUS
<1>4. /\ UNCHANGED <<live, size, data>>
      /\ (frames' # <<>> /\ Surviving' = L) \/ UNCHANGED <<mark, frames>>
  BY <1>1, <1>2, <1>3, ReleaseChunkShares
<1>5. InUse' = L
  <2>1. CASE frames' # <<>> /\ Surviving' = L
    BY <2>1 DEF InUse
  <2>2. CASE UNCHANGED <<mark, frames>>
    <3>1. Used' = Used /\ frames' = <<>>
      BY <1>1, <1>4, <2>2 DEF Used
    <3>2. (RCBase /\ ExactInv /\ frames = <<>> => Supported(Used))'
      BY AllReferredNext
    <3>3. HeldBy(Used, handles')
      BY <1>4, <3>1, <3>2 DEF Supported, HeldBy, Words
    <3>4. L = Used
      BY <1>3, <3>3, WholeLasts
    <3> QED
      BY <3>1, <3>4 DEF InUse
  <2> QED
    BY <1>4, <2>1, <2>2
<1>6. Shared!Lasting(handles') = L /\ L \subseteq InUse
  BY <1>1, <1>2, <1>3, LastingIs
<1>7. [c \in InUse |-> size[c]]' = [d \in L |-> [c \in InUse |-> size[c]][d]]
  BY <1>4, <1>5, <1>6
<1> QED
  BY <1>1, <1>2, <1>4, <1>6, <1>7 DEF Shared!Release

\* The turns of release go unseen.
LEMMA ReleaseStepShares ==
    ASSUME RCBase, RCBase', ExactInv, ExactInv', ReleaseStep
    PROVE  InUse' = InUse /\ UNCHANGED <<live, size, data, handles>>
<1>1. frames # <<>> /\ InUse = Surviving
  <2>1. pc \in {"scan", "chunkMem", "resume"}
    BY DEF ReleaseStep, ScanWord, ScanDone, MemRelease, MemNext, MemDone
  <2> QED
    BY <2>1 DEF RCBase, FramesInv, InUse
<1>2. CASE MemRelease
  <2>1. PICK a : a = cur
    OBVIOUS
  <2>2. pc = "chunkMem" /\ a \in Used /\ ReleaseChunk(a) /\ handles' = handles
    BY <1>2, <2>1 DEF MemRelease, Hit, RCBase, IInv, Closure, Typed, Used
  <2>3. /\ UNCHANGED <<live, size, data>>
        /\ \/ /\ frames' # <<>>
              /\ Surviving' = UNION { S \in SUBSET Used : HeldBy(S, handles') }
           \/ UNCHANGED <<mark, frames>>
    BY <2>2, ReleaseChunkShares
  <2>4. Surviving = UNION { S \in SUBSET Used : HeldBy(S, handles') }
    BY <2>2 DEF Surviving, Supported, HeldBy
  <2>5. CASE UNCHANGED <<mark, frames>>
    BY <1>1, <2>2, <2>3, <2>5, SurvivingMoves DEF InUse
  <2> QED
    BY <1>1, <2>2, <2>3, <2>4, <2>5 DEF InUse
<1>3. CASE ScanWord \/ MemNext \/ MemDone
  <2>1. UNCHANGED <<live, size, mark, data, handles>> /\ frames' # <<>>
    <3>1. UNCHANGED <<live, size, mark, data, handles>> /\ pc' \in {"scan", "chunkMem"}
      BY <1>3 DEF ScanWord, MemNext, MemDone, chunk, program
    <3> QED
      BY <3>1 DEF RCBase, FramesInv
  <2> QED
    BY <1>1, <2>1, SurvivingMoves DEF InUse
<1>4. CASE ScanDone
  <2>1. UNCHANGED <<live, size, mark, data, handles>>
    BY <1>4 DEF ScanDone, chunk, program
  <2>2. Used' = Used /\ Surviving' = Surviving
    BY <2>1, SurvivingMoves
  <2>3. frames' = <<>> => Surviving' = Used'
    BY AllSurviveNext
  <2> QED
    BY <1>1, <2>1, <2>2, <2>3 DEF InUse
<1> QED
  BY <1>2, <1>3, <1>4 DEF ReleaseStep

\* The step of alloc that hands out a chunk, seen from the blocks in use.
LEMMA SplitShares ==
    ASSUME RCBase, Initialises,
           SplitAddress \/ SplitExact \/ SplitInPlace \/ SplitDetach,
           handles' = [handles EXCEPT ![cur] = 1],
           data' = [w \in Addr |-> IF Initialises /\ w \in cur .. cur + bytes - 1
                                  THEN NULL ELSE data[w]],
           UNCHANGED frames
    PROVE  \E c \in Shared!Addr : \E n \in 1 .. MemSize : Shared!Allocate(c, n)
<1>0. PICK a, b : a = cur /\ b = bytes
  OBVIOUS
<1>1. /\ pc = "find" /\ Fits(a, b) /\ Carve(a, b) /\ frames = <<>> /\ frames' = <<>>
  BY <1>0 DEF SplitAddress, SplitExact, SplitInPlace, SplitDetach, RCBase, FramesInv
<1>2. /\ a \in live /\ a \in Addr /\ b \in Int /\ b > 0 /\ mark[a] = 0 /\ live \subseteq Addr
      /\ \A c \in live : c \in Int /\ size[c] \in Int /\ size[c] > 0 /\ mark[c] \in {0, 1}
      /\ Tiling
  <2>1. a \in live
    BY <1>0, <1>1 DEF SplitAddress, SplitExact, SplitInPlace, SplitDetach, RCBase, IInv, Closure
  <2>2. bytes \in Int /\ bytes > 0
    BY <1>1 DEF RCBase, IInv, Typed, Closure, Requests
  <2> QED
    BY <1>0, <1>1, <2>1, <2>2 DEF RCBase, IInv, Typed, Addr, Fits, Tiling
<1>3. b \in 1 .. size[a]
  BY <1>1, <1>2 DEF Fits
<1>4. /\ live' = IF b < size[a] THEN live \union {a + b} ELSE live
      /\ size'[a] = b
      /\ \A d \in live \ {a} : size'[d] = size[d] /\ mark'[d] = mark[d]
      /\ b < size[a] => a + b \in Addr /\ a + b \notin live
  BY <1>1, <1>2, <1>3, CarveTiling DEF RCBase
<1>5. mark'[a] = 1 /\ (b < size[a] => mark'[a + b] = 0)
  <2>1. mark \in [Addr -> {0, 1}]
    BY DEF RCBase, IInv, Typed
  <2> QED
    BY <1>1, <1>2, <1>3, <1>4, <2>1 DEF Carve
<1>6. Used' = Used \union {a} /\ InUse = Used /\ InUse' = Used' /\ a \notin Used
  BY <1>1, <1>2, <1>4, <1>5 DEF Used, InUse
<1>7. [c \in InUse |-> size[c]]'
        = [d \in Used \union {a} |-> IF d = a THEN b ELSE [c \in Used |-> size[c]][d]]
  BY <1>2, <1>4, <1>6 DEF Used
<1>8. /\ a + size[a] <= MemSize
      /\ \A d \in Used : a + b <= d \/ d + size[d] <= a
  <2>1. a + size[a] <= MemSize
    BY <1>2, WordsTyped DEF RCBase
  <2>2. \A d \in Used : a + size[a] <= d \/ d + size[d] <= a
    BY <1>2 DEF Used, Tiling
  <2>3. \A d \in Used : d \in Int /\ size[d] \in Int
    BY <1>2 DEF Used
  <2> QED
    BY <1>2, <1>3, <2>1, <2>2, <2>3
<1>9. /\ data' = [w \in Addr |-> IF w \in a .. a + b - 1 THEN NULL ELSE data[w]]
      /\ handles' = [handles EXCEPT ![a] = 1]
  BY <1>0
<1>10. /\ a + b <= MemSize /\ b \in 1 .. MemSize
       /\ \A d \in DOMAIN [c \in InUse |-> size[c]] :
            a + b <= d \/ d + [c \in InUse |-> size[c]][d] <= a
       /\ [c \in InUse |-> size[c]]'
            = [d \in DOMAIN [c \in InUse |-> size[c]] \union {a}
                 |-> IF d = a THEN b ELSE [c \in InUse |-> size[c]][d]]
  <2>1. a + b <= MemSize /\ b \in 1 .. MemSize
    BY <1>2, <1>3, <1>8 DEF Addr
  <2> QED
    BY <1>6, <1>7, <1>8, <2>1
<1>11. Shared!Allocate(a, b)
  BY <1>9, <1>10 DEF Shared!Allocate, Shared!Addr, Addr
<1> QED
  BY <1>2, <1>10, <1>11 DEF Shared!Addr, Addr

\* The other steps of alloc go unseen.
LEMMA AllocShares ==
    ASSUME RCBase, Alloc \/ ((FindNext \/ FindFail \/ Insert) /\ UNCHANGED <<program, frames>>)
    PROVE  InUse' = InUse /\ UNCHANGED <<live, size, data, handles>>
<1>1. UNCHANGED <<live, size, mark, data, handles, frames>>
  BY DEF Alloc, AllocInt, FindNext, FindFail, Insert, InsertFront, InsertBefore,
         InsertLast, InsertWalk, chunk, program
<1> QED
  BY <1>1, SurvivingMoves DEF InUse

\* What the program does with the blocks between calls.
LEMMA ProgramShares ==
    ASSUME RCBase, ExactInv, NEW d \in live, NEW c \in live, NEW w \in Words(d),
           (\E p \in Words(c) : StorePointer(d, w, c, p)) \/ Takes(d, w, c)
    PROVE  /\ c \in InUse /\ d \in InUse /\ w \in Shared!Words(d)
           /\ (\E p \in Shared!Words(c) : Shared!Store(d, w, c, p)) \/ Shared!Take(d, w, c)
<1>1. /\ pc = "client" /\ handles[d] > 0 /\ frames = <<>> /\ frames' = <<>>
      /\ UNCHANGED <<live, size, mark>>
  BY DEF StorePointer, Takes, TakePointer, vars, chunk, RCBase, FramesInv
<1>2. PICK C : C = Counted
  OBVIOUS
<1>3. C \subseteq Addr /\ Exact(C)
  BY <1>1, <1>2, CountedFinite DEF ExactInv
<1>4. ASSUME NEW x \in live, handles[x] > 0 PROVE x \in Used
  <2>1. refcount[x] > 0
    BY <1>3, <1>4, NoWrap
  <2> QED
    BY <1>3, <2>1 DEF Exact, Used
<1>5. d \in Used /\ w \in C
  BY <1>1, <1>2, <1>4, CountedIsInPlay DEF InPlay
<1>6. c \in Used
  <2>1. CASE handles[c] > 0
    BY <1>4, <2>1
  <2>2. CASE Takes(d, w, c)
    <3>1. data[w] \in Words(c)
      BY <2>2 DEF Takes
    <3> QED
      BY <1>3, <1>5, <3>1, PointedInUse DEF Used
  <2> QED
    BY <2>1, <2>2 DEF StorePointer
<1>7. InUse = Used /\ InUse' = Used /\ [x \in InUse |-> size[x]]' = [x \in InUse |-> size[x]]
  BY <1>1 DEF InUse, Used
<1>8. Shared!Words(c) = Words(c) /\ Shared!Words(d) = Words(d)
  BY <1>5, <1>6, <1>7 DEF Shared!Words, Words
<1>9. ASSUME NEW p \in Words(c), StorePointer(d, w, c, p)
      PROVE  Shared!Store(d, w, c, p)
  BY <1>7, <1>9 DEF StorePointer, Shared!Store
<1>10. Takes(d, w, c) => Shared!Take(d, w, c)
  BY <1>7, <1>8 DEF Takes, TakePointer, Shared!Take
<1> QED
  BY <1>5, <1>6, <1>7, <1>8, <1>9, <1>10

LEMMA RetainShares ==
    ASSUME RCBase, ExactInv, NEW p \in live, Retain(p)
    PROVE  p \in InUse /\ Shared!Retain(p)
<1>1. /\ pc = "client" /\ frames = <<>> /\ handles[p] \in 1 .. MaxHandles - 1
      /\ UNCHANGED <<live, size, mark, data, frames>>
      /\ handles' = [handles EXCEPT ![p] = handles[p] + 1]
  BY DEF Retain, RCBase, FramesInv
<1>2. PICK C : C = Counted
  OBVIOUS
<1>3. C \subseteq Addr /\ Exact(C)
  BY <1>1, <1>2, CountedFinite DEF ExactInv
<1>4. p \in Used
  <2>1. refcount[p] > 0
    BY <1>1, <1>3, NoWrap
  <2> QED
    BY <1>3, <2>1 DEF Exact, Used
<1>5. InUse = Used /\ InUse' = Used /\ [x \in InUse |-> size[x]]' = [x \in InUse |-> size[x]]
  BY <1>1 DEF InUse, Used
<1> QED
  BY <1>1, <1>4, <1>5 DEF Shared!Retain

LEMMA SharingStep ==
    ASSUME Initialises, RCBase, ExactInv, Targeted, [RCNext]_rcVars
    PROVE  [Shared!Next]_(Shared!vars)
<1>1. RCBase' /\ ExactInv'
  BY RCBaseStep, ExactStep
<1>2. DOMAIN [c \in InUse |-> size[c]] = InUse
  OBVIOUS
<1>3. ASSUME InUse' = InUse, UNCHANGED <<live, size, data, handles>>
      PROVE  UNCHANGED Shared!vars
  BY <1>3 DEF Shared!vars
<1>4. CASE Alloc \/ AllocStep
  <2>1. CASE /\ SplitAddress \/ SplitExact \/ SplitInPlace \/ SplitDetach
             /\ handles' = [handles EXCEPT ![cur] = 1]
             /\ data' = [w \in Addr |-> IF Initialises /\ w \in cur .. cur + bytes - 1
                                        THEN NULL ELSE data[w]]
             /\ UNCHANGED frames
    BY <2>1, SplitShares DEF Shared!Next
  <2>2. CASE Alloc \/ ((FindNext \/ FindFail \/ Insert) /\ UNCHANGED <<program, frames>>)
    BY <1>3, <2>2, AllocShares
  <2> QED
    BY <1>4, <2>1, <2>2 DEF AllocStep
<1>5. ASSUME NEW p \in live, Retain(p) \/ Release(p) PROVE Shared!Next
  BY <1>1, <1>2, <1>5, RetainShares, ReleaseShares DEF Shared!Next
<1>6. ASSUME NEW d \in live, NEW w \in Words(d),
             (\E c \in live : \E p \in Words(c) : StorePointer(d, w, c, p)) \/ TakePointer(d, w)
      PROVE  Shared!Next
  <2>1. d \in Used
    BY <1>6, HeldIsUsed DEF StorePointer, TakePointer, ExactInv
  <2>2. PICK c \in live : (\E p \in Words(c) : StorePointer(d, w, c, p)) \/ Takes(d, w, c)
    BY <1>6, <2>1, TakesTarget
  <2> QED
    BY <1>2, <2>2, ProgramShares DEF Shared!Next
<1>7. CASE ReleaseStep
  BY <1>1, <1>3, <1>7, ReleaseStepShares
<1>8. CASE UNCHANGED rcVars
  <2>1. UNCHANGED <<live, size, mark, data, handles, frames>>
    BY <1>8 DEF rcVars, vars, program, chunk
  <2> QED
    BY <1>3, <2>1, SurvivingMoves DEF InUse
<1> QED
  BY <1>4, <1>5, <1>6, <1>7, <1>8 DEF RCNext, Program, RCCode

\* retain and release implement the sharing of blocks, for a program that
\* clears the blocks that it is given: when the program gives up a reference,
\* the blocks that it still refers to, directly or along blocks in use, and
\* those that refer to each other in a ring stay, and all the others go, in
\* whatever order the recursion of release comes to them.
THEOREM SharingRefinement ==
    ASSUME Initialises
    PROVE  RCSpec => SharingSpec
<1>1. RCInit => Shared!Init
  <2> SUFFICES ASSUME RCInit PROVE Shared!Init
    OBVIOUS
  <2>1. /\ mark = [c \in Addr |-> 0] /\ live = {0} /\ frames = <<>> /\ 0 \in Addr
        /\ data = [w \in Addr |-> NULL] /\ handles = [c \in Addr |-> 0]
    BY DEF RCInit, Init, Fresh, Unused, Addr
  <2>2. InUse = {}
    BY <2>1 DEF InUse, Used
  <2> QED
    BY <2>1, <2>2 DEF Shared!Init, Shared!Addr, Addr
<1> QED
  BY <1>1, ExactInvariance, SharingStep, PTL DEF RCSpec, SharingSpec, Shared!Spec
=============================================================================
