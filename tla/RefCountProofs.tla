--------------------------- MODULE RefCountProofs ---------------------------
(***************************************************************************)
(* Reference counting: that the iterator release shares with its own inner *)
(* calls stays on the list, and that the counts are exact at every turn of *)
(* the recursion, for a program that clears its blocks.                    *)
(***************************************************************************)
EXTENDS RefCount, WalkProofs

USE MemSizeAssumption, StylesAssumption, NullAssumption, RefCountAssumption
USE DEF ASCENDING_SIZE, DESCENDING_SIZE, ADDRESS

\* A call of release that scans a chunk, and the word that it is at.
Frame == [chunk : Addr, word : 0 .. MemSize]

\* The ranges of what reference counting adds.
RCTyped ==
    /\ refcount \in [Addr -> 0 .. UintRange - 1]
    /\ pc \in {"client", "find", "insert", "scan", "chunkMem", "resume"}
    /\ data \in [Addr -> Ptr]
    /\ handles \in [Addr -> 0 .. MaxHandles]
    /\ target \in [Addr -> Ptr]
    /\ frames \in Seq(Frame)

\* The calls of release under way: each scans a chunk of its own, which is
\* free by then, and all but the innermost wait for one that their word led to.
FramesInv ==
    /\ frames = <<>> <=> pc \notin {"scan", "chunkMem", "resume"}
    /\ \A i \in 1 .. Len(frames) :
        /\ frames[i].chunk \in live /\ mark[frames[i].chunk] = 0
        /\ frames[i].chunk <= frames[i].word
        /\ frames[i].word <= frames[i].chunk + size[frames[i].chunk]
        /\ i < Len(frames) \/ pc \in {"chunkMem", "resume"}
            => frames[i].word < frames[i].chunk + size[frames[i].chunk]
    /\ \A i, j \in 1 .. Len(frames) : frames[i].chunk = frames[j].chunk => i = j
    /\ pc \in {"scan", "resume"} => cur \in live

RCBase == IInv /\ ListInv /\ RCTyped /\ FramesInv

\* A sequence with one more element at its end, with one less, and with one replaced.
LEMMA EmptyIff == ASSUME NEW S, NEW s \in Seq(S) PROVE s = <<>> <=> Len(s) = 0
<1>1. s = <<>> => Len(s) = 0
  OBVIOUS
<1>2. s # <<>> => Len(s) # 0
  OBVIOUS
<1> QED
  BY <1>1, <1>2

LEMMA Pushed ==
    ASSUME NEW S, NEW s \in Seq(S), NEW r \in S, NEW t, t = Append(s, r)
    PROVE  /\ t \in Seq(S) /\ Len(t) = Len(s) + 1 /\ Len(s) \in Nat /\ t # <<>>
           /\ \A i \in 1 .. Len(s) : t[i] = s[i]
           /\ t[Len(s) + 1] = r
  OBVIOUS

LEMMA Replaced ==
    ASSUME NEW S, NEW s \in Seq(S), NEW n \in 1 .. Len(s), NEW r \in S
    PROVE  /\ [s EXCEPT ![n] = r] \in Seq(S) /\ Len([s EXCEPT ![n] = r]) = Len(s)
           /\ [s EXCEPT ![n] = r][n] = r
           /\ \A i \in 1 .. Len(s) : i # n => [s EXCEPT ![n] = r][i] = s[i]
  OBVIOUS

LEMMA Popped ==
    ASSUME NEW S, NEW s \in Seq(S), s # <<>>
    PROVE  /\ SubSeq(s, 1, Len(s) - 1) \in Seq(S)
           /\ Len(s) \in Nat /\ Len(s) > 0
           /\ Len(SubSeq(s, 1, Len(s) - 1)) = Len(s) - 1
           /\ \A i \in 1 .. Len(s) - 1 : SubSeq(s, 1, Len(s) - 1)[i] = s[i]
<1>1. Len(s) \in Nat /\ Len(s) > 0 /\ Len(s) - 1 \in Nat
  OBVIOUS
<1>2. PICK n \in Nat : n = Len(s) - 1
  BY <1>1
<1>3. /\ SubSeq(s, 1, n) \in Seq(S) /\ Len(SubSeq(s, 1, n)) = n
      /\ \A i \in 1 .. n : SubSeq(s, 1, n)[i] = s[i]
  BY <1>1, <1>2
<1> QED
  BY <1>1, <1>2, <1>3

\* The words of a chunk are its own part of the arena.
LEMMA WordsTyped ==
    ASSUME IInv, NEW c \in live
    PROVE  /\ c \in Addr /\ c \in Int /\ size[c] \in Int /\ size[c] > 0
           /\ c + size[c] <= MemSize /\ Words(c) \subseteq Addr
           /\ \A d \in live : c # d => Words(c) \intersect Words(d) = {}
<1>1. c \in Addr /\ c \in Int /\ size[c] \in Int /\ size[c] > 0
  BY DEF IInv, Typed, Tiling, Addr
<1>2. c + size[c] <= MemSize
  <2>1. \A x \in live : x <= MemSize
    BY DEF IInv, Typed, Addr
  <2>2. c + size[c] = MemSize \/ c + size[c] \in live
    BY DEF IInv, Tiling
  <2> QED
    BY <1>1, <2>1, <2>2
<1>3. Words(c) \subseteq Addr
  BY WordsOfChunk DEF Words
<1>4. \A d \in live : c # d => Words(c) \intersect Words(d) = {}
  BY Disjoint DEF Words
<1> QED
  BY <1>1, <1>2, <1>3, <1>4

\* findAChunk finds the chunks there are.
LEMMA FindAChunkFinds ==
    ASSUME IInv, ListInv, pc # "insert", NEW p \in live
    PROVE  FindAChunk(p) = p
<1>1. p \in { Walk[k] : k \in 0 .. MemSize }
  BY CompleteFollows, NothingWaits DEF ListComplete
<1> QED
  BY <1>1 DEF FindAChunk

LEMMA RCBaseInit == RCInit => RCBase
<1> SUFFICES ASSUME RCInit PROVE RCBase
  OBVIOUS
<1>1. Init /\ Unused
  BY DEF RCInit
<1>2. IInv /\ ListInv
  BY <1>1, InitInv, ListInit
<1>3. RCTyped
  BY <1>1 DEF Init, Fresh, Unused, RCTyped, Ptr
<1>4. FramesInv
  BY <1>1 DEF Init, Fresh, Unused, FramesInv
<1> QED
  BY <1>2, <1>3, <1>4 DEF RCBase

\* alloc's own steps keep all that; reference counting is not under way.
LEMMA AllocBase == RCBase /\ (Alloc \/ AllocStep) => RCBase'
<1> SUFFICES ASSUME RCBase, Alloc \/ AllocStep PROVE RCBase'
  OBVIOUS
<1>1. Next /\ pc \in {"client", "find", "insert"}
  BY DEF Alloc, AllocStep, Next, Client, Code, Find, Insert, AllocInt, FindNext, FindFail,
         SplitAddress, SplitExact, SplitInPlace, SplitDetach, InsertFront, InsertBefore,
         InsertLast, InsertWalk, Requests
<1>2. IInv' /\ ListInv'
  BY <1>1, InvStep, ListStep DEF RCBase
<1>3. pc' \in {"client", "find", "insert"}
  BY DEF Alloc, AllocStep, AllocInt, FindNext, FindFail, Insert,
         SplitAddress, SplitExact, SplitInPlace, SplitDetach, InsertFront, InsertBefore,
         InsertLast, InsertWalk, Inserted, Return, call, RCBase, RCTyped
<1>4. refcount' \in [Addr -> 0 .. UintRange - 1]
  <2>1. CASE SplitAddress \/ SplitExact \/ SplitInPlace \/ SplitDetach
    <3>1. {0, 1} \subseteq 0 .. UintRange - 1
      OBVIOUS
    <3> QED
      BY <2>1, <3>1, CountsTyped DEF RCBase, RCTyped
  <2>2. CASE refcount' = refcount
    BY <2>2 DEF RCBase, RCTyped
  <2> QED
    BY <2>1, <2>2 DEF Alloc, AllocStep, AllocInt, FindNext, FindFail, Insert, InsertFront,
                      InsertBefore, InsertLast, InsertWalk, chunk
<1>5. /\ data' \in [Addr -> Ptr] /\ handles' \in [Addr -> 0 .. MaxHandles]
      /\ target' \in [Addr -> Ptr] /\ frames' = frames
  <2>1. CASE Alloc \/ UNCHANGED <<program, frames>>
    BY <2>1 DEF Alloc, program, RCBase, RCTyped
  <2>2. CASE /\ handles' = [handles EXCEPT ![cur] = 1]
             /\ data' = [w \in Addr |-> IF Initialises /\ w \in cur .. cur + bytes - 1
                                        THEN NULL ELSE data[w]]
             /\ target' = [w \in Addr |-> IF w \in cur .. cur + bytes - 1
                                          THEN NULL ELSE target[w]]
             /\ UNCHANGED frames
    <3>1. 1 \in 0 .. MaxHandles
      OBVIOUS
    <3> QED
      BY <2>2, <3>1 DEF RCBase, RCTyped, Ptr
  <2> QED
    BY <2>1, <2>2 DEF AllocStep
<1>6. RCTyped'
  BY <1>3, <1>4, <1>5 DEF RCTyped, RCBase
<1>7. FramesInv'
  BY <1>1, <1>3, <1>5 DEF FramesInv, RCBase
<1> QED
  BY <1>2, <1>6, <1>7 DEF RCBase

\* What a call of release does to a chunk up to its loop.
LEMMA ReleaseEffect ==
    ASSUME RCBase, pc \in {"client", "chunkMem"}, NEW p \in live, ReleaseChunk(p),
           NEW count, count = (refcount[p] - 1) % UintRange
    PROVE  /\ UNCHANGED <<list, live, next, prev, size, bytes, object, todo, data, target>>
           /\ cur' = p
           /\ count \in 0 .. UintRange - 1
           /\ refcount' = [refcount EXCEPT ![p] = count]
           /\ count = 0 => /\ mark' = [mark EXCEPT ![p] = 0]
                           /\ frames' = Append(frames, [chunk |-> p, word |-> p])
                           /\ pc' = "scan"
           /\ count # 0 => /\ UNCHANGED <<mark, frames>>
                           /\ pc' = IF frames = <<>> THEN "client" ELSE "resume"
<1>1. FindAChunk(p) = p
  BY FindAChunkFinds DEF RCBase
<1>2. p # NULL /\ refcount[p] \in Int
  BY DEF RCBase, IInv, Typed, Addr, RCTyped
<1>3. count \in 0 .. UintRange - 1
  BY <1>2
<1> QED
  BY <1>1, <1>2, <1>3 DEF ReleaseChunk, Resume

LEMMA ReleaseBase ==
    ASSUME RCBase, NEW p \in live, ReleaseChunk(p),
           pc = "client" \/ (pc = "chunkMem" /\ mark[p] = 1),
           handles' \in [Addr -> 0 .. MaxHandles]
    PROVE  RCBase'
<1>1. PICK count : count = (refcount[p] - 1) % UintRange
  OBVIOUS
<1>2. /\ UNCHANGED <<list, live, next, prev, size, bytes, object, todo, data, target>>
      /\ cur' = p
      /\ count \in 0 .. UintRange - 1
      /\ refcount' = [refcount EXCEPT ![p] = count]
      /\ count = 0 => /\ mark' = [mark EXCEPT ![p] = 0]
                      /\ frames' = Append(frames, [chunk |-> p, word |-> p])
                      /\ pc' = "scan"
      /\ count # 0 => /\ UNCHANGED <<mark, frames>>
                      /\ pc' = IF frames = <<>> THEN "client" ELSE "resume"
  BY <1>1, ReleaseEffect
<1>3. /\ mark \in [Addr -> {0, 1}] /\ p \in Addr /\ size[p] \in Int /\ size[p] > 0 /\ p \in Int
      /\ live \subseteq Addr /\ bytes \in Requests /\ object \in Ptr /\ todo = <<>>
      /\ frames \in Seq(Frame)
  <2>1. p \in Addr /\ live \subseteq Addr /\ pc # "insert"
    BY DEF RCBase, IInv, Typed
  <2>2. size[p] \in Int /\ size[p] > 0 /\ p \in Int
    BY <2>1 DEF RCBase, IInv, Typed, Tiling, Addr
  <2> QED
    BY <2>1, <2>2 DEF RCBase, IInv, Typed, Closure, RCTyped
<1>4. mark' \in [Addr -> {0, 1}]
  BY <1>2, <1>3
<1>5. IInv'
  BY <1>2, <1>3, <1>4, MoveInv DEF RCBase
<1>6. ListInv'
  BY <1>2, ListKept DEF RCBase
<1>7. RCTyped'
  <2>1. [chunk |-> p, word |-> p] \in Frame
    BY <1>3 DEF Frame, Addr
  <2>2. frames' \in Seq(Frame)
    <3>1. CASE count = 0
      BY <1>2, <1>3, <2>1, <3>1, Pushed
    <3>2. CASE count # 0
      BY <1>2, <1>3, <3>2
    <3> QED
      BY <3>1, <3>2
  <2>3. pc' \in {"client", "scan", "resume"}
    BY <1>2
  <2>4. refcount' \in [Addr -> 0 .. UintRange - 1]
    BY <1>2, <1>3 DEF RCBase, RCTyped
  <2> QED
    BY <1>2, <2>2, <2>3, <2>4 DEF RCBase, RCTyped
<1>8. FramesInv'
  <2>1. CASE count = 0
    <3>1. /\ Len(frames') = Len(frames) + 1 /\ Len(frames) \in Nat
          /\ \A i \in 1 .. Len(frames) : frames'[i] = frames[i]
          /\ frames'[Len(frames) + 1] = [chunk |-> p, word |-> p]
          /\ frames' # <<>>
      <4>1. [chunk |-> p, word |-> p] \in Frame
        BY <1>3 DEF Frame, Addr
      <4> QED
        BY <1>2, <1>3, <2>1, <4>1, Pushed
    <3>2. \A i \in 1 .. Len(frames) : frames[i].chunk # p
      BY <1>3 DEF RCBase, FramesInv
    <3>3. ASSUME NEW i \in 1 .. Len(frames')
          PROVE  /\ frames'[i].chunk \in live /\ mark'[frames'[i].chunk] = 0
                 /\ frames'[i].chunk <= frames'[i].word
                 /\ frames'[i].word <= frames'[i].chunk + size[frames'[i].chunk]
                 /\ i < Len(frames') =>
                      frames'[i].word < frames'[i].chunk + size[frames'[i].chunk]
      <4>1. CASE i = Len(frames) + 1
        BY <1>2, <1>3, <2>1, <3>1, <4>1
      <4>2. CASE i \in 1 .. Len(frames)
        <5>1. pc = "chunkMem" /\ frames'[i] = frames[i]
          BY <3>1, <4>2 DEF RCBase, FramesInv
        <5>2. /\ frames[i].chunk \in live /\ mark[frames[i].chunk] = 0
              /\ frames[i].chunk <= frames[i].word
              /\ frames[i].word <= frames[i].chunk + size[frames[i].chunk]
              /\ frames[i].word < frames[i].chunk + size[frames[i].chunk]
          BY <4>2, <5>1 DEF RCBase, FramesInv
        <5>3. mark'[frames[i].chunk] = 0
          BY <1>2, <1>3, <2>1, <5>2
        <5> QED
          BY <1>2, <5>1, <5>2, <5>3
      <4> QED
        BY <3>1, <4>1, <4>2
    <3>4. \A i, j \in 1 .. Len(frames') : frames'[i].chunk = frames'[j].chunk => i = j
      <4>1. \A i, j \in 1 .. Len(frames) : frames[i].chunk = frames[j].chunk => i = j
        BY DEF RCBase, FramesInv
      <4>2. \A i \in 1 .. Len(frames') : i \in 1 .. Len(frames) \/ i = Len(frames) + 1
        BY <3>1
      <4> QED
        BY <3>1, <3>2, <4>1, <4>2
    <3> QED
      BY <1>2, <2>1, <3>1, <3>3, <3>4 DEF FramesInv
  <2>2. CASE count # 0
    BY <1>2, <2>2 DEF RCBase, FramesInv
  <2> QED
    BY <2>1, <2>2
<1> QED
  BY <1>5, <1>6, <1>7, <1>8 DEF RCBase

\* The other steps of release only move the cursors and return.
LEMMA ScanBase == RCBase /\ (ScanWord \/ ScanDone \/ MemNext \/ MemDone) => RCBase'
<1> SUFFICES ASSUME RCBase, ScanWord \/ ScanDone \/ MemNext \/ MemDone PROVE RCBase'
  OBVIOUS
<1>1. /\ UNCHANGED <<list, chunk, bytes, object, todo, program>>
      /\ pc \in {"scan", "chunkMem", "resume"} /\ frames # <<>>
  BY DEF ScanWord, ScanDone, MemNext, MemDone, RCBase, FramesInv
<1>2. /\ mark \in [Addr -> {0, 1}] /\ live \subseteq Addr /\ first \in live /\ todo = <<>>
      /\ bytes \in Requests /\ object \in Ptr
      /\ frames \in Seq(Frame) /\ Len(frames) \in Nat \ {0}
      /\ Top \in Frame /\ Top = frames[Len(frames)]
      /\ Top.chunk \in live /\ Top.chunk \in Int /\ size[Top.chunk] \in Int /\ Top.word \in Int
  <2>1. frames \in Seq(Frame) /\ Len(frames) \in Nat \ {0}
    BY <1>1 DEF RCBase, RCTyped
  <2>2. Top \in Frame /\ Top = frames[Len(frames)]
    BY <2>1 DEF Top
  <2>3. Top.chunk \in Addr /\ Top.chunk \in Int /\ Top.word \in Int
    BY <2>2 DEF Frame, Addr
  <2>4. Top.chunk \in live
    BY <2>1, <2>2 DEF RCBase, FramesInv
  <2> QED
    BY <1>1, <2>1, <2>2, <2>3, <2>4 DEF RCBase, IInv, Typed, Closure
<1>3. /\ cur' \in live \union {NULL}
      /\ pc' \in {"scan", "chunkMem", "resume", "client"}
      /\ pc' \in {"scan", "resume"} => cur' \in live
  <2>1. CASE ScanWord \/ MemDone
    BY <1>2, <2>1 DEF ScanWord, MemDone
  <2>2. CASE MemNext
    BY <1>1, <1>2, <2>2 DEF MemNext, RCBase, IInv, Closure, FramesInv
  <2>3. CASE ScanDone
    BY <1>1, <1>2, <2>3 DEF ScanDone, Resume, RCBase, FramesInv
  <2> QED
    BY <2>1, <2>2, <2>3
<1>4. IInv' /\ ListInv'
  <2>1. UNCHANGED <<list, live, next, prev, size, mark, bytes, object, todo>>
    BY <1>1 DEF chunk
  <2> QED
    BY <1>2, <1>3, <2>1, MoveInv, ListKept DEF RCBase
<1>5. CASE ScanWord \/ MemNext
  <2>1. frames' = frames /\ pc' = "chunkMem"
    BY <1>5 DEF ScanWord, MemNext
  <2>2. RCTyped'
    BY <1>1, <2>1 DEF RCBase, RCTyped, chunk, program
  <2>3. frames[Len(frames)].word < frames[Len(frames)].chunk + size[frames[Len(frames)].chunk]
    BY <1>2, <1>5 DEF ScanWord, MemNext, Words, Top, RCBase, FramesInv
  <2>4. FramesInv'
    BY <1>1, <1>2, <2>1, <2>3 DEF RCBase, FramesInv, chunk
  <2> QED
    BY <1>4, <2>2, <2>4 DEF RCBase
<1>6. CASE ScanDone
  <2>1. frames' = SubSeq(frames, 1, Len(frames) - 1)
        /\ pc' = IF frames' = <<>> THEN "client" ELSE "resume"
    BY <1>6 DEF ScanDone, Pop, Resume
  <2>2. /\ frames' \in Seq(Frame)
        /\ Len(frames') = Len(frames) - 1 /\ (frames' = <<>> <=> Len(frames') = 0)
        /\ \A i \in 1 .. Len(frames') : frames'[i] = frames[i]
    <3>1. frames \in Seq(Frame) /\ frames # <<>>
      BY <1>1, <1>2
    <3>2. frames' = SubSeq(frames, 1, Len(frames) - 1)
      BY <2>1
    <3>3. PICK s, t : s = frames /\ t = frames'
      OBVIOUS
    <3>4. s \in Seq(Frame) /\ s # <<>> /\ t = SubSeq(s, 1, Len(s) - 1)
      BY <3>1, <3>2, <3>3
    <3>5. /\ t \in Seq(Frame) /\ Len(t) = Len(s) - 1
          /\ \A i \in 1 .. Len(t) : t[i] = s[i]
      BY <3>4, Popped
    <3>6. t = <<>> <=> Len(t) = 0
      BY <3>5, EmptyIff
    <3> QED
      BY <3>3, <3>5, <3>6
  <2>3. RCTyped'
    BY <1>1, <1>3, <2>1, <2>2 DEF RCBase, RCTyped, chunk, program
  <2>4. FramesInv'
    <3>1. \A i \in 1 .. Len(frames') : i \in 1 .. Len(frames) /\ i < Len(frames)
      BY <1>2, <2>2
    <3>2. UNCHANGED <<live, mark, size>>
      BY <1>1 DEF chunk
    <3>3. frames' = <<>> <=> pc' \notin {"scan", "chunkMem", "resume"}
      BY <2>1
    <3>4. pc' \in {"scan", "resume"} => cur' \in live'
      BY <1>3, <3>2
    <3>5. ASSUME NEW i \in 1 .. Len(frames')
          PROVE  /\ frames'[i].chunk \in live' /\ mark'[frames'[i].chunk] = 0
                 /\ frames'[i].chunk <= frames'[i].word
                 /\ frames'[i].word <= frames'[i].chunk + size'[frames'[i].chunk]
                 /\ frames'[i].word < frames'[i].chunk + size'[frames'[i].chunk]
      <4>1. i \in 1 .. Len(frames) /\ i < Len(frames) /\ frames'[i] = frames[i]
        BY <2>2, <3>1
      <4>2. /\ frames[i].chunk \in live /\ mark[frames[i].chunk] = 0
            /\ frames[i].chunk <= frames[i].word
            /\ frames[i].word <= frames[i].chunk + size[frames[i].chunk]
            /\ frames[i].word < frames[i].chunk + size[frames[i].chunk]
        BY <4>1 DEF RCBase, FramesInv
      <4> QED
        BY <3>2, <4>1, <4>2
    <3>6. \A i, j \in 1 .. Len(frames') : frames'[i].chunk = frames'[j].chunk => i = j
      BY <2>2, <3>1 DEF RCBase, FramesInv
    <3> QED
      BY <3>3, <3>4, <3>5, <3>6 DEF FramesInv
  <2> QED
    BY <1>4, <2>3, <2>4 DEF RCBase
<1>7. CASE MemDone
  <2>1. frames' = [frames EXCEPT ![Len(frames)].word = Top.word + 1] /\ pc' = "scan"
    BY <1>7 DEF MemDone, NextWord, Top
  <2>2. Top.word < Top.chunk + size[Top.chunk] /\ Top.chunk <= Top.word
    BY <1>2, <1>7 DEF MemDone, Top, RCBase, FramesInv
  <2>3. Top.word + 1 \in 0 .. MemSize /\ [Top EXCEPT !.word = Top.word + 1] \in Frame
    <3>1. Top.chunk + size[Top.chunk] <= MemSize
      <4>1. \A x \in live : x <= MemSize
        BY <1>2 DEF Addr
      <4>2. Top.chunk + size[Top.chunk] = MemSize \/ Top.chunk + size[Top.chunk] \in live
        BY <1>2 DEF RCBase, IInv, Tiling
      <4> QED
        BY <4>1, <4>2
    <3>2. Top.word + 1 \in 0 .. MemSize
      BY <1>2, <2>2, <3>1 DEF Frame
    <3> QED
      BY <1>2, <3>2 DEF Frame
  <2>4. /\ frames' \in Seq(Frame) /\ Len(frames') = Len(frames)
        /\ \A i \in 1 .. Len(frames) : i # Len(frames) => frames'[i] = frames[i]
        /\ frames'[Len(frames)].chunk = Top.chunk
        /\ frames'[Len(frames)].word = Top.word + 1
    BY <1>2, <2>1, <2>3 DEF Top
  <2>5. RCTyped'
    BY <1>1, <2>1, <2>4 DEF RCBase, RCTyped, chunk, program
  <2>6. FramesInv'
    <3>1. UNCHANGED <<live, mark, size>>
      BY <1>1 DEF chunk
    <3>2. frames' # <<>> /\ pc' = "scan" /\ cur' \in live'
      BY <1>2, <1>3, <2>1, <2>4, <3>1
    <3>3. \A i \in 1 .. Len(frames') : frames'[i].chunk = frames[i].chunk
      BY <1>2, <2>4
    <3>4. ASSUME NEW i \in 1 .. Len(frames')
          PROVE  /\ frames'[i].chunk \in live' /\ mark'[frames'[i].chunk] = 0
                 /\ frames'[i].chunk <= frames'[i].word
                 /\ frames'[i].word <= frames'[i].chunk + size'[frames'[i].chunk]
                 /\ i < Len(frames') =>
                      frames'[i].word < frames'[i].chunk + size'[frames'[i].chunk]
      <4>1. i \in 1 .. Len(frames)
        BY <2>4
      <4>2. CASE i = Len(frames)
        <5>1. frames'[i].chunk = Top.chunk /\ frames'[i].word = Top.word + 1
          BY <2>4, <4>2
        <5>2. Top.chunk \in live /\ mark[Top.chunk] = 0
          BY <1>2, <4>1, <4>2 DEF RCBase, FramesInv
        <5> QED
          BY <1>2, <2>2, <2>4, <3>1, <4>2, <5>1, <5>2
      <4>3. CASE i < Len(frames)
        <5>1. frames'[i] = frames[i]
          BY <2>4, <4>1, <4>3
        <5>2. /\ frames[i].chunk \in live /\ mark[frames[i].chunk] = 0
              /\ frames[i].chunk <= frames[i].word
              /\ frames[i].word <= frames[i].chunk + size[frames[i].chunk]
              /\ frames[i].word < frames[i].chunk + size[frames[i].chunk]
          BY <4>1, <4>3 DEF RCBase, FramesInv
        <5> QED
          BY <3>1, <5>1, <5>2
      <4> QED
        BY <1>2, <4>1, <4>2, <4>3
    <3>5. \A i, j \in 1 .. Len(frames') : frames'[i].chunk = frames'[j].chunk => i = j
      BY <2>4, <3>3 DEF RCBase, FramesInv
    <3> QED
      BY <3>2, <3>4, <3>5 DEF FramesInv
  <2> QED
    BY <1>4, <2>5, <2>6 DEF RCBase
<1> QED
  BY <1>5, <1>6, <1>7

\* A step of the program between calls that only writes data, handles and refcount.
LEMMA ProgramBase ==
    ASSUME RCBase, pc = "client",
           UNCHANGED <<list, live, next, prev, size, mark, call, frames>>,
           refcount' \in [Addr -> 0 .. UintRange - 1],
           data' \in [Addr -> Ptr], handles' \in [Addr -> 0 .. MaxHandles],
           target' \in [Addr -> Ptr]
    PROVE  RCBase'
<1>1. /\ mark \in [Addr -> {0, 1}] /\ bytes \in Requests /\ object \in Ptr
      /\ cur \in live \union {NULL} /\ todo = <<>>
  BY DEF RCBase, IInv, Typed, Closure
<1>2. IInv'
  BY <1>1, MoveInv DEF RCBase, call
<1>3. ListInv'
  BY ListKept DEF RCBase, call
<1>4. RCTyped'
  BY DEF RCBase, RCTyped, call
<1>5. FramesInv'
  BY DEF RCBase, FramesInv, call
<1> QED
  BY <1>2, <1>3, <1>4, <1>5 DEF RCBase

LEMMA RCBaseStep == RCBase /\ [RCNext]_rcVars => RCBase'
<1> SUFFICES ASSUME RCBase, [RCNext]_rcVars PROVE RCBase'
  OBVIOUS
<1> USE DEF RCBase
<1>1. /\ live \subseteq Addr /\ refcount \in [Addr -> 0 .. UintRange - 1]
      /\ data \in [Addr -> Ptr] /\ handles \in [Addr -> 0 .. MaxHandles]
      /\ target \in [Addr -> Ptr]
  BY DEF IInv, Typed, RCTyped
<1>2. CASE Alloc \/ AllocStep
  BY <1>2, AllocBase
<1>3. ASSUME NEW p \in live, Retain(p) PROVE RCBase'
  <2>1. pc = "client" /\ FindAChunk(p) = p /\ p \in Addr
    BY <1>1, <1>3, FindAChunkFinds DEF Retain
  <2>2. /\ refcount' = [refcount EXCEPT ![p] = (refcount[p] + 1) % UintRange]
        /\ handles' = [handles EXCEPT ![p] = handles[p] + 1]
        /\ handles[p] \in 1 .. MaxHandles - 1
        /\ UNCHANGED <<list, live, next, prev, size, mark, call, data, target, frames>>
    BY <1>3, <2>1 DEF Retain
  <2>3. (refcount[p] + 1) % UintRange \in 0 .. UintRange - 1
    BY <1>1, <2>1
  <2>4. /\ refcount' \in [Addr -> 0 .. UintRange - 1]
        /\ handles' \in [Addr -> 0 .. MaxHandles]
    BY <1>1, <2>1, <2>2, <2>3
  <2> QED
    BY <1>1, <2>1, <2>2, <2>4, ProgramBase
<1>4. ASSUME NEW p \in live, Release(p) PROVE RCBase'
  <2>1. handles' = [handles EXCEPT ![p] = handles[p] - 1] /\ handles[p] > 0
    BY <1>4 DEF Release
  <2>2. handles' \in [Addr -> 0 .. MaxHandles]
    BY <1>1, <2>1
  <2> QED
    BY <1>4, <2>2, ReleaseBase DEF Release
<1>5. ASSUME NEW d \in live, NEW c \in live, NEW w \in Words(d), NEW p \in Words(c),
             StorePointer(d, w, c, p)
      PROVE  RCBase'
  <2>1. w \in Addr /\ p \in Addr
    BY WordsOfChunk DEF Words
  <2>2. /\ data' \in [Addr -> Ptr] /\ handles' \in [Addr -> 0 .. MaxHandles]
        /\ target' \in [Addr -> Ptr]
    BY <1>1, <1>5, <2>1 DEF StorePointer, Ptr
  <2> QED
    BY <1>1, <1>5, <2>2, ProgramBase DEF StorePointer, vars, chunk
<1>6. ASSUME NEW d \in live, NEW w \in Words(d), TakePointer(d, w) PROVE RCBase'
  <2>1. /\ data' \in [Addr -> Ptr] /\ handles' \in [Addr -> 0 .. MaxHandles]
        /\ target' \in [Addr -> Ptr]
    <3>1. w \in Addr
      BY WordsOfChunk DEF Words
    <3>2. PICK c \in Addr : c = target[w] /\ handles[c] < MaxHandles
      BY <1>1, <1>6, <3>1 DEF TakePointer, Ptr
    <3>3. handles[c] + 1 \in 0 .. MaxHandles
      BY <1>1, <3>2
    <3>4. /\ handles' = [handles EXCEPT ![c] = handles[c] + 1]
          /\ data' = [data EXCEPT ![w] = NULL] /\ target' = [target EXCEPT ![w] = NULL]
      BY <1>6, <3>2 DEF TakePointer
    <3> QED
      BY <1>1, <3>3, <3>4 DEF Ptr
  <2> QED
    BY <1>1, <1>6, <2>1, ProgramBase DEF TakePointer, vars, chunk
<1>7. CASE ScanWord \/ ScanDone \/ MemNext \/ MemDone
  BY <1>7, ScanBase
<1>8. CASE MemRelease
  <2>1. cur \in live /\ mark[cur] = 1
    BY <1>8 DEF MemRelease, Hit, IInv, Typed, Closure
  <2> QED
    BY <1>1, <1>8, <2>1, ReleaseBase DEF MemRelease
<1>9. CASE UNCHANGED rcVars
  <2>1. UNCHANGED <<list, live, next, prev, size, mark, refcount, call, data, handles, target,
                   frames>>
    BY <1>9 DEF rcVars, vars, program, chunk
  <2>2. /\ mark \in [Addr -> {0, 1}] /\ bytes \in Requests /\ object \in Ptr
        /\ cur \in live \union {NULL}
        /\ pc = "find" => bytes > 0
        /\ pc = "insert" => cur # NULL
        /\ pc # "insert" => todo = <<>>
        /\ pc = "concat" => sort = ADDRESS
    BY DEF IInv, Typed, Closure, AddressLinks
  <2>3. IInv'
    BY <2>1, <2>2, MoveInv DEF call
  <2>4. ListInv'
    <3>1. PICK pos \in [Addr -> Int] : Runs(pos) /\ InOrder(pos) /\ Searched(pos) /\ Placing(pos)
      BY DEF ListInv
    <3>2. /\ Listed' = Listed /\ Waiting' /\ BackLinks'
          /\ Runs(pos)' /\ InOrder(pos)'
      BY <2>1, <3>1, ListUnchanged DEF call
    <3>3. Searched(pos)' /\ Placing(pos)'
      BY <2>1, <3>1, <3>2 DEF Searched, Placing, Fits, Beyond, call, list
    <3> QED
      BY <3>2, <3>3 DEF ListInv
  <2>5. RCTyped' /\ FramesInv'
    BY <2>1 DEF RCTyped, FramesInv, call
  <2> QED
    BY <2>3, <2>4, <2>5
<1> QED
  BY <1>2, <1>3, <1>4, <1>5, <1>6, <1>7, <1>8, <1>9 DEF RCNext, Program, RCCode, ReleaseStep

LEMMA RCBaseInvariance == RCSpec => []RCBase
<1> QED
  BY RCBaseInit, RCBaseStep, PTL DEF RCSpec

\* The ranges of the variables: no count leaves the range of an unsigned int,
\* and the cursor of each call of release stays within the arena or at its end.
THEOREM RCTypeCorrectness == RCSpec => []RCTypeOK
<1>1. RCBase => RCTypeOK
  BY DEF RCBase, RCTyped, RCTypeOK, IInv, Typed, Frame
<1> QED
  BY <1>1, RCBaseInvariance, PTL

\* chunkMem goes on from a chunk that is there, however many calls of release
\* and walks of the list have moved the iterator since it stopped.
THEOREM IteratorInvariant == RCSpec => []IteratorValid
<1>1. RCBase => IteratorValid
  BY DEF RCBase, FramesInv, IteratorValid
<1> QED
  BY <1>1, RCBaseInvariance, PTL
=============================================================================
