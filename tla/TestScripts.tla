---------------------------- MODULE TestScripts -----------------------------
(***************************************************************************)
(* The unit tests (src/kod/unittests.c) and the demo program               *)
(* (src/kod/projektredo.c) as data: the manager a test creates, and a      *)
(* script of the calls it makes and of what it asserts in between.  Module *)
(* UnitTests says what the entries of a script mean:                       *)
(*   alloc x n, free x, retain x, release x, collect     calls of a table, *)
(*   format x f                                          gc.alloc,         *)
(*   drop                       what was allocated as "_" is not kept,     *)
(*   hold k                     a variable is set to the data of chunk k,  *)
(*   point x y                  the address y is stored at x,              *)
(*   mark k                     chunk k is marked as used by the test,     *)
(* and the assertions avail, chunk, size, data, order, count, ...          *)
(* A chunk k is counted from list->first along next, from 0, or, if k < 0, *)
(* from list->last along prev, from -1.                                    *)
(*                                                                         *)
(* The unit of memory is the test's own: kilobytes, 4 or 128 of them where *)
(* the words of a block are scanned, or bytes.                             *)
(***************************************************************************)
EXTENDS Managers

LOCAL INSTANCE SequencesExt

Times(n, s) == FlattenSeq([i \in 1 .. n |-> s])

Test(memsiz, flag, order, script) ==
    [memsiz |-> memsiz, kind |-> flag, sort |-> order, script |-> script]

----------------------------------------------------------------------------
(* alloc, free and avail, in kilobytes. *)

Mb == 1024

testALLOC_ASCENDING_SIZE == Test(2 * Mb, MANUAL, ASCENDING_SIZE, <<
    <<"avail", 2 * Mb>>,
    <<"alloc", "a", 1536>>, <<"avail", 512>>,
    <<"chunk", 0, 0, 512>>, <<"chunk", 1, 1, 1536>>,
    <<"data", -1, "a">>, <<"chunk", -1, 1, 1536>>, <<"order", 0, -1>>,
    <<"alloc", "b", 256>>, <<"avail", 256>>,
    <<"chunk", 0, 0, 256>>, <<"data", 1, "b">>, <<"chunk", 1, 1, 256>>, <<"order", 0, 1>>,
    <<"alloc", "c", 256>>,
    <<"chunk", 0, 1, 256>>, <<"chunk", 1, 1, 256>>, <<"data", 0, "c">>, <<"avail", 0>>,
    <<"alloc", "d", 1>>, <<"null", "d">>, <<"avail", 0>>,
    <<"chunk", 0, 1, 256>>, <<"chunk", 1, 1, 256>>,
    <<"free", "b">>, <<"avail", 256>>,
    <<"alloc", "e", 128>>, <<"avail", 128>>,
    <<"chunk", 1, 1, 128>>, <<"data", 1, "e">>, <<"chunk", 0, 0, 128>>,
    <<"free", "c">>, <<"avail", 384>>, <<"chunk", 2, 0, 256>>,
    <<"alloc", "f", 129>>, <<"avail", 255>>,
    <<"chunk", -2, 1, 129>>, <<"data", -2, "f">>, <<"order", -2, -1>>, <<"order", -3, -2>>,
    <<"free", "a">>, <<"avail", 1791>>, <<"chunk", -1, 0, 1536>>,
    <<"alloc", "g", 550>>, <<"avail", 1241>>,
    <<"chunk", -1, 0, 986>>, <<"chunk", -2, 1, 550>>, <<"data", -2, "g">>,
    <<"order", -2, -1>>, <<"order", -3, -2>>,
    <<"free", "d">>, <<"free", "e">>, <<"free", "f">>, <<"free", "g">>, <<"avail", 2 * Mb>> >>)

testALLOC_DESCENDING_SIZE == Test(2 * Mb, MANUAL, DESCENDING_SIZE, <<
    <<"avail", 2 * Mb>>,
    <<"alloc", "a", 1536>>, <<"chunk", 0, 1, 1536>>, <<"data", 0, "a">>,
    <<"chunk", 1, 0, 512>>, <<"chunk", -1, 0, 512>>, <<"avail", 512>>,
    <<"alloc", "b", 256>>, <<"chunk", -1, 1, 256>>, <<"data", -1, "b">>,
    <<"chunk", -2, 0, 256>>, <<"chunk", 1, 0, 256>>, <<"avail", 256>>, <<"order", -2, -1>>,
    <<"alloc", "c", 256>>, <<"chunk", 1, 1, 256>>, <<"avail", 0>>,
    <<"alloc", "d", 1>>, <<"null", "d">>,
    <<"chunk", 0, 1, 1536>>, <<"chunk", 1, 1, 256>>, <<"chunk", -1, 1, 256>>, <<"avail", 0>>,
    <<"free", "a">>, <<"avail", 1536>>,
    <<"alloc", "e", 100>>, <<"size", 0, 1436>>, <<"chunk", -1, 1, 100>>, <<"data", -1, "e">>,
    <<"order", -1, -2>>, <<"avail", 1436>>,
    <<"free", "c">>, <<"avail", 1692>>,
    <<"alloc", "f", 1436>>, <<"data", 0, "f">>, <<"avail", 256>>,
    <<"alloc", "g", 130>>, <<"data", -3, "g">>, <<"chunk", -3, 1, 130>>, <<"chunk", -2, 0, 126>>,
    <<"order", -3, 0>>, <<"order", -2, -3>>, <<"avail", 126>>,
    <<"free", "g">>, <<"free", "f">>, <<"free", "e">>, <<"free", "b">>, <<"avail", 2 * Mb>> >>)

testALLOC_ADDRESS == Test(2 * Mb, MANUAL, ADDRESS, <<
    <<"avail", 2 * Mb>>,
    <<"alloc", "a", 1536>>, <<"chunk", 0, 1, 1536>>, <<"chunk", -1, 0, 512>>,
    <<"data", 0, "a">>, <<"avail", 512>>,
    <<"free", "a">>, <<"avail", 2 * Mb>>, <<"mark", 0, 0>>, <<"mark", -1, 0>>,
    <<"alloc", "b", Mb>>, <<"avail", Mb>>, <<"chunk", 0, 1, Mb>>, <<"data", 0, "b">>,
    <<"chunk", -1, 0, Mb>>,
    <<"alloc", "c", Mb>>, <<"avail", 0>>, <<"chunk", -1, 1, Mb>>, <<"data", -1, "c">>,
    <<"free", "b">>, <<"avail", Mb>>,
    <<"alloc", "d", 224>>, <<"avail", 800>>, <<"chunk", 0, 1, 224>>, <<"size", 1, 800>>,
    <<"alloc", "e", 800>>, <<"avail", 0>>,
    <<"data", 0, "d">>, <<"data", 1, "e">>, <<"data", -1, "c">>,
    <<"before", 0, 1>>, <<"before", 1, -1>>,
    <<"alloc", "_", 1>>, <<"null", "_">>, <<"avail", 0>>,
    <<"free", "c">>, <<"avail", Mb>>,
    <<"alloc", "f", 512>>, <<"avail", 512>>, <<"chunk", -1, 0, 512>>, <<"chunk", -2, 1, 512>>,
    <<"data", -2, "f">>,
    <<"alloc", "g", 512>>, <<"avail", 0>>,
    <<"free", "f">>, <<"free", "e">>, <<"avail", 1312>>,
    <<"alloc", "h", Mb>>, <<"avail", 288>>, <<"data", -3, "h">>, <<"chunk", -3, 1, Mb>>,
    <<"mark", -2, 0>>,
    <<"free", "c">>, <<"free", "d">>, <<"free", "g">>, <<"free", "h">>, <<"avail", 2 * Mb>> >>)

----------------------------------------------------------------------------
(* Reference counts, in units of 128 kilobytes or, for sizes that are no   *)
(* multiple of that, of 4.                                                 *)

\* A block that is counted, retained and released.
CountedBlock(x, n) ==
    << <<"alloc", x, n>>, <<"count", x, 1>>,
       <<"retain", x>>, <<"count", x, 2>>, <<"release", x>>, <<"count", x, 1>> >>

\* A chain of three blocks, which is released at its head.
Chain(n1, n2, n3) ==
    CountedBlock("a", n1) \o CountedBlock("b", n2) \o << <<"point", "a", "b">> >>
    \o CountedBlock("c", n3) \o << <<"point", "b", "c">> >>
    \o << <<"release", "a">>, <<"count", "a", 0>> >>
    \o [k \in 1 .. 4 |-> <<"mark", k - 1, 0>>]

testRC_ASCENDING     == Test(16, REFCOUNT, ASCENDING_SIZE, Chain(4, 8, 1))
testRC_DESCENDING    == Test(512, REFCOUNT, DESCENDING_SIZE, Chain(256, 125, 32))
testRC_ADDRESS       == Test(16, REFCOUNT, ADDRESS, Chain(1, 8, 2))
testRC_GC_ASCENDING  == Test(16, GCD + REFCOUNT, ASCENDING_SIZE, Chain(4, 8, 1))
testRC_GC_DESCENDING == Test(16, GCD + REFCOUNT, DESCENDING_SIZE, Chain(8, 1, 4))
testRC_GC_ADDRESS    == Test(16, GCD + REFCOUNT, ADDRESS, Chain(1, 8, 2))

----------------------------------------------------------------------------
(* collect, in bytes. *)

Collected(n) == << <<"collect">>, <<"result", n>> >>

\* A mark that only the test has set is cleared; a chunk that a variable
\* refers to is marked.
Found ==
    << <<"setMark", 0>> >> \o Collected(1) \o << <<"mark", 0, 0>>, <<"hold", 0>> >>
    \o Collected(0) \o << <<"mark", 0, 1>> >>

One == << <<"mark", 0, 0>> >> \o Collected(0) \o << <<"mark", 0, 0>> >> \o Found

testCOLLECT_ASCENDING_GC_ONE     == Test(10, GCD, ASCENDING_SIZE, One)
testCOLLECT_ADDRESS_GC_ONE       == Test(10, GCD, ADDRESS, One)
testCOLLECT_DESCENDING_GC_ONE    == Test(10, GCD, DESCENDING_SIZE, One)
testCOLLECT_ASCENDING_GC_RC_ONE  == Test(10, GCD + REFCOUNT, ASCENDING_SIZE, One)
testCOLLECT_ADDRESS_GC_RC_ONE    == Test(10, GCD + REFCOUNT, ADDRESS, One)
testCOLLECT_DESCENDING_GC_RC_ONE == Test(10, GCD + REFCOUNT, DESCENDING_SIZE, One)

Bytes(n) == Times(n, << <<"alloc", "_", 1>>, <<"drop">> >>)

\* first is the mark of the chunk that is first after one alloc.
Two(first_) ==
    Bytes(1) \o << <<"mark", 0, first_>> >> \o Collected(1) \o << <<"mark", 0, 0>> >> \o Found

testCOLLECT_ASCENDING_GC_TWO     == Test(10, GCD, ASCENDING_SIZE, Two(1))
testCOLLECT_ADDRESS_GC_TWO       == Test(10, GCD, ADDRESS, Two(1))
testCOLLECT_DESCENDING_GC_TWO    == Test(10, GCD, DESCENDING_SIZE, Two(0))
testCOLLECT_ASCENDING_GC_RC_TWO  == Test(10, GCD + REFCOUNT, ASCENDING_SIZE, Two(1))
testCOLLECT_ADDRESS_GC_RC_TWO    == Test(1024, GCD + REFCOUNT, ADDRESS, Two(1))
testCOLLECT_DESCENDING_GC_RC_TWO == Test(10, GCD + REFCOUNT, DESCENDING_SIZE, Two(0))

\* The marks of the first n chunks: those of the sequence m.
Marks(n, m) == [k \in 1 .. n |-> <<"mark", k - 1, m[k]>>]

Marked5 == [k \in 1 .. 10 |-> IF k <= 5 THEN 1 ELSE 0]

AllUsed == [k \in 1 .. 10 |-> 1]

AllFree == [k \in 1 .. 10 |-> 0]

HoldFour == [k \in 1 .. 4 |-> <<"hold", k - 1>>]

\* Ten chunks of a byte on a list that collect does not merge.
Lots ==
    LET fifth(m) == << <<"mark", 4, m>> >> IN
    Bytes(10) \o Marks(10, AllUsed) \o Collected(1) \o Marks(10, AllFree)
    \o << <<"setMark", 4>> >> \o Collected(1) \o fifth(0)
    \o << <<"hold", 4>> >> \o Times(2, Collected(0) \o fifth(1))
    \o HoldFour \o Collected(0) \o Marks(10, Marked5)
    \o [k \in 1 .. 10 |-> <<"setMark", k - 1>>] \o Collected(1) \o Marks(10, Marked5)

testCOLLECT_ASCENDING_GC_LOTS     == Test(10, GCD, ASCENDING_SIZE, Lots)
testCOLLECT_DESCENDING_GC_LOTS    == Test(10, GCD, DESCENDING_SIZE, Lots)
testCOLLECT_ASCENDING_GC_RC_LOTS  == Test(10, GCD + REFCOUNT, ASCENDING_SIZE, Lots)
testCOLLECT_DESCENDING_GC_RC_LOTS == Test(10, GCD + REFCOUNT, DESCENDING_SIZE, Lots)

\* The same on a list whose free chunks collect merges.
LotsMerged ==
    LET again == Bytes(10) \o Collected(1) \o << <<"mark", 0, 0>> >> IN
    Bytes(10) \o Marks(10, AllUsed) \o Collected(1) \o << <<"unused">> >>
    \o Bytes(10) \o << <<"setMark", 4>> >> \o Collected(1) \o << <<"only">> >>
    \o Bytes(10) \o << <<"hold", 4>> >> \o Collected(1) \o << <<"mark", 0, 0>> >>
    \o again
    \o Bytes(9) \o HoldFour \o Collected(1) \o Marks(6, Marked5)
    \o [k \in 1 .. 6 |-> <<"setMark", k - 1>>] \o Collected(1) \o Marks(6, Marked5)

testCOLLECT_ADDRESS_GC_LOTS    == Test(10, GCD, ADDRESS, LotsMerged)
testCOLLECT_ADDRESS_GC_RC_LOTS == Test(10, GCD, ADDRESS, LotsMerged)

----------------------------------------------------------------------------
(* gc.alloc, in bytes; the arenas are 1024 times smaller than the test's.  *)
(* The test's three managers are three tests here.                         *)

testALLOCCHAR == Test(2048, GCD, ADDRESS, <<
    <<"format", "a", <<"*", "*", "*", "d">>>>, <<"size", 0, 3 * 8 + 8>>,
    <<"format", "b", <<"i", "i", "c", "f", "f", "d">>>>, <<"size", 1, 2 * 4 + 1 + 2 * 4 + 8>>,
    <<"format", "c", <<"l", "l", "i", "c", "f", "d", "d", "f", "d", "c", "*", "d">>>>,
    <<"size", 2, 2 * 8 + 4 + 2 * 1 + 2 * 4 + 4 * 8 + 8>>,
    <<"free", "a">>, <<"free", "b">>, <<"free", "c">> >>)

testALLOCCHAR_invalid == Test(1024, GCD, ADDRESS, <<
    <<"format", "d", <<"R", "o", "s", "-", "O", "t", "t", "o">>>>, <<"size", 0, 1024>>, <<"only">>,
    <<"format", "e", <<"R", "u", "k", "k", "o", "a">>>>, <<"size", 0, 1024>>, <<"only">>,
    <<"free", "d">>, <<"free", "e">> >>)

testALLOCCHAR_mixed == Test(1024, GCD, ADDRESS, <<
    <<"format", "f", <<"R", "i", "s", "-", "O", "t", "t", "o", "m", "a", "l", "e", "r">>>>,
    <<"size", 0, 4 + 8>>,
    <<"free", "f">> >>)

----------------------------------------------------------------------------
(* The demo program, in bytes: four blocks that are all still there when   *)
(* their values are printed.                                               *)

FourBlocks ==
    LET blocks == <<"a", "b", "c", "d">> IN
    [k \in 1 .. 4 |-> <<"alloc", blocks[k], 10>>]
    \o FlattenSeq([k \in 1 .. 4 |-> << <<"count", blocks[k], 1>>, <<"block", blocks[k], 10>> >>])

demoManual   == Test(1024, MANUAL, ASCENDING_SIZE, FourBlocks)
demoGC       == Test(1024, GCD, ASCENDING_SIZE, FourBlocks)
demoRefcount == Test(1024, REFCOUNT, DESCENDING_SIZE, FourBlocks)
=============================================================================
