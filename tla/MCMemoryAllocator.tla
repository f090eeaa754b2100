------------------------- MODULE MCMemoryAllocator --------------------------
(***************************************************************************)
(* Small instances of MemoryAllocator for TLC.                             *)
(***************************************************************************)
EXTENDS MemoryAllocator

AllStyles == {ASCENDING_SIZE, DESCENDING_SIZE, ADDRESS}
Ascending == {ASCENDING_SIZE}
ByAddress == {ADDRESS}
=============================================================================
