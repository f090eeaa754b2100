----------------------------- MODULE MCRefCount -----------------------------
(***************************************************************************)
(* Small instances of RefCount for TLC.                                    *)
(***************************************************************************)
EXTENDS RefCount

Sizes     == {1, 2}
AllStyles == {ASCENDING_SIZE, DESCENDING_SIZE, ADDRESS}
ByAddress == {ADDRESS}
=============================================================================
