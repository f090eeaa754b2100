----------------------------- MODULE MCManagers -----------------------------
(***************************************************************************)
(* Small instances of Managers for TLC.                                    *)
(***************************************************************************)
EXTENDS Managers

Sizes     == {1, 2}
OneWord   == {1}
ByHand    == {MANUAL, REFCOUNT}
Both      == {GCD + REFCOUNT}
TwoStyles == {DESCENDING_SIZE, ADDRESS}
ByAddress == {ADDRESS}
None      == {}
=============================================================================
