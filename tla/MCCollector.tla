---------------------------- MODULE MCCollector -----------------------------
(***************************************************************************)
(* Small instances of Collector for TLC.                                   *)
(***************************************************************************)
EXTENDS Collector

Sizes     == {1, 2}
TwoStyles == {ASCENDING_SIZE, ADDRESS}
ByAddress == {ADDRESS}
OneWord   == {1}
None      == {}
=============================================================================
