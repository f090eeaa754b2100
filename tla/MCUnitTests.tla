---------------------------- MODULE MCUnitTests -----------------------------
(***************************************************************************)
(* All the tests of TestScripts, for TLC.                                  *)
(***************************************************************************)
EXTENDS UnitTests

AllTests == [
    testALLOC_ASCENDING_SIZE |-> testALLOC_ASCENDING_SIZE,
    testALLOC_DESCENDING_SIZE |-> testALLOC_DESCENDING_SIZE,
    testALLOC_ADDRESS |-> testALLOC_ADDRESS,
    testRC_ASCENDING |-> testRC_ASCENDING,
    testRC_DESCENDING |-> testRC_DESCENDING,
    testRC_ADDRESS |-> testRC_ADDRESS,
    testRC_GC_ASCENDING |-> testRC_GC_ASCENDING,
    testRC_GC_DESCENDING |-> testRC_GC_DESCENDING,
    testRC_GC_ADDRESS |-> testRC_GC_ADDRESS,
    testCOLLECT_ASCENDING_GC_ONE |-> testCOLLECT_ASCENDING_GC_ONE,
    testCOLLECT_ADDRESS_GC_ONE |-> testCOLLECT_ADDRESS_GC_ONE,
    testCOLLECT_DESCENDING_GC_ONE |-> testCOLLECT_DESCENDING_GC_ONE,
    testCOLLECT_ASCENDING_GC_RC_ONE |-> testCOLLECT_ASCENDING_GC_RC_ONE,
    testCOLLECT_ADDRESS_GC_RC_ONE |-> testCOLLECT_ADDRESS_GC_RC_ONE,
    testCOLLECT_DESCENDING_GC_RC_ONE |-> testCOLLECT_DESCENDING_GC_RC_ONE,
    testCOLLECT_ASCENDING_GC_TWO |-> testCOLLECT_ASCENDING_GC_TWO,
    testCOLLECT_ADDRESS_GC_TWO |-> testCOLLECT_ADDRESS_GC_TWO,
    testCOLLECT_DESCENDING_GC_TWO |-> testCOLLECT_DESCENDING_GC_TWO,
    testCOLLECT_ASCENDING_GC_RC_TWO |-> testCOLLECT_ASCENDING_GC_RC_TWO,
    testCOLLECT_ADDRESS_GC_RC_TWO |-> testCOLLECT_ADDRESS_GC_RC_TWO,
    testCOLLECT_DESCENDING_GC_RC_TWO |-> testCOLLECT_DESCENDING_GC_RC_TWO,
    testCOLLECT_ASCENDING_GC_LOTS |-> testCOLLECT_ASCENDING_GC_LOTS,
    testCOLLECT_DESCENDING_GC_LOTS |-> testCOLLECT_DESCENDING_GC_LOTS,
    testCOLLECT_ASCENDING_GC_RC_LOTS |-> testCOLLECT_ASCENDING_GC_RC_LOTS,
    testCOLLECT_DESCENDING_GC_RC_LOTS |-> testCOLLECT_DESCENDING_GC_RC_LOTS,
    testCOLLECT_ADDRESS_GC_LOTS |-> testCOLLECT_ADDRESS_GC_LOTS,
    testCOLLECT_ADDRESS_GC_RC_LOTS |-> testCOLLECT_ADDRESS_GC_RC_LOTS,
    testALLOCCHAR |-> testALLOCCHAR,
    testALLOCCHAR_invalid |-> testALLOCCHAR_invalid,
    testALLOCCHAR_mixed |-> testALLOCCHAR_mixed,
    demoManual |-> demoManual,
    demoGC |-> demoGC,
    demoRefcount |-> demoRefcount]

AllStyles == {ASCENDING_SIZE, DESCENDING_SIZE, ADDRESS}
AllKinds  == {MANUAL, REFCOUNT, GCD, GCD + REFCOUNT}
Sizes     == 1 .. MemSize
None      == {}
=============================================================================
