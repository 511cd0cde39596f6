------------------------------ MODULE MCRwLock ------------------------------
(* Instances of RwLockStrategy for TLC.                                      *)
EXTENDS RwLockCell, TLC

CONSTANTS r, w

AllTypes == RefCntTypes

AllKinds ==
    [t \in Threads |->
        IF t = r THEN {"load", "cas", "drop_t", "upgrade"}
        ELSE {"store", "swap", "cas", "drop", "into_inner", "new", "new_arc", "drop_arc"}]
OneAgainstTwo == [t \in Threads |-> IF t = r THEN 1 ELSE 2]
=============================================================================
