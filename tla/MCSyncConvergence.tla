------------------------- MODULE MCSyncConvergence -------------------------
(* Instances of SyncConvergence for TLC: two and three devices, with clocks *)
(* that agree and with one clock ahead.                                     *)
EXTENDS SyncConvergence, TLC

Two == {1, 2}
Three == {1, 2, 3}

OnTime == [d \in Device |-> 0]
FirstAhead == [d \in Device |-> IF d = 1 THEN 2 ELSE 0]

OneEach == [d \in Device |-> 1]
TwoEach == [d \in Device |-> 2]
NoneEach == [d \in Device |-> 0]
=============================================================================
