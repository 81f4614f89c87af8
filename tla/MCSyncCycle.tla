---------------------------- MODULE MCSyncCycle ----------------------------
(* Instances of SyncCycle for TLC: two devices on either kind of backend.   *)
EXTENDS SyncCycle, TLC

Two == {1, 2}
NoneEach == [d \in Device |-> 0]
OneEach == [d \in Device |-> 1]
\* The first device edits twice.
TwoAndOne == [d \in Device |-> IF d = 1 THEN 2 ELSE 1]
\* Only the first, or only the second device acts.
FirstOnly == [d \in Device |-> IF d = 1 THEN 1 ELSE 0]
SecondOnly == [d \in Device |-> IF d = 2 THEN 1 ELSE 0]
=============================================================================
