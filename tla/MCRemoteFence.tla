---------------------------- MODULE MCRemoteFence ----------------------------
(* Instances of RemoteFence for TLC.                                         *)
EXTENDS RemoteFence, TLC

CONSTANTS c1, c2, l1, l2, l3

\* A record of an older client that advertises no heartbeat, and one whose
\* expiry no conforming client can have written.
PriorRecords ==
  {[lease |-> l1, expiresAt |-> 1, heartbeat |-> 0, renewedAt |-> 0],
   [lease |-> l1, expiresAt |-> 2 * MaxFuture, heartbeat |-> 0, renewedAt |-> 0]}

Symmetry == Permutations({c1, c2}) \cup Permutations({l2, l3})
==============================================================================
