--------------------------- MODULE MutationWindows ---------------------------
(* What the remote mutation fence promises its callers, without records,     *)
(* versions or heartbeats: after a successful assertHeld(h) the caller has a *)
(* window of h in which it may send one mutation, and windows of different   *)
(* leases never overlap.                                                     *)
EXTENDS Naturals

CONSTANT Lease

VARIABLES now,      \* server time
          windows   \* the windows granted and not yet given back

Window == [lease : Lease, until : Nat]

Open(w) == now <= w.until

Init == now \in Nat /\ windows = {}

\* Time passes; a window that has ended may be forgotten.
Tick == now' = now + 1 /\ windows' \in SUBSET windows

\* A window opens only while no other lease has an open one.
Grant ==
  /\ \E w \in windows' :
       /\ w \in Window
       /\ \A v \in windows : Open(v) => v.lease = w.lease
       /\ windows' = windows \cup {w}
  /\ UNCHANGED now

\* Windows are given back: the mutation was answered or the lease released.
Close == windows' \in SUBSET windows /\ UNCHANGED now

Next == Tick \/ Grant \/ Close

Spec == Init /\ [][Next]_<<now, windows>>

\* Two open windows belong to one lease: no two clients mutate the remote at
\* the same time.
Exclusive == \A v, w \in windows : Open(v) /\ Open(w) => v.lease = w.lease
==============================================================================
