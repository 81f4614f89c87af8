-------------------------- MODULE ExactlyOnceQueue --------------------------
(* What the Watch companion promises (docs/adr/0026-watch-companion-        *)
(* boundary.md): every item saved on the Watch is published into the        *)
(* phone's queue at most once, never again after it was consumed, and the   *)
(* Watch keeps its copy until the item has been published.                  *)
CONSTANTS Items

VARIABLES
    item,  \* where each item is
    kept   \* items the Watch still keeps

Init ==
    /\ item = [i \in Items |-> "new"]
    /\ kept = {}

Save(i) ==
    /\ item[i] = "new"
    /\ item' = [item EXCEPT ![i] = "saved"]
    /\ kept' = kept \cup {i}

Publish(i) ==
    /\ item[i] = "saved"
    /\ item' = [item EXCEPT ![i] = "queued"]
    /\ UNCHANGED kept

Consume(i) ==
    /\ item[i] = "queued"
    /\ item' = [item EXCEPT ![i] = "consumed"]
    /\ UNCHANGED kept

Forget(i) ==
    /\ item[i] \in {"queued", "consumed"}
    /\ kept' = kept \ {i}
    /\ UNCHANGED item

Next == \E i \in Items : Save(i) \/ Publish(i) \/ Consume(i) \/ Forget(i)

Spec == Init /\ [][Next]_<<item, kept>>

=============================================================================
