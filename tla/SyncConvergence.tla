-------------------------- MODULE SyncConvergence --------------------------
(***************************************************************************)
(* Several devices that edit, delete and restore one task offline and      *)
(* bring it to the others through one shared document.  A sync cycle is a  *)
(* single step here: the remote mutation fence keeps other devices out     *)
(* from the read to the write (SyncCycle opens the cycle up).  What        *)
(* remains is whether the winner SyncMerge chooses makes the devices agree.*)
(***************************************************************************)
EXTENDS SyncMerge

CONSTANTS
    Device,   \* the devices; their order is the order of the device ids
    Ahead,    \* how far each device's clock is ahead of the true time
    Edits,    \* bound: the edits each device makes
    Removals, \* bound: the deletions and restorations each device makes
    MaxTime   \* bound: the true time stops here

ASSUME DeviceAssumption ==
    /\ Device \subseteq Nat \ {NoOne, BackupRestore}
    /\ Ahead \in [Device -> Nat]
    /\ Edits \in [Device -> Nat]
    /\ Removals \in [Device -> Nat]
    /\ MaxTime \in Nat
    /\ MaxSyncRevision > 0

VARIABLES
    clock,  \* the true time
    local,  \* the copy of the task each device holds
    remote, \* the copy in the shared document
    base,   \* the shared copy each device last synced with
    budget  \* the edits and removals each device may still make

vars == <<clock, local, remote, base, budget>>

Budget == [edits : Nat, removals : Nat]

\* A task created before the behaviour starts and known to every device.
Created == [rev |-> 1, revBy |-> NoOne, updated |-> 0,
            deleted |-> FALSE, deletedAt |-> Invalid, content |-> 0]

TypeOK ==
    /\ clock \in 0..MaxTime
    /\ local \in [Device -> Entity]
    /\ \A d \in Device : local[d].rev =< MaxSyncRevision
    /\ remote \in Entity
    /\ base \in [Device -> Entity]
    /\ budget \in [Device -> Budget]

Init ==
    /\ clock = 0
    /\ local = [d \in Device |-> Created]
    /\ remote = Created
    /\ base = [d \in Device |-> Created]
    /\ budget = [d \in Device |-> [edits |-> Edits[d], removals |-> Removals[d]]]

Now(d) == clock + Ahead[d]

\* mutateTasks: every local write stamps the time, the device and the next
\* revision on top of what the operation itself changes.
Stamp(e, d) == [e EXCEPT !.rev = NextRevision(@), !.revBy = d, !.updated = Now(d)]

Edit(d) ==
    /\ budget[d].edits > 0
    /\ ~local[d].deleted
    /\ local' = [local EXCEPT ![d] = Stamp([@ EXCEPT !.content = d], d)]
    /\ budget' = [budget EXCEPT ![d].edits = @ - 1]
    /\ UNCHANGED <<clock, remote, base>>

Delete(d) ==
    /\ budget[d].removals > 0
    /\ ~local[d].deleted
    /\ local' = [local EXCEPT ![d] =
                    Stamp([@ EXCEPT !.deleted = TRUE, !.deletedAt = Now(d)], d)]
    /\ budget' = [budget EXCEPT ![d].removals = @ - 1]
    /\ UNCHANGED <<clock, remote, base>>

Restore(d) ==
    /\ budget[d].removals > 0
    /\ local[d].deleted
    /\ local' = [local EXCEPT ![d] =
                    Stamp([@ EXCEPT !.deleted = FALSE, !.deletedAt = Invalid], d)]
    /\ budget' = [budget EXCEPT ![d].removals = @ - 1]
    /\ UNCHANGED <<clock, remote, base>>

Sync(d) ==
    LET merged == Winner(local[d], remote, Now(d))
    IN  /\ local' = [local EXCEPT ![d] = merged]
        /\ remote' = merged
        /\ base' = [base EXCEPT ![d] = merged]
        /\ UNCHANGED <<clock, budget>>

Tick ==
    /\ clock < MaxTime
    /\ clock' = clock + 1
    /\ UNCHANGED <<local, remote, base, budget>>

Next ==
    \/ \E d \in Device : Edit(d) \/ Delete(d) \/ Restore(d) \/ Sync(d)
    \/ Tick

Spec == Init /\ [][Next]_vars

\* Every device keeps syncing: the auto-sync timers of each app rearm for as
\* long as the app runs.
FairSpec == Spec /\ \A d \in Device : WF_vars(Sync(d))

-----------------------------------------------------------------------------
(***************************************************************************)
(* Properties.                                                             *)
(***************************************************************************)

\* Once the edits are over every device comes to hold the same copy, the one
\* in the shared document, and keeps it: the merge rules of
\* mergeEntitiesWithStats do not let the devices overwrite each other forever.
Converges == <>[](\A d \in Device : local[d] = remote)

\* When nobody else has written since a device's last sync, the merge keeps the
\* device's own copy: whatever edits, deletions and restorations it made, they
\* all move the task forward.  The fast path tryArmLocalOnlyUploadFastPath
\* uploads without merging on the strength of this.
LocalWritesMoveForward ==
    [][\A d \in Device :
          base[d] = remote /\ budget' = budget => local'[d] = local[d]]_vars

\* The assumptions under which LocalWritesMoveForward is proved: all clocks show
\* the true time, and no revision has reached its maximum.
ClocksAgree == \A d \in Device : Ahead[d] = 0
RevisionsUnsaturated == \A d \in Device : local[d].rev < MaxSyncRevision

\* The copies a device may hold over the shared copy it last synced with: that
\* copy itself, or one with more revisions and no earlier operation time.
MovedForward(e, b) ==
    \/ e = b
    \/ /\ e.rev > b.rev
       /\ OperationTime(e, clock) >= OperationTime(b, clock)

\* No time is in the future and nobody restored a backup.
Timely(e) ==
    /\ e.updated =< clock
    /\ e.deletedAt =< clock
    /\ e.revBy # BackupRestore

ForwardInv ==
    /\ \A d \in Device : Timely(local[d]) /\ Timely(base[d]) /\ MovedForward(local[d], base[d])
    /\ Timely(remote)

\* The order of the two copies does not matter: whichever of two devices
\* merges the other's copy, the same copy wins.
MergeSymmetric ==
    \A d, e \in Device :
        Winner(local[d], local[e], clock) = Winner(local[e], local[d], clock)

\* A tombstone reaches a device that has an unsynced live edit only if the
\* deletion is the later operation by more than the ambiguous window or has
\* seen more revisions: near-simultaneous deletions never discard a live edit.
LiveEditSurvives ==
    [][\A d \in Device :
          /\ ~local[d].deleted
          /\ local'[d].deleted
          /\ local'[d].revBy # d
          => \/ local'[d].rev > local[d].rev
             \/ OperationTime(local'[d], Now(d)) > local[d].updated + DeleteVsLiveWindow]_vars

\* The assumption under which LiveEditSurvives is proved: no two clocks are
\* further apart than CLOCK_SKEW_THRESHOLD_MS.  A device whose own clock lags
\* by more than that counts the last edit it received as made now, and the
\* tombstone is measured against that time instead of the edit's.
ClocksWithinSkew == \A d, e \in Device : Ahead[d] =< Ahead[e] + ClockSkewThreshold

\* A copy that no device takes to come from the future, with a revision.
Credible(e) ==
    /\ e.rev > 0
    /\ \A d \in Device : e.updated =< Now(d) + ClockSkewThreshold

CredibleInv == Credible(remote) /\ \A d \in Device : Credible(local[d])
=============================================================================
