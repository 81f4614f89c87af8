----------------------------- MODULE SyncMerge -----------------------------
(***************************************************************************)
(* How sync decides between two copies of one entity (task, project,       *)
(* section, area or person): the winner computed by mergeEntitiesWithStats *)
(* (packages/core/src/sync.ts), with the revision helpers of               *)
(* sync-revision.ts and the tie-breaker of sync-signatures.ts.             *)
(*                                                                         *)
(* An entity keeps the fields that decide: its revision, who wrote it, the *)
(* times of its last update and of its deletion, and its content, a number *)
(* whose order is the order of the content signatures.  A missing or       *)
(* malformed field is what the code reads it as: revision 0, revBy NoOne,  *)
(* time Invalid.                                                           *)
(***************************************************************************)
EXTENDS Integers

CONSTANTS
    DeleteVsLiveWindow,  \* DELETE_VS_LIVE_AMBIGUOUS_WINDOW_MS
    ClockSkewThreshold,  \* CLOCK_SKEW_THRESHOLD_MS
    MaxSyncRevision,     \* MAX_SYNC_REVISION
    BackupRestore        \* SYNC_BACKUP_RESTORE_REV_BY

ASSUME MergeAssumption ==
    /\ DeleteVsLiveWindow \in Nat
    /\ ClockSkewThreshold \in Nat
    /\ MaxSyncRevision \in Nat
    /\ BackupRestore \in Nat \ {0}

NoOne == 0     \* revBy is missing
Invalid == -1  \* a time that does not parse

Time == Nat \union {Invalid}
Entity == [rev : Nat, revBy : Nat, updated : Time,
           deleted : BOOLEAN, deletedAt : Time, content : Nat]

\* Mutants of NextRevision: no saturation; a write that keeps its revision.
NextRevisionUnbounded(r) == r + 1
NextRevisionKept(r) == r

NextRevision(r) == IF r >= MaxSyncRevision THEN MaxSyncRevision ELSE r + 1

Distance(x, y) == IF x >= y THEN x - y ELSE y - x

(***************************************************************************)
(* Times.  A time too far ahead of the merging device's clock counts as    *)
(* now; two such times are still told apart by their raw values.           *)
(***************************************************************************)
WasClamped(t, now) == t > now + ClockSkewThreshold
SafeTime(t, now) == IF WasClamped(t, now) THEN now ELSE t

Newer(s, t, now) ==
    \/ SafeTime(s, now) > SafeTime(t, now)
    \/ /\ SafeTime(s, now) = SafeTime(t, now)
       /\ WasClamped(s, now)
       /\ WasClamped(t, now)
       /\ s > t

OperationTime(e, now) ==
    LET updated == SafeTime(e.updated, now)
        deleted == SafeTime(e.deletedAt, now)
    IN  IF e.deleted /\ deleted > updated THEN deleted ELSE updated

(***************************************************************************)
(* chooseDeterministicWinner: the larger comparable signature, then the    *)
(* larger full signature.  The comparable signature leaves out rev, revBy  *)
(* and updatedAt, the full one has them.  Both copies are live, or both    *)
(* are deleted.                                                            *)
(***************************************************************************)
SameComparable(a, b) ==
    /\ a.content = b.content
    /\ a.deletedAt = b.deletedAt

ComparableGreater(a, b) ==
    \/ a.content > b.content
    \/ a.content = b.content /\ a.deletedAt > b.deletedAt

FullGreater(a, b) ==
    \/ a.rev > b.rev
    \/ a.rev = b.rev /\ a.revBy > b.revBy
    \/ a.rev = b.rev /\ a.revBy = b.revBy /\ a.updated > b.updated

ChooseDeterministic(local, incoming) ==
    LET localGreater == \/ ComparableGreater(local, incoming)
                        \/ SameComparable(local, incoming) /\ FullGreater(local, incoming)
    IN  IF localGreater THEN local ELSE incoming

(***************************************************************************)
(* The three ways a conflict is decided.                                   *)
(***************************************************************************)
HasRevision(local, incoming) ==
    \/ local.rev > 0
    \/ incoming.rev > 0
    \/ local.revBy # NoOne
    \/ incoming.revBy # NoOne

Live(a, b) == IF a.deleted THEN b ELSE a
Deleted(a, b) == IF a.deleted THEN a ELSE b

\* Mutant of DeleteVsLiveWinner: the tombstone wins an ambiguous tie (the rule
\* before ADR 0007).
DeleteVsLiveTombstone(local, incoming, now) ==
    LET localOp == OperationTime(local, now)
        incomingOp == OperationTime(incoming, now)
    IN  CASE Distance(localOp, incomingOp) =< DeleteVsLiveWindow -> Deleted(local, incoming)
          [] OTHER -> IF incomingOp > localOp THEN incoming ELSE local

\* A backup restore is preferred when it is at least as recent; inside the
\* ambiguous window the revision decides, and at equal revisions the live copy
\* does; outside the window the later operation wins.
DeleteVsLiveWinner(local, incoming, now) ==
    LET live == Live(local, incoming)
        tombstone == Deleted(local, incoming)
        localOp == OperationTime(local, now)
        incomingOp == OperationTime(incoming, now)
        ambiguous == Distance(localOp, incomingOp) =< DeleteVsLiveWindow
    IN  CASE /\ live.revBy = BackupRestore
             /\ OperationTime(live, now) >= OperationTime(tombstone, now) -> live
          [] OTHER ->
             CASE ambiguous /\ local.rev > incoming.rev -> local
               [] ambiguous /\ local.rev < incoming.rev -> incoming
               [] ambiguous /\ local.rev = incoming.rev ->
                      IF HasRevision(local, incoming) THEN live ELSE tombstone
               [] ~ambiguous -> IF incomingOp > localOp THEN incoming ELSE local

\* Mutant of RevisionWinner: a tie goes to the copy already held.
RevisionWinnerLocalTie(local, incoming, now) ==
    CASE local.rev > incoming.rev -> local
      [] local.rev < incoming.rev -> incoming
      [] OTHER -> IF Newer(incoming.updated, local.updated, now) THEN incoming ELSE local

RevisionWinner(local, incoming, now) ==
    CASE local.rev > incoming.rev -> local
      [] local.rev < incoming.rev -> incoming
      [] OTHER ->
         CASE Newer(incoming.updated, local.updated, now) -> incoming
           [] Newer(local.updated, incoming.updated, now) -> local
           [] OTHER ->
              IF /\ local.revBy # incoming.revBy
                 /\ local.revBy # NoOne
                 /\ incoming.revBy # NoOne
              THEN IF incoming.revBy > local.revBy THEN incoming ELSE local
              ELSE ChooseDeterministic(local, incoming)

\* Entities of clients that stamp no revisions.
TimestampWinner(local, incoming, now) ==
    LET localNewer == Newer(local.updated, incoming.updated, now)
        incomingNewer == Newer(incoming.updated, local.updated, now)
        strict == \/ local.updated = Invalid
                  \/ incoming.updated = Invalid
                  \/ WasClamped(local.updated, now)
                  \/ WasClamped(incoming.updated, now)
        withinSkew == Distance(SafeTime(local.updated, now),
                               SafeTime(incoming.updated, now)) =< ClockSkewThreshold
    IN  IF (strict \/ ~withinSkew) /\ (localNewer \/ incomingNewer)
        THEN IF incomingNewer THEN incoming ELSE local
        ELSE ChooseDeterministic(local, incoming)

Winner(local, incoming, now) ==
    IF local.deleted # incoming.deleted
    THEN DeleteVsLiveWinner(local, incoming, now)
    ELSE IF HasRevision(local, incoming)
         THEN RevisionWinner(local, incoming, now)
         ELSE TimestampWinner(local, incoming, now)
=============================================================================
