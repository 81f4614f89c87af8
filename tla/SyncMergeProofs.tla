-------------------------- MODULE SyncMergeProofs --------------------------
(***************************************************************************)
(* Theorems about the merge rules of SyncMerge and about the devices of    *)
(* SyncConvergence, for every number of devices and every bound.           *)
(***************************************************************************)
EXTENDS SyncConvergence, TLAPS

\* The tie-breaker chooseDeterministicWinner is symmetric: equal signatures
\* mean equal entities.
LEMMA DeterministicSymmetric ==
    ASSUME NEW a \in Entity, NEW b \in Entity, a.deleted = b.deleted
    PROVE  ChooseDeterministic(a, b) = ChooseDeterministic(b, a)
<1> DEFINE Bigger(x, y) == \/ ComparableGreater(x, y)
                           \/ SameComparable(x, y) /\ FullGreater(x, y)
<1>1. ~(Bigger(a, b) /\ Bigger(b, a))
  BY DEF Entity, Time, Invalid, ComparableGreater, SameComparable, FullGreater
<1>2. Bigger(a, b) \/ Bigger(b, a) \/ a = b
  <2>1. \/ Bigger(a, b)
        \/ Bigger(b, a)
        \/ /\ a.content = b.content /\ a.deletedAt = b.deletedAt
           /\ a.rev = b.rev /\ a.revBy = b.revBy /\ a.updated = b.updated
    BY DEF Entity, Time, Invalid, ComparableGreater, SameComparable, FullGreater
  <2>2. ASSUME a.content = b.content, a.deletedAt = b.deletedAt, a.rev = b.rev,
               a.revBy = b.revBy, a.updated = b.updated
        PROVE  a = b
    BY <2>2 DEF Entity
  <2> QED  BY <2>1, <2>2
<1>3. ChooseDeterministic(a, b) = IF Bigger(a, b) THEN a ELSE b
  BY DEF ChooseDeterministic
<1>4. ChooseDeterministic(b, a) = IF Bigger(b, a) THEN b ELSE a
  BY DEF ChooseDeterministic
<1> HIDE DEF Bigger
<1> QED  BY <1>1, <1>2, <1>3, <1>4

\* At most one of two update times is the newer one.
LEMMA NewerAsymmetric ==
    ASSUME NEW s \in Time, NEW t \in Time, NEW now \in Nat
    PROVE  ~(Newer(s, t, now) /\ Newer(t, s, now))
BY MergeAssumption DEF Newer, SafeTime, WasClamped, Time, Invalid

\* The distance of two times does not depend on their order.
LEMMA DistanceSymmetric ==
    ASSUME NEW x \in Int, NEW y \in Int
    PROVE  /\ Distance(x, y) = Distance(y, x)
           /\ Distance(x, y) \in Nat
           /\ Distance(x, y) = 0 => x = y
BY DEF Distance

\* Every time the merge compares is an integer.
LEMMA OperationTimeType ==
    ASSUME NEW e \in Entity, NEW now \in Nat
    PROVE  /\ OperationTime(e, now) \in Int
           /\ SafeTime(e.updated, now) \in Int
BY MergeAssumption DEF OperationTime, SafeTime, WasClamped, Entity, Time, Invalid

\* Entities that carry revisions: the winner does not depend on the order.
LEMMA RevisionWinnerSymmetric ==
    ASSUME NEW a \in Entity, NEW b \in Entity, NEW now \in Nat, a.deleted = b.deleted
    PROVE  RevisionWinner(a, b, now) = RevisionWinner(b, a, now)
<1> USE DEF RevisionWinner
<1>1. a.rev \in Nat /\ b.rev \in Nat /\ a.updated \in Time /\ b.updated \in Time
      /\ a.revBy \in Nat /\ b.revBy \in Nat
  BY DEF Entity
<1>2. CASE a.rev > b.rev
  BY <1>1, <1>2
<1>3. CASE a.rev < b.rev
  BY <1>1, <1>3
<1>4. CASE a.rev = b.rev
  <2>0. ~(a.rev > b.rev) /\ ~(a.rev < b.rev) /\ ~(b.rev > a.rev) /\ ~(b.rev < a.rev)
    BY <1>1, <1>4
  <2>1. ~(Newer(a.updated, b.updated, now) /\ Newer(b.updated, a.updated, now))
    BY <1>1, NewerAsymmetric
  <2>2. ChooseDeterministic(a, b) = ChooseDeterministic(b, a)
    BY DeterministicSymmetric
  <2>3. CASE Newer(a.updated, b.updated, now)
    BY <2>0, <2>1, <2>3
  <2>4. CASE Newer(b.updated, a.updated, now)
    BY <2>0, <2>1, <2>4
  <2>5. CASE ~Newer(a.updated, b.updated, now) /\ ~Newer(b.updated, a.updated, now)
    <3>1. CASE a.revBy # b.revBy /\ a.revBy # NoOne /\ b.revBy # NoOne
      <4>1. RevisionWinner(a, b, now) = IF b.revBy > a.revBy THEN b ELSE a
        BY <2>0, <2>5, <3>1
      <4>2. RevisionWinner(b, a, now) = IF a.revBy > b.revBy THEN a ELSE b
        BY <2>0, <2>5, <3>1
      <4> QED  BY <4>1, <4>2, <1>1, <3>1
    <3>2. CASE ~(a.revBy # b.revBy /\ a.revBy # NoOne /\ b.revBy # NoOne)
      BY <2>0, <2>2, <2>5, <3>2
    <3> QED  BY <3>1, <3>2
  <2> QED  BY <2>3, <2>4, <2>5
<1> QED  BY <1>1, <1>2, <1>3, <1>4

\* Entities without revisions: the winner does not depend on the order.
LEMMA TimestampWinnerSymmetric ==
    ASSUME NEW a \in Entity, NEW b \in Entity, NEW now \in Nat, a.deleted = b.deleted
    PROVE  TimestampWinner(a, b, now) = TimestampWinner(b, a, now)
<1>1. ~(Newer(a.updated, b.updated, now) /\ Newer(b.updated, a.updated, now))
  BY NewerAsymmetric DEF Entity
<1>2. ChooseDeterministic(a, b) = ChooseDeterministic(b, a)
  BY DeterministicSymmetric
<1>3. Distance(SafeTime(a.updated, now), SafeTime(b.updated, now))
      = Distance(SafeTime(b.updated, now), SafeTime(a.updated, now))
  BY OperationTimeType, DistanceSymmetric
<1> QED  BY <1>1, <1>2, <1>3 DEF TimestampWinner

\* A live copy against a tombstone: the winner does not depend on the order.
LEMMA DeleteVsLiveWinnerSymmetric ==
    ASSUME NEW a \in Entity, NEW b \in Entity, NEW now \in Nat, a.deleted # b.deleted
    PROVE  DeleteVsLiveWinner(a, b, now) = DeleteVsLiveWinner(b, a, now)
<1> DEFINE opA == OperationTime(a, now)
           opB == OperationTime(b, now)
           live == Live(a, b)
           tomb == Deleted(a, b)
           restored == /\ live.revBy = BackupRestore
                       /\ OperationTime(live, now) >= OperationTime(tomb, now)
           near == Distance(opA, opB) =< DeleteVsLiveWindow
<1>1. a.deleted \in BOOLEAN /\ b.deleted \in BOOLEAN /\ a.rev \in Nat /\ b.rev \in Nat
  BY DEF Entity
<1>2. Live(b, a) = live /\ Deleted(b, a) = tomb
  BY <1>1 DEF Live, Deleted
<1>3. opA \in Int /\ opB \in Int
  BY OperationTimeType
<1>4. /\ Distance(opB, opA) = Distance(opA, opB)
      /\ ~near => opA # opB
  BY <1>3, DistanceSymmetric, MergeAssumption DEF Distance
<1>5. HasRevision(a, b) <=> HasRevision(b, a)
  BY DEF HasRevision
<1>6. CASE restored
  BY <1>2, <1>6 DEF DeleteVsLiveWinner
<1>7. CASE ~restored
  <2>1. CASE near /\ a.rev > b.rev
    BY <1>1, <1>2, <1>4, <1>7, <2>1 DEF DeleteVsLiveWinner
  <2>2. CASE near /\ a.rev < b.rev
    BY <1>1, <1>2, <1>4, <1>7, <2>2 DEF DeleteVsLiveWinner
  <2>3. CASE near /\ a.rev = b.rev
    BY <1>1, <1>2, <1>4, <1>5, <1>7, <2>3 DEF DeleteVsLiveWinner
  <2>4. CASE ~near
    <3>1. DeleteVsLiveWinner(a, b, now) = IF opB > opA THEN b ELSE a
      BY <1>1, <1>2, <1>4, <1>7, <2>4 DEF DeleteVsLiveWinner
    <3>2. DeleteVsLiveWinner(b, a, now) = IF opA > opB THEN a ELSE b
      BY <1>1, <1>2, <1>4, <1>7, <2>4 DEF DeleteVsLiveWinner
    <3> QED  BY <3>1, <3>2, <1>3, <1>4, <2>4
  <2> QED  BY <1>1, <2>1, <2>2, <2>3, <2>4
<1> QED  BY <1>6, <1>7

\* Two devices that merge each other's copies at the same time agree: the
\* winner of mergeEntitiesWithStats does not depend on which copy is local.
THEOREM WinnerSymmetric ==
    ASSUME NEW a \in Entity, NEW b \in Entity, NEW now \in Nat
    PROVE  Winner(a, b, now) = Winner(b, a, now)
<1>1. HasRevision(a, b) <=> HasRevision(b, a)
  BY DEF HasRevision
<1>2. CASE a.deleted # b.deleted
  BY <1>2, DeleteVsLiveWinnerSymmetric DEF Winner
<1>3. CASE a.deleted = b.deleted
  BY <1>1, <1>3, RevisionWinnerSymmetric, TimestampWinnerSymmetric DEF Winner
<1> QED  BY <1>2, <1>3

\* The winner is one of the two copies.
LEMMA WinnerIsCandidate ==
    ASSUME NEW a \in Entity, NEW b \in Entity, NEW now \in Nat
    PROVE  Winner(a, b, now) \in {a, b}
<1>1. ChooseDeterministic(a, b) \in {a, b}
  BY DEF ChooseDeterministic
<1>2. RevisionWinner(a, b, now) \in {a, b}
  BY <1>1 DEF RevisionWinner
<1>3. TimestampWinner(a, b, now) \in {a, b}
  BY <1>1 DEF TimestampWinner
<1>4. DeleteVsLiveWinner(a, b, now) \in {a, b}
  <2> DEFINE near == Distance(OperationTime(a, now), OperationTime(b, now)) =< DeleteVsLiveWindow
  <2>1. a.rev \in Nat /\ b.rev \in Nat
    BY DEF Entity
  <2>2. \/ near /\ a.rev > b.rev
        \/ near /\ a.rev < b.rev
        \/ near /\ a.rev = b.rev
        \/ ~near
    BY <2>1
  <2> QED  BY <2>1, <2>2 DEF DeleteVsLiveWinner, Live, Deleted
<1> QED  BY <1>2, <1>3, <1>4 DEF Winner

-----------------------------------------------------------------------------
(***************************************************************************)
(* The devices.                                                            *)
(***************************************************************************)

\* Stamping a copy keeps it an entity, with a revision that is in range.
LEMMA StampType ==
    ASSUME NEW d \in Device, NEW e \in Entity, clock \in Nat
    PROVE  /\ Stamp(e, d) \in Entity
           /\ Stamp(e, d).rev = NextRevision(e.rev)
           /\ NextRevision(e.rev) =< MaxSyncRevision
           /\ Stamp(e, d).updated = Now(d)
           /\ Stamp(e, d).revBy = d
           /\ Stamp(e, d).deleted = e.deleted
           /\ Stamp(e, d).deletedAt = e.deletedAt
           /\ Now(d) \in Nat
<1>1. Now(d) \in Nat
  BY DeviceAssumption DEF Now
<1>2. NextRevision(e.rev) \in Nat /\ NextRevision(e.rev) =< MaxSyncRevision
  BY MergeAssumption DEF NextRevision, Entity
<1>3. d \in Nat /\ Now(d) \in Time
  BY <1>1, DeviceAssumption DEF Time
<1> DEFINE r == NextRevision(e.rev)
           t == Now(d)
<1>4. r \in Nat /\ t \in Time
  BY <1>2, <1>3
<1>5. Stamp(e, d) = [e EXCEPT !.rev = r, !.revBy = d, !.updated = t]
  BY DEF Stamp, Entity
<1> HIDE DEF r, t
<1>6. /\ Stamp(e, d) \in Entity
      /\ Stamp(e, d).rev = r
      /\ Stamp(e, d).updated = t
      /\ Stamp(e, d).revBy = d
      /\ Stamp(e, d).deleted = e.deleted
      /\ Stamp(e, d).deletedAt = e.deletedAt
  BY <1>3, <1>4, <1>5 DEF Entity
<1> QED  BY <1>1, <1>2, <1>6 DEF r, t

\* What each local operation writes is an entity too.
LEMMA OperationType ==
    ASSUME NEW d \in Device, NEW e \in Entity, clock \in Nat
    PROVE  /\ [e EXCEPT !.content = d] \in Entity
           /\ [e EXCEPT !.deleted = TRUE, !.deletedAt = Now(d)] \in Entity
           /\ [e EXCEPT !.deleted = FALSE, !.deletedAt = Invalid] \in Entity
<1>1. Now(d) \in Time /\ Invalid \in Time
  BY DeviceAssumption DEF Now, Time
<1>2. d \in Nat
  BY DeviceAssumption
<1>3. ASSUME NEW t \in Time, NEW f \in BOOLEAN
      PROVE  [e EXCEPT !.deleted = f, !.deletedAt = t] \in Entity
  BY DEF Entity
<1> QED  BY <1>1, <1>2, <1>3 DEF Entity

\* A copy put in the place of a device's own keeps the types.
LEMMA ReplaceType ==
    ASSUME TypeOK, NEW d \in Device, NEW e \in Entity, e.rev =< MaxSyncRevision,
           local' = [local EXCEPT ![d] = e]
    PROVE  /\ local' \in [Device -> Entity]
           /\ \A c \in Device : local'[c].rev =< MaxSyncRevision
<1>1. local \in [Device -> Entity]
  BY DEF TypeOK
<1>2. local' \in [Device -> Entity]
  BY <1>1
<1>3. ASSUME NEW c \in Device PROVE local'[c].rev =< MaxSyncRevision
  <2>1. CASE c = d
    BY <1>1, <2>1
  <2>2. CASE c # d
    BY <1>1, <2>2 DEF TypeOK
  <2> QED  BY <2>1, <2>2
<1> QED  BY <1>2, <1>3

\* Every copy is an entity whose revision has not passed MAX_SYNC_REVISION:
\* nextRevision saturates and the merge only ever picks a copy.
THEOREM TypeCorrect == Spec => []TypeOK
<1> DEFINE RemoteInRange == remote.rev =< MaxSyncRevision
           Inv == TypeOK /\ RemoteInRange
<1>1. Init => Inv
  <2>1. Created \in Entity /\ Created.rev = 1
    BY DEF Created, Entity, Time, Invalid, NoOne
  <2> QED  BY <2>1, MergeAssumption, DeviceAssumption DEF Init, TypeOK, Budget
<1>2. Inv /\ [Next]_vars => Inv'
  <2> SUFFICES ASSUME Inv, [Next]_vars PROVE Inv'
    OBVIOUS
  <2>0. clock \in Nat /\ \A d \in Device : local[d] \in Entity
    BY DeviceAssumption DEF TypeOK
  <2>1. CASE UNCHANGED vars
    BY <2>1 DEF vars, TypeOK
  <2>a. ASSUME NEW d \in Device, NEW e \in Entity, local' = [local EXCEPT ![d] = Stamp(e, d)],
               budget' \in [Device -> Budget], UNCHANGED <<clock, remote, base>>
        PROVE  Inv'
    <3>1. Stamp(e, d) \in Entity /\ Stamp(e, d).rev =< MaxSyncRevision
      BY <2>0, StampType
    <3>2. /\ local' \in [Device -> Entity]
          /\ \A c \in Device : local'[c].rev =< MaxSyncRevision
      BY <2>a, <3>1, ReplaceType
    <3> QED  BY <2>a, <3>2 DEF TypeOK
  <2>b. ASSUME NEW d \in Device
        PROVE  /\ budget[d].edits > 0 => [budget EXCEPT ![d].edits = @ - 1] \in [Device -> Budget]
               /\ budget[d].removals > 0 => [budget EXCEPT ![d].removals = @ - 1] \in [Device -> Budget]
    BY DEF TypeOK, Budget
  <2>2. ASSUME NEW d \in Device, Edit(d) PROVE Inv'
    BY <2>0, <2>2, <2>a, <2>b, OperationType DEF Edit
  <2>3. ASSUME NEW d \in Device, Delete(d) PROVE Inv'
    BY <2>0, <2>3, <2>a, <2>b, OperationType DEF Delete
  <2>4. ASSUME NEW d \in Device, Restore(d) PROVE Inv'
    BY <2>0, <2>4, <2>a, <2>b, OperationType DEF Restore
  <2>5. ASSUME NEW d \in Device, Sync(d) PROVE Inv'
    <3> DEFINE w == Winner(local[d], remote, Now(d))
    <3>1. Now(d) \in Nat
      BY <2>0, DeviceAssumption DEF Now
    <3>2. w \in {local[d], remote}
      BY <2>0, <3>1, WinnerIsCandidate DEF TypeOK
    <3>3. w \in Entity /\ w.rev =< MaxSyncRevision
      BY <2>0, <3>2 DEF TypeOK
    <3>4. local' = [local EXCEPT ![d] = w] /\ remote' = w /\ base' = [base EXCEPT ![d] = w]
      BY <2>5 DEF Sync
    <3>5. /\ local' \in [Device -> Entity]
          /\ \A c \in Device : local'[c].rev =< MaxSyncRevision
      BY <3>3, <3>4, ReplaceType
    <3>6. UNCHANGED <<clock, budget>>
      BY <2>5 DEF Sync
    <3> HIDE DEF w
    <3> QED  BY <3>3, <3>4, <3>5, <3>6 DEF TypeOK
  <2>6. CASE Tick
    BY <2>6, DeviceAssumption DEF Tick, TypeOK
  <2> QED  BY <2>1, <2>2, <2>3, <2>4, <2>5, <2>6 DEF Next
<1> QED  BY <1>1, <1>2, PTL DEF Spec

\* Whichever of two devices merges the other's copy, the same copy wins, in
\* every reachable state.
THEOREM DevicesMergeAlike == Spec => []MergeSymmetric
<1>1. TypeOK => MergeSymmetric
  BY WinnerSymmetric, DeviceAssumption DEF TypeOK, MergeSymmetric
<1> QED  BY <1>1, TypeCorrect, PTL

-----------------------------------------------------------------------------
(***************************************************************************)
(* Local writes move forward.                                              *)
(***************************************************************************)

\* Times that are not in the future are not clamped.
LEMMA TimelyOperation ==
    ASSUME NEW e \in Entity, NEW now \in Nat, e.updated =< now, e.deletedAt =< now
    PROVE  /\ OperationTime(e, now) = IF e.deleted /\ e.deletedAt > e.updated
                                      THEN e.deletedAt ELSE e.updated
           /\ OperationTime(e, now) =< now
BY MergeAssumption DEF OperationTime, SafeTime, WasClamped, Entity, Time, Invalid

\* The merge keeps a copy that has moved forward from the shared one.
LEMMA ForwardWins ==
    ASSUME NEW e \in Entity, NEW b \in Entity, clock \in Nat,
           MovedForward(e, b), e.revBy # BackupRestore, b.revBy # BackupRestore
    PROVE  Winner(e, b, clock) = e
<1>1. CASE e = b
  BY <1>1, WinnerIsCandidate
<1>2. CASE e # b
  <2>0. e.rev \in Nat /\ b.rev \in Nat /\ e.deleted \in BOOLEAN /\ b.deleted \in BOOLEAN
    BY DEF Entity
  <2>1. e.rev > b.rev /\ OperationTime(e, clock) >= OperationTime(b, clock)
    BY <1>2 DEF MovedForward
  <2>2. HasRevision(e, b)
    BY <2>0, <2>1 DEF HasRevision
  <2>3. RevisionWinner(e, b, clock) = e
    BY <2>0, <2>1 DEF RevisionWinner
  <2>4. Live(e, b).revBy # BackupRestore
    BY DEF Live
  <2>5. OperationTime(e, clock) \in Int /\ OperationTime(b, clock) \in Int
    BY OperationTimeType
  <2> DEFINE near == Distance(OperationTime(e, clock), OperationTime(b, clock)) =< DeleteVsLiveWindow
  <2>6. CASE near
    <3>1. ~(e.rev < b.rev) /\ ~(e.rev = b.rev)
      BY <2>0, <2>1
    <3>2. DeleteVsLiveWinner(e, b, clock) = e
      BY <2>1, <2>4, <2>6, <3>1 DEF DeleteVsLiveWinner
    <3> QED  BY <2>2, <2>3, <3>2 DEF Winner
  <2>7. CASE ~near
    <3>1. ~(OperationTime(b, clock) > OperationTime(e, clock))
      BY <2>1, <2>5
    <3>2. DeleteVsLiveWinner(e, b, clock) = e
      BY <2>4, <2>7, <3>1 DEF DeleteVsLiveWinner
    <3> QED  BY <2>2, <2>3, <3>2 DEF Winner
  <2> QED  BY <2>6, <2>7
<1> QED  BY <1>1, <1>2

\* A local write over a copy that has moved forward moves forward again, as
\* long as its revision is not the largest one.
LEMMA StampMovesForward ==
    ASSUME NEW d \in Device, NEW e \in Entity, NEW f \in Entity, NEW b \in Entity,
           clock \in Nat, Ahead[d] = 0, f.rev = e.rev, f.deletedAt =< clock,
           Timely(b), MovedForward(e, b), e.rev < MaxSyncRevision
    PROVE  /\ MovedForward(Stamp(f, d), b)
           /\ Timely(Stamp(f, d))
<1> DEFINE g == Stamp(f, d)
<1>0. b.rev \in Nat /\ e.rev \in Nat /\ f.deletedAt \in Time
  BY DEF Entity
<1>1. Now(d) = clock
  BY DEF Now
<1>2. /\ g \in Entity /\ g.rev = NextRevision(f.rev) /\ g.updated = clock
      /\ g.revBy = d /\ g.deletedAt = f.deletedAt /\ g.deleted = f.deleted
  BY <1>1, StampType
<1>3. g.rev = e.rev + 1
  BY <1>0, <1>2, MergeAssumption DEF NextRevision
<1>4. e.rev >= b.rev
  BY <1>0 DEF MovedForward
<1> HIDE DEF g
<1>5. OperationTime(g, clock) = clock
  BY <1>0, <1>2, MergeAssumption DEF OperationTime, SafeTime, WasClamped, Time, Invalid
<1>6. OperationTime(b, clock) =< clock
  BY TimelyOperation DEF Timely
<1>7. g.revBy # BackupRestore
  BY <1>2, DeviceAssumption
<1>8. MovedForward(g, b)
  BY <1>0, <1>3, <1>4, <1>5, <1>6 DEF MovedForward
<1>9. Timely(g)
  <2>1. clock =< clock
    OBVIOUS
  <2>2. g.updated =< clock
    BY <1>2, <2>1
  <2>3. g.deletedAt =< clock
    BY <1>2
  <2> QED  BY <1>7, <2>2, <2>3 DEF Timely
<1> QED  BY <1>8, <1>9 DEF g

\* With clocks that agree, the operation time of a copy does not change as time
\* passes, so a copy that has moved forward stays ahead.
LEMMA TickKeepsForward ==
    ASSUME NEW e \in Entity, NEW b \in Entity, clock \in Nat, clock' = clock + 1,
           Timely(e), Timely(b), MovedForward(e, b)
    PROVE  /\ (e.updated =< clock' /\ e.deletedAt =< clock')
           /\ \/ e = b
              \/ e.rev > b.rev /\ OperationTime(e, clock') >= OperationTime(b, clock')
<1>0. clock + 1 \in Nat /\ e.updated \in Int /\ e.deletedAt \in Int
      /\ b.updated \in Int /\ b.deletedAt \in Int
  BY DEF Entity, Time, Invalid
<1>1. /\ e.updated =< clock /\ e.deletedAt =< clock
      /\ b.updated =< clock /\ b.deletedAt =< clock
  BY DEF Timely
<1>2. /\ e.updated =< clock + 1 /\ e.deletedAt =< clock + 1
      /\ b.updated =< clock + 1 /\ b.deletedAt =< clock + 1
  BY <1>0, <1>1
<1>3. OperationTime(e, clock + 1) = OperationTime(e, clock)
  BY <1>0, <1>1, <1>2, TimelyOperation
<1>4. OperationTime(b, clock + 1) = OperationTime(b, clock)
  BY <1>0, <1>1, <1>2, TimelyOperation
<1> QED  BY <1>2, <1>3, <1>4 DEF MovedForward

\* The step that makes ForwardInv inductive, and what it gives a sync.
LEMMA ForwardStep ==
    ASSUME TypeOK, ForwardInv, ClocksAgree, RevisionsUnsaturated, [Next]_vars
    PROVE  /\ ForwardInv'
           /\ \A d \in Device : base[d] = remote /\ budget' = budget => local'[d] = local[d]
<1> DEFINE Good(e, b) == Timely(e) /\ Timely(b) /\ MovedForward(e, b)
           Kept == \A d \in Device : base[d] = remote /\ budget' = budget => local'[d] = local[d]
<1>0. /\ clock \in Nat
      /\ local \in [Device -> Entity] /\ base \in [Device -> Entity] /\ remote \in Entity
      /\ budget \in [Device -> Budget]
  BY DeviceAssumption DEF TypeOK
<1>1. \A d \in Device : Good(local[d], base[d])
  BY DEF ForwardInv
<1>2. CASE UNCHANGED vars
  <2>1. ForwardInv'
    BY <1>2 DEF vars, ForwardInv, Timely, MovedForward
  <2>2. Kept
    BY <1>2 DEF vars
  <2> QED  BY <2>1, <2>2
<1>3. ASSUME NEW d \in Device, NEW f \in Entity, f.rev = local[d].rev, f.deletedAt =< clock,
             local' = [local EXCEPT ![d] = Stamp(f, d)], budget' # budget,
             UNCHANGED <<clock, remote, base>>
      PROVE  ForwardInv' /\ Kept
  <2>1. Ahead[d] = 0 /\ local[d].rev < MaxSyncRevision
    BY DEF ClocksAgree, RevisionsUnsaturated
  <2>2. MovedForward(Stamp(f, d), base[d]) /\ Timely(Stamp(f, d))
    BY <1>0, <1>1, <1>3, <2>1, StampMovesForward
  <2>3. ASSUME NEW c \in Device PROVE Good(local'[c], base[c])
    <3>1. CASE c = d
      BY <1>0, <1>1, <1>3, <2>2, <3>1
    <3>2. CASE c # d
      BY <1>0, <1>1, <1>3, <3>2
    <3> QED  BY <3>1, <3>2
  <2>4. Timely(remote)
    BY DEF ForwardInv
  <2>5. ForwardInv'
    BY <1>3, <2>3, <2>4 DEF ForwardInv, Timely, MovedForward
  <2>6. Kept
    BY <1>3
  <2> QED  BY <2>5, <2>6
<1>4. ASSUME NEW d \in Device, Edit(d) PROVE ForwardInv' /\ Kept
  <2> DEFINE f == [local[d] EXCEPT !.content = d]
  <2>1. f \in Entity
    BY <1>0, OperationType
  <2>2. f.rev = local[d].rev /\ f.deletedAt = local[d].deletedAt
    BY <1>0 DEF Entity
  <2>3. budget' # budget
    BY <1>0, <1>4 DEF Edit, Budget
  <2>4. f.deletedAt =< clock
    BY <1>1, <2>2 DEF Timely
  <2>5. local' = [local EXCEPT ![d] = Stamp(f, d)] /\ UNCHANGED <<clock, remote, base>>
    BY <1>4 DEF Edit
  <2> HIDE DEF f
  <2> QED  BY <1>3, <2>1, <2>2, <2>3, <2>4, <2>5
<1>5. ASSUME NEW d \in Device, Delete(d) PROVE ForwardInv' /\ Kept
  <2> DEFINE f == [local[d] EXCEPT !.deleted = TRUE, !.deletedAt = Now(d)]
  <2>0. Now(d) = clock
    BY <1>0 DEF Now, ClocksAgree
  <2>1. f \in Entity
    BY <1>0, OperationType
  <2>2. f.rev = local[d].rev /\ f.deletedAt = clock
    BY <1>0, <2>0 DEF Entity
  <2>3. budget' # budget
    BY <1>0, <1>5 DEF Delete, Budget
  <2>4. f.deletedAt =< clock
    BY <1>0, <2>2
  <2>5. local' = [local EXCEPT ![d] = Stamp(f, d)] /\ UNCHANGED <<clock, remote, base>>
    BY <1>5 DEF Delete
  <2> HIDE DEF f
  <2> QED  BY <1>3, <2>1, <2>2, <2>3, <2>4, <2>5
<1>6. ASSUME NEW d \in Device, Restore(d) PROVE ForwardInv' /\ Kept
  <2> DEFINE f == [local[d] EXCEPT !.deleted = FALSE, !.deletedAt = Invalid]
  <2>1. f \in Entity
    BY <1>0, OperationType
  <2>2. f.rev = local[d].rev /\ f.deletedAt = Invalid
    BY <1>0 DEF Entity
  <2>3. budget' # budget
    BY <1>0, <1>6 DEF Restore, Budget
  <2>4. f.deletedAt =< clock
    BY <1>0, <2>2 DEF Invalid
  <2>5. local' = [local EXCEPT ![d] = Stamp(f, d)] /\ UNCHANGED <<clock, remote, base>>
    BY <1>6 DEF Restore
  <2> HIDE DEF f
  <2> QED  BY <1>3, <2>1, <2>2, <2>3, <2>4, <2>5
<1>7. ASSUME NEW d \in Device, Sync(d) PROVE ForwardInv' /\ Kept
  <2> DEFINE w == Winner(local[d], remote, Now(d))
  <2>0. Now(d) = clock
    BY <1>0 DEF Now, ClocksAgree
  <2>1. w \in {local[d], remote}
    BY <1>0, <2>0, WinnerIsCandidate
  <2>2. Timely(w)
    BY <1>1, <2>1 DEF ForwardInv
  <2>3. base[d] = remote => w = local[d]
    BY <1>0, <1>1, <2>0, ForwardWins DEF Timely
  <2>4. /\ local' = [local EXCEPT ![d] = w] /\ remote' = w
        /\ base' = [base EXCEPT ![d] = w] /\ clock' = clock
    BY <1>7 DEF Sync
  <2> HIDE DEF w
  <2>5. MovedForward(w, w)
    BY DEF MovedForward
  <2>6. ASSUME NEW c \in Device PROVE Good(local'[c], base'[c])
    <3>1. CASE c = d
      BY <1>0, <2>2, <2>4, <2>5, <3>1
    <3>2. CASE c # d
      BY <1>0, <1>1, <2>4, <3>2
    <3> QED  BY <3>1, <3>2
  <2>7. ForwardInv'
    BY <2>2, <2>4, <2>6 DEF ForwardInv, Timely, MovedForward
  <2>8. Kept
    BY <1>0, <2>3, <2>4
  <2> QED  BY <2>7, <2>8
<1>8. CASE Tick
  <2>1. clock' = clock + 1 /\ UNCHANGED <<local, remote, base, budget>>
    BY <1>8 DEF Tick
  <2>2. ASSUME NEW c \in Device PROVE (Timely(local[c]) /\ Timely(base[c]) /\ MovedForward(local[c], base[c]))'
    <3>1. local[c] \in Entity /\ base[c] \in Entity
      BY <1>0
    <3>2. /\ local[c].updated =< clock' /\ local[c].deletedAt =< clock'
          /\ \/ local[c] = base[c]
             \/ /\ local[c].rev > base[c].rev
                /\ OperationTime(local[c], clock') >= OperationTime(base[c], clock')
      BY <1>0, <1>1, <2>1, <3>1, TickKeepsForward
    <3>3. base[c].updated =< clock' /\ base[c].deletedAt =< clock'
      BY <1>0, <1>1, <2>1, <3>1, TickKeepsForward DEF MovedForward
    <3> QED  BY <1>1, <2>1, <3>2, <3>3 DEF Timely, MovedForward
  <2>3. Timely(remote)'
    <3>1. Timely(remote) /\ MovedForward(remote, remote)
      BY DEF ForwardInv, MovedForward
    <3>2. remote.updated =< clock' /\ remote.deletedAt =< clock'
      BY <1>0, <2>1, <3>1, TickKeepsForward
    <3> QED  BY <2>1, <3>1, <3>2 DEF Timely
  <2>4. ForwardInv'
    BY <2>2, <2>3 DEF ForwardInv
  <2> QED  BY <2>1, <2>4
<1> QED  BY <1>2, <1>4, <1>5, <1>6, <1>7, <1>8 DEF Next

\* When the clocks agree and no revision is saturated, a sync of a device that
\* is alone in having written keeps what the device wrote: the premise of the
\* upload that skips the merge (tryArmLocalOnlyUploadFastPath) holds.
THEOREM LocalWritesWin ==
    ClocksAgree /\ Spec /\ []RevisionsUnsaturated => LocalWritesMoveForward
<1> SUFFICES ASSUME ClocksAgree
             PROVE  Spec /\ []RevisionsUnsaturated => LocalWritesMoveForward
  OBVIOUS
<1> DEFINE Kept == \A d \in Device :
                      base[d] = remote /\ budget' = budget => local'[d] = local[d]
<1>1. Init => ForwardInv
  <2> SUFFICES ASSUME Init PROVE ForwardInv
    OBVIOUS
  <2>1. Created.updated =< clock /\ Created.deletedAt =< clock
    BY DEF Init, Created, Invalid
  <2>2. Created.revBy # BackupRestore
    BY MergeAssumption DEF Created, NoOne
  <2>3. Timely(Created) /\ MovedForward(Created, Created)
    BY <2>1, <2>2 DEF Timely, MovedForward
  <2> QED  BY <2>3 DEF Init, ForwardInv
<1>2. TypeOK /\ ForwardInv /\ RevisionsUnsaturated /\ [Next]_vars => ForwardInv' /\ [Kept]_vars
  <2> SUFFICES ASSUME TypeOK, ForwardInv, RevisionsUnsaturated, [Next]_vars
               PROVE  ForwardInv' /\ Kept
    OBVIOUS
  <2> QED  BY ForwardStep
<1>3. Spec => []TypeOK
  BY TypeCorrect
<1>4. LocalWritesMoveForward <=> [][Kept]_vars
  BY DEF LocalWritesMoveForward
<1> HIDE DEF Kept
<1> QED  BY <1>1, <1>2, <1>3, <1>4, PTL DEF Spec

-----------------------------------------------------------------------------
(***************************************************************************)
(* Live edits survive.                                                     *)
(***************************************************************************)

\* Against a live copy that carries a revision and is not taken to come from
\* the future, a tombstone wins only with more revisions, or when its operation
\* is later than the edit by more than the ambiguous window.
LEMMA TombstoneWins ==
    ASSUME NEW a \in Entity, NEW b \in Entity, NEW now \in Nat,
           ~a.deleted, a.rev > 0, a.updated =< now + ClockSkewThreshold,
           Winner(a, b, now).deleted
    PROVE  /\ Winner(a, b, now) = b
           /\ b.rev > a.rev \/ OperationTime(b, now) > a.updated + DeleteVsLiveWindow
<1> DEFINE opA == OperationTime(a, now)
           opB == OperationTime(b, now)
           restored == /\ a.revBy = BackupRestore
                       /\ opA >= opB
           near == Distance(opA, opB) =< DeleteVsLiveWindow
<1>1. Winner(a, b, now) = b
  BY WinnerIsCandidate
<1>2. b.deleted /\ Winner(a, b, now) = DeleteVsLiveWinner(a, b, now)
  BY <1>1 DEF Winner
<1>3. Live(a, b) = a /\ Deleted(a, b) = b
  BY <1>2 DEF Live, Deleted
<1>4. opA = a.updated /\ opA \in Int /\ opB \in Int
  <2>1. ~WasClamped(a.updated, now)
    BY MergeAssumption DEF WasClamped, Entity, Time, Invalid
  <2>2. opA = a.updated
    BY <2>1 DEF OperationTime, SafeTime
  <2> QED  BY <2>2, OperationTimeType
<1>5. a.rev \in Nat /\ b.rev \in Nat /\ HasRevision(a, b)
  BY DEF Entity, HasRevision
<1>6. a # b
  BY <1>2
<1>7. ~restored
  BY <1>1, <1>2, <1>3, <1>6 DEF DeleteVsLiveWinner
<1>8. CASE near /\ a.rev >= b.rev
  <2>1. DeleteVsLiveWinner(a, b, now) = a
    <3>1. CASE a.rev > b.rev
      BY <1>3, <1>5, <1>7, <1>8, <3>1 DEF DeleteVsLiveWinner
    <3>2. CASE a.rev = b.rev
      BY <1>3, <1>5, <1>7, <1>8, <3>2 DEF DeleteVsLiveWinner
    <3> QED  BY <1>5, <1>8, <3>1, <3>2
  <2> QED  BY <1>1, <1>2, <1>6, <2>1
<1>9. CASE near /\ b.rev > a.rev
  BY <1>1, <1>9
<1>10. CASE ~near
  <2>1. DeleteVsLiveWinner(a, b, now) = IF opB > opA THEN b ELSE a
    BY <1>3, <1>5, <1>7, <1>10 DEF DeleteVsLiveWinner
  <2>2. opB > opA
    BY <1>1, <1>2, <1>6, <2>1
  <2>3. opB > opA + DeleteVsLiveWindow
    <3> HIDE DEF opA, opB
    <3>1. Distance(opA, opB) = opB - opA
      BY <1>4, <2>2 DEF Distance
    <3> QED  BY <1>4, <1>10, <2>2, <3>1, MergeAssumption DEF near
  <2> QED  BY <1>1, <1>4, <2>3
<1> QED  BY <1>5, <1>8, <1>9, <1>10

\* A copy that a device stamps is credible to every other, if no two clocks are
\* further apart than the threshold.
LEMMA StampCredible ==
    ASSUME ClocksWithinSkew, NEW d \in Device, NEW e \in Entity, clock \in Nat
    PROVE  Credible(Stamp(e, d))
<1>1. Stamp(e, d).rev = NextRevision(e.rev) /\ Stamp(e, d).updated = Now(d)
  BY StampType
<1>2. NextRevision(e.rev) > 0
  BY MergeAssumption, DeviceAssumption DEF NextRevision, Entity
<1>3. ASSUME NEW c \in Device PROVE Now(d) =< Now(c) + ClockSkewThreshold
  <2>1. Ahead[d] \in Nat /\ Ahead[c] \in Nat /\ Ahead[d] =< Ahead[c] + ClockSkewThreshold
    BY DeviceAssumption DEF ClocksWithinSkew
  <2> QED  BY <2>1, MergeAssumption DEF Now
<1> QED  BY <1>1, <1>2, <1>3 DEF Credible

\* Every step keeps the copies credible, and none takes a live edit away.
LEMMA CredibleStep ==
    ASSUME ClocksWithinSkew, TypeOK, CredibleInv, [Next]_vars
    PROVE  /\ CredibleInv'
           /\ \A d \in Device :
                /\ ~local[d].deleted
                /\ local'[d].deleted
                /\ local'[d].revBy # d
                => \/ local'[d].rev > local[d].rev
                   \/ OperationTime(local'[d], Now(d)) > local[d].updated + DeleteVsLiveWindow
<1> DEFINE Fine(c) ==
               /\ ~local[c].deleted
               /\ local'[c].deleted
               /\ local'[c].revBy # c
               => \/ local'[c].rev > local[c].rev
                  \/ OperationTime(local'[c], Now(c)) > local[c].updated + DeleteVsLiveWindow
           Survives == \A c \in Device : Fine(c)
<1>0. /\ clock \in Nat
      /\ local \in [Device -> Entity] /\ remote \in Entity
  BY DeviceAssumption DEF TypeOK
<1>1. Credible(remote) /\ \A c \in Device : Credible(local[c])
  BY DEF CredibleInv
<1>a. ASSUME NEW c \in Device, local'[c] = local[c] PROVE Fine(c)
  BY <1>a
<1>2. CASE UNCHANGED vars
  <2>1. UNCHANGED <<clock, local, remote>>
    BY <1>2 DEF vars
  <2>2. CredibleInv'
    BY <2>1 DEF CredibleInv, Credible, Now
  <2> QED  BY <1>a, <2>1, <2>2
<1>3. ASSUME NEW d \in Device, NEW f \in Entity,
             local' = [local EXCEPT ![d] = Stamp(f, d)], UNCHANGED <<clock, remote>>
      PROVE  CredibleInv' /\ Survives
  <2> DEFINE g == Stamp(f, d)
  <2>1. Credible(g) /\ g.revBy = d
    BY <1>0, StampCredible, StampType
  <2>2. local'[d] = g /\ \A c \in Device \ {d} : local'[c] = local[c]
    BY <1>0, <1>3
  <2> HIDE DEF g
  <2>3. \A c \in Device : Credible(local'[c])
    BY <1>1, <2>1, <2>2
  <2>4. CredibleInv'
    BY <1>1, <1>3, <2>3 DEF CredibleInv, Credible, Now
  <2>5. ASSUME NEW c \in Device PROVE Fine(c)
    <3>1. CASE c = d
      BY <2>1, <2>2, <3>1
    <3>2. CASE c # d
      BY <1>a, <2>2, <3>2
    <3> QED  BY <3>1, <3>2
  <2> QED  BY <2>4, <2>5
<1>4. ASSUME NEW d \in Device, Edit(d) PROVE CredibleInv' /\ Survives
  BY <1>0, <1>3, <1>4, OperationType DEF Edit
<1>5. ASSUME NEW d \in Device, Delete(d) PROVE CredibleInv' /\ Survives
  <2> DEFINE f == [local[d] EXCEPT !.deleted = TRUE, !.deletedAt = Now(d)]
  <2>1. f \in Entity
    BY <1>0, OperationType
  <2>2. local' = [local EXCEPT ![d] = Stamp(f, d)] /\ UNCHANGED <<clock, remote>>
    BY <1>5 DEF Delete
  <2> HIDE DEF f
  <2> QED  BY <1>3, <2>1, <2>2
<1>6. ASSUME NEW d \in Device, Restore(d) PROVE CredibleInv' /\ Survives
  <2> DEFINE f == [local[d] EXCEPT !.deleted = FALSE, !.deletedAt = Invalid]
  <2>1. f \in Entity
    BY <1>0, OperationType
  <2>2. local' = [local EXCEPT ![d] = Stamp(f, d)] /\ UNCHANGED <<clock, remote>>
    BY <1>6 DEF Restore
  <2> HIDE DEF f
  <2> QED  BY <1>3, <2>1, <2>2
<1>7. ASSUME NEW d \in Device, Sync(d) PROVE CredibleInv' /\ Survives
  <2> DEFINE w == Winner(local[d], remote, Now(d))
  <2>0. Now(d) \in Nat /\ local[d] \in Entity
    BY <1>0, DeviceAssumption DEF Now
  <2>1. w \in {local[d], remote}
    BY <1>0, <2>0, WinnerIsCandidate
  <2>2. local' = [local EXCEPT ![d] = w] /\ remote' = w /\ clock' = clock
    BY <1>7 DEF Sync
  <2>3. ~local[d].deleted /\ w.deleted
        => w.rev > local[d].rev \/ OperationTime(w, Now(d)) > local[d].updated + DeleteVsLiveWindow
    <3>1. local[d].rev > 0 /\ local[d].updated =< Now(d) + ClockSkewThreshold
      BY <1>1 DEF Credible
    <3> QED  BY <1>0, <2>0, <3>1, TombstoneWins
  <2> HIDE DEF w
  <2>4. local'[d] = w /\ \A c \in Device \ {d} : local'[c] = local[c]
    BY <1>0, <2>2
  <2>5. Credible(w) /\ \A c \in Device : Credible(local'[c])
    BY <1>1, <2>1, <2>4
  <2>6. CredibleInv'
    BY <2>2, <2>5 DEF CredibleInv, Credible, Now
  <2>7. ASSUME NEW c \in Device PROVE Fine(c)
    <3>1. CASE c = d
      BY <2>3, <2>4, <3>1
    <3>2. CASE c # d
      BY <1>a, <2>4, <3>2
    <3> QED  BY <3>1, <3>2
  <2> QED  BY <2>6, <2>7
<1>8. CASE Tick
  <2>1. clock' = clock + 1 /\ UNCHANGED <<local, remote>>
    BY <1>8 DEF Tick
  <2>2. ASSUME NEW e \in Entity, Credible(e)
        PROVE  e.rev > 0 /\ \A c \in Device : e.updated =< clock' + Ahead[c] + ClockSkewThreshold
    <3>1. ASSUME NEW c \in Device PROVE e.updated =< clock' + Ahead[c] + ClockSkewThreshold
      <4>1. e.updated \in Int /\ Ahead[c] \in Nat /\ e.updated =< Now(c) + ClockSkewThreshold
        BY <2>2, DeviceAssumption DEF Entity, Time, Invalid, Credible
      <4> QED  BY <1>0, <2>1, <4>1, MergeAssumption DEF Now
    <3> QED  BY <2>2, <3>1 DEF Credible
  <2>3. CredibleInv'
    BY <1>0, <1>1, <2>1, <2>2 DEF CredibleInv, Credible, Now
  <2> QED  BY <1>a, <2>1, <2>3
<1> QED  BY <1>2, <1>4, <1>5, <1>6, <1>7, <1>8 DEF Next

\* When no two clocks are further apart than CLOCK_SKEW_THRESHOLD_MS, a
\* tombstone replaces a device's live copy only if it has seen more revisions or
\* was made later by more than the ambiguous window, with any number of devices,
\* edits and removals and also once the revisions saturate.
THEOREM LiveEditsSurvive == ClocksWithinSkew /\ Spec => LiveEditSurvives
<1> SUFFICES ASSUME ClocksWithinSkew
             PROVE  Spec => LiveEditSurvives
  OBVIOUS
<1> DEFINE Survives ==
             \A d \in Device :
                /\ ~local[d].deleted
                /\ local'[d].deleted
                /\ local'[d].revBy # d
                => \/ local'[d].rev > local[d].rev
                   \/ OperationTime(local'[d], Now(d)) > local[d].updated + DeleteVsLiveWindow
<1>1. Init => CredibleInv
  <2> SUFFICES ASSUME Init PROVE CredibleInv
    OBVIOUS
  <2>1. Credible(Created)
    <3>1. ASSUME NEW d \in Device PROVE 0 =< Now(d) + ClockSkewThreshold
      <4>1. Ahead[d] \in Nat /\ clock = 0
        BY DeviceAssumption DEF Init
      <4> QED  BY <4>1, MergeAssumption DEF Now
    <3> QED  BY <3>1 DEF Created, Credible
  <2> QED  BY <2>1 DEF Init, CredibleInv
<1>2. TypeOK /\ CredibleInv /\ [Next]_vars => CredibleInv' /\ [Survives]_vars
  <2> SUFFICES ASSUME TypeOK, CredibleInv, [Next]_vars
               PROVE  CredibleInv' /\ Survives
    OBVIOUS
  <2> QED  BY CredibleStep
<1>3. Spec => []TypeOK
  BY TypeCorrect
<1>4. LiveEditSurvives <=> [][Survives]_vars
  BY DEF LiveEditSurvives
<1> HIDE DEF Survives
<1> QED  BY <1>1, <1>2, <1>3, <1>4, PTL DEF Spec
=============================================================================
