------------------------ MODULE RemoteFenceProofs ------------------------
(* RemoteFence keeps every horizon it promised and implements             *)
(* MutationWindows, for any sets of clients and leases, any cadence, any  *)
(* records left by others and any number of delayed requests.             *)
EXTENDS RemoteFence, TLAPS

PriorLease == {r.lease : r \in Prior}

\* The interval the client's records advertise: before the confirmation they
\* carry the base cadence.
Cadence(s) == IF s.pc \in {"acquire", "claim", "confirm"} THEN Heartbeat ELSE s.adv

\* A record that a client of this protocol wrote, no later than at time t.
Written(r, t) ==
  /\ r \in Record
  /\ r.lease \notin PriorLease
  /\ r.lease \in issued
  /\ r.renewedAt <= t
  /\ r.expiresAt = r.renewedAt + Ttl
  /\ (r.heartbeat = 0) <=> (Heartbeat = 0)

\* What can be on the provider at time t.
Stored(r, t) == r = None \/ r \in Prior \/ Written(r, t)

\* The claim of a record whose holder's authority is over for good.
ClaimOK(q) ==
  \/ q.expect = None
  \/ SafeUntil(q.expect) <= now
  \/ q.expect.lease \in PriorLease /\ \E t \in 0..now : ImpossibleFuture(q.expect, t)

\* A renewal: the same lease, and no shorter an authority.
RenewOK(q) ==
  /\ q.expect # None
  /\ q.expect.lease = q.new.lease
  /\ SafeUntil(q.expect) <= SafeUntil(q.new)

\* The records of the client's lease advertise at most what the client does.
CadenceOK(s) ==
  /\ s.pc \in Timed \cup {"held", "write"} => (s.adv = 0) <=> (Heartbeat = 0)
  /\ rec.lease = s.lease /\ rec # None => rec.heartbeat <= Cadence(s)
  /\ \A q \in late : q.new # None /\ q.new.lease = s.lease => q.new.heartbeat <= Cadence(s)
  /\ s.snap.rec # None /\ s.snap.rec.lease = s.lease => s.snap.rec.heartbeat <= Cadence(s)
  /\ s.pc \in {"claim", "write"} => s.req.new.heartbeat <= Cadence(s)

\* What the answer to a timed read still tells when it is handled: as long as
\* the authority of that record lasts, the lease's record is on the provider
\* and lasts no shorter.
SnapOK(s) ==
  s.pc \in Timed =>
    /\ s.asked <= now
    /\ s.snap.served =>
         /\ s.asked <= s.snap.at /\ s.snap.at <= now
         /\ Stored(s.snap.rec, s.snap.at)
         /\ s.snap.rec.lease = s.lease /\ SafeUntil(s.snap.rec) > now
            => rec.lease = s.lease /\ SafeUntil(s.snap.rec) <= SafeUntil(rec)

\* The request a client waits for.
ReqOK(s) ==
  /\ s.pc \in {"claim", "write"} => Written(s.req.new, now) /\ s.req.new.lease = s.lease
  /\ s.pc = "claim" => ClaimOK(s.req)
  /\ s.pc = "write" => RenewOK(s.req)
  /\ s.pc = "remove" =>
       s.req.new = None /\ s.req.expect # None /\ s.req.expect.lease = s.lease

LeaseOK(s) ==
  /\ s.pc = "off" => s.lease = "none"
  /\ s.pc # "off" => s.lease \in issued /\ s.lease \notin PriorLease
  /\ s.pc \in {"release", "remove"} => \A w \in windows : w.lease # s.lease

ClientOK(s) == LeaseOK(s) /\ CadenceOK(s) /\ SnapOK(s) /\ ReqOK(s)

Unique == \A c, d \in Client : c # d /\ st[c].lease = st[d].lease => st[c].lease = "none"

\* A lease its client has given back.
Retired(l) ==
  /\ l \in issued
  /\ \A c \in Client : st[c].lease # l
  /\ \A w \in windows : w.lease # l

\* A request that may still arrive claims what nobody holds, renews, or
\* removes the record of a lease given back.
LateReq(q) ==
  \/ Written(q.new, now) /\ (ClaimOK(q) \/ RenewOK(q))
  \/ q.new = None /\ q.expect # None /\ Retired(q.expect.lease)

LateOK == \A q \in late : LateReq(q)

WindowsOK ==
  \A w \in windows :
    /\ now <= w.until
    /\ w.lease \in issued \ PriorLease
    /\ rec # None
    /\ rec.lease = w.lease
    /\ SafeUntil(rec) > w.until

IInv ==
  /\ TypeOK
  /\ PriorLease \subseteq issued
  /\ Stored(rec, now)
  /\ Unique
  /\ \A c \in Client : ClientOK(st[c])
  /\ LateOK
  /\ WindowsOK

-----------------------------------------------------------------------------
(* The operators of the module.                                            *)

LEMMA NoneIsNoRecord == None \notin Record /\ None.lease = "none"
BY PriorAssumption DEF None, Record

LEMMA SafeUntilBound ==
  ASSUME NEW r \in Record
  PROVE  /\ SafeUntil(r) \in Nat
         /\ SafeUntil(r) <= r.expiresAt
<1>1. r.renewedAt + r.heartbeat * Missed + Jitter \in Nat
  BY FenceAssumption DEF Record
<1> QED
  BY <1>1 DEF Record, SafeUntil

\* Whoever may reclaim a record finds that its authority has ended, or that
\* its expiry is impossible.
LEMMA ReclaimableIsOver ==
  ASSUME NEW r \in Record, NEW t \in Nat, Reclaimable(r, t)
  PROVE  SafeUntil(r) <= t \/ ImpossibleFuture(r, t)
<1>0. r # None
  BY NoneIsNoRecord
<1>1. r.renewedAt + r.heartbeat * Missed + Jitter \in Nat
  BY FenceAssumption DEF Record
<1>2. CASE r.expiresAt <= t
  BY <1>2, SafeUntilBound DEF Record
<1>3. CASE Abandoned(r, t)
  BY <1>1, <1>3 DEF Abandoned, SafeUntil, Record
<1> QED
  BY <1>0, <1>2, <1>3 DEF Reclaimable

\* A later renewal with no shorter a cadence never shortens the authority.
LEMMA RenewalExtends ==
  ASSUME NEW r \in Record, NEW t \in Nat, NEW l, NEW a \in Nat,
         r.renewedAt <= t,
         r.expiresAt = r.renewedAt + Ttl,
         r.heartbeat <= a,
         (r.heartbeat = 0) <=> (a = 0)
  PROVE  SafeUntil(r) <= SafeUntil(NewRecord(l, a, t))
<1> DEFINE b == r.heartbeat * Missed
           e == a * Missed
<1>1. b \in Nat /\ e \in Nat /\ b <= e
  BY FenceAssumption DEF Record
<1>2. SafeUntil(r) = IF r.heartbeat > 0 /\ r.renewedAt + b + Jitter < r.expiresAt
                     THEN r.renewedAt + b + Jitter ELSE r.expiresAt
  BY DEF SafeUntil
<1>3. SafeUntil(NewRecord(l, a, t)) = IF a > 0 /\ t + e + Jitter < t + Ttl
                     THEN t + e + Jitter ELSE t + Ttl
  BY DEF SafeUntil, NewRecord
<1> HIDE DEF b, e
<1> QED
  BY <1>1, <1>2, <1>3, FenceAssumption DEF Record

LEMMA NewRecordTyped ==
  ASSUME NEW l \in Lease, NEW a \in Nat, NEW t \in Nat
  PROVE  /\ NewRecord(l, a, t) \in Record
         /\ NewRecord(l, a, t).lease = l
         /\ NewRecord(l, a, t).heartbeat = a
         /\ NewRecord(l, a, t).renewedAt = t
         /\ NewRecord(l, a, t).expiresAt = t + Ttl
BY FenceAssumption DEF NewRecord, Record

LEMMA AdvertiseGrows ==
  ASSUME NEW a \in Nat, NEW h \in Nat
  PROVE  /\ Advertise(a, h) \in Nat
         /\ a <= Advertise(a, h)
         /\ (a = 0) <=> (Advertise(a, h) = 0)
<1>1. (h + Missed - 1) \div Missed \in Nat
  BY FenceAssumption
<1> QED
  BY <1>1 DEF Advertise

LEMMA OffTyped == Off \in ClientState /\ NoSnap \in Snap /\ NoRequest \in Request
BY DEF Off, ClientState, PC, NoSnap, NoRequest, Snap, Request, Timed, Untimed

LEMMA AskTyped ==
  ASSUME TypeOK, NEW s \in ClientState, NEW p \in PC
  PROVE  /\ Ask(s, p) \in ClientState
         /\ Ask(s, p).pc = p /\ Ask(s, p).lease = s.lease /\ Ask(s, p).adv = s.adv
         /\ Ask(s, p).snap = NoSnap
         /\ p \in Timed => Ask(s, p).asked = now
BY OffTyped DEF Ask, ClientState, TypeOK

LEMMA SendsTyped ==
  ASSUME NEW s \in ClientState, NEW p \in PC, NEW q \in Request
  PROVE  /\ Sends(s, p, q) \in ClientState
         /\ Sends(s, p, q).pc = p /\ Sends(s, p, q).lease = s.lease
         /\ Sends(s, p, q).adv = s.adv /\ Sends(s, p, q).snap = NoSnap
         /\ Sends(s, p, q).req = q
BY OffTyped DEF Sends, ClientState

LEMMA HoldsTyped ==
  ASSUME NEW s \in ClientState
  PROVE  /\ Holds(s) \in ClientState
         /\ Holds(s).pc = "held" /\ Holds(s).lease = s.lease /\ Holds(s).adv = s.adv
         /\ Holds(s).snap = NoSnap
BY OffTyped DEF Holds, ClientState, PC

LEMMA ThrowsTyped ==
  ASSUME NEW s \in ClientState
  PROVE  /\ Throws(s) \in ClientState
         /\ Throws(s).pc = "held" /\ Throws(s).lease = s.lease /\ Throws(s).adv = s.adv
         /\ Throws(s).snap = NoSnap
<1>1. (s.lost \/ s.op = "heartbeat") \in BOOLEAN
  BY DEF ClientState
<1> QED
  BY <1>1, HoldsTyped DEF Throws, ClientState

-----------------------------------------------------------------------------
(* Steps that change one client's state and nothing shared.                 *)

LEMMA LocalStep ==
  ASSUME IInv, NEW c \in Client, NEW s \in ClientState, ClientOK(s),
         s.lease \in {st[c].lease, "none"},
         st' = [st EXCEPT ![c] = s], UNCHANGED <<now, rec, late, issued, windows>>
  PROVE  IInv'
<1>1. TypeOK'
  BY DEF IInv, TypeOK
<1>2. \A d \in Client : st'[d] = IF d = c THEN s ELSE st[d]
  BY DEF IInv, TypeOK
<1>3. Stored(rec, now)' /\ (PriorLease \subseteq issued)'
  BY DEF IInv, Stored, Written
<1>4. Unique'
  BY <1>2 DEF IInv, Unique
<1>5. ASSUME NEW d \in Client PROVE ClientOK(st[d])'
  <2>1. ClientOK(st[d])
    BY DEF IInv
  <2>2. CASE d = c
    BY <1>2, <2>2 DEF ClientOK, LeaseOK, CadenceOK, SnapOK, ReqOK, Written, Stored, ClaimOK, RenewOK, Cadence
  <2>3. CASE d # c
    BY <1>2, <2>1, <2>3 DEF ClientOK, LeaseOK, CadenceOK, SnapOK, ReqOK, Written, Stored, ClaimOK, RenewOK, Cadence
  <2> QED
    BY <2>2, <2>3
<1>6. LateOK'
  <2> SUFFICES ASSUME NEW q \in late
               PROVE  \/ Written(q.new, now)' /\ (ClaimOK(q) \/ RenewOK(q))'
                      \/ q.new = None /\ q.expect # None /\ Retired(q.expect.lease)'
    BY DEF LateOK, LateReq
  <2>1. CASE Written(q.new, now) /\ (ClaimOK(q) \/ RenewOK(q))
    BY <2>1 DEF Written, ClaimOK, RenewOK
  <2>2. CASE q.new = None /\ q.expect # None /\ Retired(q.expect.lease)
    <3>1. q.expect.lease # "none"
      BY <2>2, PriorAssumption DEF IInv, TypeOK, Request, Record, Retired
    <3> QED
      BY <1>2, <2>2, <3>1 DEF Retired
  <2> QED
    BY <2>1, <2>2 DEF IInv, LateOK, LateReq
<1>7. WindowsOK'
  BY DEF IInv, WindowsOK
<1> QED
  BY <1>1, <1>3, <1>4, <1>5, <1>6, <1>7 DEF IInv

LEMMA OffOK ==
  ASSUME IInv PROVE ClientOK(Off)
<1>1. Off.pc = "off" /\ Off.lease = "none" /\ Off.snap.rec = None
  BY DEF Off, NoSnap
<1>2. \A r \in Record : r.lease # "none"
  BY PriorAssumption DEF Record
<1>3. rec \in Record \cup {None} /\ \A q \in late : q.new \in Record \cup {None}
  BY DEF IInv, TypeOK, Request
<1> QED
  BY <1>1, <1>2, <1>3 DEF ClientOK, LeaseOK, CadenceOK, SnapOK, ReqOK, Timed

\* A holder that goes on, with the same lease and no shorter a cadence.
LEMMA HolderOK ==
  ASSUME IInv, NEW c \in Client, NEW s \in ClientState,
         st[c].pc \in Timed \cup {"held", "write"},
         s.pc \in Timed \cup {"held"}, s.pc \in Timed => s.asked = now,
         s.snap = NoSnap, s.lease = st[c].lease,
         st[c].adv <= s.adv, (st[c].adv = 0) <=> (s.adv = 0)
  PROVE  ClientOK(s)
<1>1. ClientOK(st[c]) /\ st[c] \in ClientState /\ now \in Nat
  BY DEF IInv, TypeOK
<1>2. s.snap.rec = None /\ ~s.snap.served
  BY DEF NoSnap
<1>3. LeaseOK(s)
  BY <1>1 DEF ClientOK, LeaseOK, Timed
<1>4. Cadence(st[c]) = st[c].adv /\ Cadence(s) = s.adv
  BY DEF Cadence, Timed
<1>5. st[c].adv \in Nat /\ s.adv \in Nat
  BY <1>1 DEF ClientState
<1>6. CadenceOK(s)
  <2>1. \A h \in Nat : h <= st[c].adv => h <= s.adv
    BY <1>5
  <2>2. rec \in Record \cup {None} /\ \A q \in late : q.new \in Record \cup {None}
    BY DEF IInv, TypeOK, Request
  <2>3. \A r \in Record : r.heartbeat \in Nat
    BY DEF Record
  <2> QED
    BY <1>1, <1>2, <1>4, <2>1, <2>2, <2>3 DEF ClientOK, CadenceOK, Timed
<1>7. SnapOK(s) /\ ReqOK(s)
  BY <1>1, <1>2 DEF SnapOK, ReqOK, Timed
<1> QED
  BY <1>3, <1>6, <1>7 DEF ClientOK

\* A client with a lease has one that is its own, and reads at most the time.
LEMMA ClientFacts ==
  ASSUME IInv, NEW c \in Client
  PROVE  /\ st[c] \in ClientState /\ ClientOK(st[c])
         /\ st[c].adv \in Nat /\ st[c].adv <= st[c].adv
         /\ now \in Nat /\ rec \in Record \cup {None}
BY DEF IInv, TypeOK, ClientState

LEMMA CrashKeeps ==
  ASSUME IInv, NEW c \in Client, Crash(c) PROVE IInv'
BY OffTyped, OffOK, LocalStep DEF Crash, Goes, Off

LEMMA HolderStep ==
  ASSUME IInv, NEW c \in Client, NEW s \in ClientState,
         st[c].pc \in Timed \cup {"held", "write"},
         s.pc \in Timed \cup {"held"}, s.pc \in Timed => s.asked = now,
         s.snap = NoSnap, s.lease = st[c].lease,
         st[c].adv <= s.adv, (st[c].adv = 0) <=> (s.adv = 0),
         st' = [st EXCEPT ![c] = s], UNCHANGED <<now, rec, late, issued, windows>>
  PROVE  IInv'
<1>1. ClientOK(s)
  BY HolderOK
<1> QED
  BY <1>1, LocalStep

LEMMA ThrowsKeeps ==
  ASSUME IInv, NEW c \in Client, st[c].pc \in Timed \cup {"held", "write"},
         Goes(c, Throws(st[c])) \/ Goes(c, Holds(st[c])), UNCHANGED <<rec, late, windows>>
  PROVE  IInv'
<1>1. CASE Goes(c, Throws(st[c]))
  <2> DEFINE s == Throws(st[c])
  <2>1. /\ s \in ClientState /\ s.pc = "held" /\ s.lease = st[c].lease /\ s.adv = st[c].adv
        /\ s.snap = NoSnap
    BY ClientFacts, ThrowsTyped
  <2> HIDE DEF s
  <2>2. st' = [st EXCEPT ![c] = s] /\ UNCHANGED <<now, rec, late, issued, windows>>
    BY <1>1 DEF Goes, s
  <2> QED
    BY <2>1, <2>2, ClientFacts, HolderStep DEF Timed
<1>2. CASE Goes(c, Holds(st[c]))
  <2> DEFINE s == Holds(st[c])
  <2>1. /\ s \in ClientState /\ s.pc = "held" /\ s.lease = st[c].lease /\ s.adv = st[c].adv
        /\ s.snap = NoSnap
    BY ClientFacts, HoldsTyped
  <2> HIDE DEF s
  <2>2. st' = [st EXCEPT ![c] = s] /\ UNCHANGED <<now, rec, late, issued, windows>>
    BY <1>2 DEF Goes, s
  <2> QED
    BY <2>1, <2>2, ClientFacts, HolderStep DEF Timed
<1> QED
  BY <1>1, <1>2

\* A holder asks: the question carries the operation and its horizon, and
\* perhaps a longer cadence.
LEMMA AsksKeeps ==
  ASSUME IInv, NEW c \in Client, st[c].pc \in Timed \cup {"held", "write"},
         NEW p \in {"renew", "check"}, NEW o \in {"heartbeat", "renew", "assert"},
         NEW h \in Nat, NEW a \in Nat, st[c].adv <= a, (st[c].adv = 0) <=> (a = 0),
         NEW s, s = [Ask(st[c], p) EXCEPT !.op = o, !.need = h, !.adv = a],
         st' = [st EXCEPT ![c] = s], UNCHANGED <<now, rec, late, issued, windows>>
  PROVE  IInv'
<1>1. p \in PC /\ p \in Timed
  BY DEF PC, Timed
<1>2. /\ Ask(st[c], p) \in ClientState
      /\ Ask(st[c], p).pc = p /\ Ask(st[c], p).lease = st[c].lease
      /\ Ask(st[c], p).snap = NoSnap /\ Ask(st[c], p).asked = now
  BY <1>1, ClientFacts, AskTyped DEF IInv
<1>3. /\ s \in ClientState /\ s.pc = p /\ s.lease = st[c].lease /\ s.adv = a
      /\ s.snap = NoSnap /\ s.asked = now
  BY <1>2 DEF ClientState
<1> QED
  BY <1>1, <1>3, HolderStep

LEMMA StartsKeep ==
  ASSUME IInv, NEW c \in Client, StartHeartbeat(c) \/ StartRenew(c) \/ AssertHeld(c)
  PROVE  IInv'
<1>0. st[c] \in ClientState /\ st[c].pc = "held" /\ UNCHANGED <<now, rec, late, issued, windows>>
  BY ClientFacts DEF StartHeartbeat, StartRenew, AssertHeld, Goes
<1>1. \E p \in {"renew", "check"}, o \in {"heartbeat", "renew", "assert"}, h \in Nat :
        st' = [st EXCEPT ![c] = [Ask(st[c], p) EXCEPT !.op = o, !.need = h, !.adv = st[c].adv]]
  <2>1. CASE StartHeartbeat(c)
    <3>1. [Ask(st[c], "renew") EXCEPT !.op = "heartbeat"]
          = [Ask(st[c], "renew") EXCEPT !.op = "heartbeat", !.need = st[c].need, !.adv = st[c].adv]
      BY <1>0 DEF Ask, ClientState
    <3> QED
      BY <1>0, <2>1, <3>1 DEF StartHeartbeat, Goes, ClientState
  <2>2. CASE StartRenew(c)
    <3>1. [Ask(st[c], "renew") EXCEPT !.op = "renew"]
          = [Ask(st[c], "renew") EXCEPT !.op = "renew", !.need = st[c].need, !.adv = st[c].adv]
      BY <1>0 DEF Ask, ClientState
    <3> QED
      BY <1>0, <2>2, <3>1 DEF StartRenew, Goes, ClientState
  <2>3. CASE AssertHeld(c)
    <3>1. PICK h \in Horizons : st' = [st EXCEPT ![c] = [Ask(st[c], "check") EXCEPT !.op = "assert", !.need = h]]
      BY <2>3 DEF AssertHeld, Goes
    <3>2. [Ask(st[c], "check") EXCEPT !.op = "assert", !.need = h]
          = [Ask(st[c], "check") EXCEPT !.op = "assert", !.need = h, !.adv = st[c].adv]
      BY <1>0 DEF Ask, ClientState
    <3> QED
      BY <3>1, <3>2, FenceAssumption
  <2> QED
    BY <2>1, <2>2, <2>3
<1>2. PICK p \in {"renew", "check"}, o \in {"heartbeat", "renew", "assert"}, h \in Nat :
        st' = [st EXCEPT ![c] = [Ask(st[c], p) EXCEPT !.op = o, !.need = h, !.adv = st[c].adv]]
  BY <1>1
<1>3. st[c].adv \in Nat /\ st[c].adv <= st[c].adv /\ st[c].pc \in Timed \cup {"held", "write"}
  BY <1>0, ClientFacts
<1> DEFINE s == [Ask(st[c], p) EXCEPT !.op = o, !.need = h, !.adv = st[c].adv]
<1>4. s = [Ask(st[c], p) EXCEPT !.op = o, !.need = h, !.adv = st[c].adv] /\ st' = [st EXCEPT ![c] = s]
  BY <1>2
<1> HIDE DEF s
<1> QED
  BY <1>0, <1>3, <1>4, AsksKeeps

LEMMA GivesUpKeeps ==
  ASSUME IInv, NEW c \in Client, Goes(c, Off), UNCHANGED <<rec, late, windows>>
  PROVE  IInv'
BY OffTyped, OffOK, LocalStep DEF Goes, Off

LEMMA ReadFailsKeeps ==
  ASSUME IInv, NEW c \in Client, ReadFails(c) PROVE IInv'
<1>1. CASE st[c].pc \in Timed
  BY <1>1, ThrowsKeeps DEF ReadFails
<1>2. CASE st[c].pc \notin Timed
  BY <1>2, GivesUpKeeps DEF ReadFails
<1> QED
  BY <1>1, <1>2

LEMMA ServeKeeps ==
  ASSUME IInv, NEW c \in Client, Serve(c) PROVE IInv'
<1> DEFINE s == [st[c] EXCEPT !.snap = [served |-> TRUE, at |-> now, rec |-> rec]]
<1>1. /\ st[c] \in ClientState /\ ClientOK(st[c]) /\ st[c].pc \in Timed
      /\ now \in Nat /\ rec \in Record \cup {None} /\ Stored(rec, now)
  BY ClientFacts DEF Serve, IInv
<1>2. [served |-> TRUE, at |-> now, rec |-> rec] \in Snap
  BY <1>1 DEF Snap
<1>3. /\ s \in ClientState /\ s.pc = st[c].pc /\ s.lease = st[c].lease /\ s.adv = st[c].adv
      /\ s.asked = st[c].asked /\ s.snap = [served |-> TRUE, at |-> now, rec |-> rec]
  BY <1>1, <1>2 DEF ClientState
<1>4. st' = [st EXCEPT ![c] = s] /\ UNCHANGED <<now, rec, late, issued, windows>>
  BY DEF Serve, Goes
<1> HIDE DEF s
<1>5. LeaseOK(s) /\ ReqOK(s)
  BY <1>1, <1>3 DEF ClientOK, LeaseOK, ReqOK, Timed
<1>6. CadenceOK(s)
  BY <1>1, <1>3 DEF ClientOK, CadenceOK, Cadence, Timed
<1>7. SnapOK(s)
  <2>1. s.asked <= now /\ s.snap.at = now /\ s.snap.rec = rec
    BY <1>1, <1>3 DEF ClientOK, SnapOK
  <2>2. rec.lease = s.lease => SafeUntil(rec) \in Nat
    <3>1. s.lease # "none"
      BY <1>1, <1>3, PriorAssumption DEF ClientOK, LeaseOK, Timed, IInv, TypeOK
    <3> QED
      BY <1>1, <3>1, NoneIsNoRecord, SafeUntilBound
  <2> QED
    BY <1>1, <2>1, <2>2 DEF SnapOK
<1>8. ClientOK(s)
  BY <1>5, <1>6, <1>7 DEF ClientOK
<1> QED
  BY <1>3, <1>4, <1>8, LocalStep

LEMMA AcquireAnsweredKeeps ==
  ASSUME IInv, NEW c \in Client, AcquireAnswered(c) PROVE IInv'
<1>1. CASE ~Reclaimable(rec, now)
  BY <1>1, GivesUpKeeps DEF AcquireAnswered
<1>2. CASE Reclaimable(rec, now)
  <2> DEFINE q == [expect |-> rec, new |-> NewRecord(st[c].lease, Heartbeat, now)]
             s == Sends(st[c], "claim", q)
  <2>1. /\ st[c] \in ClientState /\ ClientOK(st[c]) /\ st[c].pc = "acquire"
        /\ now \in Nat /\ rec \in Record \cup {None} /\ Stored(rec, now)
        /\ Heartbeat \in Nat
    BY ClientFacts, FenceAssumption DEF AcquireAnswered, IInv
  <2>2. st[c].lease \in Lease /\ st[c].lease \in issued /\ st[c].lease \notin PriorLease
    BY <2>1 DEF ClientOK, LeaseOK, IInv, TypeOK
  <2>3. /\ q.new \in Record /\ q.new.lease = st[c].lease /\ q.new.heartbeat = Heartbeat
        /\ q.new.renewedAt = now /\ q.new.expiresAt = now + Ttl
    BY <2>1, <2>2, NewRecordTyped
  <2>4. q \in Request /\ q.expect = rec
    BY <2>1, <2>3 DEF Request
  <2> HIDE DEF q
  <2>5. /\ s \in ClientState /\ s.pc = "claim" /\ s.lease = st[c].lease
        /\ s.adv = st[c].adv /\ s.snap = NoSnap /\ s.req = q
    BY <2>1, <2>4, SendsTyped DEF PC
  <2>6. st' = [st EXCEPT ![c] = s] /\ UNCHANGED <<now, rec, late, issued, windows>>
    BY <1>2 DEF AcquireAnswered, Goes, q
  <2> HIDE DEF s
  <2>7. LeaseOK(s) /\ SnapOK(s)
    BY <2>2, <2>5 DEF LeaseOK, SnapOK, Timed
  <2>8. CadenceOK(s)
    BY <2>1, <2>3, <2>5 DEF ClientOK, CadenceOK, Cadence, Timed, NoSnap
  <2>9. ClaimOK(q)
    <3>1. CASE rec = None
      BY <2>4, <3>1 DEF ClaimOK
    <3>2. CASE rec \in Prior
      <4>1. rec.lease \in PriorLease /\ now \in 0..now
        BY <2>1, <3>2 DEF PriorLease
      <4> QED
        BY <1>2, <2>1, <2>4, <3>2, <4>1, ReclaimableIsOver, PriorAssumption DEF ClaimOK
    <3>3. CASE Written(rec, now)
      <4>1. ~ImpossibleFuture(rec, now)
        BY <2>1, <3>3, FenceAssumption DEF ImpossibleFuture, Written, Record
      <4> QED
        BY <1>2, <2>1, <2>4, <3>3, <4>1, ReclaimableIsOver DEF ClaimOK, Written
    <3> QED
      BY <2>1, <3>1, <3>2, <3>3 DEF Stored
  <2>10. ReqOK(s)
    BY <2>1, <2>2, <2>3, <2>5, <2>9 DEF ReqOK, Written
  <2> QED
    BY <2>5, <2>6, <2>7, <2>8, <2>10, LocalStep DEF ClientOK
<1> QED
  BY <1>1, <1>2

LEMMA ConfirmAnsweredKeeps ==
  ASSUME IInv, NEW c \in Client, ConfirmAnswered(c) PROVE IInv'
<1>1. CASE Goes(c, Off)
  BY <1>1, GivesUpKeeps DEF ConfirmAnswered
<1>2. CASE Goes(c, [Holds(st[c]) EXCEPT !.adv = Heartbeat])
  <2> DEFINE s == [Holds(st[c]) EXCEPT !.adv = Heartbeat]
  <2>1. /\ st[c] \in ClientState /\ ClientOK(st[c]) /\ st[c].pc = "confirm"
        /\ Heartbeat \in Nat
    BY ClientFacts, FenceAssumption DEF ConfirmAnswered
  <2>2. /\ s \in ClientState /\ s.pc = "held" /\ s.lease = st[c].lease
        /\ s.adv = Heartbeat /\ s.snap = NoSnap
    BY <2>1, HoldsTyped DEF ClientState
  <2>3. st' = [st EXCEPT ![c] = s] /\ UNCHANGED <<now, rec, late, issued, windows>>
    BY <1>2 DEF ConfirmAnswered, Goes
  <2> HIDE DEF s
  <2>4. LeaseOK(s) /\ SnapOK(s) /\ ReqOK(s)
    BY <2>1, <2>2 DEF ClientOK, LeaseOK, SnapOK, ReqOK, Timed
  <2>5. CadenceOK(s)
    BY <2>1, <2>2 DEF ClientOK, CadenceOK, Cadence, Timed, NoSnap
  <2> QED
    BY <2>2, <2>3, <2>4, <2>5, LocalStep DEF ClientOK
<1> QED
  BY <1>1, <1>2 DEF ConfirmAnswered

\* What a holder knows of a record it was shown and finds to be its own.
LEMMA OwnedFacts ==
  ASSUME IInv, NEW c \in Client, st[c].pc \in Timed, st[c].snap.served, Owned(st[c])
  PROVE  /\ st[c].lease \in Lease /\ st[c].lease \in issued \ PriorLease
         /\ Written(st[c].snap.rec, st[c].snap.at)
         /\ st[c].snap.at \in Nat /\ st[c].snap.at <= now
         /\ st[c].asked \in Nat /\ st[c].asked <= st[c].snap.at
<1> DEFINE s == st[c]
<1>1. s \in ClientState /\ ClientOK(s) /\ now \in Nat
  BY ClientFacts
<1>2. s.lease \in Lease /\ s.lease \in issued \ PriorLease
  BY <1>1 DEF ClientOK, LeaseOK, IInv, TypeOK, Timed
<1>3. s.snap.at \in Nat /\ s.asked \in Nat
  BY <1>1 DEF ClientState, Snap
<1>4. s.asked <= s.snap.at /\ s.snap.at <= now /\ Stored(s.snap.rec, s.snap.at)
  BY <1>1 DEF ClientOK, SnapOK
<1>5. s.snap.rec # None
  BY <1>2, NoneIsNoRecord, PriorAssumption DEF Owned
<1>6. s.snap.rec \notin Prior
  BY <1>2 DEF Owned, PriorLease
<1> QED
  BY <1>2, <1>3, <1>4, <1>5, <1>6 DEF Stored

LEMMA RenewAnsweredKeeps ==
  ASSUME IInv, NEW c \in Client, RenewAnswered(c) PROVE IInv'
<1>0. st[c].pc = "renew" /\ st[c].pc \in Timed /\ st[c].snap.served
  BY DEF RenewAnswered, Timed
<1>1. CASE ~Owned(st[c])
  BY <1>0, <1>1, ThrowsKeeps DEF RenewAnswered
<1>2. CASE Owned(st[c])
  <2> DEFINE r == st[c].snap.rec
             q == [expect |-> r, new |-> Renewal(st[c])]
             s == Sends(st[c], "write", q)
  <2>1. /\ st[c] \in ClientState /\ ClientOK(st[c]) /\ now \in Nat /\ st[c].adv \in Nat
    BY ClientFacts
  <2>2. /\ st[c].lease \in Lease /\ st[c].lease \in issued \ PriorLease
        /\ Written(r, st[c].snap.at) /\ r.lease = st[c].lease
        /\ st[c].snap.at \in Nat /\ st[c].snap.at <= now
    BY <1>0, <1>2, OwnedFacts DEF Owned
  <2>3. /\ q.new \in Record /\ q.new.lease = st[c].lease /\ q.new.heartbeat = st[c].adv
        /\ q.new.renewedAt = st[c].snap.at /\ q.new.expiresAt = st[c].snap.at + Ttl
    BY <2>1, <2>2, NewRecordTyped DEF Renewal
  <2>4. r \in Record /\ r # None
    BY <2>2, NoneIsNoRecord DEF Written
  <2>5. q \in Request /\ q.expect = r
    BY <2>3, <2>4 DEF Request
  <2>6. (st[c].adv = 0) <=> (Heartbeat = 0)
    BY <1>0, <2>1 DEF ClientOK, CadenceOK
  <2>7. r.heartbeat <= st[c].adv
    BY <1>0, <2>1, <2>2, <2>4 DEF ClientOK, CadenceOK, Cadence
  <2>8. SafeUntil(r) <= SafeUntil(q.new)
    BY <2>1, <2>2, <2>4, <2>6, <2>7, RenewalExtends DEF Written, Renewal
  <2> HIDE DEF q
  <2>9. /\ s \in ClientState /\ s.pc = "write" /\ s.lease = st[c].lease
        /\ s.adv = st[c].adv /\ s.snap = NoSnap /\ s.req = q
    BY <2>1, <2>5, SendsTyped DEF PC
  <2>10. st' = [st EXCEPT ![c] = s] /\ UNCHANGED <<now, rec, late, issued, windows>>
    BY <1>2 DEF RenewAnswered, Goes, q
  <2> HIDE DEF s, r
  <2>11. LeaseOK(s) /\ SnapOK(s)
    BY <2>2, <2>9 DEF LeaseOK, SnapOK, Timed
  <2>12. CadenceOK(s)
    BY <1>0, <2>1, <2>3, <2>6, <2>9 DEF ClientOK, CadenceOK, Cadence, NoSnap
  <2>13. ReqOK(s)
    BY <2>1, <2>2, <2>3, <2>4, <2>5, <2>6, <2>8, <2>9 DEF ReqOK, RenewOK, Written
  <2> QED
    BY <2>9, <2>10, <2>11, <2>12, <2>13, LocalStep DEF ClientOK
<1> QED
  BY <1>1, <1>2

LEMMA ReleaseAnsweredKeeps ==
  ASSUME IInv, NEW c \in Client, ReleaseAnswered(c) PROVE IInv'
<1>1. CASE rec.lease # st[c].lease
  BY <1>1, GivesUpKeeps DEF ReleaseAnswered
<1>2. CASE rec.lease = st[c].lease
  <2> DEFINE q == [expect |-> rec, new |-> None]
             s == Sends(st[c], "remove", q)
  <2>1. /\ st[c] \in ClientState /\ ClientOK(st[c]) /\ st[c].pc = "release"
        /\ rec \in Record \cup {None}
    BY ClientFacts DEF ReleaseAnswered
  <2>2. rec # None
    BY <1>2, <2>1, NoneIsNoRecord, PriorAssumption DEF ClientOK, LeaseOK, IInv, TypeOK
  <2>3. q \in Request /\ q.expect = rec /\ q.new = None
    BY <2>1 DEF Request
  <2> HIDE DEF q
  <2>4. /\ s \in ClientState /\ s.pc = "remove" /\ s.lease = st[c].lease
        /\ s.adv = st[c].adv /\ s.snap = NoSnap /\ s.req = q
    <3>1. "remove" \in PC
      BY DEF PC
    <3> QED
      BY <2>1, <2>3, <3>1, SendsTyped
  <2>5. st' = [st EXCEPT ![c] = s] /\ UNCHANGED <<now, rec, late, issued, windows>>
    BY <1>2 DEF ReleaseAnswered, Goes, q
  <2> HIDE DEF s
  <2>6. LeaseOK(s) /\ SnapOK(s) /\ ReqOK(s)
    BY <1>2, <2>1, <2>2, <2>3, <2>4 DEF ClientOK, LeaseOK, SnapOK, ReqOK, Timed
  <2>7. CadenceOK(s)
    BY <2>1, <2>4 DEF ClientOK, CadenceOK, Cadence, Timed, NoSnap
  <2> QED
    BY <2>4, <2>5, <2>6, <2>7, LocalStep DEF ClientOK
<1> QED
  BY <1>1, <1>2

-----------------------------------------------------------------------------
(* Windows.                                                                 *)

\* When a window is granted, the record on the provider covers it.
LEMMA GrantCovered ==
  ASSUME IInv, NEW c \in Client, st[c].pc \in Timed, st[c].snap.served,
         Owned(st[c]), Covers(st[c])
  PROVE  /\ rec # None /\ rec.lease = st[c].lease
         /\ SafeUntil(rec) > now + st[c].need
         /\ now + st[c].need \in Nat /\ now <= now + st[c].need
<1> DEFINE s == st[c]
<1>1. s \in ClientState /\ ClientOK(s) /\ now \in Nat /\ s.need \in Nat /\ rec \in Record \cup {None}
  BY ClientFacts DEF ClientState
<1>2. /\ Written(s.snap.rec, s.snap.at) /\ s.snap.at \in Nat /\ s.snap.at <= now
      /\ s.asked \in Nat /\ s.asked <= s.snap.at /\ s.lease \in Lease
  BY OwnedFacts
<1>3. s.snap.rec \in Record /\ SafeUntil(s.snap.rec) \in Nat
  BY <1>2, SafeUntilBound DEF Written
<1>4. SafeUntil(s.snap.rec) > now + s.need
  BY <1>1, <1>2, <1>3 DEF Covers, ReadAge
<1>5. rec.lease = s.lease /\ SafeUntil(s.snap.rec) <= SafeUntil(rec)
  BY <1>1, <1>3, <1>4 DEF ClientOK, SnapOK, Owned
<1>6. rec # None
  BY <1>2, <1>5, NoneIsNoRecord, PriorAssumption
<1>7. SafeUntil(rec) \in Nat
  BY <1>1, <1>6, SafeUntilBound
<1> QED
  BY <1>1, <1>3, <1>4, <1>5, <1>6, <1>7

LEMMA GrantKeeps ==
  ASSUME IInv, NEW c \in Client, st[c].pc \in Timed, st[c].snap.served,
         Owned(st[c]), Covers(st[c]), Goes(c, Holds(st[c])), Granted(st[c]),
         UNCHANGED <<rec, late>>
  PROVE  IInv'
<1> DEFINE s == Holds(st[c])
           w == [lease |-> st[c].lease, until |-> now + st[c].need]
<1>1. /\ s \in ClientState /\ s.pc = "held" /\ s.lease = st[c].lease /\ s.adv = st[c].adv
      /\ s.snap = NoSnap
  BY ClientFacts, HoldsTyped
<1>2. st[c].lease \in Lease /\ st[c].lease \in issued \ PriorLease
  BY OwnedFacts
<1>3. st' = [st EXCEPT ![c] = s] /\ UNCHANGED <<now, rec, late, issued>>
  BY DEF Goes
<1>4. windows' = windows \cup {w} /\ w.lease = st[c].lease /\ w.until = now + st[c].need
  BY DEF Granted
<1>5. w \in [lease : Lease, until : Nat]
  BY <1>2, GrantCovered
<1>6. ClientOK(s)
  BY <1>1, ClientFacts, HolderOK DEF Timed
<1> HIDE DEF s, w
<1>7. TypeOK'
  BY <1>1, <1>3, <1>4, <1>5 DEF IInv, TypeOK
<1>8. \A d \in Client : st'[d] = IF d = c THEN s ELSE st[d]
  BY <1>3 DEF IInv, TypeOK
<1>9. Stored(rec, now)' /\ (PriorLease \subseteq issued)'
  BY <1>3 DEF IInv, Stored, Written
<1>10. Unique'
  BY <1>1, <1>8 DEF IInv, Unique
<1>11. ASSUME NEW d \in Client PROVE ClientOK(st[d])'
  <2> DEFINE t == IF d = c THEN s ELSE st[d]
  <2>1. ClientOK(t)
    BY <1>6 DEF IInv
  <2>2. t.pc \in {"release", "remove"} => t.lease # w.lease
    <3>1. CASE d = c
      BY <1>1, <3>1
    <3>2. CASE d # c
      BY <1>2, <1>4, <3>2, PriorAssumption DEF IInv, Unique
    <3> QED
      BY <3>1, <3>2
  <2> HIDE DEF t
  <2>3. st'[d] = t
    BY <1>8 DEF t
  <2>4. LeaseOK(st[d])'
    BY <1>3, <1>4, <2>1, <2>2, <2>3 DEF ClientOK, LeaseOK
  <2>5. SnapOK(st[d])' /\ ReqOK(st[d])' /\ CadenceOK(st[d])'
    BY <1>3, <2>1, <2>3 DEF ClientOK, CadenceOK, SnapOK, ReqOK, Written, Stored, ClaimOK, RenewOK, Cadence
  <2> QED
    BY <2>4, <2>5 DEF ClientOK
<1>12. LateOK'
  <2> SUFFICES ASSUME NEW q \in late
               PROVE  \/ Written(q.new, now)' /\ (ClaimOK(q) \/ RenewOK(q))'
                      \/ q.new = None /\ q.expect # None /\ Retired(q.expect.lease)'
    BY <1>3 DEF LateOK, LateReq
  <2>1. CASE Written(q.new, now) /\ (ClaimOK(q) \/ RenewOK(q))
    BY <1>3, <2>1 DEF Written, ClaimOK, RenewOK
  <2>2. CASE q.new = None /\ q.expect # None /\ Retired(q.expect.lease)
    BY <1>1, <1>3, <1>4, <1>8, <2>2 DEF Retired
  <2> QED
    BY <2>1, <2>2 DEF IInv, LateOK, LateReq
<1>13. WindowsOK'
  BY <1>2, <1>3, <1>4, GrantCovered DEF IInv, WindowsOK
<1> QED
  BY <1>7, <1>9, <1>10, <1>11, <1>12, <1>13 DEF IInv

LEMMA CheckAnsweredKeeps ==
  ASSUME IInv, NEW c \in Client, CheckAnswered(c) PROVE IInv'
<1> DEFINE s == st[c]
<1>0. s.pc \in Timed /\ s.snap.served /\ UNCHANGED <<rec, late>>
  BY DEF CheckAnswered, Timed
<1>1. CASE Goes(c, Throws(s)) /\ UNCHANGED windows
  BY <1>0, <1>1, ThrowsKeeps
<1>2. CASE Owned(s) /\ Covers(s) /\ Goes(c, Holds(s)) /\ Granted(s)
  BY <1>0, <1>2, GrantKeeps
<1>3. CASE Goes(c, [Ask(s, "renew") EXCEPT !.adv = Advertise(s.adv, s.need)]) /\ UNCHANGED windows
  <2>1. s \in ClientState /\ s.adv \in Nat /\ s.need \in Nat
        /\ s.op \in {"none", "heartbeat", "renew", "assert"}
    BY ClientFacts DEF ClientState
  <2> DEFINE a == Advertise(s.adv, s.need)
             n == [Ask(s, "renew") EXCEPT !.adv = a]
  <2>2. a \in Nat /\ s.adv <= a /\ ((s.adv = 0) <=> (a = 0))
    BY <2>1, AdvertiseGrows
  <2>3. /\ Ask(s, "renew") \in ClientState /\ Ask(s, "renew").pc = "renew"
        /\ Ask(s, "renew").lease = s.lease /\ Ask(s, "renew").snap = NoSnap
        /\ Ask(s, "renew").asked = now
    BY <2>1, AskTyped DEF IInv, PC, Timed
  <2>4. /\ n \in ClientState /\ n.pc = "renew" /\ n.lease = s.lease /\ n.adv = a
        /\ n.snap = NoSnap /\ n.asked = now
    BY <2>2, <2>3 DEF ClientState
  <2>5. st' = [st EXCEPT ![c] = n] /\ UNCHANGED <<now, rec, late, issued, windows>>
    BY <1>0, <1>3 DEF Goes
  <2>6. n.pc \in Timed
    BY <2>4 DEF Timed
  <2> HIDE DEF n, a
  <2> QED
    BY <1>0, <2>2, <2>4, <2>5, <2>6, HolderStep
<1> QED
  BY <1>1, <1>2, <1>3 DEF CheckAnswered

LEMMA VerifyAnsweredKeeps ==
  ASSUME IInv, NEW c \in Client, VerifyAnswered(c) PROVE IInv'
<1> DEFINE s == st[c]
<1>0. s.pc \in Timed /\ s.snap.served /\ UNCHANGED <<rec, late>>
  BY DEF VerifyAnswered, Timed
<1>1. CASE (Goes(c, Throws(s)) \/ Goes(c, Holds(s))) /\ UNCHANGED windows
  BY <1>0, <1>1, ThrowsKeeps
<1>2. CASE Owned(s) /\ Covers(s) /\ Goes(c, Holds(s)) /\ Granted(s)
  BY <1>0, <1>2, GrantKeeps
<1> QED
  BY <1>1, <1>2 DEF VerifyAnswered

-----------------------------------------------------------------------------
(* Steps that change what clients share.                                    *)

\* What a step may do to the record, as the holder of lease l sees it.
Moved(l) ==
  \/ rec' = rec
  \/ rec' = None /\ rec # None /\ rec.lease # l
  \/ /\ rec # None /\ rec' # None
     /\ rec'.lease = rec.lease /\ SafeUntil(rec) <= SafeUntil(rec')
  \/ rec = None \/ SafeUntil(rec) <= now \/ rec.lease \in PriorLease

\* A client that takes no part in such a step.
LEMMA ClientStays ==
  ASSUME IInv, NEW d \in Client, st'[d] = st[d],
         now' \in Nat, now <= now', issued \subseteq issued', windows' \subseteq windows,
         rec' \in Record \cup {None}, Moved(st[d].lease),
         rec' # None /\ rec'.lease = st[d].lease => rec' = rec \/ rec'.heartbeat <= Cadence(st[d]),
         \A q \in late' : \/ q \in late \/ q.new = None \/ q.new.lease # st[d].lease
                          \/ q.new.heartbeat <= Cadence(st[d])
  PROVE  ClientOK(st[d])'
<1> DEFINE s == st[d]
<1>1. s \in ClientState /\ ClientOK(s) /\ now \in Nat /\ rec \in Record \cup {None}
  BY ClientFacts
<1>2. LeaseOK(st[d])'
  BY <1>1 DEF ClientOK, LeaseOK
<1>3. Cadence(st[d])' = Cadence(st[d])
  BY DEF Cadence
<1>4. CadenceOK(st[d])'
  BY <1>1, <1>3 DEF ClientOK, CadenceOK
<1>5. \A r, t : Written(r, t) => Written(r, t)'
  BY DEF Written
<1>6. ReqOK(st[d])'
  <2>1. s.pc \in {"claim", "write"} => Written(s.req.new, now)'
    BY <1>1 DEF ClientOK, ReqOK, Written, Record
  <2>2. s.pc = "claim" => ClaimOK(s.req)'
    <3> SUFFICES ASSUME s.pc = "claim" PROVE ClaimOK(s.req)'
      OBVIOUS
    <3>1. ClaimOK(s.req) /\ s.req.expect \in Record \cup {None}
      BY <1>1 DEF ClientOK, ReqOK, ClientState, Request
    <3>2. CASE s.req.expect # None /\ SafeUntil(s.req.expect) <= now
      BY <1>1, <3>1, <3>2, SafeUntilBound DEF ClaimOK
    <3>3. 0..now \subseteq 0..now'
      BY <1>1
    <3> QED
      BY <3>1, <3>2, <3>3 DEF ClaimOK
  <2> QED
    BY <1>1, <2>1, <2>2 DEF ClientOK, ReqOK, RenewOK
<1>7. SnapOK(st[d])'
  <2> SUFFICES ASSUME s.pc \in Timed PROVE SnapOK(st[d])'
    BY DEF SnapOK
  <2>1. s.asked \in Nat /\ s.asked <= now
    BY <1>1 DEF ClientOK, SnapOK, ClientState
  <2>2. CASE ~s.snap.served
    BY <1>1, <2>1, <2>2 DEF SnapOK
  <2>3. CASE s.snap.served
    <3>1. /\ s.asked <= s.snap.at /\ s.snap.at <= now /\ s.snap.at \in Nat
          /\ Stored(s.snap.rec, s.snap.at)
      BY <1>1, <2>3 DEF ClientOK, SnapOK, ClientState, Snap
    <3>2. Stored(s.snap.rec, s.snap.at)'
      BY <3>1, <1>5 DEF Stored, Written
    <3>3. ASSUME s.snap.rec.lease = s.lease, SafeUntil(s.snap.rec) > now'
          PROVE  rec'.lease = s.lease /\ SafeUntil(s.snap.rec) <= SafeUntil(rec')
      <4>1. s.lease \in Lease /\ s.lease \notin PriorLease /\ s.lease # "none"
        BY <1>1, PriorAssumption DEF ClientOK, LeaseOK, IInv, TypeOK, Timed
      <4>2. s.snap.rec \in Record
        BY <1>1, <3>3, <4>1, NoneIsNoRecord DEF ClientState, Snap
      <4>3. SafeUntil(s.snap.rec) \in Nat
        BY <4>2, SafeUntilBound
      <4>4. SafeUntil(s.snap.rec) > now
        BY <1>1, <3>3, <4>3
      <4>5. rec.lease = s.lease /\ SafeUntil(s.snap.rec) <= SafeUntil(rec)
        BY <1>1, <2>3, <3>3, <4>4 DEF ClientOK, SnapOK
      <4>6. rec # None /\ rec \in Record
        BY <1>1, <4>1, <4>5, NoneIsNoRecord
      <4>7. SafeUntil(rec) \in Nat
        BY <4>6, SafeUntilBound
      <4>8. ~(rec = None \/ SafeUntil(rec) <= now \/ rec.lease \in PriorLease)
        BY <1>1, <4>1, <4>3, <4>4, <4>5, <4>6, <4>7
      <4>9. CASE rec' = rec
        BY <4>5, <4>9
      <4>10. CASE rec' # None /\ rec'.lease = rec.lease /\ SafeUntil(rec) <= SafeUntil(rec')
        BY <4>3, <4>5, <4>7, <4>10, SafeUntilBound
      <4> QED
        BY <4>5, <4>8, <4>9, <4>10 DEF Moved
    <3>4. s.asked <= now' /\ s.snap.at <= now'
      BY <1>1, <2>1, <3>1
    <3> QED
      BY <3>1, <3>2, <3>3, <3>4 DEF SnapOK
  <2> QED
    BY <2>2, <2>3
<1> QED
  BY <1>2, <1>4, <1>6, <1>7 DEF ClientOK

\* A request that may still arrive stays a harmless one.
LEMMA LateStays ==
  ASSUME IInv, NEW q \in Request, LateReq(q),
         now' \in Nat, now <= now', issued \subseteq issued', windows' \subseteq windows,
         \A d \in Client : st'[d].lease \in {st[d].lease, "none"} \/ st'[d].lease \notin issued
  PROVE  LateReq(q)'
<1>1. now \in Nat /\ q.expect \in Record \cup {None}
  BY DEF IInv, TypeOK, Request
<1>2. ClaimOK(q) => ClaimOK(q)'
  <2>1. CASE q.expect # None /\ SafeUntil(q.expect) <= now
    BY <1>1, <2>1, SafeUntilBound DEF ClaimOK
  <2>2. 0..now \subseteq 0..now'
    BY <1>1
  <2> QED
    BY <2>1, <2>2 DEF ClaimOK
<1>3. Written(q.new, now) => Written(q.new, now)'
  BY <1>1 DEF Written, Record
<1>4. RenewOK(q) => RenewOK(q)'
  BY DEF RenewOK
<1>5. ASSUME q.expect # None, Retired(q.expect.lease) PROVE Retired(q.expect.lease)'
  <2>1. q.expect.lease # "none"
    BY <1>1, <1>5, PriorAssumption DEF Record
  <2> QED
    BY <1>5, <2>1 DEF Retired
<1> QED
  BY <1>2, <1>3, <1>4, <1>5 DEF LateReq

\* The windows stay covered by whatever replaces the record.
LEMMA WindowsStay ==
  ASSUME IInv, now' = now, issued \subseteq issued', windows' \subseteq windows,
         rec' \in Record \cup {None}, \A w \in windows' : Moved(w.lease)
  PROVE  WindowsOK'
<1> SUFFICES ASSUME NEW w \in windows' PROVE rec' # None /\ rec'.lease = w.lease /\ SafeUntil(rec') > w.until
  BY DEF IInv, WindowsOK
<1>1. /\ now <= w.until /\ w.lease \notin PriorLease /\ rec # None
      /\ rec.lease = w.lease /\ SafeUntil(rec) > w.until
      /\ w.until \in Nat /\ rec \in Record /\ now \in Nat
  BY DEF IInv, WindowsOK, TypeOK
<1>2. SafeUntil(rec) \in Nat
  BY <1>1, SafeUntilBound
<1>3. CASE rec' # None /\ rec'.lease = rec.lease /\ SafeUntil(rec) <= SafeUntil(rec')
  BY <1>1, <1>2, <1>3, SafeUntilBound
<1>4. ~(SafeUntil(rec) <= now)
  BY <1>1, <1>2
<1> QED
  BY <1>1, <1>3, <1>4 DEF Moved

LEMMA TickKeeps ==
  ASSUME IInv, Tick PROVE IInv'
<1>1. now \in Nat /\ now' = now + 1 /\ now' \in Nat /\ now <= now'
  BY DEF IInv, TypeOK, Tick
<1>2. windows' = {w \in windows : now' <= w.until} /\ UNCHANGED <<rec, late, issued, st>>
  BY DEF Tick
<1>3. TypeOK'
  BY <1>1, <1>2 DEF IInv, TypeOK
<1>4. Stored(rec, now)' /\ (PriorLease \subseteq issued)' /\ Unique'
  BY <1>1, <1>2 DEF IInv, Stored, Written, Record, Unique
<1>5. \A d \in Client : ClientOK(st[d])'
  BY <1>1, <1>2, <1>3, ClientStays DEF Moved, TypeOK
<1>6. LateOK'
  BY <1>1, <1>2, LateStays DEF IInv, TypeOK, LateOK
<1>7. WindowsOK'
  BY <1>2 DEF IInv, WindowsOK
<1> QED
  BY <1>3, <1>4, <1>5, <1>6, <1>7 DEF IInv

LEMMA AcquireKeeps ==
  ASSUME IInv, NEW c \in Client, Acquire(c) PROVE IInv'
<1>1. PICK l \in Lease \ issued :
        /\ issued' = issued \cup {l}
        /\ st' = [st EXCEPT ![c] = [Ask(Off, "acquire") EXCEPT !.lease = l]]
  BY DEF Acquire
<1>2. UNCHANGED <<now, rec, late, windows>> /\ now \in Nat /\ now <= now
  BY DEF Acquire, IInv, TypeOK
<1> DEFINE s == [Ask(Off, "acquire") EXCEPT !.lease = l]
<1>3. /\ Ask(Off, "acquire") \in ClientState /\ Ask(Off, "acquire").pc = "acquire"
      /\ Ask(Off, "acquire").snap = NoSnap
  BY OffTyped, AskTyped DEF IInv, PC, Untimed
<1>4. s \in ClientState /\ s.pc = "acquire" /\ s.lease = l /\ s.snap = NoSnap
  BY <1>3 DEF ClientState
<1>5. st' = [st EXCEPT ![c] = s]
  BY <1>1
<1> HIDE DEF s
<1>6. TypeOK'
  BY <1>1, <1>2, <1>4, <1>5 DEF IInv, TypeOK
<1>7. \A d \in Client : st'[d] = IF d = c THEN s ELSE st[d]
  BY <1>5 DEF IInv, TypeOK
<1>8. Stored(rec, now)' /\ (PriorLease \subseteq issued)'
  BY <1>1, <1>2 DEF IInv, Stored, Written
<1>9. \A d \in Client : st[d].lease \in issued \cup {"none"}
  BY DEF IInv, ClientOK, LeaseOK
<1>10. Unique'
  BY <1>1, <1>4, <1>7, <1>9, PriorAssumption DEF IInv, Unique
<1>11. ASSUME NEW d \in Client PROVE ClientOK(st[d])'
  <2>1. CASE d # c
    BY <1>1, <1>2, <1>7, <2>1, ClientStays DEF IInv, TypeOK, Moved
  <2>2. CASE d = c
    <3>1. rec # None => rec.lease \in issued
      BY DEF IInv, Stored, Written, PriorLease
    <3>2. \A q \in late : q.new # None => q.new.lease \in issued
      BY DEF IInv, LateOK, LateReq, Written
    <3>3. s.snap.rec = None
      BY <1>4 DEF NoSnap
    <3>4. st'[d] = s
      BY <1>7, <2>2
    <3>5. LeaseOK(st[d])'
      <4>1. l \notin PriorLease /\ l \in issued'
        BY <1>1 DEF IInv
      <4> QED
        BY <1>4, <3>4, <4>1 DEF LeaseOK
    <3>6. SnapOK(st[d])' /\ ReqOK(st[d])'
      BY <1>4, <3>4 DEF SnapOK, ReqOK, Timed
    <3>7. CadenceOK(st[d])'
      <4>1. ~(rec # None /\ rec.lease = s.lease) /\ \A q \in late : ~(q.new # None /\ q.new.lease = s.lease)
        BY <1>1, <1>4, <3>1, <3>2
      <4>2. s.pc \notin Timed \cup {"held", "write", "claim"}
        BY <1>4 DEF Timed
      <4> QED
        BY <1>2, <3>3, <3>4, <4>1, <4>2 DEF CadenceOK
    <3> QED
      BY <3>5, <3>6, <3>7 DEF ClientOK
  <2> QED
    BY <2>1, <2>2
<1>12. LateOK'
  BY <1>1, <1>2, <1>4, <1>7, LateStays DEF IInv, TypeOK, LateOK
<1>13. WindowsOK'
  BY <1>1, <1>2 DEF IInv, WindowsOK
<1> QED
  BY <1>6, <1>8, <1>10, <1>11, <1>12, <1>13 DEF IInv

LEMMA ReleaseKeeps ==
  ASSUME IInv, NEW c \in Client, Release(c) PROVE IInv'
<1> DEFINE s == Ask(st[c], "release")
<1>1. /\ UNCHANGED <<now, rec, late, issued>> /\ now \in Nat /\ now <= now
      /\ st' = [st EXCEPT ![c] = s]
      /\ windows' = {w \in windows : w.lease # st[c].lease}
  BY DEF Release, Goes, IInv, TypeOK
<1>2. st[c] \in ClientState /\ ClientOK(st[c]) /\ st[c].pc = "held"
  BY ClientFacts DEF Release
<1>3. s \in ClientState /\ s.pc = "release" /\ s.lease = st[c].lease /\ s.snap = NoSnap
      /\ s.adv = st[c].adv
  BY <1>2, AskTyped DEF IInv, PC, Untimed
<1> HIDE DEF s
<1>4. TypeOK'
  BY <1>1, <1>3 DEF IInv, TypeOK
<1>5. \A d \in Client : st'[d] = IF d = c THEN s ELSE st[d]
  BY <1>1 DEF IInv, TypeOK
<1>6. Stored(rec, now)' /\ (PriorLease \subseteq issued)' /\ Unique'
  BY <1>1, <1>3, <1>5 DEF IInv, Stored, Written, Unique
<1>7. ASSUME NEW d \in Client PROVE ClientOK(st[d])'
  <2>1. CASE d # c
    BY <1>1, <1>5, <2>1, ClientStays DEF IInv, TypeOK, Moved
  <2>2. CASE d = c
    <3>1. st'[d] = s
      BY <1>5, <2>2
    <3>2. LeaseOK(st[d])'
      BY <1>1, <1>2, <1>3, <3>1 DEF ClientOK, LeaseOK
    <3>3. SnapOK(st[d])' /\ ReqOK(st[d])'
      BY <1>3, <3>1 DEF SnapOK, ReqOK, Timed
    <3>4. CadenceOK(st[d])'
      BY <1>1, <1>2, <1>3, <3>1 DEF ClientOK, CadenceOK, Cadence, Timed, NoSnap
    <3> QED
      BY <3>2, <3>3, <3>4 DEF ClientOK
  <2> QED
    BY <2>1, <2>2
<1>8. LateOK'
  BY <1>1, <1>3, <1>5, LateStays DEF IInv, TypeOK, LateOK
<1>9. WindowsOK'
  BY <1>1 DEF IInv, WindowsOK
<1> QED
  BY <1>4, <1>6, <1>7, <1>8, <1>9 DEF IInv

\* A request whose client gives it up becomes one that may still arrive.
LEMMA UnansweredKeeps ==
  ASSUME IInv, NEW c \in Client, Unanswered(c) PROVE IInv'
<1> DEFINE s == IF st[c].pc = "write" THEN Throws(st[c]) ELSE Off
<1>0. PICK q : q = st[c].req
  OBVIOUS
<1>1. /\ UNCHANGED <<now, rec, issued, windows>> /\ now \in Nat /\ now <= now
      /\ st' = [st EXCEPT ![c] = s] /\ late' = late \cup {q}
      /\ st[c].pc \in {"claim", "write", "remove"}
  BY <1>0 DEF Unanswered, Goes, IInv, TypeOK
<1>2. st[c] \in ClientState /\ ClientOK(st[c]) /\ q \in Request /\ st[c].lease \in issued
  BY <1>0, <1>1, ClientFacts DEF ClientState, ClientOK, LeaseOK
<1>3. /\ s \in ClientState /\ s.snap.rec = None
      /\ s.lease = IF st[c].pc = "write" THEN st[c].lease ELSE "none"
      /\ s.pc = IF st[c].pc = "write" THEN "held" ELSE "off"
      /\ st[c].pc = "write" => s.adv = st[c].adv
  BY <1>2, OffTyped, ThrowsTyped DEF Off, NoSnap
<1>4. ClientOK(s)
  <2>1. CASE st[c].pc = "write"
    BY <1>2, <2>1, ThrowsTyped, ClientFacts, HolderOK DEF Timed
  <2>2. CASE st[c].pc # "write"
    BY <2>2, OffOK
  <2> QED
    BY <2>1, <2>2
<1> HIDE DEF s
<1>5. TypeOK'
  BY <1>1, <1>2, <1>3 DEF IInv, TypeOK
<1>6. \A d \in Client : st'[d] = IF d = c THEN s ELSE st[d]
  BY <1>1 DEF IInv, TypeOK
<1>7. Stored(rec, now)' /\ (PriorLease \subseteq issued)' /\ Unique'
  BY <1>1, <1>3, <1>6 DEF IInv, Stored, Written, Unique
<1>8. st[c].pc \in {"claim", "write"} => q.new.lease = st[c].lease /\ q.new.heartbeat <= Cadence(st[c])
  BY <1>0, <1>2 DEF ClientOK, ReqOK, CadenceOK
<1>9. st[c].pc = "remove" => q.new = None
  BY <1>0, <1>2 DEF ClientOK, ReqOK
<1>10. \A d \in Client : d # c => st[d].lease # st[c].lease
  BY <1>2, PriorAssumption DEF IInv, Unique, TypeOK
<1>11. ASSUME NEW d \in Client PROVE ClientOK(st[d])'
  <2>1. CASE d # c
    <3>1. \A p \in late' : \/ p \in late \/ p.new = None \/ p.new.lease # st[d].lease
      BY <1>1, <1>8, <1>9, <1>10, <2>1
    <3>2. st'[d] = st[d] /\ Moved(st[d].lease) /\ rec' \in Record \cup {None}
      BY <1>1, <1>6, <2>1 DEF Moved, IInv, TypeOK
    <3> QED
      BY <1>1, <3>1, <3>2, ClientStays
  <2>2. CASE d = c
    <3>1. st'[d] = s
      BY <1>6, <2>2
    <3>2. LeaseOK(st[d])' /\ SnapOK(st[d])' /\ ReqOK(st[d])'
      BY <1>1, <1>3, <1>4, <3>1 DEF ClientOK, LeaseOK, SnapOK, ReqOK, Timed
    <3>3. q.new # None /\ q.new.lease = s.lease => q.new.heartbeat <= Cadence(s)
      <4>1. CASE st[c].pc = "write"
        BY <1>3, <1>8, <4>1 DEF Cadence
      <4>2. CASE st[c].pc # "write"
        BY <1>2, <1>3, <4>2, PriorAssumption DEF Request, Record
      <4> QED
        BY <4>1, <4>2
    <3>4. CadenceOK(st[d])'
      BY <1>1, <1>4, <3>1, <3>3 DEF ClientOK, CadenceOK, Cadence
    <3> QED
      BY <3>2, <3>4 DEF ClientOK
  <2> QED
    BY <2>1, <2>2
<1>12. LateReq(q)'
  <2>1. CASE st[c].pc \in {"claim", "write"}
    <3>1. Written(q.new, now) /\ (ClaimOK(q) \/ RenewOK(q))
      BY <1>0, <1>2, <2>1 DEF ClientOK, ReqOK
    <3> QED
      BY <1>1, <3>1 DEF LateReq, Written, ClaimOK, RenewOK
  <2>2. CASE st[c].pc = "remove"
    <3>1. q.new = None /\ q.expect # None /\ q.expect.lease = st[c].lease
          /\ \A w \in windows : w.lease # st[c].lease
      BY <1>0, <1>2, <2>2 DEF ClientOK, ReqOK, LeaseOK
    <3>2. \A d \in Client : st'[d].lease # st[c].lease
      BY <1>2, <1>3, <1>6, <1>10, <2>2, PriorAssumption DEF IInv, TypeOK
    <3> QED
      BY <1>1, <1>2, <3>1, <3>2 DEF LateReq, Retired
  <2> QED
    BY <1>1, <2>1, <2>2
<1>13. LateOK'
  <2>1. \A p \in late : LateReq(p)'
    BY <1>1, <1>3, <1>6, LateStays DEF IInv, TypeOK, LateOK
  <2> QED
    BY <1>1, <1>12, <2>1 DEF LateOK
<1>14. WindowsOK'
  BY <1>1 DEF IInv, WindowsOK
<1> QED
  BY <1>5, <1>7, <1>11, <1>13, <1>14 DEF IInv

-----------------------------------------------------------------------------
(* Steps of the provider: a request takes effect.                           *)

\* A claim or a renewal that takes effect harms no holder.
LEMMA EffectMoves ==
  ASSUME NEW q, rec = q.expect, rec' = q.new,
         Written(q.new, now), ClaimOK(q) \/ RenewOK(q)
  PROVE  \A l : Moved(l)
<1>1. rec' # None
  BY NoneIsNoRecord DEF Written
<1> QED
  BY <1>1 DEF Moved, ClaimOK, RenewOK

LEMMA WriteKeeps ==
  ASSUME IInv, NEW c \in Client, st[c].pc \in {"claim", "write"},
         rec = st[c].req.expect, rec' = st[c].req.new,
         UNCHANGED <<now, late, issued, windows>>,
         NEW s \in ClientState, st' = [st EXCEPT ![c] = s], ClientOK(s),
         s.pc \in {"confirm", "verify"}, s.lease = st[c].lease, s.snap = NoSnap,
         Cadence(s) = Cadence(st[c])
  PROVE  IInv'
<1>0. PICK q : q = st[c].req
  OBVIOUS
<1>1. st[c] \in ClientState /\ ClientOK(st[c]) /\ q \in Request /\ st[c].lease \in issued /\ now \in Nat
  BY <1>0, ClientFacts DEF ClientState, ClientOK, LeaseOK
<1>2. /\ Written(q.new, now) /\ q.new.lease = st[c].lease /\ (ClaimOK(q) \/ RenewOK(q))
      /\ q.new.heartbeat <= Cadence(st[c]) /\ q.new \in Record
  BY <1>0, <1>1 DEF ClientOK, ReqOK, CadenceOK, Written
<1>3. \A l : Moved(l)
  BY <1>0, <1>2, EffectMoves
<1>4. rec' = q.new /\ rec' \in Record
  BY <1>0, <1>2
<1>5. TypeOK'
  BY <1>4 DEF IInv, TypeOK
<1>6. \A d \in Client : st'[d] = IF d = c THEN s ELSE st[d]
  BY DEF IInv, TypeOK
<1>7. Stored(rec, now)' /\ (PriorLease \subseteq issued)' /\ Unique'
  BY <1>2, <1>4, <1>6 DEF IInv, Stored, Written, Unique
<1>8. \A d \in Client : d # c => st[d].lease # st[c].lease
  BY <1>1, PriorAssumption DEF IInv, Unique, TypeOK
<1>9. ASSUME NEW d \in Client PROVE ClientOK(st[d])'
  <2>1. CASE d # c
    <3>1. rec'.lease # st[d].lease
      BY <1>2, <1>4, <1>8, <2>1
    <3> QED
      BY <1>1, <1>3, <1>4, <1>6, <2>1, <3>1, ClientStays
  <2>2. CASE d = c
    <3>1. st'[d] = s
      BY <1>6, <2>2
    <3>2. LeaseOK(st[d])'
      BY <3>1 DEF ClientOK, LeaseOK
    <3>3. SnapOK(st[d])' /\ ReqOK(st[d])'
      BY <3>1 DEF ClientOK, SnapOK, ReqOK, NoSnap
    <3>4. CadenceOK(st[d])'
      <4>1. Cadence(st[d])' = Cadence(s)
        BY <3>1 DEF Cadence
      <4> QED
        BY <1>2, <1>4, <3>1, <4>1 DEF ClientOK, CadenceOK
    <3> QED
      BY <3>2, <3>3, <3>4 DEF ClientOK
  <2> QED
    BY <2>1, <2>2
<1>10. LateOK'
  BY <1>1, <1>6, LateStays DEF IInv, TypeOK, LateOK
<1>11. WindowsOK'
  BY <1>3, <1>4, WindowsStay
<1> QED
  BY <1>5, <1>7, <1>9, <1>10, <1>11 DEF IInv

\* The claimant between its reads and its write.
LEMMA ClaimantOK ==
  ASSUME IInv, NEW c \in Client, st[c].pc = "claim", NEW s \in ClientState,
         s.pc \in {"acquire", "confirm"}, s.lease = st[c].lease, s.snap = NoSnap
  PROVE  ClientOK(s)
<1>1. ClientOK(st[c])
  BY ClientFacts
<1>2. LeaseOK(s) /\ SnapOK(s) /\ ReqOK(s)
  BY <1>1 DEF ClientOK, LeaseOK, SnapOK, ReqOK, Timed
<1>3. CadenceOK(s)
  BY <1>1 DEF ClientOK, CadenceOK, Cadence, Timed, NoSnap
<1> QED
  BY <1>2, <1>3 DEF ClientOK

LEMMA ClaimAnsweredKeeps ==
  ASSUME IInv, NEW c \in Client, ClaimAnswered(c) PROVE IInv'
<1>1. /\ st[c] \in ClientState /\ st[c].pc = "claim" /\ UNCHANGED <<now, late, issued, windows>>
      /\ "confirm" \in PC /\ "acquire" \in PC
  BY ClientFacts DEF ClaimAnswered, Goes, PC, Untimed
<1>2. CASE rec = st[c].req.expect
  <2> DEFINE s == [Ask(st[c], "confirm") EXCEPT !.req = st[c].req]
  <2>1. rec' = st[c].req.new /\ st' = [st EXCEPT ![c] = s]
    BY <1>2 DEF ClaimAnswered, Goes
  <2>2. /\ Ask(st[c], "confirm") \in ClientState /\ Ask(st[c], "confirm").pc = "confirm"
        /\ Ask(st[c], "confirm").lease = st[c].lease /\ Ask(st[c], "confirm").snap = NoSnap
    BY <1>1, AskTyped DEF IInv
  <2>3. s \in ClientState /\ s.pc = "confirm" /\ s.lease = st[c].lease /\ s.snap = NoSnap
    BY <1>1, <2>2 DEF ClientState
  <2> HIDE DEF s
  <2>4. ClientOK(s)
    BY <1>1, <2>3, ClaimantOK
  <2>5. Cadence(s) = Cadence(st[c])
    BY <1>1, <2>3 DEF Cadence
  <2> QED
    BY <1>1, <1>2, <2>1, <2>3, <2>4, <2>5, WriteKeeps
<1>3. CASE rec # st[c].req.expect /\ st[c].tries + 1 < MaxAttempts
  <2> DEFINE s == [Ask(st[c], "acquire") EXCEPT !.tries = st[c].tries + 1]
  <2>1. st' = [st EXCEPT ![c] = s] /\ UNCHANGED rec
    BY <1>3 DEF ClaimAnswered, Goes
  <2>2. /\ Ask(st[c], "acquire") \in ClientState /\ Ask(st[c], "acquire").pc = "acquire"
        /\ Ask(st[c], "acquire").lease = st[c].lease /\ Ask(st[c], "acquire").snap = NoSnap
    BY <1>1, AskTyped DEF IInv
  <2>3. s \in ClientState /\ s.pc = "acquire" /\ s.lease = st[c].lease /\ s.snap = NoSnap
    BY <1>1, <2>2 DEF ClientState
  <2> HIDE DEF s
  <2>4. ClientOK(s)
    BY <1>1, <2>3, ClaimantOK
  <2> QED
    BY <1>1, <2>1, <2>3, <2>4, LocalStep
<1>4. CASE rec # st[c].req.expect /\ ~(st[c].tries + 1 < MaxAttempts)
  BY <1>1, <1>4, GivesUpKeeps DEF ClaimAnswered
<1> QED
  BY <1>2, <1>3, <1>4

LEMMA WriteAnsweredKeeps ==
  ASSUME IInv, NEW c \in Client, WriteAnswered(c) PROVE IInv'
<1>1. /\ st[c] \in ClientState /\ st[c].pc = "write" /\ UNCHANGED <<now, late, issued, windows>>
      /\ "verify" \in PC /\ "verify" \in Timed /\ st[c].adv \in Nat /\ st[c].adv <= st[c].adv
  BY ClientFacts DEF WriteAnswered, Goes, PC, Timed
<1>2. CASE rec = st[c].req.expect
  <2> DEFINE s == [Ask(st[c], "verify") EXCEPT !.req = st[c].req]
  <2>1. rec' = st[c].req.new /\ st' = [st EXCEPT ![c] = s]
    BY <1>2 DEF WriteAnswered, Goes
  <2>2. /\ Ask(st[c], "verify") \in ClientState /\ Ask(st[c], "verify").pc = "verify"
        /\ Ask(st[c], "verify").lease = st[c].lease /\ Ask(st[c], "verify").snap = NoSnap
        /\ Ask(st[c], "verify").asked = now /\ Ask(st[c], "verify").adv = st[c].adv
    BY <1>1, AskTyped DEF IInv
  <2>3. /\ s \in ClientState /\ s.pc = "verify" /\ s.lease = st[c].lease /\ s.snap = NoSnap
        /\ s.asked = now /\ s.adv = st[c].adv
    BY <1>1, <2>2 DEF ClientState
  <2> HIDE DEF s
  <2>4. ClientOK(s)
    BY <1>1, <2>3, HolderOK
  <2>5. Cadence(s) = Cadence(st[c])
    BY <1>1, <2>3 DEF Cadence
  <2> QED
    BY <1>1, <1>2, <2>1, <2>3, <2>4, <2>5, WriteKeeps
<1>3. CASE rec # st[c].req.expect
  BY <1>1, <1>3, ThrowsKeeps DEF WriteAnswered
<1> QED
  BY <1>2, <1>3

LEMMA RemoveAnsweredKeeps ==
  ASSUME IInv, NEW c \in Client, RemoveAnswered(c) PROVE IInv'
<1>1. /\ st[c] \in ClientState /\ ClientOK(st[c]) /\ st[c].pc = "remove" /\ now \in Nat
      /\ UNCHANGED <<now, late, issued, windows>> /\ st' = [st EXCEPT ![c] = Off]
  BY ClientFacts DEF RemoveAnswered, Goes
<1>2. CASE rec # st[c].req.expect
  BY <1>2, GivesUpKeeps DEF RemoveAnswered
<1>3. CASE rec = st[c].req.expect
  <2>1. rec' = None /\ rec # None /\ rec.lease = st[c].lease /\ st[c].lease \in issued
        /\ \A w \in windows : w.lease # rec.lease
    BY <1>1, <1>3 DEF RemoveAnswered, ClientOK, ReqOK, LeaseOK
  <2>2. TypeOK'
    BY <1>1, <2>1, OffTyped DEF IInv, TypeOK
  <2>3. \A d \in Client : st'[d] = IF d = c THEN Off ELSE st[d]
    BY <1>1 DEF IInv, TypeOK
  <2>4. Off.lease = "none" /\ Off.pc = "off" /\ Off.snap.rec = None
    BY DEF Off, NoSnap
  <2>5. Stored(rec, now)' /\ (PriorLease \subseteq issued)' /\ Unique'
    BY <1>1, <2>1, <2>3, <2>4 DEF IInv, Stored, Unique
  <2>6. ASSUME NEW d \in Client PROVE ClientOK(st[d])'
    <3>1. CASE d # c
      <4>1. rec.lease # st[d].lease
        BY <2>1, <3>1, PriorAssumption DEF IInv, Unique, TypeOK
      <4>2. Moved(st[d].lease)
        BY <2>1, <4>1 DEF Moved
      <4> QED
        BY <1>1, <2>1, <2>3, <3>1, <4>2, ClientStays
    <3>2. CASE d = c
      <4>1. st'[d] = Off
        BY <2>3, <3>2
      <4>2. ClientOK(Off)
        BY OffOK
      <4>3. CadenceOK(st[d])'
        BY <1>1, <2>1, <2>4, <4>1, <4>2 DEF ClientOK, CadenceOK, Timed, Cadence
      <4> QED
        BY <1>1, <2>4, <4>1, <4>2, <4>3 DEF ClientOK, LeaseOK, SnapOK, ReqOK, Timed
    <3> QED
      BY <3>1, <3>2
  <2>7. LateOK'
    BY <1>1, <2>3, <2>4, LateStays DEF IInv, TypeOK, LateOK
  <2>8. WindowsOK'
    <3>1. \A w \in windows' : Moved(w.lease)
      BY <1>1, <2>1 DEF Moved
    <3> QED
      BY <1>1, <2>1, <3>1, WindowsStay
  <2> QED
    BY <2>2, <2>5, <2>6, <2>7, <2>8 DEF IInv
<1> QED
  BY <1>2, <1>3

LEMMA ArrivesKeeps ==
  ASSUME IInv, Arrives PROVE IInv'
<1>1. PICK q \in late : rec = q.expect /\ rec' = q.new /\ late' = late \ {q}
  BY DEF Arrives
<1>2. UNCHANGED <<now, issued, st, windows>> /\ now \in Nat /\ now <= now
  BY DEF Arrives, IInv, TypeOK
<1>3. LateReq(q) /\ q \in Request
  BY DEF IInv, TypeOK, LateOK
<1>4. rec' \in Record \cup {None} /\ Stored(rec, now)'
  BY <1>1, <1>2, <1>3 DEF LateReq, Stored, Written, Request
<1>5. \A d \in Client : Moved(st[d].lease)
  <2>1. CASE Written(q.new, now) /\ (ClaimOK(q) \/ RenewOK(q))
    BY <1>1, <2>1, EffectMoves
  <2>2. CASE q.new = None /\ q.expect # None /\ Retired(q.expect.lease)
    BY <1>1, <2>2 DEF Moved, Retired
  <2> QED
    BY <1>3, <2>1, <2>2 DEF LateReq
<1>6. \A w \in windows : Moved(w.lease)
  <2>1. CASE Written(q.new, now) /\ (ClaimOK(q) \/ RenewOK(q))
    BY <1>1, <2>1, EffectMoves
  <2>2. CASE q.new = None /\ q.expect # None /\ Retired(q.expect.lease)
    BY <1>1, <2>2 DEF Moved, Retired
  <2> QED
    BY <1>3, <2>1, <2>2 DEF LateReq
<1>7. TypeOK' /\ Unique' /\ (PriorLease \subseteq issued)'
  BY <1>1, <1>2, <1>4 DEF IInv, TypeOK, Unique
<1>8. ASSUME NEW d \in Client PROVE ClientOK(st[d])'
  <2>1. rec' # None /\ rec'.lease = st[d].lease => rec'.heartbeat <= Cadence(st[d])
    BY <1>1 DEF IInv, ClientOK, CadenceOK
  <2> QED
    BY <1>1, <1>2, <1>4, <1>5, <2>1, ClientStays
<1>9. LateOK'
  BY <1>1, <1>2, LateStays DEF IInv, TypeOK, LateOK
<1>10. WindowsOK'
  BY <1>2, <1>4, <1>6, WindowsStay
<1> QED
  BY <1>4, <1>7, <1>8, <1>9, <1>10 DEF IInv

-----------------------------------------------------------------------------
LEMMA InitIInv == Init => IInv
<1> SUFFICES ASSUME Init PROVE IInv
  OBVIOUS
<1>1. \A c \in Client : st[c] = Off
  BY DEF Init
<1>2. Prior \subseteq Record /\ \A r \in Prior : r.lease \in Lease
  BY PriorAssumption DEF Record
<1>3. TypeOK
  BY <1>2, OffTyped DEF Init, TypeOK
<1>4. PriorLease \subseteq issued /\ Stored(rec, now) /\ LateOK /\ WindowsOK
  BY DEF Init, PriorLease, Stored, LateOK, WindowsOK
<1>5. Unique
  BY <1>1 DEF Unique, Off
<1>6. ASSUME NEW c \in Client PROVE ClientOK(st[c])
  <2>1. st[c].pc = "off" /\ st[c].lease = "none" /\ st[c].snap.rec = None
    BY <1>1 DEF Off, NoSnap
  <2>2. ~(rec.lease = "none" /\ rec # None) /\ late = {}
    BY <1>2, PriorAssumption DEF Init
  <2> QED
    BY <2>1, <2>2 DEF ClientOK, LeaseOK, CadenceOK, SnapOK, ReqOK, Timed
<1> QED
  BY <1>3, <1>4, <1>5, <1>6 DEF IInv

LEMMA NextIInv == IInv /\ [Next]_vars => IInv'
<1> SUFFICES ASSUME IInv, [Next]_vars PROVE IInv'
  OBVIOUS
<1>1. CASE Tick
  BY <1>1, TickKeeps
<1>2. CASE Arrives
  BY <1>2, ArrivesKeeps
<1>3. ASSUME NEW c \in Client,
             \/ Acquire(c) \/ Serve(c) \/ AcquireAnswered(c) \/ ClaimAnswered(c) \/ ConfirmAnswered(c)
             \/ StartHeartbeat(c) \/ StartRenew(c) \/ AssertHeld(c)
             \/ CheckAnswered(c) \/ RenewAnswered(c) \/ WriteAnswered(c) \/ VerifyAnswered(c)
             \/ Release(c) \/ ReleaseAnswered(c) \/ RemoveAnswered(c)
             \/ ReadFails(c) \/ Unanswered(c) \/ Crash(c)
      PROVE  IInv'
  BY <1>3, AcquireKeeps, ServeKeeps, AcquireAnsweredKeeps, ClaimAnsweredKeeps,
     ConfirmAnsweredKeeps, StartsKeep, CheckAnsweredKeeps, RenewAnsweredKeeps,
     WriteAnsweredKeeps, VerifyAnsweredKeeps, ReleaseKeeps, ReleaseAnsweredKeeps,
     RemoveAnsweredKeeps, ReadFailsKeeps, UnansweredKeeps, CrashKeeps
<1>4. CASE UNCHANGED vars
  BY <1>4 DEF vars, IInv, TypeOK, Stored, Written, Unique, ClientOK, LeaseOK, CadenceOK, Cadence,
     SnapOK, ReqOK, ClaimOK, RenewOK, LateOK, LateReq, Retired, WindowsOK
<1> QED
  BY <1>1, <1>2, <1>3, <1>4 DEF Next

LEMMA Invariance == Spec => []IInv
BY InitIInv, NextIInv, PTL DEF Spec

-----------------------------------------------------------------------------
(* The theorems.                                                            *)

\* The provider's record, the requests under way and the clients' states keep
\* their types.
THEOREM FenceTypeCorrect == Spec => []TypeOK
<1>1. IInv => TypeOK
  BY DEF IInv
<1> QED
  BY <1>1, Invariance, PTL

\* The record covers every window that assertHeld granted to its end, whatever
\* the clients' reads, delayed requests, crashes and takeovers do.
THEOREM FenceCoversHorizons == Spec => []HorizonCovered
<1>1. IInv => HorizonCovered
  BY DEF IInv, WindowsOK, HorizonCovered
<1> QED
  BY <1>1, Invariance, PTL

\* A request that takes effect was one of its client's, or a delayed one.
LEMMA RecordSteps ==
  ASSUME IInv, [Next]_vars
  PROVE  \/ rec' = rec \/ rec' = None
         \/ \E q : /\ rec = q.expect /\ rec' = q.new
                   /\ Written(q.new, now) /\ (ClaimOK(q) \/ RenewOK(q))
<1>1. CASE Arrives
  BY <1>1 DEF Arrives, IInv, LateOK, LateReq
<1>2. ASSUME NEW c \in Client, ClaimAnswered(c) \/ WriteAnswered(c)
      PROVE  \/ rec' = rec
             \/ \E q : /\ rec = q.expect /\ rec' = q.new
                       /\ Written(q.new, now) /\ (ClaimOK(q) \/ RenewOK(q))
  BY <1>2 DEF ClaimAnswered, WriteAnswered, IInv, ClientOK, ReqOK
<1>3. ASSUME NEW c \in Client, RemoveAnswered(c) PROVE rec' = rec \/ rec' = None
  BY <1>3 DEF RemoveAnswered
<1>4. CASE Tick
  BY <1>4 DEF Tick
<1>5. CASE UNCHANGED vars
  BY <1>5 DEF vars
<1>6. ASSUME NEW c \in Client,
             \/ Acquire(c) \/ Serve(c) \/ AcquireAnswered(c) \/ ConfirmAnswered(c)
             \/ StartHeartbeat(c) \/ StartRenew(c) \/ AssertHeld(c)
             \/ CheckAnswered(c) \/ RenewAnswered(c) \/ VerifyAnswered(c)
             \/ Release(c) \/ ReleaseAnswered(c) \/ ReadFails(c) \/ Unanswered(c) \/ Crash(c)
      PROVE  rec' = rec
  BY <1>6 DEF Acquire, Serve, AcquireAnswered, ConfirmAnswered, StartHeartbeat, StartRenew,
     AssertHeld, CheckAnswered, RenewAnswered, VerifyAnswered, Release, ReleaseAnswered,
     ReadFails, Unanswered, Crash
<1> QED
  BY <1>1, <1>2, <1>3, <1>4, <1>5, <1>6 DEF Next

\* However its requests are delayed, a peer replaces a record only after the
\* authority of its holder has ended, or one whose expiry was impossible.
THEOREM FencePeerSafe == Spec => PeerSafe
<1> DEFINE Safe == \A l \in Lease :
       /\ rec # None /\ rec'.lease = l /\ rec.lease # l
       => \/ SafeUntil(rec) <= now
          \/ \E t \in 0..now : ImpossibleFuture(rec, t)
<1>1. IInv /\ [Next]_vars => Safe
  <2> SUFFICES ASSUME IInv, [Next]_vars, NEW l \in Lease,
                      rec # None, rec'.lease = l, rec.lease # l
               PROVE  \/ SafeUntil(rec) <= now
                      \/ \E t \in 0..now : ImpossibleFuture(rec, t)
    OBVIOUS
  <2>1. rec' # rec /\ rec' # None
    BY NoneIsNoRecord, PriorAssumption
  <2>2. PICK q : /\ rec = q.expect /\ rec' = q.new
                 /\ Written(q.new, now) /\ (ClaimOK(q) \/ RenewOK(q))
    BY <2>1, RecordSteps
  <2> QED
    BY <2>2 DEF ClaimOK, RenewOK
<1>2. IInv /\ [Next]_vars => [Safe]_vars
  BY <1>1
<1> QED
  BY <1>2, Invariance, PTL DEF Spec, PeerSafe

\* What a step does to the windows.
LEMMA WindowSteps ==
  ASSUME IInv, [Next]_vars
  PROVE  W!Next \/ UNCHANGED <<now, windows>>
<1>0. IInv'
  BY NextIInv
<1>1. CASE Tick
  BY <1>1 DEF Tick, W!Next, W!Tick
<1>2. CASE UNCHANGED vars
  BY <1>2 DEF vars
<1>3. ASSUME NEW c \in Client, st[c].pc \in Timed, st[c].snap.served, Owned(st[c]),
             Granted(st[c]), UNCHANGED <<now, rec>>
      PROVE  W!Next
  <2> DEFINE w == [lease |-> st[c].lease, until |-> now + st[c].need]
  <2>1. windows' = windows \cup {w} /\ w \in windows'
    BY <1>3 DEF Granted
  <2>2. w \in W!Window
    BY <1>0, <2>1 DEF IInv, TypeOK, W!Window
  <2>3. \A v \in windows : v.lease = w.lease
    BY <1>0, <2>1 DEF IInv, WindowsOK
  <2> HIDE DEF w
  <2>4. W!Grant
    BY <1>3, <2>1, <2>2, <2>3 DEF W!Grant
  <2> QED
    BY <2>4 DEF W!Next
<1>4. ASSUME NEW c \in Client, CheckAnswered(c) \/ VerifyAnswered(c)
      PROVE  W!Next \/ UNCHANGED <<now, windows>>
  <2>1. st[c].pc \in Timed /\ st[c].snap.served /\ UNCHANGED <<now, rec>>
    BY <1>4 DEF CheckAnswered, VerifyAnswered, Goes, Timed
  <2>2. CASE UNCHANGED windows
    BY <2>1, <2>2
  <2>3. CASE Owned(st[c]) /\ Granted(st[c])
    BY <1>3, <2>1, <2>3
  <2> QED
    BY <1>4, <2>2, <2>3 DEF CheckAnswered, VerifyAnswered
<1>5. ASSUME NEW c \in Client, Release(c) PROVE W!Next
  <2>1. windows' \in SUBSET windows /\ UNCHANGED now
    BY <1>5 DEF Release, Goes
  <2> QED
    BY <2>1 DEF W!Next, W!Close
<1>6. CASE Arrives
  BY <1>6 DEF Arrives
<1>7. ASSUME NEW c \in Client,
             \/ Acquire(c) \/ Serve(c) \/ AcquireAnswered(c) \/ ClaimAnswered(c) \/ ConfirmAnswered(c)
             \/ StartHeartbeat(c) \/ StartRenew(c) \/ AssertHeld(c)
             \/ RenewAnswered(c) \/ WriteAnswered(c) \/ ReleaseAnswered(c) \/ RemoveAnswered(c)
             \/ ReadFails(c) \/ Unanswered(c) \/ Crash(c)
      PROVE  UNCHANGED <<now, windows>>
  BY <1>7 DEF Acquire, Serve, AcquireAnswered, ClaimAnswered, ConfirmAnswered, StartHeartbeat,
     StartRenew, AssertHeld, RenewAnswered, WriteAnswered, ReleaseAnswered, RemoveAnswered,
     ReadFails, Unanswered, Crash, Goes
<1> QED
  BY <1>1, <1>2, <1>4, <1>5, <1>6, <1>7 DEF Next

\* The fence implements MutationWindows: no two leases have open windows at
\* the same time.
THEOREM FenceImplementsWindows == Spec => WindowsExclusive
<1>1. Init => W!Init
  BY DEF Init, W!Init
<1>2. IInv /\ [Next]_vars => [W!Next]_<<now, windows>>
  BY WindowSteps
<1> QED
  BY <1>1, <1>2, Invariance, PTL DEF Spec, WindowsExclusive, W!Spec
=============================================================================
