----------------------------- MODULE RemoteFence -----------------------------
(* The remote mutation fence (packages/core/src/sync-remote-fence.ts): one   *)
(* record on the provider, replaced by compare-and-swap, names the lease     *)
(* that may mutate the remote. A holder renews it by heartbeats; whoever     *)
(* finds it expired, or silent for several heartbeats, takes it over.        *)
(*                                                                           *)
(* A request is asked, served by the provider at one moment, and answered    *)
(* later; a write whose answer does not come may still arrive. The version   *)
(* of a record is its content: a provider with counters tells more apart.    *)
EXTENDS Naturals, FiniteSets

CONSTANTS
  Client,       \* the compatible clients
  Lease,        \* lease ids, one per acquisition
  Ttl,          \* lease lifetime (ttlMs)
  Heartbeat,    \* renewal cadence (heartbeatMs), 0 for none
  Missed,       \* ABANDONED_AFTER_MISSED_HEARTBEATS
  Jitter,       \* ABANDONED_JITTER_MARGIN_MS
  Horizons,     \* the remaining times callers ask assertHeld for
  MaxFuture,    \* MAX_TTL_MS + MAX_FUTURE_EXPIRY_TOLERANCE_MS
  MaxAttempts,  \* maxAttempts of one acquisition
  Prior,        \* records another, perhaps older, client may have left
  MaxTime,      \* bound: ticks of the clock
  MaxLate       \* bound: write requests whose answer is lost

ASSUME FenceAssumption ==
  /\ Ttl \in Nat /\ Heartbeat \in Nat /\ Heartbeat < Ttl /\ Ttl <= MaxFuture
  /\ Missed \in Nat \ {0} /\ Jitter \in Nat /\ MaxFuture \in Nat
  /\ Horizons \subseteq {h \in Nat : h < Ttl}
  /\ MaxAttempts \in Nat \ {0} /\ MaxTime \in Nat /\ MaxLate \in Nat

None == [lease |-> "none"]

Record == [lease : Lease, expiresAt : Nat, heartbeat : Nat, renewedAt : Nat]

ASSUME PriorAssumption ==
  /\ Prior \subseteq Record
  /\ "none" \notin Lease

VARIABLES
  now,      \* the provider's clock (the Date header)
  rec,      \* the fence record on the provider
  late,     \* requests given up by their client that may still arrive
  issued,   \* lease ids in use or used up
  st,       \* per client: the acquisition or the serialized lease operation
  windows   \* what assertHeld granted: the lease may mutate until then

vars == <<now, rec, late, issued, st, windows>>

\* A conditional request: it takes effect only on the version it names.
Request == [expect : Record \cup {None}, new : Record \cup {None}]
NoRequest == [expect |-> None, new |-> None]

\* The answer to a read, with its Date.
Snap == [served : BOOLEAN, at : Nat, rec : Record \cup {None}]
NoSnap == [served |-> FALSE, at |-> 0, rec |-> None]

Off == [pc |-> "off", op |-> "none", lease |-> "none", adv |-> 0, lost |-> FALSE,
        tries |-> 0, need |-> 0, asked |-> 0, snap |-> NoSnap, req |-> NoRequest]

\* Waiting for the answer to a read: readAuthoritySnapshot measures the time
\* it takes, the other reads are not measured.
Timed == {"check", "renew", "verify"}
Untimed == {"acquire", "confirm", "release"}

PC == Timed \cup Untimed \cup {"off", "claim", "held", "write", "remove"}

ClientState ==
  [pc : PC, op : {"none", "heartbeat", "renew", "assert"}, lease : Lease \cup {"none"},
   adv : Nat, lost : BOOLEAN, tries : Nat, need : Nat, asked : Nat, snap : Snap, req : Request]

-----------------------------------------------------------------------------
(* What a record says at a server time.                                      *)

ImpossibleFuture(r, t) == r.expiresAt > t + MaxFuture

\* Mutant: silence is measured in the reader's own heartbeats, without margin.
AbandonedByOwnCadence(r, t) == r.heartbeat > 0 /\ t > r.renewedAt + Heartbeat * Missed

Abandoned(r, t) == r.heartbeat > 0 /\ t > r.renewedAt + r.heartbeat * Missed + Jitter

\* The guard of acquisition: no Busy error for this record.
Reclaimable(r, t) ==
  \/ r = None
  \/ r.expiresAt <= t
  \/ ImpossibleFuture(r, t)
  \/ Abandoned(r, t)

\* The end of the authority the record gives its holder.
SafeUntil(r) ==
  LET silent == r.renewedAt + r.heartbeat * Missed + Jitter
  IN  IF r.heartbeat > 0 /\ silent < r.expiresAt THEN silent ELSE r.expiresAt

\* The interval a holder advertises once a horizon of h was asked for.
Advertise(adv, h) ==
  LET cover == (h + Missed - 1) \div Missed
  IN  IF adv > 0 /\ cover > adv THEN cover ELSE adv

NewRecord(l, adv, t) ==
  [lease |-> l, expiresAt |-> t + Ttl, heartbeat |-> adv, renewedAt |-> t]

-----------------------------------------------------------------------------
Init ==
  /\ now = 0
  /\ rec \in Prior \cup {None}
  /\ late = {}
  /\ issued = {r.lease : r \in Prior}
  /\ st = [c \in Client |-> Off]
  /\ windows = {}

Tick ==
  /\ now < MaxTime
  /\ now' = now + 1
  /\ windows' = {w \in windows : now' <= w.until}
  /\ UNCHANGED <<rec, late, issued, st>>

\* The client's next state; everything shared stays.
Goes(c, s) == st' = [st EXCEPT ![c] = s] /\ UNCHANGED <<now, issued>>

\* port.read: the answer carries the record and the Date of one moment after
\* it was asked for. An untimed answer has no use but for the request that
\* follows, which may be delayed as well: it is handled when it is served.
Serve(c) ==
  /\ st[c].pc \in Timed
  /\ ~st[c].snap.served
  /\ Goes(c, [st[c] EXCEPT !.snap = [served |-> TRUE, at |-> now, rec |-> rec]])
  /\ UNCHANGED <<rec, late, windows>>

Ask(s, pc) ==
  [s EXCEPT !.pc = pc, !.snap = NoSnap, !.req = NoRequest,
            !.asked = IF pc \in Timed THEN now ELSE 0]

Sends(s, pc, q) == [s EXCEPT !.pc = pc, !.snap = NoSnap, !.req = q, !.asked = 0]

Holds(s) == [s EXCEPT !.pc = "held", !.op = "none", !.need = 0, !.asked = 0,
                      !.snap = NoSnap, !.req = NoRequest, !.tries = 0]

\* An operation throws. A failed heartbeat marks the lease as lost for good.
Throws(s) == [Holds(s) EXCEPT !.lost = s.lost \/ s.op = "heartbeat"]

-----------------------------------------------------------------------------
(* Acquisition.                                                              *)

Acquire(c) ==
  /\ st[c].pc = "off"
  /\ \E l \in Lease \ issued :
       /\ issued' = issued \cup {l}
       /\ st' = [st EXCEPT ![c] = [Ask(Off, "acquire") EXCEPT !.lease = l]]
  /\ UNCHANGED <<now, rec, late, windows>>

\* The record is live: Busy. Otherwise a conditional write over its version.
AcquireAnswered(c) ==
  LET s == st[c] IN
  /\ s.pc = "acquire"
  /\ Goes(c, IF Reclaimable(rec, now)
             THEN Sends(s, "claim", [expect |-> rec, new |-> NewRecord(s.lease, Heartbeat, now)])
             ELSE Off)
  /\ UNCHANGED <<rec, late, windows>>

\* A lost race is retried with a new read, a few times.
ClaimAnswered(c) ==
  LET s == st[c] IN
  /\ s.pc = "claim"
  /\ IF rec = s.req.expect
     THEN rec' = s.req.new /\ Goes(c, [Ask(s, "confirm") EXCEPT !.req = s.req])
     ELSE /\ UNCHANGED rec
          /\ Goes(c, IF s.tries + 1 < MaxAttempts
                     THEN [Ask(s, "acquire") EXCEPT !.tries = s.tries + 1]
                     ELSE Off)
  /\ UNCHANGED <<late, windows>>

ConfirmAnswered(c) ==
  LET s == st[c] IN
  /\ s.pc = "confirm"
  /\ Goes(c, IF /\ rec.lease = s.lease
                /\ rec.expiresAt = s.req.new.expiresAt
                /\ rec.expiresAt > now
                /\ ~ImpossibleFuture(rec, now)
             THEN [Holds(s) EXCEPT !.adv = Heartbeat]
             ELSE Off)
  /\ UNCHANGED <<rec, late, windows>>

-----------------------------------------------------------------------------
(* The operations of a held lease, one at a time.                            *)

\* The heartbeat timer; without a cadence there is none.
StartHeartbeat(c) ==
  /\ st[c].pc = "held" /\ ~st[c].lost /\ Heartbeat > 0
  /\ Goes(c, [Ask(st[c], "renew") EXCEPT !.op = "heartbeat"])
  /\ UNCHANGED <<rec, late, windows>>

StartRenew(c) ==
  /\ st[c].pc = "held" /\ ~st[c].lost
  /\ Goes(c, [Ask(st[c], "renew") EXCEPT !.op = "renew"])
  /\ UNCHANGED <<rec, late, windows>>

AssertHeld(c) ==
  /\ st[c].pc = "held" /\ ~st[c].lost
  /\ \E h \in Horizons :
       Goes(c, [Ask(st[c], "check") EXCEPT !.op = "assert", !.need = h])
  /\ UNCHANGED <<rec, late, windows>>

\* Mutant: an answer counts as fresh whenever it is handled.
ReadAgeIgnored(s) == 0

\* The time the read took counts against the lease.
ReadAge(s) == now - s.asked

Owned(s) ==
  /\ s.snap.rec.lease = s.lease
  /\ s.snap.rec.expiresAt > s.snap.at + ReadAge(s)

Covers(s) == SafeUntil(s.snap.rec) > s.snap.at + ReadAge(s) + s.need

Granted(s) == windows' = windows \cup {[lease |-> s.lease, until |-> now + s.need]}

\* assertHeld: the lease covers the horizon, or it is renewed first.
CheckAnswered(c) ==
  LET s == st[c] IN
  /\ s.pc = "check" /\ s.snap.served
  /\ \/ /\ ~Owned(s)
        /\ Goes(c, Throws(s)) /\ UNCHANGED windows
     \/ /\ Owned(s) /\ Covers(s)
        /\ Goes(c, Holds(s)) /\ Granted(s)
     \/ /\ Owned(s) /\ ~Covers(s)
        /\ Goes(c, [Ask(s, "renew") EXCEPT !.adv = Advertise(s.adv, s.need)])
        /\ UNCHANGED windows
  /\ UNCHANGED <<rec, late>>

\* Mutant: a heartbeat advertises its own cadence again.
RenewalAtBaseCadence(s) ==
  NewRecord(s.lease, IF s.op = "assert" THEN s.adv ELSE Heartbeat, s.snap.at)

\* renewOwned: the record of the renewal.
Renewal(s) == NewRecord(s.lease, s.adv, s.snap.at)

RenewAnswered(c) ==
  LET s == st[c] IN
  /\ s.pc = "renew" /\ s.snap.served
  /\ Goes(c, IF Owned(s)
             THEN Sends(s, "write", [expect |-> s.snap.rec, new |-> Renewal(s)])
             ELSE Throws(s))
  /\ UNCHANGED <<rec, late, windows>>

WriteAnswered(c) ==
  LET s == st[c] IN
  /\ s.pc = "write"
  /\ IF rec = s.req.expect
     THEN rec' = s.req.new /\ Goes(c, [Ask(s, "verify") EXCEPT !.req = s.req])
     ELSE UNCHANGED rec /\ Goes(c, Throws(s))
  /\ UNCHANGED <<late, windows>>

VerifyAnswered(c) ==
  LET s == st[c]
      renewed == /\ Owned(s)
                 /\ s.snap.rec.expiresAt = s.req.new.expiresAt
                 /\ ~ImpossibleFuture(s.snap.rec, s.snap.at)
                 /\ s.op = "assert" => Covers(s)
  IN
  /\ s.pc = "verify" /\ s.snap.served
  /\ \/ /\ renewed
        /\ Goes(c, Holds(s))
        /\ IF s.op = "assert" THEN Granted(s) ELSE UNCHANGED windows
     \/ /\ ~renewed
        /\ Goes(c, Throws(s)) /\ UNCHANGED windows
  /\ UNCHANGED <<rec, late>>

-----------------------------------------------------------------------------
(* Release: callers wait for their mutations first and use the lease no more. *)

Release(c) ==
  /\ st[c].pc = "held"
  /\ Goes(c, Ask(st[c], "release"))
  /\ windows' = {w \in windows : w.lease # st[c].lease}
  /\ UNCHANGED <<rec, late>>

ReleaseAnswered(c) ==
  LET s == st[c] IN
  /\ s.pc = "release"
  /\ Goes(c, IF rec.lease = s.lease
             THEN Sends(s, "remove", [expect |-> rec, new |-> None])
             ELSE Off)
  /\ UNCHANGED <<rec, late, windows>>

RemoveAnswered(c) ==
  LET s == st[c] IN
  /\ s.pc = "remove"
  /\ rec' = IF rec = s.req.expect THEN None ELSE rec
  /\ Goes(c, Off)
  /\ UNCHANGED <<late, windows>>

-----------------------------------------------------------------------------
(* Faults.                                                                   *)

\* A read fails or times out.
ReadFails(c) ==
  /\ st[c].pc \in Timed \cup Untimed
  /\ Goes(c, IF st[c].pc \in Timed THEN Throws(st[c]) ELSE Off)
  /\ UNCHANGED <<rec, late, windows>>

\* A write or remove gets no answer; the request may never arrive, or later.
Unanswered(c) ==
  /\ st[c].pc \in {"claim", "write", "remove"}
  /\ Cardinality(late) < MaxLate
  /\ late' = late \cup {st[c].req}
  /\ Goes(c, IF st[c].pc = "write" THEN Throws(st[c]) ELSE Off)
  /\ UNCHANGED <<rec, windows>>

Arrives ==
  /\ \E q \in late : rec = q.expect /\ rec' = q.new /\ late' = late \ {q}
  /\ UNCHANGED <<now, issued, st, windows>>

\* The process dies; its last mutation may still be under way.
Crash(c) ==
  /\ st[c].pc # "off"
  /\ Goes(c, Off)
  /\ UNCHANGED <<rec, late, windows>>

-----------------------------------------------------------------------------
Next ==
  \/ Tick \/ Arrives
  \/ \E c \in Client :
       \/ Acquire(c) \/ Serve(c) \/ AcquireAnswered(c) \/ ClaimAnswered(c) \/ ConfirmAnswered(c)
       \/ StartHeartbeat(c) \/ StartRenew(c) \/ AssertHeld(c)
       \/ CheckAnswered(c) \/ RenewAnswered(c) \/ WriteAnswered(c) \/ VerifyAnswered(c)
       \/ Release(c) \/ ReleaseAnswered(c) \/ RemoveAnswered(c)
       \/ ReadFails(c) \/ Unanswered(c) \/ Crash(c)

Spec == Init /\ [][Next]_vars

-----------------------------------------------------------------------------
(* Properties.                                                               *)

\* The states of the variables above.
TypeOK ==
  /\ now \in Nat
  /\ rec \in Record \cup {None}
  /\ late \subseteq Request
  /\ issued \subseteq Lease
  /\ st \in [Client -> ClientState]
  /\ windows \subseteq [lease : Lease, until : Nat]

\* The record covers every window assertHeld granted, to its end: a later
\* renewal never truncates a horizon already promised, no delayed request
\* replaces or removes the record, and no peer finds it expired or abandoned.
HorizonCovered ==
  \A w \in windows :
    now <= w.until => /\ rec.lease = w.lease
                      /\ SafeUntil(rec) > w.until

\* A record is replaced by another lease only when its holder's authority has
\* ended, or when its expiry was impossible at some earlier moment: until then
\* a peer, however its requests are delayed, waits for the holder.
PeerSafe ==
  [][\A l \in Lease :
       /\ rec # None /\ rec'.lease = l /\ rec.lease # l
       => \/ SafeUntil(rec) <= now
          \/ \E t \in 0..now : ImpossibleFuture(rec, t)]_vars

\* The promise to callers: windows of different leases never overlap.
W == INSTANCE MutationWindows
WindowsExclusive == W!Spec
==============================================================================
