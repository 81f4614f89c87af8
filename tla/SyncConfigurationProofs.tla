---------------------- MODULE SyncConfigurationProofs ----------------------
(* Proofs about SyncConfiguration, for every set of candidates and every     *)
(* bound on faults and crashes.                                              *)
(*                                                                           *)
(* First what each native command may answer (the lemmas XDoes on            *)
(* DropboxCredentials), then what each step of the transaction does, with    *)
(* its records taken apart (again XDoes). JInv is inductive without any      *)
(* condition and gives JournalMatchesBackend. AInv is inductive relative to  *)
(* it as long as no transaction gives up with promoted credentials and sync  *)
(* switched on (GaveUp), which takes three faults; it gives ActiveIsProven   *)
(* and CredentialsJournaled. Without that condition both are false.          *)
EXTENDS SyncConfiguration, TLAPS

Backends == {"off", "file", "webdav", "cloud"}
Providers == {"selfhosted", "dropbox"}
Numbers == 0..MaxCandidates
Journals == {NoJournal} \cup [previous : Numbers, candidate : Numbers, open : {TRUE}]
Disks ==
    [backend : Backends, path : Numbers, webdav : Numbers, cloud : Numbers, provider : Providers,
     tokens : Numbers, journal : Journals, resolved : Numbers]
Entries == [phase : {"none", "candidate", "promoted"}, tokens : Numbers, previous : Numbers]

\* JournalMatchesBackend, of any durable state.
Matched(d) == d.journal.open /\ ~Off(d) => Committed(d) /\ d.tokens = d.journal.candidate

\* The settings of d, in e.
SameSettings(d, e) ==
    e.path = d.path /\ e.webdav = d.webdav /\ e.cloud = d.cloud /\ e.provider = d.provider

\* What a recovery, also one that stops on the way, makes of d: it may switch
\* sync off, an open promotion that is committed may be closed, and one that
\* is not may be undone.
Recovered(d, e) ==
    /\ e \in Disks /\ SameSettings(d, e) /\ e.backend \in {d.backend, "off"}
    /\ ~d.journal.open => e.tokens = d.tokens /\ ~e.journal.open
    /\ d.journal.open /\ ~Off(d) => e.tokens = d.tokens /\ (e.journal = d.journal \/ ~e.journal.open)
    /\ d.journal.open /\ Off(d) =>
        \/ e.tokens \in {d.tokens, d.journal.previous} /\ e.journal = d.journal
        \/ e.tokens = d.journal.previous /\ ~e.journal.open

LEMMA Zero == 0 \in Numbers /\ 1 \in Numbers
  BY SyncConfigurationAssumption DEF Numbers

LEMMA JournalTyped ==
    ASSUME NEW d \in Disks
    PROVE  NoJournal \in Journals /\ ~NoJournal.open /\ d.journal \in Journals /\ d.journal.previous \in Numbers
<1>1. NoJournal \in Journals /\ ~NoJournal.open /\ NoJournal.previous \in Numbers
  BY Zero DEF NoJournal, Journals
<1>2. d.journal \in Journals
  BY DEF Disks
<1> HIDE DEF NoJournal
<1>3. d.journal.previous \in Numbers
  BY <1>1, <1>2 DEF Journals
<1> QED
  BY <1>1, <1>2, <1>3

LEMMA ClearedTyped ==
    ASSUME NEW d \in Disks
    PROVE  /\ Cleared(d) \in Disks /\ ~Cleared(d).journal.open /\ Reverted(d) \in Disks
           /\ Cleared(Reverted(d)) \in Disks /\ ~Cleared(Reverted(d)).journal.open
           /\ [d EXCEPT !.backend = "off"] \in Disks
  BY JournalTyped DEF Cleared, Reverted, Disks, Backends

LEMMA RecoverSettledDoes ==
    ASSUME NEW d \in Disks, Matched(d)
    PROVE  /\ RecoverSettled(d)[1] /\ Recovered(d, RecoverSettled(d)[2])
           /\ RecoverSettled(d)[2].backend = d.backend /\ ~RecoverSettled(d)[2].journal.open
           /\ d.journal.open /\ Off(d) => RecoverSettled(d)[2].tokens = d.journal.previous
<1>1. CASE ~d.journal.open
  BY <1>1 DEF RecoverSettled, Recovered, SameSettings
<1>2. CASE d.journal.open /\ Committed(d)
  <2>1. RecoverSettled(d) = <<TRUE, Cleared(d)>>
    BY <1>2 DEF RecoverSettled, Matched, Committed, Off
  <2> QED
   <3> DEFINE e == Cleared(d)
   <3>1. RecoverSettled(d)[1] = TRUE /\ RecoverSettled(d)[2] = e
    BY <2>1
   <3>2. e \in Disks /\ SameSettings(d, e) /\ e.backend = d.backend /\ ~e.journal.open /\ e.tokens = d.tokens
    BY ClearedTyped DEF SameSettings, Cleared, Disks
   <3> QED
    BY <1>2, <3>1, <3>2 DEF Recovered, Committed, Off
<1>3. CASE d.journal.open /\ ~Committed(d)
  <2>1. Off(d) /\ d.backend # "cloud"
    BY <1>3 DEF Matched, Off
  <2>2. RecoverSettled(d) = <<TRUE, Cleared(Reverted(d))>>
    BY <1>3, <2>1 DEF RecoverSettled
  <2> QED
   <3> DEFINE e == Cleared(Reverted(d))
   <3>1. RecoverSettled(d)[1] = TRUE /\ RecoverSettled(d)[2] = e
    BY <2>2
   <3>2. e \in Disks /\ SameSettings(d, e) /\ e.backend = d.backend /\ ~e.journal.open /\ e.tokens = d.journal.previous
    BY ClearedTyped DEF SameSettings, Cleared, Reverted, Disks
   <3> QED
    BY <1>3, <2>1, <3>1, <3>2 DEF Recovered
<1> QED
  BY <1>1, <1>2, <1>3

LEMMA RecoverStoppedDoes ==
    ASSUME NEW d \in Disks, Matched(d), NEW e \in RecoverStopped(d)
    PROVE  Recovered(d, e)
<1>1. CASE ~d.journal.open
  <2>1. e \in {d, [d EXCEPT !.backend = "off"]}
    BY <1>1 DEF RecoverStopped
  <2> QED
    BY <1>1, <2>1, ClearedTyped DEF Recovered, SameSettings, Disks
<1>2. CASE d.journal.open /\ Committed(d)
  <2>1. e \in {d, Cleared(d)}
    BY <1>2 DEF RecoverStopped
  <2> QED
    BY <1>2, <2>1, ClearedTyped DEF Recovered, SameSettings, Cleared, Disks, Committed, Off
<1>3. CASE d.journal.open /\ ~Committed(d)
  <2>1. Off(d)
    BY <1>3 DEF Matched
  <2>2. PICK r \in {d, Reverted(d), Cleared(Reverted(d))} : e = r \/ e = [r EXCEPT !.backend = "off"]
    BY <1>3 DEF RecoverStopped
  <2>3. r \in Disks /\ Off(r)
    BY <2>1, <2>2, ClearedTyped DEF Cleared, Reverted, Disks, Off
  <2>4. e = r
    BY <2>2, <2>3 DEF Disks, Off
  <2> QED
    BY <1>3, <2>1, <2>2, <2>4, ClearedTyped DEF Recovered, SameSettings, Cleared, Reverted, Disks
<1> QED
  BY <1>1, <1>2, <1>3

LEMMA RecoverDoes ==
    ASSUME NEW d \in Disks, Matched(d), NEW s, NEW a \in Recover(d, s)
    PROVE  /\ a = [ok |-> a.ok, disk |-> a.disk, staged |-> s, cost |-> a.cost]
           /\ a.staged = s /\ a.cost \in {0, 1} /\ a.ok \in BOOLEAN /\ Recovered(d, a.disk)
           /\ a.ok => /\ a.disk.backend = d.backend /\ ~a.disk.journal.open /\ a.cost = 0
                      /\ d.journal.open /\ Off(d) => a.disk.tokens = d.journal.previous
<1>1. CASE a = Answer(RecoverSettled(d)[1], RecoverSettled(d)[2], s, 0)
  BY <1>1, RecoverSettledDoes DEF Answer
<1>2. ASSUME NEW e \in RecoverStopped(d), a = Answer(FALSE, e, s, 1)
      PROVE  /\ a = [ok |-> a.ok, disk |-> a.disk, staged |-> s, cost |-> a.cost]
             /\ a.staged = s /\ a.cost \in {0, 1} /\ a.ok \in BOOLEAN /\ Recovered(d, a.disk) /\ ~a.ok
  BY <1>2, RecoverStoppedDoes DEF Answer
<1> QED
  BY <1>1, <1>2 DEF Recover

LEMMA RecoveredMatched ==
    ASSUME NEW d \in Disks, Matched(d), NEW e, Recovered(d, e) PROVE Matched(e)
  BY DEF Recovered, Matched, Committed, Off, SameSettings

\* Native memory without an entry, or with one in the phase p.
LEMMA EntriesTyped ==
    ASSUME NEW k \in Numbers, NEW p \in Numbers, NEW s \in Entries
    PROVE  /\ NoEntry \in Entries /\ NoEntry.phase = "none"
           /\ Candidate(k) \in Entries /\ Candidate(k).phase = "candidate" /\ Candidate(k).tokens = k
           /\ Promoted(s, p) \in Entries /\ Promoted(s, p).phase = "promoted"
           /\ Promoted(s, p).tokens = s.tokens /\ Promoted(s, p).previous = p
  BY Zero DEF NoEntry, Candidate, Promoted, Entries

LEMMA NoEntryTyped == NoEntry \in Entries
  BY Zero DEF NoEntry, Entries

\* What every answer of a native command has.
Answers(d, s, a) ==
    /\ a.ok \in BOOLEAN /\ a.cost \in {0, 1} /\ a.staged \in Entries
    /\ a.disk \in Disks /\ SameSettings(d, a.disk) /\ a.disk.backend \in {d.backend, "off"}

LEMMA RecoverBeforeDoes ==
    ASSUME NEW d \in Disks, Matched(d), NEW s \in Entries, NEW a \in RecoverBefore(d, s)
    PROVE  /\ Answers(d, s, a) /\ Recovered(d, a.disk)
           /\ IF a.ok THEN /\ a.disk.backend = d.backend /\ ~a.disk.journal.open /\ a.cost = 0
                           /\ a.staged = IF s.phase = "promoted" THEN NoEntry ELSE s
              ELSE a.staged = s
<1>1. PICK r \in Recover(d, s) :
        a = [r EXCEPT !.staged = IF r.ok /\ s.phase = "promoted" THEN NoEntry ELSE s]
  BY DEF RecoverBefore
<1>2. /\ a.ok = r.ok /\ a.disk = r.disk /\ a.cost = r.cost
      /\ a.staged = IF r.ok /\ s.phase = "promoted" THEN NoEntry ELSE s
  BY <1>1, RecoverDoes
<1>3. a.staged \in Entries
  BY <1>2, EntriesTyped, Zero
<1> QED
  BY <1>2, <1>3, RecoverDoes DEF Answers, Recovered

LEMMA StageDoes ==
    ASSUME NEW d \in Disks, Matched(d), NEW s \in Entries, NEW k \in Numbers, NEW a \in Stage(d, s, k)
    PROVE  /\ Answers(d, s, a) /\ Recovered(d, a.disk)
           /\ IF a.ok THEN ~a.disk.journal.open /\ a.staged = Candidate(k)
              ELSE a.staged = s
<1>1. PICK r \in RecoverBefore(d, s) : a = [r EXCEPT !.staged = IF r.ok THEN Candidate(k) ELSE r.staged]
  BY DEF Stage
<1>2. DOMAIN r = {"ok", "disk", "staged", "cost"}
  <2>1. PICK q \in Recover(d, s) :
          r = [q EXCEPT !.staged = IF q.ok /\ s.phase = "promoted" THEN NoEntry ELSE s]
    BY DEF RecoverBefore
  <2> QED
    BY <2>1, RecoverDoes
<1>3. /\ a.ok = r.ok /\ a.disk = r.disk /\ a.cost = r.cost
      /\ a.staged = IF r.ok THEN Candidate(k) ELSE r.staged
  BY <1>1, <1>2
<1> QED
  BY <1>3, RecoverBeforeDoes, EntriesTyped, Zero DEF Answers

\* The bundle in use once an open promotion is undone.
Settled(d) == IF d.journal.open THEN d.journal.previous ELSE d.tokens

\* Promote, of a state with sync off: nothing but its own recovery, or the
\* journal of the promotion, and then with it the bundle.
LEMMA PromoteDoes ==
    ASSUME NEW d \in Disks, Off(d), NEW s \in Entries, NEW a \in Promote(d, s)
    PROVE  /\ Answers(d, s, a)
           /\ \/ ~a.ok /\ a.staged = s /\ Recovered(d, a.disk)
              \/ /\ s.phase = "candidate"
                 /\ a.disk.journal = [previous |-> Settled(d), candidate |-> s.tokens, open |-> TRUE]
                 /\ \/ a.disk.tokens = s.tokens /\ a.staged = Promoted(s, Settled(d))
                    \/ ~a.ok /\ a.disk.tokens = Settled(d) /\ a.staged \in {s, Promoted(s, Settled(d))}
<1>1. PICK r \in Recover(d, s) :
        IF ~r.ok \/ ~Off(r.disk) \/ s.phase # "candidate" THEN a = [r EXCEPT !.ok = FALSE]
        ELSE \E w \in {[r.disk EXCEPT !.journal = JournalOf(r.disk, s.tokens)]}, p \in {Promoted(s, r.disk.tokens)} :
               a \in {Answer(TRUE, [w EXCEPT !.tokens = s.tokens], p, r.cost),
                      Answer(FALSE, r.disk, s, 1), Answer(FALSE, w, s, 1), Answer(FALSE, w, p, 1),
                      Answer(FALSE, [w EXCEPT !.tokens = s.tokens], p, 1)}
  BY DEF Promote
<1>2. Matched(d)
  BY DEF Matched
<1>3. /\ r = [ok |-> r.ok, disk |-> r.disk, staged |-> s, cost |-> r.cost]
      /\ r.staged = s /\ r.cost \in {0, 1} /\ r.ok \in BOOLEAN /\ Recovered(d, r.disk)
      /\ r.ok => /\ ~r.disk.journal.open
                 /\ d.journal.open => r.disk.tokens = d.journal.previous
  BY <1>2, RecoverDoes
<1>4. CASE ~r.ok \/ ~Off(r.disk) \/ s.phase # "candidate"
  <2>1. a.ok = FALSE /\ a.disk = r.disk /\ a.staged = s /\ a.cost = r.cost
    BY <1>1, <1>3, <1>4
  <2> QED
    BY <1>3, <2>1 DEF Answers, Recovered
<1>5. CASE ~(~r.ok \/ ~Off(r.disk) \/ s.phase # "candidate")
  <2> DEFINE j == [previous |-> Settled(d), candidate |-> s.tokens, open |-> TRUE]
             w == [r.disk EXCEPT !.journal = j]
             v == [w EXCEPT !.tokens = s.tokens]
             p == Promoted(s, Settled(d))
  <2>1. r.disk \in Disks /\ r.disk.tokens = Settled(d) /\ s.tokens \in Numbers /\ Settled(d) \in Numbers
    BY <1>3, <1>5 DEF Recovered, Settled, Entries, Disks, Journals
  <2>2. j = JournalOf(r.disk, s.tokens) /\ j \in Journals
    BY <2>1 DEF JournalOf, Journals
  <2>3. a \in {Answer(TRUE, v, p, r.cost), Answer(FALSE, r.disk, s, 1), Answer(FALSE, w, s, 1),
               Answer(FALSE, w, p, 1), Answer(FALSE, v, p, 1)}
    BY <1>1, <1>5, <2>1, <2>2
  <2>4. /\ w \in Disks /\ w.journal = j /\ w.tokens = Settled(d) /\ SameSettings(d, w) /\ w.backend = "off"
        /\ v \in Disks /\ v.journal = j /\ v.tokens = s.tokens /\ SameSettings(d, v) /\ v.backend = "off"
    <3> HIDE DEF j
    <3> QED
      BY <1>3, <1>5, <2>1, <2>2 DEF Disks, Recovered, SameSettings, Off
  <2>5. p \in Entries
    BY <2>1, EntriesTyped
  <2> HIDE DEF v, w, p
  <2>6. \/ a.disk = v /\ a.staged = p /\ a.cost \in {r.cost, 1} /\ a.ok \in BOOLEAN
        \/ a.ok = FALSE /\ a.disk = r.disk /\ a.staged = s /\ a.cost = 1
        \/ a.ok = FALSE /\ a.disk = w /\ a.staged \in {s, p} /\ a.cost = 1
    <3>1. CASE a = Answer(TRUE, v, p, r.cost)
      BY <3>1 DEF Answer
    <3>2. CASE a = Answer(FALSE, r.disk, s, 1)
      BY <3>2 DEF Answer
    <3>3. CASE a = Answer(FALSE, w, s, 1)
      BY <3>3 DEF Answer
    <3>4. CASE a = Answer(FALSE, w, p, 1)
      BY <3>4 DEF Answer
    <3>5. CASE a = Answer(FALSE, v, p, 1)
      BY <3>5 DEF Answer
    <3> QED
      BY <2>3, <3>1, <3>2, <3>3, <3>4, <3>5
  <2>7. Answers(d, s, a)
    BY <1>3, <2>4, <2>5, <2>6 DEF Answers, Recovered
  <2> QED
    BY <1>3, <1>5, <2>4, <2>6, <2>7 DEF j, p
<1> QED
  BY <1>4, <1>5

LEMMA RollbackDoes ==
    ASSUME NEW d \in Disks, Matched(d), NEW s \in Entries, NEW a \in Rollback(d, s)
    PROVE  /\ Answers(d, s, a)
           /\ \/ ~a.ok /\ a.staged = s /\ (a.disk = d \/ (Off(d) /\ Recovered(d, a.disk)))
              \/ /\ s.phase = "candidate" /\ Off(d) /\ a.staged = NoEntry
                 /\ Recovered(d, a.disk) /\ ~a.disk.journal.open
              \/ /\ s.phase = "promoted" /\ Off(d) /\ a.staged = (IF a.ok THEN NoEntry ELSE s)
                 /\ ~a.disk.journal.open /\ a.disk.tokens = s.previous
<1>1. CASE ~Off(d) \/ s.phase = "none"
  <2>1. a.ok = FALSE /\ a.disk = d /\ a.staged = s /\ a.cost = 0
    BY <1>1 DEF Rollback, Answer
  <2> QED
    BY <2>1 DEF Answers, SameSettings
<1>2. CASE ~(~Off(d) \/ s.phase = "none")
  <2>1. PICK r \in Recover(d, s) :
          IF ~r.ok THEN a = r
          ELSE IF s.phase = "candidate" THEN a = [r EXCEPT !.staged = NoEntry]
          ELSE \E w \in {[r.disk EXCEPT !.tokens = s.previous]} :
            a \in {Answer(TRUE, w, NoEntry, r.cost), Answer(FALSE, r.disk, s, 1), Answer(FALSE, w, s, 1)}
    BY <1>2 DEF Rollback
  <2>2. /\ r = [ok |-> r.ok, disk |-> r.disk, staged |-> s, cost |-> r.cost]
        /\ r.staged = s /\ r.cost \in {0, 1} /\ r.ok \in BOOLEAN /\ Recovered(d, r.disk)
        /\ r.ok => ~r.disk.journal.open
    BY RecoverDoes
  <2>3. CASE ~r.ok
    BY <1>2, <2>1, <2>2, <2>3 DEF Answers, Recovered
  <2>4. CASE r.ok /\ s.phase = "candidate"
    <3>1. a.ok = r.ok /\ a.disk = r.disk /\ a.cost = r.cost /\ a.staged = NoEntry
      BY <2>1, <2>2, <2>4
    <3> QED
      BY <1>2, <2>2, <2>4, <3>1, EntriesTyped, Zero DEF Answers, Recovered
  <2>5. CASE r.ok /\ s.phase = "promoted"
    <3> DEFINE w == [r.disk EXCEPT !.tokens = s.previous]
    <3>1. a \in {Answer(TRUE, w, NoEntry, r.cost), Answer(FALSE, r.disk, s, 1), Answer(FALSE, w, s, 1)}
      BY <2>1, <2>5
    <3>2. /\ w \in Disks /\ SameSettings(d, w) /\ w.tokens = s.previous /\ ~w.journal.open
          /\ w.backend \in {d.backend, "off"}
      BY <2>2, <2>5 DEF Recovered, Disks, Entries, SameSettings
    <3> HIDE DEF w
    <3> QED
     <4>1. \/ a.ok = TRUE /\ a.disk = w /\ a.staged = NoEntry /\ a.cost = r.cost
           \/ a.ok = FALSE /\ a.disk = r.disk /\ a.staged = s /\ a.cost = 1
           \/ a.ok = FALSE /\ a.disk = w /\ a.staged = s /\ a.cost = 1
      BY <3>1 DEF Answer
     <4>2. Answers(d, s, a)
      BY <2>2, <3>2, <4>1, NoEntryTyped DEF Answers, Recovered
     <4> QED
      BY <1>2, <2>2, <2>5, <3>2, <4>1, <4>2
  <2> QED
    BY <1>2, <2>3, <2>4, <2>5, <2>2 DEF Entries
<1> QED
  BY <1>1, <1>2

LEMMA DiscardDoes ==
    ASSUME NEW d \in Disks, NEW s \in Entries, NEW a \in Discard(d, s)
    PROVE  /\ Answers(d, s, a) /\ a.disk = d
           /\ \/ a.staged = s
              \/ a.ok /\ s.phase # "promoted" /\ a.staged = NoEntry
           /\ a.ok => a.staged = NoEntry
<1>1. \/ /\ a.ok = (s.phase # "promoted") /\ a.cost = 0 /\ a.disk = d
         /\ a.staged = IF s.phase = "promoted" THEN s ELSE NoEntry
      \/ a.ok = FALSE /\ a.disk = d /\ a.staged = s /\ a.cost = 1
  BY DEF Discard, Answer
<1> QED
  BY <1>1, EntriesTyped, Zero DEF Answers, SameSettings

LEMMA FinalizeDoes ==
    ASSUME NEW d \in Disks, NEW s \in Entries, NEW k \in Numbers, NEW a \in Finalize(d, s, k)
    PROVE  /\ Answers(d, s, a) /\ a.disk.tokens = d.tokens /\ a.disk.backend = d.backend
           /\ a.disk.journal = d.journal \/ (Committed(d) /\ ~a.disk.journal.open)
           /\ a.staged \in {s, NoEntry}
<1> DEFINE w == [d EXCEPT !.resolved = k]
<1>1. /\ w \in Disks /\ SameSettings(d, w) /\ w.tokens = d.tokens /\ w.backend = d.backend
      /\ w.journal = d.journal
  BY DEF Disks, SameSettings
<1>2. /\ Cleared(w) \in Disks /\ SameSettings(d, Cleared(w)) /\ Cleared(w).tokens = d.tokens
      /\ Cleared(w).backend = d.backend /\ ~Cleared(w).journal.open
  BY <1>1, ClearedTyped DEF Cleared, SameSettings, Disks
<1>3. \/ a = Answer(FALSE, d, s, 0)
      \/ /\ Committed(d)
         /\ a \in {Answer(TRUE, Cleared(w), NoEntry, 0), Answer(FALSE, d, s, 1), Answer(FALSE, w, s, 1),
                   Answer(FALSE, w, NoEntry, 1), Answer(FALSE, Cleared(w), NoEntry, 1)}
  BY DEF Finalize
<1> HIDE DEF w
<1> QED
  <2>1. /\ a.ok \in BOOLEAN /\ a.cost \in {0, 1} /\ a.staged \in {s, NoEntry}
        /\ a.disk \in {d, w} \/ (Committed(d) /\ a.disk = Cleared(w))
    <3>1. ASSUME NEW c \in {0, 1}, a = Answer(FALSE, d, s, c)
          PROVE  a.ok = FALSE /\ a.cost = c /\ a.staged = s /\ a.disk = d
      BY <3>1 DEF Answer
    <3>2. ASSUME NEW f \in {s, NoEntry}, a = Answer(FALSE, w, f, 1)
          PROVE  a.ok = FALSE /\ a.cost = 1 /\ a.staged = f /\ a.disk = w
      BY <3>2 DEF Answer
    <3>3. CASE Committed(d) /\ a = Answer(TRUE, Cleared(w), NoEntry, 0)
      BY <3>3 DEF Answer
    <3>4. CASE Committed(d) /\ a = Answer(FALSE, Cleared(w), NoEntry, 1)
      BY <3>4 DEF Answer
    <3> QED
      BY <1>3, <3>1, <3>2, <3>3, <3>4
  <2> QED
    BY <1>1, <1>2, <2>1, EntriesTyped, Zero DEF Answers, SameSettings

LEMMA DisconnectDoes ==
    ASSUME NEW d \in Disks, NEW s \in Entries, NEW a \in Disconnect(d, s)
    PROVE  /\ Answers(d, s, a) /\ a.disk.backend = d.backend /\ a.disk.journal = d.journal
           /\ a.disk.tokens = d.tokens \/ (~Committed(d) /\ ~d.journal.open /\ a.disk.tokens = 0)
           /\ a.staged = IF a.ok THEN NoEntry ELSE s
<1> DEFINE w == [d EXCEPT !.tokens = 0]
<1>1. /\ w \in Disks /\ SameSettings(d, w) /\ w.tokens = 0 /\ w.backend = d.backend
      /\ w.journal = d.journal
  BY Zero DEF Disks, SameSettings
<1>2. \/ a = Answer(FALSE, d, s, 0)
      \/ /\ ~Committed(d) /\ ~d.journal.open
         /\ a \in {Answer(TRUE, w, NoEntry, 0), Answer(FALSE, d, s, 1), Answer(FALSE, w, s, 1)}
  BY DEF Disconnect
<1> HIDE DEF w
<1> QED
  <2>1. /\ a.ok \in BOOLEAN /\ a.cost \in {0, 1} /\ a.staged = IF a.ok THEN NoEntry ELSE s
        /\ a.disk = d \/ (~Committed(d) /\ ~d.journal.open /\ a.disk = w)
    <3>1. ASSUME NEW c \in {0, 1}, a = Answer(FALSE, d, s, c)
          PROVE  a.ok = FALSE /\ a.cost = c /\ a.staged = s /\ a.disk = d
      BY <3>1 DEF Answer
    <3>2. CASE ~Committed(d) /\ ~d.journal.open /\ a = Answer(TRUE, w, NoEntry, 0)
      BY <3>2 DEF Answer
    <3>3. CASE ~Committed(d) /\ ~d.journal.open /\ a = Answer(FALSE, w, s, 1)
      BY <3>3 DEF Answer
    <3> QED
      BY <1>2, <3>1, <3>2, <3>3
  <2> QED
    BY <1>1, <2>1, EntriesTyped, Zero DEF Answers, SameSettings

-----------------------------------------------------------------------------
(* The transaction.                                                         *)

\* While the candidate is written, undone, and what it replaced restored.
Forward ==
    {"disable", "disabled", "write", "verify", "promote", "promoted", "activate", "active", "finalize"}
Undo == {"discard", "off", "isOff", "offAgain", "rollback"}
Restore == {"restoreOff", "restoreIsOff", "restore", "reactivate", "reactivated", "keepOff"}
PastRead == Forward \cup Undo \cup Restore

\* From the attempt to promote the credentials to their rollback.
Promotion == {"promoted", "activate", "active", "finalize", "off", "isOff", "offAgain", "rollback"}

SettingsOf == [path : Numbers, webdav : Numbers, cloud : Numbers, provider : Providers]
Found == [backend : Backends, settings : SettingsOf, tokens : Numbers]

Transactions ==
    [pc : {"idle", "recover", "read"} \cup PastRead, kind : CandidateKinds, n : Nat,
     previous : Found \cup {NoPrevious}, touched : SUBSET Slots,
     todo : {<<>>, <<"path">>, <<"webdav">>, <<"cloud", "provider">>, <<"provider">>},
     promoted : BOOLEAN, offError : BOOLEAN, credError : BOOLEAN, failed : BOOLEAN,
     outcome : {"none", "refused", "committed", "disabled", "restored"}]

TypedTx ==
    /\ tx \in Transactions
    /\ tx.kind # "kept" => tx.n \in Numbers
    /\ tx.pc \in PastRead => tx.previous \in Found
    /\ tx.pc = "write" =>
        tx.todo = Writes(tx.kind) \/ (tx.kind = "selfhosted" /\ tx.todo = <<"provider">>)

TypedRest ==
    /\ disk \in Disks /\ staged \in Entries
    /\ pending \in Numbers /\ cleanup \in Numbers /\ up \in BOOLEAN
    /\ count \in 1..MaxCandidates /\ faults \in 0..MaxFaults /\ crashes \in 0..MaxCrashes

UpOK == (tx.pc # "idle" => up) /\ (~up => pending = 0)

FlagsOK ==
    /\ tx.promoted => Handle(tx.kind) /\ tx.pc \in Promotion \cup Restore
    /\ Handle(tx.kind) /\ tx.pc \in {"promoted", "activate", "active", "finalize"} => tx.promoted
    /\ tx.pc \in {"promote", "promoted", "discard", "finalize"} => Handle(tx.kind)
    /\ tx.offError => tx.pc = "rollback"
    /\ tx.credError => tx.promoted

\* Settings and credentials are changed only with sync known to be off.
OffOK ==
    /\ tx.pc \in {"write", "verify", "promote", "promoted", "activate",
                  "restoreOff", "restoreIsOff", "restore", "reactivate"} => Off(disk)
    /\ tx.pc = "rollback" /\ ~tx.offError => Off(disk)

\* The candidate of a transaction is the authorization the page waits for,
\* which is the one native memory holds.
PendingOK ==
    /\ Handle(tx.kind) /\ tx.pc \in {"read"} \cup Forward => pending = tx.n /\ tx.n # 0
    /\ pending # 0 /\ staged.phase # "none" => staged.tokens = pending

\* What was read back before sync is switched on.
ReadOK ==
    /\ tx.pc \in {"activate", "active"} => Settings(disk) = Expected
    /\ tx.pc = "active" => disk.backend \in {"off", Backend(tx.kind)}
    /\ tx.pc = "reactivate" => Settings(disk) = tx.previous.settings

\* The journal during a transaction: closed by its recovery unless it promotes
\* credentials itself; then open until they are finalized or rolled back.
JournalOK ==
    /\ tx.promoted /\ tx.pc \in {"promoted", "activate", "active", "finalize"} =>
        disk.journal.open /\ disk.journal.candidate = tx.n /\ disk.tokens = tx.n
    /\ tx.pc \notin {"idle", "recover"} /\ ~Handle(tx.kind) =>
        ~disk.journal.open /\ staged.phase # "promoted"
    /\ tx.pc = "recover" => ~Handle(tx.kind) /\ (tx.kind = "kept" => ~disk.journal.open)
    /\ tx.pc \in PastRead /\ ~tx.promoted /\ disk.journal.open /\ tx.previous.backend # "off" =>
        /\ tx.previous.backend = "cloud" /\ tx.previous.settings.provider = "dropbox"
        /\ disk.tokens = disk.journal.candidate
    /\ tx.pc \in Restore /\ tx.promoted /\ ~tx.credError => ~disk.journal.open /\ pending = 0

\* Native memory knows what the journal knows.
EntryOK ==
    /\ staged.phase = "candidate" /\ disk.journal.open => disk.tokens = disk.journal.previous
    /\ staged.phase = "promoted" /\ disk.journal.open => staged.previous = disk.journal.previous

\* A transaction that promoted credentials and cannot switch sync off again
\* has met a fault at each step.
FaultsOK ==
    tx.promoted /\ ~Off(disk) =>
        /\ tx.pc = "off" => faults >= 1
        /\ tx.pc \in {"isOff", "offAgain"} => faults >= 2
        /\ tx.pc = "rollback" => faults >= 3

JInv ==
    /\ TypedTx /\ TypedRest /\ UpOK /\ FlagsOK /\ OffOK /\ PendingOK /\ ReadOK
    /\ JournalOK /\ EntryOK /\ FaultsOK /\ Matched(disk)

-----------------------------------------------------------------------------
(* What the steps do.                                                       *)

LEMMA SettingsTyped ==
    ASSUME NEW d \in Disks
    PROVE  /\ Settings(d) \in SettingsOf
           /\ Settings(d).path = d.path /\ Settings(d).webdav = d.webdav
           /\ Settings(d).cloud = d.cloud /\ Settings(d).provider = d.provider
  BY DEF Settings, Slots, SettingsOf, Disks

LEMMA SettingsSame ==
    ASSUME NEW d \in Disks, NEW e \in Disks, SameSettings(d, e)
    PROVE  Settings(e) = Settings(d)
  BY DEF Settings, Slots, SameSettings, Disks

\* A fault at most, and within the bound.
Charged == faults' \in {faults, faults + 1} /\ faults' <= MaxFaults

WroteBackend(v, ok) ==
    /\ Charged /\ staged' = staged
    /\ disk' = disk \/ disk' = [disk EXCEPT !.backend = v]
    /\ faults' = faults => ok /\ disk' = [disk EXCEPT !.backend = v]

LEMMA BackendWritten ==
    ASSUME TypedRest, NEW v \in Backends, NEW a \in Written("backend", v), Take(a)
    PROVE  a.ok \in BOOLEAN /\ WroteBackend(v, a.ok)
<1> DEFINE w == [disk EXCEPT !.backend = v]
<1>1. \/ a = Answer(TRUE, w, staged, 0) \/ a = Answer(TRUE, disk, staged, 1)
      \/ a = Answer(FALSE, disk, staged, 1) \/ a = Answer(FALSE, w, staged, 1)
  BY DEF Written, Compound
<1> HIDE DEF w
<1>2. CASE a = Answer(TRUE, w, staged, 0)
  <2>1. a.ok /\ a.ok \in BOOLEAN /\ a.disk = w /\ a.staged = staged /\ a.cost = 0
    BY <1>2 DEF Answer
  <2> QED
    BY <2>1 DEF Take, WroteBackend, Charged, w, TypedRest
<1>3. ASSUME NEW o \in BOOLEAN, NEW e \in {disk, w}, a = Answer(o, e, staged, 1)
      PROVE  a.ok \in BOOLEAN /\ WroteBackend(v, a.ok)
  <2>1. a.ok = o /\ a.disk = e /\ a.staged = staged /\ a.cost = 1
    BY <1>3 DEF Answer
  <2> QED
    BY <1>3, <2>1 DEF Take, WroteBackend, Charged, w, TypedRest
<1>4. TRUE \in BOOLEAN /\ FALSE \in BOOLEAN
  OBVIOUS
<1> QED
  BY <1>1, <1>2, <1>3, <1>4, Zenon

WroteSetting ==
    /\ Charged /\ staged' = staged /\ disk' \in Disks
    /\ disk'.backend = disk.backend /\ disk'.tokens = disk.tokens /\ disk'.journal = disk.journal

LEMMA SettingWritten ==
    ASSUME TypedRest, NEW s \in Slots, NEW v, NEW a \in Written(s, v), Take(a),
           IF s = "provider" THEN v \in Providers ELSE v \in Numbers
    PROVE  a.ok \in BOOLEAN /\ WroteSetting
<1> DEFINE w == [disk EXCEPT ![s] = v]
           h == [disk EXCEPT ![s] = Mixed]
<1>1. /\ w \in Disks /\ w.backend = disk.backend /\ w.tokens = disk.tokens /\ w.journal = disk.journal
      /\ s \in Compound => /\ h \in Disks /\ h.backend = disk.backend /\ h.tokens = disk.tokens
                           /\ h.journal = disk.journal
  BY Zero DEF TypedRest, Slots, Disks, Compound, Mixed
<1>2. \E o \in BOOLEAN, c \in {0, 1} :
        \/ a = Answer(o, w, staged, c) \/ a = Answer(o, disk, staged, c)
        \/ s \in Compound /\ a = Answer(o, h, staged, c)
  BY DEF Written
<1> HIDE DEF w, h
<1>3. PICK o \in BOOLEAN, c \in {0, 1}, e \in {w, disk, h} :
        a = Answer(o, e, staged, c) /\ (e \in {w, disk} \/ (s \in Compound /\ e = h))
  BY <1>2
<1>4. a.ok \in BOOLEAN /\ a.disk = e /\ a.staged = staged /\ a.cost = c
  BY <1>3 DEF Answer
<1> QED
  BY <1>1, <1>3, <1>4 DEF Take, WroteSetting, Charged, TypedRest

\* The variables that no step of the transaction itself touches.
Elsewhere == UNCHANGED <<up, prior, proven, count, crashes>>
Outside == Elsewhere /\ UNCHANGED <<pending, cleanup>>

Same(t) == t.kind = tx.kind /\ t.n = tx.n /\ t.previous = tx.previous
Flags(t) == t.promoted = tx.promoted /\ t.offError = tx.offError /\ t.credError = tx.credError

PCs == {"idle", "recover", "read"} \cup PastRead

\* A step of the transaction that only goes on at p, or may change its
\* progress within the settings besides.
LEMMA AtHas ==
    ASSUME TypedTx, NEW p \in PCs, NEW f \in BOOLEAN, NEW T \in SUBSET Slots
    PROVE  /\ At(p) \in Transactions /\ At(p).pc = p /\ Same(At(p)) /\ Flags(At(p))
           /\ At(p).touched = tx.touched /\ At(p).todo = tx.todo
           /\ [At(p) EXCEPT !.failed = f] \in Transactions /\ [At(p) EXCEPT !.failed = f].pc = p
           /\ Same([At(p) EXCEPT !.failed = f]) /\ Flags([At(p) EXCEPT !.failed = f])
           /\ [At(p) EXCEPT !.touched = T] \in Transactions /\ [At(p) EXCEPT !.touched = T].pc = p
           /\ Same([At(p) EXCEPT !.touched = T]) /\ Flags([At(p) EXCEPT !.touched = T])
  BY DEF TypedTx, At, Transactions, PCs, Same, Flags

\* Where a transaction goes when a step fails.
Aborting(p) == p = IF Handle(tx.kind) /\ ~tx.promoted THEN "discard" ELSE "off"

LEMMA AbortedHas ==
    ASSUME TypedTx, NEW T \in SUBSET Slots
    PROVE  /\ Aborted \in Transactions /\ Aborting(Aborted.pc) /\ Same(Aborted) /\ Flags(Aborted)
           /\ [Aborted EXCEPT !.touched = T] \in Transactions /\ Aborting([Aborted EXCEPT !.touched = T].pc)
           /\ Same([Aborted EXCEPT !.touched = T]) /\ Flags([Aborted EXCEPT !.touched = T])
  BY DEF TypedTx, Aborted, Aborting, At, Transactions, PastRead, Undo, Same, Flags

LEMMA EndHas ==
    ASSUME NEW o \in {"refused", "committed", "disabled", "restored"}
    PROVE  /\ End(o) \in Transactions /\ End(o).pc = "idle" /\ End(o).kind = "file" /\ End(o).n = 0
           /\ ~End(o).promoted /\ ~End(o).offError /\ ~End(o).credError
  BY DEF End, NoTx, Transactions, CandidateKinds

LEMMA NoTxHas ==
    /\ NoTx \in Transactions /\ NoTx.pc = "idle" /\ NoTx.kind = "file" /\ NoTx.n = 0
    /\ ~NoTx.promoted /\ ~NoTx.offError /\ ~NoTx.credError
  BY DEF NoTx, Transactions, CandidateKinds

\* The next state of the transaction.
Goes(p) == tx' \in Transactions /\ tx'.pc = p /\ Same(tx') /\ Flags(tx')
Aborts == tx' \in Transactions /\ Aborting(tx'.pc) /\ Same(tx') /\ Flags(tx')
Ends ==
    /\ tx' \in Transactions /\ tx'.pc = "idle" /\ tx'.kind = "file" /\ tx'.n = 0
    /\ ~tx'.promoted /\ ~tx'.offError /\ ~tx'.credError

LEMMA AtGoes ==
    ASSUME TypedTx, NEW p \in PCs, NEW f \in BOOLEAN, NEW T \in SUBSET Slots,
           tx' \in {At(p), [At(p) EXCEPT !.failed = f], [At(p) EXCEPT !.touched = T]}
    PROVE  Goes(p)
<1>1. CASE tx' = At(p)
  BY <1>1, AtHas DEF Goes
<1>2. CASE tx' = [At(p) EXCEPT !.failed = f]
  BY <1>2, AtHas DEF Goes
<1>3. CASE tx' = [At(p) EXCEPT !.touched = T]
  BY <1>3, AtHas DEF Goes
<1> QED
  BY <1>1, <1>2, <1>3

LEMMA AbortedAborts ==
    ASSUME TypedTx, NEW T \in SUBSET Slots, tx' \in {Aborted, [Aborted EXCEPT !.touched = T]}
    PROVE  Aborts
  BY AbortedHas DEF Aborts

LEMMA EndEnds ==
    ASSUME NEW o \in {"refused", "committed", "disabled", "restored"}, tx' = End(o) PROVE Ends
  BY EndHas DEF Ends

ReadFrame == Charged /\ Outside /\ UNCHANGED <<disk, staged>>

LEMMA EnsureDisabledDoes ==
    ASSUME JInv, EnsureDisabled
    PROVE  /\ Outside
           /\ \E ok \in BOOLEAN :
                /\ WroteBackend("off", ok)
                /\ \/ tx.pc = "disable" /\ (IF ok THEN Goes("disabled") ELSE Aborts)
                   \/ tx.pc = "off" /\ Goes(IF ok THEN "isOff" ELSE "offAgain")
                   \/ tx.pc = "restoreOff" /\ Goes(IF ok THEN "restoreIsOff" ELSE "keepOff")
<1>1. PICK a \in Written("backend", "off") :
        /\ Take(a)
        /\ tx' = CASE tx.pc = "disable" -> IF a.ok THEN At("disabled") ELSE Aborted
                   [] tx.pc = "off" -> IF a.ok THEN At("isOff") ELSE At("offAgain")
                   [] OTHER -> IF a.ok THEN At("restoreIsOff") ELSE [At("keepOff") EXCEPT !.failed = TRUE]
  BY DEF EnsureDisabled, Write
<1>2. a.ok \in BOOLEAN /\ WroteBackend("off", a.ok)
  BY <1>1, BackendWritten DEF JInv, Backends
<1>3. Outside /\ tx.pc \in {"disable", "off", "restoreOff"}
  BY DEF EnsureDisabled, Write, Outside, Elsewhere
<1>4. TypedTx /\ {} \in SUBSET Slots /\ FALSE \in BOOLEAN /\ TRUE \in BOOLEAN
      /\ "disabled" \in PCs /\ "isOff" \in PCs /\ "offAgain" \in PCs
      /\ "restoreIsOff" \in PCs /\ "keepOff" \in PCs
  BY DEF JInv, PCs, PastRead, Forward, Undo, Restore
<1>5. CASE tx.pc = "disable"
  BY <1>1, <1>2, <1>3, <1>4, <1>5, AtGoes, AbortedAborts
<1>6. CASE tx.pc = "off"
  BY <1>1, <1>2, <1>3, <1>4, <1>6, AtGoes
<1>7. CASE tx.pc = "restoreOff"
  BY <1>1, <1>2, <1>3, <1>4, <1>7, AtGoes
<1> QED
  BY <1>3, <1>5, <1>6, <1>7

LEMMA PCsAre ==
    PCs = {"idle", "recover", "read", "disable", "disabled", "write", "verify", "promote", "promoted",
           "activate", "active", "finalize", "discard", "off", "isOff", "offAgain", "rollback",
           "restoreOff", "restoreIsOff", "restore", "reactivate", "reactivated", "keepOff"}
  BY DEF PCs, PastRead, Forward, Undo, Restore

LEMMA GoesAt == ASSUME TypedTx, NEW p \in PCs, tx' = At(p) PROVE Goes(p)
<1>1. {} \in SUBSET Slots /\ FALSE \in BOOLEAN
  OBVIOUS
<1> QED
  BY <1>1, AtGoes

LEMMA GoesFailed == ASSUME TypedTx, NEW p \in PCs, tx' = [At(p) EXCEPT !.failed = TRUE] PROVE Goes(p)
<1>1. {} \in SUBSET Slots /\ TRUE \in BOOLEAN
  OBVIOUS
<1> QED
  BY <1>1, AtGoes

LEMMA GoesAborted == ASSUME TypedTx, tx' = Aborted PROVE Aborts
<1>1. {} \in SUBSET Slots
  OBVIOUS
<1> QED
  BY <1>1, AbortedAborts

LEMMA CheckDisabledDoes ==
    ASSUME JInv, CheckDisabled
    PROVE  /\ ReadFrame /\ tx.pc = "disabled"
           /\ \/ Off(disk) /\ Goes("write") /\ tx'.todo = Writes(tx.kind)
              \/ Aborts
<1>1. ReadFrame /\ tx.pc = "disabled" /\ TypedTx
  BY SyncConfigurationAssumption
     DEF CheckDisabled, Read, ReadFrame, Charged, Outside, Elsewhere, JInv, TypedRest
<1>2. \/ Off(disk) /\ tx' = [At("write") EXCEPT !.todo = Writes(tx.kind)]
      \/ tx' = Aborted
      \/ tx' = [Aborted EXCEPT !.touched = {s \in Slots : disk[s] # tx.previous.settings[s]}]
  BY DEF CheckDisabled, Read
<1>3. CASE Off(disk) /\ tx' = [At("write") EXCEPT !.todo = Writes(tx.kind)]
  <2>1. Writes(tx.kind) \in {<<"path">>, <<"webdav">>, <<"cloud", "provider">>, <<"provider">>}
    BY DEF Writes
  <2>2. tx' = [tx EXCEPT !.pc = "write", !.todo = Writes(tx.kind)] /\ tx \in Transactions
    BY <1>1, <1>3 DEF At, TypedTx
  <2>3. Goes("write") /\ tx'.todo = Writes(tx.kind)
    BY <2>1, <2>2 DEF Goes, Transactions, Same, Flags, PastRead, Forward
  <2> QED
    BY <1>1, <1>3, <2>3
<1>4. CASE tx' = Aborted
  BY <1>1, <1>4, GoesAborted
<1>5. CASE tx' = [Aborted EXCEPT !.touched = {s \in Slots : disk[s] # tx.previous.settings[s]}]
  <2>1. {s \in Slots : disk[s] # tx.previous.settings[s]} \in SUBSET Slots
    OBVIOUS
  <2> QED
    BY <1>1, <1>5, <2>1, AbortedAborts
<1> QED
  BY <1>2, <1>3, <1>4, <1>5

LEMMA WriteTransportDoes ==
    ASSUME JInv, WriteTransport
    PROVE  /\ Outside /\ WroteSetting /\ tx.pc = "write"
           /\ \/ Goes("verify")
              \/ Goes("write") /\ tx.kind = "selfhosted" /\ tx'.todo = <<"provider">>
              \/ Aborts
<1> DEFINE s == Head(tx.todo)
           v == Value(tx.kind, s, tx.n)
<1>1. Outside /\ tx.pc = "write" /\ TypedTx /\ TypedRest
  BY DEF WriteTransport, Write, Outside, Elsewhere, JInv
<1>2. \/ tx.todo = <<"path">> /\ tx.kind = "file"
      \/ tx.todo = <<"webdav">> /\ tx.kind = "webdav"
      \/ tx.todo = <<"cloud", "provider">> /\ tx.kind = "selfhosted"
      \/ tx.todo = <<"provider">>
  BY <1>1 DEF TypedTx, Writes, Transactions, CandidateKinds
<1>3. /\ s \in Slots
      /\ IF s = "provider" THEN v \in Providers ELSE v \in Numbers
      /\ Len(tx.todo) = 1 \/ (tx.kind = "selfhosted" /\ Tail(tx.todo) = <<"provider">>)
      /\ Tail(tx.todo) \in {<<>>, <<"provider">>}
  <2>1. ASSUME NEW x, tx.todo = <<x>> PROVE s = x /\ Len(tx.todo) = 1 /\ Tail(tx.todo) = <<>>
    BY <2>1
  <2>2. ASSUME tx.todo = <<"cloud", "provider">> PROVE s = "cloud" /\ Tail(tx.todo) = <<"provider">>
    BY <2>2
  <2> HIDE DEF s
  <2> QED
    BY <1>1, <1>2, <2>1, <2>2 DEF Value, Slots, Providers, TypedTx
<1>4. PICK a \in Written(s, v) :
        /\ Take(a)
        /\ tx' = IF ~(a.ok) THEN [Aborted EXCEPT !.touched = @ \cup {s}]
                 ELSE [At(IF Len(tx.todo) = 1 THEN "verify" ELSE "write")
                         EXCEPT !.touched = @ \cup {s}, !.todo = Tail(@)]
  BY DEF WriteTransport, Write
<1>5. WroteSetting
  BY <1>1, <1>3, <1>4, SettingWritten
<1>6. tx.touched \cup {s} \in SUBSET Slots
  BY <1>1, <1>3 DEF TypedTx, Transactions
<1> HIDE DEF s, v
<1>7. CASE ~(a.ok)
  <2>1. tx' = [Aborted EXCEPT !.touched = tx.touched \cup {s}]
    BY <1>1, <1>4, <1>7 DEF Aborted, At, TypedTx, Transactions
  <2> QED
    BY <1>1, <1>5, <1>6, <2>1, AbortedAborts
<1>8. CASE a.ok
  <2>1. PICK p \in {"verify", "write"} :
          /\ tx' = [tx EXCEPT !.pc = p, !.touched = tx.touched \cup {s}, !.todo = Tail(tx.todo)]
          /\ p = "write" => Len(tx.todo) # 1
    BY <1>1, <1>4, <1>8 DEF At, TypedTx, Transactions
  <2>2. Goes(p) /\ tx'.todo = Tail(tx.todo)
    BY <1>1, <1>3, <1>6, <2>1, PCsAre DEF Goes, TypedTx, Transactions, Same, Flags, PCs
  <2> QED
    BY <1>1, <1>3, <1>5, <2>1, <2>2
<1> QED
  BY <1>7, <1>8

LEMMA VerifyTransportDoes ==
    ASSUME JInv, VerifyTransport
    PROVE  /\ ReadFrame /\ tx.pc = "verify"
           /\ \/ Settings(disk) = Expected /\ Goes(IF Handle(tx.kind) THEN "promote" ELSE "activate")
              \/ Aborts
<1>1. ReadFrame /\ tx.pc = "verify" /\ TypedTx
  BY SyncConfigurationAssumption
     DEF VerifyTransport, Read, ReadFrame, Charged, Outside, Elsewhere, JInv, TypedRest
<1>2. \/ Settings(disk) = Expected /\ tx' = At(IF Handle(tx.kind) THEN "promote" ELSE "activate")
      \/ tx' = Aborted
  BY DEF VerifyTransport, Read, Matches
<1> QED
  BY <1>1, <1>2, GoesAt, GoesAborted, PCsAre

LEMMA VerifyPromotedDoes ==
    ASSUME JInv, VerifyPromoted
    PROVE  /\ ReadFrame /\ tx.pc = "promoted"
           /\ (Settings(disk) = Expected /\ Goes("activate")) \/ Aborts
<1>1. ReadFrame /\ tx.pc = "promoted" /\ TypedTx
  BY SyncConfigurationAssumption
     DEF VerifyPromoted, Read, ReadFrame, Charged, Outside, Elsewhere, JInv, TypedRest
<1>2. (Settings(disk) = Expected /\ tx' = At("activate")) \/ tx' = Aborted
  BY DEF VerifyPromoted, Read, Matches
<1> QED
  BY <1>1, <1>2, GoesAt, GoesAborted, PCsAre

LEMMA PromoteCredentialsDoes ==
    ASSUME JInv, PromoteCredentials
    PROVE  /\ Elsewhere /\ tx.pc = "promote" /\ UNCHANGED <<pending, cleanup>>
           /\ tx' \in Transactions /\ Same(tx') /\ tx'.promoted
           /\ tx'.offError = tx.offError /\ tx'.credError = tx.credError
           /\ \E a \in Promote(disk, staged) : Take(a) /\ tx'.pc = IF a.ok THEN "promoted" ELSE "off"
<1>1. Elsewhere /\ tx.pc = "promote" /\ UNCHANGED cleanup /\ TypedTx
  BY DEF PromoteCredentials, Native, Elsewhere, JInv
<1>2. PICK a \in Promote(disk, staged) :
        /\ Take(a) /\ pending' = pending
        /\ tx' = [At(IF a.ok THEN "promoted" ELSE "off") EXCEPT !.promoted = TRUE]
  BY DEF PromoteCredentials, Native
<1>3. PICK p \in {"promoted", "off"} :
        p = (IF a.ok THEN "promoted" ELSE "off") /\ tx' = [tx EXCEPT !.pc = p, !.promoted = TRUE]
  BY <1>1, <1>2 DEF At, TypedTx, Transactions
<1>4. /\ tx' \in Transactions /\ Same(tx') /\ tx'.promoted /\ tx'.pc = p
      /\ tx'.offError = tx.offError /\ tx'.credError = tx.credError
  BY <1>1, <1>3, PCsAre DEF TypedTx, Transactions, Same, PCs
<1> QED
  BY <1>1, <1>2, <1>3, <1>4

LEMMA ActivateDoes ==
    ASSUME JInv, Activate
    PROVE  /\ Outside /\ tx.pc = "activate"
           /\ \E ok \in BOOLEAN :
                WroteBackend(Backend(tx.kind), ok) /\ (IF ok THEN Goes("active") ELSE Aborts)
<1>1. Outside /\ tx.pc = "activate" /\ TypedTx /\ TypedRest /\ Backend(tx.kind) \in Backends
  BY DEF Activate, Write, Outside, Elsewhere, JInv, Backend, Backends
<1>2. PICK a \in Written("backend", Backend(tx.kind)) :
        Take(a) /\ tx' = IF a.ok THEN At("active") ELSE Aborted
  BY DEF Activate, Write
<1>3. a.ok \in BOOLEAN /\ WroteBackend(Backend(tx.kind), a.ok)
  BY <1>1, <1>2, BackendWritten
<1> QED
  BY <1>1, <1>2, <1>3, GoesAt, GoesAborted, PCsAre

LEMMA VerifyActiveDoes ==
    ASSUME JInv, VerifyActive
    PROVE  /\ ReadFrame /\ tx.pc = "active"
           /\ \/ Matches(Backend(tx.kind), Expected) /\ Handle(tx.kind) /\ Goes("finalize")
              \/ Ends /\ ~Handle(tx.kind)
              \/ (faults' = faults + 1 \/ ~Matches(Backend(tx.kind), Expected)) /\ Aborts
<1>1. ReadFrame /\ tx.pc = "active" /\ TypedTx
  BY SyncConfigurationAssumption
     DEF VerifyActive, Read, ReadFrame, Charged, Outside, Elsewhere, JInv, TypedRest
<1>2. \/ Matches(Backend(tx.kind), Expected) /\ Handle(tx.kind) /\ tx' = At("finalize")
      \/ tx' = End("committed") /\ ~Handle(tx.kind)
      \/ (faults' = faults + 1 \/ ~Matches(Backend(tx.kind), Expected)) /\ tx' = Aborted
  BY DEF VerifyActive, Read
<1> QED
  BY <1>1, <1>2, GoesAt, GoesAborted, EndEnds, PCsAre

LEMMA CheckIsOffDoes ==
    ASSUME JInv, CheckIsOff
    PROVE  /\ ReadFrame /\ tx.pc = "isOff"
           /\ (Off(disk) /\ Goes("rollback")) \/ Goes("offAgain")
<1>1. ReadFrame /\ tx.pc = "isOff" /\ TypedTx
  BY SyncConfigurationAssumption
     DEF CheckIsOff, Read, ReadFrame, Charged, Outside, Elsewhere, JInv, TypedRest
<1>2. (Off(disk) /\ tx' = At("rollback")) \/ tx' = At("offAgain")
  BY DEF CheckIsOff, Read
<1> QED
  BY <1>1, <1>2, GoesAt, PCsAre

LEMMA CheckRestoreIsOffDoes ==
    ASSUME JInv, CheckRestoreIsOff
    PROVE  /\ ReadFrame /\ tx.pc = "restoreIsOff"
           /\ Goes("restore") \/ Goes("keepOff")
<1>1. ReadFrame /\ tx.pc = "restoreIsOff" /\ TypedTx
  BY SyncConfigurationAssumption
     DEF CheckRestoreIsOff, Read, ReadFrame, Charged, Outside, Elsewhere, JInv, TypedRest
<1>2. tx' = At("restore") \/ tx' = [At("keepOff") EXCEPT !.failed = TRUE]
  BY DEF CheckRestoreIsOff, Read
<1> QED
  BY <1>1, <1>2, GoesAt, GoesFailed, PCsAre

LEMMA VerifyRestoredDoes ==
    ASSUME JInv, VerifyRestored
    PROVE  /\ ReadFrame /\ tx.pc = "restore"
           /\ (Settings(disk) = tx.previous.settings /\ Goes("reactivate")) \/ Goes("keepOff")
<1>1. ReadFrame /\ tx.pc = "restore" /\ TypedTx
  BY SyncConfigurationAssumption
     DEF VerifyRestored, Read, ReadFrame, Charged, Outside, Elsewhere, JInv, TypedRest
<1>2. \/ Settings(disk) = tx.previous.settings /\ tx' = At("reactivate")
      \/ tx' = At("keepOff") \/ tx' = [At("keepOff") EXCEPT !.failed = TRUE]
  BY DEF VerifyRestored, Read, Matches
<1> QED
  BY <1>1, <1>2, GoesAt, GoesFailed, PCsAre

LEMMA VerifyReactivatedDoes ==
    ASSUME JInv, VerifyReactivated
    PROVE  ReadFrame /\ tx.pc = "reactivated" /\ (Ends \/ Goes("keepOff"))
<1>1. ReadFrame /\ tx.pc = "reactivated" /\ TypedTx
  BY SyncConfigurationAssumption
     DEF VerifyReactivated, Read, ReadFrame, Charged, Outside, Elsewhere, JInv, TypedRest
<1>2. tx' = End("restored") \/ tx' = [At("keepOff") EXCEPT !.failed = TRUE]
  BY DEF VerifyReactivated, Read
<1> QED
  BY <1>1, <1>2, GoesFailed, EndEnds, PCsAre

LEMMA OffAgainDoes ==
    ASSUME JInv, OffAgain
    PROVE  /\ Outside /\ tx.pc = "offAgain"
           /\ \E ok \in BOOLEAN : WroteBackend("off", ok)
           /\ tx' \in Transactions /\ Same(tx') /\ tx'.pc = "rollback" /\ tx'.offError
           /\ tx'.promoted = tx.promoted /\ tx'.credError = tx.credError
<1>1. Outside /\ tx.pc = "offAgain" /\ TypedTx /\ TypedRest
  BY DEF OffAgain, Write, Outside, Elsewhere, JInv
<1>2. PICK a \in Written("backend", "off") :
        Take(a) /\ tx' = [At("rollback") EXCEPT !.offError = TRUE]
  BY DEF OffAgain, Write
<1>3. a.ok \in BOOLEAN /\ WroteBackend("off", a.ok)
  BY <1>1, <1>2, BackendWritten DEF Backends
<1>4. tx' = [tx EXCEPT !.pc = "rollback", !.offError = TRUE]
  BY <1>1, <1>2 DEF At, TypedTx, Transactions
<1>5. /\ tx' \in Transactions /\ Same(tx') /\ tx'.pc = "rollback" /\ tx'.offError
      /\ tx'.promoted = tx.promoted /\ tx'.credError = tx.credError
  BY <1>1, <1>4 DEF TypedTx, Transactions, Same, PastRead, Undo
<1> QED
  BY <1>1, <1>3, <1>5

\* What a rollback leaves to be done.
Restores(bad) ==
    /\ tx' \in Transactions /\ tx'.pc = "restoreOff" /\ Same(tx')
    /\ tx'.promoted = tx.promoted /\ tx'.offError = tx.offError /\ (tx'.credError <=> bad)

LEMMA RollbackCredentialsDoes ==
    ASSUME JInv, RollbackCredentials
    PROVE  /\ Elsewhere /\ cleanup' = cleanup /\ tx.pc = "rollback"
           /\ \/ /\ tx.promoted
                 /\ \E a \in Rollback(disk, staged) :
                      /\ Take(a) /\ a.ok \in BOOLEAN /\ pending' = IF a.ok THEN 0 ELSE pending
                      /\ IF tx.offError THEN Ends ELSE Restores(~(a.ok))
              \/ /\ ~tx.promoted /\ UNCHANGED <<disk, staged, pending, faults>>
                 /\ IF tx.offError THEN Ends ELSE Restores(FALSE)
<1> DEFINE after(bad) == IF tx.offError THEN End("disabled") ELSE [At("restoreOff") EXCEPT !.credError = bad]
<1>1. Elsewhere /\ cleanup' = cleanup /\ tx.pc = "rollback" /\ TypedTx /\ TypedRest /\ Matched(disk)
  BY DEF RollbackCredentials, Native, Elsewhere, JInv
<1>2. ASSUME NEW bad \in BOOLEAN, tx' = after(bad)
      PROVE  IF tx.offError THEN Ends ELSE Restores(bad)
  <2>1. CASE tx.offError
    BY <1>2, <2>1, EndEnds
  <2>2. CASE ~tx.offError
    <3>1. tx' = [tx EXCEPT !.pc = "restoreOff", !.credError = bad]
      BY <1>1, <1>2, <2>2 DEF At, TypedTx, Transactions
    <3> QED
      BY <1>1, <2>2, <3>1 DEF Restores, TypedTx, Transactions, Same, PastRead, Restore
  <2> QED
    BY <2>1, <2>2
<1>3. CASE tx.promoted
  <2>1. PICK a \in Rollback(disk, staged) :
          Take(a) /\ tx' = after(~(a.ok)) /\ pending' = IF a.ok THEN 0 ELSE pending
    BY <1>3 DEF RollbackCredentials, Native
  <2>2. a.ok \in BOOLEAN
    BY <1>1, RollbackDoes DEF TypedRest, Answers
  <2>3. (~(a.ok)) \in BOOLEAN
    OBVIOUS
  <2> HIDE DEF after
  <2> QED
    BY <1>1, <1>2, <1>3, <2>1, <2>2, <2>3
<1>4. CASE ~tx.promoted
  <2>1. tx' = after(FALSE) /\ UNCHANGED <<disk, staged, pending, faults>> /\ FALSE \in BOOLEAN
    BY <1>4 DEF RollbackCredentials
  <2> HIDE DEF after
  <2> QED
    BY <1>1, <1>2, <1>4, <2>1
<1> QED
  BY <1>3, <1>4

LEMMA RestoreSettingDoes ==
    ASSUME JInv, RestoreSetting
    PROVE  Outside /\ tx.pc = "restore" /\ WroteSetting /\ Goes("restore")
<1>1. Outside /\ tx.pc = "restore" /\ TypedTx /\ TypedRest /\ tx.previous \in Found
  BY DEF RestoreSetting, Write, Outside, Elsewhere, JInv, TypedTx, PastRead, Restore
<1>2. PICK s \in tx.touched :
        IF Restorable(s)
        THEN \E a \in Written(s, tx.previous.settings[s]) :
               Take(a) /\ tx' = [tx EXCEPT !.touched = @ \ {s}, !.failed = @ \/ ~(a.ok)]
        ELSE /\ tx' = [tx EXCEPT !.touched = @ \ {s}, !.failed = TRUE]
             /\ UNCHANGED <<disk, staged, faults>>
  BY DEF RestoreSetting, Write
<1>3. /\ s \in Slots
      /\ IF s = "provider" THEN tx.previous.settings[s] \in Providers
         ELSE tx.previous.settings[s] \in Numbers
  BY <1>1, <1>2 DEF TypedTx, Transactions, Found, SettingsOf, Slots
<1>4. CASE Restorable(s)
  <2>1. PICK a \in Written(s, tx.previous.settings[s]) :
          Take(a) /\ tx' = [tx EXCEPT !.touched = tx.touched \ {s}, !.failed = tx.failed \/ ~(a.ok)]
    BY <1>1, <1>2, <1>4 DEF TypedTx, Transactions
  <2>2. WroteSetting
    BY <1>1, <1>3, <2>1, SettingWritten
  <2>3. Goes("restore")
    BY <1>1, <2>1 DEF Goes, Same, Flags, TypedTx, Transactions
  <2> QED
    BY <1>1, <2>2, <2>3
<1>5. CASE ~Restorable(s)
  <2>1. tx' = [tx EXCEPT !.touched = tx.touched \ {s}, !.failed = TRUE] /\ UNCHANGED <<disk, staged, faults>>
    BY <1>1, <1>2, <1>5 DEF TypedTx, Transactions
  <2>2. WroteSetting
    BY <1>1, <2>1, SyncConfigurationAssumption DEF WroteSetting, Charged, TypedRest
  <2>3. Goes("restore")
    BY <1>1, <2>1 DEF Goes, Same, Flags, TypedTx, Transactions
  <2> QED
    BY <1>1, <2>2, <2>3
<1> QED
  BY <1>4, <1>5

LEMMA ReactivateDoes ==
    ASSUME JInv, Reactivate
    PROVE  /\ Outside /\ tx.pc = "reactivate"
           /\ \/ Charged /\ UNCHANGED <<disk, staged>> /\ Ends
              \/ /\ ~tx.credError /\ tx.previous.backend # "off"
                 /\ Goes("reactivated")
                 /\ \E ok \in BOOLEAN : WroteBackend(tx.previous.backend, ok)
<1>1. /\ Outside /\ tx.pc = "reactivate" /\ TypedTx /\ TypedRest /\ tx.previous \in Found
  BY DEF Reactivate, Write, Outside, Elsewhere, JInv, TypedTx, PastRead, Restore
<1>2. CASE tx.credError \/ tx.previous.backend = "off"
  <2>1. /\ tx' = End(IF tx.credError THEN "disabled" ELSE "restored")
        /\ UNCHANGED <<disk, staged, faults>>
    BY <1>2 DEF Reactivate
  <2>2. Ends
    BY <2>1, EndEnds
  <2> QED
    BY <1>1, <2>1, <2>2, SyncConfigurationAssumption DEF Charged, TypedRest
<1>3. CASE ~(tx.credError \/ tx.previous.backend = "off")
  <2>1. PICK a \in Written("backend", tx.previous.backend) :
          Take(a) /\ tx' = [At("reactivated") EXCEPT !.failed = ~(a.ok)]
    BY <1>3 DEF Reactivate, Write
  <2>2. a.ok \in BOOLEAN /\ WroteBackend(tx.previous.backend, a.ok)
    BY <1>1, <2>1, BackendWritten DEF Found
  <2>3. (~(a.ok)) \in BOOLEAN /\ {} \in SUBSET Slots
    OBVIOUS
  <2>4. Goes("reactivated")
    BY <1>1, <2>1, <2>3, AtGoes, PCsAre
  <2> QED
    BY <1>1, <1>3, <2>2, <2>4
<1> QED
  BY <1>2, <1>3

LEMMA KeepOffDoes ==
    ASSUME JInv, KeepOff
    PROVE  Outside /\ tx.pc = "keepOff" /\ Ends /\ \E ok \in BOOLEAN : WroteBackend("off", ok)
<1>1. Outside /\ tx.pc = "keepOff" /\ TypedRest
  BY DEF KeepOff, Write, Outside, Elsewhere, JInv
<1>2. PICK a \in Written("backend", "off") : Take(a) /\ tx' = End("disabled")
  BY DEF KeepOff, Write
<1>3. a.ok \in BOOLEAN /\ WroteBackend("off", a.ok)
  BY <1>1, <1>2, BackendWritten DEF Backends
<1> QED
  BY <1>1, <1>2, <1>3, EndEnds

LEMMA RecoverFirstDoes ==
    ASSUME JInv, RecoverFirst
    PROVE  /\ Elsewhere /\ pending' = pending /\ cleanup' \in {0, cleanup} /\ tx.pc = "recover"
           /\ \E a \in RecoverBefore(disk, staged) : Take(a) /\ (IF a.ok THEN Goes("read") ELSE Ends)
<1>1. Elsewhere /\ pending' = pending /\ cleanup' \in {0, cleanup} /\ tx.pc = "recover" /\ TypedTx
  BY DEF RecoverFirst, Elsewhere, JInv
<1>2. PICK a \in RecoverBefore(disk, staged) :
        Take(a) /\ tx' = IF a.ok THEN At("read") ELSE End("refused")
  BY DEF RecoverFirst
<1> QED
  BY <1>1, <1>2, GoesAt, EndEnds, PCsAre

LEMMA ReadPreviousDoes ==
    ASSUME JInv, ReadPrevious
    PROVE  /\ ReadFrame /\ tx.pc = "read"
           /\ \/ Ends
              \/ /\ tx' \in Transactions /\ tx'.pc = "disable" /\ tx'.kind = tx.kind /\ tx'.n = tx.n
                 /\ Flags(tx') /\ tx'.previous \in Found
                 /\ tx'.previous = [backend |-> disk.backend, settings |-> Settings(disk),
                                    tokens |-> IF Off(disk) THEN Settled(disk) ELSE disk.tokens]
<1>1. ReadFrame /\ tx.pc = "read" /\ TypedTx /\ TypedRest /\ Matched(disk)
  BY SyncConfigurationAssumption
     DEF ReadPrevious, Read, ReadFrame, Charged, Outside, Elsewhere, JInv, TypedRest
<1>2. \/ tx' = End("refused")
      \/ tx' = [At("disable") EXCEPT !.previous =
                  [backend |-> disk.backend, settings |-> Settings(disk),
                   tokens |-> RecoverSettled(disk)[2].tokens]]
  BY DEF ReadPrevious, Read
<1>3. CASE tx' = End("refused")
  BY <1>1, <1>3, EndEnds
<1>4. CASE tx' = [At("disable") EXCEPT !.previous =
                    [backend |-> disk.backend, settings |-> Settings(disk),
                     tokens |-> RecoverSettled(disk)[2].tokens]]
  <2>1. PICK k : k = RecoverSettled(disk)[2].tokens
    OBVIOUS
  <2>2. k \in Numbers /\ k = IF Off(disk) THEN Settled(disk) ELSE disk.tokens
    BY <1>1, <2>1, RecoverSettledDoes DEF Recovered, Settled, TypedRest, Disks
  <2>3. PICK f : f = [backend |-> disk.backend, settings |-> Settings(disk), tokens |-> k]
    OBVIOUS
  <2>4. f \in Found
    BY <1>1, <2>2, <2>3, SettingsTyped DEF Found, TypedRest, Disks
  <2>5. tx' = [tx EXCEPT !.pc = "disable", !.previous = f]
    BY <1>1, <1>4, <2>1, <2>3 DEF At, TypedTx, Transactions
  <2>6. /\ tx' \in Transactions /\ tx'.pc = "disable" /\ tx'.kind = tx.kind /\ tx'.n = tx.n
        /\ Flags(tx') /\ tx'.previous = f
    BY <1>1, <2>4, <2>5 DEF TypedTx, Transactions, Flags, PastRead, Forward
  <2> QED
    BY <1>1, <2>2, <2>3, <2>4, <2>6
<1> QED
  BY <1>2, <1>3, <1>4

LEMMA FinalizeCommittedDoes ==
    ASSUME JInv, FinalizeCommitted
    PROVE  /\ Elsewhere /\ tx.pc = "finalize" /\ Ends /\ pending' = 0 /\ cleanup' \in {0, tx.n}
           /\ \E a \in Finalize(disk, staged, tx.n) : Take(a)
  BY EndEnds DEF FinalizeCommitted, Elsewhere

LEMMA DiscardCandidateDoes ==
    ASSUME JInv, DiscardCandidate
    PROVE  /\ Elsewhere /\ tx.pc = "discard" /\ Goes("off") /\ cleanup' = cleanup
           /\ \E a \in Discard(disk, staged) : Take(a) /\ pending' = IF a.ok THEN 0 ELSE pending
<1>1. Elsewhere /\ cleanup' = cleanup /\ tx.pc = "discard" /\ TypedTx /\ tx' = At("off")
  BY DEF DiscardCandidate, Native, Elsewhere, JInv
<1>2. \E a \in Discard(disk, staged) : Take(a) /\ pending' = IF a.ok THEN 0 ELSE pending
  BY DEF DiscardCandidate, Native
<1> QED
  BY <1>1, <1>2, GoesAt, PCsAre

-----------------------------------------------------------------------------
(* The journal and the backend, whatever fails.                             *)

\* A step that leaves the credentials alone.
Held ==
    /\ Outside /\ Charged /\ staged' = staged /\ disk' \in Disks
    /\ disk'.tokens = disk.tokens /\ disk'.journal = disk.journal

LEMMA HeldKeeps == ASSUME JInv, Held PROVE TypedRest' /\ EntryOK'
  BY SyncConfigurationAssumption
     DEF Held, Outside, Elsewhere, Charged, JInv, TypedRest, EntryOK

LEMMA ReadHeld == ASSUME JInv, ReadFrame PROVE Held
  BY DEF ReadFrame, Held, JInv, TypedRest

LEMMA BackendHeld ==
    ASSUME JInv, Outside, NEW v \in Backends, NEW ok \in BOOLEAN, WroteBackend(v, ok)
    PROVE  /\ Held /\ SameSettings(disk, disk') /\ disk'.backend \in {disk.backend, v}
           /\ Settings(disk') = Settings(disk)
           /\ faults' = faults => disk'.backend = v /\ ok
<1>1. /\ Held /\ SameSettings(disk, disk') /\ disk'.backend \in {disk.backend, v}
      /\ faults' = faults => disk'.backend = v /\ ok
  BY DEF WroteBackend, Held, SameSettings, JInv, TypedRest, Disks
<1> QED
  BY <1>1, SettingsSame DEF Held, JInv, TypedRest

LEMMA SettingHeld == ASSUME Outside, WroteSetting PROVE Held
  BY DEF WroteSetting, Held

\* Between transactions most of the invariant is about nothing.
LEMMA IdleKeeps ==
    ASSUME JInv, Ends, TypedRest', UpOK', EntryOK', Matched(disk)',
           pending' # 0 /\ staged'.phase # "none" => staged'.tokens = pending'
    PROVE  JInv'
<1>1. TypedTx'
  BY Zero DEF Ends, TypedTx, PastRead, Forward, Undo, Restore
<1>2. FlagsOK' /\ OffOK' /\ PendingOK' /\ ReadOK' /\ JournalOK' /\ FaultsOK'
  BY DEF Ends, FlagsOK, OffOK, PendingOK, ReadOK, JournalOK, FaultsOK, Handle, PastRead, Forward, Undo, Restore
<1> QED
  BY <1>1, <1>2 DEF JInv

LEMMA EnsureDisabledKeeps == ASSUME JInv, EnsureDisabled PROVE JInv'
<1>1. /\ Held /\ SameSettings(disk, disk') /\ disk'.backend \in {disk.backend, "off"}
      /\ Settings(disk') = Settings(disk) /\ (faults' = faults => Off(disk'))
  BY EnsureDisabledDoes, BackendHeld DEF Backends, Off
<1>2. TypedRest' /\ EntryOK'
  BY <1>1, HeldKeeps
<1>3. TypedTx'
  BY <1>1, EnsureDisabledDoes DEF JInv, TypedTx, FlagsOK, Transactions, Goes, Aborts, Aborting,
     Ends, Same, Flags, Handle, PastRead, Forward, Undo, Restore
<1>4. UpOK'
  BY <1>1, EnsureDisabledDoes DEF JInv, UpOK, Held, Outside, Elsewhere, Goes, Aborts, Aborting,
     Ends, Same, Flags, Handle, PastRead, Forward, Undo, Restore
<1>5. FlagsOK'
  BY <1>1, EnsureDisabledDoes DEF JInv, TypedTx, Transactions, FlagsOK, Promotion, Goes, Aborts,
     Aborting, Ends, Same, Flags, Handle, PastRead, Forward, Undo, Restore
<1>6. OffOK'
  BY <1>1, EnsureDisabledDoes DEF JInv, OffOK, FlagsOK, TypedTx, Transactions, Off, Goes,
     Aborts, Aborting, Ends, Same, Flags, Handle, PastRead, Forward, Undo, Restore
<1>7. PendingOK'
  BY <1>1, EnsureDisabledDoes DEF JInv, PendingOK, Held, Outside, FlagsOK, Goes, Aborts,
     Aborting, Ends, Same, Flags, Handle, PastRead, Forward, Undo, Restore
<1>8. ReadOK'
  BY <1>1, EnsureDisabledDoes DEF JInv, ReadOK, FlagsOK, OffOK, Off, Expected, Value, Matches,
     Goes, Aborts, Aborting, Ends, Same, Flags, Handle, PastRead, Forward, Undo, Restore
<1>9. JournalOK'
  BY <1>1, EnsureDisabledDoes DEF JInv, JournalOK, PendingOK, FlagsOK, Held, Outside, Promotion,
     Goes, Aborts, Aborting, Ends, Same, Flags, Handle, PastRead, Forward, Undo, Restore
<1>10. FaultsOK'
  <2>1. SUFFICES ASSUME tx'.promoted, ~Off(disk')
                 PROVE  /\ tx'.pc = "off" => faults' >= 1
                        /\ tx'.pc \in {"isOff", "offAgain"} => faults' >= 2
                        /\ tx'.pc = "rollback" => faults' >= 3
    BY DEF FaultsOK
  <2>2. faults \in Nat /\ faults' \in {faults, faults + 1}
    BY <1>1 DEF Held, Charged, JInv, TypedRest
  <2>3. tx.promoted /\ ~Off(disk)
    BY <1>1, <2>1, EnsureDisabledDoes DEF Goes, Aborts, Flags, Off
  <2>4. /\ tx.pc = "off" => faults >= 1
        /\ tx.pc \in {"isOff", "offAgain"} => faults >= 2
    BY <2>3 DEF JInv, FaultsOK
  <2>5. tx.pc # "disable"
    BY <2>3 DEF JInv, FlagsOK, Promotion, Restore
  <2> QED
    BY <1>1, <2>1, <2>2, <2>3, <2>4, <2>5, EnsureDisabledDoes DEF Goes
<1>11. Matched(disk)'
  BY <1>1, EnsureDisabledDoes DEF JInv, Matched, OffOK, Off, Committed, Held, SameSettings,
     Goes, Aborts, Aborting, Ends, Same, Flags, Handle, PastRead, Forward, Undo, Restore
<1> QED
  BY <1>2, <1>3, <1>4, <1>5, <1>6, <1>7, <1>8, <1>9, <1>10, <1>11 DEF JInv

LEMMA CheckDisabledKeeps == ASSUME JInv, CheckDisabled PROVE JInv'
<1>1. Held /\ disk' = disk
  BY CheckDisabledDoes, ReadHeld DEF ReadFrame
<1>2. TypedRest' /\ EntryOK'
  BY <1>1, HeldKeeps
<1>3. TypedTx'
  BY <1>1, CheckDisabledDoes DEF JInv, TypedTx, FlagsOK, Transactions, Goes, Aborts, Aborting,
     Ends, Same, Flags, Handle, PastRead, Forward, Undo, Restore
<1>4. UpOK'
  BY <1>1, CheckDisabledDoes DEF JInv, UpOK, Held, Outside, Elsewhere, Goes, Aborts, Aborting,
     Ends, Same, Flags, Handle, PastRead, Forward, Undo, Restore
<1>5. FlagsOK'
  BY <1>1, CheckDisabledDoes DEF JInv, TypedTx, Transactions, FlagsOK, Promotion, Goes, Aborts,
     Aborting, Ends, Same, Flags, Handle, PastRead, Forward, Undo, Restore
<1>6. OffOK'
  BY <1>1, CheckDisabledDoes DEF JInv, OffOK, FlagsOK, TypedTx, Transactions, Off, Goes, Aborts,
     Aborting, Ends, Same, Flags, Handle, PastRead, Forward, Undo, Restore
<1>7. PendingOK'
  BY <1>1, CheckDisabledDoes DEF JInv, PendingOK, Held, Outside, FlagsOK, Goes, Aborts,
     Aborting, Ends, Same, Flags, Handle, PastRead, Forward, Undo, Restore
<1>8. ReadOK'
  BY <1>1, CheckDisabledDoes DEF JInv, ReadOK, FlagsOK, OffOK, Off, Expected, Value, Matches,
     Goes, Aborts, Aborting, Ends, Same, Flags, Handle, PastRead, Forward, Undo, Restore
<1>9. JournalOK'
  BY <1>1, CheckDisabledDoes DEF JInv, JournalOK, PendingOK, FlagsOK, Held, Outside, Promotion,
     Goes, Aborts, Aborting, Ends, Same, Flags, Handle, PastRead, Forward, Undo, Restore
<1>10. FaultsOK'
  BY <1>1, CheckDisabledDoes DEF JInv, FaultsOK, FlagsOK, OffOK, ReadOK, Off, Matches, Charged,
     Held, TypedRest, Promotion, Goes, Aborts, Aborting, Ends, Same, Flags, Handle, PastRead,
     Forward, Undo, Restore
<1>11. Matched(disk)'
  BY <1>1, CheckDisabledDoes DEF JInv, Matched, OffOK, Off, Committed, Held, SameSettings, Goes,
     Aborts, Aborting, Ends, Same, Flags, Handle, PastRead, Forward, Undo, Restore
<1> QED
  BY <1>2, <1>3, <1>4, <1>5, <1>6, <1>7, <1>8, <1>9, <1>10, <1>11 DEF JInv

LEMMA WriteTransportKeeps == ASSUME JInv, WriteTransport PROVE JInv'
<1>1. Held /\ disk'.backend = disk.backend
  BY WriteTransportDoes, SettingHeld DEF WroteSetting
<1>2. TypedRest' /\ EntryOK'
  BY <1>1, HeldKeeps
<1>3. TypedTx'
  BY <1>1, WriteTransportDoes DEF JInv, TypedTx, FlagsOK, Transactions, Goes, Aborts, Aborting,
     Ends, Same, Flags, Handle, PastRead, Forward, Undo, Restore
<1>4. UpOK'
  BY <1>1, WriteTransportDoes DEF JInv, UpOK, Held, Outside, Elsewhere, Goes, Aborts, Aborting,
     Ends, Same, Flags, Handle, PastRead, Forward, Undo, Restore
<1>5. FlagsOK'
  BY <1>1, WriteTransportDoes DEF JInv, TypedTx, Transactions, FlagsOK, Promotion, Goes, Aborts,
     Aborting, Ends, Same, Flags, Handle, PastRead, Forward, Undo, Restore
<1>6. OffOK'
  BY <1>1, WriteTransportDoes DEF JInv, OffOK, FlagsOK, TypedTx, Transactions, Off, Goes,
     Aborts, Aborting, Ends, Same, Flags, Handle, PastRead, Forward, Undo, Restore
<1>7. PendingOK'
  BY <1>1, WriteTransportDoes DEF JInv, PendingOK, Held, Outside, FlagsOK, Goes, Aborts,
     Aborting, Ends, Same, Flags, Handle, PastRead, Forward, Undo, Restore
<1>8. ReadOK'
  BY <1>1, WriteTransportDoes DEF JInv, ReadOK, FlagsOK, OffOK, Off, Expected, Value, Matches,
     Goes, Aborts, Aborting, Ends, Same, Flags, Handle, PastRead, Forward, Undo, Restore
<1>9. JournalOK'
  BY <1>1, WriteTransportDoes DEF JInv, JournalOK, PendingOK, FlagsOK, Held, Outside, Promotion,
     Goes, Aborts, Aborting, Ends, Same, Flags, Handle, PastRead, Forward, Undo, Restore
<1>10. FaultsOK'
  BY <1>1, WriteTransportDoes DEF JInv, FaultsOK, FlagsOK, OffOK, ReadOK, Off, Matches, Charged,
     Held, TypedRest, Promotion, Goes, Aborts, Aborting, Ends, Same, Flags, Handle, PastRead,
     Forward, Undo, Restore
<1>11. Matched(disk)'
  BY <1>1, WriteTransportDoes DEF JInv, Matched, OffOK, Off, Committed, Held, SameSettings,
     Goes, Aborts, Aborting, Ends, Same, Flags, Handle, PastRead, Forward, Undo, Restore
<1> QED
  BY <1>2, <1>3, <1>4, <1>5, <1>6, <1>7, <1>8, <1>9, <1>10, <1>11 DEF JInv

LEMMA VerifyTransportKeeps == ASSUME JInv, VerifyTransport PROVE JInv'
<1>1. Held /\ disk' = disk
  BY VerifyTransportDoes, ReadHeld DEF ReadFrame
<1>2. TypedRest' /\ EntryOK'
  BY <1>1, HeldKeeps
<1>3. TypedTx'
  BY <1>1, VerifyTransportDoes DEF JInv, TypedTx, FlagsOK, Transactions, Goes, Aborts, Aborting,
     Ends, Same, Flags, Handle, PastRead, Forward, Undo, Restore
<1>4. UpOK'
  BY <1>1, VerifyTransportDoes DEF JInv, UpOK, Held, Outside, Elsewhere, Goes, Aborts, Aborting,
     Ends, Same, Flags, Handle, PastRead, Forward, Undo, Restore
<1>5. FlagsOK'
  BY <1>1, VerifyTransportDoes DEF JInv, TypedTx, Transactions, FlagsOK, Promotion, Goes,
     Aborts, Aborting, Ends, Same, Flags, Handle, PastRead, Forward, Undo, Restore
<1>6. OffOK'
  BY <1>1, VerifyTransportDoes DEF JInv, OffOK, FlagsOK, TypedTx, Transactions, Off, Goes,
     Aborts, Aborting, Ends, Same, Flags, Handle, PastRead, Forward, Undo, Restore
<1>7. PendingOK'
  BY <1>1, VerifyTransportDoes DEF JInv, PendingOK, Held, Outside, FlagsOK, Goes, Aborts,
     Aborting, Ends, Same, Flags, Handle, PastRead, Forward, Undo, Restore
<1>8. ReadOK'
  BY <1>1, VerifyTransportDoes DEF JInv, ReadOK, FlagsOK, OffOK, Off, Expected, Value, Matches,
     Goes, Aborts, Aborting, Ends, Same, Flags, Handle, PastRead, Forward, Undo, Restore
<1>9. JournalOK'
  BY <1>1, VerifyTransportDoes DEF JInv, JournalOK, PendingOK, FlagsOK, Held, Outside,
     Promotion, Goes, Aborts, Aborting, Ends, Same, Flags, Handle, PastRead, Forward, Undo,
     Restore
<1>10. FaultsOK'
  BY <1>1, VerifyTransportDoes DEF JInv, FaultsOK, FlagsOK, OffOK, ReadOK, Off, Matches,
     Charged, Held, TypedRest, Promotion, Goes, Aborts, Aborting, Ends, Same, Flags, Handle,
     PastRead, Forward, Undo, Restore
<1>11. Matched(disk)'
  BY <1>1, VerifyTransportDoes DEF JInv, Matched, OffOK, Off, Committed, Held, SameSettings,
     Goes, Aborts, Aborting, Ends, Same, Flags, Handle, PastRead, Forward, Undo, Restore
<1> QED
  BY <1>2, <1>3, <1>4, <1>5, <1>6, <1>7, <1>8, <1>9, <1>10, <1>11 DEF JInv

LEMMA VerifyPromotedKeeps == ASSUME JInv, VerifyPromoted PROVE JInv'
<1>1. Held /\ disk' = disk
  BY VerifyPromotedDoes, ReadHeld DEF ReadFrame
<1>2. TypedRest' /\ EntryOK'
  BY <1>1, HeldKeeps
<1>3. TypedTx'
  BY <1>1, VerifyPromotedDoes DEF JInv, TypedTx, FlagsOK, Transactions, Goes, Aborts, Aborting,
     Ends, Same, Flags, Handle, PastRead, Forward, Undo, Restore
<1>4. UpOK'
  BY <1>1, VerifyPromotedDoes DEF JInv, UpOK, Held, Outside, Elsewhere, Goes, Aborts, Aborting,
     Ends, Same, Flags, Handle, PastRead, Forward, Undo, Restore
<1>5. FlagsOK'
  BY <1>1, VerifyPromotedDoes DEF JInv, TypedTx, Transactions, FlagsOK, Promotion, Goes, Aborts,
     Aborting, Ends, Same, Flags, Handle, PastRead, Forward, Undo, Restore
<1>6. OffOK'
  BY <1>1, VerifyPromotedDoes DEF JInv, OffOK, FlagsOK, TypedTx, Transactions, Off, Goes,
     Aborts, Aborting, Ends, Same, Flags, Handle, PastRead, Forward, Undo, Restore
<1>7. PendingOK'
  BY <1>1, VerifyPromotedDoes DEF JInv, PendingOK, Held, Outside, FlagsOK, Goes, Aborts,
     Aborting, Ends, Same, Flags, Handle, PastRead, Forward, Undo, Restore
<1>8. ReadOK'
  BY <1>1, VerifyPromotedDoes DEF JInv, ReadOK, FlagsOK, OffOK, Off, Expected, Value, Matches,
     Goes, Aborts, Aborting, Ends, Same, Flags, Handle, PastRead, Forward, Undo, Restore
<1>9. JournalOK'
  BY <1>1, VerifyPromotedDoes DEF JInv, JournalOK, PendingOK, FlagsOK, Held, Outside, Promotion,
     Goes, Aborts, Aborting, Ends, Same, Flags, Handle, PastRead, Forward, Undo, Restore
<1>10. FaultsOK'
  BY <1>1, VerifyPromotedDoes DEF JInv, FaultsOK, FlagsOK, OffOK, ReadOK, Off, Matches, Charged,
     Held, TypedRest, Promotion, Goes, Aborts, Aborting, Ends, Same, Flags, Handle, PastRead,
     Forward, Undo, Restore
<1>11. Matched(disk)'
  BY <1>1, VerifyPromotedDoes DEF JInv, Matched, OffOK, Off, Committed, Held, SameSettings,
     Goes, Aborts, Aborting, Ends, Same, Flags, Handle, PastRead, Forward, Undo, Restore
<1> QED
  BY <1>2, <1>3, <1>4, <1>5, <1>6, <1>7, <1>8, <1>9, <1>10, <1>11 DEF JInv

LEMMA ActivateKeeps == ASSUME JInv, Activate PROVE JInv'
<1>1. /\ Held /\ SameSettings(disk, disk') /\ disk'.backend \in {disk.backend, Backend(tx.kind)}
      /\ Settings(disk') = Settings(disk)
  BY ActivateDoes, BackendHeld DEF Backend, Backends
<1>2. TypedRest' /\ EntryOK'
  BY <1>1, HeldKeeps
<1>3. TypedTx'
  BY <1>1, ActivateDoes DEF JInv, TypedTx, FlagsOK, Transactions, Goes, Aborts, Aborting, Ends,
     Same, Flags, Handle, PastRead, Forward, Undo, Restore
<1>4. UpOK'
  BY <1>1, ActivateDoes DEF JInv, UpOK, Held, Outside, Elsewhere, Goes, Aborts, Aborting, Ends,
     Same, Flags, Handle, PastRead, Forward, Undo, Restore
<1>5. FlagsOK'
  BY <1>1, ActivateDoes DEF JInv, TypedTx, Transactions, FlagsOK, Promotion, Goes, Aborts,
     Aborting, Ends, Same, Flags, Handle, PastRead, Forward, Undo, Restore
<1>6. OffOK'
  BY <1>1, ActivateDoes DEF JInv, OffOK, FlagsOK, TypedTx, Transactions, Off, Goes, Aborts,
     Aborting, Ends, Same, Flags, Handle, PastRead, Forward, Undo, Restore
<1>7. PendingOK'
  BY <1>1, ActivateDoes DEF JInv, PendingOK, Held, Outside, FlagsOK, Goes, Aborts, Aborting,
     Ends, Same, Flags, Handle, PastRead, Forward, Undo, Restore
<1>8. ReadOK'
  BY <1>1, ActivateDoes DEF JInv, ReadOK, FlagsOK, OffOK, Off, Expected, Value, Matches, Goes,
     Aborts, Aborting, Ends, Same, Flags, Handle, PastRead, Forward, Undo, Restore
<1>9. JournalOK'
  BY <1>1, ActivateDoes DEF JInv, JournalOK, PendingOK, FlagsOK, Held, Outside, Promotion, Goes,
     Aborts, Aborting, Ends, Same, Flags, Handle, PastRead, Forward, Undo, Restore
<1>10. FaultsOK'
  <2>1. faults \in Nat /\ faults' \in {faults, faults + 1}
    BY <1>1 DEF Held, Charged, JInv, TypedRest
  <2>2. PICK ok \in BOOLEAN :
          WroteBackend(Backend(tx.kind), ok) /\ (IF ok THEN Goes("active") ELSE Aborts)
    BY ActivateDoes
  <2>3. CASE ok
    BY <2>2, <2>3 DEF FaultsOK, Goes
  <2>4. CASE ~ok
    BY <2>1, <2>2, <2>4 DEF FaultsOK, Aborts, Aborting, WroteBackend
  <2> QED
    BY <2>3, <2>4
<1>11. Matched(disk)'
  <2>1. SUFFICES ASSUME disk.journal.open, disk'.backend = Backend(tx.kind)
                 PROVE  Matched(disk)'
    BY <1>1, ActivateDoes DEF JInv, OffOK, Off, Matched, Held
  <2>2. Handle(tx.kind) /\ disk.tokens = disk.journal.candidate
    BY <2>1, ActivateDoes DEF JInv, JournalOK, FlagsOK
  <2>3. Settings(disk).provider = "dropbox"
    BY <2>2, ActivateDoes DEF JInv, ReadOK, Expected, Slots, Writes, Value, Handle
  <2>4. disk.provider = "dropbox"
    BY <2>3, SettingsTyped DEF JInv, TypedRest
  <2> QED
    BY <1>1, <2>1, <2>2, <2>4 DEF Matched, Committed, Held, SameSettings, Backend, Handle
<1> QED
  BY <1>2, <1>3, <1>4, <1>5, <1>6, <1>7, <1>8, <1>9, <1>10, <1>11 DEF JInv

LEMMA VerifyActiveKeeps == ASSUME JInv, VerifyActive PROVE JInv'
<1>1. Held /\ disk' = disk
  BY VerifyActiveDoes, ReadHeld DEF ReadFrame
<1>2. TypedRest' /\ EntryOK'
  BY <1>1, HeldKeeps
<1>3. TypedTx'
  BY <1>1, Zero, VerifyActiveDoes
     DEF JInv, TypedTx, Goes, Aborts, Aborting, Ends, Same, Handle, PastRead, Forward, Undo, Restore
<1>4. UpOK'
  BY <1>1, VerifyActiveDoes DEF JInv, UpOK, Held, Outside, Elsewhere, Goes, Aborts, Aborting,
     Ends, Same, Flags, Handle, PastRead, Forward, Undo, Restore
<1>5. FlagsOK'
  BY <1>1, VerifyActiveDoes DEF JInv, TypedTx, Transactions, FlagsOK, Promotion, Goes, Aborts,
     Aborting, Ends, Same, Flags, Handle, PastRead, Forward, Undo, Restore
<1>6. OffOK'
  BY <1>1, VerifyActiveDoes DEF JInv, OffOK, FlagsOK, TypedTx, Transactions, Off, Goes, Aborts,
     Aborting, Ends, Same, Flags, Handle, PastRead, Forward, Undo, Restore
<1>7. PendingOK'
  BY <1>1, VerifyActiveDoes DEF JInv, PendingOK, Held, Outside, FlagsOK, Goes, Aborts, Aborting,
     Ends, Same, Flags, Handle, PastRead, Forward, Undo, Restore
<1>8. ReadOK'
  BY <1>1, VerifyActiveDoes DEF JInv, ReadOK, FlagsOK, OffOK, Off, Expected, Value, Matches,
     Goes, Aborts, Aborting, Ends, Same, Flags, Handle, PastRead, Forward, Undo, Restore
<1>9. JournalOK'
  BY <1>1, VerifyActiveDoes DEF JInv, JournalOK, PendingOK, FlagsOK, Held, Outside, Promotion,
     Goes, Aborts, Aborting, Ends, Same, Flags, Handle, PastRead, Forward, Undo, Restore
<1>10. FaultsOK'
  <2>1. faults \in Nat /\ faults' \in {faults, faults + 1}
    BY <1>1 DEF Held, Charged, JInv, TypedRest
  <2>2. CASE Aborts /\ (faults' = faults + 1 \/ ~Matches(Backend(tx.kind), Expected))
    <3>1. faults' = faults => Off(disk)
      BY <2>1, <2>2, VerifyActiveDoes DEF JInv, ReadOK, Matches, Off
    <3> QED
      BY <1>1, <2>1, <2>2, <3>1 DEF FaultsOK, Aborts, Aborting, Off
  <2>3. CASE Ends \/ Goes("finalize")
    BY <2>3 DEF FaultsOK, Ends, Goes
  <2> QED
    BY <2>2, <2>3, VerifyActiveDoes
<1>11. Matched(disk)'
  BY <1>1, VerifyActiveDoes DEF JInv, Matched, OffOK, Off, Committed, Held, SameSettings, Goes,
     Aborts, Aborting, Ends, Same, Flags, Handle, PastRead, Forward, Undo, Restore
<1> QED
  BY <1>2, <1>3, <1>4, <1>5, <1>6, <1>7, <1>8, <1>9, <1>10, <1>11 DEF JInv

LEMMA CheckIsOffKeeps == ASSUME JInv, CheckIsOff PROVE JInv'
<1>1. Held /\ disk' = disk
  BY CheckIsOffDoes, ReadHeld DEF ReadFrame
<1>2. TypedRest' /\ EntryOK'
  BY <1>1, HeldKeeps
<1>3. TypedTx'
  BY <1>1, CheckIsOffDoes DEF JInv, TypedTx, FlagsOK, Transactions, Goes, Aborts, Aborting,
     Ends, Same, Flags, Handle, PastRead, Forward, Undo, Restore
<1>4. UpOK'
  BY <1>1, CheckIsOffDoes DEF JInv, UpOK, Held, Outside, Elsewhere, Goes, Aborts, Aborting,
     Ends, Same, Flags, Handle, PastRead, Forward, Undo, Restore
<1>5. FlagsOK'
  BY <1>1, CheckIsOffDoes DEF JInv, TypedTx, Transactions, FlagsOK, Promotion, Goes, Aborts,
     Aborting, Ends, Same, Flags, Handle, PastRead, Forward, Undo, Restore
<1>6. OffOK'
  BY <1>1, CheckIsOffDoes DEF JInv, OffOK, FlagsOK, TypedTx, Transactions, Off, Goes, Aborts,
     Aborting, Ends, Same, Flags, Handle, PastRead, Forward, Undo, Restore
<1>7. PendingOK'
  BY <1>1, CheckIsOffDoes DEF JInv, PendingOK, Held, Outside, FlagsOK, Goes, Aborts, Aborting,
     Ends, Same, Flags, Handle, PastRead, Forward, Undo, Restore
<1>8. ReadOK'
  BY <1>1, CheckIsOffDoes DEF JInv, ReadOK, FlagsOK, OffOK, Off, Expected, Value, Matches, Goes,
     Aborts, Aborting, Ends, Same, Flags, Handle, PastRead, Forward, Undo, Restore
<1>9. JournalOK'
  BY <1>1, CheckIsOffDoes DEF JInv, JournalOK, PendingOK, FlagsOK, Held, Outside, Promotion,
     Goes, Aborts, Aborting, Ends, Same, Flags, Handle, PastRead, Forward, Undo, Restore
<1>10. FaultsOK'
  <2>1. SUFFICES ASSUME tx'.promoted, ~Off(disk')
                 PROVE  /\ tx'.pc = "off" => faults' >= 1
                        /\ tx'.pc \in {"isOff", "offAgain"} => faults' >= 2
                        /\ tx'.pc = "rollback" => faults' >= 3
    BY DEF FaultsOK
  <2>2. faults \in Nat /\ faults' \in {faults, faults + 1}
    BY <1>1 DEF Held, Charged, JInv, TypedRest
  <2>3. tx.promoted /\ ~Off(disk)
    BY <1>1, <2>1, CheckIsOffDoes DEF Goes, Aborts, Flags, Off
  <2>4. /\ tx.pc = "off" => faults >= 1
        /\ tx.pc \in {"isOff", "offAgain"} => faults >= 2
    BY <2>3 DEF JInv, FaultsOK
  <2>5. tx.pc # "disable"
    BY <2>3 DEF JInv, FlagsOK, Promotion, Restore
  <2> QED
    BY <1>1, <2>1, <2>2, <2>3, <2>4, <2>5, CheckIsOffDoes DEF Goes
<1>11. Matched(disk)'
  BY <1>1, CheckIsOffDoes DEF JInv, Matched, OffOK, Off, Committed, Held, SameSettings, Goes,
     Aborts, Aborting, Ends, Same, Flags, Handle, PastRead, Forward, Undo, Restore
<1> QED
  BY <1>2, <1>3, <1>4, <1>5, <1>6, <1>7, <1>8, <1>9, <1>10, <1>11 DEF JInv

LEMMA OffAgainKeeps == ASSUME JInv, OffAgain PROVE JInv'
<1>1. /\ Held /\ SameSettings(disk, disk') /\ disk'.backend \in {disk.backend, "off"}
      /\ Settings(disk') = Settings(disk) /\ (faults' = faults => Off(disk'))
  BY OffAgainDoes, BackendHeld DEF Backends, Off
<1>2. TypedRest' /\ EntryOK'
  BY <1>1, HeldKeeps
<1>3. TypedTx'
  BY <1>1, OffAgainDoes DEF JInv, TypedTx, FlagsOK, Transactions, Goes, Aborts, Aborting, Ends,
     Same, Flags, Handle, PastRead, Forward, Undo, Restore
<1>4. UpOK'
  BY <1>1, OffAgainDoes DEF JInv, UpOK, Held, Outside, Elsewhere, Goes, Aborts, Aborting, Ends,
     Same, Flags, Handle, PastRead, Forward, Undo, Restore
<1>5. FlagsOK'
  BY <1>1, OffAgainDoes DEF JInv, TypedTx, Transactions, FlagsOK, Promotion, Goes, Aborts,
     Aborting, Ends, Same, Flags, Handle, PastRead, Forward, Undo, Restore
<1>6. OffOK'
  BY <1>1, OffAgainDoes DEF JInv, OffOK, FlagsOK, TypedTx, Transactions, Off, Goes, Aborts,
     Aborting, Ends, Same, Flags, Handle, PastRead, Forward, Undo, Restore
<1>7. PendingOK'
  BY <1>1, OffAgainDoes DEF JInv, PendingOK, Held, Outside, FlagsOK, Goes, Aborts, Aborting,
     Ends, Same, Flags, Handle, PastRead, Forward, Undo, Restore
<1>8. ReadOK'
  BY <1>1, OffAgainDoes DEF JInv, ReadOK, FlagsOK, OffOK, Off, Expected, Value, Matches, Goes,
     Aborts, Aborting, Ends, Same, Flags, Handle, PastRead, Forward, Undo, Restore
<1>9. JournalOK'
  BY <1>1, OffAgainDoes DEF JInv, JournalOK, PendingOK, FlagsOK, Held, Outside, Promotion, Goes,
     Aborts, Aborting, Ends, Same, Flags, Handle, PastRead, Forward, Undo, Restore
<1>10. FaultsOK'
  <2>1. SUFFICES ASSUME tx'.promoted, ~Off(disk')
                 PROVE  /\ tx'.pc = "off" => faults' >= 1
                        /\ tx'.pc \in {"isOff", "offAgain"} => faults' >= 2
                        /\ tx'.pc = "rollback" => faults' >= 3
    BY DEF FaultsOK
  <2>2. faults \in Nat /\ faults' \in {faults, faults + 1}
    BY <1>1 DEF Held, Charged, JInv, TypedRest
  <2>3. tx.promoted /\ ~Off(disk)
    BY <1>1, <2>1, OffAgainDoes DEF Goes, Aborts, Flags, Off
  <2>4. /\ tx.pc = "off" => faults >= 1
        /\ tx.pc \in {"isOff", "offAgain"} => faults >= 2
    BY <2>3 DEF JInv, FaultsOK
  <2>5. tx.pc # "disable"
    BY <2>3 DEF JInv, FlagsOK, Promotion, Restore
  <2> QED
    BY <1>1, <2>1, <2>2, <2>3, <2>4, <2>5, OffAgainDoes DEF Goes
<1>11. Matched(disk)'
  BY <1>1, OffAgainDoes DEF JInv, Matched, OffOK, Off, Committed, Held, SameSettings, Goes,
     Aborts, Aborting, Ends, Same, Flags, Handle, PastRead, Forward, Undo, Restore
<1> QED
  BY <1>2, <1>3, <1>4, <1>5, <1>6, <1>7, <1>8, <1>9, <1>10, <1>11 DEF JInv

LEMMA CheckRestoreIsOffKeeps == ASSUME JInv, CheckRestoreIsOff PROVE JInv'
<1>1. Held /\ disk' = disk
  BY CheckRestoreIsOffDoes, ReadHeld DEF ReadFrame
<1>2. TypedRest' /\ EntryOK'
  BY <1>1, HeldKeeps
<1>3. TypedTx'
  BY <1>1, CheckRestoreIsOffDoes DEF JInv, TypedTx, FlagsOK, Transactions, Goes, Aborts,
     Aborting, Ends, Same, Flags, Handle, PastRead, Forward, Undo, Restore
<1>4. UpOK'
  BY <1>1, CheckRestoreIsOffDoes DEF JInv, UpOK, Held, Outside, Elsewhere, Goes, Aborts,
     Aborting, Ends, Same, Flags, Handle, PastRead, Forward, Undo, Restore
<1>5. FlagsOK'
  BY <1>1, CheckRestoreIsOffDoes DEF JInv, TypedTx, Transactions, FlagsOK, Promotion, Goes,
     Aborts, Aborting, Ends, Same, Flags, Handle, PastRead, Forward, Undo, Restore
<1>6. OffOK'
  BY <1>1, CheckRestoreIsOffDoes DEF JInv, OffOK, FlagsOK, TypedTx, Transactions, Off, Goes,
     Aborts, Aborting, Ends, Same, Flags, Handle, PastRead, Forward, Undo, Restore
<1>7. PendingOK'
  BY <1>1, CheckRestoreIsOffDoes DEF JInv, PendingOK, Held, Outside, FlagsOK, Goes, Aborts,
     Aborting, Ends, Same, Flags, Handle, PastRead, Forward, Undo, Restore
<1>8. ReadOK'
  BY <1>1, CheckRestoreIsOffDoes DEF JInv, ReadOK, FlagsOK, OffOK, Off, Expected, Value,
     Matches, Goes, Aborts, Aborting, Ends, Same, Flags, Handle, PastRead, Forward, Undo,
     Restore
<1>9. JournalOK'
  BY <1>1, CheckRestoreIsOffDoes DEF JInv, JournalOK, PendingOK, FlagsOK, Held, Outside,
     Promotion, Goes, Aborts, Aborting, Ends, Same, Flags, Handle, PastRead, Forward, Undo,
     Restore
<1>10. FaultsOK'
  BY <1>1, CheckRestoreIsOffDoes DEF JInv, FaultsOK, FlagsOK, OffOK, ReadOK, Off, Matches,
     Charged, Held, TypedRest, Promotion, Goes, Aborts, Aborting, Ends, Same, Flags, Handle,
     PastRead, Forward, Undo, Restore
<1>11. Matched(disk)'
  BY <1>1, CheckRestoreIsOffDoes DEF JInv, Matched, OffOK, Off, Committed, Held, SameSettings,
     Goes, Aborts, Aborting, Ends, Same, Flags, Handle, PastRead, Forward, Undo, Restore
<1> QED
  BY <1>2, <1>3, <1>4, <1>5, <1>6, <1>7, <1>8, <1>9, <1>10, <1>11 DEF JInv

LEMMA RestoreSettingKeeps == ASSUME JInv, RestoreSetting PROVE JInv'
<1>1. Held /\ disk'.backend = disk.backend
  BY RestoreSettingDoes, SettingHeld DEF WroteSetting
<1>2. TypedRest' /\ EntryOK'
  BY <1>1, HeldKeeps
<1>3. TypedTx'
  BY <1>1, RestoreSettingDoes DEF JInv, TypedTx, FlagsOK, Transactions, Goes, Aborts, Aborting,
     Ends, Same, Flags, Handle, PastRead, Forward, Undo, Restore
<1>4. UpOK'
  BY <1>1, RestoreSettingDoes DEF JInv, UpOK, Held, Outside, Elsewhere, Goes, Aborts, Aborting,
     Ends, Same, Flags, Handle, PastRead, Forward, Undo, Restore
<1>5. FlagsOK'
  BY <1>1, RestoreSettingDoes DEF JInv, TypedTx, Transactions, FlagsOK, Promotion, Goes, Aborts,
     Aborting, Ends, Same, Flags, Handle, PastRead, Forward, Undo, Restore
<1>6. OffOK'
  BY <1>1, RestoreSettingDoes DEF JInv, OffOK, FlagsOK, TypedTx, Transactions, Off, Goes,
     Aborts, Aborting, Ends, Same, Flags, Handle, PastRead, Forward, Undo, Restore
<1>7. PendingOK'
  BY <1>1, RestoreSettingDoes DEF JInv, PendingOK, Held, Outside, FlagsOK, Goes, Aborts,
     Aborting, Ends, Same, Flags, Handle, PastRead, Forward, Undo, Restore
<1>8. ReadOK'
  BY <1>1, RestoreSettingDoes DEF JInv, ReadOK, FlagsOK, OffOK, Off, Expected, Value, Matches,
     Goes, Aborts, Aborting, Ends, Same, Flags, Handle, PastRead, Forward, Undo, Restore
<1>9. JournalOK'
  BY <1>1, RestoreSettingDoes DEF JInv, JournalOK, PendingOK, FlagsOK, Held, Outside, Promotion,
     Goes, Aborts, Aborting, Ends, Same, Flags, Handle, PastRead, Forward, Undo, Restore
<1>10. FaultsOK'
  BY <1>1, RestoreSettingDoes DEF JInv, FaultsOK, FlagsOK, OffOK, ReadOK, Off, Matches, Charged,
     Held, TypedRest, Promotion, Goes, Aborts, Aborting, Ends, Same, Flags, Handle, PastRead,
     Forward, Undo, Restore
<1>11. Matched(disk)'
  BY <1>1, RestoreSettingDoes DEF JInv, Matched, OffOK, Off, Committed, Held, SameSettings,
     Goes, Aborts, Aborting, Ends, Same, Flags, Handle, PastRead, Forward, Undo, Restore
<1> QED
  BY <1>2, <1>3, <1>4, <1>5, <1>6, <1>7, <1>8, <1>9, <1>10, <1>11 DEF JInv

LEMMA VerifyRestoredKeeps == ASSUME JInv, VerifyRestored PROVE JInv'
<1>1. Held /\ disk' = disk
  BY VerifyRestoredDoes, ReadHeld DEF ReadFrame
<1>2. TypedRest' /\ EntryOK'
  BY <1>1, HeldKeeps
<1>3. TypedTx'
  BY <1>1, VerifyRestoredDoes DEF JInv, TypedTx, FlagsOK, Transactions, Goes, Aborts, Aborting,
     Ends, Same, Flags, Handle, PastRead, Forward, Undo, Restore
<1>4. UpOK'
  BY <1>1, VerifyRestoredDoes DEF JInv, UpOK, Held, Outside, Elsewhere, Goes, Aborts, Aborting,
     Ends, Same, Flags, Handle, PastRead, Forward, Undo, Restore
<1>5. FlagsOK'
  BY <1>1, VerifyRestoredDoes DEF JInv, TypedTx, Transactions, FlagsOK, Promotion, Goes, Aborts,
     Aborting, Ends, Same, Flags, Handle, PastRead, Forward, Undo, Restore
<1>6. OffOK'
  BY <1>1, VerifyRestoredDoes DEF JInv, OffOK, FlagsOK, TypedTx, Transactions, Off, Goes,
     Aborts, Aborting, Ends, Same, Flags, Handle, PastRead, Forward, Undo, Restore
<1>7. PendingOK'
  BY <1>1, VerifyRestoredDoes DEF JInv, PendingOK, Held, Outside, FlagsOK, Goes, Aborts,
     Aborting, Ends, Same, Flags, Handle, PastRead, Forward, Undo, Restore
<1>8. ReadOK'
  BY <1>1, VerifyRestoredDoes DEF JInv, ReadOK, FlagsOK, OffOK, Off, Expected, Value, Matches,
     Goes, Aborts, Aborting, Ends, Same, Flags, Handle, PastRead, Forward, Undo, Restore
<1>9. JournalOK'
  BY <1>1, VerifyRestoredDoes DEF JInv, JournalOK, PendingOK, FlagsOK, Held, Outside, Promotion,
     Goes, Aborts, Aborting, Ends, Same, Flags, Handle, PastRead, Forward, Undo, Restore
<1>10. FaultsOK'
  BY <1>1, VerifyRestoredDoes DEF JInv, FaultsOK, FlagsOK, OffOK, ReadOK, Off, Matches, Charged,
     Held, TypedRest, Promotion, Goes, Aborts, Aborting, Ends, Same, Flags, Handle, PastRead,
     Forward, Undo, Restore
<1>11. Matched(disk)'
  BY <1>1, VerifyRestoredDoes DEF JInv, Matched, OffOK, Off, Committed, Held, SameSettings,
     Goes, Aborts, Aborting, Ends, Same, Flags, Handle, PastRead, Forward, Undo, Restore
<1> QED
  BY <1>2, <1>3, <1>4, <1>5, <1>6, <1>7, <1>8, <1>9, <1>10, <1>11 DEF JInv

LEMMA ReactivateKeeps == ASSUME JInv, Reactivate PROVE JInv'
<1>1. /\ Held /\ SameSettings(disk, disk')
      /\ disk'.backend \in {disk.backend, tx.previous.backend}
      /\ Settings(disk') = Settings(disk)
  <2>1. CASE Charged /\ UNCHANGED <<disk, staged>>
    BY <2>1, ReactivateDoes, ReadHeld DEF ReadFrame, SameSettings
  <2>2. CASE \E ok \in BOOLEAN : WroteBackend(tx.previous.backend, ok)
    BY <2>2, ReactivateDoes, BackendHeld DEF JInv, TypedTx, PastRead, Restore, Found
  <2> QED
    BY <2>1, <2>2, ReactivateDoes
<1>2. TypedRest' /\ EntryOK'
  BY <1>1, HeldKeeps
<1>3. TypedTx'
  BY <1>1, Zero, ReactivateDoes
     DEF JInv, TypedTx, Goes, Aborts, Aborting, Ends, Same, Handle, PastRead, Forward, Undo, Restore
<1>4. UpOK'
  BY <1>1, ReactivateDoes DEF JInv, UpOK, Held, Outside, Elsewhere, Goes, Aborts, Aborting,
     Ends, Same, Flags, Handle, PastRead, Forward, Undo, Restore
<1>5. FlagsOK'
  BY <1>1, ReactivateDoes DEF JInv, TypedTx, Transactions, FlagsOK, Promotion, Goes, Aborts,
     Aborting, Ends, Same, Flags, Handle, PastRead, Forward, Undo, Restore
<1>6. OffOK'
  BY <1>1, ReactivateDoes DEF JInv, OffOK, FlagsOK, TypedTx, Transactions, Off, Goes, Aborts,
     Aborting, Ends, Same, Flags, Handle, PastRead, Forward, Undo, Restore
<1>7. PendingOK'
  BY <1>1, ReactivateDoes DEF JInv, PendingOK, Held, Outside, FlagsOK, Goes, Aborts, Aborting,
     Ends, Same, Flags, Handle, PastRead, Forward, Undo, Restore
<1>8. ReadOK'
  BY <1>1, ReactivateDoes DEF JInv, ReadOK, FlagsOK, OffOK, Off, Expected, Value, Matches, Goes,
     Aborts, Aborting, Ends, Same, Flags, Handle, PastRead, Forward, Undo, Restore
<1>9. JournalOK'
  BY <1>1, ReactivateDoes DEF JInv, JournalOK, PendingOK, FlagsOK, Held, Outside, Promotion,
     Goes, Aborts, Aborting, Ends, Same, Flags, Handle, PastRead, Forward, Undo, Restore
<1>10. FaultsOK'
  BY <1>1, ReactivateDoes DEF JInv, FaultsOK, FlagsOK, OffOK, ReadOK, Off, Matches, Charged,
     Held, TypedRest, Promotion, Goes, Aborts, Aborting, Ends, Same, Flags, Handle, PastRead,
     Forward, Undo, Restore
<1>11. Matched(disk)'
  <2>1. CASE disk' = disk
    BY <2>1 DEF JInv, Matched
  <2>2. CASE ~tx.credError /\ tx.previous.backend # "off"
    <3>1. disk.journal.open =>
            /\ tx.previous.backend = "cloud" /\ tx.previous.settings.provider = "dropbox"
            /\ disk.tokens = disk.journal.candidate
      BY <2>2, ReactivateDoes DEF JInv, JournalOK, PastRead, Restore
    <3>2. tx.previous.settings.provider = disk.provider /\ Off(disk)
      BY ReactivateDoes, SettingsTyped DEF JInv, ReadOK, OffOK, TypedRest
    <3> QED
      BY <1>1, <3>1, <3>2 DEF Matched, Committed, Held, SameSettings, Off
  <2> QED
    BY <2>1, <2>2, ReactivateDoes
<1> QED
  BY <1>2, <1>3, <1>4, <1>5, <1>6, <1>7, <1>8, <1>9, <1>10, <1>11 DEF JInv

LEMMA VerifyReactivatedKeeps == ASSUME JInv, VerifyReactivated PROVE JInv'
<1>1. Held /\ disk' = disk
  BY VerifyReactivatedDoes, ReadHeld DEF ReadFrame
<1>2. TypedRest' /\ EntryOK'
  BY <1>1, HeldKeeps
<1>3. TypedTx'
  BY <1>1, Zero, VerifyReactivatedDoes
     DEF JInv, TypedTx, Goes, Aborts, Aborting, Ends, Same, Handle, PastRead, Forward, Undo, Restore
<1>4. UpOK'
  BY <1>1, VerifyReactivatedDoes DEF JInv, UpOK, Held, Outside, Elsewhere, Goes, Aborts,
     Aborting, Ends, Same, Flags, Handle, PastRead, Forward, Undo, Restore
<1>5. FlagsOK'
  BY <1>1, VerifyReactivatedDoes DEF JInv, TypedTx, Transactions, FlagsOK, Promotion, Goes,
     Aborts, Aborting, Ends, Same, Flags, Handle, PastRead, Forward, Undo, Restore
<1>6. OffOK'
  BY <1>1, VerifyReactivatedDoes DEF JInv, OffOK, FlagsOK, TypedTx, Transactions, Off, Goes,
     Aborts, Aborting, Ends, Same, Flags, Handle, PastRead, Forward, Undo, Restore
<1>7. PendingOK'
  BY <1>1, VerifyReactivatedDoes DEF JInv, PendingOK, Held, Outside, FlagsOK, Goes, Aborts,
     Aborting, Ends, Same, Flags, Handle, PastRead, Forward, Undo, Restore
<1>8. ReadOK'
  BY <1>1, VerifyReactivatedDoes DEF JInv, ReadOK, FlagsOK, OffOK, Off, Expected, Value,
     Matches, Goes, Aborts, Aborting, Ends, Same, Flags, Handle, PastRead, Forward, Undo,
     Restore
<1>9. JournalOK'
  BY <1>1, VerifyReactivatedDoes DEF JInv, JournalOK, PendingOK, FlagsOK, Held, Outside,
     Promotion, Goes, Aborts, Aborting, Ends, Same, Flags, Handle, PastRead, Forward, Undo,
     Restore
<1>10. FaultsOK'
  BY <1>1, VerifyReactivatedDoes DEF JInv, FaultsOK, FlagsOK, OffOK, ReadOK, Off, Matches,
     Charged, Held, TypedRest, Promotion, Goes, Aborts, Aborting, Ends, Same, Flags, Handle,
     PastRead, Forward, Undo, Restore
<1>11. Matched(disk)'
  BY <1>1, VerifyReactivatedDoes DEF JInv, Matched, OffOK, Off, Committed, Held, SameSettings,
     Goes, Aborts, Aborting, Ends, Same, Flags, Handle, PastRead, Forward, Undo, Restore
<1> QED
  BY <1>2, <1>3, <1>4, <1>5, <1>6, <1>7, <1>8, <1>9, <1>10, <1>11 DEF JInv

LEMMA KeepOffKeeps == ASSUME JInv, KeepOff PROVE JInv'
<1>1. /\ Held /\ SameSettings(disk, disk') /\ disk'.backend \in {disk.backend, "off"}
      /\ Settings(disk') = Settings(disk) /\ (faults' = faults => Off(disk'))
  BY KeepOffDoes, BackendHeld DEF Backends, Off
<1>2. TypedRest' /\ EntryOK'
  BY <1>1, HeldKeeps
<1>3. TypedTx'
  BY <1>1, Zero, KeepOffDoes
     DEF JInv, TypedTx, Goes, Aborts, Aborting, Ends, Same, Handle, PastRead, Forward, Undo, Restore
<1>4. UpOK'
  BY <1>1, KeepOffDoes DEF JInv, UpOK, Held, Outside, Elsewhere, Goes, Aborts, Aborting, Ends,
     Same, Flags, Handle, PastRead, Forward, Undo, Restore
<1>5. FlagsOK'
  BY <1>1, KeepOffDoes DEF JInv, TypedTx, Transactions, FlagsOK, Promotion, Goes, Aborts,
     Aborting, Ends, Same, Flags, Handle, PastRead, Forward, Undo, Restore
<1>6. OffOK'
  BY <1>1, KeepOffDoes DEF JInv, OffOK, FlagsOK, TypedTx, Transactions, Off, Goes, Aborts,
     Aborting, Ends, Same, Flags, Handle, PastRead, Forward, Undo, Restore
<1>7. PendingOK'
  BY <1>1, KeepOffDoes DEF JInv, PendingOK, Held, Outside, FlagsOK, Goes, Aborts, Aborting,
     Ends, Same, Flags, Handle, PastRead, Forward, Undo, Restore
<1>8. ReadOK'
  BY <1>1, KeepOffDoes DEF JInv, ReadOK, FlagsOK, OffOK, Off, Expected, Value, Matches, Goes,
     Aborts, Aborting, Ends, Same, Flags, Handle, PastRead, Forward, Undo, Restore
<1>9. JournalOK'
  BY <1>1, KeepOffDoes DEF JInv, JournalOK, PendingOK, FlagsOK, Held, Outside, Promotion, Goes,
     Aborts, Aborting, Ends, Same, Flags, Handle, PastRead, Forward, Undo, Restore
<1>10. FaultsOK'
  BY <1>1, KeepOffDoes DEF JInv, FaultsOK, FlagsOK, OffOK, ReadOK, Off, Matches, Charged, Held,
     TypedRest, Promotion, Goes, Aborts, Aborting, Ends, Same, Flags, Handle, PastRead, Forward,
     Undo, Restore
<1>11. Matched(disk)'
  BY <1>1, KeepOffDoes DEF JInv, Matched, OffOK, Off, Committed, Held, SameSettings, Goes,
     Aborts, Aborting, Ends, Same, Flags, Handle, PastRead, Forward, Undo, Restore
<1> QED
  BY <1>2, <1>3, <1>4, <1>5, <1>6, <1>7, <1>8, <1>9, <1>10, <1>11 DEF JInv

\* A native command that has answered.
LEMMA Taken ==
    ASSUME JInv, NEW a, Answers(disk, staged, a), Take(a)
    PROVE  /\ disk' = a.disk /\ staged' = a.staged /\ Charged
           /\ disk' \in Disks /\ staged' \in Entries /\ faults' \in 0..MaxFaults
           /\ SameSettings(disk, disk') /\ disk'.backend \in {disk.backend, "off"}
  BY SyncConfigurationAssumption DEF Answers, Take, Charged, JInv, TypedRest

\* What recovery leaves of the journal is what native memory knows.
LEMMA RecoveredKeeps ==
    ASSUME JInv, Recovered(disk, disk'), staged' \in {staged, NoEntry}
    PROVE  EntryOK' /\ Matched(disk)'
<1>1. NoEntry.phase = "none"
  BY DEF NoEntry
<1>2. EntryOK'
  BY <1>1 DEF JInv, EntryOK, Recovered
<1> QED
  BY <1>2, RecoveredMatched DEF JInv, TypedRest

LEMMA RecoverFirstKeeps == ASSUME JInv, RecoverFirst PROVE JInv'
<1>1. PICK a \in RecoverBefore(disk, staged) : Take(a) /\ (IF a.ok THEN Goes("read") ELSE Ends)
  BY RecoverFirstDoes
<1>2. /\ Answers(disk, staged, a) /\ Recovered(disk, a.disk)
      /\ IF a.ok THEN /\ a.disk.backend = disk.backend /\ ~a.disk.journal.open
                      /\ a.staged = IF staged.phase = "promoted" THEN NoEntry ELSE staged
         ELSE a.staged = staged
  BY <1>1, RecoverBeforeDoes DEF JInv, TypedRest
<1>3. /\ disk' = a.disk /\ staged' = a.staged /\ disk' \in Disks /\ staged' \in Entries
      /\ faults' \in 0..MaxFaults
  BY <1>1, <1>2, Taken
<1>4. TypedRest' /\ UpOK'
  BY <1>3, RecoverFirstDoes, Zero DEF JInv, TypedRest, UpOK, Elsewhere
<1>5. EntryOK' /\ Matched(disk)'
  BY <1>2, <1>3, RecoveredKeeps
<1>6. NoEntry.phase = "none"
  BY DEF NoEntry
<1>7. pending' # 0 /\ staged'.phase # "none" => staged'.tokens = pending'
  BY <1>2, <1>3, <1>6, RecoverFirstDoes DEF JInv, PendingOK
<1>8. CASE a.ok
  <2>1. Goes("read") /\ ~Handle(tx.kind)
    BY <1>1, <1>8, RecoverFirstDoes DEF JInv, JournalOK
  <2>2. TypedTx' /\ FlagsOK' /\ OffOK' /\ ReadOK' /\ FaultsOK'
    BY <2>1, RecoverFirstDoes
       DEF JInv, TypedTx, FlagsOK, OffOK, ReadOK, FaultsOK, Goes, Same, Flags, PastRead, Forward, Undo,
           Restore, Promotion
  <2>3. PendingOK' /\ JournalOK'
    BY <1>2, <1>3, <1>6, <1>7, <1>8, <2>1 DEF PendingOK, JournalOK, Goes, Same, PastRead, Forward, Undo,
       Restore
  <2> QED
    BY <1>4, <1>5, <2>2, <2>3 DEF JInv
<1>9. CASE ~a.ok
  BY <1>1, <1>4, <1>5, <1>7, <1>9, IdleKeeps
<1> QED
  BY <1>8, <1>9

LEMMA ReadPreviousKeeps == ASSUME JInv, ReadPrevious PROVE JInv'
<1>1. Held /\ disk' = disk
  BY ReadPreviousDoes, ReadHeld DEF ReadFrame
<1>2. TypedRest' /\ EntryOK' /\ UpOK' /\ Matched(disk)'
  BY <1>1, HeldKeeps, ReadPreviousDoes DEF JInv, UpOK, Held, Outside, Elsewhere
<1>3. pending' # 0 /\ staged'.phase # "none" => staged'.tokens = pending'
  BY <1>1 DEF JInv, PendingOK, Held, Outside
<1>4. CASE Ends
  BY <1>2, <1>3, <1>4, IdleKeeps
<1>5. CASE /\ tx' \in Transactions /\ tx'.pc = "disable" /\ tx'.kind = tx.kind /\ tx'.n = tx.n
           /\ Flags(tx') /\ tx'.previous \in Found
           /\ tx'.previous = [backend |-> disk.backend, settings |-> Settings(disk),
                              tokens |-> IF Off(disk) THEN Settled(disk) ELSE disk.tokens]
  <2>1. TypedTx' /\ FlagsOK' /\ OffOK' /\ ReadOK' /\ FaultsOK'
    BY <1>5, ReadPreviousDoes
       DEF JInv, TypedTx, FlagsOK, OffOK, ReadOK, FaultsOK, Flags, PastRead, Forward, Undo, Restore,
           Promotion
  <2>2. PendingOK'
    BY <1>1, <1>3, <1>5, ReadPreviousDoes DEF JInv, PendingOK, Held, Outside, Forward
  <2>3. disk.journal.open /\ disk.backend # "off" =>
          disk.backend = "cloud" /\ disk.provider = "dropbox" /\ disk.tokens = disk.journal.candidate
    BY DEF JInv, Matched, Committed, Off
  <2>4. tx'.previous.backend = disk.backend /\ tx'.previous.settings.provider = disk.provider
    BY <1>5, SettingsTyped DEF JInv, TypedRest
  <2>5. JournalOK'
    BY <1>1, <1>5, <2>3, <2>4, ReadPreviousDoes
       DEF JInv, JournalOK, Held, Restore
  <2> QED
    BY <1>2, <2>1, <2>2, <2>5 DEF JInv
<1> QED
  BY <1>4, <1>5, ReadPreviousDoes

LEMMA BeginKeeps == ASSUME JInv, Begin PROVE JInv'
<1>1. PICK kind \in Kinds :
        LET n == IF Handle(kind) THEN pending ELSE count + 1 IN
        /\ IF Handle(kind) THEN pending # 0 /\ UNCHANGED count
           ELSE IF kind = "kept" THEN disk.tokens # 0 /\ ~disk.journal.open /\ UNCHANGED count
           ELSE count < MaxCandidates /\ count' = n
        /\ tx' = [NoTx EXCEPT !.pc = IF Handle(kind) THEN "read" ELSE "recover", !.kind = kind, !.n = n]
  BY DEF Begin
<1>2. kind \in CandidateKinds /\ MaxCandidates \in Nat
  BY SyncConfigurationAssumption
<1>3. /\ UNCHANGED <<disk, staged, pending, cleanup, up, faults, crashes>> /\ up
      /\ TypedRest /\ PendingOK
  BY DEF Begin, JInv
<1> DEFINE n == IF Handle(kind) THEN pending ELSE count + 1
<1>4. /\ tx' = [NoTx EXCEPT !.pc = IF Handle(kind) THEN "read" ELSE "recover", !.kind = kind, !.n = n]
      /\ n \in Nat /\ (kind # "kept" => n \in Numbers)
      /\ Handle(kind) => n = pending /\ n # 0
      /\ kind = "kept" => ~disk.journal.open
      /\ count' \in 1..MaxCandidates
  <2>1. tx' = [NoTx EXCEPT !.pc = IF Handle(kind) THEN "read" ELSE "recover", !.kind = kind, !.n = n]
    BY <1>1
  <2>2. CASE Handle(kind)
    BY <1>1, <1>2, <1>3, <2>1, <2>2 DEF TypedRest, Numbers, Handle
  <2>3. CASE ~Handle(kind) /\ kind = "kept"
    BY <1>1, <1>2, <1>3, <2>1, <2>3 DEF TypedRest
  <2>4. CASE ~Handle(kind) /\ kind # "kept"
    BY <1>1, <1>2, <1>3, <2>1, <2>4 DEF TypedRest, Numbers
  <2> QED
    BY <2>2, <2>3, <2>4
<1> HIDE DEF n
<1>5. /\ tx' \in Transactions /\ tx'.pc = (IF Handle(kind) THEN "read" ELSE "recover")
      /\ tx'.kind = kind /\ tx'.n = n /\ ~tx'.promoted /\ ~tx'.offError /\ ~tx'.credError
  BY <1>2, <1>4, NoTxHas DEF Transactions, NoTx
<1>6. TypedTx' /\ FlagsOK' /\ OffOK' /\ ReadOK' /\ FaultsOK'
  BY <1>4, <1>5 DEF TypedTx, FlagsOK, OffOK, ReadOK, FaultsOK, PastRead, Forward, Undo, Restore
<1>7. TypedRest' /\ UpOK' /\ EntryOK' /\ Matched(disk)'
  BY <1>3, <1>4 DEF JInv, TypedRest, UpOK, EntryOK, Matched
<1>8. PendingOK' /\ JournalOK'
  BY <1>3, <1>4, <1>5 DEF PendingOK, JournalOK, PastRead, Forward, Undo, Restore, Handle
<1> QED
  BY <1>6, <1>7, <1>8 DEF JInv

LEMMA PromoteCredentialsKeeps == ASSUME JInv, PromoteCredentials PROVE JInv'
<1>1. PICK a \in Promote(disk, staged) : Take(a) /\ tx'.pc = IF a.ok THEN "promoted" ELSE "off"
  BY PromoteCredentialsDoes
<1>2. Off(disk) /\ Handle(tx.kind) /\ pending = tx.n /\ tx.n # 0
  BY PromoteCredentialsDoes DEF JInv, OffOK, FlagsOK, PendingOK, Forward
<1>3. /\ Answers(disk, staged, a)
      /\ \/ ~a.ok /\ a.staged = staged /\ Recovered(disk, a.disk)
         \/ /\ staged.phase = "candidate"
            /\ a.disk.journal = [previous |-> Settled(disk), candidate |-> staged.tokens, open |-> TRUE]
            /\ \/ a.disk.tokens = staged.tokens /\ a.staged = Promoted(staged, Settled(disk))
               \/ ~a.ok /\ a.disk.tokens = Settled(disk) /\ a.staged \in {staged, Promoted(staged, Settled(disk))}
  BY <1>1, <1>2, PromoteDoes DEF JInv, TypedRest
<1>4. /\ disk' = a.disk /\ staged' = a.staged /\ disk' \in Disks /\ staged' \in Entries
      /\ faults' \in 0..MaxFaults /\ Off(disk')
  BY <1>1, <1>2, <1>3, Taken DEF Off
<1>5. /\ Promoted(staged, Settled(disk)).phase = "promoted"
      /\ Promoted(staged, Settled(disk)).tokens = staged.tokens
      /\ Promoted(staged, Settled(disk)).previous = Settled(disk)
  BY DEF Promoted, JInv, TypedRest, Entries
<1>6. TypedRest' /\ UpOK' /\ Matched(disk)'
  BY <1>4, PromoteCredentialsDoes DEF JInv, TypedRest, UpOK, Matched, Elsewhere
<1>7. TypedTx' /\ FlagsOK' /\ OffOK' /\ ReadOK' /\ FaultsOK'
  BY <1>1, <1>2, <1>4, PromoteCredentialsDoes
     DEF JInv, TypedTx, FlagsOK, OffOK, ReadOK, FaultsOK, Same, PastRead, Forward, Undo, Restore, Promotion
<1>8. PendingOK'
  BY <1>1, <1>2, <1>3, <1>4, <1>5, PromoteCredentialsDoes DEF JInv, PendingOK, Same, Forward
<1>9. EntryOK'
  <2>1. CASE a.staged = staged /\ Recovered(disk, a.disk)
    BY <1>4, <2>1, RecoveredKeeps
  <2>2. CASE /\ staged.phase = "candidate"
             /\ a.disk.journal = [previous |-> Settled(disk), candidate |-> staged.tokens, open |-> TRUE]
             /\ \/ a.staged = Promoted(staged, Settled(disk))
                \/ a.disk.tokens = Settled(disk) /\ a.staged = staged
    <3>1. a.disk.journal.previous = Settled(disk)
      BY <2>2
    <3> QED
      BY <1>4, <1>5, <2>2, <3>1 DEF EntryOK
  <2> QED
    BY <1>3, <2>1, <2>2
<1>10. JournalOK'
  <2>1. a.ok => /\ a.disk.journal.open /\ a.disk.journal.candidate = tx.n /\ a.disk.tokens = tx.n
    <3>1. SUFFICES ASSUME a.ok PROVE a.disk.journal.open /\ a.disk.journal.candidate = tx.n /\ a.disk.tokens = tx.n
      OBVIOUS
    <3>2. staged.tokens = tx.n
      BY <1>2, <1>3, <3>1 DEF JInv, PendingOK
    <3> QED
      BY <1>3, <3>1, <3>2
  <2> QED
    BY <1>1, <1>2, <1>4, <2>1, PromoteCredentialsDoes DEF JournalOK, Same, Restore
<1> QED
  BY <1>6, <1>7, <1>8, <1>9, <1>10 DEF JInv

LEMMA FinalizeCommittedKeeps == ASSUME JInv, FinalizeCommitted PROVE JInv'
<1>1. PICK a \in Finalize(disk, staged, tx.n) : Take(a)
  BY FinalizeCommittedDoes
<1>2. tx.n \in Numbers
  BY FinalizeCommittedDoes DEF JInv, TypedTx, FlagsOK, Handle
<1>3. /\ Answers(disk, staged, a) /\ a.disk.tokens = disk.tokens /\ a.disk.backend = disk.backend
      /\ a.disk.journal = disk.journal \/ ~a.disk.journal.open
      /\ a.staged \in {staged, NoEntry}
  BY <1>1, <1>2, FinalizeDoes DEF JInv, TypedRest
<1>4. /\ disk' = a.disk /\ staged' = a.staged /\ disk' \in Disks /\ staged' \in Entries
      /\ faults' \in 0..MaxFaults /\ SameSettings(disk, disk')
  BY <1>1, <1>3, Taken
<1>5. TypedRest' /\ UpOK'
  BY <1>2, <1>4, FinalizeCommittedDoes, Zero DEF JInv, TypedRest, UpOK, Elsewhere
<1>6. EntryOK' /\ Matched(disk)'
  BY <1>3, <1>4 DEF JInv, EntryOK, Matched, Committed, Off, SameSettings, NoEntry
<1> QED
  BY <1>5, <1>6, FinalizeCommittedDoes, IdleKeeps

LEMMA DiscardCandidateKeeps == ASSUME JInv, DiscardCandidate PROVE JInv'
<1>1. PICK a \in Discard(disk, staged) : Take(a) /\ pending' = IF a.ok THEN 0 ELSE pending
  BY DiscardCandidateDoes
<1>2. Answers(disk, staged, a) /\ a.disk = disk /\ a.staged \in {staged, NoEntry}
  BY <1>1, DiscardDoes DEF JInv, TypedRest
<1>3. /\ disk' = disk /\ staged' \in {staged, NoEntry} /\ staged' \in Entries
      /\ faults' \in 0..MaxFaults /\ pending' \in {0, pending} /\ NoEntry.phase = "none"
  BY <1>1, <1>2, Taken DEF NoEntry
<1>4. TypedRest' /\ UpOK' /\ EntryOK' /\ Matched(disk)'
  BY <1>3, DiscardCandidateDoes, Zero DEF JInv, TypedRest, UpOK, EntryOK, Matched, Elsewhere
<1>5. Handle(tx.kind) /\ ~tx.promoted /\ ~tx.offError /\ ~tx.credError
  BY DiscardCandidateDoes DEF JInv, FlagsOK, Promotion, Restore
<1>6. TypedTx' /\ FlagsOK' /\ OffOK' /\ ReadOK' /\ FaultsOK'
  BY <1>5, DiscardCandidateDoes
     DEF JInv, TypedTx, FlagsOK, OffOK, ReadOK, FaultsOK, Goes, Same, Flags, PastRead, Forward, Undo, Restore
<1>7. PendingOK'
  BY <1>3, DiscardCandidateDoes DEF JInv, PendingOK, Goes, Forward
<1>8. JournalOK'
  BY <1>3, <1>5, DiscardCandidateDoes DEF JInv, JournalOK, Goes, Same, Flags, PastRead, Undo, Restore
<1> QED
  BY <1>4, <1>6, <1>7, <1>8 DEF JInv

LEMMA RollbackCredentialsKeeps == ASSUME JInv, RollbackCredentials PROVE JInv'
<1>1. /\ disk' \in Disks /\ staged' \in Entries /\ faults' \in 0..MaxFaults
      /\ staged' \in {staged, NoEntry} /\ pending' \in {0, pending} /\ disk'.backend \in {disk.backend, "off"}
      /\ Matched(disk)' /\ EntryOK'
      /\ \/ Ends
         \/ \E bad \in BOOLEAN :
              /\ Restores(bad) /\ ~tx.offError /\ (~tx.promoted => ~bad /\ UNCHANGED <<disk, staged>>)
              /\ tx.promoted /\ ~bad => ~disk'.journal.open /\ pending' = 0
  <2>1. CASE tx.promoted
    <3>1. PICK a \in Rollback(disk, staged) :
            /\ Take(a) /\ a.ok \in BOOLEAN /\ pending' = IF a.ok THEN 0 ELSE pending
            /\ IF tx.offError THEN Ends ELSE Restores(~(a.ok))
      BY <2>1, RollbackCredentialsDoes
    <3>2. /\ Answers(disk, staged, a) /\ a.staged \in {staged, NoEntry}
          /\ a.ok => ~a.disk.journal.open
          /\ a.disk = disk \/ Recovered(disk, a.disk) \/ ~a.disk.journal.open
      BY <3>1, RollbackDoes DEF JInv, TypedRest
    <3>3. /\ disk' = a.disk /\ staged' = a.staged /\ disk' \in Disks /\ staged' \in Entries
          /\ faults' \in 0..MaxFaults /\ disk'.backend \in {disk.backend, "off"}
      BY <3>1, <3>2, Taken
    <3>4. Matched(disk)' /\ EntryOK'
      <4>1. CASE a.disk = disk
        BY <3>2, <3>3, <4>1 DEF JInv, Matched, EntryOK, NoEntry
      <4>2. CASE Recovered(disk, a.disk)
        BY <3>2, <3>3, <4>2, RecoveredKeeps
      <4>3. CASE ~a.disk.journal.open
        BY <3>3, <4>3 DEF Matched, EntryOK
      <4> QED
        BY <3>2, <4>1, <4>2, <4>3
    <3>5. (~(a.ok)) \in BOOLEAN
      OBVIOUS
    <3> QED
      BY <2>1, <3>1, <3>2, <3>3, <3>4, <3>5
  <2>2. CASE ~tx.promoted
    BY <2>2, RollbackCredentialsDoes DEF JInv, TypedRest, Matched, EntryOK
  <2> QED
    BY <2>1, <2>2
<1>2. TypedRest' /\ UpOK'
  BY <1>1, RollbackCredentialsDoes, Zero DEF JInv, TypedRest, UpOK, Elsewhere
<1>3. pending' # 0 /\ staged'.phase # "none" => staged'.tokens = pending'
  BY <1>1 DEF JInv, PendingOK, NoEntry
<1>4. CASE Ends
  BY <1>1, <1>2, <1>3, <1>4, IdleKeeps
<1>5. ASSUME NEW bad \in BOOLEAN, Restores(bad), ~tx.offError,
             ~tx.promoted => ~bad /\ UNCHANGED <<disk, staged>>,
             tx.promoted /\ ~bad => ~disk'.journal.open /\ pending' = 0
      PROVE  JInv'
  <2>1. TypedTx' /\ ReadOK' /\ FaultsOK' /\ PendingOK'
    BY <1>3, <1>5, RollbackCredentialsDoes
       DEF JInv, TypedTx, ReadOK, FaultsOK, PendingOK, Restores, Same, PastRead, Forward, Undo, Restore
  <2>2. Off(disk')
    BY <1>1, <1>5, RollbackCredentialsDoes DEF JInv, OffOK, Off
  <2>3. FlagsOK' /\ OffOK'
    BY <1>5, <2>2, RollbackCredentialsDoes DEF JInv, FlagsOK, OffOK, Restores, Same, Promotion, Restore
  <2>4. JournalOK'
    BY <1>5, RollbackCredentialsDoes
       DEF JInv, JournalOK, FlagsOK, Restores, Same, PastRead, Forward, Undo, Restore
  <2> QED
    BY <1>1, <1>2, <2>1, <2>3, <2>4 DEF JInv
<1> QED
  BY <1>1, <1>4, <1>5

\* An operation between transactions.
LEMMA StillIdle ==
    ASSUME JInv, tx.pc = "idle", tx' = tx, TypedRest', UpOK', EntryOK', Matched(disk)',
           pending' # 0 /\ staged'.phase # "none" => staged'.tokens = pending'
    PROVE  JInv'
<1>1. ~tx.promoted
  BY DEF JInv, FlagsOK, Promotion, Restore
<1>2. TypedTx' /\ FlagsOK' /\ FaultsOK'
  BY <1>1 DEF JInv, TypedTx, FlagsOK, FaultsOK
<1>3. OffOK' /\ PendingOK' /\ ReadOK' /\ JournalOK'
  BY DEF OffOK, PendingOK, ReadOK, JournalOK, PastRead, Forward, Undo, Restore
<1> QED
  BY <1>2, <1>3 DEF JInv

LEMMA ConnectDropboxKeeps == ASSUME JInv, ConnectDropbox PROVE JInv'
<1>1. PICK a \in Stage(disk, staged, count + 1) :
        /\ Take(a)
        /\ pending' = (IF a.ok THEN count + 1 ELSE 0) /\ cleanup' = (IF a.ok THEN 0 ELSE cleanup)
  BY DEF ConnectDropbox
<1>2. tx.pc = "idle" /\ up /\ count + 1 \in 1..MaxCandidates /\ count + 1 \in Numbers
  BY SyncConfigurationAssumption DEF ConnectDropbox, Idle, JInv, TypedRest, Numbers
<1>3. /\ Answers(disk, staged, a) /\ Recovered(disk, a.disk)
      /\ IF a.ok THEN ~a.disk.journal.open /\ a.staged = Candidate(count + 1) ELSE a.staged = staged
  BY <1>1, <1>2, StageDoes DEF JInv, TypedRest
<1>4. /\ disk' = a.disk /\ staged' = a.staged /\ disk' \in Disks /\ staged' \in Entries
      /\ faults' \in 0..MaxFaults
  BY <1>1, <1>3, Taken
<1>5. TypedRest' /\ UpOK'
  BY <1>1, <1>2, <1>4, Zero DEF ConnectDropbox, JInv, TypedRest, UpOK
<1>6. EntryOK' /\ Matched(disk)'
  <2>1. CASE a.ok
    BY <1>3, <1>4, <2>1 DEF EntryOK, Matched
  <2>2. CASE ~a.ok
    BY <1>3, <1>4, <2>2, RecoveredKeeps
  <2> QED
    BY <2>1, <2>2
<1>7. pending' # 0 /\ staged'.phase # "none" => staged'.tokens = pending'
  BY <1>1, <1>3, <1>4 DEF Candidate
<1> QED
  BY <1>2, <1>5, <1>6, <1>7, StillIdle DEF ConnectDropbox

LEMMA ResolvePendingKeeps == ASSUME JInv, ResolvePending PROVE JInv'
<1>1. PICK a \in (IF staged.phase = "promoted" THEN Rollback(disk, staged) ELSE Discard(disk, staged)) :
        Take(a) /\ pending' = (IF a.ok THEN 0 ELSE pending)
  BY DEF ResolvePending
<1>2. /\ Answers(disk, staged, a) /\ a.staged \in {staged, NoEntry}
      /\ a.disk = disk \/ Recovered(disk, a.disk) \/ ~a.disk.journal.open
  <2>1. CASE staged.phase = "promoted"
    BY <1>1, <2>1, RollbackDoes DEF JInv, TypedRest
  <2>2. CASE staged.phase # "promoted"
    BY <1>1, <2>2, DiscardDoes DEF JInv, TypedRest
  <2> QED
    BY <2>1, <2>2
<1>3. /\ disk' = a.disk /\ staged' = a.staged /\ disk' \in Disks /\ staged' \in Entries
      /\ faults' \in 0..MaxFaults
  BY <1>1, <1>2, Taken
<1>4. TypedRest' /\ UpOK' /\ tx.pc = "idle" /\ tx' = tx
  BY <1>1, <1>3, Zero DEF ResolvePending, Idle, JInv, TypedRest, UpOK
<1>5. EntryOK' /\ Matched(disk)'
  <2>1. CASE a.disk = disk
    BY <1>2, <1>3, <2>1 DEF JInv, Matched, EntryOK, NoEntry
  <2>2. CASE Recovered(disk, a.disk)
    BY <1>2, <1>3, <2>2, RecoveredKeeps
  <2>3. CASE ~a.disk.journal.open
    BY <1>3, <2>3 DEF Matched, EntryOK
  <2> QED
    BY <1>2, <2>1, <2>2, <2>3
<1>6. pending' # 0 /\ staged'.phase # "none" => staged'.tokens = pending'
  BY <1>1, <1>2, <1>3 DEF JInv, PendingOK, NoEntry
<1> QED
  BY <1>4, <1>5, <1>6, StillIdle

LEMMA AccessTokenKeeps == ASSUME JInv, AccessToken PROVE JInv'
<1>1. PICK a \in Recover(disk, staged) : Take(a)
  BY DEF AccessToken
<1>2. a.staged = staged /\ a.cost \in {0, 1} /\ a.ok \in BOOLEAN /\ Recovered(disk, a.disk)
  BY <1>1, RecoverDoes DEF JInv, TypedRest
<1>3. Answers(disk, staged, a)
  BY <1>2 DEF Answers, Recovered, JInv, TypedRest
<1>4. /\ disk' = a.disk /\ staged' = staged /\ disk' \in Disks /\ faults' \in 0..MaxFaults
  BY <1>1, <1>2, <1>3, Taken
<1>5. TypedRest' /\ UpOK' /\ tx.pc = "idle" /\ tx' = tx /\ pending' = pending
  BY <1>4 DEF AccessToken, Idle, JInv, TypedRest, UpOK
<1>6. EntryOK' /\ Matched(disk)'
  BY <1>2, <1>4, RecoveredKeeps
<1>7. pending' # 0 /\ staged'.phase # "none" => staged'.tokens = pending'
  BY <1>4, <1>5 DEF JInv, PendingOK
<1> QED
  BY <1>5, <1>6, <1>7, StillIdle

LEMMA RetryFinalizeKeeps == ASSUME JInv, RetryFinalize PROVE JInv'
<1>1. PICK a \in Finalize(disk, staged, cleanup) : Take(a) /\ cleanup' = (IF a.ok THEN 0 ELSE cleanup)
  BY DEF RetryFinalize
<1>2. /\ Answers(disk, staged, a) /\ a.disk.tokens = disk.tokens /\ a.disk.backend = disk.backend
      /\ a.disk.journal = disk.journal \/ ~a.disk.journal.open
      /\ a.staged \in {staged, NoEntry}
  BY <1>1, FinalizeDoes DEF JInv, TypedRest
<1>3. /\ disk' = a.disk /\ staged' = a.staged /\ disk' \in Disks /\ staged' \in Entries
      /\ faults' \in 0..MaxFaults /\ SameSettings(disk, disk')
  BY <1>1, <1>2, Taken
<1>4. TypedRest' /\ UpOK' /\ tx.pc = "idle" /\ tx' = tx /\ pending' = pending
  BY <1>1, <1>3, Zero DEF RetryFinalize, Idle, JInv, TypedRest, UpOK
<1>5. EntryOK' /\ Matched(disk)'
  BY <1>2, <1>3 DEF JInv, EntryOK, Matched, Committed, Off, SameSettings, NoEntry
<1>6. pending' # 0 /\ staged'.phase # "none" => staged'.tokens = pending'
  BY <1>2, <1>3, <1>4 DEF JInv, PendingOK, NoEntry
<1> QED
  BY <1>4, <1>5, <1>6, StillIdle

LEMMA SwitchOffDoes ==
    ASSUME JInv, SwitchOff
    PROVE  /\ UNCHANGED <<tx, pending, up, prior, proven, count, crashes>> /\ tx.pc = "idle" /\ up
           /\ Recovered(disk, disk') /\ disk' \in Disks
           /\ staged' \in {staged, NoEntry} /\ staged' \in Entries
           /\ faults' \in 0..MaxFaults /\ faults' >= faults /\ cleanup' \in {0, cleanup}
<1>1. PICK a \in RecoverBefore(disk, staged) :
        /\ cleanup' = IF a.ok THEN 0 ELSE cleanup
        /\ \/ Take([a EXCEPT !.disk.backend = IF a.ok THEN "off" ELSE @])
           \/ a.ok /\ Take([a EXCEPT !.cost = 1])
  BY DEF SwitchOff
<1>2. /\ Answers(disk, staged, a) /\ Recovered(disk, a.disk) /\ a.staged \in {staged, NoEntry}
      /\ a = [ok |-> a.ok, disk |-> a.disk, staged |-> a.staged, cost |-> a.cost]
  <2>1. PICK r \in Recover(disk, staged) :
          a = [r EXCEPT !.staged = IF r.ok /\ staged.phase = "promoted" THEN NoEntry ELSE staged]
    BY <1>1 DEF RecoverBefore
  <2>2. a = [ok |-> a.ok, disk |-> a.disk, staged |-> a.staged, cost |-> a.cost]
    BY <2>1, RecoverDoes DEF JInv, TypedRest
  <2> QED
    BY <1>1, <2>2, RecoverBeforeDoes DEF JInv, TypedRest
<1>3. /\ staged' = a.staged /\ faults' \in 0..MaxFaults /\ faults' >= faults
      /\ disk' = a.disk \/ disk' = [a.disk EXCEPT !.backend = "off"]
  <2>1. CASE Take([a EXCEPT !.disk.backend = IF a.ok THEN "off" ELSE @])
    <3>1. PICK b : b = IF a.ok THEN "off" ELSE a.disk.backend
      OBVIOUS
    <3>2. Take([ok |-> a.ok, disk |-> [a.disk EXCEPT !.backend = b], staged |-> a.staged, cost |-> a.cost])
      BY <1>2, <2>1, <3>1
    <3>3. disk' = [a.disk EXCEPT !.backend = b] /\ staged' = a.staged /\ faults' = faults + a.cost
          /\ faults + a.cost <= MaxFaults
      BY <3>2 DEF Take
    <3>4. ~a.ok => [a.disk EXCEPT !.backend = b] = a.disk
      BY <1>2, <3>1 DEF Answers, Disks
    <3> QED
      BY <1>2, <3>1, <3>3, <3>4, SyncConfigurationAssumption DEF Answers, JInv, TypedRest
  <2>2. CASE Take([a EXCEPT !.cost = 1])
    BY <1>2, <2>2, SyncConfigurationAssumption DEF Take, JInv, TypedRest
  <2> QED
    BY <1>1, <2>1, <2>2
<1>4. /\ Recovered(disk, disk')
      /\ disk' \in Disks /\ staged' \in Entries
  BY <1>2, <1>3, ClearedTyped DEF Recovered, SameSettings, Answers, Disks
<1> QED
  BY <1>1, <1>2, <1>3, <1>4 DEF SwitchOff, Idle

LEMMA SwitchOffKeeps == ASSUME JInv, SwitchOff PROVE JInv'
<1>1. TypedRest' /\ UpOK'
  BY SwitchOffDoes, Zero DEF JInv, TypedRest, UpOK
<1>2. EntryOK' /\ Matched(disk)'
  BY SwitchOffDoes, RecoveredKeeps
<1>3. pending' # 0 /\ staged'.phase # "none" => staged'.tokens = pending'
  BY SwitchOffDoes DEF JInv, PendingOK, NoEntry
<1> QED
  BY <1>1, <1>2, <1>3, SwitchOffDoes, StillIdle

\* Besides a recovery, disconnecting takes the bundle out of a backend that is
\* not Dropbox, or no longer.
LEMMA DisconnectDropboxDoes ==
    ASSUME JInv, DisconnectDropbox
    PROVE  /\ UNCHANGED <<tx, up, prior, proven, count, crashes>> /\ tx.pc = "idle" /\ up
           /\ disk' \in Disks /\ staged' \in {staged, NoEntry} /\ staged' \in Entries
           /\ faults' \in 0..MaxFaults /\ faults' >= faults
           /\ cleanup' \in {0, cleanup} /\ pending' \in {0, pending}
           /\ SameSettings(disk, disk') /\ disk'.backend \in {disk.backend, "off"}
           /\ \/ Recovered(disk, disk')
              \/ /\ ~disk'.journal.open /\ ~Committed(disk') /\ disk'.tokens = 0
                 /\ staged'.phase # "promoted"
<1>1. PICK a \in RecoverBefore(disk, staged) :
        LET d == IF Committed(a.disk) THEN [a.disk EXCEPT !.backend = "off"] ELSE a.disk IN
        /\ cleanup' = IF a.ok THEN 0 ELSE cleanup
        /\ IF a.ok THEN \E e \in Disconnect(d, a.staged) : Take(e) /\ pending' = (IF e.ok THEN 0 ELSE pending)
           ELSE Take(a) /\ UNCHANGED pending
  BY DEF DisconnectDropbox
<1>2. /\ Answers(disk, staged, a) /\ Recovered(disk, a.disk) /\ a.staged \in {staged, NoEntry}
      /\ a.ok => a.staged.phase # "promoted"
  BY <1>1, RecoverBeforeDoes DEF JInv, TypedRest, NoEntry
<1>3. /\ UNCHANGED <<tx, up, prior, proven, count, crashes>> /\ tx.pc = "idle" /\ up
      /\ cleanup' \in {0, cleanup}
  BY <1>1 DEF DisconnectDropbox, Idle
<1> DEFINE d == IF Committed(a.disk) THEN [a.disk EXCEPT !.backend = "off"] ELSE a.disk
<1>4. CASE a.ok
  <2>1. PICK e \in Disconnect(d, a.staged) : Take(e) /\ pending' = (IF e.ok THEN 0 ELSE pending)
    BY <1>1, <1>4
  <2>2. d \in Disks /\ Recovered(disk, d)
    BY <1>2, ClearedTyped DEF Answers, Recovered, SameSettings, Disks
  <2> HIDE DEF d
  <2>3. /\ Answers(d, a.staged, e) /\ e.disk.backend = d.backend /\ e.disk.journal = d.journal
        /\ e.disk.tokens = d.tokens \/ (~Committed(d) /\ ~d.journal.open /\ e.disk.tokens = 0)
        /\ e.staged \in {a.staged, NoEntry}
    BY <1>2, <2>1, <2>2, DisconnectDoes DEF Answers
  <2>4. /\ disk' = e.disk /\ staged' = e.staged /\ faults' = faults + e.cost /\ faults + e.cost <= MaxFaults
        /\ pending' \in {0, pending}
    BY <2>1 DEF Take
  <2>5. /\ disk' \in Disks /\ staged' \in Entries /\ staged' \in {staged, NoEntry}
        /\ faults' \in 0..MaxFaults /\ faults' >= faults
    BY <1>2, <2>3, <2>4, SyncConfigurationAssumption DEF Answers, JInv, TypedRest
  <2>6. SameSettings(disk, disk') /\ disk'.backend \in {disk.backend, "off"}
    BY <2>2, <2>3, <2>4 DEF Answers, Recovered, SameSettings
  <2>7. Recovered(disk, disk') \/ (~disk'.journal.open /\ ~Committed(disk') /\ disk'.tokens = 0)
    BY <2>2, <2>3, <2>4, <2>5, <2>6 DEF Recovered, Answers, SameSettings, Committed
  <2>8. staged'.phase # "promoted"
    BY <1>2, <1>4, <2>3, <2>4 DEF NoEntry
  <2> QED
    BY <1>3, <2>4, <2>5, <2>6, <2>7, <2>8
<1>5. CASE ~a.ok
  <2>1. Take(a) /\ pending' = pending
    BY <1>1, <1>5
  <2> QED
    BY <1>2, <1>3, <2>1, Taken DEF Charged, JInv, TypedRest
<1> QED
  BY <1>4, <1>5

LEMMA DisconnectDropboxKeeps == ASSUME JInv, DisconnectDropbox PROVE JInv'
<1>1. TypedRest' /\ UpOK'
  BY DisconnectDropboxDoes, Zero DEF JInv, TypedRest, UpOK
<1>2. EntryOK' /\ Matched(disk)'
  <2>1. CASE Recovered(disk, disk')
    BY <2>1, DisconnectDropboxDoes, RecoveredKeeps
  <2>2. CASE ~disk'.journal.open
    BY <2>2 DEF EntryOK, Matched
  <2> QED
    BY <2>1, <2>2, DisconnectDropboxDoes
<1>3. pending' # 0 /\ staged'.phase # "none" => staged'.tokens = pending'
  BY DisconnectDropboxDoes DEF JInv, PendingOK, NoEntry
<1> QED
  BY <1>1, <1>2, <1>3, DisconnectDropboxDoes, StillIdle

LEMMA ReloadKeeps == ASSUME JInv, Reload PROVE JInv'
<1>1. TypedRest' /\ UpOK' /\ EntryOK' /\ Matched(disk)'
  BY SyncConfigurationAssumption, Zero DEF Reload, JInv, TypedRest, UpOK, EntryOK, Matched
<1>2. Ends /\ pending' = 0
  BY NoTxHas DEF Reload, Ends
<1> QED
  BY <1>1, <1>2, IdleKeeps

LEMMA CrashKeeps == ASSUME JInv, Crash PROVE JInv'
<1>1. TypedRest' /\ Matched(disk)'
  <2>1. up' \in BOOLEAN
    BY Zenon DEF Crash
  <2> QED
    BY <2>1, SyncConfigurationAssumption, Zero, NoEntryTyped DEF Crash, JInv, TypedRest, Matched
<1>2. UpOK' /\ EntryOK'
  BY NoTxHas DEF Crash, UpOK, EntryOK, NoEntry
<1>3. Ends /\ pending' = 0
  BY NoTxHas DEF Crash, Ends
<1> QED
  BY <1>1, <1>2, <1>3, IdleKeeps

LEMMA StartKeeps == ASSUME JInv, Start PROVE JInv'
<1>1. PICK a \in Recover(disk, staged) : Take(a) /\ up' = (a.ok \/ Off(a.disk))
  BY DEF Start
<1>2. a.staged = staged /\ a.cost \in {0, 1} /\ a.ok \in BOOLEAN /\ Recovered(disk, a.disk)
  BY <1>1, RecoverDoes DEF JInv, TypedRest
<1>3. Answers(disk, staged, a)
  BY <1>2 DEF Answers, Recovered, JInv, TypedRest
<1>4. /\ disk' = a.disk /\ staged' = staged /\ disk' \in Disks /\ faults' \in 0..MaxFaults
  BY <1>1, <1>2, <1>3, Taken
<1>5. tx.pc = "idle" /\ tx' = tx /\ pending = 0 /\ pending' = 0 /\ up' \in BOOLEAN
  BY <1>1, <1>2 DEF Start, JInv, UpOK
<1>6. TypedRest' /\ UpOK'
  BY <1>4, <1>5, Zero DEF Start, JInv, TypedRest, UpOK
<1>7. EntryOK' /\ Matched(disk)'
  BY <1>2, <1>4, RecoveredKeeps
<1> QED
  BY <1>5, <1>6, <1>7, StillIdle

LEMMA JInvInit == ASSUME Init PROVE JInv
<1>1. PICK b \in {"off"} \cup {Backend(k) : k \in Kinds}, p \in {"selfhosted", "dropbox"} :
        disk = [backend |-> b, path |-> 1, webdav |-> 1, cloud |-> 1, provider |-> p, tokens |-> 1,
                journal |-> NoJournal, resolved |-> 0]
  BY DEF Init
<1>2. b \in Backends /\ p \in Providers
  BY <1>1 DEF Backend, Backends, Providers
<1>3. disk \in Disks /\ ~disk.journal.open
  BY <1>1, <1>2, Zero DEF Disks, NoJournal, Journals
<1>4. TypedRest /\ UpOK /\ EntryOK /\ Matched(disk)
  BY <1>3, Zero, NoEntryTyped, NoTxHas, SyncConfigurationAssumption
     DEF Init, TypedRest, UpOK, EntryOK, Matched
<1>5. TypedTx
  BY NoTxHas, Zero DEF Init, TypedTx, PastRead, Forward, Undo, Restore
<1>6. FlagsOK /\ OffOK /\ PendingOK /\ ReadOK /\ JournalOK /\ FaultsOK
  BY NoTxHas
     DEF Init, FlagsOK, OffOK, PendingOK, ReadOK, JournalOK, FaultsOK, Handle, PastRead, Forward, Undo,
         Restore
<1> QED
  BY <1>4, <1>5, <1>6 DEF JInv

LEMMA JInvNext == ASSUME JInv, [Next]_vars PROVE JInv'
<1>1. CASE UNCHANGED vars
  BY <1>1
     DEF vars, JInv, TypedTx, TypedRest, UpOK, FlagsOK, OffOK, PendingOK, ReadOK, JournalOK, EntryOK,
         FaultsOK, Matched, Expected
<1>2. CASE Transaction
  BY <1>2, RecoverFirstKeeps, ReadPreviousKeeps, EnsureDisabledKeeps, CheckDisabledKeeps,
     WriteTransportKeeps, VerifyTransportKeeps, PromoteCredentialsKeeps, VerifyPromotedKeeps,
     ActivateKeeps, VerifyActiveKeeps, FinalizeCommittedKeeps, DiscardCandidateKeeps, CheckIsOffKeeps,
     OffAgainKeeps, RollbackCredentialsKeeps, CheckRestoreIsOffKeeps, RestoreSettingKeeps,
     VerifyRestoredKeeps, ReactivateKeeps, VerifyReactivatedKeeps, KeepOffKeeps DEF Transaction
<1>3. CASE Next /\ ~Transaction
  BY <1>3, BeginKeeps, ConnectDropboxKeeps, ResolvePendingKeeps, AccessTokenKeeps, RetryFinalizeKeeps,
     SwitchOffKeeps, DisconnectDropboxKeeps, ReloadKeeps, CrashKeeps, StartKeeps DEF Next
<1> QED
  BY <1>1, <1>2, <1>3

THEOREM JInvAlways == Spec => []JInv
  BY JInvInit, JInvNext, PTL DEF Spec

\* Every variable keeps its type, whatever fails.
THEOREM ConfigurationTypeCorrect == Spec => []TypeOK
<1>1. ASSUME JInv PROVE TypeOK
  <2>1. Len(tx.todo) <= 2
    <3>1. Len(<<>>) = 0 /\ \A x, y : Len(<<x>>) = 1 /\ Len(<<x, y>>) = 2
      OBVIOUS
    <3>2. tx.todo \in {<<>>, <<"path">>, <<"webdav">>, <<"cloud", "provider">>, <<"provider">>}
      BY <1>1 DEF JInv, TypedTx, Transactions
    <3>3. PICK x, y : tx.todo \in {<<>>, <<x>>, <<x, y>>}
      BY <3>2
    <3>4. \E k \in {0, 1, 2} : Len(tx.todo) = k
      BY <3>1, <3>3, Zenon
    <3>5. \A k \in {0, 1, 2} : k <= 2
      OBVIOUS
    <3> QED
      BY <3>4, <3>5, Zenon
  <2> QED
    BY <1>1, <2>1
       DEF JInv, TypedTx, TypedRest, Transactions, Disks, Journals, Entries, Backends, Numbers, Providers,
           TypeOK
<1> QED
  BY <1>1, JInvAlways, PTL

\* While a promotion is open the backend is off, or it is Dropbox with the
\* promoted bundle, after any number of failures, reloads and crashes: recovery
\* (recover_dropbox_credentials) always knows which bundle to keep.
THEOREM JournalIsDecided == Spec => []JournalMatchesBackend
<1>1. ASSUME JInv PROVE JournalMatchesBackend
  BY <1>1 DEF JInv, Matched, JournalMatchesBackend
<1> QED
  BY <1>1, JInvAlways, PTL

-----------------------------------------------------------------------------
(* Sync runs only what was proven to work.                                  *)

\* A transaction that has promoted credentials and gives up with sync still
\* switched on: neither write of "off" has reached the disk.
GaveUp == tx.pc = "rollback" /\ tx.offError /\ tx.promoted /\ ~Off(disk)

\* What the probe before the transaction has shown to work.
Probe == IF tx.kind = "kept" THEN <<"dropbox", disk.tokens>> ELSE <<tx.kind, tx.n>>

ProbeOK == tx.pc # "idle" => Probe \in proven

\* From the activation of promoted credentials to their rollback.
Late == {"active", "finalize", "off", "isOff", "offAgain", "rollback"}

\* While the page waits for an authorization, sync is on with a promotion in
\* the journal or in native memory only in the transaction that promoted it;
\* once the journal is closed, the bundle it replaced is in use.
AwaitOK ==
    /\ pending # 0 /\ ~Off(disk) /\ (disk.journal.open \/ staged.phase = "promoted") =>
        tx.promoted /\ tx.pc \in Late
    /\ pending # 0 /\ staged.phase = "promoted" /\ ~disk.journal.open => disk.tokens = staged.previous
    /\ tx.promoted /\ tx.pc \in Promotion => pending # 0

\* The configuration a transaction has found, as a durable state.
Old(p) ==
    [backend |-> p.backend, path |-> p.settings.path, webdav |-> p.settings.webdav,
     cloud |-> p.settings.cloud, provider |-> p.settings.provider, tokens |-> p.tokens]

\* It was proven, and its bundle is the one in use, or the one a rollback
\* brings back.
FoundOK ==
    tx.pc \in PastRead /\ tx.previous.backend # "off" =>
        /\ Transport(Old(tx.previous)) \in proven
        /\ ~tx.promoted => /\ disk.tokens = tx.previous.tokens /\ ~disk.journal.open
                           /\ pending # 0 => staged.phase # "promoted"
        /\ tx.promoted /\ tx.pc \notin Restore =>
            IF disk.journal.open THEN disk.journal.previous = tx.previous.tokens
            ELSE disk.tokens = tx.previous.tokens /\ staged.phase # "promoted"
        /\ tx.promoted /\ tx.pc \in Restore /\ ~tx.credError => disk.tokens = tx.previous.tokens

AInv == ProbeOK /\ AwaitOK /\ FoundOK /\ ActiveIsProven

\* The step that CredentialsJournaled allows.
Journaled ==
    disk'.tokens # 0 =>
      /\ disk'.tokens # disk.tokens =>
           \/ disk'.journal.open /\ disk'.journal.previous = disk.tokens
           \/ disk.journal.open /\ disk'.tokens = disk.journal.previous
      /\ disk.journal.open /\ ~disk'.journal.open =>
           \/ disk'.tokens = disk.journal.previous
           \/ Committed(disk) /\ disk'.tokens = disk.journal.candidate

\* The same backend with the same settings and bundle is the same transport.
LEMMA SameTransport ==
    ASSUME NEW d, NEW e, SameSettings(d, e), e.backend = d.backend, e.tokens = d.tokens
    PROVE  Transport(e) = Transport(d)
  BY DEF Transport, SameSettings

LEMMA SettingsEqual ==
    ASSUME NEW d \in Disks, NEW e \in Disks, Settings(d) = Settings(e) PROVE SameSettings(d, e)
  BY SettingsTyped DEF SameSettings

\* The transaction goes on with the same candidate.
Onward ==
    /\ Same(tx') /\ tx'.promoted = tx.promoted /\ tx'.credError = tx.credError
    /\ tx.pc \in PastRead /\ tx'.pc \in PastRead /\ (tx.pc \in Restore <=> tx'.pc \in Restore)
    /\ tx.promoted /\ tx.pc \in Late => tx'.pc \in Late

LEMMA HeldSafe ==
    ASSUME JInv, AInv, Held, disk'.backend \in {disk.backend, "off"},
           Off(disk') \/ SameSettings(disk, disk'),
           Onward \/ (tx'.pc = "idle" /\ ~tx'.promoted /\ ~(tx.promoted /\ tx.pc \in Late))
    PROVE  AInv' /\ Journaled
<1>1. Journaled
  BY DEF Held, Journaled
<1>2. ActiveIsProven'
  BY SameTransport DEF AInv, ActiveIsProven, Held, Outside, Elsewhere, Off
<1>3. CASE Onward
  <2>1. ProbeOK'
    BY <1>3 DEF AInv, ProbeOK, Probe, Onward, Same, Held, Outside, Elsewhere, PastRead, Forward, Undo,
       Restore
  <2>2. AwaitOK'
    BY <1>3 DEF AInv, AwaitOK, Onward, Held, Outside, Off, JInv, FlagsOK, Promotion, Restore
  <2>3. FoundOK'
    BY <1>3 DEF AInv, FoundOK, Onward, Same, Held, Outside, Elsewhere
  <2> QED
    BY <1>1, <1>2, <2>1, <2>2, <2>3 DEF AInv
<1>4. CASE tx'.pc = "idle" /\ ~tx'.promoted /\ ~(tx.promoted /\ tx.pc \in Late)
  <2>1. ProbeOK' /\ FoundOK'
    BY <1>4 DEF ProbeOK, FoundOK, PastRead, Forward, Undo, Restore
  <2>2. AwaitOK'
    BY <1>4 DEF AInv, AwaitOK, Held, Outside, Off
  <2> QED
    BY <1>1, <1>2, <2>1, <2>2 DEF AInv
<1> QED
  BY <1>3, <1>4

LEMMA RecoveredSafe ==
    ASSUME JInv, AInv, ~(tx.promoted /\ tx.pc \in Late), proven \subseteq proven',
           Recovered(disk, disk'), staged' \in {staged, NoEntry}, pending' \in {0, pending}
    PROVE  /\ Journaled /\ ActiveIsProven'
           /\ ~(pending' # 0 /\ ~Off(disk') /\ (disk'.journal.open \/ staged'.phase = "promoted"))
           /\ pending' # 0 /\ staged'.phase = "promoted" /\ ~disk'.journal.open => disk'.tokens = staged'.previous
<1>1. ActiveIsProven'
  <2>1. SUFFICES ASSUME ~Off(disk') PROVE Transport(disk') = Transport(disk) /\ ~Off(disk)
    BY DEF AInv, ActiveIsProven
  <2> QED
    BY <2>1, SameTransport DEF Recovered, Off
<1>2. Journaled
  BY DEF Journaled, Recovered, JInv, Matched
<1>3. ~(pending' # 0 /\ ~Off(disk') /\ (disk'.journal.open \/ staged'.phase = "promoted"))
  BY DEF AInv, AwaitOK, Recovered, Off, NoEntry
<1>4. pending' # 0 /\ staged'.phase = "promoted" /\ ~disk'.journal.open => disk'.tokens = staged'.previous
  <2>1. SUFFICES ASSUME pending' # 0, staged'.phase = "promoted", ~disk'.journal.open
                 PROVE  disk'.tokens = staged'.previous
    OBVIOUS
  <2>2. staged' = staged /\ pending # 0
    BY <2>1 DEF NoEntry
  <2>3. CASE ~disk.journal.open
    BY <2>1, <2>2, <2>3 DEF AInv, AwaitOK, Recovered
  <2>4. CASE disk.journal.open
    <3>1. Off(disk)
      BY <2>2, <2>4 DEF AInv, AwaitOK
    <3>2. disk'.tokens = disk.journal.previous
      BY <2>1, <2>4, <3>1 DEF Recovered
    <3> QED
      BY <2>1, <2>2, <2>4, <3>2 DEF JInv, EntryOK
  <2> QED
    BY <2>3, <2>4
<1> QED
  BY <1>1, <1>2, <1>3, <1>4

\* A recovery between transactions, or that ends one.
LEMMA RecoveredIdle ==
    ASSUME JInv, AInv, ~(tx.promoted /\ tx.pc \in Late), proven \subseteq proven',
           Recovered(disk, disk'), staged' \in {staged, NoEntry}, pending' \in {0, pending},
           tx'.pc = "idle", ~tx'.promoted
    PROVE  AInv' /\ Journaled
<1>1. ProbeOK' /\ FoundOK'
  BY DEF ProbeOK, FoundOK, PastRead, Forward, Undo, Restore
<1>2. AwaitOK'
  BY RecoveredSafe DEF AwaitOK
<1> QED
  BY <1>1, <1>2, RecoveredSafe DEF AInv

\* Between transactions no promotion is under way.
LEMMA IdleIs == ASSUME JInv, tx.pc = "idle" PROVE ~tx.promoted
  BY DEF JInv, FlagsOK, Promotion, Restore

LEMMA EnsureDisabledSafe == ASSUME JInv, AInv, EnsureDisabled PROVE AInv' /\ Journaled
<1>1. Held /\ SameSettings(disk, disk') /\ disk'.backend \in {disk.backend, "off"}
  BY EnsureDisabledDoes, BackendHeld DEF Backends
<1>2. Onward
  BY EnsureDisabledDoes
     DEF JInv, FlagsOK, Onward, Goes, Aborts, Aborting, Ends, Same, Flags, Late, Handle, PastRead, Forward,
         Undo, Restore, Promotion
<1> QED
  BY <1>1, <1>2, HeldSafe DEF SameSettings

LEMMA CheckDisabledSafe == ASSUME JInv, AInv, CheckDisabled PROVE AInv' /\ Journaled
<1>1. Held /\ disk' = disk
  BY CheckDisabledDoes, ReadHeld DEF ReadFrame
<1>2. Onward
  BY CheckDisabledDoes
     DEF JInv, FlagsOK, Onward, Goes, Aborts, Aborting, Ends, Same, Flags, Late, Handle, PastRead, Forward,
         Undo, Restore, Promotion
<1> QED
  BY <1>1, <1>2, HeldSafe DEF SameSettings

LEMMA WriteTransportSafe == ASSUME JInv, AInv, WriteTransport PROVE AInv' /\ Journaled
<1>1. Held /\ disk'.backend = disk.backend /\ Off(disk')
  BY WriteTransportDoes, SettingHeld DEF WroteSetting, JInv, OffOK, Off
<1>2. Onward
  BY WriteTransportDoes
     DEF JInv, FlagsOK, Onward, Goes, Aborts, Aborting, Ends, Same, Flags, Late, Handle, PastRead, Forward,
         Undo, Restore, Promotion
<1> QED
  BY <1>1, <1>2, HeldSafe DEF SameSettings

LEMMA VerifyTransportSafe == ASSUME JInv, AInv, VerifyTransport PROVE AInv' /\ Journaled
<1>1. Held /\ disk' = disk
  BY VerifyTransportDoes, ReadHeld DEF ReadFrame
<1>2. Onward
  BY VerifyTransportDoes
     DEF JInv, FlagsOK, Onward, Goes, Aborts, Aborting, Ends, Same, Flags, Late, Handle, PastRead, Forward,
         Undo, Restore, Promotion
<1> QED
  BY <1>1, <1>2, HeldSafe DEF SameSettings

LEMMA VerifyPromotedSafe == ASSUME JInv, AInv, VerifyPromoted PROVE AInv' /\ Journaled
<1>1. Held /\ disk' = disk
  BY VerifyPromotedDoes, ReadHeld DEF ReadFrame
<1>2. Onward
  BY VerifyPromotedDoes
     DEF JInv, FlagsOK, Onward, Goes, Aborts, Aborting, Ends, Same, Flags, Late, Handle, PastRead, Forward,
         Undo, Restore, Promotion
<1> QED
  BY <1>1, <1>2, HeldSafe DEF SameSettings

LEMMA VerifyActiveSafe == ASSUME JInv, AInv, VerifyActive PROVE AInv' /\ Journaled
<1>1. Held /\ disk' = disk
  BY VerifyActiveDoes, ReadHeld DEF ReadFrame
<1>2. Onward \/ (tx'.pc = "idle" /\ ~tx'.promoted /\ ~(tx.promoted /\ tx.pc \in Late))
  BY VerifyActiveDoes
     DEF JInv, FlagsOK, Onward, Goes, Aborts, Aborting, Ends, Same, Flags, Late, Handle, PastRead, Forward,
         Undo, Restore, Promotion
<1> QED
  BY <1>1, <1>2, HeldSafe DEF SameSettings

LEMMA CheckIsOffSafe == ASSUME JInv, AInv, CheckIsOff PROVE AInv' /\ Journaled
<1>1. Held /\ disk' = disk
  BY CheckIsOffDoes, ReadHeld DEF ReadFrame
<1>2. Onward
  BY CheckIsOffDoes
     DEF JInv, FlagsOK, Onward, Goes, Aborts, Aborting, Ends, Same, Flags, Late, Handle, PastRead, Forward,
         Undo, Restore, Promotion
<1> QED
  BY <1>1, <1>2, HeldSafe DEF SameSettings

LEMMA OffAgainSafe == ASSUME JInv, AInv, OffAgain PROVE AInv' /\ Journaled
<1>1. Held /\ SameSettings(disk, disk') /\ disk'.backend \in {disk.backend, "off"}
  BY OffAgainDoes, BackendHeld DEF Backends
<1>2. Onward
  BY OffAgainDoes
     DEF JInv, FlagsOK, Onward, Goes, Aborts, Aborting, Ends, Same, Flags, Late, Handle, PastRead, Forward,
         Undo, Restore, Promotion
<1> QED
  BY <1>1, <1>2, HeldSafe DEF SameSettings

LEMMA CheckRestoreIsOffSafe == ASSUME JInv, AInv, CheckRestoreIsOff PROVE AInv' /\ Journaled
<1>1. Held /\ disk' = disk
  BY CheckRestoreIsOffDoes, ReadHeld DEF ReadFrame
<1>2. Onward
  BY CheckRestoreIsOffDoes
     DEF JInv, FlagsOK, Onward, Goes, Aborts, Aborting, Ends, Same, Flags, Late, Handle, PastRead, Forward,
         Undo, Restore, Promotion
<1> QED
  BY <1>1, <1>2, HeldSafe DEF SameSettings

LEMMA RestoreSettingSafe == ASSUME JInv, AInv, RestoreSetting PROVE AInv' /\ Journaled
<1>1. Held /\ disk'.backend = disk.backend /\ Off(disk')
  BY RestoreSettingDoes, SettingHeld DEF WroteSetting, JInv, OffOK, Off
<1>2. Onward
  BY RestoreSettingDoes
     DEF JInv, FlagsOK, Onward, Goes, Aborts, Aborting, Ends, Same, Flags, Late, Handle, PastRead, Forward,
         Undo, Restore, Promotion
<1> QED
  BY <1>1, <1>2, HeldSafe DEF SameSettings

LEMMA VerifyRestoredSafe == ASSUME JInv, AInv, VerifyRestored PROVE AInv' /\ Journaled
<1>1. Held /\ disk' = disk
  BY VerifyRestoredDoes, ReadHeld DEF ReadFrame
<1>2. Onward
  BY VerifyRestoredDoes
     DEF JInv, FlagsOK, Onward, Goes, Aborts, Aborting, Ends, Same, Flags, Late, Handle, PastRead, Forward,
         Undo, Restore, Promotion
<1> QED
  BY <1>1, <1>2, HeldSafe DEF SameSettings

LEMMA VerifyReactivatedSafe == ASSUME JInv, AInv, VerifyReactivated PROVE AInv' /\ Journaled
<1>1. Held /\ disk' = disk
  BY VerifyReactivatedDoes, ReadHeld DEF ReadFrame
<1>2. Onward \/ (tx'.pc = "idle" /\ ~tx'.promoted /\ ~(tx.promoted /\ tx.pc \in Late))
  BY VerifyReactivatedDoes
     DEF JInv, FlagsOK, Onward, Goes, Aborts, Aborting, Ends, Same, Flags, Late, Handle, PastRead, Forward,
         Undo, Restore, Promotion
<1> QED
  BY <1>1, <1>2, HeldSafe DEF SameSettings

LEMMA KeepOffSafe == ASSUME JInv, AInv, KeepOff PROVE AInv' /\ Journaled
<1>1. Held /\ SameSettings(disk, disk') /\ disk'.backend \in {disk.backend, "off"}
  BY KeepOffDoes, BackendHeld DEF Backends
<1>2. tx'.pc = "idle" /\ ~tx'.promoted /\ ~(tx.promoted /\ tx.pc \in Late)
  BY KeepOffDoes
     DEF JInv, FlagsOK, Onward, Goes, Aborts, Aborting, Ends, Same, Flags, Late, Handle, PastRead, Forward,
         Undo, Restore, Promotion
<1> QED
  BY <1>1, <1>2, HeldSafe DEF SameSettings

LEMMA BeginSafe == ASSUME JInv, AInv, Begin PROVE AInv' /\ Journaled
<1>1. UNCHANGED <<disk, staged, pending>> /\ tx.pc = "idle" /\ ~tx.promoted
  BY IdleIs DEF Begin
<1>2. PICK kind \in Kinds :
        LET n == IF Handle(kind) THEN pending ELSE count + 1 IN
        /\ tx' = [NoTx EXCEPT !.pc = IF Handle(kind) THEN "read" ELSE "recover", !.kind = kind, !.n = n]
        /\ proven' = proven \cup {IF Backend(kind) = "cloud" /\ kind # "selfhosted"
                                  THEN <<"dropbox", IF kind = "kept" THEN disk.tokens ELSE n>>
                                  ELSE <<kind, n>>}
  BY DEF Begin
<1> DEFINE n == IF Handle(kind) THEN pending ELSE count + 1
<1>3. /\ tx' = [NoTx EXCEPT !.pc = IF Handle(kind) THEN "read" ELSE "recover", !.kind = kind, !.n = n]
      /\ proven' = proven \cup {IF Backend(kind) = "cloud" /\ kind # "selfhosted"
                                THEN <<"dropbox", IF kind = "kept" THEN disk.tokens ELSE n>>
                                ELSE <<kind, n>>}
      /\ kind \in CandidateKinds
  BY <1>2, SyncConfigurationAssumption
<1> HIDE DEF n
<1>4. tx'.pc \in {"read", "recover"} /\ tx'.kind = kind /\ tx'.n = n /\ ~tx'.promoted
  BY <1>3 DEF NoTx
<1>5. Probe' \in proven'
  <2>1. CASE kind \in {"kept", "dropbox"}
    BY <1>1, <1>3, <1>4, <2>1 DEF Probe, Backend
  <2>2. CASE kind \in {"file", "webdav", "selfhosted"}
    BY <1>1, <1>3, <1>4, <2>2 DEF Probe, Backend
  <2> QED
    BY <1>3, <2>1, <2>2 DEF CandidateKinds
<1>6. ProbeOK' /\ FoundOK'
  BY <1>4, <1>5 DEF ProbeOK, FoundOK, PastRead, Forward, Undo, Restore
<1>7. AwaitOK' /\ ActiveIsProven' /\ Journaled
  BY <1>1, <1>3, <1>4 DEF AInv, AwaitOK, ActiveIsProven, Journaled
<1> QED
  BY <1>6, <1>7 DEF AInv

LEMMA RecoverFirstSafe == ASSUME JInv, AInv, RecoverFirst PROVE AInv' /\ Journaled
<1>1. PICK a \in RecoverBefore(disk, staged) : Take(a) /\ (IF a.ok THEN Goes("read") ELSE Ends)
  BY RecoverFirstDoes
<1>2. /\ Answers(disk, staged, a) /\ Recovered(disk, a.disk)
      /\ a.staged \in {staged, NoEntry}
  BY <1>1, RecoverBeforeDoes DEF JInv, TypedRest
<1>3. disk' = a.disk /\ staged' = a.staged
  BY <1>1, <1>2, Taken
<1>4. tx.pc = "recover" /\ proven' = proven /\ pending' = pending /\ ~tx.promoted
  BY RecoverFirstDoes DEF Elsewhere, JInv, FlagsOK, Promotion, Restore
<1>5. CASE a.ok
  <2>1. Goes("read") /\ ~tx'.promoted
    BY <1>1, <1>4, <1>5 DEF Goes, Flags
  <2>2. ProbeOK' /\ FoundOK'
    BY <1>2, <1>3, <1>4, <2>1
       DEF AInv, ProbeOK, Probe, FoundOK, Goes, Same, Recovered, JInv, JournalOK, PastRead, Forward, Undo,
           Restore
  <2>3. AwaitOK' /\ ActiveIsProven' /\ Journaled
    BY <1>2, <1>3, <1>4, <2>1, RecoveredSafe DEF AwaitOK
  <2> QED
    BY <2>2, <2>3 DEF AInv
<1>6. CASE ~a.ok
  BY <1>1, <1>2, <1>3, <1>4, <1>6, RecoveredIdle DEF Ends
<1> QED
  BY <1>5, <1>6

LEMMA ReadPreviousSafe == ASSUME JInv, AInv, ReadPrevious PROVE AInv' /\ Journaled
<1>1. Held /\ disk' = disk /\ tx.pc = "read" /\ ~tx.promoted
  BY ReadPreviousDoes, ReadHeld DEF ReadFrame, JInv, FlagsOK, Promotion, Restore
<1>2. CASE Ends
  BY <1>1, <1>2, HeldSafe DEF Ends, SameSettings
<1>3. CASE /\ tx'.pc = "disable" /\ tx'.kind = tx.kind /\ tx'.n = tx.n /\ Flags(tx')
           /\ tx'.previous = [backend |-> disk.backend, settings |-> Settings(disk),
                              tokens |-> IF Off(disk) THEN Settled(disk) ELSE disk.tokens]
  <2>1. ProbeOK' /\ AwaitOK' /\ ActiveIsProven' /\ Journaled
    BY <1>1, <1>3
       DEF AInv, ProbeOK, Probe, AwaitOK, ActiveIsProven, Journaled, Flags, Held, Outside, Elsewhere, Late
  <2>2. ASSUME ~Off(disk) PROVE ~disk.journal.open /\ (pending # 0 => staged.phase # "promoted")
    <3>1. CASE Handle(tx.kind)
      BY <1>1, <2>2, <3>1 DEF JInv, PendingOK, AInv, AwaitOK
    <3>2. CASE ~Handle(tx.kind)
      BY <1>1, <3>2 DEF JInv, JournalOK
    <3> QED
      BY <3>1, <3>2
  <2>3. ASSUME ~Off(disk) PROVE Transport(Old(tx'.previous)) = Transport(disk)
    <3>1. /\ tx'.previous.backend = disk.backend /\ tx'.previous.settings = Settings(disk)
          /\ tx'.previous.tokens = disk.tokens
      BY <1>3, <2>3
    <3>2. /\ Old(tx'.previous).backend = disk.backend /\ Old(tx'.previous).tokens = disk.tokens
          /\ SameSettings(disk, Old(tx'.previous))
      BY <3>1, SettingsTyped DEF Old, SameSettings, JInv, TypedRest
    <3> QED
      BY <3>2, SameTransport
  <2>4. FoundOK'
    <3>1. SUFFICES ASSUME tx'.previous.backend # "off" PROVE FoundOK'
      BY DEF FoundOK
    <3>2. ~Off(disk) /\ tx'.previous.tokens = disk.tokens /\ ~tx'.promoted
      BY <1>1, <1>3, <3>1 DEF Off, Flags
    <3> QED
      BY <1>1, <2>2, <2>3, <3>2 DEF FoundOK, AInv, ActiveIsProven, Held, Outside, Elsewhere
  <2> QED
    BY <2>1, <2>4 DEF AInv
<1> QED
  BY <1>2, <1>3, ReadPreviousDoes

LEMMA PromoteCredentialsSafe == ASSUME JInv, AInv, PromoteCredentials PROVE AInv' /\ Journaled
<1>1. PICK a \in Promote(disk, staged) : Take(a) /\ tx'.pc = IF a.ok THEN "promoted" ELSE "off"
  BY PromoteCredentialsDoes
<1>2. /\ Off(disk) /\ Handle(tx.kind) /\ pending # 0 /\ pending' = pending /\ ~tx.promoted /\ proven' = proven
      /\ tx.pc = "promote" /\ Same(tx') /\ tx'.promoted
  BY PromoteCredentialsDoes
     DEF JInv, OffOK, FlagsOK, PendingOK, Forward, Promotion, Restore, Elsewhere
<1>3. /\ Answers(disk, staged, a)
      /\ \/ ~a.ok /\ a.staged = staged /\ Recovered(disk, a.disk)
         \/ /\ staged.phase = "candidate"
            /\ a.disk.journal = [previous |-> Settled(disk), candidate |-> staged.tokens, open |-> TRUE]
            /\ a.disk.tokens \in {staged.tokens, Settled(disk)}
  BY <1>1, <1>2, PromoteDoes DEF JInv, TypedRest
<1>4. disk' = a.disk /\ staged' = a.staged /\ Off(disk')
  BY <1>1, <1>2, <1>3, Taken DEF Off
<1>5. ProbeOK' /\ ActiveIsProven'
  BY <1>2, <1>4 DEF AInv, ProbeOK, Probe, ActiveIsProven, Same, Handle
<1>6. CASE a.staged = staged /\ Recovered(disk, a.disk)
  <2>1. Journaled /\ AwaitOK'
    BY <1>2, <1>4, <1>6, RecoveredSafe DEF AwaitOK
  <2>2. FoundOK'
    BY <1>1, <1>2, <1>4, <1>6 DEF AInv, FoundOK, Recovered, Same, PastRead, Forward, Restore
  <2> QED
    BY <1>5, <2>1, <2>2 DEF AInv
<1>7. CASE /\ staged.phase = "candidate"
           /\ a.disk.journal = [previous |-> Settled(disk), candidate |-> staged.tokens, open |-> TRUE]
           /\ a.disk.tokens \in {staged.tokens, Settled(disk)}
  <2>1. disk'.journal.open /\ disk'.journal.previous = Settled(disk)
    BY <1>4, <1>7
  <2>2. Settled(disk) = disk.tokens
    BY <1>7 DEF Settled, JInv, EntryOK
  <2>3. Journaled /\ AwaitOK'
    BY <1>2, <1>4, <2>1, <2>2 DEF Journaled, AwaitOK
  <2>4. FoundOK'
    BY <1>1, <1>2, <2>1, <2>2 DEF AInv, FoundOK, Same, PastRead, Forward, Restore
  <2> QED
    BY <1>5, <2>3, <2>4 DEF AInv
<1> QED
  BY <1>3, <1>6, <1>7

LEMMA ActivateSafe == ASSUME JInv, AInv, Activate PROVE AInv' /\ Journaled
<1>1. /\ Held /\ SameSettings(disk, disk') /\ disk'.backend \in {disk.backend, Backend(tx.kind)}
      /\ Off(disk) /\ tx.pc = "activate"
  BY ActivateDoes, BackendHeld DEF Backend, Backends, JInv, OffOK
<1>2. Onward
  BY ActivateDoes
     DEF JInv, FlagsOK, Onward, Goes, Aborts, Aborting, Same, Flags, Late, Handle, PastRead, Forward, Undo,
         Restore
<1>3. CASE disk'.backend = disk.backend
  BY <1>1, <1>2, <1>3, HeldSafe
<1>4. CASE disk'.backend = Backend(tx.kind)
  <2>1. /\ tx.kind = "file" => disk.path = tx.n
        /\ tx.kind = "webdav" => disk.webdav = tx.n
        /\ tx.kind = "selfhosted" => disk.cloud = tx.n /\ disk.provider = "selfhosted"
        /\ tx.kind \in {"dropbox", "kept"} => disk.provider = "dropbox"
    <3>1. Settings(disk) = Expected
      BY <1>1 DEF JInv, ReadOK
    <3>2. /\ tx.kind = "file" => Expected.path = tx.n
          /\ tx.kind = "webdav" => Expected.webdav = tx.n
          /\ tx.kind = "selfhosted" => Expected.cloud = tx.n /\ Expected.provider = "selfhosted"
          /\ tx.kind \in {"dropbox", "kept"} => Expected.provider = "dropbox"
      BY DEF Expected, Slots, Writes, Value
    <3> QED
      BY <3>1, <3>2, SettingsTyped DEF JInv, TypedRest
  <2>2. tx.kind = "dropbox" => disk.tokens = tx.n /\ tx.promoted
    BY <1>1 DEF JInv, JournalOK, FlagsOK, Handle
  <2>3. tx.kind \in CandidateKinds
    BY DEF JInv, TypedTx, Transactions
  <2>4. Transport(disk') = Probe
    BY <1>1, <1>4, <2>1, <2>2, <2>3
       DEF Transport, Probe, Backend, CandidateKinds, SameSettings, Held
  <2>5. ActiveIsProven' /\ ProbeOK'
    BY <1>1, <1>2, <2>4 DEF AInv, ProbeOK, Probe, ActiveIsProven, Onward, Same, Held, Outside, Elsewhere
  <2>6. FoundOK' /\ Journaled
    BY <1>1, <1>2 DEF AInv, FoundOK, Journaled, Onward, Same, Held, Outside, Elsewhere
  <2>7. AwaitOK'
    <3>1. tx.promoted => tx'.pc \in Late /\ tx'.promoted
      BY ActivateDoes DEF Goes, Aborts, Aborting, Flags, Late
    <3>2. ~tx.promoted => ~disk.journal.open /\ staged.phase # "promoted"
      BY <1>1 DEF JInv, JournalOK, FlagsOK
    <3> QED
      BY <1>1, <1>2, <3>1, <3>2 DEF AInv, AwaitOK, Held, Outside, Onward, Promotion
  <2> QED
    BY <2>5, <2>6, <2>7 DEF AInv
<1> QED
  BY <1>1, <1>3, <1>4

LEMMA FinalizeCommittedSafe == ASSUME JInv, AInv, FinalizeCommitted PROVE AInv' /\ Journaled
<1>1. PICK a \in Finalize(disk, staged, tx.n) : Take(a)
  BY FinalizeCommittedDoes
<1>2. tx.n \in Numbers
  BY FinalizeCommittedDoes DEF JInv, TypedTx, FlagsOK, Handle
<1>3. /\ Answers(disk, staged, a) /\ a.disk.tokens = disk.tokens /\ a.disk.backend = disk.backend
      /\ a.disk.journal = disk.journal \/ (Committed(disk) /\ ~a.disk.journal.open)
  BY <1>1, <1>2, FinalizeDoes DEF JInv, TypedRest
<1>4. disk' = a.disk /\ SameSettings(disk, disk')
  BY <1>1, <1>3, Taken
<1>5. pending' = 0 /\ proven' = proven /\ tx'.pc = "idle" /\ ~tx'.promoted
  BY FinalizeCommittedDoes DEF Ends, Elsewhere
<1>6. ProbeOK' /\ FoundOK' /\ AwaitOK'
  BY <1>5 DEF ProbeOK, FoundOK, AwaitOK, PastRead, Forward, Undo, Restore
<1>7. ActiveIsProven'
  BY <1>3, <1>4, <1>5, SameTransport DEF AInv, ActiveIsProven, Off
<1>8. Journaled
  BY <1>3, <1>4 DEF Journaled, JInv, Matched, Committed, Off
<1> QED
  BY <1>6, <1>7, <1>8 DEF AInv

LEMMA DiscardCandidateSafe == ASSUME JInv, AInv, DiscardCandidate PROVE AInv' /\ Journaled
<1>1. PICK a \in Discard(disk, staged) : Take(a) /\ pending' = IF a.ok THEN 0 ELSE pending
  BY DiscardCandidateDoes
<1>2. Answers(disk, staged, a) /\ a.disk = disk /\ a.staged \in {staged, NoEntry}
  BY <1>1, DiscardDoes DEF JInv, TypedRest
<1>3. /\ disk' = disk /\ staged' \in {staged, NoEntry} /\ pending' \in {0, pending} /\ proven' = proven
      /\ NoEntry.phase = "none"
  BY <1>1, <1>2, Taken, DiscardCandidateDoes DEF Elsewhere, NoEntry
<1>4. tx.pc = "discard" /\ Goes("off") /\ ~tx.promoted
  BY DiscardCandidateDoes DEF JInv, FlagsOK, Promotion, Restore
<1>5. ProbeOK' /\ ActiveIsProven' /\ Journaled
  BY <1>3, <1>4 DEF AInv, ProbeOK, Probe, ActiveIsProven, Journaled, Goes, Same
<1>6. AwaitOK'
  BY <1>3, <1>4 DEF AInv, AwaitOK, Goes, Flags
<1>7. FoundOK'
  BY <1>3, <1>4 DEF AInv, FoundOK, Goes, Same, Flags, PastRead, Undo
<1> QED
  BY <1>5, <1>6, <1>7 DEF AInv

\* The step that needs sync to be off: it puts the bundle back under it.
LEMMA RollbackCredentialsSafe ==
    ASSUME JInv, AInv, ~GaveUp, RollbackCredentials PROVE AInv' /\ Journaled
<1>1. /\ tx.pc = "rollback" /\ proven' = proven
      /\ \/ tx'.pc = "idle" /\ ~tx'.promoted
         \/ tx'.pc = "restoreOff" /\ Same(tx') /\ tx'.promoted = tx.promoted
  <2>1. tx.pc = "rollback" /\ proven' = proven
    BY RollbackCredentialsDoes DEF Elsewhere
  <2>2. Ends \/ \E bad : Restores(bad)
    BY RollbackCredentialsDoes, Zenon
  <2> QED
    BY <2>1, <2>2 DEF Ends, Restores
<1>2. CASE tx.promoted
  <2>1. PICK a \in Rollback(disk, staged) :
          /\ Take(a) /\ a.ok \in BOOLEAN /\ pending' = IF a.ok THEN 0 ELSE pending
          /\ IF tx.offError THEN Ends ELSE Restores(~(a.ok))
    BY <1>2, RollbackCredentialsDoes
  <2>2. Off(disk)
    BY <1>1, <1>2 DEF GaveUp, JInv, OffOK
  <2>3. /\ Answers(disk, staged, a)
        /\ \/ ~a.ok /\ a.staged = staged /\ (a.disk = disk \/ Recovered(disk, a.disk))
           \/ a.staged = NoEntry /\ Recovered(disk, a.disk) /\ ~a.disk.journal.open
           \/ /\ staged.phase = "promoted" /\ a.staged = (IF a.ok THEN NoEntry ELSE staged)
              /\ ~a.disk.journal.open /\ a.disk.tokens = staged.previous
    BY <2>1, RollbackDoes DEF JInv, TypedRest
  <2>4. disk' = a.disk /\ staged' = a.staged /\ Off(disk') /\ pending' \in {0, pending}
    BY <2>1, <2>2, <2>3, Taken DEF Off
  <2>5. ActiveIsProven' /\ ProbeOK'
    BY <1>1, <1>2, <2>4
       DEF AInv, ActiveIsProven, ProbeOK, Probe, Same, JInv, FlagsOK, Handle
  <2>6. Settled(disk) = disk.tokens \/ disk.journal.open
    BY DEF Settled
  <2>7. pending # 0
    BY <1>1, <1>2 DEF AInv, AwaitOK, Promotion
  <2>8. staged.phase = "promoted" => staged.previous = Settled(disk)
    BY <2>7 DEF JInv, EntryOK, AInv, AwaitOK, Settled
  <2>9. Journaled
    <3>1. CASE a.disk = disk
      BY <2>4, <3>1 DEF Journaled
    <3>2. CASE Recovered(disk, a.disk)
      BY <2>2, <2>4, <3>2 DEF Journaled, Recovered
    <3>3. CASE a.disk.tokens = Settled(disk)
      BY <2>4, <3>3 DEF Journaled, Settled
    <3> QED
      BY <2>3, <2>8, <3>1, <3>2, <3>3
  <2>10. AwaitOK'
    <3>1. ASSUME pending' # 0, staged'.phase = "promoted", ~disk'.journal.open
          PROVE  disk'.tokens = staged'.previous
      <4>1. staged' = staged
        BY <2>3, <2>4, <3>1 DEF NoEntry
      <4>2. CASE a.disk = disk
        BY <2>4, <2>7, <3>1, <4>1, <4>2 DEF AInv, AwaitOK
      <4>3. CASE Recovered(disk, a.disk)
        <5>1. disk'.tokens = Settled(disk)
          BY <2>2, <2>4, <3>1, <4>3 DEF Recovered, Settled
        <5> QED
          BY <2>8, <3>1, <4>1, <5>1
      <4>4. CASE a.disk.tokens = staged.previous
        BY <2>4, <4>1, <4>4
      <4> QED
        BY <2>3, <4>2, <4>3, <4>4
    <3> QED
      BY <1>1, <2>4, <3>1 DEF AwaitOK, Promotion
  <2>11. FoundOK'
    <3>1. SUFFICES ASSUME tx'.pc = "restoreOff", tx.previous.backend # "off" PROVE FoundOK'
      BY <1>1 DEF FoundOK, PastRead, Forward, Undo, Restore, Same
    <3>2. tx'.promoted /\ Same(tx') /\ (tx'.credError <=> ~a.ok) /\ tx'.pc \in Restore
      BY <1>1, <1>2, <2>1, <3>1 DEF Restores, Ends, Restore
    <3>3. Settled(disk) = tx.previous.tokens /\ Transport(Old(tx.previous)) \in proven
      BY <1>1, <1>2, <3>1 DEF AInv, FoundOK, Settled, PastRead, Undo, Restore
    <3>4. a.ok => disk'.tokens = Settled(disk)
      BY <2>2, <2>3, <2>4, <2>8 DEF Recovered, Settled
    <3> QED
      BY <1>1, <3>2, <3>3, <3>4 DEF FoundOK, Same
  <2> QED
    BY <2>5, <2>9, <2>10, <2>11 DEF AInv
<1>3. CASE ~tx.promoted
  <2>1. UNCHANGED <<disk, staged, pending>> /\ (Ends \/ Restores(FALSE))
    BY <1>3, RollbackCredentialsDoes
  <2>2. ActiveIsProven' /\ ProbeOK' /\ Journaled
    BY <1>1, <2>1 DEF AInv, ActiveIsProven, ProbeOK, Probe, Same, Journaled
  <2>3. AwaitOK'
    BY <1>1, <1>3, <2>1 DEF AInv, AwaitOK
  <2>4. FoundOK'
    BY <1>1, <1>3, <2>1 DEF AInv, FoundOK, Same, PastRead, Forward, Undo, Restore
  <2> QED
    BY <2>2, <2>3, <2>4 DEF AInv
<1> QED
  BY <1>2, <1>3

LEMMA ReactivateSafe == ASSUME JInv, AInv, Reactivate PROVE AInv' /\ Journaled
<1>1. tx.pc = "reactivate" /\ Off(disk) /\ tx.previous \in Found /\ Settings(disk) = tx.previous.settings
  BY ReactivateDoes DEF JInv, OffOK, ReadOK, TypedTx, PastRead, Restore
<1>2. CASE Charged /\ UNCHANGED <<disk, staged>> /\ Ends
  BY <1>1, <1>2, ReactivateDoes, ReadHeld, HeldSafe DEF ReadFrame, Ends, SameSettings, Late
<1>3. CASE /\ ~tx.credError /\ tx.previous.backend # "off" /\ Goes("reactivated")
           /\ \E ok \in BOOLEAN : WroteBackend(tx.previous.backend, ok)
  <2>1. /\ Held /\ SameSettings(disk, disk') /\ disk'.backend \in {disk.backend, tx.previous.backend}
    BY <1>1, <1>3, ReactivateDoes, BackendHeld DEF Found
  <2>2. Onward
    BY <1>1, <1>3 DEF Onward, Goes, Flags, PastRead, Restore, Late
  <2>3. CASE disk'.backend = disk.backend
    BY <2>1, <2>2, <2>3, HeldSafe
  <2>4. CASE disk'.backend = tx.previous.backend
    <3>1. disk.tokens = tx.previous.tokens /\ Transport(Old(tx.previous)) \in proven
      BY <1>1, <1>3 DEF AInv, FoundOK, PastRead, Restore
    <3>2. pending # 0 => ~disk.journal.open /\ staged.phase # "promoted"
      BY <1>1, <1>3 DEF AInv, FoundOK, JInv, JournalOK, PastRead, Restore
    <3>3. /\ Old(tx.previous).backend = disk'.backend /\ Old(tx.previous).tokens = disk'.tokens
          /\ SameSettings(disk', Old(tx.previous))
      BY <1>1, <2>1, <2>4, <3>1, SettingsTyped DEF Old, SameSettings, Held, JInv, TypedRest
    <3>4. ActiveIsProven'
      BY <2>1, <3>1, <3>3, SameTransport DEF ActiveIsProven, Held, Outside, Elsewhere
    <3>5. ProbeOK' /\ FoundOK' /\ Journaled
      BY <1>1, <2>1, <2>2
         DEF AInv, ProbeOK, Probe, FoundOK, Journaled, Onward, Same, Held, Outside, Elsewhere
    <3>6. AwaitOK'
      BY <1>3, <2>1, <3>2 DEF AInv, AwaitOK, Held, Outside, Goes, Promotion
    <3> QED
      BY <3>4, <3>5, <3>6 DEF AInv
  <2> QED
    BY <2>1, <2>3, <2>4
<1> QED
  BY <1>2, <1>3, ReactivateDoes

LEMMA ConnectDropboxSafe == ASSUME JInv, AInv, ConnectDropbox PROVE AInv' /\ Journaled
<1>1. PICK a \in Stage(disk, staged, count + 1) : Take(a) /\ pending' = (IF a.ok THEN count + 1 ELSE 0)
  BY DEF ConnectDropbox
<1>2. /\ tx.pc = "idle" /\ tx' = tx /\ proven' = proven /\ pending = 0 /\ ~tx.promoted
      /\ count + 1 \in Numbers
  BY SyncConfigurationAssumption, IdleIs DEF ConnectDropbox, Idle, JInv, TypedRest, Numbers
<1>3. /\ Answers(disk, staged, a) /\ Recovered(disk, a.disk)
      /\ IF a.ok THEN ~a.disk.journal.open /\ a.staged = Candidate(count + 1) ELSE a.staged = staged
  BY <1>1, <1>2, StageDoes DEF JInv, TypedRest
<1>4. disk' = a.disk /\ staged' = a.staged
  BY <1>1, <1>3, Taken
<1>5. ActiveIsProven'
  <2>1. SUFFICES ASSUME ~Off(disk') PROVE Transport(disk') = Transport(disk) /\ ~Off(disk)
    BY <1>2 DEF AInv, ActiveIsProven
  <2> QED
    BY <1>3, <1>4, <2>1, SameTransport DEF Recovered, Off
<1>6. Journaled
  BY <1>3, <1>4 DEF Journaled, Recovered, JInv, Matched
<1>7. AwaitOK'
  BY <1>1, <1>2, <1>3, <1>4 DEF AwaitOK, Candidate
<1>8. ProbeOK' /\ FoundOK'
  BY <1>2 DEF ProbeOK, FoundOK, PastRead, Forward, Undo, Restore
<1> QED
  BY <1>5, <1>6, <1>7, <1>8 DEF AInv

LEMMA ResolvePendingSafe == ASSUME JInv, AInv, ResolvePending PROVE AInv' /\ Journaled
<1>1. PICK a \in (IF staged.phase = "promoted" THEN Rollback(disk, staged) ELSE Discard(disk, staged)) :
        Take(a) /\ pending' = (IF a.ok THEN 0 ELSE pending)
  BY DEF ResolvePending
<1>2. tx.pc = "idle" /\ tx' = tx /\ proven' = proven /\ pending # 0 /\ ~tx.promoted /\ pending' \in {0, pending}
  BY <1>1, IdleIs DEF ResolvePending, Idle
<1>3. /\ Answers(disk, staged, a)
      /\ \/ a.disk = disk /\ a.staged \in {staged, NoEntry}
         \/ Recovered(disk, a.disk) /\ a.staged \in {staged, NoEntry}
         \/ /\ staged.phase = "promoted" /\ Off(disk) /\ a.staged \in {staged, NoEntry}
            /\ ~a.disk.journal.open /\ a.disk.tokens = staged.previous
  <2>1. CASE staged.phase = "promoted"
    BY <1>1, <2>1, RollbackDoes DEF JInv, TypedRest
  <2>2. CASE staged.phase # "promoted"
    BY <1>1, <2>2, DiscardDoes DEF JInv, TypedRest
  <2> QED
    BY <2>1, <2>2
<1>4. disk' = a.disk /\ staged' = a.staged /\ disk'.backend \in {disk.backend, "off"}
  BY <1>1, <1>3, Taken
<1>5. ProbeOK' /\ FoundOK'
  BY <1>2 DEF ProbeOK, FoundOK, PastRead, Forward, Undo, Restore
<1>6. CASE a.disk = disk /\ a.staged \in {staged, NoEntry}
  BY <1>2, <1>4, <1>5, <1>6 DEF AInv, AwaitOK, ActiveIsProven, Journaled, NoEntry
<1>7. CASE Recovered(disk, a.disk) /\ a.staged \in {staged, NoEntry}
  BY <1>2, <1>4, <1>7, RecoveredIdle
<1>8. CASE /\ staged.phase = "promoted" /\ Off(disk) /\ a.staged \in {staged, NoEntry}
           /\ ~a.disk.journal.open /\ a.disk.tokens = staged.previous
  <2>1. Off(disk') /\ NoEntry.phase = "none"
    BY <1>4, <1>8 DEF Off, NoEntry
  <2>2. AwaitOK' /\ ActiveIsProven'
    BY <1>2, <1>4, <1>8, <2>1 DEF AwaitOK, ActiveIsProven
  <2>3. staged.previous = IF disk.journal.open THEN disk.journal.previous ELSE disk.tokens
    BY <1>2, <1>8 DEF JInv, EntryOK, AInv, AwaitOK
  <2>4. Journaled
    BY <1>4, <1>8, <2>3 DEF Journaled
  <2> QED
    BY <1>5, <2>2, <2>4 DEF AInv
<1> QED
  BY <1>3, <1>6, <1>7, <1>8

LEMMA AccessTokenSafe == ASSUME JInv, AInv, AccessToken PROVE AInv' /\ Journaled
<1>1. PICK a \in Recover(disk, staged) : Take(a)
  BY DEF AccessToken
<1>2. a.staged = staged /\ Recovered(disk, a.disk)
  BY <1>1, RecoverDoes DEF JInv, TypedRest
<1>3. disk' = a.disk /\ staged' = staged
  BY <1>1, <1>2 DEF Take
<1> QED
  BY <1>2, <1>3, RecoveredIdle, IdleIs DEF AccessToken, Idle

LEMMA RetryFinalizeSafe == ASSUME JInv, AInv, RetryFinalize PROVE AInv' /\ Journaled
<1>1. PICK a \in Finalize(disk, staged, cleanup) : Take(a)
  BY DEF RetryFinalize
<1>2. tx.pc = "idle" /\ tx' = tx /\ proven' = proven /\ pending' = pending /\ ~tx.promoted
  BY IdleIs DEF RetryFinalize, Idle
<1>3. /\ Answers(disk, staged, a) /\ a.disk.tokens = disk.tokens /\ a.disk.backend = disk.backend
      /\ a.disk.journal = disk.journal \/ (Committed(disk) /\ ~a.disk.journal.open)
      /\ a.staged \in {staged, NoEntry}
  BY <1>1, FinalizeDoes DEF JInv, TypedRest
<1>4. disk' = a.disk /\ staged' = a.staged /\ SameSettings(disk, disk')
  BY <1>1, <1>3, Taken
<1>5. ProbeOK' /\ FoundOK'
  BY <1>2 DEF ProbeOK, FoundOK, PastRead, Forward, Undo, Restore
<1>6. AwaitOK'
  BY <1>2, <1>3, <1>4 DEF AInv, AwaitOK, Committed, Off, NoEntry
<1>7. ActiveIsProven'
  BY <1>2, <1>3, <1>4, SameTransport DEF AInv, ActiveIsProven, Off
<1>8. Journaled
  BY <1>3, <1>4 DEF Journaled, JInv, Matched, Committed, Off
<1> QED
  BY <1>5, <1>6, <1>7, <1>8 DEF AInv

LEMMA SwitchOffSafe == ASSUME JInv, AInv, SwitchOff PROVE AInv' /\ Journaled
  BY SwitchOffDoes, RecoveredIdle, IdleIs

LEMMA DisconnectDropboxSafe == ASSUME JInv, AInv, DisconnectDropbox PROVE AInv' /\ Journaled
<1>1. CASE Recovered(disk, disk')
  BY <1>1, DisconnectDropboxDoes, RecoveredIdle, IdleIs
<1>2. CASE ~disk'.journal.open /\ ~Committed(disk') /\ disk'.tokens = 0 /\ staged'.phase # "promoted"
  <2>1. /\ tx.pc = "idle" /\ tx' = tx /\ ~tx.promoted /\ proven' = proven
        /\ SameSettings(disk, disk') /\ disk'.backend \in {disk.backend, "off"}
    BY DisconnectDropboxDoes, IdleIs
  <2>2. ProbeOK' /\ FoundOK' /\ AwaitOK'
    BY <1>2, <2>1 DEF ProbeOK, FoundOK, AwaitOK, PastRead, Forward, Undo, Restore
  <2>3. ~Off(disk') => Transport(disk') = Transport(disk) /\ ~Off(disk)
    BY <1>2, <2>1 DEF Transport, Committed, SameSettings, Off
  <2> QED
    BY <1>2, <2>1, <2>2, <2>3 DEF AInv, ActiveIsProven, Journaled
<1> QED
  BY <1>1, <1>2, DisconnectDropboxDoes

LEMMA StopSafe == ASSUME JInv, AInv, Reload \/ Crash PROVE AInv' /\ Journaled
<1>1. disk' = disk /\ proven' = proven /\ pending' = 0 /\ tx' = NoTx
  BY DEF Reload, Crash
<1> QED
  BY <1>1, NoTxHas
     DEF AInv, ProbeOK, FoundOK, AwaitOK, ActiveIsProven, Journaled, PastRead, Forward, Undo, Restore

LEMMA StartSafe == ASSUME JInv, AInv, Start PROVE AInv' /\ Journaled
<1>1. PICK a \in Recover(disk, staged) : Take(a)
  BY DEF Start
<1>2. a.staged = staged /\ Recovered(disk, a.disk)
  BY <1>1, RecoverDoes DEF JInv, TypedRest
<1>3. disk' = a.disk /\ staged' = staged
  BY <1>1, <1>2 DEF Take
<1>4. tx.pc = "idle"
  BY DEF Start, JInv, UpOK
<1> QED
  BY <1>2, <1>3, <1>4, RecoveredIdle, IdleIs DEF Start

LEMMA AInvInit == ASSUME Init PROVE AInv
<1>1. ProbeOK /\ FoundOK /\ AwaitOK
  BY NoTxHas DEF Init, ProbeOK, FoundOK, AwaitOK, PastRead, Forward, Undo, Restore
<1>2. ActiveIsProven
  BY DEF Init, ActiveIsProven, Off
<1> QED
  BY <1>1, <1>2 DEF AInv

LEMMA AInvNext == ASSUME JInv, AInv, ~GaveUp, [Next]_vars PROVE AInv' /\ Journaled
<1>1. CASE UNCHANGED vars
  BY <1>1 DEF vars, AInv, ProbeOK, Probe, FoundOK, AwaitOK, ActiveIsProven, Journaled
<1>2. CASE Transaction
  BY <1>2, RecoverFirstSafe, ReadPreviousSafe, EnsureDisabledSafe, CheckDisabledSafe,
     WriteTransportSafe, VerifyTransportSafe, PromoteCredentialsSafe, VerifyPromotedSafe,
     ActivateSafe, VerifyActiveSafe, FinalizeCommittedSafe, DiscardCandidateSafe, CheckIsOffSafe,
     OffAgainSafe, RollbackCredentialsSafe, CheckRestoreIsOffSafe, RestoreSettingSafe,
     VerifyRestoredSafe, ReactivateSafe, VerifyReactivatedSafe, KeepOffSafe DEF Transaction
<1>3. CASE Next /\ ~Transaction
  BY <1>3, BeginSafe, ConnectDropboxSafe, ResolvePendingSafe, AccessTokenSafe, RetryFinalizeSafe,
     SwitchOffSafe, DisconnectDropboxSafe, StopSafe, StartSafe DEF Next
<1> QED
  BY <1>1, <1>2, <1>3

\* It takes three faults in a transaction to give up with sync switched on:
\* the activation, or reading it back, and both attempts to undo it.
THEOREM GivingUpTakesThree == Spec => [](GaveUp => faults >= 3)
<1>1. ASSUME JInv PROVE GaveUp => faults >= 3
  BY <1>1 DEF JInv, FaultsOK, GaveUp
<1> QED
  BY <1>1, JInvAlways, PTL

\* Whenever sync is switched on, it runs a transport with exactly the setting
\* and the bundle that a probe has shown to work, as long as no transaction gives
\* up with promoted credentials and sync on: for any number of candidates,
\* failures elsewhere, reloads and crashes.
THEOREM ActiveUnlessGivenUp == Spec /\ []~GaveUp => []ActiveIsProven
<1>1. ASSUME AInv PROVE ActiveIsProven
  BY <1>1 DEF AInv
<1>2. Spec /\ []~GaveUp => []AInv
  BY AInvInit, AInvNext, JInvAlways, PTL DEF Spec
<1> QED
  BY <1>1, <1>2, PTL

\* Under the same condition the bundle in use is replaced, and the journal
\* closed, only as CredentialsJournaled says.
THEOREM JournaledUnlessGivenUp == Spec /\ []~GaveUp => CredentialsJournaled
<1>1. Spec /\ []~GaveUp => []AInv
  BY AInvInit, AInvNext, JInvAlways, PTL DEF Spec
<1>2. ASSUME JInv, AInv, ~GaveUp, [Next]_vars PROVE [Journaled]_vars
  BY <1>2, AInvNext
<1> QED
  BY <1>1, <1>2, JInvAlways, PTL DEF Spec, CredentialsJournaled, Journaled

\* With at most two faults, as in the runs, nothing is given up, and sync runs
\* only what was proven.
THEOREM ActiveWithinTwoFaults == ASSUME MaxFaults <= 2 PROVE Spec => []ActiveIsProven
<1>1. ASSUME JInv PROVE ~GaveUp
  BY <1>1, SyncConfigurationAssumption DEF JInv, FaultsOK, GaveUp, TypedRest
<1> QED
  BY <1>1, JInvAlways, ActiveUnlessGivenUp, PTL

\* Likewise for the journal of the credentials.
THEOREM JournaledWithinTwoFaults == ASSUME MaxFaults <= 2 PROVE Spec => CredentialsJournaled
<1>1. ASSUME JInv PROVE ~GaveUp
  BY <1>1, SyncConfigurationAssumption DEF JInv, FaultsOK, GaveUp, TypedRest
<1> QED
  BY <1>1, JInvAlways, JournaledUnlessGivenUp, PTL

-----------------------------------------------------------------------------
(* A transaction that ends as restored has restored what it found.          *)

\* A journal that is open with the new bundle in use.
Torn(d) == d.journal.open /\ d.tokens # d.journal.previous

\* A transaction is about to end as restored before it has promoted anything,
\* over the journal of an earlier one that was not rolled back: the bundle in
\* use is still that one's, not the one a recovery brings back.
TornUndone == tx.pc = "reactivate" /\ ~tx.promoted /\ tx.previous.backend = "off" /\ Torn(disk)

\* The bundle a recovery brings back is the one the transaction has found.
SettledOK == tx.pc \in PastRead /\ tx.previous.backend = "off" => Settled(disk) = tx.previous.tokens

\* An outcome is that of the last transaction, and only a configuration with
\* sync on whose bundle is restored is switched on again.
OutcomeOK ==
    /\ tx.pc # "idle" => tx.outcome = "none"
    /\ tx.pc = "reactivated" => ~tx.credError /\ tx.previous.backend # "off"

\* What was read back before the promotion is not disturbed by it.
VerifiedOK == tx.pc \in {"promote", "promoted"} => Settings(disk) = Expected

\* Nothing has failed in the transaction so far, as far as the settings show.
Unspoilt ==
    /\ tx.pc \in {"disable", "disabled", "write"} => Settings(disk) = tx.previous.settings
    /\ tx.pc = "disabled" => Off(disk)
    /\ tx.pc = "verify" => Settings(disk) = Expected

\* The faults behind a torn journal: one undoes its promotion and one the
\* rollback, and a third undoes the next transaction that finds it.
TornOK ==
    Torn(disk) =>
      /\ pending # 0 /\ tx.pc \in {"idle", "recover", "read"} => faults >= 2
      /\ ~tx.promoted /\ tx.pc \in Forward => faults >= 2 /\ (Unspoilt \/ faults >= 3)
      /\ ~tx.promoted /\ tx.pc \in Undo \cup Restore => faults >= 3
      /\ tx.promoted /\ tx.pc \in Forward =>
           staged.phase = "promoted" /\ (tx.pc = "active" /\ Off(disk) => faults >= 1)
      /\ tx.promoted /\ tx.pc \in Undo => faults >= 1 /\ (staged.phase = "promoted" \/ faults >= 2)
      /\ tx.promoted /\ tx.pc \in Restore => faults >= 2

CountInv == VerifiedOK /\ TornOK

LEMMA SettledRecovered ==
    ASSUME NEW d, NEW e, Recovered(d, e), Off(d) PROVE Settled(e) = Settled(d)
  BY DEF Recovered, Settled

\* A recovery tears no journal.
LEMMA TornRecovered ==
    ASSUME NEW d, NEW e, Recovered(d, e), Torn(e) PROVE Torn(d)
  BY DEF Recovered, Torn

\* With sync off, a recovery without a fault closes the journal.
LEMMA RecoverCosts ==
    ASSUME NEW d, Off(d), NEW s, NEW a \in Recover(d, s), a.cost = 0
    PROVE  ~a.disk.journal.open
<1>1. ASSUME NEW e, a = Answer(FALSE, e, s, 1) PROVE FALSE
  BY <1>1 DEF Answer
<1>2. a = Answer(RecoverSettled(d)[1], RecoverSettled(d)[2], s, 0)
  <2>1. \/ a = Answer(RecoverSettled(d)[1], RecoverSettled(d)[2], s, 0)
        \/ \E e \in RecoverStopped(d) : a = Answer(FALSE, e, s, 1)
    BY DEF Recover
  <2> QED
    BY <1>1, <2>1
<1>3. a.disk = RecoverSettled(d)[2]
  BY <1>2 DEF Answer
<1>4. ~Committed(d) /\ d.backend # "cloud"
  BY DEF Committed, Off
<1>5. ~Cleared(Reverted(d)).journal.open
  BY DEF Cleared, Reverted, NoJournal
<1>6. RecoverSettled(d)[2] = IF ~d.journal.open THEN d ELSE Cleared(Reverted(d))
  BY <1>4 DEF RecoverSettled
<1> QED
  BY <1>3, <1>5, <1>6

\* A promotion that fails without a fault leaves no torn journal.
LEMMA PromoteCosts ==
    ASSUME NEW d \in Disks, Off(d), NEW s \in Entries, NEW a \in Promote(d, s), ~a.ok, a.cost = 0
    PROVE  ~a.disk.journal.open
<1>1. PICK r \in Recover(d, s) :
        IF ~r.ok \/ ~Off(r.disk) \/ s.phase # "candidate" THEN a = [r EXCEPT !.ok = FALSE]
        ELSE \E w \in {[r.disk EXCEPT !.journal = JournalOf(r.disk, s.tokens)]}, p \in {Promoted(s, r.disk.tokens)} :
               a \in {Answer(TRUE, [w EXCEPT !.tokens = s.tokens], p, r.cost),
                      Answer(FALSE, r.disk, s, 1), Answer(FALSE, w, s, 1), Answer(FALSE, w, p, 1),
                      Answer(FALSE, [w EXCEPT !.tokens = s.tokens], p, 1)}
  BY DEF Promote
<1>2. ASSUME NEW e, NEW q, a = Answer(FALSE, e, q, 1) PROVE FALSE
  BY <1>2 DEF Answer
<1>3. ASSUME NEW e, NEW q, NEW c, a = Answer(TRUE, e, q, c) PROVE FALSE
  BY <1>3 DEF Answer
<1>4. a = [r EXCEPT !.ok = FALSE]
  <2>1. CASE ~(~r.ok \/ ~Off(r.disk) \/ s.phase # "candidate")
    <3> DEFINE w == [r.disk EXCEPT !.journal = JournalOf(r.disk, s.tokens)]
               p == Promoted(s, r.disk.tokens)
    <3>1. a \in {Answer(TRUE, [w EXCEPT !.tokens = s.tokens], p, r.cost),
                 Answer(FALSE, r.disk, s, 1), Answer(FALSE, w, s, 1), Answer(FALSE, w, p, 1),
                 Answer(FALSE, [w EXCEPT !.tokens = s.tokens], p, 1)}
      BY <1>1, <2>1
    <3> HIDE DEF w, p
    <3> QED
      BY <1>2, <1>3, <3>1, Zenon
  <2>2. CASE ~r.ok \/ ~Off(r.disk) \/ s.phase # "candidate"
    BY <1>1, <2>2, Zenon
  <2> QED
    BY <2>1, <2>2
<1>5. a.disk = r.disk /\ a.cost = r.cost
  BY <1>4, RecoverDoes DEF Matched
<1> QED
  BY <1>5, RecoverCosts

\* So does a rollback of a promotion.
LEMMA RollbackCosts ==
    ASSUME NEW d \in Disks, Off(d), NEW s \in Entries, s.phase = "promoted", NEW a \in Rollback(d, s),
           a.cost = 0
    PROVE  ~a.disk.journal.open
<1>1. PICK r \in Recover(d, s) :
        IF ~r.ok THEN a = r
        ELSE \E w \in {[r.disk EXCEPT !.tokens = s.previous]} :
               a \in {Answer(TRUE, w, NoEntry, r.cost), Answer(FALSE, r.disk, s, 1), Answer(FALSE, w, s, 1)}
  BY DEF Rollback
<1>2. ASSUME NEW e, NEW q, a = Answer(FALSE, e, q, 1) PROVE FALSE
  BY <1>2 DEF Answer
<1>3. CASE a = r
  BY <1>3, RecoverCosts
<1>4. CASE r.ok /\ a = Answer(TRUE, [r.disk EXCEPT !.tokens = s.previous], NoEntry, r.cost)
  <2>1. ~r.disk.journal.open /\ r.disk \in Disks
    BY <1>4, RecoverDoes DEF Matched, Recovered
  <2>2. a.disk = [r.disk EXCEPT !.tokens = s.previous]
    BY <1>4 DEF Answer
  <2> QED
    BY <2>1, <2>2 DEF Disks
<1>5. a = r \/ (r.ok /\ a = Answer(TRUE, [r.disk EXCEPT !.tokens = s.previous], NoEntry, r.cost))
  BY <1>1, <1>2, Zenon
<1> QED
  BY <1>3, <1>4, <1>5, Zenon

LEMMA ExpectedSame == ASSUME Same(tx') PROVE Expected' = Expected
  BY DEF Same, Expected

\* What a step of the transaction does that meets no fault and finds what the
\* steps before it have left.
LEMMA CheckDisabledCosts ==
    ASSUME JInv, CheckDisabled, faults' = faults, Off(disk), Settings(disk) = tx.previous.settings
    PROVE  tx'.pc = "write"
<1>1. tx \in Transactions /\ faults' # faults + 1
  BY DEF JInv, TypedTx, TypedRest
<1>2. tx' = [At("write") EXCEPT !.todo = Writes(tx.kind)]
  BY <1>1 DEF CheckDisabled, Read, Matches, Off
<1> QED
  BY <1>1, <1>2 DEF At, Transactions

LEMMA VerifyTransportCosts ==
    ASSUME JInv, VerifyTransport, faults' = faults, Off(disk), Settings(disk) = Expected
    PROVE  tx'.pc \in {"promote", "activate"}
<1>1. tx \in Transactions /\ faults' # faults + 1
  BY DEF JInv, TypedTx, TypedRest
<1>2. tx' = At(IF Handle(tx.kind) THEN "promote" ELSE "activate")
  BY <1>1 DEF VerifyTransport, Read, Matches, Off
<1> QED
  BY <1>1, <1>2 DEF At, Transactions

LEMMA VerifyPromotedCosts ==
    ASSUME JInv, VerifyPromoted, faults' = faults, Off(disk), Settings(disk) = Expected
    PROVE  tx'.pc = "activate"
<1>1. tx \in Transactions /\ faults' # faults + 1
  BY DEF JInv, TypedTx, TypedRest
<1>2. tx' = At("activate")
  BY <1>1 DEF VerifyPromoted, Read, Matches, Off
<1> QED
  BY <1>1, <1>2 DEF At, Transactions

LEMMA WriteTransportCosts ==
    ASSUME JInv, WriteTransport, tx.kind = "dropbox", faults' = faults,
           Settings(disk) = tx.previous.settings
    PROVE  tx'.pc = "verify" /\ Settings(disk') = Expected
<1>1. tx \in Transactions /\ faults \in Nat /\ tx.pc = "write" /\ disk \in Disks /\ tx.previous \in Found
  BY DEF JInv, TypedTx, TypedRest, WriteTransport, PastRead, Forward
<1>2. tx.todo = <<"provider">>
  BY <1>1 DEF JInv, TypedTx, Writes
<1>3. Head(tx.todo) = "provider" /\ Len(tx.todo) = 1
  BY <1>2
<1>4. PICK a \in Written("provider", "dropbox") :
        /\ Take(a)
        /\ tx' = IF ~(a.ok) THEN [Aborted EXCEPT !.touched = @ \cup {"provider"}]
                 ELSE [At("verify") EXCEPT !.touched = @ \cup {"provider"}, !.todo = Tail(@)]
  BY <1>3 DEF WriteTransport, Write, Value
<1> DEFINE w == [disk EXCEPT !.provider = "dropbox"]
<1>5. \/ a = Answer(TRUE, w, staged, 0) \/ a = Answer(TRUE, disk, staged, 1)
      \/ a = Answer(FALSE, disk, staged, 1) \/ a = Answer(FALSE, w, staged, 1)
  BY DEF Written, Compound
<1> HIDE DEF w
<1>6. ASSUME NEW o, NEW e, a = Answer(o, e, staged, 1) PROVE FALSE
  <2>1. a.cost = 1
    BY <1>6 DEF Answer
  <2> QED
    BY <1>1, <1>4, <2>1 DEF Take
<1>7. a = Answer(TRUE, w, staged, 0)
  BY <1>5, <1>6, Zenon
<1>8. a.ok /\ disk' = w
  BY <1>4, <1>7 DEF Answer, Take
<1>9. tx'.pc = "verify"
  BY <1>1, <1>4, <1>8 DEF At, Transactions
<1>10. Settings(w) = [tx.previous.settings EXCEPT !.provider = "dropbox"]
  <2>1. w \in Disks /\ w.path = disk.path /\ w.webdav = disk.webdav /\ w.cloud = disk.cloud
    BY <1>1 DEF w, Disks, Providers
  <2>2. w.provider = "dropbox"
    BY <1>1 DEF w, Disks
  <2>3. Settings(w) = [s \in Slots |-> IF s = "provider" THEN "dropbox" ELSE disk[s]]
    BY <2>1, <2>2 DEF Settings, Slots
  <2>4. [tx.previous.settings EXCEPT !.provider = "dropbox"]
          = [s \in Slots |-> IF s = "provider" THEN "dropbox" ELSE disk[s]]
    <3>1. tx.previous.settings = [s \in Slots |-> disk[s]]
      BY DEF Settings
    <3> QED
      BY <3>1 DEF Slots
  <2> QED
    BY <2>3, <2>4
<1>11. Expected = [tx.previous.settings EXCEPT !.provider = "dropbox"]
  <2>1. \A s \in Slots : (\E i \in DOMAIN Writes(tx.kind) : Writes(tx.kind)[i] = s) <=> s = "provider"
    BY DEF Writes, Slots
  <2>2. Expected = [s \in Slots |-> IF s = "provider" THEN "dropbox" ELSE tx.previous.settings[s]]
    BY <2>1 DEF Expected, Value
  <2>3. tx.previous.settings = [s \in Slots |-> disk[s]]
    BY DEF Settings
  <2> QED
    BY <2>2, <2>3 DEF Slots
<1> QED
  BY <1>8, <1>9, <1>10, <1>11

\* The steps that undo a transaction, or restore what it found.
LEMMA HeldTorn ==
    ASSUME JInv, CountInv, Held, tx'.promoted = tx.promoted,
           (tx.pc \in Undo /\ tx'.pc \in Undo) \/ (tx.pc \in Restore /\ tx'.pc \in Restore)
    PROVE  CountInv'
<1>1. faults' >= faults /\ faults \in Nat /\ faults' \in Nat
  BY DEF Held, Charged, JInv, TypedRest
<1>2. tx'.pc \notin Forward /\ tx'.pc \notin {"idle", "recover", "read", "promote", "promoted"}
  BY DEF Forward, Undo, Restore
<1>3. Torn(disk') <=> Torn(disk)
  BY DEF Torn, Held
<1>4. CASE tx.pc \in Undo /\ tx'.pc \in Undo
  <2>1. tx'.pc \notin Restore
    BY <1>4 DEF Undo, Restore
  <2>2. TornOK'
    BY <1>1, <1>2, <1>3, <1>4, <2>1 DEF CountInv, TornOK, Held
  <2> QED
    BY <1>2, <2>2 DEF CountInv, VerifiedOK
<1>5. CASE tx.pc \in Restore /\ tx'.pc \in Restore
  <2>1. tx'.pc \notin Undo
    BY <1>5 DEF Undo, Restore
  <2>2. TornOK'
    BY <1>1, <1>2, <1>3, <1>5, <2>1 DEF CountInv, TornOK, Held
  <2> QED
    BY <1>2, <2>2 DEF CountInv, VerifiedOK
<1> QED
  BY <1>4, <1>5

\* A transaction that ends, or another operation between transactions, with
\* two faults behind a journal that is torn.
LEMMA IdleTorn ==
    ASSUME tx'.pc = "idle", Torn(disk') /\ pending' # 0 => faults' >= 2 PROVE CountInv'
<1>1. tx'.pc \notin Forward \cup Undo \cup Restore
  BY DEF Forward, Undo, Restore
<1> QED
  BY <1>1 DEF CountInv, VerifiedOK, TornOK

LEMMA EndsTorn ==
    ASSUME JInv, CountInv, Held, tx.pc \in Restore \cup {"read"}, tx'.pc = "idle" PROVE CountInv'
<1>1. faults' >= faults /\ faults \in Nat /\ faults' \in Nat
  BY DEF Held, Charged, JInv, TypedRest
<1>2. Torn(disk') <=> Torn(disk)
  BY DEF Torn, Held
<1>3. tx.promoted \in BOOLEAN
  BY DEF JInv, TypedTx, Transactions
<1>4. Torn(disk') /\ pending' # 0 => faults' >= 2
  BY <1>1, <1>2, <1>3 DEF CountInv, TornOK, Held, Outside
<1> QED
  BY <1>4, IdleTorn

\* A torn journal before the promotion is one that the next authorization found.
LEMMA TornHandle ==
    ASSUME JInv, Torn(disk), tx.pc \notin {"idle", "recover"} PROVE tx.kind = "dropbox"
  BY DEF JInv, JournalOK, Torn, Handle

\* Steps that go on without touching the credentials.
LEMMA ForwardTorn ==
    ASSUME JInv, CountInv, Held, ~tx.promoted, ~tx'.promoted, tx.pc \in Forward, tx'.pc \in Forward,
           tx'.pc # "promoted", tx'.pc = "promote" => Settings(disk') = Expected',
           Torn(disk) /\ Unspoilt /\ faults' = faults => Unspoilt'
    PROVE  CountInv'
<1>1. faults' >= faults /\ faults \in Nat /\ faults' \in {faults, faults + 1}
  BY DEF Held, Charged, JInv, TypedRest
<1>2. Torn(disk') <=> Torn(disk)
  BY DEF Torn, Held
<1>3. tx'.pc \notin Undo \cup Restore /\ tx'.pc \notin {"idle", "recover", "read"}
  BY DEF Forward, Undo, Restore
<1>4. ASSUME Torn(disk) PROVE faults' >= 2 /\ (Unspoilt' \/ faults' >= 3)
  <2>1. faults >= 2 /\ (Unspoilt \/ faults >= 3)
    BY <1>4 DEF CountInv, TornOK
  <2> QED
    BY <1>1, <1>4, <2>1
<1>5. TornOK'
  BY <1>2, <1>3, <1>4 DEF TornOK
<1> QED
  BY <1>5 DEF CountInv, VerifiedOK

\* A step that fails before the promotion.
LEMMA AbortTorn ==
    ASSUME JInv, CountInv, Held, ~tx.promoted, tx.pc \in Forward, Aborts,
           Torn(disk) /\ Unspoilt => faults' # faults
    PROVE  CountInv'
<1>1. faults' >= faults /\ faults \in Nat /\ faults' \in {faults, faults + 1}
  BY DEF Held, Charged, JInv, TypedRest
<1>2. Torn(disk') <=> Torn(disk)
  BY DEF Torn, Held
<1>3. /\ ~tx'.promoted
      /\ tx'.pc \in Undo /\ tx'.pc \notin Forward \cup Restore /\ tx'.pc \notin {"idle", "recover", "read"}
  BY DEF Aborts, Aborting, Flags, Forward, Undo, Restore
<1>4. ASSUME Torn(disk) PROVE faults' >= 3
  <2>1. faults >= 2 /\ (Unspoilt \/ faults >= 3)
    BY <1>4 DEF CountInv, TornOK
  <2> QED
    BY <1>1, <1>4, <2>1
<1>5. TornOK'
  BY <1>2, <1>3, <1>4 DEF TornOK
<1> QED
  BY <1>3, <1>5 DEF CountInv, VerifiedOK, Forward

\* A step after the promotion.
LEMMA PromotedTorn ==
    ASSUME JInv, CountInv, Held, tx.promoted, tx'.promoted, tx.pc \in Forward, tx'.pc \notin {"promote", "promoted"},
           \/ tx'.pc \in Forward /\ (tx'.pc = "active" /\ Off(disk') => faults' >= 1)
           \/ tx'.pc \in Undo /\ (Torn(disk) => faults' >= 1)
    PROVE  CountInv'
<1>1. Torn(disk') <=> Torn(disk)
  BY DEF Torn, Held
<1>2. /\ tx'.pc \notin Restore /\ tx'.pc \notin {"idle", "recover", "read"}
      /\ tx'.pc \in Forward => tx'.pc \notin Undo
  BY DEF Forward, Undo, Restore
<1>3. Torn(disk) => staged'.phase = "promoted"
  BY DEF CountInv, TornOK, Held
<1>4. TornOK'
  BY <1>1, <1>2, <1>3 DEF TornOK
<1> QED
  BY <1>4 DEF CountInv, VerifiedOK

LEMMA EnsureDisabledCounts == ASSUME JInv, CountInv, EnsureDisabled PROVE CountInv'
<1>1. /\ Held /\ Settings(disk') = Settings(disk)
      /\ \E ok \in BOOLEAN :
           /\ faults' = faults => disk'.backend = "off" /\ ok
           /\ \/ tx.pc = "disable" /\ (IF ok THEN Goes("disabled") ELSE Aborts)
              \/ tx.pc = "off" /\ Goes(IF ok THEN "isOff" ELSE "offAgain")
              \/ tx.pc = "restoreOff" /\ Goes(IF ok THEN "restoreIsOff" ELSE "keepOff")
  <2>1. PICK ok \in BOOLEAN :
          /\ WroteBackend("off", ok)
          /\ \/ tx.pc = "disable" /\ (IF ok THEN Goes("disabled") ELSE Aborts)
             \/ tx.pc = "off" /\ Goes(IF ok THEN "isOff" ELSE "offAgain")
             \/ tx.pc = "restoreOff" /\ Goes(IF ok THEN "restoreIsOff" ELSE "keepOff")
    BY EnsureDisabledDoes
  <2>2. /\ Held /\ Settings(disk') = Settings(disk)
        /\ faults' = faults => disk'.backend = "off" /\ ok
    BY <2>1, EnsureDisabledDoes, BackendHeld DEF Backends
  <2> QED
    BY <2>1, <2>2
<1>2. CASE tx.pc = "disable"
  <2>1. ~tx.promoted /\ tx.pc \in Forward
    BY <1>2 DEF JInv, FlagsOK, Promotion, Restore, Forward
  <2>2. CASE Goes("disabled") /\ (faults' = faults => disk'.backend = "off")
    <3>1. tx'.pc = "disabled" /\ ~tx'.promoted /\ tx'.previous = tx.previous
      BY <2>1, <2>2 DEF Goes, Flags, Same
    <3>2. Unspoilt /\ faults' = faults => Unspoilt'
      BY <1>1, <1>2, <2>2, <3>1 DEF Unspoilt, Off
    <3> QED
      BY <1>1, <2>1, <3>1, <3>2, ForwardTorn DEF Forward
  <2>3. CASE Aborts /\ faults' # faults
    BY <1>1, <2>1, <2>3, AbortTorn
  <2>4. tx.pc # "off" /\ tx.pc # "restoreOff"
    BY <1>2
  <2> QED
    BY <1>1, <2>2, <2>3, <2>4
<1>3. CASE tx.pc = "off"
  BY <1>1, <1>3, HeldTorn DEF Goes, Flags, Undo
<1>4. CASE tx.pc = "restoreOff"
  BY <1>1, <1>4, HeldTorn DEF Goes, Flags, Restore
<1> QED
  BY <1>1, <1>2, <1>3, <1>4

LEMMA CheckDisabledCounts == ASSUME JInv, CountInv, CheckDisabled PROVE CountInv'
<1>1. Held /\ disk' = disk /\ tx.pc = "disabled"
  BY CheckDisabledDoes, ReadHeld DEF ReadFrame
<1>2. ~tx.promoted /\ tx.pc \in Forward
  BY <1>1 DEF JInv, FlagsOK, Promotion, Restore, Forward
<1>3. CASE Goes("write")
  <2>1. tx'.pc = "write" /\ ~tx'.promoted /\ tx'.previous = tx.previous
    BY <1>2, <1>3 DEF Goes, Flags, Same
  <2>2. Unspoilt => Unspoilt'
    BY <1>1, <2>1 DEF Unspoilt
  <2> QED
    BY <1>1, <1>2, <2>1, <2>2, ForwardTorn DEF Forward
<1>4. CASE Aborts
  <2>1. tx'.pc # "write"
    BY <1>4 DEF Aborts, Aborting
  <2>2. Unspoilt => faults' # faults
    BY <1>1, <2>1, CheckDisabledCosts DEF Unspoilt
  <2> QED
    BY <1>1, <1>2, <1>4, <2>2, AbortTorn
<1> QED
  BY <1>3, <1>4, CheckDisabledDoes

LEMMA WriteTransportCounts == ASSUME JInv, CountInv, WriteTransport PROVE CountInv'
<1>1. Held /\ tx.pc = "write"
  BY WriteTransportDoes, SettingHeld
<1>2. ~tx.promoted /\ tx.pc \in Forward
  BY <1>1 DEF JInv, FlagsOK, Promotion, Restore, Forward
<1>3. ASSUME Torn(disk), Unspoilt, faults' = faults PROVE tx'.pc = "verify" /\ Settings(disk') = Expected
  BY <1>1, <1>3, TornHandle, WriteTransportCosts DEF Unspoilt
<1>4. CASE Goes("verify")
  <2>1. tx'.pc = "verify" /\ ~tx'.promoted /\ Expected' = Expected
    BY <1>2, <1>4, ExpectedSame DEF Goes, Flags
  <2>2. Torn(disk) /\ Unspoilt /\ faults' = faults => Unspoilt'
    BY <1>3, <2>1 DEF Unspoilt
  <2> QED
    BY <1>1, <1>2, <2>1, <2>2, ForwardTorn DEF Forward
<1>5. CASE Goes("write") /\ tx.kind = "selfhosted"
  <2>1. tx'.pc = "write" /\ ~tx'.promoted
    BY <1>2, <1>5 DEF Goes, Flags
  <2>2. ~Torn(disk)
    BY <1>1, <1>5, TornHandle
  <2> QED
    BY <1>1, <1>2, <2>1, <2>2, ForwardTorn DEF Forward
<1>6. CASE Aborts
  <2>1. tx'.pc # "verify"
    BY <1>6 DEF Aborts, Aborting
  <2> QED
    BY <1>1, <1>2, <1>3, <1>6, <2>1, AbortTorn
<1> QED
  BY <1>4, <1>5, <1>6, WriteTransportDoes

LEMMA VerifyTransportCounts == ASSUME JInv, CountInv, VerifyTransport PROVE CountInv'
<1>1. Held /\ disk' = disk /\ tx.pc = "verify" /\ Off(disk)
  BY VerifyTransportDoes, ReadHeld DEF ReadFrame, JInv, OffOK
<1>2. ~tx.promoted /\ tx.pc \in Forward
  BY <1>1 DEF JInv, FlagsOK, Promotion, Restore, Forward
<1>3. ASSUME NEW p \in {"promote", "activate"}, Settings(disk) = Expected, Goes(p) PROVE CountInv'
  <2>1. tx'.pc = p /\ ~tx'.promoted /\ Expected' = Expected
    BY <1>2, <1>3, ExpectedSame DEF Goes, Flags
  <2>2. Unspoilt'
    BY <1>3, <2>1 DEF Unspoilt
  <2> QED
    BY <1>1, <1>2, <1>3, <2>1, <2>2, ForwardTorn DEF Forward
<1>4. CASE Aborts
  <2>1. tx'.pc \notin {"promote", "activate"}
    BY <1>4 DEF Aborts, Aborting
  <2>2. Unspoilt => faults' # faults
    BY <1>1, <2>1, VerifyTransportCosts DEF Unspoilt
  <2> QED
    BY <1>1, <1>2, <1>4, <2>2, AbortTorn
<1> QED
  BY <1>3, <1>4, VerifyTransportDoes

LEMMA VerifyPromotedCounts == ASSUME JInv, CountInv, VerifyPromoted PROVE CountInv'
<1>1. Held /\ disk' = disk /\ tx.pc = "promoted" /\ Off(disk) /\ Settings(disk) = Expected
  BY VerifyPromotedDoes, ReadHeld DEF ReadFrame, JInv, OffOK, CountInv, VerifiedOK
<1>2. tx.promoted /\ tx.pc \in Forward
  BY <1>1 DEF JInv, FlagsOK, Forward
<1>3. CASE Goes("activate")
  <2>1. tx'.pc = "activate" /\ tx'.promoted
    BY <1>2, <1>3 DEF Goes, Flags
  <2> QED
    BY <1>1, <1>2, <2>1, PromotedTorn DEF Forward
<1>4. CASE Aborts
  <2>1. tx'.pc = "off" /\ tx'.promoted
    BY <1>2, <1>4 DEF Aborts, Aborting, Flags
  <2>2. faults' # faults
    BY <1>1, <2>1, VerifyPromotedCosts
  <2>3. faults' >= 1
    BY <1>1, <2>2 DEF Held, Charged, JInv, TypedRest
  <2> QED
    BY <1>1, <1>2, <2>1, <2>3, PromotedTorn DEF Undo
<1> QED
  BY <1>3, <1>4, VerifyPromotedDoes

LEMMA ActivateCounts == ASSUME JInv, CountInv, Activate PROVE CountInv'
<1>1. tx.pc = "activate" /\ tx.pc \in Forward /\ Backend(tx.kind) \in Backends /\ Backend(tx.kind) # "off"
  BY ActivateDoes DEF Forward, Backend, Backends
<1>2. PICK ok \in BOOLEAN :
        WroteBackend(Backend(tx.kind), ok) /\ (IF ok THEN Goes("active") ELSE Aborts)
  BY ActivateDoes
<1>3. Held /\ (faults' = faults => disk'.backend = Backend(tx.kind) /\ ok)
  BY <1>1, <1>2, ActivateDoes, BackendHeld
<1>4. faults' # faults => faults' >= 1
  BY <1>3 DEF Held, Charged, JInv, TypedRest
<1>5. CASE tx.promoted
  <2>1. tx'.promoted /\ tx'.pc = IF ok THEN "active" ELSE "off"
    BY <1>2, <1>5 DEF Goes, Aborts, Aborting, Flags
  <2>2. CASE ok
    <3>1. Off(disk') => faults' >= 1
      BY <1>1, <1>3, <1>4 DEF Off
    <3> QED
      BY <1>1, <1>3, <1>5, <2>1, <2>2, <3>1, PromotedTorn DEF Forward
  <2>3. CASE ~ok
    BY <1>1, <1>3, <1>4, <1>5, <2>1, <2>3, PromotedTorn DEF Undo
  <2> QED
    BY <2>2, <2>3
<1>6. CASE ~tx.promoted
  <2>1. ~Torn(disk)
    BY <1>1, <1>6, TornHandle DEF JInv, FlagsOK, Handle
  <2>2. CASE ok
    BY <1>1, <1>2, <1>3, <1>6, <2>1, <2>2, ForwardTorn DEF Goes, Flags, Forward
  <2>3. CASE ~ok
    BY <1>1, <1>2, <1>3, <1>6, <2>1, <2>3, AbortTorn
  <2> QED
    BY <2>2, <2>3
<1> QED
  BY <1>5, <1>6

LEMMA VerifyActiveCounts == ASSUME JInv, CountInv, VerifyActive PROVE CountInv'
<1>1. Held /\ disk' = disk /\ tx.pc = "active" /\ tx.pc \in Forward
  BY VerifyActiveDoes, ReadHeld DEF ReadFrame, Forward
<1>2. CASE Ends /\ ~Handle(tx.kind)
  <2>1. ~Torn(disk)
    BY <1>1, <1>2, TornHandle DEF Handle
  <2> QED
    BY <1>1, <1>2, <2>1, IdleTorn DEF Ends
<1>3. CASE Goes("finalize") /\ Handle(tx.kind)
  <2>1. tx.promoted /\ tx'.promoted /\ tx'.pc = "finalize"
    BY <1>1, <1>3 DEF JInv, FlagsOK, Goes, Flags
  <2> QED
    BY <1>1, <2>1, PromotedTorn DEF Forward
<1>4. CASE (faults' = faults + 1 \/ ~Matches(Backend(tx.kind), Expected)) /\ Aborts
  <2>1. CASE tx.promoted
    <3>1. tx'.pc = "off" /\ tx'.promoted
      BY <1>4, <2>1 DEF Aborts, Aborting, Flags
    <3>2. CASE faults' = faults + 1
      <4>1. faults' >= 1
        BY <3>2 DEF JInv, TypedRest
      <4> QED
        BY <1>1, <2>1, <3>1, <4>1, PromotedTorn DEF Undo
    <3>3. CASE ~Matches(Backend(tx.kind), Expected)
      <4>1. Off(disk)
        BY <1>1, <3>3 DEF JInv, ReadOK, Matches, Off
      <4>2. Torn(disk) => faults >= 1
        BY <1>1, <2>1, <4>1 DEF CountInv, TornOK
      <4>3. faults' >= faults /\ faults \in Nat /\ faults' \in Nat
        BY <1>1 DEF Held, Charged, JInv, TypedRest
      <4>4. Torn(disk) => faults' >= 1
        BY <4>2, <4>3
      <4> QED
        BY <1>1, <2>1, <3>1, <4>4, PromotedTorn DEF Undo
    <3> QED
      BY <1>4, <3>2, <3>3
  <2>2. CASE ~tx.promoted
    <3>1. ~Torn(disk)
      BY <1>1, <2>2, TornHandle DEF JInv, FlagsOK, Handle
    <3> QED
      BY <1>1, <1>4, <2>2, <3>1, AbortTorn
  <2> QED
    BY <2>1, <2>2
<1> QED
  BY <1>2, <1>3, <1>4, VerifyActiveDoes

LEMMA UndoCounts ==
    ASSUME JInv, CountInv, CheckIsOff \/ OffAgain PROVE CountInv'
<1>1. CASE CheckIsOff
  BY <1>1, CheckIsOffDoes, ReadHeld, HeldTorn DEF Goes, Flags, Undo
<1>2. CASE OffAgain
  <2>1. Held
    BY <1>2, OffAgainDoes, BackendHeld DEF Backends
  <2> QED
    BY <1>2, <2>1, OffAgainDoes, HeldTorn DEF Undo
<1> QED
  BY <1>1, <1>2

LEMMA RestoreCounts ==
    ASSUME JInv, CountInv,
           CheckRestoreIsOff \/ RestoreSetting \/ VerifyRestored \/ Reactivate \/ VerifyReactivated \/ KeepOff
    PROVE  CountInv'
<1>1. CASE CheckRestoreIsOff
  BY <1>1, CheckRestoreIsOffDoes, ReadHeld, HeldTorn DEF Goes, Flags, Restore
<1>2. CASE RestoreSetting
  BY <1>2, RestoreSettingDoes, SettingHeld, HeldTorn DEF Goes, Flags, Restore
<1>3. CASE VerifyRestored
  BY <1>3, VerifyRestoredDoes, ReadHeld, HeldTorn DEF Goes, Flags, Restore
<1>4. CASE Reactivate
  <2>1. CASE Charged /\ UNCHANGED <<disk, staged>> /\ Ends
    <3>1. Held
      BY <1>4, <2>1, ReactivateDoes, ReadHeld DEF ReadFrame
    <3> QED
      BY <1>4, <2>1, <3>1, ReactivateDoes, EndsTorn DEF Ends, Restore
  <2>2. CASE Goes("reactivated") /\ \E ok \in BOOLEAN : WroteBackend(tx.previous.backend, ok)
    <3>1. tx.previous.backend \in Backends
      BY <1>4, ReactivateDoes DEF JInv, TypedTx, Found, PastRead, Restore
    <3>2. Held
      BY <1>4, <2>2, <3>1, ReactivateDoes, BackendHeld
    <3> QED
      BY <1>4, <2>2, <3>2, ReactivateDoes, HeldTorn DEF Goes, Flags, Restore
  <2> QED
    BY <1>4, <2>1, <2>2, ReactivateDoes
<1>5. CASE VerifyReactivated
  <2>1. Held /\ tx.pc = "reactivated"
    BY <1>5, VerifyReactivatedDoes, ReadHeld
  <2>2. CASE Ends
    BY <2>1, <2>2, EndsTorn DEF Ends, Restore
  <2>3. CASE Goes("keepOff")
    BY <2>1, <2>3, HeldTorn DEF Goes, Flags, Restore
  <2> QED
    BY <1>5, <2>2, <2>3, VerifyReactivatedDoes
<1>6. CASE KeepOff
  <2>1. Held
    BY <1>6, KeepOffDoes, BackendHeld DEF Backends
  <2> QED
    BY <1>6, <2>1, KeepOffDoes, EndsTorn DEF Ends, Restore
<1> QED
  BY <1>1, <1>2, <1>3, <1>4, <1>5, <1>6

LEMMA ReadPreviousCounts == ASSUME JInv, CountInv, ReadPrevious PROVE CountInv'
<1>1. Held /\ disk' = disk /\ tx.pc = "read" /\ ~tx.promoted
  BY ReadPreviousDoes, ReadHeld DEF ReadFrame, JInv, FlagsOK, Promotion, Restore
<1>2. CASE Ends
  BY <1>1, <1>2, EndsTorn DEF Ends
<1>3. CASE /\ tx'.pc = "disable" /\ Flags(tx')
           /\ tx'.previous = [backend |-> disk.backend, settings |-> Settings(disk),
                              tokens |-> IF Off(disk) THEN Settled(disk) ELSE disk.tokens]
  <2>1. ~tx'.promoted /\ tx'.previous.settings = Settings(disk')
    BY <1>1, <1>3 DEF Flags
  <2>2. Unspoilt'
    BY <1>3, <2>1 DEF Unspoilt
  <2>3. Torn(disk) => faults >= 2
    BY <1>1, TornHandle DEF CountInv, TornOK, JInv, PendingOK, Handle
  <2>4. faults' >= faults /\ faults \in Nat /\ faults' \in Nat
    BY <1>1 DEF Held, Charged, JInv, TypedRest
  <2>5. TornOK'
    BY <1>1, <1>3, <2>1, <2>2, <2>3, <2>4 DEF TornOK, Undo, Restore
  <2> QED
    BY <1>3, <2>5 DEF CountInv, VerifiedOK
<1> QED
  BY <1>2, <1>3, ReadPreviousDoes

LEMMA PromoteCredentialsCounts == ASSUME JInv, CountInv, PromoteCredentials PROVE CountInv'
<1>1. PICK a \in Promote(disk, staged) : Take(a) /\ tx'.pc = IF a.ok THEN "promoted" ELSE "off"
  BY PromoteCredentialsDoes
<1>2. /\ Off(disk) /\ ~tx.promoted /\ tx.pc = "promote" /\ Same(tx') /\ tx'.promoted
      /\ disk \in Disks /\ staged \in Entries /\ faults \in Nat
  BY PromoteCredentialsDoes DEF JInv, OffOK, FlagsOK, Promotion, Restore, TypedRest
<1>3. /\ Answers(disk, staged, a)
      /\ \/ ~a.ok /\ a.staged = staged /\ Recovered(disk, a.disk)
         \/ /\ a.disk.journal = [previous |-> Settled(disk), candidate |-> staged.tokens, open |-> TRUE]
            /\ \/ a.disk.tokens = staged.tokens /\ a.staged = Promoted(staged, Settled(disk))
               \/ a.disk.tokens = Settled(disk)
  BY <1>1, <1>2, PromoteDoes
<1>4. /\ disk' = a.disk /\ staged' = a.staged /\ SameSettings(disk, disk') /\ disk' \in Disks
      /\ faults' = faults + a.cost /\ a.cost \in {0, 1}
  BY <1>1, <1>3, Taken DEF Take, Answers
<1>5. VerifiedOK'
  <2>1. Settings(disk') = Settings(disk) /\ Settings(disk) = Expected /\ Expected' = Expected
    BY <1>2, <1>4, SettingsSame, ExpectedSame DEF CountInv, VerifiedOK
  <2> QED
    BY <2>1 DEF VerifiedOK
<1>6. ASSUME Torn(disk')
      PROVE  /\ a.ok => staged'.phase = "promoted"
             /\ ~a.ok => faults' >= 1 /\ (staged'.phase = "promoted" \/ faults' >= 2)
  <2>1. CASE ~a.ok /\ Recovered(disk, a.disk)
    <3>1. Torn(disk)
      BY <1>4, <1>6, <2>1, TornRecovered
    <3>2. faults >= 2
      BY <1>2, <3>1 DEF CountInv, TornOK, Forward
    <3> QED
      BY <1>2, <1>4, <2>1, <3>2
  <2>2. CASE a.staged = Promoted(staged, Settled(disk))
    <3>1. staged'.phase = "promoted"
      BY <1>2, <1>4, <2>2 DEF Promoted, Entries
    <3>2. ~a.ok => a.cost = 1
      BY <1>1, <1>2, <1>4, <1>6, PromoteCosts DEF Torn
    <3> QED
      BY <1>2, <1>4, <3>1, <3>2
  <2>3. ~(a.disk.journal = [previous |-> Settled(disk), candidate |-> staged.tokens, open |-> TRUE]
            /\ a.disk.tokens = Settled(disk))
    BY <1>4, <1>6 DEF Torn
  <2> QED
    BY <1>3, <2>1, <2>2, <2>3
<1>7. TornOK'
  BY <1>1, <1>2, <1>6 DEF TornOK, Forward, Undo, Restore
<1> QED
  BY <1>5, <1>7 DEF CountInv

LEMMA RollbackCredentialsCounts == ASSUME JInv, CountInv, RollbackCredentials PROVE CountInv'
<1>1. tx.pc = "rollback" /\ tx.pc \in Undo /\ faults \in Nat /\ disk \in Disks /\ staged \in Entries
  BY RollbackCredentialsDoes DEF Undo, JInv, TypedRest
<1>2. /\ tx'.pc \in {"idle", "restoreOff"}
      /\ tx'.pc = "restoreOff" => tx'.promoted = tx.promoted
  <2>1. Ends \/ \E bad : Restores(bad)
    BY RollbackCredentialsDoes, Zenon
  <2> QED
    BY <2>1 DEF Ends, Restores
<1>3. CASE ~tx.promoted
  <2>1. UNCHANGED <<disk, staged, pending, faults>>
    BY <1>3, RollbackCredentialsDoes
  <2>2. Torn(disk') => faults' >= 3
    BY <1>1, <1>3, <2>1 DEF CountInv, TornOK
  <2>3. CASE tx'.pc = "idle"
    BY <1>1, <2>1, <2>2, <2>3, IdleTorn
  <2>4. CASE tx'.pc = "restoreOff"
    BY <1>2, <1>3, <2>2, <2>4 DEF CountInv, VerifiedOK, TornOK, Forward, Undo
  <2> QED
    BY <1>2, <2>3, <2>4
<1>4. CASE tx.promoted
  <2>1. PICK a \in Rollback(disk, staged) : Take(a)
    BY <1>4, RollbackCredentialsDoes
  <2>2. /\ Answers(disk, staged, a)
        /\ \/ a.disk = disk \/ Recovered(disk, a.disk)
           \/ ~a.disk.journal.open
    BY <1>1, <2>1, RollbackDoes DEF JInv
  <2>3. disk' = a.disk /\ faults' = faults + a.cost /\ a.cost \in {0, 1}
    BY <2>1, <2>2 DEF Take, Answers
  <2>4. ASSUME Torn(disk') PROVE faults' >= 2
    <3>1. Torn(disk)
      BY <2>2, <2>3, <2>4, TornRecovered DEF Torn
    <3>2. faults >= 1 /\ (staged.phase = "promoted" \/ faults >= 2)
      BY <1>1, <1>4, <3>1 DEF CountInv, TornOK
    <3>3. CASE ~Off(disk)
      <4>1. faults >= 3
        BY <1>1, <1>4, <3>3 DEF JInv, FaultsOK
      <4> QED
        BY <1>1, <2>3, <4>1
    <3>4. CASE Off(disk) /\ staged.phase = "promoted"
      <4>1. a.cost = 1
        BY <1>1, <2>1, <2>3, <2>4, <3>4, RollbackCosts DEF Torn
      <4> QED
        BY <1>1, <2>3, <3>2, <4>1
    <3>5. CASE faults >= 2
      BY <1>1, <2>3, <3>5
    <3> QED
      BY <3>2, <3>3, <3>4, <3>5
  <2>5. CASE tx'.pc = "idle"
    BY <2>4, <2>5, IdleTorn
  <2>6. CASE tx'.pc = "restoreOff"
    BY <1>2, <1>4, <2>4, <2>6 DEF CountInv, VerifiedOK, TornOK, Forward, Undo
  <2> QED
    BY <1>2, <2>5, <2>6
<1> QED
  BY <1>3, <1>4

\* Operations between transactions, and a recovery that ends one: no journal is
\* torn that was not, and no authorization awaited that was not.
LEMMA BetweenCounts ==
    ASSUME JInv, CountInv, tx.pc \in {"idle", "recover"}, tx'.pc = "idle", pending' \in {0, pending},
           Torn(disk') => Torn(disk), faults' >= faults, faults' \in Nat
    PROVE  CountInv'
<1>1. Torn(disk') /\ pending' # 0 => faults >= 2
  BY DEF CountInv, TornOK
<1>2. faults \in Nat
  BY DEF JInv, TypedRest
<1> QED
  BY <1>1, <1>2, IdleTorn

LEMMA TakenCharges ==
    ASSUME JInv, NEW a, Answers(disk, staged, a), Take(a)
    PROVE  disk' = a.disk /\ faults' >= faults /\ faults' \in Nat
  BY Taken DEF Charged, JInv, TypedRest

LEMMA BeginCounts == ASSUME JInv, CountInv, Begin PROVE CountInv'
<1>1. UNCHANGED <<disk, staged, pending, faults>> /\ tx.pc = "idle"
  BY DEF Begin
<1>2. tx'.pc \in {"read", "recover"}
  BY DEF Begin, NoTx
<1>3. tx'.pc \notin Forward \cup Undo \cup Restore
  BY <1>2 DEF Forward, Undo, Restore
<1>4. TornOK'
  BY <1>1, <1>2, <1>3 DEF CountInv, TornOK
<1> QED
  BY <1>2, <1>4 DEF CountInv, VerifiedOK

LEMMA RecoverFirstCounts == ASSUME JInv, CountInv, RecoverFirst PROVE CountInv'
<1>1. PICK a \in RecoverBefore(disk, staged) : Take(a) /\ (IF a.ok THEN Goes("read") ELSE Ends)
  BY RecoverFirstDoes
<1>2. /\ Answers(disk, staged, a) /\ Recovered(disk, a.disk)
      /\ a.ok => ~a.disk.journal.open
  BY <1>1, RecoverBeforeDoes DEF JInv, TypedRest
<1>3. disk' = a.disk /\ faults' >= faults /\ faults' \in Nat
  BY <1>1, <1>2, TakenCharges
<1>4. tx.pc = "recover" /\ pending' = pending
  BY RecoverFirstDoes
<1>5. CASE a.ok
  <2>1. tx'.pc = "read" /\ ~Torn(disk')
    BY <1>1, <1>2, <1>3, <1>5 DEF Goes, Torn
  <2> QED
    BY <2>1 DEF CountInv, VerifiedOK, TornOK
<1>6. CASE ~a.ok
  BY <1>1, <1>2, <1>3, <1>4, <1>6, TornRecovered, BetweenCounts DEF Ends
<1> QED
  BY <1>5, <1>6

LEMMA DiscardCandidateCounts == ASSUME JInv, CountInv, DiscardCandidate PROVE CountInv'
<1>1. PICK a \in Discard(disk, staged) : Take(a) /\ pending' = IF a.ok THEN 0 ELSE pending
  BY DiscardCandidateDoes
<1>2. Answers(disk, staged, a) /\ a.disk = disk
  BY <1>1, DiscardDoes DEF JInv, TypedRest
<1>3. disk' = disk /\ faults' >= faults /\ faults' \in Nat /\ faults \in Nat
  BY <1>1, <1>2, TakenCharges DEF JInv, TypedRest
<1>4. tx.pc = "discard" /\ tx.pc \in Undo /\ tx'.pc = "off" /\ ~tx.promoted /\ ~tx'.promoted
  BY DiscardCandidateDoes DEF JInv, FlagsOK, Promotion, Restore, Goes, Flags, Undo
<1>5. Torn(disk') => faults' >= 3
  BY <1>3, <1>4 DEF CountInv, TornOK
<1> QED
  BY <1>4, <1>5 DEF CountInv, VerifiedOK, TornOK, Forward

LEMMA ConnectDropboxCounts == ASSUME JInv, CountInv, ConnectDropbox PROVE CountInv'
<1>1. PICK a \in Stage(disk, staged, count + 1) : Take(a) /\ pending' = (IF a.ok THEN count + 1 ELSE 0)
  BY DEF ConnectDropbox
<1>2. tx.pc = "idle" /\ tx' = tx /\ count + 1 \in Numbers
  BY SyncConfigurationAssumption DEF ConnectDropbox, Idle, JInv, TypedRest, Numbers
<1>3. Answers(disk, staged, a) /\ (a.ok => ~a.disk.journal.open)
  BY <1>1, <1>2, StageDoes DEF JInv, TypedRest
<1>4. disk' = a.disk
  BY <1>1, <1>3, TakenCharges
<1> QED
  BY <1>1, <1>2, <1>3, <1>4, IdleTorn DEF Torn

LEMMA ResolvePendingCounts == ASSUME JInv, CountInv, ResolvePending PROVE CountInv'
<1>1. PICK a \in (IF staged.phase = "promoted" THEN Rollback(disk, staged) ELSE Discard(disk, staged)) :
        Take(a) /\ pending' = (IF a.ok THEN 0 ELSE pending)
  BY DEF ResolvePending
<1>2. tx.pc = "idle" /\ tx' = tx /\ pending' \in {0, pending}
  BY <1>1 DEF ResolvePending, Idle
<1>3. /\ Answers(disk, staged, a)
      /\ a.disk = disk \/ Recovered(disk, a.disk) \/ ~a.disk.journal.open
  <2>1. CASE staged.phase = "promoted"
    BY <1>1, <2>1, RollbackDoes DEF JInv, TypedRest
  <2>2. CASE staged.phase # "promoted"
    BY <1>1, <2>2, DiscardDoes DEF JInv, TypedRest
  <2> QED
    BY <2>1, <2>2
<1>4. disk' = a.disk /\ faults' >= faults /\ faults' \in Nat
  BY <1>1, <1>3, TakenCharges
<1>5. Torn(disk') => Torn(disk)
  BY <1>3, <1>4, TornRecovered DEF Torn
<1> QED
  BY <1>2, <1>4, <1>5, BetweenCounts

LEMMA RecoverCounts == ASSUME JInv, CountInv, AccessToken \/ Start PROVE CountInv'
<1>1. PICK a \in Recover(disk, staged) : Take(a)
  BY DEF AccessToken, Start
<1>2. Recovered(disk, a.disk) /\ a.cost \in {0, 1}
  BY <1>1, RecoverDoes DEF JInv, TypedRest
<1>3. disk' = a.disk /\ faults' >= faults /\ faults' \in Nat
  BY <1>1, <1>2 DEF Take, JInv, TypedRest
<1>4. tx.pc = "idle" /\ tx' = tx /\ pending' = pending
  BY DEF AccessToken, Idle, Start, JInv, UpOK
<1> QED
  BY <1>2, <1>3, <1>4, TornRecovered, BetweenCounts

LEMMA FinalizeCounts == ASSUME JInv, CountInv, FinalizeCommitted \/ RetryFinalize PROVE CountInv'
<1>1. CASE FinalizeCommitted
  BY <1>1, FinalizeCommittedDoes, IdleTorn DEF Ends
<1>2. CASE RetryFinalize
  <2>1. PICK a \in Finalize(disk, staged, cleanup) : Take(a)
    BY <1>2 DEF RetryFinalize
  <2>2. /\ Answers(disk, staged, a) /\ a.disk.tokens = disk.tokens
        /\ a.disk.journal = disk.journal \/ ~a.disk.journal.open
    BY <2>1, FinalizeDoes DEF JInv, TypedRest
  <2>3. disk' = a.disk /\ faults' >= faults /\ faults' \in Nat
    BY <2>1, <2>2, TakenCharges
  <2>4. tx.pc = "idle" /\ tx' = tx /\ pending' = pending
    BY <1>2 DEF RetryFinalize, Idle
  <2>5. Torn(disk') => Torn(disk)
    BY <2>2, <2>3 DEF Torn
  <2> QED
    BY <2>3, <2>4, <2>5, BetweenCounts
<1> QED
  BY <1>1, <1>2

LEMMA OffCounts == ASSUME JInv, CountInv, SwitchOff \/ DisconnectDropbox PROVE CountInv'
<1>1. CASE SwitchOff
  <2>1. Torn(disk') => Torn(disk)
    BY <1>1, SwitchOffDoes, TornRecovered
  <2>2. faults' \in Nat
    BY <1>1, SwitchOffDoes
  <2> QED
    BY <1>1, <2>1, <2>2, SwitchOffDoes, BetweenCounts
<1>2. CASE DisconnectDropbox
  <2>1. Torn(disk') => Torn(disk)
    BY <1>2, DisconnectDropboxDoes, TornRecovered DEF Torn
  <2>2. faults' \in Nat
    BY <1>2, DisconnectDropboxDoes
  <2> QED
    BY <1>2, <2>1, <2>2, DisconnectDropboxDoes, BetweenCounts
<1> QED
  BY <1>1, <1>2

LEMMA StopCounts == ASSUME Reload \/ Crash PROVE CountInv'
<1>1. pending' = 0 /\ tx' = NoTx
  BY DEF Reload, Crash
<1> QED
  BY <1>1, NoTxHas, IdleTorn

LEMMA CountInit == ASSUME Init PROVE CountInv
<1>1. ~disk.journal.open /\ tx.pc = "idle"
  BY NoTxHas DEF Init, NoJournal
<1> QED
  BY <1>1 DEF CountInv, VerifiedOK, TornOK, Torn

LEMMA CountNext == ASSUME JInv, CountInv, [Next]_vars PROVE CountInv'
<1>1. CASE UNCHANGED vars
  BY <1>1 DEF vars, CountInv, VerifiedOK, TornOK, Torn, Unspoilt, Expected
<1>2. CASE Transaction
  BY <1>2, RecoverFirstCounts, ReadPreviousCounts, EnsureDisabledCounts, CheckDisabledCounts,
     WriteTransportCounts, VerifyTransportCounts, PromoteCredentialsCounts, VerifyPromotedCounts,
     ActivateCounts, VerifyActiveCounts, FinalizeCounts, DiscardCandidateCounts, UndoCounts,
     RollbackCredentialsCounts, RestoreCounts DEF Transaction
<1>3. CASE Next /\ ~Transaction
  BY <1>3, BeginCounts, ConnectDropboxCounts, ResolvePendingCounts, RecoverCounts, FinalizeCounts,
     OffCounts, StopCounts DEF Next
<1> QED
  BY <1>1, <1>2, <1>3

\* It takes three faults to end as restored over a torn journal: one in the
\* promotion that leaves it, one in its rollback, and one that undoes the next
\* attempt before its own promotion, whose recovery would have settled it.
THEOREM TornTakesThree == Spec => [](TornUndone => faults >= 3)
<1>1. ASSUME CountInv PROVE TornUndone => faults >= 3
  BY <1>1 DEF CountInv, TornOK, TornUndone, Restore
<1>2. Spec => []CountInv
  BY CountInit, CountNext, JInvAlways, PTL DEF Spec
<1> QED
  BY <1>1, <1>2, PTL

\* The steps that leave the credentials alone, in a transaction that has read
\* what it may have to restore.
LEMMA HeldSteps ==
    ASSUME JInv,
           \/ EnsureDisabled \/ CheckDisabled \/ WriteTransport \/ VerifyTransport \/ VerifyPromoted
           \/ Activate \/ VerifyActive \/ CheckIsOff \/ OffAgain \/ CheckRestoreIsOff \/ RestoreSetting
           \/ VerifyRestored \/ Reactivate \/ VerifyReactivated \/ KeepOff
    PROVE  /\ disk'.tokens = disk.tokens /\ disk'.journal = disk.journal
           /\ tx'.pc = "idle" \/ (tx.pc \in PastRead /\ tx'.previous = tx.previous)
<1> USE DEF Goes, Aborts, Ends, Same, PastRead, Forward, Undo, Restore
<1>1. CASE EnsureDisabled
  BY <1>1, EnsureDisabledDoes, BackendHeld DEF Backends, Held
<1>2. CASE CheckDisabled
  BY <1>2, CheckDisabledDoes DEF ReadFrame
<1>3. CASE WriteTransport
  BY <1>3, WriteTransportDoes DEF WroteSetting
<1>4. CASE VerifyTransport
  BY <1>4, VerifyTransportDoes DEF ReadFrame
<1>5. CASE VerifyPromoted
  BY <1>5, VerifyPromotedDoes DEF ReadFrame
<1>6. CASE Activate
  <2>1. Backend(tx.kind) \in Backends
    BY DEF Backend, Backends
  <2> QED
    BY <1>6, <2>1, ActivateDoes, BackendHeld DEF Held
<1>7. CASE VerifyActive
  BY <1>7, VerifyActiveDoes DEF ReadFrame
<1>8. CASE CheckIsOff
  BY <1>8, CheckIsOffDoes DEF ReadFrame
<1>9. CASE OffAgain
  BY <1>9, OffAgainDoes, BackendHeld DEF Backends, Held
<1>10. CASE CheckRestoreIsOff
  BY <1>10, CheckRestoreIsOffDoes DEF ReadFrame
<1>11. CASE RestoreSetting
  BY <1>11, RestoreSettingDoes DEF WroteSetting
<1>12. CASE VerifyRestored
  BY <1>12, VerifyRestoredDoes DEF ReadFrame
<1>13. CASE Reactivate
  <2>1. tx.previous.backend \in Backends
    BY <1>13, ReactivateDoes DEF JInv, TypedTx, Found
  <2> QED
    BY <1>13, <2>1, ReactivateDoes, BackendHeld DEF Held
<1>14. CASE VerifyReactivated
  BY <1>14, VerifyReactivatedDoes DEF ReadFrame
<1>15. CASE KeepOff
  BY <1>15, KeepOffDoes, BackendHeld DEF Backends, Held
<1> QED
  BY <1>1, <1>2, <1>3, <1>4, <1>5, <1>6, <1>7, <1>8, <1>9, <1>10, <1>11, <1>12, <1>13, <1>14, <1>15

LEMMA PromoteCredentialsSettles == ASSUME JInv, SettledOK, PromoteCredentials PROVE SettledOK'
<1>1. PICK a \in Promote(disk, staged) : Take(a)
  BY PromoteCredentialsDoes
<1>2. Off(disk) /\ tx.pc \in PastRead /\ tx'.previous = tx.previous /\ disk \in Disks /\ staged \in Entries
  BY PromoteCredentialsDoes DEF JInv, OffOK, TypedRest, Same, PastRead, Forward
<1>3. /\ Answers(disk, staged, a)
      /\ \/ Recovered(disk, a.disk)
         \/ a.disk.journal = [previous |-> Settled(disk), candidate |-> staged.tokens, open |-> TRUE]
  BY <1>1, <1>2, PromoteDoes
<1>4. disk' = a.disk
  BY <1>1, <1>3, Taken
<1>5. CASE Recovered(disk, a.disk)
  BY <1>2, <1>4, <1>5, SettledRecovered DEF SettledOK
<1>6. CASE a.disk.journal = [previous |-> Settled(disk), candidate |-> staged.tokens, open |-> TRUE]
  <2>1. Settled(disk') = Settled(disk)
    <3>1. disk'.journal.open /\ disk'.journal.previous = Settled(disk)
      BY <1>4, <1>6
    <3>2. PICK k : k = Settled(disk)
      OBVIOUS
    <3> QED
      BY <3>1, <3>2 DEF Settled
  <2> QED
    BY <1>2, <2>1 DEF SettledOK
<1> QED
  BY <1>3, <1>5, <1>6

LEMMA RollbackCredentialsSettles ==
    ASSUME JInv, AInv, ~GaveUp, SettledOK, RollbackCredentials PROVE SettledOK'
<1>1. /\ tx.pc = "rollback" /\ tx.pc \in PastRead
      /\ tx'.pc = "idle" \/ tx'.previous = tx.previous
  <2>1. tx.pc = "rollback"
    BY RollbackCredentialsDoes
  <2>2. Ends \/ \E bad : Restores(bad)
    BY RollbackCredentialsDoes, Zenon
  <2> QED
    BY <2>1, <2>2 DEF Ends, Restores, Same, PastRead, Undo
<1>2. SUFFICES Settled(disk') = Settled(disk)
  BY <1>1, <1>2 DEF SettledOK, PastRead, Forward, Undo, Restore
<1>3. CASE ~tx.promoted
  BY <1>3, RollbackCredentialsDoes
<1>4. CASE tx.promoted
  <2>1. PICK a \in Rollback(disk, staged) : Take(a)
    BY <1>4, RollbackCredentialsDoes
  <2>2. Off(disk) /\ pending # 0 /\ disk \in Disks /\ staged \in Entries /\ Matched(disk)
    BY <1>1, <1>4 DEF GaveUp, JInv, OffOK, AInv, AwaitOK, Promotion, TypedRest
  <2>3. /\ Answers(disk, staged, a)
        /\ \/ a.disk = disk \/ Recovered(disk, a.disk)
           \/ staged.phase = "promoted" /\ ~a.disk.journal.open /\ a.disk.tokens = staged.previous
    BY <2>1, <2>2, RollbackDoes
  <2>4. disk' = a.disk
    BY <2>1, <2>3, Taken
  <2>5. staged.phase = "promoted" => staged.previous = Settled(disk)
    BY <2>2 DEF JInv, EntryOK, AInv, AwaitOK, Settled
  <2>6. CASE a.disk = disk
    BY <2>4, <2>6
  <2>7. CASE Recovered(disk, a.disk)
    BY <2>2, <2>4, <2>7, SettledRecovered
  <2>8. CASE staged.phase = "promoted" /\ ~a.disk.journal.open /\ a.disk.tokens = staged.previous
    <3>1. Settled(a.disk) = a.disk.tokens
      BY <2>8 DEF Settled
    <3> QED
      BY <2>4, <2>5, <2>8, <3>1
  <2> QED
    BY <2>3, <2>6, <2>7, <2>8
<1> QED
  BY <1>3, <1>4

LEMMA SettledNext == ASSUME JInv, AInv, ~GaveUp, SettledOK, [Next]_vars PROVE SettledOK'
<1>1. CASE UNCHANGED vars
  BY <1>1 DEF vars, SettledOK
<1>2. ASSUME tx'.pc \notin PastRead PROVE SettledOK'
  BY <1>2 DEF SettledOK
<1>3. ASSUME disk'.tokens = disk.tokens, disk'.journal = disk.journal,
             tx'.pc = "idle" \/ (tx.pc \in PastRead /\ tx'.previous = tx.previous)
      PROVE  SettledOK'
  BY <1>3 DEF SettledOK, Settled, PastRead, Forward, Undo, Restore
<1>4. CASE \/ EnsureDisabled \/ CheckDisabled \/ WriteTransport \/ VerifyTransport \/ VerifyPromoted
           \/ Activate \/ VerifyActive \/ CheckIsOff \/ OffAgain \/ CheckRestoreIsOff \/ RestoreSetting
           \/ VerifyRestored \/ Reactivate \/ VerifyReactivated \/ KeepOff
  BY <1>3, <1>4, HeldSteps
<1>5. CASE RecoverFirst \/ FinalizeCommitted
  <2>1. tx'.pc \in {"idle", "read"}
    BY <1>5, RecoverFirstDoes, FinalizeCommittedDoes DEF Goes, Ends
  <2> QED
    BY <1>2, <2>1 DEF PastRead, Forward, Undo, Restore
<1>6. CASE ReadPrevious
  <2>1. CASE Ends
    BY <1>2, <2>1 DEF Ends, PastRead, Forward, Undo, Restore
  <2>2. CASE tx'.previous = [backend |-> disk.backend, settings |-> Settings(disk),
                             tokens |-> IF Off(disk) THEN Settled(disk) ELSE disk.tokens]
    <3>1. disk' = disk
      BY <1>6, ReadPreviousDoes DEF ReadFrame
    <3>2. tx'.previous.backend = "off" => tx'.previous.tokens = Settled(disk)
      BY <2>2 DEF Off
    <3> QED
      BY <3>1, <3>2 DEF SettledOK
  <2> QED
    BY <1>6, <2>1, <2>2, ReadPreviousDoes
<1>7. CASE DiscardCandidate
  <2>1. disk' = disk
    BY <1>7, DiscardCandidateDoes, DiscardDoes DEF Take, JInv, TypedRest
  <2> QED
    BY <1>3, <1>7, <2>1, DiscardCandidateDoes DEF Goes, Same, PastRead, Undo
<1>8. CASE Begin
  <2>1. tx'.pc \in {"read", "recover"}
    BY <1>8 DEF Begin, NoTx
  <2> QED
    BY <1>2, <2>1 DEF PastRead, Forward, Undo, Restore
<1>9. CASE Reload \/ Crash
  BY <1>2, <1>9, NoTxHas DEF Reload, Crash, PastRead, Forward, Undo, Restore
<1>10. CASE \/ ConnectDropbox \/ ResolvePending \/ AccessToken \/ RetryFinalize \/ SwitchOff
            \/ DisconnectDropbox \/ Start
  <2>1. tx' = tx /\ tx.pc = "idle"
    BY <1>10 DEF ConnectDropbox, ResolvePending, AccessToken, RetryFinalize, SwitchOff, DisconnectDropbox,
       Start, Idle, JInv, UpOK
  <2> QED
    BY <1>2, <2>1 DEF PastRead, Forward, Undo, Restore
<1> QED
  BY <1>1, <1>4, <1>5, <1>6, <1>7, <1>8, <1>9, <1>10, PromoteCredentialsSettles, RollbackCredentialsSettles
     DEF Next, Transaction

\* A step other than the last two keeps the outcome, or ends with another one.
Undecided == tx'.outcome = tx.outcome \/ (tx'.pc = "idle" /\ tx'.outcome # "restored")

LEMMA AtUndecided ==
    ASSUME JInv, NEW p PROVE At(p).outcome = tx.outcome /\ At(p) = [tx EXCEPT !.pc = p]
  BY DEF At, JInv, TypedTx, Transactions

LEMMA AbortedUndecided == ASSUME JInv PROVE Aborted.outcome = tx.outcome /\ Aborted \in Transactions
  BY AtUndecided, AbortedHas DEF Aborted, JInv

LEMMA EndUndecided ==
    ASSUME NEW o, tx' = End(o) PROVE tx'.pc = "idle" /\ tx'.outcome = o
  BY DEF End, NoTx

LEMMA StepsUndecided ==
    ASSUME JInv, Transaction, ~Reactivate, ~VerifyReactivated PROVE Undecided
<1>0. /\ tx \in Transactions
      /\ \A p : At(p).outcome = tx.outcome /\ At(p) = [tx EXCEPT !.pc = p]
      /\ Aborted.outcome = tx.outcome /\ Aborted \in Transactions
      /\ \A p \in PCs : At(p) \in Transactions
  BY AtUndecided, AbortedUndecided DEF JInv, TypedTx, Transactions, PCs
<1>fa. ASSUME NEW p, NEW x, tx' = [At(p) EXCEPT !.failed = x] PROVE Undecided
  BY <1>0, <1>fa DEF Undecided, Transactions
<1>to. ASSUME NEW p, NEW x, tx' = [At(p) EXCEPT !.todo = x] PROVE Undecided
  BY <1>0, <1>to DEF Undecided, Transactions
<1>pm. ASSUME NEW p, NEW x, tx' = [At(p) EXCEPT !.promoted = x] PROVE Undecided
  BY <1>0, <1>pm DEF Undecided, Transactions
<1>of. ASSUME NEW p, NEW x, tx' = [At(p) EXCEPT !.offError = x] PROVE Undecided
  BY <1>0, <1>of DEF Undecided, Transactions
<1>cr. ASSUME NEW p, NEW x, tx' = [At(p) EXCEPT !.credError = x] PROVE Undecided
  BY <1>0, <1>cr DEF Undecided, Transactions
<1>pv. ASSUME NEW p, NEW x, tx' = [At(p) EXCEPT !.previous = x] PROVE Undecided
  BY <1>0, <1>pv DEF Undecided, Transactions
<1>at. ASSUME NEW p, tx' = At(p) PROVE Undecided
  BY <1>0, <1>at DEF Undecided
<1>ab. ASSUME tx' = Aborted PROVE Undecided
  BY <1>0, <1>ab DEF Undecided
<1>tc. ASSUME NEW x, tx' = [Aborted EXCEPT !.touched = x] PROVE Undecided
  BY <1>0, <1>tc DEF Undecided, Transactions
<1>en. ASSUME NEW o, o # "restored", tx' = End(o) PROVE Undecided
  BY <1>en, EndUndecided DEF Undecided
<1>1. CASE RecoverFirst
  BY <1>0, <1>1, EndUndecided DEF RecoverFirst, Undecided
<1>2. CASE ReadPrevious
  <2>1. tx' = End("refused") \/ \E f : tx' = [At("disable") EXCEPT !.previous = f]
    BY <1>2 DEF ReadPrevious, Read
  <2> QED
    BY <1>en, <1>pv, <2>1
<1>3. CASE EnsureDisabled
  <2>1. \/ tx' = Aborted \/ \E p : tx' = At(p)
        \/ tx' = [At("keepOff") EXCEPT !.failed = TRUE]
    BY <1>3 DEF EnsureDisabled, Write
  <2> QED
    BY <1>ab, <1>at, <1>fa, <2>1
<1>4. CASE CheckDisabled
  <2>1. \/ tx' = Aborted \/ \E x : tx' = [At("write") EXCEPT !.todo = x]
        \/ \E x : tx' = [Aborted EXCEPT !.touched = x]
    BY <1>4 DEF CheckDisabled, Read
  <2> QED
    BY <1>ab, <1>to, <1>tc, <2>1
<1>5. CASE WriteTransport
  <2>1. \/ \E s : tx' = [Aborted EXCEPT !.touched = @ \cup {s}]
        \/ \E s, p : tx' = [At(p) EXCEPT !.touched = @ \cup {s}, !.todo = Tail(@)]
    BY <1>5 DEF WriteTransport, Write
  <2>2. ASSUME NEW s, tx' = [Aborted EXCEPT !.touched = @ \cup {s}] PROVE Undecided
    BY <1>0, <2>2 DEF Undecided, Transactions
  <2>3. ASSUME NEW s, NEW p, tx' = [At(p) EXCEPT !.touched = @ \cup {s}, !.todo = Tail(@)] PROVE Undecided
    BY <1>0, <2>3 DEF Undecided, Transactions
  <2> QED
    BY <2>1, <2>2, <2>3
<1>6. CASE VerifyTransport \/ VerifyPromoted
  <2>1. tx' = Aborted \/ \E p : tx' = At(p)
    BY <1>6 DEF VerifyTransport, VerifyPromoted, Read
  <2> QED
    BY <1>0, <2>1 DEF Undecided
<1>7. CASE PromoteCredentials
  <2>1. PICK p \in {"promoted", "off"} : tx' = [At(p) EXCEPT !.promoted = TRUE]
    BY <1>7 DEF PromoteCredentials, Native
  <2> QED
    BY <1>pm, <2>1
<1>8. CASE Activate
  BY <1>0, <1>8 DEF Activate, Write, Undecided
<1>9. CASE VerifyActive
  <2>1. tx' = Aborted \/ tx' = At("finalize") \/ tx' = End("committed")
    BY <1>9 DEF VerifyActive, Read
  <2> QED
    BY <1>0, <2>1, EndUndecided DEF Undecided
<1>10. CASE FinalizeCommitted
  BY <1>10, EndUndecided DEF FinalizeCommitted, Undecided
<1>11. CASE DiscardCandidate
  BY <1>0, <1>11 DEF DiscardCandidate, Native, Undecided
<1>12. CASE CheckIsOff
  BY <1>0, <1>12 DEF CheckIsOff, Read, Undecided
<1>13. CASE OffAgain
  <2>1. tx' = [At("rollback") EXCEPT !.offError = TRUE]
    BY <1>13 DEF OffAgain, Write
  <2> QED
    BY <1>of, <2>1
<1>14. CASE RollbackCredentials
  <2>1. tx' = End("disabled") \/ \E x : tx' = [At("restoreOff") EXCEPT !.credError = x]
    BY <1>14 DEF RollbackCredentials, Native
  <2> QED
    BY <1>en, <1>cr, <2>1
<1>15. CASE CheckRestoreIsOff
  <2>1. tx' = At("restore") \/ tx' = [At("keepOff") EXCEPT !.failed = TRUE]
    BY <1>15 DEF CheckRestoreIsOff, Read
  <2> QED
    BY <1>at, <1>fa, <2>1
<1>16. CASE RestoreSetting
  <2>1. \E s, f : tx' = [tx EXCEPT !.touched = @ \ {s}, !.failed = f]
    <3>1. PICK s \in tx.touched :
            IF Restorable(s)
            THEN \E a \in Written(s, tx.previous.settings[s]) :
                   tx' = [tx EXCEPT !.touched = @ \ {s}, !.failed = tx.failed \/ ~(a.ok)]
            ELSE tx' = [tx EXCEPT !.touched = @ \ {s}, !.failed = TRUE]
      BY <1>0, <1>16 DEF RestoreSetting, Write, Transactions
    <3> QED
      BY <3>1
  <2>2. PICK s, f : tx' = [tx EXCEPT !.touched = @ \ {s}, !.failed = f]
    BY <2>1
  <2> QED
    BY <1>0, <2>2 DEF Undecided, Transactions
<1>17. CASE VerifyRestored
  <2>1. tx' = At("keepOff") \/ tx' = At("reactivate") \/ tx' = [At("keepOff") EXCEPT !.failed = TRUE]
    BY <1>17 DEF VerifyRestored, Read
  <2> QED
    BY <1>at, <1>fa, <2>1
<1>18. CASE KeepOff
  BY <1>18, EndUndecided DEF KeepOff, Write, Undecided
<1> QED
  BY <1>1, <1>2, <1>3, <1>4, <1>5, <1>6, <1>7, <1>8, <1>9, <1>10, <1>11, <1>12, <1>13, <1>14, <1>15, <1>16,
     <1>17, <1>18 DEF Transaction

\* Only Reactivate switches the old configuration on again.
LEMMA StepsElsewhere ==
    ASSUME JInv, Transaction, ~Reactivate PROVE tx.pc # "idle" /\ tx'.pc # "reactivated"
<1> USE DEF Goes, Aborts, Aborting, Ends
<1>1. CASE EnsureDisabled
  BY <1>1, EnsureDisabledDoes
<1>2. CASE CheckDisabled \/ WriteTransport \/ VerifyTransport \/ VerifyPromoted
  BY <1>2, CheckDisabledDoes, WriteTransportDoes, VerifyTransportDoes, VerifyPromotedDoes
<1>3. CASE Activate \/ VerifyActive \/ CheckIsOff \/ OffAgain
  BY <1>3, ActivateDoes, VerifyActiveDoes, CheckIsOffDoes, OffAgainDoes
<1>4. CASE CheckRestoreIsOff \/ RestoreSetting \/ VerifyRestored \/ VerifyReactivated \/ KeepOff
  BY <1>4, CheckRestoreIsOffDoes, RestoreSettingDoes, VerifyRestoredDoes, VerifyReactivatedDoes, KeepOffDoes
<1>5. CASE RecoverFirst \/ ReadPrevious \/ PromoteCredentials \/ FinalizeCommitted \/ DiscardCandidate
  BY <1>5, RecoverFirstDoes, ReadPreviousDoes, PromoteCredentialsDoes, FinalizeCommittedDoes,
     DiscardCandidateDoes
<1>6. CASE RollbackCredentials
  <2>1. Ends \/ \E bad : Restores(bad)
    BY <1>6, RollbackCredentialsDoes, Zenon
  <2> QED
    BY <1>6, <2>1, RollbackCredentialsDoes DEF Restores
<1> QED
  BY <1>1, <1>2, <1>3, <1>4, <1>5, <1>6 DEF Transaction

\* The two steps that end a transaction as restored.
LEMMA LastSteps ==
    ASSUME JInv, Reactivate \/ VerifyReactivated
    PROVE  /\ tx'.pc # "idle" => tx'.outcome = tx.outcome
           /\ tx'.pc = "reactivated" => ~tx'.credError /\ tx'.previous.backend # "off"
<1>1. CASE Reactivate
  <2>1. \/ Ends
        \/ /\ ~tx.credError /\ tx.previous.backend # "off" /\ Goes("reactivated")
           /\ \E x : tx' = [At("reactivated") EXCEPT !.failed = x]
    <3>1. CASE tx.credError \/ tx.previous.backend = "off"
      <4>1. tx' = End(IF tx.credError THEN "disabled" ELSE "restored")
        BY <1>1, <3>1 DEF Reactivate
      <4> QED
        BY <4>1, EndEnds
    <3>2. CASE ~(tx.credError \/ tx.previous.backend = "off")
      <4>1. PICK x : tx' = [At("reactivated") EXCEPT !.failed = x]
        BY <1>1, <3>2 DEF Reactivate, Write
      <4>2. tx'.pc = "reactivated"
        BY <4>1, AtUndecided DEF JInv, TypedTx, Transactions
      <4> QED
        BY <1>1, <3>2, <4>1, <4>2, ReactivateDoes DEF Ends
    <3> QED
      BY <3>1, <3>2
  <2>2. ASSUME NEW x, tx' = [At("reactivated") EXCEPT !.failed = x] PROVE tx'.outcome = tx.outcome
    BY <2>2, AtUndecided DEF JInv, TypedTx, Transactions
  <2> QED
    BY <2>1, <2>2 DEF Ends, Goes, Same, Flags
<1>2. CASE VerifyReactivated
  <2>1. tx' = End("restored") \/ tx' = [At("keepOff") EXCEPT !.failed = TRUE]
    BY <1>2 DEF VerifyReactivated, Read
  <2>2. CASE tx' = End("restored")
    BY <2>2, EndUndecided
  <2>3. CASE tx' = [At("keepOff") EXCEPT !.failed = TRUE]
    BY <2>3, AtUndecided DEF JInv, TypedTx, Transactions
  <2> QED
    BY <2>1, <2>2, <2>3
<1> QED
  BY <1>1, <1>2

LEMMA OutcomeNext == ASSUME JInv, OutcomeOK, [Next]_vars PROVE OutcomeOK'
<1>1. CASE UNCHANGED vars
  BY <1>1 DEF vars, OutcomeOK
<1>2. CASE Transaction /\ ~Reactivate /\ ~VerifyReactivated
  BY <1>2, StepsUndecided, StepsElsewhere DEF OutcomeOK, Undecided
<1>3. CASE Reactivate \/ VerifyReactivated
  <2>1. tx.pc # "idle"
    BY <1>3 DEF Reactivate, VerifyReactivated
  <2> QED
    BY <1>3, <2>1, LastSteps DEF OutcomeOK
<1>4. CASE Begin
  <2>1. tx'.pc \in {"read", "recover"} /\ tx'.outcome = "none"
    BY <1>4 DEF Begin, NoTx
  <2> QED
    BY <2>1 DEF OutcomeOK
<1>5. CASE Reload \/ Crash
  BY <1>5, NoTxHas DEF Reload, Crash, OutcomeOK
<1>6. CASE \/ ConnectDropbox \/ ResolvePending \/ AccessToken \/ RetryFinalize \/ SwitchOff
           \/ DisconnectDropbox \/ Start
  <2>1. tx' = tx
    BY <1>6 DEF ConnectDropbox, ResolvePending, AccessToken, RetryFinalize, SwitchOff, DisconnectDropbox, Start
  <2> QED
    BY <2>1 DEF OutcomeOK
<1> QED
  BY <1>1, <1>2, <1>3, <1>4, <1>5, <1>6 DEF Next

\* The step that RestoredExactly allows.
Exactly ==
    tx.pc # "idle" /\ tx'.outcome = "restored"
    => /\ disk'.backend = tx.previous.backend /\ Settings(disk') = tx.previous.settings
       /\ disk'.tokens = tx.previous.tokens

LEMMA ReactivateExact ==
    ASSUME JInv, SettledOK, OutcomeOK, ~TornUndone, Reactivate PROVE Exactly
<1>1. tx.pc = "reactivate" /\ Off(disk) /\ Settings(disk) = tx.previous.settings /\ tx.outcome = "none"
  BY DEF Reactivate, JInv, OffOK, ReadOK, OutcomeOK
<1>2. SUFFICES ASSUME tx'.outcome = "restored"
               PROVE  /\ disk' = disk /\ tx.previous.backend = "off" /\ disk.tokens = tx.previous.tokens
  BY <1>1, <1>2 DEF Exactly, Off
<1>3. tx'.pc = "idle"
  BY <1>1, <1>2, LastSteps
<1>4. ~tx.credError /\ tx.previous.backend = "off" /\ disk' = disk
  <2>1. CASE tx.credError \/ tx.previous.backend = "off"
    <3>1. tx' = End(IF tx.credError THEN "disabled" ELSE "restored") /\ disk' = disk
      BY <2>1 DEF Reactivate
    <3>2. ~tx.credError
      BY <1>2, <3>1, EndUndecided
    <3> QED
      BY <2>1, <3>1, <3>2
  <2>2. CASE ~(tx.credError \/ tx.previous.backend = "off")
    <3>1. PICK x : tx' = [At("reactivated") EXCEPT !.failed = x]
      BY <2>2 DEF Reactivate, Write
    <3>2. tx'.pc = "reactivated"
      BY <3>1, AtUndecided DEF JInv, TypedTx, Transactions
    <3> QED
      BY <1>3, <3>2
  <2> QED
    BY <2>1, <2>2
<1>5. Settled(disk) = tx.previous.tokens
  BY <1>1, <1>4 DEF SettledOK, PastRead, Restore
<1>6. CASE tx.promoted
  <2>1. ~disk.journal.open
    BY <1>1, <1>4, <1>6 DEF JInv, JournalOK, Restore
  <2> QED
    BY <1>4, <1>5, <2>1 DEF Settled
<1>7. CASE ~tx.promoted
  BY <1>1, <1>4, <1>5, <1>7 DEF TornUndone, Torn, Settled
<1> QED
  BY <1>6, <1>7

LEMMA VerifyReactivatedExact ==
    ASSUME JInv, AInv, OutcomeOK, VerifyReactivated PROVE Exactly
<1>1. tx.pc = "reactivated" /\ disk' = disk /\ tx.outcome = "none"
  BY DEF VerifyReactivated, Read, OutcomeOK
<1>2. SUFFICES ASSUME tx'.outcome = "restored"
               PROVE  Matches(tx.previous.backend, tx.previous.settings) /\ disk.tokens = tx.previous.tokens
  BY <1>1, <1>2 DEF Exactly, Matches
<1>3. tx'.pc = "idle"
  BY <1>1, <1>2, LastSteps
<1>4. [At("keepOff") EXCEPT !.failed = TRUE].pc = "keepOff"
  BY AtUndecided DEF JInv, TypedTx, Transactions
<1>5. Matches(tx.previous.backend, tx.previous.settings)
  BY <1>3, <1>4 DEF VerifyReactivated, Read
<1>6. ~tx.credError /\ tx.previous.backend # "off" /\ tx.pc \in PastRead /\ tx.pc \in Restore
  BY <1>1 DEF OutcomeOK, PastRead, Restore
<1>7. disk.tokens = tx.previous.tokens
  BY <1>6 DEF AInv, FoundOK, JInv, TypedTx, Transactions
<1> QED
  BY <1>5, <1>7

LEMMA ExactNext ==
    ASSUME JInv, AInv, SettledOK, OutcomeOK, ~TornUndone, [Next]_vars PROVE [Exactly]_vars
<1>1. CASE Transaction /\ ~Reactivate /\ ~VerifyReactivated
  BY <1>1, StepsUndecided, StepsElsewhere DEF OutcomeOK, Undecided, Exactly
<1>2. CASE Reactivate \/ VerifyReactivated
  BY <1>2, ReactivateExact, VerifyReactivatedExact
<1>3. CASE Reload \/ Crash
  <2>1. tx'.outcome = "none"
    BY <1>3 DEF Reload, Crash, NoTx
  <2> QED
    BY <2>1 DEF Exactly
<1>4. CASE Next /\ ~Transaction /\ ~(Reload \/ Crash)
  <2>1. tx.pc = "idle"
    BY <1>4 DEF Next, Begin, ConnectDropbox, ResolvePending, AccessToken, RetryFinalize, SwitchOff,
       DisconnectDropbox, Start, Idle, JInv, UpOK
  <2> QED
    BY <2>1 DEF Exactly
<1> QED
  BY <1>1, <1>2, <1>3, <1>4 DEF Transaction

\* A transaction that ends with the error of its step, and does not say that
\* sync is left disabled, has restored backend, settings and credentials exactly
\* as it found them: for any candidates, faults, reloads and crashes, as long as
\* no transaction gives up with sync switched on and none is undone over a
\* journal that an earlier one has left torn.
THEOREM RestoredUnlessTorn == Spec /\ []~GaveUp /\ []~TornUndone => RestoredExactly
<1>1. ASSUME Init PROVE SettledOK /\ OutcomeOK
  BY <1>1, NoTxHas DEF Init, SettledOK, OutcomeOK, PastRead, Forward, Undo, Restore
<1>2. Spec /\ []~GaveUp => []AInv
  BY AInvInit, AInvNext, JInvAlways, PTL DEF Spec
<1>3. Spec /\ []~GaveUp => []SettledOK
  BY <1>1, <1>2, SettledNext, JInvAlways, PTL DEF Spec
<1>4. Spec => []OutcomeOK
  BY <1>1, OutcomeNext, JInvAlways, PTL DEF Spec
<1> QED
  BY <1>2, <1>3, <1>4, ExactNext, JInvAlways, PTL DEF Spec, RestoredExactly, Exactly

\* With at most two faults, as in the runs, neither of the two exceptions is
\* reached, and what ends as restored is restored.
THEOREM RestoredWithinTwoFaults == ASSUME MaxFaults <= 2 PROVE Spec => RestoredExactly
<1>1. ASSUME JInv PROVE ~GaveUp
  BY <1>1, SyncConfigurationAssumption DEF JInv, FaultsOK, GaveUp, TypedRest
<1>2. ASSUME JInv, TornUndone => faults >= 3 PROVE ~TornUndone
  BY <1>2, SyncConfigurationAssumption DEF JInv, TypedRest
<1> QED
  BY <1>1, <1>2, JInvAlways, TornTakesThree, RestoredUnlessTorn, PTL
=============================================================================
