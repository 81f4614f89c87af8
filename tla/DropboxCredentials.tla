------------------------- MODULE DropboxCredentials -------------------------
(* The native commands that change the Dropbox credentials of the desktop    *)
(* app (apps/desktop/src-tauri/src/sync.rs), as the set of outcomes of each: *)
(* what was answered, what is durable (d), what native memory holds (s), and *)
(* whether a storage fault was needed (cost). The commands exclude each      *)
(* other; an outcome that ends early is also what a crash may leave behind.  *)
(*                                                                           *)
(* Credential bundles are numbers. The keyring and its fallback file are one *)
(* store here, and the raw backend and its marker are one value.             *)
EXTENDS Naturals

NoJournal == [previous |-> 0, candidate |-> 0, open |-> FALSE]

\* The journal of a promotion of bundle k over the bundle in use.
JournalOf(d, k) == [previous |-> d.tokens, candidate |-> k, open |-> TRUE]

\* Native memory: the bundle of an authorization that is not finalized yet.
NoEntry == [phase |-> "none", tokens |-> 0, previous |-> 0]
Candidate(k) == [phase |-> "candidate", tokens |-> k, previous |-> 0]
Promoted(e, p) == [e EXCEPT !.phase = "promoted", !.previous = p]

Answer(ok, d, s, cost) == [ok |-> ok, disk |-> d, staged |-> s, cost |-> cost]

Off(d) == d.backend = "off"

\* The backend is the commit marker of a promotion.
Committed(d) == d.backend = "cloud" /\ d.provider = "dropbox"

\* The two durable steps of undoing a promotion: previous bundle, then journal.
Reverted(d) == [d EXCEPT !.tokens = d.journal.previous]
Cleared(d) == [d EXCEPT !.journal = NoJournal]

-----------------------------------------------------------------------------
\* recover_dropbox_credentials. A failed attempt switches sync off and tries
\* once more, unless Dropbox is already the committed backend.
RecoverSettled(d) ==
  IF ~d.journal.open THEN <<TRUE, d>>
  ELSE IF Committed(d)
  THEN IF d.tokens = d.journal.candidate THEN <<TRUE, Cleared(d)>> ELSE <<FALSE, d>>
  ELSE IF d.backend = "cloud"
  THEN <<FALSE, [Cleared(Reverted(d)) EXCEPT !.backend = "off"]>>
  ELSE <<TRUE, Cleared(Reverted(d))>>

\* Where a recovery with a storage fault may stop.
RecoverStopped(d) ==
  LET reached == IF ~d.journal.open THEN {d}
                 ELSE IF Committed(d) THEN {d, Cleared(d)}
                 ELSE {d, Reverted(d), Cleared(Reverted(d))}
  IN  reached \cup (IF Committed(d) THEN {} ELSE {[r EXCEPT !.backend = "off"] : r \in reached})

Recover(d, s) ==
  {Answer(RecoverSettled(d)[1], RecoverSettled(d)[2], s, 0)}
    \cup {Answer(FALSE, r, s, 1) : r \in RecoverStopped(d)}

\* recover_dropbox_credentials_before_sync_configuration: once settled, the
\* memory of a promotion is dropped too.
RecoverBefore(d, s) ==
  {[r EXCEPT !.staged = IF r.ok /\ s.phase = "promoted" THEN NoEntry ELSE s] : r \in Recover(d, s)}

\* connect_dropbox: an authorization is staged when no journal is left.
Stage(d, s, k) ==
  {[r EXCEPT !.staged = IF r.ok THEN Candidate(k) ELSE r.staged] : r \in RecoverBefore(d, s)}

\* Mutant: the bundle is replaced without a journal.
PromoteUnjournaled(d, s) ==
  IF Off(d) /\ s.phase = "candidate"
  THEN {Answer(TRUE, [d EXCEPT !.tokens = s.tokens], Promoted(s, d.tokens), 0)}
  ELSE {Answer(FALSE, d, s, 0)}

\* promote_staged_dropbox_credentials, after its own recovery. The bundle is
\* replaced only when the journal holds the one before it.
Promote(d, s) ==
  UNION {LET w == [r.disk EXCEPT !.journal = JournalOf(r.disk, s.tokens)]
             p == Promoted(s, r.disk.tokens)
         IN  IF ~r.ok \/ ~Off(r.disk) \/ s.phase # "candidate"
             THEN {[r EXCEPT !.ok = FALSE]}
             ELSE {Answer(TRUE, [w EXCEPT !.tokens = s.tokens], p, r.cost),
                   Answer(FALSE, r.disk, s, 1), Answer(FALSE, w, s, 1), Answer(FALSE, w, p, 1),
                   Answer(FALSE, [w EXCEPT !.tokens = s.tokens], p, 1)}
         : r \in Recover(d, s)}

\* rollback_staged_dropbox_credentials
Rollback(d, s) ==
  IF ~Off(d) \/ s.phase = "none" THEN {Answer(FALSE, d, s, 0)}
  ELSE UNION {LET w == [r.disk EXCEPT !.tokens = s.previous]
              IN  IF ~r.ok THEN {r}
                  ELSE IF s.phase = "candidate" THEN {[r EXCEPT !.staged = NoEntry]}
                  ELSE {Answer(TRUE, w, NoEntry, r.cost), Answer(FALSE, r.disk, s, 1), Answer(FALSE, w, s, 1)}
              : r \in Recover(d, s)}

\* discard_staged_dropbox_credentials
Discard(d, s) ==
  {Answer(s.phase # "promoted", d, IF s.phase = "promoted" THEN s ELSE NoEntry, 0), Answer(FALSE, d, s, 1)}

\* finalize_staged_dropbox_credentials: records the authorization k as resolved,
\* forgets the entry and clears the journal; repeated, it goes by the record.
Finalize(d, s, k) ==
  LET w == [d EXCEPT !.resolved = k]
      known == s.phase = "none" /\ d.resolved = k /\ d.tokens = k
      first == s.phase = "promoted" /\ d.tokens = k /\ (d.journal.open => d.journal.candidate = k)
  IN  IF ~Committed(d) \/ ~(known \/ first) THEN {Answer(FALSE, d, s, 0)}
      ELSE {Answer(TRUE, Cleared(w), NoEntry, 0), Answer(FALSE, d, s, 1), Answer(FALSE, w, s, 1),
            Answer(FALSE, w, NoEntry, 1), Answer(FALSE, Cleared(w), NoEntry, 1)}

\* disconnect_dropbox: the bundle is cleared, unless Dropbox is the backend or
\* a journal is left.
Disconnect(d, s) ==
  LET w == [d EXCEPT !.tokens = 0] IN
  IF Committed(d) \/ d.journal.open THEN {Answer(FALSE, d, s, 0)}
  ELSE {Answer(TRUE, w, NoEntry, 0), Answer(FALSE, d, s, 1), Answer(FALSE, w, s, 1)}
==============================================================================
