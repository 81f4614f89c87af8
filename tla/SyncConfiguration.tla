------------------------- MODULE SyncConfiguration --------------------------
(* Changing the sync backend of the desktop app: the transaction of          *)
(* packages/core/src/sync-configuration-transaction.ts over settings that    *)
(* are stored one by one, with the credential journal of the native side,    *)
(* when any write or read may fail, also after it took effect, and the page  *)
(* may reload or the app crash between any two of them.                      *)
(*                                                                           *)
(* The backend is the activation flag. A setting is the number of the        *)
(* candidate it came from, 1 for what was there at first. Transactions and   *)
(* the other operations exclude each other (runSyncRestoreExclusive).        *)
EXTENDS Naturals, Sequences, DropboxCredentials

CONSTANTS
  Kinds,         \* the candidates to explore, of CandidateKinds
  Priors,        \* whether the first secrets can be read: see prior
  MaxCandidates, \* bound: candidates and authorizations
  MaxFaults,     \* bound: failed reads and writes
  MaxCrashes     \* bound: reloads and crashes

CandidateKinds == {"file", "webdav", "selfhosted", "dropbox", "kept"}

ASSUME SyncConfigurationAssumption ==
  /\ Kinds \subseteq CandidateKinds
  /\ Priors \subseteq {"known", "opaque", "clean"}
  /\ MaxCandidates \in Nat \ {0} /\ MaxFaults \in Nat /\ MaxCrashes \in Nat

VARIABLES
  disk,     \* what is durable
  staged,   \* native memory
  tx,       \* the transaction of the page
  pending,  \* the page's authorization that is not committed
  cleanup,  \* the page's committed authorization that is not finalized
  up,       \* the app runs
  prior,    \* "known", "opaque" (unreadable) or "clean" (unreadable, unused)
  proven,   \* what an activation probe has shown to work
  count,    \* candidates and authorizations so far
  faults,
  crashes

vars == <<disk, staged, tx, pending, cleanup, up, prior, proven, count, faults, crashes>>

\* A setting of which only a part was written.
Mixed == 0

Slots == {"path", "webdav", "cloud", "provider"}
Settings(d) == [s \in Slots |-> d[s]]

\* Settings with their secret in another store.
Compound == {"webdav", "cloud"}

Handle(kind) == kind = "dropbox"

Backend(kind) == IF kind \in {"file", "webdav"} THEN kind ELSE "cloud"

\* The settings a candidate writes, in order, and their values.
Writes(kind) ==
  CASE kind = "file" -> <<"path">>
    [] kind = "webdav" -> <<"webdav">>
    [] kind = "selfhosted" -> <<"cloud", "provider">>
    [] OTHER -> <<"provider">>

Value(kind, slot, n) ==
  IF slot # "provider" THEN n ELSE IF kind = "selfhosted" THEN "selfhosted" ELSE "dropbox"

\* The transport in use, with the setting or credentials it depends on.
Transport(d) ==
  CASE d.backend = "cloud" /\ d.provider = "dropbox" -> <<"dropbox", d.tokens>>
    [] d.backend = "cloud" /\ d.provider = "selfhosted" -> <<"selfhosted", d.cloud>>
    [] d.backend = "file" -> <<"file", d.path>>
    [] OTHER -> <<"webdav", d.webdav>>

NoPrevious == [backend |-> "off", settings |-> [s \in Slots |-> Mixed], tokens |-> 0]

NoTx == [pc |-> "idle", kind |-> "file", n |-> 0, previous |-> NoPrevious, touched |-> {},
         todo |-> <<>>, promoted |-> FALSE, offError |-> FALSE, credError |-> FALSE,
         failed |-> FALSE, outcome |-> "none"]

Init ==
  /\ prior \in Priors
  /\ \E b \in {"off"} \cup {Backend(k) : k \in Kinds}, p \in {"selfhosted", "dropbox"} :
       /\ prior = "clean" => b \in {"off", "file"} \/ (b = "cloud" /\ p = "dropbox")
       /\ disk = [backend |-> b, path |-> 1, webdav |-> 1, cloud |-> 1, provider |-> p, tokens |-> 1,
                  journal |-> NoJournal, resolved |-> 0]
       /\ proven = IF b = "off" THEN {} ELSE {Transport(disk)}
  /\ staged = NoEntry /\ tx = NoTx /\ pending = 0 /\ cleanup = 0 /\ up = TRUE
  /\ count = 1 /\ faults = 0 /\ crashes = 0

-----------------------------------------------------------------------------
(* Steps of the transaction.                                                 *)

\* A write answers what it did, or it fails: before it, after it, half-way,
\* or unnoticed.
Written(slot, v) ==
  LET w == [disk EXCEPT ![slot] = v]
      half == IF slot \in Compound THEN {[disk EXCEPT ![slot] = Mixed]} ELSE {}
  IN  {Answer(TRUE, w, staged, 0), Answer(TRUE, disk, staged, 1)}
        \cup {Answer(FALSE, d, staged, 1) : d \in {disk, w} \cup half}

Take(a) ==
  /\ faults + a.cost <= MaxFaults
  /\ disk' = a.disk /\ staged' = a.staged /\ faults' = faults + a.cost

\* A step of the transaction that writes.
Write(slot, v, Then(_)) ==
  /\ \E a \in Written(slot, v) : Take(a) /\ tx' = Then(a.ok)
  /\ UNCHANGED <<pending, cleanup, up, prior, proven, count, crashes>>

\* A step that reads and compares.
Read(matches, Then(_)) ==
  /\ \/ tx' = Then(matches) /\ UNCHANGED faults
     \/ faults < MaxFaults /\ faults' = faults + 1 /\ tx' = Then(FALSE)
  /\ UNCHANGED <<disk, staged, pending, cleanup, up, prior, proven, count, crashes>>

\* A step that asks the native side; forget: what it resolves when it answers.
Native(answers, forget, Then(_)) ==
  /\ \E a \in answers :
       /\ Take(a)
       /\ tx' = Then(a)
       /\ pending' = IF a.ok /\ forget THEN 0 ELSE pending
  /\ UNCHANGED <<cleanup, up, prior, proven, count, crashes>>

At(pc) == [tx EXCEPT !.pc = pc]

End(outcome) == [NoTx EXCEPT !.outcome = outcome]

Aborted == At(IF Handle(tx.kind) /\ ~tx.promoted THEN "discard" ELSE "off")

\* configurationMatches, for the settings a candidate has replaced or not.
Matches(backend, settings) == disk.backend = backend /\ Settings(disk) = settings

Expected ==
  [s \in Slots |-> IF \E i \in DOMAIN Writes(tx.kind) : Writes(tx.kind)[i] = s
                   THEN Value(tx.kind, s, tx.n) ELSE tx.previous.settings[s]]

\* commitProvenSyncConfiguration is called after a successful probe. With a
\* staged authorization it leaves recovery to the promotion. "kept" is Dropbox
\* with the credentials in use, which a probe asks for after recovery.
Begin ==
  /\ up /\ tx.pc = "idle"
  /\ \E kind \in Kinds :
       LET n == IF Handle(kind) THEN pending ELSE count + 1 IN
       /\ IF Handle(kind) THEN pending # 0 /\ UNCHANGED count
          ELSE IF kind = "kept" THEN disk.tokens # 0 /\ ~disk.journal.open /\ UNCHANGED count
          ELSE count < MaxCandidates /\ count' = n
       /\ tx' = [NoTx EXCEPT !.pc = IF Handle(kind) THEN "read" ELSE "recover", !.kind = kind, !.n = n]
       /\ proven' = proven \cup {IF Backend(kind) = "cloud" /\ kind # "selfhosted"
                                 THEN <<"dropbox", IF kind = "kept" THEN disk.tokens ELSE n>>
                                 ELSE <<kind, n>>}
  /\ UNCHANGED <<disk, staged, pending, cleanup, up, prior, faults, crashes>>

RecoverFirst ==
  /\ tx.pc = "recover"
  /\ \E a \in RecoverBefore(disk, staged) :
       /\ Take(a)
       /\ tx' = IF a.ok THEN At("read") ELSE End("refused")
       /\ cleanup' = IF a.ok THEN 0 ELSE cleanup
  /\ UNCHANGED <<pending, up, prior, proven, count, crashes>>

\* The tokens are not read; they are kept here, as a recovery would settle
\* them, to state what a rollback restores.
ReadPrevious ==
  /\ tx.pc = "read"
  /\ Read(TRUE, LAMBDA ok :
       IF ok THEN [At("disable") EXCEPT !.previous =
                     [backend |-> disk.backend, settings |-> Settings(disk),
                      tokens |-> RecoverSettled(disk)[2].tokens]]
       ELSE End("refused"))

\* Mutant: the answer to the write is enough.
EnsureDisabledUnread ==
  /\ tx.pc \in {"disable", "off", "restoreOff"}
  /\ Write("backend", "off", LAMBDA ok :
       CASE tx.pc = "disable" -> IF ok THEN [At("write") EXCEPT !.todo = Writes(tx.kind)] ELSE Aborted
         [] tx.pc = "off" -> IF ok THEN At("rollback") ELSE At("offAgain")
         [] OTHER -> IF ok THEN At("restore") ELSE [At("keepOff") EXCEPT !.failed = TRUE])

\* ensureBackendDisabled, called to begin, to abort and to restore: writes off
\* and reads it back.
EnsureDisabled ==
  /\ tx.pc \in {"disable", "off", "restoreOff"}
  /\ Write("backend", "off", LAMBDA ok :
       CASE tx.pc = "disable" -> IF ok THEN At("disabled") ELSE Aborted
         [] tx.pc = "off" -> IF ok THEN At("isOff") ELSE At("offAgain")
         [] OTHER -> IF ok THEN At("restoreIsOff") ELSE [At("keepOff") EXCEPT !.failed = TRUE])

CheckDisabled ==
  /\ tx.pc = "disabled"
  /\ Read(Off(disk), LAMBDA ok :
       IF ~ok THEN Aborted
       ELSE IF Matches("off", tx.previous.settings) THEN [At("write") EXCEPT !.todo = Writes(tx.kind)]
       ELSE [Aborted EXCEPT !.touched = {s \in Slots : disk[s] # tx.previous.settings[s]}])

\* writeCandidateTransport, setting by setting.
WriteTransport ==
  /\ tx.pc = "write"
  /\ LET s == Head(tx.todo) IN
     Write(s, Value(tx.kind, s, tx.n), LAMBDA ok :
       IF ~ok THEN [Aborted EXCEPT !.touched = @ \cup {s}]
       ELSE [At(IF Len(tx.todo) = 1 THEN "verify" ELSE "write")
               EXCEPT !.touched = @ \cup {s}, !.todo = Tail(@)])

VerifyTransport ==
  /\ tx.pc = "verify"
  /\ Read(Matches("off", Expected), LAMBDA ok :
       IF ok THEN At(IF Handle(tx.kind) THEN "promote" ELSE "activate") ELSE Aborted)

PromoteCredentials ==
  /\ tx.pc = "promote"
  /\ Native(Promote(disk, staged), FALSE, LAMBDA a :
       [At(IF a.ok THEN "promoted" ELSE "off") EXCEPT !.promoted = TRUE])

VerifyPromoted ==
  /\ tx.pc = "promoted"
  /\ Read(Matches("off", Expected), LAMBDA ok : IF ok THEN At("activate") ELSE Aborted)

Activate ==
  /\ tx.pc = "activate"
  /\ Write("backend", Backend(tx.kind), LAMBDA ok : IF ok THEN At("active") ELSE Aborted)

VerifyActive ==
  /\ tx.pc = "active"
  /\ Read(Matches(Backend(tx.kind), Expected), LAMBDA ok :
       IF ~ok THEN Aborted ELSE IF Handle(tx.kind) THEN At("finalize") ELSE End("committed"))

\* After the commit: a failure only leaves the cleanup to be repeated.
FinalizeCommitted ==
  /\ tx.pc = "finalize"
  /\ \E a \in Finalize(disk, staged, tx.n) :
       Take(a) /\ cleanup' = (IF a.ok THEN 0 ELSE tx.n)
  /\ tx' = End("committed") /\ pending' = 0
  /\ UNCHANGED <<up, prior, proven, count, crashes>>

-----------------------------------------------------------------------------
(* Undoing it.                                                               *)

DiscardCandidate ==
  /\ tx.pc = "discard"
  /\ Native(Discard(disk, staged), TRUE, LAMBDA a : At("off"))

CheckIsOff ==
  /\ tx.pc = "isOff"
  /\ Read(Off(disk), LAMBDA ok : At(IF ok THEN "rollback" ELSE "offAgain"))

OffAgain ==
  /\ tx.pc = "offAgain"
  /\ Write("backend", "off", LAMBDA ok : [At("rollback") EXCEPT !.offError = TRUE])

\* Credentials are rolled back when their promotion was tried; settings are
\* not touched when sync could not be switched off.
RollbackCredentials ==
  /\ tx.pc = "rollback"
  /\ LET after(bad) == IF tx.offError THEN End("disabled") ELSE [At("restoreOff") EXCEPT !.credError = bad] IN
     IF tx.promoted THEN Native(Rollback(disk, staged), TRUE, LAMBDA a : after(~(a.ok)))
     ELSE tx' = after(FALSE) /\ UNCHANGED <<disk, staged, pending, cleanup, up, prior, proven, count, faults, crashes>>

CheckRestoreIsOff ==
  /\ tx.pc = "restoreIsOff"
  /\ Read(Off(disk), LAMBDA ok :
       IF ok THEN At("restore") ELSE [At("keepOff") EXCEPT !.failed = TRUE])

\* A setting whose old secret cannot be read is not restored, unless it was
\* not in use at all.
Restorable(s) == ~(s \in Compound /\ tx.previous.settings[s] = 1 /\ prior = "opaque")

\* restoreLastProvenConfiguration: the settings that were touched.
RestoreSetting ==
  /\ tx.pc = "restore" /\ tx.touched # {}
  /\ \E s \in tx.touched :
       IF Restorable(s)
       THEN Write(s, tx.previous.settings[s], LAMBDA ok :
              [tx EXCEPT !.touched = @ \ {s}, !.failed = @ \/ ~ok])
       ELSE /\ tx' = [tx EXCEPT !.touched = @ \ {s}, !.failed = TRUE]
            /\ UNCHANGED <<disk, staged, pending, cleanup, up, prior, proven, count, faults, crashes>>

\* Mutant: what was restored is not read back.
VerifyRestoredUnread ==
  /\ tx.pc = "restore" /\ tx.touched = {}
  /\ tx' = IF tx.failed THEN At("keepOff") ELSE At("reactivate")
  /\ UNCHANGED <<disk, staged, pending, cleanup, up, prior, proven, count, faults, crashes>>

VerifyRestored ==
  /\ tx.pc = "restore" /\ tx.touched = {}
  /\ IF tx.failed THEN tx' = At("keepOff") /\ UNCHANGED <<disk, staged, pending, cleanup, up, prior, proven, count, faults, crashes>>
     ELSE Read(Matches("off", tx.previous.settings), LAMBDA ok :
            IF ok THEN At("reactivate") ELSE [At("keepOff") EXCEPT !.failed = TRUE])

\* Mutant: the credentials are left out of it.
ReactivateAnyway ==
  /\ tx.pc = "reactivate"
  /\ IF tx.previous.backend = "off"
     THEN /\ tx' = End("restored")
          /\ UNCHANGED <<disk, staged, pending, cleanup, up, prior, proven, count, faults, crashes>>
     ELSE Write("backend", tx.previous.backend, LAMBDA ok :
            [At("reactivated") EXCEPT !.failed = ~ok])

\* Not with credentials that could not be rolled back.
Reactivate ==
  /\ tx.pc = "reactivate"
  /\ IF tx.credError \/ tx.previous.backend = "off"
     THEN /\ tx' = End(IF tx.credError THEN "disabled" ELSE "restored")
          /\ UNCHANGED <<disk, staged, pending, cleanup, up, prior, proven, count, faults, crashes>>
     ELSE Write("backend", tx.previous.backend, LAMBDA ok :
            [At("reactivated") EXCEPT !.failed = ~ok])

VerifyReactivated ==
  /\ tx.pc = "reactivated"
  /\ Read(Matches(tx.previous.backend, tx.previous.settings), LAMBDA ok :
       IF ok /\ ~tx.failed THEN End("restored") ELSE [At("keepOff") EXCEPT !.failed = TRUE])

KeepOff ==
  /\ tx.pc = "keepOff"
  /\ Write("backend", "off", LAMBDA ok : End("disabled"))

Transaction ==
  \/ RecoverFirst \/ ReadPrevious \/ EnsureDisabled \/ CheckDisabled \/ WriteTransport
  \/ VerifyTransport \/ PromoteCredentials \/ VerifyPromoted \/ Activate \/ VerifyActive
  \/ FinalizeCommitted \/ DiscardCandidate \/ CheckIsOff \/ OffAgain \/ RollbackCredentials
  \/ CheckRestoreIsOff \/ RestoreSetting \/ VerifyRestored \/ Reactivate \/ VerifyReactivated \/ KeepOff

-----------------------------------------------------------------------------
(* Between transactions.                                                     *)

Idle == up /\ tx.pc = "idle"

\* The user authorizes an account.
ConnectDropbox ==
  /\ Idle /\ count < MaxCandidates
  /\ pending = 0
  /\ count' = count + 1
  /\ \E a \in Stage(disk, staged, count + 1) :
       /\ Take(a)
       /\ pending' = (IF a.ok THEN count + 1 ELSE 0) /\ cleanup' = (IF a.ok THEN 0 ELSE cleanup)
  /\ UNCHANGED <<tx, up, prior, proven, crashes>>

\* The page gives a pending authorization up.
ResolvePending ==
  /\ Idle /\ pending # 0
  /\ \E a \in (IF staged.phase = "promoted" THEN Rollback(disk, staged) ELSE Discard(disk, staged)) :
       Take(a) /\ pending' = (IF a.ok THEN 0 ELSE pending)
  /\ UNCHANGED <<tx, cleanup, up, prior, proven, count, crashes>>

\* A probe or a sync asks for an access token, which settles the journal but
\* keeps the memory of the promotion.
AccessToken ==
  /\ Idle
  /\ \E a \in Recover(disk, staged) : Take(a)
  /\ UNCHANGED <<tx, pending, cleanup, up, prior, proven, count, crashes>>

RetryFinalize ==
  /\ Idle /\ cleanup # 0
  /\ \E a \in Finalize(disk, staged, cleanup) : Take(a) /\ cleanup' = (IF a.ok THEN 0 ELSE cleanup)
  /\ UNCHANGED <<tx, pending, up, prior, proven, count, crashes>>

\* Switching sync off, and disconnecting Dropbox, which switches it off first.
SwitchOff ==
  /\ Idle
  /\ \E a \in RecoverBefore(disk, staged) :
       /\ cleanup' = IF a.ok THEN 0 ELSE cleanup
       /\ \/ Take([a EXCEPT !.disk.backend = IF a.ok THEN "off" ELSE @])
          \/ a.ok /\ Take([a EXCEPT !.cost = 1])
  /\ UNCHANGED <<tx, pending, up, prior, proven, count, crashes>>

DisconnectDropbox ==
  /\ Idle
  /\ \E a \in RecoverBefore(disk, staged) :
       LET d == IF Committed(a.disk) THEN [a.disk EXCEPT !.backend = "off"] ELSE a.disk IN
       /\ cleanup' = IF a.ok THEN 0 ELSE cleanup
       /\ IF a.ok THEN \E e \in Disconnect(d, a.staged) : Take(e) /\ pending' = (IF e.ok THEN 0 ELSE pending)
          ELSE Take(a) /\ UNCHANGED pending
  /\ UNCHANGED <<tx, up, prior, proven, count, crashes>>

-----------------------------------------------------------------------------
(* Faults.                                                                   *)

\* The page reloads: its transaction ends where it is.
Reload ==
  /\ up /\ crashes < MaxCrashes
  /\ crashes' = crashes + 1
  /\ tx' = NoTx /\ pending' = 0 /\ cleanup' = 0
  /\ UNCHANGED <<disk, staged, up, prior, proven, count, faults>>

Crash ==
  /\ up /\ crashes < MaxCrashes
  /\ crashes' = crashes + 1
  /\ up' = FALSE /\ tx' = NoTx /\ pending' = 0 /\ cleanup' = 0 /\ staged' = NoEntry
  /\ UNCHANGED <<disk, prior, proven, count, faults>>

\* The app does not start while a recovery fails with sync switched on.
Start ==
  /\ ~up
  /\ \E a \in Recover(disk, staged) : Take(a) /\ up' = (a.ok \/ Off(a.disk))
  /\ UNCHANGED <<tx, pending, cleanup, prior, proven, count, crashes>>

Next ==
  \/ Begin \/ Transaction
  \/ ConnectDropbox \/ ResolvePending \/ AccessToken \/ RetryFinalize \/ SwitchOff \/ DisconnectDropbox
  \/ Reload \/ Crash \/ Start

Spec == Init /\ [][Next]_vars

-----------------------------------------------------------------------------
(* Properties.                                                               *)

\* The states of the variables above.
TypeOK ==
  /\ disk.backend \in {"off", "file", "webdav", "cloud"}
  /\ disk.path \in 0..MaxCandidates /\ disk.webdav \in 0..MaxCandidates /\ disk.cloud \in 0..MaxCandidates
  /\ disk.provider \in {"selfhosted", "dropbox"} /\ disk.tokens \in 0..MaxCandidates
  /\ disk.journal = NoJournal \/ disk.journal.open
  /\ staged.phase \in {"none", "candidate", "promoted"}
  /\ tx.touched \subseteq Slots /\ Len(tx.todo) <= 2
  /\ pending \in 0..MaxCandidates /\ cleanup \in 0..MaxCandidates /\ count \in 1..MaxCandidates
  /\ faults \in 0..MaxFaults /\ crashes \in 0..MaxCrashes

\* Whenever sync is switched on, after failures and crashes anywhere too, it
\* uses a transport with exactly the setting and credentials that a probe has
\* shown to work: never one half of a change. MaxFaults = 2 is part of the claim:
\* with three faults a transaction can give up with sync switched on, and the
\* next one then puts a bundle back that no probe has seen (README, section 3).
ActiveIsProven == ~Off(disk) => Transport(disk) \in proven

\* While a promotion is open the backend is off, or it is Dropbox with the
\* promoted bundle: recovery always knows which bundle to keep.
JournalMatchesBackend ==
  disk.journal.open /\ ~Off(disk) => Committed(disk) /\ disk.tokens = disk.journal.candidate

\* A transaction that fails with the error of its step, without saying that
\* sync is left disabled, has restored everything it found. MaxFaults = 2 is part
\* of the claim: a third fault in one transaction leaves a promotion in native
\* memory that AccessToken then settles behind its back (README, section 3).
RestoredExactly ==
  [][tx.pc # "idle" /\ tx'.outcome = "restored"
     => /\ disk'.backend = tx.previous.backend /\ Settings(disk') = tx.previous.settings
        /\ disk'.tokens = tx.previous.tokens]_vars

\* Unless the user disconnects, the bundle in use is replaced only with a
\* journal that holds it, and the journal goes only with that bundle restored
\* or the new one committed. MaxFaults = 2 is part of this claim as well.
CredentialsJournaled ==
  [][disk'.tokens # 0 =>
     /\ disk'.tokens # disk.tokens =>
          \/ disk'.journal.open /\ disk'.journal.previous = disk.tokens
          \/ disk.journal.open /\ disk'.tokens = disk.journal.previous
     /\ disk.journal.open /\ ~disk'.journal.open =>
          \/ disk'.tokens = disk.journal.previous
          \/ Committed(disk) /\ disk'.tokens = disk.journal.candidate]_vars
==============================================================================
