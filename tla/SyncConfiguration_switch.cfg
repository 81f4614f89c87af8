SPECIFICATION Spec
CONSTANTS
  Kinds = {"file", "webdav", "selfhosted", "dropbox", "kept"}
  Priors = {"known", "opaque", "clean"}
  MaxCandidates = 3
  MaxFaults = 2
  MaxCrashes = 1
INVARIANTS
  ActiveIsProven
  JournalMatchesBackend
PROPERTIES
  RestoredExactly
  CredentialsJournaled
