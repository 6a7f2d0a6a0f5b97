CONSTANTS
  Hosts = {1, 2}
  Ids = {1, 2}
  Wallets = {1}
  Kinds = {}
  Formats = {}
  Modes = {"Optional"}
  Policies <- OnlyStrict
  Changes <- SomeChanges
  MaxPinAttempts = 2
  MaxRetryCount = 3
  MaxQueue = 2
SPECIFICATION FairSpec
INVARIANTS
  TrustIsBacked
  SessionAfterReset
PROPERTIES
  AppliedAfterPersisted
  ReportedExhaustionWipes
  RequestsEnd
