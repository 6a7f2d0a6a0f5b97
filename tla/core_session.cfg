CONSTANTS
  h1 = h1
  h2 = h2
  i1 = i1
  i2 = i2
  w1 = w1
  w2 = w2
  Hosts = {h1, h2}
  Ids = {i1, i2}
  Wallets = {w1}
  Kinds = {"SignMessage"}
  Formats = {"Mnemonic"}
  Modes = {"Disabled", "Optional", "Required"}
  Policies <- OnlyStrict
  Changes <- UnlockChanges
  MaxPinAttempts = 2
  MaxRetryCount = 3
SYMMETRY Symmetry
SPECIFICATION Spec
INVARIANTS
  TypeOK
  SessionEarned
  RetryBudgetKept
  BackupClaimIsTrue
PROPERTIES
  RetriesNeverForgotten
  SettingsNeedApproval
  WipeIsFinal
