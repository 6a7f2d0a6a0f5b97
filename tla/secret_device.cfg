CONSTANTS
  Hosts = {1}
  Ids = {1, 2}
  Wallets = {1, 2}
  Kinds = {}
  Formats = {"Mnemonic"}
  Modes = {"Disabled"}
  Policies <- OnlyStrict
  Changes = {}
  MaxPinAttempts = 1
  MaxRetryCount = 1
  NoRoot = NoRoot
  r1 = r1
  r2 = r2
  Roots = {r1, r2}
  Passphrases = {"none"}
  MaxContextId = 3
  MaxQueue = 3
SPECIFICATION FairSpec
INVARIANTS
  SessionUsesInstalledRoot
  ProvisionedWalletHasRoot
PROPERTIES
  OneWipeMeansGone
  EveryRequestEnds
