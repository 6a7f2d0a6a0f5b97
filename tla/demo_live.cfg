CONSTANTS
  Hosts = {1}
  Ids = {1}
  Wallets = {1}
  Kinds = {"SignTransaction"}
  Formats = {}
  Modes = {}
  Policies <- OnlyStrict
  Changes = {}
  MaxPinAttempts = 1
  MaxRetryCount = 1
  PIN_DIGITS = 1
  DigitBase = 1
  RecoveryWords = 1
  AUTO_SLEEP_MS = 2
  SigningTime = 2
  MaxTicks = 3
  SequenceSpan = 3
  MaxWakeCount = 1
  CONTROL_CENTER_HOLD_MS = 1
  Elapsed = {0, 1}
SPECIFICATION FairSpec
PROPERTIES
  SigningEnds
  IdleDeviceLocks
