CONSTANTS
  h1 = h1
  h2 = h2
  i1 = i1
  i2 = i2
  w1 = w1
  w2 = w2
  Hosts = {h1, h2}
  Ids = {i1, i2}
  Wallets = {w1, w2}
  Kinds <- KindClasses
  Formats = {}
  Modes = {"Disabled"}
  Policies <- OnlyStrict
  Changes <- SigningChanges
  MaxPinAttempts = 1
  MaxRetryCount = 1
SYMMETRY Symmetry
SPECIFICATION Spec
INVARIANTS
  FlowBoundToSession
  ExecutionHasConsent
  OperationHonoursPolicy
PROPERTIES
  ExecutedOnce
  ImplementsGate
