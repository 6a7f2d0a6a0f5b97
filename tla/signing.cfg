CONSTANTS
  None = None
  h1 = h1
  s1 = s1
  s2 = s2
  a1 = a1
  a2 = a2
  hard = hard
  soft = soft
  t1 = t1
  n1 = n1
  to = to
  Account = a1
  HardenedPaths = {hard}
  Addresses = {to}
  Scalars = {n1}
  Hosts = {h1}
  Seeds = {s1, s2}
  MaxContextId = 2
  Requests <- AllRequests
SPECIFICATION FairSpec
INVARIANTS
  ResponseMatchesReview
  KeyProvenBeforeSigning
PROPERTIES
  SignatureHasConsent
  OperationEnds
