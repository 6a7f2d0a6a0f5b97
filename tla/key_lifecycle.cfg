CONSTANTS
  r1 = r1
  r2 = r2
  p1 = p1
  p2 = p2
  NoRoot = NoRoot
  Roots = {r1, r2}
  Passphrases = {p1, p2}
  MaxContextId = 4
SYMMETRY Symmetry
SPECIFICATION KeySpec
INVARIANTS
  ContextNamesOneSeed
  BackupIsOfStagedRoot
  WipedRootsStayGone
PROPERTIES
  StagedRootIsNotLost
