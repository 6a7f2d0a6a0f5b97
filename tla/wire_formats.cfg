CONSTANTS
  IntBytes = 2
  HalfOrder <- SomeHalfOrder
  UsizeMax = 4194303
  MaxUnsigned = 100
  MaxSigned = 115
  Pieces <- SomePieces
  MaxSent = 4
  AlteredBytes = {0, 1, 5, 55, 128, 184, 193, 248, 255}
  Transfers <- SomeTransfers
  Fields <- SomeFields
  Lengths <- SomeLengths
  Scalars <- SomeScalars
  AddressBytes = 36
SPECIFICATION Spec
INVARIANTS
  ReadersAreCanonical
  SignedEnvelopeIsReviewed
