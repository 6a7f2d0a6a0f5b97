CONSTANTS
  v1 = v1
  v2 = v2
  NoPayload = NoPayload
  Payloads = {v1, v2}
  MaxGeneration = 4
SYMMETRY Symmetry
SPECIFICATION Spec
INVARIANTS
  SlotsInOrder
PROPERTIES
  ImplementsRegister
