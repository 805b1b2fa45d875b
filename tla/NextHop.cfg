\* Every table of up to three neighbors, every destination near or far.
SPECIFICATION Spec
CONSTANTS
  Addresses = {a, b, c}
  Remote = remote
  MaxLen = 3
  MaxBacklog = 2
CHECK_DEADLOCK FALSE
INVARIANTS
  TypeOK
  SelectionIsBest
  LargestDifferential
  TiesEquallyLikely
