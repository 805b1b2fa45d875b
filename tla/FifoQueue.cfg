\* All operations, failing verdicts, a backlogger that may die; no wrap.
SPECIFICATION Spec
CONSTANTS
  W = 8
  MaxPackets = 4
  Capacity = 4
  Calls = {"send", "drop", "delete"}
  VerdictOutcomes = {TRUE, FALSE}
  RecvMayFail = TRUE
  Optimized = TRUE
INVARIANTS
  TypeOK
  CountersNameHeldPackets
  OnlyAnnouncedPacketsAreDecided
  LengthCountsEnqueued
PROPERTIES
  LengthNeverShort
  ImplementsPacketQueue
