\* The build configure produces by default (no -O2), under fairness; only
\* fifo_send_packet() is called, as in bprd; every verdict is accepted.
SPECIFICATION FairSpec
CONSTANTS
  W = 8
  MaxPackets = 4
  Capacity = 4
  Calls = {"send"}
  VerdictOutcomes = {TRUE}
  RecvMayFail = FALSE
  Optimized = FALSE
PROPERTIES
  LengthExactBetweenReleases
  EveryPacketDecided
