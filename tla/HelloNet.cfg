\* Two stations, one of which may crash once, and a link that may fail in one
\* direction; as many losses in a row and as much delay as the timeout bridges.
SPECIFICATION FairSpec
CONSTANTS
  Stations = {a, b}
  HelloInterval = 1
  Slack = 0
  MaxDelay = 1
  MaxLosses = 3
  Faulty = {b}
  MaxCrashes = 1
  MaxSevers = 1
  W = 64
INVARIANTS
  TypeOK
  SilentNeighborForgotten
PROPERTIES
  MarkedWhileHeard
  LiveNeighborKept
  LinksBecomeBidirectional
