\* Two well-formed datagrams, every datagram they are cut to, and one for each
\* error of a flag; any one of the first allocations fails; consumers drop twice.
SPECIFICATION Spec
CONSTANTS
  BYTE = 8
  Registered <- MCRegistered
  Returns <- MCReturns
  MaxDrops = 2
  Forwards = TRUE
  Failures = {0, 2, 5, 6, 7, 8}
  Datagrams <- MCDatagrams
INVARIANTS
  Bracketed
  TlvDelivery
PROPERTIES
  DropsRespected
  HandlingEnds
