\* Consumers of one order registered as message, address, message; nothing is
\* dropped and no allocation fails.
SPECIFICATION Spec
CONSTANTS
  BYTE = 8
  Registered <- MCMixed
  Returns <- MCReturns
  MaxDrops = 0
  Forwards = TRUE
  Failures = {0}
  Datagrams <- MCDatagrams
INVARIANTS
  Bracketed
