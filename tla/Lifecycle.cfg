\* Starts, failures and one SIGTERM per process; one process is given a
\* relative pidfile path.
SPECIFICATION FairSpec
CONSTANTS
  Procs = {p1, p2}
  NONE = NONE
  OrigFwd = "0"
  MaxSignals = 1
  MayFail = TRUE
  Relative = {p2}
CHECK_DEADLOCK FALSE
INVARIANTS
  TypeOK
  PidfileFollowsDaemon
PROPERTIES
  TerminationCompletes
