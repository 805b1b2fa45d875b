\* A commodity to a neighbor and one to this station, under fairness.
SPECIFICATION FairSpec
CONSTANTS
  n1 = n1
  n2 = n2
  far = far
  Me = me
  NONE = NONE
  Neighbors = {n1}
  NumCommodities = 2
  Dst <- DstNearAndMe
  Advertised <- AdvertiseAll
  MaxAdvertised = 0
  MaxArrivals = 2
  W = 4
  Optimized = FALSE
  ForeignHellos = FALSE
  SystemMayFail = FALSE
INVARIANTS
  OwnTrafficLeftAlone
  ReleaseOnlyWithRoute
PROPERTIES
  MutexReleased
  BacklogDrains
