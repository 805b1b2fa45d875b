\* One neighbor does not advertise the second commodity, which is destined to
\* the other neighbor; hellos may have unknown content and system calls fail.
SPECIFICATION Spec
CONSTANTS
  n1 = n1
  n2 = n2
  far = far
  Me = me
  NONE = NONE
  Neighbors = {n1, n2}
  NumCommodities = 2
  Dst <- DstFarAndNear
  Advertised <- AdvertiseLess
  MaxAdvertised = 0
  MaxArrivals = 1
  W = 4
  Optimized = TRUE
  ForeignHellos = TRUE
  SystemMayFail = TRUE
CHECK_DEADLOCK FALSE
INVARIANT
  ExitOnlyOnDisagreement
