\* Two neighbors compete for a commodity destined to a station out of range.
SPECIFICATION Spec
CONSTANTS
  n1 = n1
  n2 = n2
  far = far
  Me = me
  NONE = NONE
  Neighbors = {n1, n2}
  NumCommodities = 1
  Dst <- DstFar
  Advertised <- AdvertiseAll
  MaxAdvertised = 1
  MaxArrivals = 2
  W = 4
  Optimized = FALSE
  ForeignHellos = FALSE
  SystemMayFail = FALSE
SYMMETRY NeighborSymmetry
INVARIANTS
  TypeOK
  ExitOnlyOnDisagreement
PROPERTIES
  RoutesLeadToListeners
