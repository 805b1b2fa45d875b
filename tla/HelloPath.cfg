\* Two hellos of the sender, whose lists change in between, a third station and
\* messages that no bprd station writes.
SPECIFICATION Spec
CONSTANTS
  BYTE = 8
  Mtu = 33
  MsgType = 1
  AddrLen = 2
  Me <- MCMe
  You <- MCYou
  CommodityLists <- MCCommodityLists
  NeighborLists <- MCNeighborLists
  Backlogs = {0, 5}
  Others <- MCOthers
  Foreign <- MCForeign
  NeighborTimeout = 1
  W = 4
  ClockSettings = {1}
  MaxBacklogs = 1
  MaxHellos = 2
  MaxTicks = 2
  MaxClockSets = 1
CHECK_DEADLOCK FALSE
INVARIANTS
  HelloReadsBack
  OwnHellosNeverFatal
PROPERTIES
  TableReflectsHello
  OnlySilentForgotten
