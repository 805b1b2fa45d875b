------------------------------ MODULE MCDaemon ------------------------------
(* Instances of Daemon for TLC. *)
EXTENDS Daemon, TLC

CONSTANTS n1, n2, far

(* Destinations: a neighbor and this station; a station out of range; that   *)
(* one and a neighbor.                                                      *)
DstNearAndMe == <<n1, Me>>
DstFar  == <<far>>
DstFarAndNear == <<far, n1>>

(* Every station advertises commodities 1..Num.                             *)
AdvertiseAll == [n \in Neighbors |-> Commodities]

(* One neighbor agrees, the other lacks commodity 2.                        *)
AdvertiseLess == [n \in Neighbors |-> IF n = n1 THEN {1, 2} ELSE {1}]

(* The neighbors are interchangeable when none is a destination and all     *)
(* advertise the same.                                                      *)
NeighborSymmetry == Permutations(Neighbors)
=============================================================================
