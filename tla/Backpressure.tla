---------------------------- MODULE Backpressure ----------------------------
(***************************************************************************)
(* The rule by which bprd chooses a next hop, as operators on one         *)
(* commodity's view of the neighbor table: a function whose values are    *)
(* records with (at least) the fields                                     *)
(*    addr     the neighbor's address                                     *)
(*    bidir    it has listed this station in a hello                      *)
(*    backlog  the backlog it last advertised for the commodity           *)
(* and whose keys (list positions, addresses) name the neighbors.         *)
(***************************************************************************)
EXTENDS Integers

(* Mutant: the unsigned subtraction is not guarded (16 bits here). *)
Diff_wraps(mine, theirs) == (mine - theirs) % 65536

(* Backlog differential: zero when the neighbor has the larger backlog. *)
Diff(mine, theirs) == IF mine >= theirs THEN mine - theirs ELSE 0

(* The neighbors a commodity may be sent to. *)
Bidirectional(table) == {k \in DOMAIN table : table[k].bidir}

(* The neighbors the selection of router_update() may end with: the          *)
(* destination if it is bidirectional, otherwise the bidirectional           *)
(* neighbors with the largest differential; none if none is bidirectional.   *)
BestHops(table, mine, dst) ==
  LET B == Bidirectional(table)
      D == {k \in B : table[k].addr = dst}
  IN  IF D # {} THEN D
      ELSE {k \in B : \A j \in B : Diff(mine, table[j].backlog)
                                     <= Diff(mine, table[k].backlog)}
=============================================================================
