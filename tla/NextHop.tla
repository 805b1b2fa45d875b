------------------------------ MODULE NextHop ------------------------------
(***************************************************************************)
(* The selection loop of router_update(): for one commodity, walk the     *)
(* neighbor list once and keep the best next hop found so far, breaking   *)
(* ties at random.  The list cannot change during the walk (ntable.mutex  *)
(* is held), so it is a parameter of the behavior, chosen by Init.        *)
(***************************************************************************)
EXTENDS Backpressure

CONSTANTS Addresses,   \* addresses of stations within radio range
          Remote,      \* the address of a destination out of range
          MaxLen,      \* bound on the neighbor list's length
          MaxBacklog   \* bound on backlogs

ASSUME NextHopAssumption ==
  /\ Remote \notin Addresses
  /\ MaxLen \in Nat
  /\ MaxBacklog \in Nat

VARIABLES
  table,    \* the neighbor list
  mine,     \* this station's backlog of the commodity
  dst,      \* the commodity's destination
  pc,       \* "scan", "done", or "exit" after a fatal error
  pos,      \* the loop's position in the list
  num,      \* how many neighbors tie for the best differential
  diffopt,  \* the best differential so far
  nopt,     \* the position of the best neighbor so far, 0 for NULL
  odds,     \* how often each position would be nopt, over all random draws
  draws     \* how many outcomes all random draws for the tie have

inputs == <<table, mine, dst>>
vars   == <<inputs, pc, pos, num, diffopt, nopt, odds, draws>>

Backlogs == 0..MaxBacklog
Entry == [addr : Addresses, bidir : BOOLEAN, knows : BOOLEAN, backlog : Backlogs]

(* A table the hello reader can have built: one entry per address; a        *)
(* station's backlog of a commodity destined to itself is always zero, as   *)
(* backlogger_init() diverts no such packet to a queue.                     *)
IsTable(t, d) ==
  /\ \A j, k \in DOMAIN t : t[j].addr = t[k].addr => j = k
  /\ \A k \in DOMAIN t : t[k].addr = d => t[k].backlog = 0

Init ==
  /\ dst \in Addresses \cup {Remote}
  /\ mine \in Backlogs
  /\ \E n \in 0..MaxLen : table \in [1..n -> Entry]
  /\ IsTable(table, dst)
  /\ pc = "scan"
  /\ pos = 1
  /\ num = 0
  /\ diffopt = 0
  /\ nopt = 0
  /\ odds = [k \in DOMAIN table |-> 0]
  /\ draws = 1

Differential(k) == Diff(mine, table[k].backlog)

-----------------------------------------------------------------------------
(* A neighbor without the commodity is a fatal error. *)
Unknown ==
  /\ pc = "scan" /\ pos \in DOMAIN table
  /\ ~table[pos].knows
  /\ pc' = "exit"
  /\ UNCHANGED <<inputs, pos, num, diffopt, nopt, odds, draws>>

(* A neighbor that may not hear this station is skipped. *)
SkipUnidirectional ==
  /\ pc = "scan" /\ pos \in DOMAIN table
  /\ table[pos].knows
  /\ ~table[pos].bidir
  /\ pos' = pos + 1
  /\ UNCHANGED <<inputs, pc, num, diffopt, nopt, odds, draws>>

(* Mutant: the loop is not left when the destination is found. *)
TakeDestination_and_continue ==
  /\ pc = "scan" /\ pos \in DOMAIN table
  /\ table[pos].knows /\ table[pos].bidir
  /\ table[pos].addr = dst
  /\ nopt' = pos
  /\ diffopt' = Differential(pos)
  /\ pos' = pos + 1
  /\ odds' = [k \in DOMAIN table |-> IF k = pos THEN 1 ELSE 0]
  /\ draws' = 1
  /\ UNCHANGED <<inputs, pc, num>>

(* The destination itself: take it and leave the loop. *)
TakeDestination ==
  /\ pc = "scan" /\ pos \in DOMAIN table
  /\ table[pos].knows /\ table[pos].bidir
  /\ table[pos].addr = dst
  /\ nopt' = pos
  /\ diffopt' = Differential(pos)
  /\ pc' = "done"
  /\ odds' = [k \in DOMAIN table |-> IF k = pos THEN 1 ELSE 0]
  /\ draws' = 1
  /\ UNCHANGED <<inputs, pos, num>>

(* An entry the loop compares with the best so far. *)
Candidate ==
  /\ pc = "scan" /\ pos \in DOMAIN table
  /\ table[pos].knows /\ table[pos].bidir
  /\ table[pos].addr # dst

(* A smaller differential is ignored. *)
SkipSmaller ==
  /\ Candidate
  /\ Differential(pos) < diffopt
  /\ pos' = pos + 1
  /\ UNCHANGED <<inputs, pc, num, diffopt, nopt, odds, draws>>

(* rand()/RAND_MAX >= (n-1)/n: of n equally likely draws, the last wins.    *)
(* odds counts the outcomes of all draws for this tie: each earlier outcome *)
(* survives n-1 of them and the new neighbor wins one; n = 1 starts afresh. *)
Draw(n) ==
  /\ \E r \in 0..(n - 1) :
       IF r = n - 1 THEN nopt' = pos /\ diffopt' = Differential(pos)
                    ELSE UNCHANGED <<nopt, diffopt>>
  /\ odds' = [k \in DOMAIN table |->
                IF k = pos THEN IF n = 1 THEN 1 ELSE draws
                           ELSE odds[k] * (n - 1)]
  /\ draws' = IF n = 1 THEN 1 ELSE draws * n

(* Mutant: num is not reset when a larger differential is found. *)
Compare_no_reset ==
  /\ Candidate
  /\ Differential(pos) >= diffopt
  /\ num' = num + 1
  /\ Draw(num + 1)
  /\ pos' = pos + 1
  /\ UNCHANGED <<inputs, pc>>

(* Mutant: a tie is not counted, so its last member always wins. *)
Compare_no_count ==
  /\ Candidate
  /\ Differential(pos) >= diffopt
  /\ num' = 1
  /\ Draw(1)
  /\ pos' = pos + 1
  /\ UNCHANGED <<inputs, pc>>

(* An equal differential joins the tie, a larger one starts a new one. *)
Compare ==
  /\ Candidate
  /\ Differential(pos) >= diffopt
  /\ LET n == IF Differential(pos) = diffopt THEN num + 1 ELSE 1
     IN  num' = n /\ Draw(n)
  /\ pos' = pos + 1
  /\ UNCHANGED <<inputs, pc>>

(* The end of the list. *)
Finish ==
  /\ pc = "scan" /\ pos \notin DOMAIN table
  /\ pc' = "done"
  /\ UNCHANGED <<inputs, pos, num, diffopt, nopt, odds, draws>>

Next == \/ Unknown \/ SkipUnidirectional \/ TakeDestination
        \/ SkipSmaller \/ Compare \/ Finish

Spec == Init /\ [][Next]_vars

-----------------------------------------------------------------------------
(* The types of the loop's variables in router_update(). *)
TypeOK ==
  /\ \E n \in 0..MaxLen : table \in [1..n -> Entry]
  /\ mine \in Backlogs
  /\ dst \in Addresses \cup {Remote}
  /\ pc \in {"scan", "done", "exit"}
  /\ pos \in Nat \ {0}
  /\ num \in Nat
  /\ diffopt \in Backlogs
  /\ nopt \in {0} \cup DOMAIN table
  /\ odds \in [DOMAIN table -> Nat]
  /\ draws \in Nat \ {0}

(* The loop, which sees each neighbor once, remembers one of them and draws *)
(* at random, ends with a next hop the rule allows: it never loses the best *)
(* neighbor to a tie or to an early exit, and finds one if there is one.    *)
SelectionIsBest ==
  pc = "done" => LET Best == BestHops(table, mine, dst)
                 IN  IF nopt = 0 THEN Best = {} ELSE nopt \in Best

(* "the bidirectional neighbor associated with the largest backlog          *)
(* differential is set as the next hop" (bprd-overview.tex:555), and the    *)
(* differential saved with it is that largest one: although the loop stops  *)
(* at the destination without looking at the rest of the list, nobody       *)
(* behind it has a larger differential.                                     *)
LargestDifferential ==
  pc = "done" /\ nopt # 0 =>
    /\ diffopt = Differential(nopt)
    /\ \A k \in Bidirectional(table) : Differential(k) <= diffopt

(* "this results in uniformly choosing amongst an unknown number of ties"   *)
(* (router.c:331): counted over all draws, each of the best next hops is    *)
(* chosen equally often, and nobody else is ever chosen.                    *)
TiesEquallyLikely ==
  pc = "done" /\ nopt # 0 =>
    LET Best == BestHops(table, mine, dst) IN
    /\ \A j, k \in Best : odds[j] = odds[k] /\ odds[j] > 0
    /\ \A k \in DOMAIN table \ Best : odds[k] = 0
=============================================================================
