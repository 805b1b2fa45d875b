--------------------------- MODULE NextHopProofs ---------------------------
(***************************************************************************)
(* The selection loop of router_update() is correct for neighbor lists of *)
(* any length and backlogs of any size, whatever the random draws.        *)
(***************************************************************************)
EXTENDS NextHop, TLAPS

(* Types, without the bookkeeping of the draws. *)
LoopTypes ==
  /\ \E n \in 0..MaxLen : table \in [1..n -> Entry]
  /\ mine \in Backlogs
  /\ pc \in {"scan", "done", "exit"}
  /\ pos \in Nat \ {0}
  /\ num \in Nat
  /\ diffopt \in Nat
  /\ nopt \in {0} \cup DOMAIN table

(* The bidirectional neighbors the loop has passed. *)
Passed == {k \in Bidirectional(table) : k < pos}

(* While the loop runs: the destination is not among the neighbors passed,  *)
(* diffopt bounds their differentials, and nopt is one that attains it; it  *)
(* is NULL only as long as none was passed, and then nothing is counted,    *)
(* so the next draw is certain to take the first one.                       *)
LoopInv ==
  /\ \A k \in Passed : table[k].addr # dst /\ Differential(k) <= diffopt
  /\ nopt # 0 => nopt \in Passed /\ Differential(nopt) = diffopt
  /\ nopt = 0 => Passed = {} /\ diffopt = 0 /\ num = 0

IndInv ==
  /\ LoopTypes
  /\ IsTable(table, dst)
  /\ pc = "scan" => LoopInv
  /\ SelectionIsBest
  /\ LargestDifferential

(* Differentials are natural numbers and never exceed this station's own    *)
(* backlog; a neighbor with no backlog attains that bound.                  *)
LEMMA DifferentialBounds ==
  ASSUME LoopTypes, NEW k \in DOMAIN table
  PROVE  /\ Differential(k) \in Nat
         /\ Differential(k) <= mine
         /\ table[k].backlog = 0 => Differential(k) = mine
  <1>1. table[k] \in Entry
    BY DEF LoopTypes
  <1>2. table[k].backlog \in Nat /\ mine \in Nat
    BY <1>1, NextHopAssumption DEF LoopTypes, Entry, Backlogs
  <1> QED
    BY <1>2 DEF Differential, Diff

(* Before the first neighbor is looked at the invariant holds trivially. *)
LEMMA InitInd == Init => IndInv
  <1> SUFFICES ASSUME Init
               PROVE  IndInv
    OBVIOUS
  <1>1. LoopTypes /\ IsTable(table, dst)
    BY DEF Init, LoopTypes
  <1>2. \A k \in DOMAIN table : k \in Nat \ {0}
    BY <1>1 DEF LoopTypes
  <1>3. Passed = {}
    BY <1>2 DEF Init, Passed, Bidirectional
  <1>4. LoopInv
    BY <1>3 DEF Init, LoopInv
  <1> QED
    BY <1>1, <1>4 DEF Init, IndInv, SelectionIsBest, LargestDifferential

(* A step moves the loop past one neighbor; what follows for each kind. *)
LEMMA NextInd ==
  ASSUME IndInv, [Next]_vars
  PROVE  IndInv'
  <1> USE NextHopAssumption
  <1>0. /\ LoopTypes /\ IsTable(table, dst)
        /\ DOMAIN table \subseteq Nat \ {0}
        /\ \A k \in DOMAIN table : table[k].bidir \in BOOLEAN
    BY DEF IndInv, LoopTypes, Entry
  <1>1. CASE Unknown
    BY <1>1 DEF Unknown, IndInv, LoopTypes, SelectionIsBest,
                LargestDifferential, inputs
  <1>2. ASSUME pc = "scan", pos \in DOMAIN table, UNCHANGED inputs, LoopInv
        PROVE  /\ table[pos].bidir => /\ Bidirectional(table)' = Bidirectional(table)
                                      /\ pos \in Bidirectional(table)
               /\ pos' = pos + 1 =>
                    Passed' = IF table[pos].bidir THEN Passed \cup {pos} ELSE Passed
    <2>1. pos \in Nat
      BY DEF IndInv, LoopTypes
    <2>2. Bidirectional(table)' = Bidirectional(table)
      BY <1>2 DEF Bidirectional, inputs
    <2>3. ASSUME pos' = pos + 1
          PROVE  Passed' = IF table[pos].bidir THEN Passed \cup {pos} ELSE Passed
      <3>1. \A k \in DOMAIN table : k < pos + 1 <=> k < pos \/ k = pos
        BY <1>0, <2>1
      <3> QED
        BY <1>2, <2>2, <2>3, <3>1 DEF Passed, Bidirectional
    <2> QED
      BY <1>2, <2>2, <2>3 DEF Bidirectional
  <1>3. CASE SkipUnidirectional
    <2>1. LoopInv
      BY <1>3 DEF SkipUnidirectional, IndInv
    <2>2. Passed' = Passed
      BY <1>2, <1>3, <2>1 DEF SkipUnidirectional
    <2>3. LoopInv'
      BY <1>3, <2>1, <2>2 DEF SkipUnidirectional, LoopInv, Differential, inputs
    <2> QED
      BY <1>3, <2>3 DEF SkipUnidirectional, IndInv, LoopTypes, SelectionIsBest,
                        LargestDifferential, inputs
  <1>4. CASE TakeDestination
    <2>1. /\ pos \in DOMAIN table /\ pos \in Bidirectional(table)
          /\ table[pos].addr = dst /\ UNCHANGED inputs
          /\ nopt' = pos /\ diffopt' = Differential(pos) /\ pc' = "done"
          /\ pos' = pos /\ num' = num
      BY <1>4 DEF TakeDestination, Bidirectional
    <2>2. Differential(pos) = mine
      BY <1>0, <2>1, DifferentialBounds DEF IsTable
    <2>3. \A k \in Bidirectional(table) : Differential(k) <= mine
      BY <1>0, DifferentialBounds DEF Bidirectional
    <2>4. pos \in BestHops(table, mine, dst)
      BY <2>1 DEF BestHops
    <2>5. SelectionIsBest' /\ LargestDifferential'
      BY <1>0, <2>1, <2>2, <2>3, <2>4
      DEF SelectionIsBest, LargestDifferential, Differential, Bidirectional, inputs
    <2>6. LoopTypes' /\ IsTable(table, dst)'
      BY <1>0, <2>1, DifferentialBounds DEF LoopTypes, inputs
    <2> QED
      BY <2>1, <2>5, <2>6 DEF IndInv
  <1>5. CASE SkipSmaller
    <2>1. LoopInv /\ pos \in DOMAIN table
      BY <1>5 DEF SkipSmaller, Candidate, IndInv
    <2>2. Passed' = Passed \cup {pos}
      BY <1>2, <1>5, <2>1 DEF SkipSmaller, Candidate
    <2>3. Differential(pos) \in Nat /\ diffopt \in Nat
      BY <1>0, <2>1, DifferentialBounds DEF LoopTypes
    <2>4. nopt # 0
      BY <1>5, <2>1, <2>3 DEF SkipSmaller, LoopInv
    <2>5. LoopInv'
      BY <1>5, <2>1, <2>2, <2>3, <2>4
      DEF SkipSmaller, Candidate, LoopInv, Differential, inputs
    <2> QED
      BY <1>5, <2>5 DEF SkipSmaller, Candidate, IndInv, LoopTypes,
                        SelectionIsBest, LargestDifferential, inputs
  <1>6. CASE Compare
    <2>1. LoopInv /\ pos \in DOMAIN table
      BY <1>6 DEF Compare, Candidate, IndInv
    <2>2. Passed' = Passed \cup {pos}
      BY <1>2, <1>6, <2>1 DEF Compare, Candidate
    <2>3. Differential(pos) \in Nat /\ diffopt \in Nat /\ num \in Nat
      BY <1>0, <2>1, DifferentialBounds DEF LoopTypes
    <2>4. /\ num' \in Nat
          /\ \/ nopt' = pos /\ diffopt' = Differential(pos)
             \/ /\ UNCHANGED <<nopt, diffopt>>
                /\ nopt # 0 /\ Differential(pos) = diffopt
      BY <1>6, <2>1, <2>3 DEF Compare, Draw, LoopInv
    <2>5. /\ table[pos].addr # dst /\ Differential(pos) >= diffopt
          /\ pc = "scan" /\ pc' = "scan" /\ pos' = pos + 1 /\ UNCHANGED inputs
      BY <1>6 DEF Compare, Candidate
    <2>6. LoopInv'
      <3>1. \A k \in Passed : Differential(k) \in Nat
        BY <1>0, DifferentialBounds DEF Passed, Bidirectional
      <3>2. nopt' # 0
        BY <1>0, <2>1, <2>4
      <3> QED
        BY <2>1, <2>2, <2>3, <2>4, <2>5, <3>1, <3>2
        DEF LoopInv, Differential, inputs
    <2>7. LoopTypes'
      BY <1>0, <2>1, <2>3, <2>4, <2>5 DEF LoopTypes, inputs
    <2> QED
      BY <1>0, <2>5, <2>6, <2>7 DEF IndInv, SelectionIsBest, LargestDifferential,
                                    inputs
  <1>7. CASE Finish
    <2>1. LoopInv /\ UNCHANGED <<inputs, pos, num, diffopt, nopt>> /\ pc' = "done"
      BY <1>7 DEF Finish, IndInv
    <2>2. Passed = Bidirectional(table)
      <3>1. PICK n \in 0..MaxLen : table \in [1..n -> Entry]
        BY <1>0 DEF LoopTypes
      <3>2. pos \notin 1..n /\ pos \in Nat \ {0}
        BY <1>0, <1>7, <3>1 DEF Finish, LoopTypes
      <3>3. \A k \in DOMAIN table : k < pos
        BY <3>1, <3>2
      <3> QED
        BY <3>3 DEF Passed, Bidirectional
    <2>3. IF nopt = 0 THEN BestHops(table, mine, dst) = {}
                      ELSE nopt \in BestHops(table, mine, dst)
      BY <2>1, <2>2 DEF LoopInv, BestHops, Differential
    <2>4. SelectionIsBest' /\ LargestDifferential'
      BY <2>1, <2>2, <2>3
      DEF LoopInv, SelectionIsBest, LargestDifferential, Differential,
          Bidirectional, inputs
    <2> QED
      BY <1>0, <2>1, <2>4 DEF IndInv, LoopTypes, inputs
  <1>8. CASE UNCHANGED vars
    BY <1>8 DEF vars, inputs, IndInv, LoopTypes, LoopInv, Passed, Differential,
                SelectionIsBest, LargestDifferential, Bidirectional
  <1> QED
    BY <1>1, <1>3, <1>4, <1>5, <1>6, <1>7, <1>8 DEF Next

(* router_update() sets, for every table and every draw, a next hop that    *)
(* the rule allows.                                                         *)
THEOREM SelectionCorrect == Spec => []SelectionIsBest
  <1>1. IndInv /\ [Next]_vars => IndInv'
    BY NextInd
  <1>2. IndInv => SelectionIsBest
    BY DEF IndInv
  <1> QED
    BY InitInd, <1>1, <1>2, PTL DEF Spec

(* and saves with it the largest differential of all bidirectional          *)
(* neighbors, the destination included.                                     *)
THEOREM DifferentialCorrect == Spec => []LargestDifferential
  <1>1. IndInv /\ [Next]_vars => IndInv'
    BY NextInd
  <1>2. IndInv => LargestDifferential
    BY DEF IndInv
  <1> QED
    BY InitInd, <1>1, <1>2, PTL DEF Spec

-----------------------------------------------------------------------------
(* The tie: the neighbors passed whose differential is the best so far. *)
Tie == {k \in Passed : Differential(k) = diffopt}

(* Over all draws for the tie each of its num members is chosen in the same *)
(* number w of outcomes, and they are all outcomes there are.               *)
EvenOdds ==
  nopt # 0 =>
    /\ num > 0
    /\ \E w \in Nat \ {0} :
         /\ draws = w * num
         /\ \A k \in DOMAIN table : odds[k] = IF k \in Tie THEN w ELSE 0

OddsInv ==
  /\ TypeOK
  /\ pc = "scan" => EvenOdds
  /\ TiesEquallyLikely

(* A product of positive numbers is positive. *)
LEMMA PositiveProduct ==
  ASSUME NEW a \in Nat \ {0}, NEW b \in Nat \ {0}
  PROVE  a * b \in Nat \ {0}
  OBVIOUS

(* Of the num + 1 outcomes of a draw an earlier choice survives num. *)
LEMMA SurvivedDraws ==
  ASSUME NEW w \in Nat, NEW m \in Nat
  PROVE  /\ w * ((m + 1) - 1) = w * m
         /\ 0 * ((m + 1) - 1) = 0
  OBVIOUS

(* No draw has been made before the first neighbor is looked at. *)
LEMMA InitOdds == Init => OddsInv
  BY NextHopAssumption DEF Init, OddsInv, TypeOK, EvenOdds, TiesEquallyLikely, Backlogs

(* The steps that neither draw nor leave the loop change neither the tie    *)
(* nor the odds: the neighbor they pass is not a best one.                  *)
LEMMA SkipOdds ==
  ASSUME IndInv, OddsInv, SkipUnidirectional \/ SkipSmaller
  PROVE  OddsInv'
  <1>0. /\ LoopTypes /\ pos \in Nat \ {0} /\ pos \in DOMAIN table /\ pc = "scan"
        /\ LoopInv /\ EvenOdds /\ DOMAIN table \subseteq Nat
        /\ UNCHANGED <<inputs, pc, num, diffopt, nopt, odds, draws>>
        /\ pos' = pos + 1
    BY DEF IndInv, LoopTypes, OddsInv, SkipUnidirectional, SkipSmaller, Candidate
  <1>1. pos \in Bidirectional(table) => Differential(pos) < diffopt
    BY DEF SkipUnidirectional, SkipSmaller, Bidirectional
  <1>2. Differential(pos) \in Nat /\ diffopt \in Nat
    BY <1>0, DifferentialBounds DEF LoopTypes
  <1>3. \A k \in DOMAIN table : k < pos + 1 <=> k < pos \/ k = pos
    BY <1>0
  <1>4. Tie' = Tie
    BY <1>0, <1>1, <1>2, <1>3 DEF Tie, Passed, Bidirectional, Differential, inputs
  <1>5. EvenOdds'
    BY <1>0, <1>4 DEF EvenOdds, inputs
  <1>6. TypeOK'
    BY <1>0 DEF OddsInv, TypeOK, inputs
  <1> QED
    BY <1>0, <1>5, <1>6 DEF OddsInv, TiesEquallyLikely

(* A draw gives the new neighbor as many outcomes as each of the others. *)
LEMMA CompareOdds ==
  ASSUME IndInv, OddsInv, Compare
  PROVE  OddsInv'
  <1> DEFINE n == IF Differential(pos) = diffopt THEN num + 1 ELSE 1
  <1>0. /\ LoopTypes /\ pos \in Nat \ {0} /\ pos \in DOMAIN table /\ pc = "scan"
        /\ table[pos].bidir
        /\ LoopInv /\ EvenOdds /\ TypeOK /\ DOMAIN table \subseteq Nat \ {0}
        /\ UNCHANGED <<inputs, pc>> /\ pos' = pos + 1
        /\ Differential(pos) >= diffopt
    BY DEF IndInv, LoopTypes, OddsInv, Compare, Candidate
  <1>1. num' = n /\ Draw(n)
    BY DEF Compare
  <1>2. /\ Differential(pos) \in Nat /\ diffopt \in Nat /\ num \in Nat
        /\ Differential(pos) <= mine /\ mine \in 0..MaxBacklog
        /\ odds \in [DOMAIN table -> Nat] /\ draws \in Nat \ {0}
    BY <1>0, DifferentialBounds DEF LoopTypes, TypeOK, Backlogs
  <1>3. /\ odds' = [k \in DOMAIN table |->
                      IF k = pos THEN IF n = 1 THEN 1 ELSE draws
                                 ELSE odds[k] * (n - 1)]
        /\ draws' = IF n = 1 THEN 1 ELSE draws * n
    BY <1>1 DEF Draw
  <1>4. nopt' \in {nopt, pos} /\ nopt' # 0 /\ diffopt' = Differential(pos)
    <2>1. n \in Nat \ {0} /\ (n = 1 \/ Differential(pos) = diffopt)
      BY <1>2
    <2>2. PICK r \in 0..(n - 1) :
            IF r = n - 1 THEN nopt' = pos /\ diffopt' = Differential(pos)
                         ELSE UNCHANGED <<nopt, diffopt>>
      BY <1>1 DEF Draw
    <2>3. n = 1 => r = n - 1
      BY <2>1, <2>2
    <2>4. nopt = 0 => n = 1
      BY <1>0, <1>2 DEF LoopInv
    <2> QED
      BY <1>0, <2>1, <2>2, <2>3, <2>4
  <1>5. Passed' = Passed \cup {pos} /\ pos \notin Passed
    <2>1. \A k \in DOMAIN table : k < pos + 1 <=> k < pos \/ k = pos
      BY <1>0
    <2> QED
      BY <1>0, <2>1 DEF Passed, Bidirectional, inputs
  <1>6. \A k \in Passed : Differential(k) \in Nat /\ Differential(k) <= diffopt
    BY <1>0, DifferentialBounds DEF LoopInv, Passed, Bidirectional
  <1>7. \A k : Differential(k)' = Differential(k)
    BY <1>0 DEF Differential, inputs
  <1>8. EvenOdds'
    <2>1. CASE n = 1
      <3>1. nopt = 0 \/ diffopt < Differential(pos)
        BY <1>0, <1>2, <2>1 DEF EvenOdds
      <3>2. Tie' = {pos}
        <4>1. \A k \in Passed : Differential(k) # Differential(pos)
          BY <1>0, <1>2, <1>6, <3>1 DEF LoopInv
        <4> QED
          BY <1>4, <1>5, <1>7, <4>1 DEF Tie
      <3>3. \A k \in DOMAIN table : odds'[k] = IF k \in {pos} THEN 1 ELSE 0
        BY <1>2, <1>3, <2>1
      <3> QED
        BY <1>0, <1>1, <1>3, <2>1, <3>2, <3>3 DEF EvenOdds, inputs
    <2>2. CASE n # 1
      <3>1. Differential(pos) = diffopt /\ n = num + 1 /\ nopt # 0
        BY <1>0, <1>2, <2>2 DEF LoopInv
      <3>2. Tie' = Tie \cup {pos}
        BY <1>4, <1>5, <1>7, <3>1 DEF Tie
      <3>3. PICK w \in Nat \ {0} :
              /\ draws = w * num
              /\ \A k \in DOMAIN table : odds[k] = IF k \in Tie THEN w ELSE 0
        BY <1>0, <3>1 DEF EvenOdds
      <3>4. /\ num > 0 /\ w * num \in Nat \ {0} /\ draws' = (w * num) * (num + 1)
            /\ num' > 0
        BY <1>0, <1>1, <1>2, <1>3, <2>2, <3>1, <3>3, PositiveProduct DEF EvenOdds
      <3>5. \A k \in DOMAIN table :
              odds'[k] = IF k \in Tie \cup {pos} THEN w * num ELSE 0
        <4> TAKE k \in DOMAIN table
        <4>1. CASE k = pos
          BY <1>3, <2>2, <3>3, <4>1
        <4>2. CASE k # pos /\ k \in Tie
          BY <1>2, <1>3, <3>1, <3>3, <4>2, SurvivedDraws
        <4>3. CASE k # pos /\ k \notin Tie
          BY <1>2, <1>3, <3>1, <3>3, <4>3, SurvivedDraws
        <4> QED
          BY <4>1, <4>2, <4>3
      <3> QED
        BY <1>0, <1>1, <3>1, <3>2, <3>4, <3>5 DEF EvenOdds, inputs
    <2> QED
      BY <2>1, <2>2
  <1>9. TypeOK'
    <2>1. num' \in Nat
      BY <1>1, <1>2
    <2>2. n - 1 \in Nat /\ n \in Nat \ {0}
      BY <1>2
    <2>3. draws' \in Nat \ {0}
      BY <1>2, <1>3, <2>2, PositiveProduct
    <2>4. odds' \in [DOMAIN table -> Nat]
      <3>1. \A k \in DOMAIN table : odds[k] * (n - 1) \in Nat
        BY <1>2, <2>2
      <3> QED
        BY <1>2, <1>3, <3>1
    <2>5. diffopt' \in Backlogs
      BY <1>2, <1>4, NextHopAssumption DEF Backlogs
    <2>6. pos' \in Nat \ {0} /\ nopt' \in {0} \cup DOMAIN table
      BY <1>0, <1>4 DEF LoopTypes
    <2> QED
      BY <1>0, <2>1, <2>3, <2>4, <2>5, <2>6 DEF TypeOK, inputs
  <1> QED
    BY <1>0, <1>8, <1>9 DEF OddsInv, TiesEquallyLikely

(* The destination is taken with certainty, and is the only best next hop. *)
LEMMA TakeOdds ==
  ASSUME IndInv, OddsInv, TakeDestination
  PROVE  OddsInv'
  <1>0. /\ LoopTypes /\ pos \in DOMAIN table /\ UNCHANGED <<inputs, pos, num>>
        /\ table[pos].bidir /\ table[pos].addr = dst /\ IsTable(table, dst) /\ TypeOK
        /\ nopt' = pos /\ diffopt' = Differential(pos) /\ pc' = "done" /\ draws' = 1
        /\ odds' = [k \in DOMAIN table |-> IF k = pos THEN 1 ELSE 0]
    BY DEF IndInv, OddsInv, TakeDestination
  <1>1. BestHops(table, mine, dst) = {pos}
    BY <1>0 DEF BestHops, Bidirectional, IsTable
  <1>2. TiesEquallyLikely'
    BY <1>0, <1>1 DEF TiesEquallyLikely, inputs
  <1>3. diffopt' \in Backlogs
    BY <1>0, DifferentialBounds, NextHopAssumption DEF Backlogs, TypeOK
  <1> QED
    BY <1>0, <1>2, <1>3 DEF OddsInv, TypeOK, inputs

(* At the end of the list the tie is the set of the best next hops. *)
LEMMA FinishOdds ==
  ASSUME IndInv, OddsInv, Finish
  PROVE  OddsInv'
  <1>0. /\ LoopInv /\ EvenOdds /\ TypeOK /\ pc' = "done"
        /\ UNCHANGED <<inputs, pos, num, diffopt, nopt, odds, draws>>
    BY DEF IndInv, OddsInv, Finish
  <1>1. Passed = Bidirectional(table)
    <2>1. PICK n \in 0..MaxLen : table \in [1..n -> Entry]
      BY <1>0 DEF TypeOK
    <2>2. pos \notin 1..n /\ pos \in Nat \ {0}
      BY <1>0, <2>1 DEF Finish, TypeOK
    <2>3. \A k \in DOMAIN table : k < pos
      BY <2>1, <2>2, NextHopAssumption
    <2> QED
      BY <2>3 DEF Passed, Bidirectional
  <1>2. ASSUME nopt # 0
        PROVE  BestHops(table, mine, dst) = Tie
    <2>1. \A k \in Bidirectional(table) : table[k].addr # dst
      BY <1>0, <1>1 DEF LoopInv
    <2>2. \A k \in Bidirectional(table) : Differential(k) \in Nat /\ Differential(k) <= diffopt
      BY <1>0, <1>1, DifferentialBounds DEF LoopInv, IndInv, Bidirectional
    <2>3. nopt \in Bidirectional(table) /\ Differential(nopt) = diffopt /\ diffopt \in Nat
      BY <1>0, <1>1, <1>2 DEF LoopInv, IndInv, LoopTypes
    <2>4. BestHops(table, mine, dst) =
            {k \in Bidirectional(table) : \A j \in Bidirectional(table) :
                                            Differential(j) <= Differential(k)}
      BY <2>1 DEF BestHops, Differential
    <2>5. \A k \in Bidirectional(table) :
            (\A j \in Bidirectional(table) : Differential(j) <= Differential(k))
              <=> Differential(k) = diffopt
      BY <2>2, <2>3
    <2> QED
      BY <1>1, <2>4, <2>5 DEF Tie
  <1>3. TiesEquallyLikely'
    <2>1. nopt # 0 => /\ \A j, k \in Tie : odds[j] = odds[k] /\ odds[j] > 0
                      /\ \A k \in DOMAIN table \ Tie : odds[k] = 0
      <3> SUFFICES ASSUME nopt # 0
                   PROVE  /\ \A j, k \in Tie : odds[j] = odds[k] /\ odds[j] > 0
                          /\ \A k \in DOMAIN table \ Tie : odds[k] = 0
        OBVIOUS
      <3>1. Tie \subseteq DOMAIN table
        BY DEF Tie, Passed, Bidirectional
      <3> QED
        BY <1>0, <3>1 DEF EvenOdds
    <2> QED
      BY <1>0, <1>2, <2>1 DEF TiesEquallyLikely, inputs
  <1> QED
    BY <1>0, <1>3 DEF OddsInv, TypeOK, inputs

(* The two invariants together are inductive. *)
LEMMA NextOdds ==
  ASSUME IndInv, OddsInv, [Next]_vars
  PROVE  OddsInv'
  <1>1. CASE Unknown
    BY <1>1 DEF Unknown, OddsInv, TypeOK, TiesEquallyLikely, inputs
  <1>2. CASE UNCHANGED vars
    BY <1>2 DEF vars, inputs, OddsInv, TypeOK, EvenOdds, TiesEquallyLikely, Tie,
                Passed, Differential, Bidirectional
  <1> QED
    BY <1>1, <1>2, SkipOdds, TakeOdds, CompareOdds, FinishOdds DEF Next

(* Both invariants hold in every state of the loop. *)
THEOREM OddsInvHolds == Spec => [](IndInv /\ OddsInv)
  <1>1. Init => IndInv /\ OddsInv
    BY InitInd, InitOdds
  <1>2. (IndInv /\ OddsInv) /\ [Next]_vars => (IndInv /\ OddsInv)'
    BY NextInd, NextOdds
  <1> QED
    BY <1>1, <1>2, PTL DEF Spec

(* The loop's variables keep their types; in particular the differential    *)
(* router_update() stores never exceeds the largest backlog.                *)
THEOREM TypeCorrect == Spec => []TypeOK
  <1>1. OddsInv => TypeOK
    BY DEF OddsInv
  <1> QED
    BY OddsInvHolds, <1>1, PTL

(* "uniformly choosing amongst an unknown number of ties" (router.c:331)    *)
(* for a list of any length: every best next hop is chosen in the same      *)
(* number of outcomes of the draws, and nobody else in any.                 *)
THEOREM TiesEqual == Spec => []TiesEquallyLikely
  <1>1. OddsInv => TiesEquallyLikely
    BY DEF OddsInv
  <1> QED
    BY OddsInvHolds, <1>1, PTL
=============================================================================
