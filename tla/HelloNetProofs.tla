--------------------------- MODULE HelloNetProofs ---------------------------
(***************************************************************************)
(* Proofs about HelloNet, for any number of stations, any intervals and   *)
(* delays, and any losses, crashes and link failures.                     *)
(*                                                                         *)
(* Neither a table nor a hello says how long ago anybody was heard, so    *)
(* the properties are not inductive.  The invariant adds that the age of  *)
(* an entry is the time since its neighbor was last heard, and exceeds    *)
(* the timeout by no more than the writer has slept; and that a station   *)
(* on a hello's list had been heard by its sender, within the timeout,    *)
(* when the hello was sent.                                               *)
(***************************************************************************)
EXTENDS HelloNet, FiniteSetTheorems, WellFoundedInduction, TLAPS

(* Six hello intervals fit the 32-bit counters. *)
NoWrap == HelloInterval * 6 + Slack + 1 < W

(* An entry's age. *)
AgesInv ==
  \A s, d \in Stations : s \in DOMAIN table[d] =>
    /\ d \in up
    /\ table[d][s].elapsed = heard[<<s, d>>]
    /\ heard[<<s, d>>] <= HelloInterval * 5 + timer[d]

(* What a hello's list says, and for how long. *)
ListsInv ==
  \A m \in msgs :
    /\ m.src # m.dst
    /\ m.dst \in m.lists => heard[<<m.dst, m.src>>] <= HelloInterval * 5 + m.age

IndInv == TypeOK /\ AgesInv /\ ListsInv

-----------------------------------------------------------------------------
(* Five hello intervals do not wrap. *)
LEMMA Timeout ==
  ASSUME NoWrap
  PROVE  /\ NeighborTimeout = HelloInterval * 5
         /\ NeighborTimeout \in Nat
  BY HelloAssumption DEF NoWrap, NeighborTimeout

(* Two different stations are a pair, and the other way round. *)
LEMMA PairsAre ==
  /\ \A s, d \in Stations : s # d => <<s, d>> \in Pairs
  /\ \A p \in Pairs : /\ p[1] \in Stations /\ p[2] \in Stations
                      /\ p[1] # p[2] /\ p = <<p[1], p[2]>>
  BY DEF Pairs

LEMMA InitInd == ASSUME Init PROVE IndInv
  <1>1. TypeOK
    BY HelloAssumption DEF Init, TypeOK, NoTable, Never
  <1>2. AgesInv /\ ListsInv
    BY DEF Init, AgesInv, ListsInv, NoTable
  <1> QED
    BY <1>1, <1>2 DEF IndInv

(* What TypeOK says of one entry and one pair. *)
LEMMA Types ==
  ASSUME TypeOK
  PROVE  /\ \A s \in Stations : timer[s] \in 0..(HelloInterval + Slack)
         /\ \A s, d \in Stations : s \in DOMAIN table[d] =>
              s # d /\ <<s, d>> \in Pairs /\ table[d][s].elapsed \in 0..(W - 1)
         /\ \A p \in Pairs : heard[p] \in 0..Never
         /\ \A m \in msgs : m \in Hello
  BY PairsAre DEF TypeOK, Entry

LEMMA TickInd ==
  ASSUME NoWrap, IndInv, Tick
  PROVE  IndInv'
  <1> USE HelloAssumption DEF IndInv
  <1>1. Never \in Nat /\ Never > HelloInterval * 6 + Slack
    BY DEF Never
  <1>2. ASSUME NEW s \in Stations, NEW d \in Stations, s \in DOMAIN table[d]
        PROVE  /\ d \in up
               /\ heard[<<s, d>>] \in Nat
               /\ heard[<<s, d>>] < HelloInterval * 6 + Slack
               /\ table[d][s].elapsed = heard[<<s, d>>]
               /\ timer[d] \in Nat /\ timer'[d] = timer[d] + 1
    BY <1>1, <1>2, Types DEF AgesInv, Tick
  <1>3. ASSUME NEW s \in Stations, NEW d \in Stations, s \in DOMAIN table'[d]
        PROVE  /\ s \in DOMAIN table[d]
               /\ table'[d][s] = [table[d][s] EXCEPT !.elapsed = (@ + 1) % W]
    BY <1>3 DEF Tick
  <1>4. \A p \in Pairs : heard'[p] = IF heard[p] < Never THEN heard[p] + 1 ELSE Never
    BY DEF Tick
  <1>5. AgesInv'
    <2> SUFFICES ASSUME NEW s \in Stations, NEW d \in Stations, s \in DOMAIN table'[d]
                 PROVE  /\ d \in up'
                        /\ table'[d][s].elapsed = heard'[<<s, d>>]
                        /\ heard'[<<s, d>>] <= HelloInterval * 5 + timer'[d]
      BY DEF AgesInv
    <2>1. s \in DOMAIN table[d] /\ <<s, d>> \in Pairs /\ table[d][s] \in Entry
      BY <1>3, Types DEF TypeOK
    <2>2. heard'[<<s, d>>] = heard[<<s, d>>] + 1
      BY <1>1, <1>2, <1>4, <2>1
    <2>3. table'[d][s].elapsed = (table[d][s].elapsed + 1) % W
      <3>1. "elapsed" \in DOMAIN table[d][s]
        BY <2>1 DEF Entry
      <3> QED
        BY <1>3, <3>1
    <2>4. (table[d][s].elapsed + 1) % W = heard[<<s, d>>] + 1
      <3>1. \A k \in Nat : k + 1 < W => (k + 1) % W = k + 1
        OBVIOUS
      <3>2. heard[<<s, d>>] + 1 < W
        BY <1>2, <2>1 DEF NoWrap
      <3> QED
        BY <1>2, <2>1, <3>1, <3>2
    <2>5. d \in up'
      BY <1>2, <2>1 DEF Tick
    <2>6. heard[<<s, d>>] <= HelloInterval * 5 + timer[d]
      BY <2>1 DEF AgesInv
    <2> QED
      BY <1>2, <2>1, <2>2, <2>3, <2>4, <2>5, <2>6
  <1>6. ASSUME NEW m \in msgs'
        PROVE  \E k \in msgs : /\ k \in Hello /\ k.age < MaxDelay
                               /\ m = [k EXCEPT !.age = @ + 1]
    BY <1>6, Types DEF Tick
  <1>7. ListsInv'
    <2> SUFFICES ASSUME NEW m \in msgs'
                 PROVE  /\ m.src # m.dst
                        /\ m.dst \in m.lists =>
                             heard'[<<m.dst, m.src>>] <= HelloInterval * 5 + m.age
      BY DEF ListsInv
    <2>1. PICK k \in msgs : /\ k \in Hello /\ k.age < MaxDelay
                            /\ m = [k EXCEPT !.age = @ + 1]
      BY <1>6
    <2>2. m.src = k.src /\ m.dst = k.dst /\ m.lists = k.lists /\ m.age = k.age + 1
      BY <2>1 DEF Hello
    <2>3. /\ k.src # k.dst
          /\ k.dst \in k.lists => heard[<<k.dst, k.src>>] <= HelloInterval * 5 + k.age
      BY DEF ListsInv
    <2>4. <<k.dst, k.src>> \in Pairs /\ k.age \in Nat
      BY <2>1, <2>3, PairsAre DEF Hello
    <2>5. heard[<<k.dst, k.src>>] \in 0..Never
      BY <2>4, Types
    <2> QED
      BY <1>1, <1>4, <2>2, <2>3, <2>4, <2>5
  <1>8. TypeOK'
    <2>1. /\ UNCHANGED <<up, severed, crashes, losses>>
          /\ timer' \in [Stations -> 0..(HelloInterval + Slack)]
      BY DEF Tick, TypeOK
    <2>2. heard' \in [Pairs -> 0..Never]
      BY <1>1 DEF Tick, TypeOK
    <2>3. msgs' \subseteq Hello
      BY <1>6 DEF Hello
    <2>4. DOMAIN table' = Stations
      BY DEF Tick
    <2>5. ASSUME NEW s \in Stations
          PROVE  /\ DOMAIN table'[s] \subseteq Stations \ {s}
                 /\ \A n \in DOMAIN table'[s] : table'[s][n] \in Entry
      <3>1. DOMAIN table'[s] = DOMAIN table[s]
        BY DEF Tick
      <3>2. ASSUME NEW n \in DOMAIN table'[s]
            PROVE  table'[s][n] \in Entry
        <4>1. n \in Stations /\ table[s][n] \in Entry
          BY <3>1, <3>2 DEF TypeOK
        <4>2. table'[s][n] = [table[s][n] EXCEPT !.elapsed = (@ + 1) % W]
          BY <1>3, <3>2, <4>1
        <4>3. (table[s][n].elapsed + 1) % W \in 0..(W - 1)
          BY <4>1 DEF Entry
        <4> QED
          BY <4>1, <4>2, <4>3 DEF Entry
      <3> QED
        BY <3>1, <3>2 DEF TypeOK
    <2> QED
      BY <2>1, <2>2, <2>3, <2>4, <2>5 DEF TypeOK
  <1> QED
    BY <1>5, <1>7, <1>8

(* The hello writer drops what has expired and lists the rest. *)
LEMMA WriterInd ==
  ASSUME NoWrap, IndInv, NEW w \in Stations, hello_add_addresses(w)
  PROVE  IndInv'
  <1> USE HelloAssumption DEF IndInv
  <1>1. /\ UNCHANGED <<up, severed, crashes, losses, heard>>
        /\ w \in up
        /\ timer' = [timer EXCEPT ![w] = 0]
        /\ table' = [table EXCEPT ![w] = Refreshed(@)]
    BY DEF hello_add_addresses
  <1>2. timer' \in [Stations -> 0..(HelloInterval + Slack)] /\ timer'[w] = 0
    BY <1>1 DEF TypeOK
  <1>3. /\ DOMAIN table' = Stations
        /\ \A d \in Stations \ {w} : table'[d] = table[d] /\ timer'[d] = timer[d]
        /\ table'[w] = Refreshed(table[w])
    BY <1>1 DEF TypeOK
  <1>4. ASSUME NEW n \in DOMAIN table'[w]
        PROVE  /\ n \in DOMAIN table[w]
               /\ table'[w][n] = table[w][n]
               /\ ~(table[w][n].elapsed > HelloInterval * 5)
    BY <1>3, <1>4, Timeout DEF Refreshed, cond_n_expired
  <1>5. ASSUME NEW s \in Stations, s \in DOMAIN table'[w]
        PROVE  heard[<<s, w>>] <= HelloInterval * 5 /\ table'[w][s].elapsed = heard[<<s, w>>]
    <2>1. table[w][s].elapsed = heard[<<s, w>>] /\ table[w][s].elapsed \in 0..(W - 1)
      BY <1>4, <1>5, Types DEF AgesInv
    <2> QED
      BY <1>4, <1>5, <2>1
  <1>6. AgesInv'
    <2> SUFFICES ASSUME NEW s \in Stations, NEW d \in Stations, s \in DOMAIN table'[d]
                 PROVE  /\ d \in up
                        /\ table'[d][s].elapsed = heard[<<s, d>>]
                        /\ heard[<<s, d>>] <= HelloInterval * 5 + timer'[d]
      BY <1>1 DEF AgesInv
    <2>1. CASE d = w
      BY <1>1, <1>2, <1>5, <2>1
    <2>2. CASE d # w
      BY <1>3, <2>2 DEF AgesInv
    <2> QED
      BY <2>1, <2>2
  <1>7. ASSUME NEW m \in msgs', m \notin msgs
        PROVE  /\ m \in Hello /\ m.src = w /\ m.dst # w /\ m.age = 0
               /\ m.lists = DOMAIN table'[w]
    <2>1. PICK d \in Stations \ {w} :
            m = [src |-> w, dst |-> d, lists |-> DOMAIN table'[w], age |-> 0]
      BY <1>7 DEF hello_add_addresses
    <2>2. DOMAIN table'[w] \subseteq Stations
      BY <1>4 DEF TypeOK
    <2> QED
      BY <2>1, <2>2 DEF Hello
  <1>8. ListsInv'
    <2> SUFFICES ASSUME NEW m \in msgs'
                 PROVE  /\ m.src # m.dst
                        /\ m.dst \in m.lists =>
                             heard[<<m.dst, m.src>>] <= HelloInterval * 5 + m.age
      BY <1>1 DEF ListsInv
    <2>1. CASE m \in msgs
      BY <2>1 DEF ListsInv
    <2>2. CASE m \notin msgs
      <3>1. /\ m.src = w /\ m.dst # w /\ m.age = 0 /\ m.lists = DOMAIN table'[w]
            /\ m.dst \in Stations
        BY <1>7, <2>2 DEF Hello
      <3>2. m.dst \in m.lists => heard[<<m.dst, w>>] <= HelloInterval * 5
        BY <1>5, <3>1
      <3>3. m.dst \in m.lists => heard[<<m.dst, w>>] \in Nat
        BY <3>1, PairsAre, Types DEF Never
      <3> QED
        BY <3>1, <3>2, <3>3
    <2> QED
      BY <2>1, <2>2
  <1>9. TypeOK'
    <2>1. msgs' \subseteq Hello
      BY <1>7 DEF TypeOK
    <2>2. ASSUME NEW s \in Stations
          PROVE  /\ DOMAIN table'[s] \subseteq Stations \ {s}
                 /\ \A n \in DOMAIN table'[s] : table'[s][n] \in Entry
      <3>1. CASE s = w
        BY <1>4, <3>1 DEF TypeOK
      <3>2. CASE s # w
        BY <1>3, <3>2 DEF TypeOK
      <3> QED
        BY <3>1, <3>2
    <2> QED
      BY <1>1, <1>2, <1>3, <2>1, <2>2 DEF TypeOK
  <1> QED
    BY <1>6, <1>8, <1>9

(* The hello reader renews the sender's entry. *)
LEMMA ReaderInd ==
  ASSUME NoWrap, IndInv, NEW m \in msgs, NEW again \in BOOLEAN, hello_recv(m, again)
  PROVE  IndInv'
  <1> USE HelloAssumption DEF IndInv
  <1> DEFINE r == m.dst
             x == m.src
  <1>1. /\ UNCHANGED <<up, timer, severed, crashes>>
        /\ r \in up /\ r \in Stations /\ x \in Stations /\ x # r
        /\ <<x, r>> \in Pairs
    BY PairsAre DEF hello_recv, TypeOK, Hello, ListsInv
  <1>2. msgs' \subseteq msgs
    BY DEF hello_recv
  <1>3. /\ heard' \in [Pairs -> 0..Never]
        /\ heard'[<<x, r>>] = 0
        /\ \A p \in Pairs : p # <<x, r>> => heard'[p] = heard[p]
    BY <1>1 DEF hello_recv, TypeOK, Never
  <1>4. losses' \in [Pairs -> 0..MaxLosses]
    BY <1>1 DEF hello_recv, TypeOK
  <1>5. /\ DOMAIN table' = Stations
        /\ \A d \in Stations \ {r} : table'[d] = table[d]
        /\ DOMAIN table'[r] = DOMAIN table[r] \cup {x}
        /\ \A n \in DOMAIN table[r] \ {x} : table'[r][n] = table[r][n]
    BY <1>1 DEF hello_recv, TypeOK
  <1> DEFINE b == r \in m.lists \/ (x \in DOMAIN table[r] /\ table[r][x].bidir)
  <1>6. table'[r][x] = [bidir |-> b, elapsed |-> 0]
    <2> DEFINE f == [n \in DOMAIN table[r] \cup {x} |->
                       IF n # x THEN table[r][n]
                       ELSE [bidir |-> r \in m.lists \/ (n \in DOMAIN table[r] /\ table[r][n].bidir),
                             elapsed |-> 0]]
    <2>1. table' = [table EXCEPT ![r] = f]
      BY DEF hello_recv
    <2>2. table'[r] = f
      <3> HIDE DEF f
      <3> QED
        BY <1>1, <2>1 DEF TypeOK
    <2>3. f[x] = [bidir |-> b, elapsed |-> 0]
      BY Zenon
    <2> QED
      BY <2>2, <2>3
  <1>7. table'[r][x] \in Entry /\ table'[r][x].elapsed = 0
    <2>1. b \in BOOLEAN
      OBVIOUS
    <2>2. ASSUME NEW c \in BOOLEAN
          PROVE  /\ [bidir |-> c, elapsed |-> 0] \in Entry
                 /\ [bidir |-> c, elapsed |-> 0].elapsed = 0
      BY DEF Entry
    <2> HIDE DEF b
    <2> QED
      BY <1>6, <2>1, <2>2, Zenon
  <1>8. AgesInv'
    <2> SUFFICES ASSUME NEW s \in Stations, NEW d \in Stations, s \in DOMAIN table'[d]
                 PROVE  /\ d \in up
                        /\ table'[d][s].elapsed = heard'[<<s, d>>]
                        /\ heard'[<<s, d>>] <= HelloInterval * 5 + timer[d]
      BY <1>1 DEF AgesInv
    <2>1. CASE d = r /\ s = x
      BY <1>1, <1>3, <1>7, <2>1, Types
    <2>2. CASE ~(d = r /\ s = x)
      <3>1. s \in DOMAIN table[d] /\ table'[d][s] = table[d][s]
        BY <1>5, <2>2
      <3>2. <<s, d>> \in Pairs /\ <<s, d>> # <<x, r>>
        BY <2>2, <3>1, Types
      <3> QED
        BY <1>3, <3>1, <3>2 DEF AgesInv
    <2> QED
      BY <2>1, <2>2
  <1>9. ListsInv'
    <2> SUFFICES ASSUME NEW k \in msgs
                 PROVE  /\ k.src # k.dst
                        /\ k.dst \in k.lists =>
                             heard'[<<k.dst, k.src>>] <= HelloInterval * 5 + k.age
      BY <1>2 DEF ListsInv
    <2>1. /\ k.src # k.dst /\ <<k.dst, k.src>> \in Pairs /\ k.age \in Nat
          /\ k.dst \in k.lists => heard[<<k.dst, k.src>>] <= HelloInterval * 5 + k.age
      BY PairsAre DEF ListsInv, TypeOK, Hello
    <2> QED
      BY <1>3, <2>1
  <1>10. TypeOK'
    <2>1. ASSUME NEW s \in Stations
          PROVE  /\ DOMAIN table'[s] \subseteq Stations \ {s}
                 /\ \A n \in DOMAIN table'[s] : table'[s][n] \in Entry
      <3>1. CASE s = r
        BY <1>1, <1>5, <1>7, <3>1 DEF TypeOK
      <3>2. CASE s # r
        BY <1>5, <3>2 DEF TypeOK
      <3> QED
        BY <3>1, <3>2
    <2> QED
      BY <1>1, <1>2, <1>3, <1>4, <1>5, <2>1 DEF TypeOK
  <1> QED
    BY <1>8, <1>9, <1>10

(* The network and the crashes only take away. *)
LEMMA FaultsInd ==
  ASSUME IndInv,
         \/ \E m \in msgs : Lose(m)
         \/ \E p \in Pairs : Sever(p)
         \/ \E s \in Stations : Crash(s) \/ Restart(s)
  PROVE  IndInv'
  <1> USE HelloAssumption DEF IndInv
  <1>1. ASSUME NEW m \in msgs, Lose(m)
        PROVE  IndInv'
    <2>1. UNCHANGED <<up, table, timer, severed, crashes, heard>> /\ msgs' \subseteq msgs
      BY <1>1 DEF Lose
    <2>2. losses' \in [Pairs -> 0..MaxLosses]
      <3>1. <<m.src, m.dst>> \in Pairs
        BY PairsAre DEF ListsInv, TypeOK, Hello
      <3>2. losses[<<m.src, m.dst>>] \in 0..MaxLosses
        BY <3>1 DEF TypeOK
      <3> QED
        BY <1>1, <3>1, <3>2 DEF Lose, TypeOK
    <2> QED
      BY <2>1, <2>2 DEF TypeOK, AgesInv, ListsInv
  <1>2. ASSUME NEW p \in Pairs, Sever(p)
        PROVE  IndInv'
    BY <1>2 DEF Sever, TypeOK, AgesInv, ListsInv
  <1>3. ASSUME NEW s \in Stations, Crash(s)
        PROVE  IndInv'
    <2>1. /\ UNCHANGED <<timer, msgs, severed, losses, heard>>
          /\ up' = up \ {s}
          /\ crashes' \in [Stations -> 0..MaxCrashes]
      BY <1>3 DEF Crash, TypeOK
    <2>2. /\ DOMAIN table' = Stations
          /\ \A d \in Stations \ {s} : table'[d] = table[d]
          /\ DOMAIN table'[s] = {}
      BY <1>3 DEF Crash, TypeOK, NoTable
    <2>3. TypeOK'
      BY <2>1, <2>2 DEF TypeOK
    <2>4. AgesInv' /\ ListsInv'
      BY <2>1, <2>2 DEF AgesInv, ListsInv
    <2> QED
      BY <2>3, <2>4
  <1>4. ASSUME NEW s \in Stations, Restart(s)
        PROVE  IndInv'
    <2>1. /\ UNCHANGED <<table, msgs, severed, crashes, losses, heard>>
          /\ up' = up \cup {s} /\ s \notin up
          /\ timer' \in [Stations -> 0..(HelloInterval + Slack)]
          /\ \A d \in Stations \ {s} : timer'[d] = timer[d]
      BY <1>4 DEF Restart, TypeOK
    <2>2. TypeOK'
      BY <2>1 DEF TypeOK
    <2>3. AgesInv' /\ ListsInv'
      BY <2>1 DEF AgesInv, ListsInv
    <2> QED
      BY <2>2, <2>3
  <1> QED
    BY <1>1, <1>2, <1>3, <1>4

LEMMA NextInd ==
  ASSUME NoWrap, IndInv, [Next]_vars
  PROVE  IndInv'
  <1>1. CASE Tick
    BY <1>1, TickInd
  <1>2. CASE Writers
    BY <1>2, WriterInd DEF Writers
  <1>3. CASE Readers \/ \E m \in msgs : hello_recv(m, TRUE)
    BY <1>3, ReaderInd DEF Readers
  <1>4. CASE \/ \E m \in msgs : Lose(m)
             \/ \E p \in Pairs : Sever(p)
             \/ \E s \in Stations : Crash(s) \/ Restart(s)
    BY <1>4, FaultsInd
  <1>5. CASE UNCHANGED vars
    BY <1>5 DEF vars, IndInv, TypeOK, AgesInv, ListsInv
  <1> QED
    BY <1>1, <1>2, <1>3, <1>4, <1>5 DEF Next

THEOREM IndInvHolds ==
  ASSUME NoWrap
  PROVE  Spec => []IndInv
  <1>1. IndInv /\ [Next]_vars => IndInv'
    BY NextInd
  <1> QED
    BY InitInd, <1>1, PTL DEF Spec

-----------------------------------------------------------------------------
(* Tables, hellos and clocks keep their types: no station learns itself as  *)
(* a neighbor, and no age leaves the range of the counters.                 *)
THEOREM TypeCorrect ==
  ASSUME NoWrap
  PROVE  Spec => []TypeOK
  <1>1. IndInv => TypeOK
    BY DEF IndInv
  <1> QED
    BY IndInvHolds, <1>1, PTL

(* ntable_refresh() and the writer's period bound how long a station that   *)
(* is gone stays in a table.                                                *)
THEOREM SilentForgotten ==
  ASSUME NoWrap
  PROVE  Spec => []SilentNeighborForgotten
  <1>1. IndInv => SilentNeighborForgotten
    <2> SUFFICES ASSUME IndInv, NEW p \in Pairs, p[1] \in DOMAIN table[p[2]]
                 PROVE  heard[p] <= NeighborTimeout + HelloInterval + Slack
      BY DEF SilentNeighborForgotten
    <2>1. /\ heard[p] <= HelloInterval * 5 + timer[p[2]]
          /\ timer[p[2]] \in 0..(HelloInterval + Slack)
      BY PairsAre, Types DEF IndInv, AgesInv
    <2>2. heard[p] \in Nat
      BY Types, HelloAssumption DEF IndInv, Never
    <2> QED
      BY <2>1, <2>2, Timeout, HelloAssumption
  <1> QED
    BY IndInvHolds, <1>1, PTL

(* The hello reader marks a neighbor bidirectional only if that neighbor    *)
(* had heard this station shortly before.                                   *)
THEOREM MarkedHeard ==
  ASSUME NoWrap
  PROVE  Spec => MarkedWhileHeard
  <1>1. ASSUME IndInv, [Next]_vars
        PROVE  [\A p \in Pairs : ~IsBidirectional(p[1], p[2]) /\ IsBidirectional(p[1], p[2])'
                  => heard[p] <= NeighborTimeout + MaxDelay]_vars
    <2> SUFFICES ASSUME Next, NEW p \in Pairs, ~IsBidirectional(p[1], p[2]),
                        IsBidirectional(p[1], p[2])'
                 PROVE  heard[p] <= NeighborTimeout + MaxDelay
      BY <1>1
    <2> DEFINE s == p[1]
               d == p[2]
    <2>1. /\ s \in Stations /\ d \in Stations /\ s # d /\ p = <<s, d>>
          /\ DOMAIN table = Stations
      BY <1>1, PairsAre DEF IndInv, TypeOK
    <2>2. d \in DOMAIN table'[s] /\ table'[s][d].bidir
      BY DEF IsBidirectional
    <2>3. PICK m \in msgs, again \in BOOLEAN : hello_recv(m, again)
      <3>1. CASE Tick
        <4>1. d \in DOMAIN table[s] /\ table[s][d] \in Entry
              /\ table'[s][d] = [table[s][d] EXCEPT !.elapsed = (@ + 1) % W]
          BY <1>1, <2>1, <2>2, <3>1 DEF Tick, IndInv, TypeOK
        <4>2. table'[s][d].bidir = table[s][d].bidir
          BY <4>1 DEF Entry
        <4> QED
          BY <2>2, <4>1, <4>2 DEF IsBidirectional
      <3>2. CASE Writers
        <4>1. PICK w \in Stations : table' = [table EXCEPT ![w] = Refreshed(@)]
          BY <3>2 DEF Writers, hello_add_addresses
        <4>2. d \in DOMAIN table[s] /\ table'[s][d] = table[s][d]
          BY <2>1, <2>2, <4>1 DEF Refreshed
        <4> QED
          BY <2>2, <4>2 DEF IsBidirectional
      <3>3. CASE \/ \E m \in msgs : Lose(m)
                 \/ \E q \in Pairs : Sever(q)
                 \/ \E t \in Stations : Crash(t) \/ Restart(t)
        <4>1. table' = table \/ \E t \in Stations : table' = [table EXCEPT ![t] = NoTable]
          BY <3>3 DEF Lose, Sever, Crash, Restart
        <4>2. d \in DOMAIN table[s] /\ table'[s][d] = table[s][d]
          BY <2>1, <2>2, <4>1 DEF NoTable
        <4> QED
          BY <2>2, <4>2 DEF IsBidirectional
      <3> QED
        BY <3>1, <3>2, <3>3 DEF Next, Readers
    <2>4. s = m.dst /\ d = m.src /\ s \in m.lists
      <3>1. m.dst \in Stations /\ m.src \in Stations
        BY <1>1, <2>3 DEF IndInv, TypeOK, Hello
      <3>2. CASE ~(s = m.dst /\ d = m.src)
        <4>1. d \in DOMAIN table[s] /\ table'[s][d] = table[s][d]
          BY <2>1, <2>2, <2>3, <3>1, <3>2 DEF hello_recv
        <4> QED
          BY <2>2, <4>1 DEF IsBidirectional
      <3>3. CASE s = m.dst /\ d = m.src /\ s \notin m.lists
        <4> DEFINE f == [n \in DOMAIN table[s] \cup {d} |->
                           IF n # d THEN table[s][n]
                           ELSE [bidir |-> \/ s \in m.lists
                                           \/ n \in DOMAIN table[s] /\ table[s][n].bidir,
                                 elapsed |-> 0]]
        <4>1. table' = [table EXCEPT ![s] = f]
          BY <2>3, <3>3 DEF hello_recv
        <4>2. table'[s] = f
          <5> HIDE DEF f
          <5> QED
            BY <2>1, <4>1
        <4>3. f[d].bidir = (s \in m.lists \/ (d \in DOMAIN table[s] /\ table[s][d].bidir))
          BY Zenon
        <4> HIDE DEF f
        <4> QED
          BY <2>2, <3>3, <4>2, <4>3 DEF IsBidirectional
      <3> QED
        BY <3>2, <3>3
    <2>5. heard[<<s, d>>] <= HelloInterval * 5 + m.age /\ m.age \in 0..MaxDelay
      BY <1>1, <2>4 DEF IndInv, ListsInv, TypeOK, Hello
    <2>6. heard[<<s, d>>] \in Nat
      BY <1>1, <2>1, Types, HelloAssumption DEF IndInv, Never
    <2> QED
      BY <2>1, <2>5, <2>6, Timeout, HelloAssumption
  <1> QED
    BY IndInvHolds, <1>1, PTL DEF Spec, MarkedWhileHeard

-----------------------------------------------------------------------------
(***************************************************************************)
(* A live neighbor is kept.  Several hellos may be on their way from one  *)
(* station to another, and they may overtake each other.  Every period    *)
(* since the receiver last heard the sender accounts for a hello that was *)
(* lost or for one that is still in flight; counting back from a hello in *)
(* flight instead of from now, only the older ones count.  The oldest one *)
(* has nothing but losses before it, and is no older than MaxDelay.       *)
(***************************************************************************)
Period == HelloInterval + Slack

(* The time k hellos account for. *)
Time(k) == k * Period

(* The hellos on their way from s to d, and those sent before time a ago. *)
Flight(s, d) == {m \in msgs : m.src = s /\ m.dst = d}
Older(s, d, a) == {m \in Flight(s, d) : m.age > a}

(* A station that has not crashed runs, and has sent nothing since its      *)
(* timer was reset.                                                         *)
SenderInv ==
  /\ \A s \in Stations : crashes[s] = 0 => s \in up
  /\ \A m \in msgs : crashes[m.src] = 0 => m.age >= timer[m.src]

FlightInv == \A s, d \in Stations : IsFiniteSet(Flight(s, d))

(* How long d may not have heard s. *)
Accounted(s, d) ==
  /\ heard[<<s, d>>] <= timer[s] + Time(losses[<<s, d>>] + Cardinality(Flight(s, d)))
  /\ \A m \in Flight(s, d) :
       heard[<<s, d>>] <=
         m.age + Time(losses[<<s, d>>] + Cardinality(Older(s, d, m.age)) + 1)

LossInv ==
  \A s, d \in Stations :
    s \in DOMAIN table[d] /\ <<s, d>> \notin severed /\ crashes[s] = 0 => Accounted(s, d)

LiveInv == IndInv /\ SenderInv /\ FlightInv /\ LossInv

(* A nonempty set of naturals has a least element. *)
LEMMA Least ==
  ASSUME NEW T \in SUBSET Nat, T # {}
  PROVE  \E x \in T : \A y \in T : x <= y
  <1> DEFINE R == {ss \in Nat \X Nat : ss[1] < ss[2]}
  <1>1. IsWellFoundedOn(R, Nat)
    BY NatLessThanWellFounded DEF OpToRel
  <1>2. PICK x \in T : \A y \in T : ~(<<y, x>> \in R)
    <2> HIDE DEF R
    <2> QED
      BY <1>1, WFMin, Zenon
  <1>3. ASSUME NEW y \in T
        PROVE  x <= y
    <2>1. x \in Nat /\ y \in Nat
      OBVIOUS
    <2>2. y < x => <<y, x>> \in R
      BY <2>1
    <2>3. ~(y < x)
      BY <1>2, <2>2
    <2> QED
      BY <2>1, <2>3
  <1> QED
    BY <1>3

(* Arithmetic on the number of hellos. *)
LEMMA Periods ==
  /\ Period \in Nat
  /\ \A k \in Nat : Time(k) \in Nat /\ Time(k + 1) = Time(k) + Period
  /\ \A j, k \in Nat : j <= k => Time(j) <= Time(k)
  <1>1. Period \in Nat
    BY HelloAssumption DEF Period
  <1> HIDE DEF Period
  <1>2. ASSUME NEW k \in Nat
        PROVE  Time(k) \in Nat /\ Time(k + 1) = Time(k) + Period
    BY <1>1 DEF Time
  <1>3. ASSUME NEW j \in Nat, NEW k \in Nat, j <= k
        PROVE  Time(j) <= Time(k)
    <2>1. k - j \in Nat
      BY <1>3
    <2>2. (k - j) * Period >= 0
      BY <1>1, <2>1
    <2>3. k * Period = j * Period + (k - j) * Period
      BY <1>1, <2>1
    <2>4. j * Period \in Int /\ (k - j) * Period \in Int
      BY <1>1, <2>1
    <2> QED
      BY <2>2, <2>3, <2>4 DEF Time
  <1> QED
    BY <1>1, <1>2, <1>3

LEMMA LiveInit == ASSUME Init PROVE LiveInv
  <1>1. FlightInv
    <2>1. \A s, d \in Stations : Flight(s, d) = {}
      BY DEF Init, Flight
    <2> QED
      BY <2>1, FS_EmptySet DEF FlightInv
  <1> QED
    BY <1>1, InitInd DEF LiveInv, Init, SenderInv, LossInv, NoTable

(* The numbers in LossInv. *)
LEMMA LossTypes ==
  ASSUME IndInv, NEW s \in Stations, NEW d \in Stations, s # d
  PROVE  /\ losses[<<s, d>>] \in Nat /\ losses[<<s, d>>] <= MaxLosses
         /\ heard[<<s, d>>] \in Nat
         /\ timer[s] \in Nat /\ timer[s] <= Period
  <1>1. <<s, d>> \in Pairs
    BY PairsAre
  <1>2. losses[<<s, d>>] \in 0..MaxLosses /\ heard[<<s, d>>] \in Nat
    BY <1>1, HelloAssumption DEF IndInv, TypeOK, Never
  <1>3. timer[s] \in 0..Period
    BY DEF IndInv, TypeOK, Period
  <1> QED
    BY <1>2, <1>3, HelloAssumption DEF Period

LEMMA FlightTypes ==
  ASSUME IndInv, FlightInv, NEW s \in Stations, NEW d \in Stations
  PROVE  /\ Cardinality(Flight(s, d)) \in Nat
         /\ \A a \in Nat : /\ IsFiniteSet(Older(s, d, a))
                           /\ Cardinality(Older(s, d, a)) \in Nat
         /\ \A m \in Flight(s, d) : m \in Hello /\ m.age \in Nat /\ m.age <= MaxDelay
  <1>1. IsFiniteSet(Flight(s, d))
    BY DEF FlightInv
  <1>2. Cardinality(Flight(s, d)) \in Nat
    BY <1>1, FS_CardinalityType
  <1>3. ASSUME NEW a \in Nat
        PROVE  IsFiniteSet(Older(s, d, a)) /\ Cardinality(Older(s, d, a)) \in Nat
    <2>1. Older(s, d, a) \in SUBSET Flight(s, d)
      BY DEF Older
    <2> QED
      BY <1>1, <2>1, FS_Subset, FS_CardinalityType
  <1>4. \A m \in Flight(s, d) : m \in Hello /\ m.age \in Nat /\ m.age <= MaxDelay
    BY Types, HelloAssumption DEF IndInv, Flight, Hello
  <1> QED
    BY <1>2, <1>3, <1>4

(* A step that leaves the hellos from s to d alone, and what is known of    *)
(* them.                                                                    *)
LEMMA SameAccount ==
  ASSUME NEW s, NEW d, Accounted(s, d), Flight(s, d)' = Flight(s, d),
         heard'[<<s, d>>] = heard[<<s, d>>], losses'[<<s, d>>] = losses[<<s, d>>],
         timer'[s] = timer[s]
  PROVE  Accounted(s, d)'
  BY DEF Accounted, Older

(* As time passes the hellos in flight are as many as before. *)
Aged(m) == [m EXCEPT !.age = @ + 1]

LEMMA AgedCount ==
  ASSUME NEW S \in SUBSET Hello, IsFiniteSet(S), NEW T, T = {Aged(m) : m \in S}
  PROVE  IsFiniteSet(T) /\ Cardinality(T) = Cardinality(S)
  <1> DEFINE f == [m \in S |-> Aged(m)]
  <1>1. f \in [S -> T]
    OBVIOUS
  <1>2. ASSUME NEW m \in S, NEW k \in S, Aged(m) = Aged(k)
        PROVE  m = k
    <2>1. m \in Hello /\ k \in Hello
      OBVIOUS
    <2>2. m.src = k.src /\ m.dst = k.dst /\ m.lists = k.lists /\ m.age + 1 = k.age + 1
      BY <1>2, <2>1 DEF Aged, Hello
    <2>3. m.age = k.age
      BY <2>1, <2>2, HelloAssumption DEF Hello
    <2> QED
      BY <2>1, <2>2, <2>3 DEF Hello
  <1>3. f \in Bijection(S, T)
    BY <1>1, <1>2 DEF Bijection, Injection, Surjection, IsInjective
  <1> HIDE DEF f
  <1>4. ExistsBijection(S, T)
    BY <1>3 DEF ExistsBijection
  <1> QED
    BY <1>4, FS_Bijection

LEMMA LiveTick ==
  ASSUME LiveInv, Tick
  PROVE  SenderInv' /\ FlightInv' /\ LossInv'
  <1> USE HelloAssumption DEF LiveInv
  <1>1. ASSUME NEW s \in Stations, crashes[s] = 0
        PROVE  s \in up /\ timer'[s] = timer[s] + 1 /\ timer[s] \in Nat
    BY <1>1, Types DEF SenderInv, Tick, IndInv
  <1>2. msgs' = {Aged(k) : k \in msgs} /\ msgs \subseteq Hello
    BY Types DEF Tick, IndInv, Aged
  <1>3. \A k \in Hello : /\ Aged(k).src = k.src /\ Aged(k).dst = k.dst
                         /\ k.age \in Nat /\ Aged(k).age = k.age + 1 /\ k.src \in Stations
    BY DEF Aged, Hello
  <1>4. SenderInv'
    <2>1. \A s \in Stations : crashes'[s] = 0 => s \in up'
      BY <1>1 DEF Tick
    <2>2. ASSUME NEW m \in msgs', crashes'[m.src] = 0
          PROVE  m.age >= timer'[m.src]
      <3>1. PICK k \in msgs : m = Aged(k) /\ k \in Hello
        BY <1>2
      <3>2. m.src = k.src /\ m.age = k.age + 1 /\ k.age \in Nat /\ k.src \in Stations
        BY <1>3, <3>1
      <3>3. crashes[k.src] = 0
        BY <2>2, <3>2 DEF Tick
      <3>4. k.age >= timer[k.src]
        BY <3>3 DEF SenderInv
      <3> QED
        BY <1>1, <3>2, <3>3, <3>4
    <2> QED
      BY <2>1, <2>2 DEF SenderInv
  <1>5. ASSUME NEW s \in Stations, NEW d \in Stations
        PROVE  /\ Flight(s, d)' = {Aged(k) : k \in Flight(s, d)}
               /\ Flight(s, d) \in SUBSET Hello
               /\ IsFiniteSet(Flight(s, d)')
               /\ Cardinality(Flight(s, d)') = Cardinality(Flight(s, d))
    <2>1. Flight(s, d) \in SUBSET Hello
      BY <1>2 DEF Flight
    <2>2. Flight(s, d)' = {Aged(k) : k \in Flight(s, d)}
      BY <1>2, <1>3 DEF Flight
    <2>3. IsFiniteSet(Flight(s, d))
      BY DEF FlightInv
    <2> QED
      BY <2>1, <2>2, <2>3, AgedCount
  <1>6. LossInv'
    <2> SUFFICES ASSUME NEW s \in Stations, NEW d \in Stations, s \in DOMAIN table'[d],
                        <<s, d>> \notin severed, crashes[s] = 0
                 PROVE  Accounted(s, d)'
      BY DEF LossInv, Tick
    <2>1. s \in DOMAIN table[d]
      BY DEF Tick
    <2>2. s # d /\ <<s, d>> \in Pairs
      BY <2>1, Types DEF IndInv
    <2>3. heard'[<<s, d>>] \in Nat /\ heard'[<<s, d>>] <= heard[<<s, d>>] + 1
      BY <2>2, LossTypes DEF Tick, Never
    <2>4. Accounted(s, d)
      BY <2>1 DEF LossInv
    <2>5. losses' = losses
      BY DEF Tick
    <2>6. heard'[<<s, d>>] <= timer'[s] + Time(losses[<<s, d>>] + Cardinality(Flight(s, d)))
      <3>1. losses[<<s, d>>] + Cardinality(Flight(s, d)) \in Nat
        BY <2>2, LossTypes, FlightTypes
      <3>2. Time(losses[<<s, d>>] + Cardinality(Flight(s, d))) \in Nat
        BY <3>1, Periods
      <3> QED
        BY <1>1, <2>2, <2>3, <2>4, <3>2, LossTypes DEF Accounted
    <2>7. ASSUME NEW m \in Flight(s, d)'
          PROVE  heard'[<<s, d>>] <=
                   m.age + Time(losses[<<s, d>>] + Cardinality(Older(s, d, m.age)') + 1)
      <3>1. PICK k \in Flight(s, d) : m = Aged(k) /\ k \in Hello
        BY <1>5
      <3>2. m.age = k.age + 1 /\ k.age \in Nat
        BY <1>3, <3>1
      <3>3. Older(s, d, m.age)' = {Aged(j) : j \in Older(s, d, k.age)}
        BY <1>3, <1>5, <3>2 DEF Older
      <3>4. Older(s, d, k.age) \in SUBSET Hello /\ IsFiniteSet(Older(s, d, k.age))
        BY <1>5, <3>2, FlightTypes DEF Older
      <3>5. Cardinality(Older(s, d, m.age)') = Cardinality(Older(s, d, k.age))
        BY <3>3, <3>4, AgedCount
      <3> DEFINE n == losses[<<s, d>>] + Cardinality(Older(s, d, k.age)) + 1
      <3>6. n \in Nat
        BY <2>2, <3>2, LossTypes, FlightTypes
      <3>7. Time(n) \in Nat
        BY <3>6, Periods
      <3>8. heard[<<s, d>>] <= k.age + Time(n)
        BY <2>4 DEF Accounted
      <3> HIDE DEF n
      <3>9. heard'[<<s, d>>] <= m.age + Time(n)
        BY <2>2, <2>3, <3>2, <3>7, <3>8, LossTypes
      <3> QED
        BY <3>5, <3>9 DEF n
    <2> QED
      BY <1>5, <2>5, <2>6, <2>7 DEF Accounted
  <1> QED
    BY <1>4, <1>5, <1>6 DEF FlightInv

(* A hello is sent a period after the last one at the latest, and all that  *)
(* are in flight are older.                                                 *)
LEMMA LiveWriter ==
  ASSUME LiveInv, NEW w \in Stations, hello_add_addresses(w)
  PROVE  SenderInv' /\ FlightInv' /\ LossInv'
  <1> USE HelloAssumption DEF LiveInv
  <1> DEFINE New(d) == [src |-> w, dst |-> d, lists |-> DOMAIN table'[w], age |-> 0]
  <1>1. /\ UNCHANGED <<up, severed, crashes, losses, heard>>
        /\ timer[w] >= HelloInterval
        /\ timer'[w] = 0
        /\ \A s \in Stations \ {w} : timer'[s] = timer[s]
        /\ \A d \in Stations : DOMAIN table'[d] \subseteq DOMAIN table[d]
    <2>1. /\ UNCHANGED <<up, severed, crashes, losses, heard>>
          /\ timer[w] >= HelloInterval
          /\ timer' = [timer EXCEPT ![w] = 0]
          /\ table' = [table EXCEPT ![w] = Refreshed(@)]
      BY DEF hello_add_addresses
    <2>2. DOMAIN Refreshed(table[w]) \subseteq DOMAIN table[w]
      BY DEF Refreshed
    <2> QED
      BY <2>1, <2>2 DEF IndInv, TypeOK
  <1>2. msgs' = msgs \cup {New(d) : d \in {e \in Stations \ {w} : <<w, e>> \notin severed}}
    BY DEF hello_add_addresses
  <1>3. \A d : New(d).src = w /\ New(d).dst = d /\ New(d).age = 0
    OBVIOUS
  <1> HIDE DEF New
  <1>4. SenderInv'
    <2>1. ASSUME NEW m \in msgs', crashes[m.src] = 0
          PROVE  m.age >= timer'[m.src]
      <3>1. CASE m \in msgs
        <4>1. m.src \in Stations /\ m.age \in Nat /\ m.age >= timer[m.src]
          BY <2>1, <3>1, Types DEF IndInv, Hello, SenderInv
        <4> QED
          BY <1>1, <4>1
      <3>2. CASE m \notin msgs
        <4>1. \E d \in Stations : m = New(d)
          BY <1>2, <3>2
        <4> QED
          BY <1>1, <1>3, <4>1
      <3> QED
        BY <3>1, <3>2
    <2> QED
      BY <1>1, <2>1 DEF SenderInv
  <1>5. ASSUME NEW s \in Stations, NEW d \in Stations
        PROVE  \/ Flight(s, d)' = Flight(s, d) /\ (s # w \/ d = w \/ <<w, d>> \in severed)
               \/ Flight(s, d)' = Flight(s, d) \cup {New(d)} /\ s = w
    <2>1. \A m \in msgs' : m \in msgs \/ \E e \in Stations \ {w} :
            m = New(e) /\ m.src = w /\ m.dst = e /\ <<w, e>> \notin severed
      BY <1>2, <1>3
    <2>2. CASE s # w \/ d = w \/ <<w, d>> \in severed
      BY <1>2, <2>1, <2>2 DEF Flight
    <2>3. CASE s = w /\ d # w /\ <<w, d>> \notin severed
      <3>1. New(d) \in Flight(s, d)'
        BY <1>2, <1>3, <2>3 DEF Flight
      <3> QED
        BY <1>2, <2>1, <2>3, <3>1 DEF Flight
    <2> QED
      BY <2>2, <2>3
  <1>6. FlightInv'
    <2> SUFFICES ASSUME NEW s \in Stations, NEW d \in Stations
                 PROVE  IsFiniteSet(Flight(s, d)')
      BY DEF FlightInv
    <2>1. IsFiniteSet(Flight(s, d))
      BY DEF FlightInv
    <2>2. IsFiniteSet(Flight(s, d) \cup {New(d)})
      BY <2>1, FS_AddElement
    <2> QED
      BY <1>5, <2>1, <2>2
  <1>7. LossInv'
    <2> SUFFICES ASSUME NEW s \in Stations, NEW d \in Stations, s \in DOMAIN table'[d],
                        <<s, d>> \notin severed, crashes[s] = 0
                 PROVE  Accounted(s, d)'
      BY <1>1 DEF LossInv
    <2>1. s \in DOMAIN table[d] /\ s # d
      BY <1>1, Types DEF IndInv
    <2>2. Accounted(s, d)
      BY <2>1 DEF LossInv
    <2>3. CASE s # w
      <3>1. Flight(s, d)' = Flight(s, d)
        BY <1>5, <2>3
      <3> QED
        BY <1>1, <2>2, <2>3, <3>1, SameAccount
    <2>4. CASE s = w
      <3> DEFINE n == losses[<<s, d>>] + Cardinality(Flight(s, d))
      <3>1. Flight(s, d)' = Flight(s, d) \cup {New(d)}
        BY <1>5, <2>1, <2>4
      <3>2. \A m \in Flight(s, d) : m.age \in Nat /\ m.age > 0
        <4>1. \A m \in Flight(s, d) : m \in msgs /\ m.src = w /\ m.age \in Nat
          BY <2>4, FlightTypes DEF Flight
        <4>2. timer[w] \in Nat /\ HelloInterval > 0
          BY Types DEF IndInv
        <4> QED
          BY <1>1, <2>4, <4>1, <4>2 DEF SenderInv
      <3>3. Cardinality(Flight(s, d)') = Cardinality(Flight(s, d)) + 1
        <4>1. New(d) \notin Flight(s, d)
          BY <1>3, <3>2
        <4>2. IsFiniteSet(Flight(s, d))
          BY DEF FlightInv
        <4> QED
          BY <3>1, <4>1, <4>2, FS_AddElement
      <3>4. n \in Nat /\ Time(n) \in Nat /\ Time(n + 1) = Time(n) + Period /\ Period \in Nat
        <4>1. n \in Nat
          <5>1. losses[<<s, d>>] \in Nat
            BY <2>1, LossTypes
          <5>2. Cardinality(Flight(s, d)) \in Nat
            BY FlightTypes
          <5> QED
            BY <5>1, <5>2
        <4> HIDE DEF n
        <4> QED
          BY <4>1, Periods
      <3>5. heard[<<s, d>>] <= timer[s] + Time(n)
        BY <2>2 DEF Accounted
      <3>6. heard[<<s, d>>] <= Time(n + 1)
        <4> HIDE DEF n
        <4> QED
          BY <2>1, <3>4, <3>5, LossTypes
      <3>7. losses[<<s, d>>] + Cardinality(Flight(s, d)') = n + 1
        <4>1. losses[<<s, d>>] \in Nat
          BY <2>1, LossTypes
        <4>2. Cardinality(Flight(s, d)) \in Nat
          BY FlightTypes
        <4> QED
          BY <3>3, <4>1, <4>2
      <3>8. heard[<<s, d>>] <= timer'[s] + Time(losses[<<s, d>>] + Cardinality(Flight(s, d)'))
        BY <1>1, <2>4, <3>4, <3>6, <3>7
      <3>9. ASSUME NEW m \in Flight(s, d)'
            PROVE  heard[<<s, d>>] <=
                     m.age + Time(losses[<<s, d>>] + Cardinality(Older(s, d, m.age)') + 1)
        <4>1. CASE m \in Flight(s, d)
          <5>1. Older(s, d, m.age)' = Older(s, d, m.age)
            <6>1. ~(New(d).age > m.age)
              BY <1>3, <3>2, <4>1
            <6> QED
              BY <3>1, <6>1 DEF Older
          <5> QED
            BY <2>2, <4>1, <5>1 DEF Accounted
        <4>2. CASE m = New(d)
          <5>1. m.age = 0
            BY <1>3, <4>2
          <5>2. Older(s, d, m.age)' = Flight(s, d)
            <6>1. ~(New(d).age > 0)
              BY <1>3
            <6> QED
              BY <3>1, <3>2, <5>1, <6>1 DEF Older
          <5> QED
            BY <3>4, <3>6, <5>1, <5>2
        <4> QED
          BY <3>1, <4>1, <4>2
      <3> QED
        BY <1>1, <3>8, <3>9 DEF Accounted
    <2> QED
      BY <2>3, <2>4
  <1> QED
    BY <1>4, <1>6, <1>7

LEMMA LiveReader ==
  ASSUME LiveInv, NEW m \in msgs, NEW again \in BOOLEAN, hello_recv(m, again)
  PROVE  SenderInv' /\ FlightInv' /\ LossInv'
  <1> USE HelloAssumption DEF LiveInv
  <1> DEFINE r == m.dst
             x == m.src
  <1>1. /\ UNCHANGED <<up, timer, severed, crashes>>
        /\ r \in Stations /\ x \in Stations /\ <<x, r>> \in Pairs
        /\ msgs \ {m} \subseteq msgs' /\ msgs' \subseteq msgs
    BY PairsAre, Types DEF hello_recv, IndInv, Hello, ListsInv
  <1>2. /\ heard'[<<x, r>>] = 0 /\ losses'[<<x, r>>] = 0
        /\ \A p \in Pairs : p # <<x, r>> => heard'[p] = heard[p] /\ losses'[p] = losses[p]
    BY <1>1 DEF hello_recv, IndInv, TypeOK
  <1>3. \A s, d \in Stations : ~(s = x /\ d = r) /\ s \in DOMAIN table'[d]
                               => s \in DOMAIN table[d]
    BY <1>1 DEF hello_recv, IndInv, TypeOK
  <1>4. SenderInv'
    BY <1>1 DEF SenderInv
  <1>5. ASSUME NEW s \in Stations, NEW d \in Stations
        PROVE  /\ Flight(s, d)' \in SUBSET Flight(s, d)
               /\ IsFiniteSet(Flight(s, d)')
    <2>1. Flight(s, d)' \in SUBSET Flight(s, d)
      BY <1>1 DEF Flight
    <2> QED
      BY <2>1, FS_Subset DEF FlightInv
  <1>6. LossInv'
    <2> SUFFICES ASSUME NEW s \in Stations, NEW d \in Stations, s \in DOMAIN table'[d],
                        <<s, d>> \notin severed, crashes[s] = 0
                 PROVE  Accounted(s, d)'
      BY <1>1 DEF LossInv
    <2>1. timer[s] \in Nat
      BY Types DEF IndInv
    <2>2. CASE s = x /\ d = r
      <3>1. heard'[<<s, d>>] = 0 /\ losses'[<<s, d>>] = 0
        BY <1>2, <2>2
      <3>2. Cardinality(Flight(s, d)') \in Nat
        BY <1>5, FS_CardinalityType
      <3>3. 0 <= timer[s] + Time(0 + Cardinality(Flight(s, d)'))
        BY <2>1, <3>2, Periods
      <3>4. ASSUME NEW k \in Flight(s, d)'
            PROVE  0 <= k.age + Time(0 + Cardinality(Older(s, d, k.age)') + 1)
        <4>1. k.age \in Nat
          BY <1>5, FlightTypes
        <4>2. Older(s, d, k.age)' \in SUBSET Flight(s, d)'
          BY DEF Older
        <4>3. Cardinality(Older(s, d, k.age)') \in Nat
          BY <1>5, <4>2, FS_Subset, FS_CardinalityType
        <4>4. 0 + Cardinality(Older(s, d, k.age)') + 1 \in Nat
          BY <4>3
        <4> QED
          BY <4>1, <4>4, Periods
      <3> QED
        BY <1>1, <3>1, <3>3, <3>4 DEF Accounted
    <2>3. CASE ~(s = x /\ d = r)
      <3>1. s \in DOMAIN table[d] /\ <<s, d>> \in Pairs
        BY <1>3, <2>3, Types DEF IndInv
      <3>2. <<s, d>> # <<x, r>>
        BY <2>3
      <3>3. Flight(s, d)' = Flight(s, d)
        BY <1>1, <2>3 DEF Flight
      <3>4. Accounted(s, d)
        BY <1>1, <3>1 DEF LossInv
      <3> QED
        BY <1>1, <1>2, <3>1, <3>2, <3>3, <3>4, SameAccount
    <2> QED
      BY <2>2, <2>3
  <1> QED
    BY <1>4, <1>5, <1>6 DEF FlightInv

(* A lost hello is counted as lost instead of as one in flight. *)
LEMMA LiveLose ==
  ASSUME LiveInv, NEW m \in msgs, Lose(m)
  PROVE  SenderInv' /\ FlightInv' /\ LossInv'
  <1> USE HelloAssumption DEF LiveInv
  <1>1. /\ UNCHANGED <<up, table, timer, severed, crashes, heard>>
        /\ msgs' = msgs \ {m}
        /\ <<m.src, m.dst>> \in Pairs
    BY PairsAre, Types DEF Lose, IndInv, Hello, ListsInv
  <1>2. SenderInv'
    BY <1>1 DEF SenderInv
  <1>3. \A s, d \in Stations : Flight(s, d)' = Flight(s, d) \ {m}
    BY <1>1 DEF Flight
  <1>4. FlightInv'
    <2> SUFFICES ASSUME NEW s \in Stations, NEW d \in Stations
                 PROVE  IsFiniteSet(Flight(s, d)')
      BY DEF FlightInv
    <2>1. IsFiniteSet(Flight(s, d))
      BY DEF FlightInv
    <2> QED
      BY <1>3, <2>1, FS_RemoveElement
  <1>5. LossInv'
    <2> SUFFICES ASSUME NEW s \in Stations, NEW d \in Stations, s \in DOMAIN table[d],
                        <<s, d>> \notin severed, crashes[s] = 0
                 PROVE  Accounted(s, d)'
      BY <1>1 DEF LossInv
    <2>1. <<s, d>> \in Pairs /\ s # d /\ d \in up
      BY Types DEF IndInv, AgesInv
    <2>2. Accounted(s, d)
      BY DEF LossInv
    <2>3. CASE s = m.src /\ d = m.dst
      <3> DEFINE l == losses[<<s, d>>]
      <3>1. losses'[<<s, d>>] = l + 1 /\ l \in Nat
        BY <2>1, <2>3, LossTypes DEF Lose, IndInv, TypeOK
      <3>2. m \in Flight(s, d)
        BY <2>3 DEF Flight
      <3>3. Cardinality(Flight(s, d)') = Cardinality(Flight(s, d)) - 1
        BY <1>3, <3>2, FS_RemoveElement DEF FlightInv
      <3>4. losses'[<<s, d>>] + Cardinality(Flight(s, d)') = l + Cardinality(Flight(s, d))
        BY <3>1, <3>3, FlightTypes
      <3>5. ASSUME NEW k \in Flight(s, d)'
            PROVE  heard[<<s, d>>] <=
                     k.age + Time(losses'[<<s, d>>] + Cardinality(Older(s, d, k.age)') + 1)
        <4>1. k \in Flight(s, d) /\ k.age \in Nat
          BY <1>3, FlightTypes
        <4>2. Older(s, d, k.age)' = Older(s, d, k.age) \ {m}
          BY <1>3 DEF Older
        <4>3. IsFiniteSet(Older(s, d, k.age)) /\ Cardinality(Older(s, d, k.age)) \in Nat
          BY <4>1, FlightTypes
        <4> DEFINE n == Cardinality(Older(s, d, k.age))
                   j == Cardinality(Older(s, d, k.age)')
        <4>4. j \in Nat /\ j >= n - 1
          BY <4>2, <4>3, FS_RemoveElement, FS_CardinalityType
        <4>5. n \in Nat
          BY <4>3
        <4>6. heard[<<s, d>>] <= k.age + Time(l + n + 1)
          BY <2>2, <4>1 DEF Accounted
        <4>7. heard[<<s, d>>] \in Nat
          BY <2>1, LossTypes
        <4> HIDE DEF n, j, l
        <4>8. l + n + 1 \in Nat /\ l + 1 + j + 1 \in Nat /\ l + n + 1 <= l + 1 + j + 1
          BY <3>1, <4>4, <4>5
        <4>9. /\ Time(l + n + 1) <= Time(l + 1 + j + 1)
              /\ Time(l + n + 1) \in Nat /\ Time(l + 1 + j + 1) \in Nat
          BY <4>8, Periods
        <4>10. heard[<<s, d>>] <= k.age + Time(l + 1 + j + 1)
          BY <4>1, <4>6, <4>7, <4>9
        <4> QED
          BY <3>1, <4>10 DEF j
      <3> QED
        BY <1>1, <2>2, <3>4, <3>5 DEF Accounted
    <2>4. CASE ~(s = m.src /\ d = m.dst)
      <3>1. losses'[<<s, d>>] = losses[<<s, d>>]
        BY <1>1, <2>1, <2>4 DEF Lose, IndInv, TypeOK
      <3>2. Flight(s, d)' = Flight(s, d)
        BY <1>1, <2>4 DEF Flight
      <3> QED
        BY <1>1, <2>2, <3>1, <3>2, SameAccount
    <2> QED
      BY <2>3, <2>4
  <1> QED
    BY <1>2, <1>4, <1>5

(* Link failures and crashes only end obligations. *)
LEMMA LiveFaults ==
  ASSUME LiveInv,
         \/ \E p \in Pairs : Sever(p)
         \/ \E s \in Stations : Crash(s) \/ Restart(s)
  PROVE  SenderInv' /\ FlightInv' /\ LossInv'
  <1> USE HelloAssumption DEF LiveInv
  <1>1. /\ msgs' = msgs /\ losses' = losses /\ heard' = heard
        /\ \A s, d : Flight(s, d)' = Flight(s, d)
    BY DEF Sever, Crash, Restart, Flight
  <1>2. FlightInv'
    BY <1>1 DEF FlightInv
  <1>3. \A m \in msgs : m.src \in Stations
    BY Types DEF IndInv, Hello
  <1>4. ASSUME NEW p \in Pairs, Sever(p)
        PROVE  SenderInv' /\ LossInv'
    <2>1. UNCHANGED <<up, table, timer, crashes>> /\ severed \subseteq severed'
      BY <1>4 DEF Sever
    <2> QED
      BY <1>1, <2>1, SameAccount DEF SenderInv, LossInv
  <1>5. ASSUME NEW c \in Stations, Crash(c)
        PROVE  SenderInv' /\ LossInv'
    <2>1. /\ UNCHANGED <<timer, severed>>
          /\ up' = up \ {c} /\ crashes'[c] # 0
          /\ \A s \in Stations \ {c} : crashes'[s] = crashes[s]
          /\ \A d \in Stations : DOMAIN table'[d] \subseteq DOMAIN table[d]
      BY <1>5 DEF Crash, IndInv, TypeOK, NoTable
    <2> QED
      BY <1>1, <1>3, <2>1, SameAccount DEF SenderInv, LossInv
  <1>6. ASSUME NEW c \in Stations, Restart(c)
        PROVE  SenderInv' /\ LossInv'
    <2>1. /\ UNCHANGED <<table, severed, crashes>>
          /\ up' = up \cup {c} /\ crashes[c] # 0
          /\ \A s \in Stations \ {c} : timer'[s] = timer[s]
      BY <1>6 DEF Restart, IndInv, TypeOK, SenderInv
    <2> QED
      BY <1>1, <1>3, <2>1, SameAccount DEF SenderInv, LossInv
  <1> QED
    BY <1>2, <1>4, <1>5, <1>6

LEMMA LiveNext ==
  ASSUME NoWrap, LiveInv, [Next]_vars
  PROVE  LiveInv'
  <1>1. IndInv'
    BY NextInd DEF LiveInv
  <1>2. CASE Tick
    BY <1>1, <1>2, LiveTick DEF LiveInv
  <1>3. CASE Writers
    BY <1>1, <1>3, LiveWriter DEF LiveInv, Writers
  <1>4. CASE Readers \/ \E m \in msgs : hello_recv(m, TRUE)
    BY <1>1, <1>4, LiveReader DEF LiveInv, Readers
  <1>5. CASE \E m \in msgs : Lose(m)
    BY <1>1, <1>5, LiveLose DEF LiveInv
  <1>6. CASE \/ \E p \in Pairs : Sever(p)
             \/ \E s \in Stations : Crash(s) \/ Restart(s)
    BY <1>1, <1>6, LiveFaults DEF LiveInv
  <1>7. CASE UNCHANGED vars
    BY <1>1, <1>7 DEF vars, LiveInv, SenderInv, LossInv, FlightInv, Accounted, Older, Flight
  <1> QED
    BY <1>2, <1>3, <1>4, <1>5, <1>6, <1>7 DEF Next

(* If anything is in flight, one hello is the oldest. *)
LEMMA Oldest ==
  ASSUME LiveInv, NEW s \in Stations, NEW d \in Stations, Flight(s, d) # {}
  PROVE  \E m \in Flight(s, d) : Older(s, d, m.age) = {}
  <1> USE DEF LiveInv
  <1> DEFINE T == {MaxDelay - m.age : m \in Flight(s, d)}
  <1>1. \A m \in Flight(s, d) : m.age \in Nat /\ m.age <= MaxDelay
    BY FlightTypes
  <1>2. MaxDelay \in Nat
    BY HelloAssumption
  <1>3. T \in SUBSET Nat /\ T # {}
    BY <1>1, <1>2
  <1>4. PICK x \in T : \A y \in T : x <= y
    BY <1>3, Least
  <1>5. PICK m \in Flight(s, d) : x = MaxDelay - m.age
    OBVIOUS
  <1>6. \A k \in Flight(s, d) : MaxDelay - m.age <= MaxDelay - k.age
    BY <1>4, <1>5
  <1>7. \A k \in Flight(s, d) : ~(k.age > m.age)
    BY <1>1, <1>2, <1>6
  <1> QED
    BY <1>7 DEF Older

(* A steady neighbor's entry has not expired when the writer looks. *)
LEMMA NotExpired ==
  ASSUME NoWrap, LiveInv, NEW s \in Stations, NEW d \in Stations,
         s \in DOMAIN table[d], <<s, d>> \notin severed, crashes[s] = 0
  PROVE  ~cond_n_expired(table[d][s])
  <1> USE HelloAssumption DEF LiveInv
  <1>1. s # d /\ table[d][s].elapsed = heard[<<s, d>>]
    BY Types DEF IndInv, AgesInv
  <1> DEFINE l == losses[<<s, d>>]
  <1>2. /\ l \in Nat /\ l <= MaxLosses /\ heard[<<s, d>>] \in Nat
        /\ timer[s] \in Nat /\ timer[s] <= Period
    BY <1>1, LossTypes
  <1>3. Accounted(s, d)
    BY DEF LossInv
  <1>4. Time(l) \in Nat /\ Time(l + 1) \in Nat /\ Time(l + 1) = Time(l) + Period
        /\ Time(l + 1) <= Time(MaxLosses + 1) /\ Time(MaxLosses + 1) \in Nat
        /\ Period \in Nat
    <2>1. l + 1 \in Nat /\ MaxLosses + 1 \in Nat /\ l + 1 <= MaxLosses + 1
      BY <1>2
    <2> QED
      BY <1>2, <2>1, Periods
  <1>5. heard[<<s, d>>] <= Time(MaxLosses + 1) + MaxDelay
    <2>1. CASE Flight(s, d) = {}
      <3>1. l + Cardinality(Flight(s, d)) = l
        BY <1>2, <2>1, FS_EmptySet
      <3>2. heard[<<s, d>>] <= timer[s] + Time(l)
        BY <1>3, <3>1 DEF Accounted
      <3> QED
        BY <1>2, <1>4, <3>2
    <2>2. CASE Flight(s, d) # {}
      <3>1. PICK m \in Flight(s, d) : Older(s, d, m.age) = {}
        BY <2>2, Oldest
      <3>2. m.age \in Nat /\ m.age <= MaxDelay
        BY FlightTypes
      <3>3. l + Cardinality(Older(s, d, m.age)) + 1 = l + 1
        BY <1>2, <3>1, FS_EmptySet
      <3>4. heard[<<s, d>>] <= m.age + Time(l + 1)
        BY <1>3, <3>3 DEF Accounted
      <3> QED
        BY <1>2, <1>4, <3>2, <3>4
    <2> QED
      BY <2>1, <2>2
  <1>6. Time(MaxLosses + 1) + MaxDelay <= HelloInterval * 5
    BY TimingAssumption DEF Time, Period
  <1> QED
    BY <1>1, <1>2, <1>4, <1>5, <1>6, Timeout DEF cond_n_expired

(* ntable_refresh() never removes a neighbor that keeps sending over a      *)
(* working link, for any timeout that bridges the losses and the delay,     *)
(* however many hellos are in flight and in whatever order they arrive.     *)
THEOREM LiveKept ==
  ASSUME NoWrap
  PROVE  Spec => LiveNeighborKept
  <1>1. Spec => []LiveInv
    <2>1. LiveInv /\ [Next]_vars => LiveInv'
      BY LiveNext
    <2> QED
      BY LiveInit, <2>1, PTL DEF Spec
  <1>2. ASSUME LiveInv, [Next]_vars
        PROVE  [\A p \in Pairs :
                  p[1] \in DOMAIN table[p[2]] /\ p \notin severed /\ crashes[p[1]] = 0
                    => p[1] \in DOMAIN table'[p[2]] \/ p[2] \notin up']_vars
    <2> SUFFICES ASSUME Next, NEW p \in Pairs, p[1] \in DOMAIN table[p[2]],
                        p \notin severed, crashes[p[1]] = 0
                 PROVE  p[1] \in DOMAIN table'[p[2]] \/ p[2] \notin up'
      BY <1>2
    <2> DEFINE s == p[1]
               d == p[2]
    <2>1. /\ s \in Stations /\ d \in Stations /\ p = <<s, d>>
          /\ DOMAIN table = Stations /\ s \in DOMAIN table[d]
      BY <1>2, PairsAre DEF LiveInv, IndInv, TypeOK
    <2>2. CASE Tick
      BY <2>1, <2>2 DEF Tick
    <2>3. CASE Writers
      <3>1. PICK w \in Stations : table' = [table EXCEPT ![w] = Refreshed(@)]
        BY <2>3 DEF Writers, hello_add_addresses
      <3>2. ~cond_n_expired(table[d][s])
        BY <1>2, <2>1, NotExpired
      <3>3. s \in DOMAIN Refreshed(table[d])
        BY <2>1, <3>2 DEF Refreshed
      <3> QED
        BY <2>1, <3>1, <3>3
    <2>4. CASE \E m \in msgs, again \in BOOLEAN : hello_recv(m, again)
      BY <2>1, <2>4 DEF hello_recv
    <2>5. CASE \/ \E m \in msgs : Lose(m)
               \/ \E q \in Pairs : Sever(q)
               \/ \E t \in Stations : Restart(t)
      BY <2>1, <2>5 DEF Lose, Sever, Restart
    <2>6. CASE \E t \in Stations : Crash(t)
      <3>1. PICK t \in Stations : up' = up \ {t} /\ table' = [table EXCEPT ![t] = NoTable]
        BY <2>6 DEF Crash
      <3> QED
        BY <2>1, <3>1
    <2> QED
      BY <2>2, <2>3, <2>4, <2>5, <2>6 DEF Next, Readers
  <1> QED
    BY <1>1, <1>2, PTL DEF Spec, LiveNeighborKept
=============================================================================
