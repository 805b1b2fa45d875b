------------------------------ MODULE HelloNet ------------------------------
(***************************************************************************)
(* The hello protocol between stations: every station multicasts hellos   *)
(* that list its neighbors, learns neighbors from the hellos it receives, *)
(* takes a neighbor that lists it for bidirectional, and forgets one that *)
(* has been silent for longer than five hello intervals.                  *)
(*                                                                         *)
(* Time passes in ticks.  The network loses, delays, duplicates and       *)
(* reorders hellos, links fail in one direction, stations crash and       *)
(* restart with an empty table.  Backlogs play no part here, nor does the *)
(* sequence number of a hello: the reader ignores it.  Times are modulo W *)
(* as the uint32_t microseconds of the code.                              *)
(***************************************************************************)
EXTENDS Integers, FiniteSets

CONSTANTS
  Stations,
  HelloInterval, \* bprd.hello_interval: a writer sleeps at least so long
  Slack,         \* and at most so much longer (scheduling)
  MaxDelay,      \* bound on the time a hello takes
  MaxLosses,     \* bound on consecutive losses from one station to another
  Faulty,        \* the stations that may crash
  MaxCrashes,    \* bound on a station's crashes
  MaxSevers,     \* bound on link failures
  W              \* times are taken modulo W (2^32 in the code)

Pairs == {p \in Stations \X Stations : p[1] # p[2]}

(* Mutant: the timeout is three intervals. *)
NeighborTimeout_three == (HelloInterval * 3) % W

(* bprd.neighbor_timeout *)
NeighborTimeout == (HelloInterval * 5) % W

ASSUME HelloAssumption ==
  /\ HelloInterval \in Nat \ {0}
  /\ Faulty \subseteq Stations
  /\ Slack \in Nat /\ MaxDelay \in Nat
  /\ MaxLosses \in Nat /\ MaxCrashes \in Nat /\ MaxSevers \in Nat
  /\ W \in Nat \ {0}

(* Losses and delays the timeout is meant to bridge. *)
ASSUME TimingAssumption ==
  (MaxLosses + 1) * (HelloInterval + Slack) + MaxDelay <= HelloInterval * 5

VARIABLES
  up,      \* the stations that run
  table,   \* table[s]: s's neighbor table, [bidir, elapsed] by address
  timer,   \* timer[s]: time since s's writer last sent a hello
  msgs,    \* hellos in flight, one for each receiver
  severed, \* <<s, d>>: d does not receive s any more
  crashes, \* how often each station has crashed
  losses,  \* consecutive losses, by sender and receiver
  heard    \* history, heard[<<s, d>>]: time since d last received a hello
           \* from s, up to Never

vars == <<up, table, timer, msgs, severed, crashes, losses, heard>>

(* History values from here on mean "long ago". *)
Never == HelloInterval * 6 + Slack + MaxDelay + 1

Entry == [bidir : BOOLEAN, elapsed : 0..(W - 1)]
Hello == [src : Stations, dst : Stations, lists : SUBSET Stations, age : 0..MaxDelay]
NoTable == [n \in {} |-> [bidir |-> FALSE, elapsed |-> 0]]

Init ==
  /\ up = Stations
  /\ table = [s \in Stations |-> NoTable]
  /\ timer = [s \in Stations |-> HelloInterval]
  /\ msgs = {}
  /\ severed = {}
  /\ crashes = [s \in Stations |-> 0]
  /\ losses = [p \in Pairs |-> 0]
  /\ heard = [p \in Pairs |-> Never]

-----------------------------------------------------------------------------
(* Time passes, unless a writer's sleep is over or a hello is due. *)
Tick ==
  /\ \A s \in up : timer[s] < HelloInterval + Slack
  /\ \A m \in msgs : m.age < MaxDelay
  /\ timer' = [s \in Stations |-> IF s \in up THEN timer[s] + 1 ELSE timer[s]]
  /\ table' = [s \in Stations |-> [n \in DOMAIN table[s] |->
                 [table[s][n] EXCEPT !.elapsed = (@ + 1) % W]]]
  /\ msgs' = {[m EXCEPT !.age = @ + 1] : m \in msgs}
  /\ heard' = [p \in Pairs |-> IF heard[p] < Never THEN heard[p] + 1 ELSE Never]
  /\ UNCHANGED <<up, severed, crashes, losses>>

(* Mutant: a neighbor is never dropped. *)
cond_n_expired_never(e) == FALSE

(* One that was heard exactly the timeout ago is kept. *)
cond_n_expired(e) == e.elapsed > NeighborTimeout

(* ntable_refresh() *)
Refreshed(t) == [n \in {k \in DOMAIN t : ~cond_n_expired(t[k])} |-> t[n]]

(* Mutant: the addresses are added before the table is refreshed. *)
hello_add_addresses_unrefreshed(s) ==
  /\ s \in up /\ timer[s] >= HelloInterval
  /\ timer' = [timer EXCEPT ![s] = 0]
  /\ table' = [table EXCEPT ![s] = Refreshed(@)]
  /\ msgs' = msgs \cup {[src |-> s, dst |-> d, lists |-> DOMAIN table[s],
                         age |-> 0] :
                          d \in {e \in Stations \ {s} : <<s, e>> \notin severed}}
  /\ UNCHANGED <<up, severed, crashes, losses, heard>>

(* Mutant: multicast hellos are looped back to their sender. *)
hello_add_addresses_loopback(s) ==
  /\ s \in up /\ timer[s] >= HelloInterval
  /\ timer' = [timer EXCEPT ![s] = 0]
  /\ table' = [table EXCEPT ![s] = Refreshed(@)]
  /\ msgs' = msgs \cup {[src |-> s, dst |-> d, lists |-> DOMAIN table'[s],
                         age |-> 0] :
                          d \in {e \in Stations : <<s, e>> \notin severed}}
  /\ UNCHANGED <<up, severed, crashes, losses, heard>>

(* One round of the hello writer: refresh the table, list what is left, and *)
(* multicast to the stations in range.                                      *)
hello_add_addresses(s) ==
  /\ s \in up /\ timer[s] >= HelloInterval
  /\ timer' = [timer EXCEPT ![s] = 0]
  /\ table' = [table EXCEPT ![s] = Refreshed(@)]
  /\ msgs' = msgs \cup {[src |-> s, dst |-> d, lists |-> DOMAIN table'[s],
                         age |-> 0] :
                          d \in {e \in Stations \ {s} : <<s, e>> \notin severed}}
  /\ UNCHANGED <<up, severed, crashes, losses, heard>>

(* Mutant: only a new neighbor's list is searched for this station. *)
hello_recv_new_only(m, again) ==
  /\ m.dst \in up
  /\ table' = [table EXCEPT ![m.dst] =
       [n \in DOMAIN @ \cup {m.src} |->
          IF n # m.src THEN @[n]
          ELSE [bidir |-> IF n \in DOMAIN @ THEN @[n].bidir ELSE m.dst \in m.lists,
                elapsed |-> 0]]]
  /\ msgs' = IF again THEN msgs ELSE msgs \ {m}
  /\ losses' = [losses EXCEPT ![<<m.src, m.dst>>] = 0]
  /\ heard' = [heard EXCEPT ![<<m.src, m.dst>>] = 0]
  /\ UNCHANGED <<up, timer, severed, crashes>>

(* The hello reader handles a hello: find or insert the sender, renew its   *)
(* time, and look for this station among its neighbors.  (The network may   *)
(* deliver the same hello again.)                                           *)
hello_recv(m, again) ==
  /\ m.dst \in up
  /\ table' = [table EXCEPT ![m.dst] =
       [n \in DOMAIN @ \cup {m.src} |->
          IF n # m.src THEN @[n]
          ELSE [bidir |-> \/ m.dst \in m.lists
                          \/ n \in DOMAIN @ /\ @[n].bidir,
                elapsed |-> 0]]]
  /\ msgs' = IF again THEN msgs ELSE msgs \ {m}
  /\ losses' = [losses EXCEPT ![<<m.src, m.dst>>] = 0]
  /\ heard' = [heard EXCEPT ![<<m.src, m.dst>>] = 0]
  /\ UNCHANGED <<up, timer, severed, crashes>>

-----------------------------------------------------------------------------
(* The network (external) loses a hello; one to a station that is down is   *)
(* lost anyway.                                                             *)
Lose(m) ==
  /\ \/ /\ m.dst \notin up
        /\ UNCHANGED losses
     \/ /\ m.dst \in up
        /\ losses[<<m.src, m.dst>>] < MaxLosses
        /\ losses' = [losses EXCEPT ![<<m.src, m.dst>>] = @ + 1]
  /\ msgs' = msgs \ {m}
  /\ UNCHANGED <<up, table, timer, severed, crashes, heard>>

(* A link fails in one direction (external). *)
Sever(p) ==
  /\ Cardinality(severed) < MaxSevers
  /\ p \notin severed
  /\ severed' = severed \cup {p}
  /\ UNCHANGED <<up, table, timer, msgs, crashes, losses, heard>>

(* The process ends: a fatal error, a signal, a power failure. *)
Crash(s) ==
  /\ s \in up \cap Faulty /\ crashes[s] < MaxCrashes
  /\ up' = up \ {s}
  /\ crashes' = [crashes EXCEPT ![s] = @ + 1]
  /\ table' = [table EXCEPT ![s] = NoTable]
  /\ UNCHANGED <<timer, msgs, severed, losses, heard>>

(* bprd is started again, with an empty neighbor table; the writer sends    *)
(* its first hello at once.                                                 *)
Restart(s) ==
  /\ s \notin up
  /\ up' = up \cup {s}
  /\ timer' = [timer EXCEPT ![s] = HelloInterval]
  /\ UNCHANGED <<table, msgs, severed, crashes, losses, heard>>

-----------------------------------------------------------------------------
Writers == \E s \in Stations : hello_add_addresses(s)
Readers == \E m \in msgs : hello_recv(m, FALSE)

Next == \/ Tick \/ Writers \/ Readers
        \/ \E m \in msgs : hello_recv(m, TRUE) \/ Lose(m)
        \/ \E p \in Pairs : Sever(p)
        \/ \E s \in Stations : Crash(s) \/ Restart(s)

Spec == Init /\ [][Next]_vars

(* Time passes, the threads of every station run and a hello that is not    *)
(* lost arrives.                                                            *)
Fairness == /\ WF_vars(Tick) /\ WF_vars(Readers)
            /\ \A s \in Stations : WF_vars(hello_add_addresses(s))
FairSpec == Spec /\ Fairness

-----------------------------------------------------------------------------
(* The types of the stations' tables, of the network and of the history. *)
TypeOK ==
  /\ up \subseteq Stations
  /\ DOMAIN table = Stations
  /\ \A s \in Stations : /\ DOMAIN table[s] \subseteq Stations \ {s}
                          /\ \A n \in DOMAIN table[s] : table[s][n] \in Entry
  /\ timer \in [Stations -> 0..(HelloInterval + Slack)]
  /\ msgs \subseteq Hello
  /\ severed \subseteq Pairs
  /\ crashes \in [Stations -> 0..MaxCrashes]
  /\ losses \in [Pairs -> 0..MaxLosses]
  /\ heard \in [Pairs -> 0..Never]

IsBidirectional(s, n) == n \in DOMAIN table[s] /\ table[s][n].bidir

(* "If station a finds itself listed in station b's neighbor list, station  *)
(* a marks station b as a bidirectional neighbor" (bprd-overview.tex:550):  *)
(* at the moment a does so, b has received a hello of a within the timeout  *)
(* and the time b's hello took, in spite of lost, late, repeated and        *)
(* reordered hellos and of restarts of either.                              *)
MarkedWhileHeard ==
  [][\A p \in Pairs : ~IsBidirectional(p[1], p[2]) /\ IsBidirectional(p[1], p[2])'
       => heard[p] <= NeighborTimeout + MaxDelay]_vars

(* A neighbor that keeps sending over a working link is never removed,      *)
(* however many hellos within the bounds are lost or late: cond_n_expired() *)
(* drops an entry older than the timeout, and one that is exactly as old is *)
(* kept.  (bprd-overview.tex:607 would have it removed after "five or more" *)
(* intervals; by that rule this is false.)                                  *)
LiveNeighborKept ==
  [][\A p \in Pairs :
       p[1] \in DOMAIN table[p[2]] /\ p \notin severed /\ crashes[p[1]] = 0
         => p[1] \in DOMAIN table'[p[2]] \/ p[2] \notin up']_vars

(* A neighbor that has stopped sending, or that is out of range, leaves the *)
(* table, and stops being a next hop, at the latest one writer's round      *)
(* after the timeout.                                                       *)
SilentNeighborForgotten ==
  \A p \in Pairs : p[1] \in DOMAIN table[p[2]] =>
    heard[p] <= NeighborTimeout + HelloInterval + Slack

(* Two stations that keep running in range of each other end up taking each *)
(* other for bidirectional neighbors, for good.                             *)
LinksBecomeBidirectional ==
  \A p \in Pairs :
    <>[](/\ {p[1], p[2]} \subseteq up
         /\ {p, <<p[2], p[1]>>} \cap severed = {})
      => <>[]IsBidirectional(p[1], p[2])
=============================================================================
