------------------------------- MODULE Daemon -------------------------------
(***************************************************************************)
(* One running bprd process: its five threads, the data they share and    *)
(* the kernel's queues and routes.                                        *)
(*                                                                         *)
(*   backlogger    counts the packets the kernel queues    (unlocked)     *)
(*   hello reader  parses hellos into the neighbor table   (ntable.mutex) *)
(*   hello writer  expires neighbors, sends hellos         (ntable.mutex) *)
(*   router        backlogs, differentials, next hops      (both ways)    *)
(*   main          releases packets by differential        (unlocked)     *)
(*                                                                         *)
(* Only the neighbor table has a lock; the commodity list bprd.clist      *)
(* (backlog and backdiff of every commodity) is written by the router and *)
(* read by main and the hello writer without one.  A fatal error in any   *)
(* thread (BPRD_LOG_ERR calls exit) ends the whole process: the router    *)
(* raises one when commodity lists disagree, the hello reader when a      *)
(* hello has content it does not know, any thread when a system call      *)
(* fails.                                                                 *)
(*                                                                         *)
(* Abstractions.  The counters of a commodity queue are tail, the packets *)
(* that have arrived, and head, those that have been released; queue[c]   *)
(* is their difference.  The router loads them one by one.  Hellos come   *)
(* from the network in any number and order.  A neighbor's age is         *)
(* abstracted: a refresh may find any set of neighbors expired.  What the *)
(* hello writer sends is left out (no thread of this process reads it),   *)
(* and so is the backdiff of a neighbor's commodity, which the router     *)
(* recomputes before each use.                                            *)
(***************************************************************************)
EXTENDS Backpressure, FiniteSets

CONSTANTS
  Neighbors,     \* addresses of the other stations
  Me,            \* this station's address
  NONE,          \* no route
  NumCommodities,\* the commodities of bprd.clist, in list order: 1..Num...
  Dst,           \* Dst[c]: the address commodity c is destined to
  Advertised,    \* Advertised[n]: the commodities in neighbor n's hellos
  MaxAdvertised, \* bound on advertised backlogs
  MaxArrivals,   \* bound on packets per commodity
  W,             \* lengths and differentials are modulo W (2^32 in the code)
  Optimized,     \* configure --enable-optimization: one load of each counter
  ForeignHellos, \* whether hellos with other content than bprd's arrive
  SystemMayFail  \* whether system calls may fail, which ends the process

Commodities == 1..NumCommodities

ASSUME DaemonAssumption ==
  /\ Me \notin Neighbors
  /\ NONE \notin Neighbors
  /\ NumCommodities \in Nat
  /\ Advertised \in [Neighbors -> SUBSET Nat]
  /\ MaxAdvertised \in Nat
  /\ MaxArrivals \in Nat
  /\ W \in Nat /\ MaxArrivals < W
  /\ Optimized \in BOOLEAN
  /\ ForeignHellos \in BOOLEAN
  /\ SystemMayFail \in BOOLEAN

VARIABLES
  exited,   \* the fatal error the process has ended with, or "no"
  arrivals, \* kernel: packets intercepted so far, by commodity
  queue,    \* packets in each commodity's queue (tail - head)
  route,    \* kernel: the next hop of each commodity's destination
  backlog, backdiff, \* bprd.clist
  ntable,   \* bprd.ntable.nlist: neighbors' [bidir, clist], by address
  mutex,    \* bprd.ntable.mutex: the thread that holds it, or "free"
  rdpc, msg,\* hello reader: control state, hello being parsed
  wpc,      \* hello writer: control state
  rpc, ri, rload, rdiff, \* router: control state, commodity, the counter
            \*   fifo_length() has loaded, differential found
  mpc, mi, mc, mdiff, \* main: control state, commodity, best so far
  listed    \* history: the neighbors that have listed Me in a hello since
            \*   they were put into the table

clist   == <<backlog, backdiff>>
reader  == <<rdpc, msg>>
router  == <<rpc, ri, rload, rdiff>>
main    == <<mpc, mi, mc, mdiff>>
vars    == <<exited, arrivals, queue, route, clist, ntable, mutex, reader, wpc,
             router, main, listed>>

(* Hellos a neighbor may send: the backlog of each commodity it advertises  *)
(* (zero for one destined to itself, for which it has no queue), and        *)
(* whether its neighbor list names this station.                            *)
Hellos ==
  {h \in UNION {[from : {n}, coms : [Advertised[n] -> 0..MaxAdvertised],
                 listsMe : BOOLEAN] : n \in Neighbors} :
     \A c \in DOMAIN h.coms \cap Commodities : Dst[c] = h.from => h.coms[c] = 0}

(* Entries of the neighbor table: some of the commodities n advertises. *)
Entries(n) ==
  [bidir : BOOLEAN,
   clist : UNION {[D -> 0..MaxAdvertised] : D \in SUBSET Advertised[n]}]

NoHello == [from |-> NONE, coms |-> [c \in {} |-> 0], listsMe |-> FALSE]

Init ==
  /\ exited = "no"
  /\ arrivals = [c \in Commodities |-> 0]
  /\ queue = [c \in Commodities |-> 0]
  /\ route = [c \in Commodities |-> NONE]
  /\ backlog = [c \in Commodities |-> 0]
  /\ backdiff = [c \in Commodities |-> 0]
  /\ ntable = [n \in {} |-> [bidir |-> FALSE, clist |-> NoHello.coms]]
  /\ mutex = "free"
  /\ rdpc = "recv" /\ msg = NoHello
  /\ wpc = "tlvs"
  /\ rpc = "length" /\ ri = 1 /\ rload = 0 /\ rdiff = 0
  /\ mpc = "scan" /\ mi = 1 /\ mc = 0 /\ mdiff = 0
  /\ listed = {}

(* ntable_mutex_lock() and ntable_mutex_unlock(). *)
Lock(t)   == mutex = "free" /\ mutex' = t
Unlock(t) == mutex = t /\ mutex' = "free"

-----------------------------------------------------------------------------
(* Mutant: packets destined to this station are diverted too. *)
Arrive_also_own(c) ==
  /\ exited = "no"
  /\ arrivals[c] < MaxArrivals
  /\ arrivals' = [arrivals EXCEPT ![c] = @ + 1]
  /\ queue' = [queue EXCEPT ![c] = @ + 1]
  /\ UNCHANGED <<exited, route, clist, ntable, mutex, reader, wpc, router, main,
                 listed>>

(* A packet of a commodity that is not destined to this station is diverted *)
(* to its queue and counted by the backlogger.                              *)
Arrive(c) ==
  /\ exited = "no"
  /\ Dst[c] # Me
  /\ arrivals[c] < MaxArrivals
  /\ arrivals' = [arrivals EXCEPT ![c] = @ + 1]
  /\ queue' = [queue EXCEPT ![c] = @ + 1]
  /\ UNCHANGED <<exited, route, clist, ntable, mutex, reader, wpc, router, main,
                 listed>>

-----------------------------------------------------------------------------
(* hello reader: recvfrom() returns a hello. *)
Receive(h) ==
  /\ exited = "no" /\ rdpc = "recv"
  /\ msg' = h
  /\ rdpc' = "lock"
  /\ UNCHANGED <<exited, arrivals, queue, route, clist, ntable, mutex, wpc,
                 router, main, listed>>

(* recvfrom() fails: a fatal error. *)
RecvFails ==
  /\ exited = "no" /\ rdpc = "recv"
  /\ SystemMayFail
  /\ exited' = "system"
  /\ UNCHANGED <<arrivals, queue, route, clist, ntable, mutex, reader, wpc, router,
                 main, listed>>

(* Mutant: hello_recv() parses without the lock. *)
ReaderLock_missing ==
  /\ exited = "no" /\ rdpc = "lock"
  /\ rdpc' = "start"
  /\ UNCHANGED <<exited, arrivals, queue, route, clist, ntable, mutex, msg, wpc,
                 router, main, listed>>

(* hello_recv() takes the lock before it parses, *)
ReaderLock ==
  /\ exited = "no" /\ rdpc = "lock"
  /\ Lock("reader")
  /\ rdpc' = "start"
  /\ UNCHANGED <<exited, arrivals, queue, route, clist, ntable, msg, wpc, router,
                 main, listed>>

(* Mutant: bidir of a new neighbor is not initialized. *)
hello_cons_msg_start_uninitialized ==
  /\ exited = "no" /\ rdpc = "start"
  /\ \E b \in BOOLEAN :
       ntable' = [n \in DOMAIN ntable \cup {msg.from} |->
                    IF n \in DOMAIN ntable THEN ntable[n]
                    ELSE [bidir |-> b, clist |-> [c \in {} |-> 0]]]
  /\ rdpc' = "tlvs"
  /\ UNCHANGED <<exited, arrivals, queue, route, clist, mutex, msg, wpc, router,
                 main, listed>>

(* finds or inserts the sender, *)
hello_cons_msg_start ==
  /\ exited = "no" /\ rdpc = "start"
  /\ ntable' = [n \in DOMAIN ntable \cup {msg.from} |->
                  IF n \in DOMAIN ntable THEN ntable[n]
                  ELSE [bidir |-> FALSE, clist |-> [c \in {} |-> 0]]]
  /\ rdpc' = "tlvs"
  /\ UNCHANGED <<exited, arrivals, queue, route, clist, mutex, msg, wpc, router,
                 main, listed>>

(* records the commodities' backlogs (finding or inserting each), *)
hello_cons_msg_tlv ==
  /\ exited = "no" /\ rdpc = "tlvs"
  /\ ntable' = [ntable EXCEPT ![msg.from].clist =
                  [c \in DOMAIN @ \cup DOMAIN msg.coms |->
                     IF c \in DOMAIN msg.coms THEN msg.coms[c] ELSE @[c]]]
  /\ rdpc' = "addrs"
  /\ UNCHANGED <<exited, arrivals, queue, route, clist, mutex, msg, wpc, router,
                 main, listed>>

(* looks for this station among the sender's neighbors, *)
hello_cons_addr_start ==
  /\ exited = "no" /\ rdpc = "addrs"
  /\ ntable' = [ntable EXCEPT ![msg.from].bidir = @ \/ msg.listsMe]
  /\ listed' = IF msg.listsMe THEN listed \cup {msg.from} ELSE listed
  /\ rdpc' = "unlock"
  /\ UNCHANGED <<exited, arrivals, queue, route, clist, mutex, msg, wpc, router,
                 main>>

(* A hello without an originator, with a message TLV that is not a          *)
(* commodity or with a TLV of an address ends the process instead.          *)
UnknownContent ==
  /\ exited = "no" /\ rdpc \in {"start", "tlvs", "addrs"}
  /\ ForeignHellos
  /\ exited' = "hello"
  /\ UNCHANGED <<arrivals, queue, route, clist, ntable, mutex, reader, wpc, router,
                 main, listed>>

(* Mutant: the parser's return path leaves the lock taken. *)
ReaderUnlock_forgotten ==
  /\ exited = "no" /\ rdpc = "unlock"
  /\ rdpc' = "recv"
  /\ msg' = NoHello
  /\ UNCHANGED <<exited, arrivals, queue, route, clist, ntable, mutex, wpc, router,
                 main, listed>>

(* and releases the lock. *)
ReaderUnlock ==
  /\ exited = "no" /\ rdpc = "unlock"
  /\ Unlock("reader")
  /\ rdpc' = "recv"
  /\ msg' = NoHello
  /\ UNCHANGED <<exited, arrivals, queue, route, clist, ntable, wpc, router, main,
                 listed>>

-----------------------------------------------------------------------------
(* hello writer: the backlogs are read without a lock; then the addresses   *)
(* are added, after a refresh, under the lock.                              *)
WriterLock ==
  /\ exited = "no" /\ wpc = "tlvs"
  /\ Lock("writer")
  /\ wpc' = "refresh"
  /\ UNCHANGED <<exited, arrivals, queue, route, clist, ntable, reader, router,
                 main, listed>>

(* ntable_refresh(): any set of neighbors may have expired. *)
ntable_refresh(expired) ==
  /\ exited = "no" /\ wpc = "refresh"
  /\ ntable' = [n \in DOMAIN ntable \ expired |-> ntable[n]]
  /\ listed' = listed \ expired
  /\ wpc' = "unlock"
  /\ UNCHANGED <<exited, arrivals, queue, route, clist, mutex, reader, router,
                 main>>

WriterUnlock ==
  /\ exited = "no" /\ wpc = "unlock"
  /\ Unlock("writer")
  /\ wpc' = "send"
  /\ UNCHANGED <<exited, arrivals, queue, route, clist, ntable, reader, router,
                 main, listed>>

(* The message is sent, without the lock; a sendto() that fails is a fatal  *)
(* error.  The thread sleeps, and starts over.                              *)
hello_send ==
  /\ exited = "no" /\ wpc = "send"
  /\ \/ wpc' = "tlvs" /\ UNCHANGED exited
     \/ SystemMayFail /\ exited' = "system" /\ UNCHANGED wpc
  /\ UNCHANGED <<arrivals, queue, route, clist, ntable, mutex, reader, router,
                 main, listed>>

-----------------------------------------------------------------------------
(* The counters of a commodity queue, as FifoQueue has them. *)
head(c) == arrivals[c] - queue[c]
tail(c) == arrivals[c]

(* router_update().  First this station's backlogs, without a lock.         *)
(* fifo_length() loads head, *)
RouterLength ==
  /\ exited = "no" /\ rpc = "length"
  /\ IF ri \in Commodities
       THEN rload' = head(ri) /\ rpc' = "tail"
       ELSE rpc' = "lock" /\ UNCHANGED rload
  /\ UNCHANGED <<exited, arrivals, queue, route, clist, ntable, mutex, reader, wpc,
                 ri, rdiff, main, listed>>

(* The length of commodity ri's queue is stored, the next one's turn. *)
StoreLength(length) ==
  /\ backlog' = [backlog EXCEPT ![ri] = length]
  /\ ri' = ri + 1
  /\ rload' = 0
  /\ rpc' = "length"

(* compares it with tail (an empty queue has length 0), and subtracts.  An  *)
(* optimized build uses what it has loaded.  The default build loads both   *)
(* again, tail and then head; its second load of tail is this step's, for   *)
(* tail only grows: where the test would succeed it still does.             *)
RouterTail ==
  /\ exited = "no" /\ rpc = "tail"
  /\ IF rload >= tail(ri) THEN StoreLength(0)
     ELSE IF Optimized THEN StoreLength(tail(ri) - rload)
     ELSE rload' = tail(ri) /\ rpc' = "head" /\ UNCHANGED <<backlog, ri>>
  /\ UNCHANGED <<exited, arrivals, queue, route, backdiff, ntable, mutex, reader,
                 wpc, rdiff, main, listed>>

(* The second load of head, which may have passed the tail loaded before.   *)
RouterHead ==
  /\ exited = "no" /\ rpc = "head"
  /\ StoreLength((rload - head(ri)) % W)
  /\ UNCHANGED <<exited, arrivals, queue, route, backdiff, ntable, mutex, reader,
                 wpc, rdiff, main, listed>>

RouterLock ==
  /\ exited = "no" /\ rpc = "lock"
  /\ Lock("router")
  /\ rpc' = "diff"
  /\ UNCHANGED <<exited, arrivals, queue, route, clist, ntable, reader, wpc, ri,
                 rload, rdiff, main, listed>>

(* then, under the lock, the differential to every neighbor: a commodity    *)
(* this station does not know is a fatal error;                             *)
RouterDiff ==
  /\ exited = "no" /\ rpc = "diff"
  /\ IF \A n \in DOMAIN ntable : DOMAIN ntable[n].clist \subseteq Commodities
       THEN rpc' = "select" /\ ri' = 1 /\ UNCHANGED exited
       ELSE exited' = "commodities" /\ UNCHANGED <<rpc, ri>>
  /\ UNCHANGED <<arrivals, queue, route, clist, ntable, mutex, reader, wpc, rload,
                 rdiff, main, listed>>

(* then the next hop of each commodity.  One destined to this station is    *)
(* left alone.                                                              *)
SelectOwn ==
  /\ exited = "no" /\ rpc = "select" /\ ri \in Commodities
  /\ Dst[ri] = Me
  /\ backdiff' = [backdiff EXCEPT ![ri] = 0]
  /\ ri' = ri + 1
  /\ UNCHANGED <<exited, arrivals, queue, route, backlog, ntable, mutex, reader,
                 wpc, rpc, rload, rdiff, main, listed>>

(* The neighbors whose entry lacks commodity c, and the rest as Backpressure *)
(* sees them.                                                               *)
Lacking(c) == {n \in DOMAIN ntable : c \notin DOMAIN ntable[n].clist}
View(c) == [n \in DOMAIN ntable \ Lacking(c) |->
              [addr |-> n, bidir |-> ntable[n].bidir,
               backlog |-> ntable[n].clist[c]]]

(* A neighbor that lacks the commodity is a fatal error, unless the list    *)
(* names the destination, a bidirectional neighbor, before it.              *)
SelectFails ==
  /\ exited = "no" /\ rpc = "select" /\ ri \in Commodities
  /\ Dst[ri] # Me
  /\ Lacking(ri) # {}
  /\ exited' = "commodities"
  /\ UNCHANGED <<arrivals, queue, route, clist, ntable, mutex, reader, wpc, router,
                 main, listed>>

(* No bidirectional neighbor: nothing may be released; the route stays. *)
SelectNone ==
  /\ exited = "no" /\ rpc = "select" /\ ri \in Commodities
  /\ Dst[ri] # Me
  /\ Lacking(ri) = {}
  /\ Bidirectional(View(ri)) = {}
  /\ backdiff' = [backdiff EXCEPT ![ri] = 0]
  /\ ri' = ri + 1
  /\ UNCHANGED <<exited, arrivals, queue, route, backlog, ntable, mutex, reader,
                 wpc, rpc, rload, rdiff, main, listed>>

(* Mutant: the differential is published before the route is set. *)
SelectRoute_publish_first(n) ==
  /\ exited = "no" /\ rpc = "select" /\ ri \in Commodities
  /\ Dst[ri] # Me
  /\ n \in BestHops(View(ri), backlog[ri], Dst[ri])
  /\ Lacking(ri) # {} => n = Dst[ri]
  /\ rdiff' = Diff(backlog[ri], ntable[n].clist[ri])
  /\ IF backdiff[ri] # rdiff'
       THEN backdiff' = [backdiff EXCEPT ![ri] = rdiff'] /\ UNCHANGED <<route, rpc>>
       ELSE route' = [route EXCEPT ![ri] = n] /\ rpc' = "store" /\ UNCHANGED backdiff
  /\ UNCHANGED <<exited, arrivals, queue, backlog, ntable, mutex, reader, wpc, ri,
                 rload, main, listed>>

(* Otherwise the kernel's route is set first ... *)
SelectRoute(n) ==
  /\ exited = "no" /\ rpc = "select" /\ ri \in Commodities
  /\ Dst[ri] # Me
  /\ n \in BestHops(View(ri), backlog[ri], Dst[ri])
  /\ Lacking(ri) # {} => n = Dst[ri]
  /\ route' = [route EXCEPT ![ri] = n]
  /\ rdiff' = Diff(backlog[ri], ntable[n].clist[ri])
  /\ rpc' = "store"
  /\ UNCHANGED <<exited, arrivals, queue, clist, ntable, mutex, reader, wpc, ri,
                 rload, main, listed>>

(* (a kernel that refuses the route is a fatal error, with the lock held)   *)
RouteFails ==
  /\ exited = "no" /\ rpc = "select" /\ ri \in Commodities
  /\ Dst[ri] # Me
  /\ \E n \in BestHops(View(ri), backlog[ri], Dst[ri]) :
       Lacking(ri) # {} => n = Dst[ri]
  /\ SystemMayFail
  /\ exited' = "system"
  /\ UNCHANGED <<arrivals, queue, route, clist, ntable, mutex, reader, wpc, router,
                 main, listed>>

(* ... and the differential is published after it. *)
StoreDiff ==
  /\ exited = "no" /\ rpc = "store"
  /\ backdiff' = [backdiff EXCEPT ![ri] = rdiff]
  /\ ri' = ri + 1
  /\ rdiff' = 0
  /\ rpc' = "select"
  /\ UNCHANGED <<exited, arrivals, queue, route, backlog, ntable, mutex, reader,
                 wpc, rload, main, listed>>

RouterUnlock ==
  /\ exited = "no" /\ rpc = "select" /\ ri \notin Commodities
  /\ Unlock("router")
  /\ rpc' = "print"
  /\ ri' = 1
  /\ UNCHANGED <<exited, arrivals, queue, route, clist, ntable, reader, wpc, rload,
                 rdiff, main, listed>>

(* router_thread_main() takes the lock again, to print, and sleeps. *)
RouterPrint ==
  /\ exited = "no" /\ rpc = "print"
  /\ mutex = "free"
  /\ rpc' = "length"
  /\ UNCHANGED <<exited, arrivals, queue, route, clist, ntable, mutex, reader, wpc,
                 ri, rload, rdiff, main, listed>>

-----------------------------------------------------------------------------
(* main: backlogger_packet_release(1).  The largest differential is looked  *)
(* for one commodity at a time, without a lock;                             *)
Scan ==
  /\ exited = "no" /\ mpc = "scan"
  /\ IF mi \in Commodities
       THEN /\ IF backdiff[mi] > mdiff
                 THEN mc' = mi /\ mdiff' = backdiff[mi]
                 ELSE UNCHANGED <<mc, mdiff>>
            /\ mi' = mi + 1
            /\ UNCHANGED mpc
       ELSE /\ mpc' = "release"
            /\ UNCHANGED <<mi, mc, mdiff>>
  /\ UNCHANGED <<exited, arrivals, queue, route, clist, ntable, mutex, reader, wpc,
                 router, listed>>

(* Mutant: rounded down, so that the last packet is never released. *)
Allowance_rounded_down(count, diff) ==
  IF diff \div 2 > count THEN count ELSE diff \div 2

(* How many packets a call with argument count may release; diff + 1 wraps. *)
Allowance(count, diff) ==
  LET half == ((diff + 1) % W) \div 2
  IN  IF half > count THEN count ELSE half

(* Mutant: fifo_send_packet() does not test for an empty queue. *)
Release_unchecked ==
  /\ exited = "no" /\ mpc = "release"
  /\ queue' = IF mc = 0 THEN queue
              ELSE [queue EXCEPT ![mc] = @ - Allowance(1, mdiff)]
  /\ mpc' = "scan" /\ mi' = 1 /\ mc' = 0 /\ mdiff' = 0
  /\ UNCHANGED <<exited, arrivals, route, clist, ntable, mutex, reader, wpc, router,
                 listed>>

(* then up to that many packets are released, fewer if the queue is empty.  *)
Release ==
  /\ exited = "no" /\ mpc = "release"
  /\ queue' = IF mc = 0 THEN queue
              ELSE [queue EXCEPT ![mc] = Diff(@, Allowance(1, mdiff))]
  /\ mpc' = "scan" /\ mi' = 1 /\ mc' = 0 /\ mdiff' = 0
  /\ UNCHANGED <<exited, arrivals, route, clist, ntable, mutex, reader, wpc, router,
                 listed>>

-----------------------------------------------------------------------------
Parse  == hello_cons_msg_start \/ hello_cons_msg_tlv \/ hello_cons_addr_start
Reader == \/ (\E h \in Hellos : Receive(h)) \/ RecvFails
          \/ ReaderLock \/ Parse \/ UnknownContent \/ ReaderUnlock
Writer == \/ WriterLock \/ WriterUnlock \/ hello_send
          \/ \E expired \in SUBSET DOMAIN ntable : ntable_refresh(expired)
Select == \/ SelectOwn \/ SelectFails \/ SelectNone \/ RouteFails
          \/ \E n \in DOMAIN ntable : SelectRoute(n)
Length == RouterLength \/ RouterTail \/ RouterHead
Router == \/ Length \/ RouterLock \/ RouterDiff \/ Select \/ StoreDiff
          \/ RouterUnlock \/ RouterPrint
Main   == Scan \/ Release

Next == \/ \E c \in Commodities : Arrive(c)
        \/ Reader \/ Writer \/ Router \/ Main

Spec == Init /\ [][Next]_vars

(* The scheduler runs every thread.  A thread that waits for the mutex gets *)
(* it in the end: whoever holds it gives it up and sleeps, or waits for the *)
(* network, before it asks again.                                           *)
Fairness ==
  /\ WF_vars(Router) /\ WF_vars(Main)
  /\ WF_vars(Parse \/ ReaderUnlock) /\ WF_vars(Writer)
  /\ SF_vars(RouterLock) /\ SF_vars(RouterPrint)
  /\ SF_vars(ReaderLock) /\ SF_vars(WriterLock)

FairSpec == Spec /\ Fairness

-----------------------------------------------------------------------------
(* The types of the shared data and of the threads' control states. *)
CommodityTypes ==
  /\ arrivals \in [Commodities -> 0..MaxArrivals]
  /\ queue \in [Commodities -> 0..MaxArrivals]
  /\ route \in [Commodities -> Neighbors \cup {NONE}]
  /\ backlog \in [Commodities -> 0..(W - 1)]
  /\ backdiff \in [Commodities -> 0..(W - 1)]
TableTypes ==
  /\ DOMAIN ntable \subseteq Neighbors
  /\ \A n \in DOMAIN ntable : ntable[n] \in Entries(n)
  /\ msg \in Hellos \cup {NoHello}
  /\ listed \subseteq Neighbors
ThreadTypes ==
  /\ exited \in {"no", "commodities", "hello", "system"}
  /\ mutex \in {"free", "reader", "writer", "router"}
  /\ rdpc \in {"recv", "lock", "start", "tlvs", "addrs", "unlock"}
  /\ wpc \in {"tlvs", "refresh", "unlock", "send"}
  /\ rpc \in {"length", "tail", "head", "lock", "diff", "select", "store", "print"}
  /\ ri \in 1..(NumCommodities + 1)
  /\ rload \in 0..MaxArrivals
  /\ rdiff \in 0..(W - 1)
  /\ mpc \in {"scan", "release"}
  /\ mi \in 1..(NumCommodities + 1)
  /\ mc \in {0} \cup Commodities
  /\ mdiff \in 0..(W - 1)

(* Counters, entries of the neighbor table and control states keep their    *)
(* types: no queue's length goes below zero, although the backlog the       *)
(* router computes from counters that move meanwhile may be any 32-bit      *)
(* number.                                                                  *)
TypeOK == CommodityTypes /\ TableTypes /\ ThreadTypes

(* The router ends the process when commodity lists disagree ("Neighbor     *)
(* knows about commodity that I don't!", "I know about a commodity that my  *)
(* neighbor doesn't!").  It never does so because a hello was half parsed,  *)
(* late, repeated or from a neighbor just expired: only while a neighbor is *)
(* in the table whose hellos do not carry exactly this station's            *)
(* commodities.  (router.c:267, 301; errors of system calls are told apart.)*)
ExitOnlyOnDisagreement ==
  exited = "commodities" =>
    \E n \in DOMAIN ntable : Advertised[n] # Commodities

(* "the bidirectional neighbor ... is set as the next hop": a route is only *)
(* ever set to a neighbor that has listed this station in a hello since it  *)
(* entered the table, although bidir is written by one thread, read by      *)
(* another, and a third may have removed the entry in between: a neighbor   *)
(* that was forgotten and comes back must list this station again.          *)
RoutesLeadToListeners ==
  [][\A c \in Commodities : route'[c] # route[c] => route'[c] \in listed]_vars

(* main reads backdiff without a lock, while the router writes it, and then *)
(* releases packets: when it does, the kernel already has a route for them. *)
ReleaseOnlyWithRoute ==
  mpc = "release" /\ mc # 0 => route[mc] # NONE

(* A commodity destined to this station is never queued, never given a      *)
(* route and never selected for release.                                    *)
OwnTrafficLeftAlone ==
  \A c \in Commodities : Dst[c] = Me =>
    queue[c] = 0 /\ route[c] = NONE /\ backdiff[c] = 0 /\ mc # c

(* Every thread that takes the mutex gives it back, unless the process ends.*)
MutexReleased ==
  \A t \in {"reader", "writer", "router"} : mutex = t ~> (mutex # t \/ exited # "no")

(* Every commodity's destination is in the table, and bidirectional. *)
DestinationsReachable ==
  \A c \in Commodities : Dst[c] # Me =>
    Dst[c] \in DOMAIN ntable /\ ntable[Dst[c]].bidir

(* If from some moment on the destinations are bidirectional neighbors (for *)
(* as long as packets remain), all packets are released, whatever else the  *)
(* threads do and however stale the differentials are.                      *)
BacklogDrains ==
  <>[](DestinationsReachable /\ exited = "no")
    => <>[](\A c \in Commodities : queue[c] = 0)

=============================================================================
