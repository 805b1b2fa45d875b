---------------------------- MODULE DaemonProofs ----------------------------
(***************************************************************************)
(* Proofs about Daemon, for any sets of neighbors and commodities, any    *)
(* hellos and any interleaving of the five threads.                       *)
(*                                                                         *)
(* The inductive invariant has three parts.  The mutex part says which    *)
(* control states hold ntable.mutex; from it follows that the router      *)
(* never sees a neighbor whose hello is half parsed (the table part).     *)
(* The release part says that a positive differential, wherever it is on  *)
(* its way from the router to main, is that of a commodity with a route.  *)
(***************************************************************************)
EXTENDS Daemon, TLAPS

(* Each thread holds the mutex exactly in its critical section. *)
MutexInv ==
  /\ mutex = "reader" <=> rdpc \in {"start", "tlvs", "addrs", "unlock"}
  /\ mutex = "writer" <=> wpc \in {"refresh", "unlock"}
  /\ mutex = "router" <=> rpc \in {"diff", "select", "store"}

(* A neighbor's commodity list is what it advertises, except between the    *)
(* first two callbacks of the hello that creates it; only a neighbor that   *)
(* has listed this station is bidirectional.                                *)
TableInv ==
  /\ rdpc # "recv" => msg \in Hellos
  /\ rdpc \in {"tlvs", "addrs"} => msg.from \in DOMAIN ntable
  /\ \A n \in DOMAIN ntable :
       \/ DOMAIN ntable[n].clist = Advertised[n]
       \/ rdpc = "tlvs" /\ n = msg.from
  /\ \A n \in DOMAIN ntable : ntable[n].bidir => n \in listed

(* Where there is something to release there is a route; between the loads  *)
(* of fifo_length() and while it sets a route the router has a commodity.   *)
ReleaseInv ==
  /\ \A c \in Commodities : backdiff[c] > 0 => route[c] # NONE
  /\ rpc \in {"tail", "head", "store"} => ri \in Commodities
  /\ rpc = "store" => route[ri] # NONE
  /\ mc # 0 => route[mc] # NONE

(* A queue never holds more packets than have arrived. *)
QueueInv == \A c \in Commodities : queue[c] <= arrivals[c]

IndInv ==
  /\ TypeOK /\ QueueInv
  /\ MutexInv /\ TableInv /\ ReleaseInv
  /\ ExitOnlyOnDisagreement

-----------------------------------------------------------------------------
(* A hello names its sender, carries what the sender advertises. *)
LEMMA HelloFields ==
  ASSUME NEW h \in Hellos
  PROVE  /\ h.from \in Neighbors
         /\ h.coms \in [Advertised[h.from] -> 0..MaxAdvertised]
         /\ h.listsMe \in BOOLEAN
  BY DEF Hellos

(* The initial state satisfies the inductive invariant. *)
LEMMA InitInd == Init => IndInv
  <1> SUFFICES ASSUME Init
               PROVE  IndInv
    OBVIOUS
  <1> USE DaemonAssumption DEF Init, Commodities
  <1>1. CommodityTypes
    BY DEF CommodityTypes
  <1>2. TableTypes
    BY DEF TableTypes
  <1>3. ThreadTypes
    <2>1. exited \in {"no", "commodities", "hello", "system"}
      OBVIOUS
    <2>2. ri \in 1..(NumCommodities + 1) /\ mi \in 1..(NumCommodities + 1)
      OBVIOUS
    <2> QED
      BY <2>1, <2>2 DEF ThreadTypes
  <1>4. QueueInv /\ MutexInv /\ TableInv /\ ReleaseInv
    BY DEF QueueInv, MutexInv, TableInv, ReleaseInv
  <1>5. ExitOnlyOnDisagreement
    BY DEF ExitOnlyOnDisagreement
  <1> QED
    BY <1>1, <1>2, <1>3, <1>4, <1>5 DEF IndInv, TypeOK

(* The commodity list, the queues and the routes. *)
commodityData == <<arrivals, queue, route, backlog, backdiff>>

(* What a change of the neighbor table must preserve. *)
TablePart == TableTypes /\ TableInv

(* A packet arrives: only its queue grows. *)
LEMMA ArriveInd ==
  ASSUME IndInv, NEW c \in Commodities, Arrive(c)
  PROVE  IndInv'
  <1> USE DaemonAssumption DEF IndInv, TypeOK
  <1>1. /\ UNCHANGED <<exited, route, clist, ntable, mutex, reader, wpc, router,
                       main, listed>>
        /\ arrivals[c] < MaxArrivals
        /\ arrivals' = [arrivals EXCEPT ![c] = @ + 1]
        /\ queue' = [queue EXCEPT ![c] = @ + 1]
    BY DEF Arrive
  <1>2. CommodityTypes' /\ QueueInv'
    BY <1>1 DEF CommodityTypes, QueueInv, clist
  <1>3. TableTypes'
    BY <1>1 DEF TableTypes, reader
  <1>4. ThreadTypes' /\ MutexInv'
    BY <1>1 DEF ThreadTypes, MutexInv, reader, router, main
  <1>5. TableInv' /\ ReleaseInv'
    BY <1>1 DEF TableInv, ReleaseInv, clist, reader, router, main
  <1>6. ExitOnlyOnDisagreement'
    BY <1>1 DEF ExitOnlyOnDisagreement
  <1> QED
    BY <1>2, <1>3, <1>4, <1>5, <1>6

(* A system call fails, or a hello has unknown content, and the process     *)
(* ends: nothing else changes.                                              *)
LEMMA ErrorInd ==
  ASSUME IndInv, exited' \in {"system", "hello"},
         UNCHANGED <<commodityData, ntable, mutex, reader, wpc, router, main,
                     listed>>
  PROVE  IndInv'
  <1> USE DEF IndInv, TypeOK
  <1>1. CommodityTypes' /\ QueueInv' /\ ReleaseInv'
    BY DEF CommodityTypes, QueueInv, ReleaseInv, commodityData, router, main
  <1>2. TableTypes' /\ TableInv'
    BY DEF TableTypes, TableInv, commodityData, reader
  <1>3. ThreadTypes' /\ MutexInv' /\ ExitOnlyOnDisagreement'
    BY DEF ThreadTypes, MutexInv, ExitOnlyOnDisagreement, reader, router, main
  <1> QED
    BY <1>1, <1>2, <1>3

(* The hello reader, as long as nothing ends it. *)
LEMMA ReaderInd ==
  ASSUME IndInv, Reader, ~RecvFails, ~UnknownContent
  PROVE  IndInv'
  <1> USE DaemonAssumption DEF IndInv, TypeOK, TablePart
  <1>1. exited = "no" /\ UNCHANGED <<exited, commodityData, wpc, router, main>>
    BY DEF Reader, Receive, ReaderLock, Parse, hello_cons_msg_start,
           hello_cons_msg_tlv, hello_cons_addr_start, ReaderUnlock,
           commodityData, clist
  <1>2. CommodityTypes' /\ QueueInv' /\ ReleaseInv' /\ ExitOnlyOnDisagreement'
    BY <1>1 DEF CommodityTypes, QueueInv, ReleaseInv, ExitOnlyOnDisagreement,
                commodityData, router, main
  <1>3. ThreadTypes' /\ MutexInv'
    <2>1. ThreadTypes'
      BY <1>1 DEF Reader, Receive, ReaderLock, Parse, hello_cons_msg_start,
                  hello_cons_msg_tlv, hello_cons_addr_start, ReaderUnlock,
                  Lock, Unlock, ThreadTypes, router, main
    <2>2. MutexInv'
      BY <1>1 DEF Reader, Receive, ReaderLock, Parse, hello_cons_msg_start,
                  hello_cons_msg_tlv, hello_cons_addr_start, ReaderUnlock,
                  Lock, Unlock, MutexInv, router
    <2> QED
      BY <2>1, <2>2
  <1>4. ASSUME NEW h \in Hellos, Receive(h)
        PROVE  TablePart'
    BY <1>1, <1>4 DEF Receive, TableTypes, TableInv,
                      commodityData
  <1>5. ASSUME ReaderLock
        PROVE  TablePart'
    BY <1>1, <1>5 DEF ReaderLock, TableTypes, TableInv,
                      commodityData
  <1>6. ASSUME hello_cons_msg_start
        PROVE  TablePart'
    <2>1. msg \in Hellos /\ msg.from \in Neighbors
      BY <1>6, HelloFields DEF hello_cons_msg_start, TableInv
    <2> DEFINE new == [bidir |-> FALSE, clist |-> [c \in {} |-> 0]]
    <2>2. new \in Entries(msg.from)
      <3>1. [c \in {} |-> 0] \in [{} -> 0..MaxAdvertised]
        OBVIOUS
      <3>2. [c \in {} |-> 0]
              \in UNION {[D -> 0..MaxAdvertised] : D \in SUBSET Advertised[msg.from]}
        BY <3>1
      <3> QED
        BY <3>2 DEF Entries
    <2>3. /\ DOMAIN ntable' = DOMAIN ntable \cup {msg.from}
          /\ \A n \in DOMAIN ntable : ntable'[n] = ntable[n]
          /\ msg.from \notin DOMAIN ntable => ntable'[msg.from] = new
          /\ rdpc' = "tlvs" /\ UNCHANGED <<msg, listed>>
      BY <1>6 DEF hello_cons_msg_start
    <2>4. TableTypes'
      BY <2>1, <2>2, <2>3 DEF TableTypes
    <2>5. TableInv'
      BY <1>6, <2>1, <2>3 DEF TableInv, hello_cons_msg_start
    <2> QED
      BY <1>1, <2>3, <2>4, <2>5 DEF commodityData
  <1>7. ASSUME hello_cons_msg_tlv
        PROVE  TablePart'
    <2>1. /\ msg \in Hellos /\ msg.from \in Neighbors /\ msg.from \in DOMAIN ntable
          /\ msg.coms \in [Advertised[msg.from] -> 0..MaxAdvertised]
      BY <1>7, HelloFields DEF hello_cons_msg_tlv, TableInv
    <2> DEFINE old == ntable[msg.from].clist
               merged == [c \in DOMAIN old \cup DOMAIN msg.coms |->
                            IF c \in DOMAIN msg.coms THEN msg.coms[c] ELSE old[c]]
    <2>2. ntable[msg.from] \in Entries(msg.from)
      BY <2>1 DEF TableTypes
    <2>3. PICK D \in SUBSET Advertised[msg.from] : old \in [D -> 0..MaxAdvertised]
      BY <2>2 DEF Entries
    <2>4. merged \in [Advertised[msg.from] -> 0..MaxAdvertised]
      BY <2>1, <2>3
    <2>5. /\ ntable' = [ntable EXCEPT ![msg.from].clist = merged]
          /\ rdpc' = "addrs" /\ UNCHANGED <<msg, listed>>
      BY <1>7 DEF hello_cons_msg_tlv
    <2> HIDE DEF merged, old
    <2>6. /\ DOMAIN ntable' = DOMAIN ntable
          /\ \A n \in DOMAIN ntable \ {msg.from} : ntable'[n] = ntable[n]
          /\ ntable'[msg.from] = [ntable[msg.from] EXCEPT !.clist = merged]
      BY <2>1, <2>5
    <2>7. /\ ntable'[msg.from].clist = merged
          /\ ntable'[msg.from].bidir = ntable[msg.from].bidir
          /\ ntable'[msg.from] \in Entries(msg.from)
      <3>1. merged \in UNION {[E -> 0..MaxAdvertised] : E \in SUBSET Advertised[msg.from]}
        BY <2>4
      <3> QED
        BY <2>2, <2>6, <3>1 DEF Entries
    <2>8. TableTypes'
      BY <2>1, <2>5, <2>6, <2>7 DEF TableTypes
    <2>9. TableInv'
      BY <1>7, <2>1, <2>4, <2>5, <2>6, <2>7 DEF TableInv, hello_cons_msg_tlv
    <2> QED
      BY <1>1, <2>5, <2>8, <2>9 DEF commodityData
  <1>8. ASSUME hello_cons_addr_start
        PROVE  TablePart'
    <2>1. /\ msg \in Hellos /\ msg.from \in Neighbors /\ msg.from \in DOMAIN ntable
          /\ msg.listsMe \in BOOLEAN
      BY <1>8, HelloFields DEF hello_cons_addr_start, TableInv
    <2>2. ntable[msg.from] \in Entries(msg.from)
      BY <2>1 DEF TableTypes
    <2>3. /\ DOMAIN ntable' = DOMAIN ntable
          /\ \A n \in DOMAIN ntable \ {msg.from} : ntable'[n] = ntable[n]
          /\ ntable'[msg.from]
               = [ntable[msg.from] EXCEPT !.bidir = @ \/ msg.listsMe]
          /\ listed' = IF msg.listsMe THEN listed \cup {msg.from} ELSE listed
          /\ rdpc' = "unlock" /\ msg' = msg
      BY <1>8, <2>1 DEF hello_cons_addr_start
    <2>4. /\ ntable'[msg.from].clist = ntable[msg.from].clist
          /\ ntable'[msg.from].bidir <=> ntable[msg.from].bidir \/ msg.listsMe
          /\ ntable'[msg.from] \in Entries(msg.from)
      BY <2>1, <2>2, <2>3 DEF Entries
    <2>5. TableTypes'
      BY <2>1, <2>3, <2>4 DEF TableTypes
    <2>6. TableInv'
      BY <1>8, <2>1, <2>3, <2>4 DEF TableInv, hello_cons_addr_start
    <2> QED
      BY <1>1, <2>3, <2>5, <2>6 DEF commodityData
  <1>9. ASSUME ReaderUnlock
        PROVE  TablePart'
    BY <1>1, <1>9 DEF ReaderUnlock, TableTypes, TableInv,
                      commodityData
  <1> QED
    BY <1>2, <1>3, <1>4, <1>5, <1>6, <1>7, <1>8, <1>9 DEF Reader, Parse

(* The hello writer, as long as sendto() succeeds: a refresh only removes   *)
(* entries.                                                                 *)
LEMMA WriterInd ==
  ASSUME IndInv, Writer, UNCHANGED exited
  PROVE  IndInv'
  <1> USE DaemonAssumption DEF IndInv, TypeOK
  <1>1. exited = "no"
        /\ UNCHANGED <<exited, commodityData, reader, router, main>>
    BY DEF Writer, WriterLock, ntable_refresh, WriterUnlock, hello_send,
           commodityData, clist
  <1>2. CommodityTypes' /\ QueueInv' /\ ReleaseInv' /\ ExitOnlyOnDisagreement'
    BY <1>1 DEF CommodityTypes, QueueInv, ReleaseInv, ExitOnlyOnDisagreement,
                commodityData, router, main
  <1>3. ThreadTypes'
    <2>1. /\ wpc' \in {"tlvs", "refresh", "unlock", "send"}
          /\ mutex' \in {mutex, "free", "writer"}
      BY DEF Writer, WriterLock, ntable_refresh, WriterUnlock, hello_send, Lock,
             Unlock, ThreadTypes
    <2> QED
      BY <1>1, <2>1 DEF ThreadTypes, reader, router, main
  <1>4. MutexInv'
    BY <1>1 DEF Writer, WriterLock, ntable_refresh, WriterUnlock, hello_send,
                Lock, Unlock,
                MutexInv, reader, router
  <1>5. CASE WriterLock \/ WriterUnlock \/ hello_send
    <2>1. ntable' = ntable /\ listed' = listed
      BY <1>5 DEF WriterLock, WriterUnlock, hello_send
    <2>2. TableTypes' /\ TableInv'
      BY <1>1, <2>1 DEF TableTypes, TableInv,
                        commodityData, reader
    <2> QED
      BY <1>2, <1>3, <1>4, <2>2
  <1>6. ASSUME NEW expired, ntable_refresh(expired)
        PROVE  IndInv'
    <2>1. rdpc \notin {"tlvs", "addrs"}
      BY <1>6 DEF ntable_refresh, MutexInv, ThreadTypes
    <2>2. /\ DOMAIN ntable' \subseteq DOMAIN ntable
          /\ \A n \in DOMAIN ntable' : ntable'[n] = ntable[n] /\ n \notin expired
          /\ listed' = listed \ expired
      BY <1>6 DEF ntable_refresh
    <2>3. TableTypes' /\ TableInv'
      BY <1>1, <2>1, <2>2 DEF TableTypes, TableInv,
                              commodityData, reader
    <2> QED
      BY <1>2, <1>3, <1>4, <2>3
  <1> QED
    BY <1>5, <1>6 DEF Writer

(* main: it reads the differentials and shortens a queue. *)
LEMMA MainInd ==
  ASSUME IndInv, Main
  PROVE  IndInv'
  <1> USE DaemonAssumption DEF IndInv, TypeOK
  <1>1. UNCHANGED <<exited, arrivals, route, clist, ntable, mutex, reader, wpc,
                    router, listed>>
    BY DEF Main, Scan, Release
  <1>2. TableTypes' /\ TableInv' /\ MutexInv'
    BY <1>1 DEF TableTypes, TableInv, MutexInv, reader, router
  <1>3. ExitOnlyOnDisagreement'
    BY <1>1 DEF ExitOnlyOnDisagreement
  <1>4. CASE Scan
    <2>1. queue' = queue
      BY <1>4 DEF Scan
    <2>2. CommodityTypes' /\ QueueInv'
      BY <1>1, <2>1 DEF CommodityTypes, QueueInv, clist
    <2>3. /\ mc' \in {0} \cup Commodities /\ mdiff' \in 0..(W - 1)
          /\ mi' \in 1..(NumCommodities + 1) /\ mpc' \in {"scan", "release"}
          /\ mc' # 0 => route[mc'] # NONE
      <3>1. CASE mi \in Commodities
        <4>1. backdiff[mi] \in 0..(W - 1) /\ mdiff \in 0..(W - 1)
          BY <3>1 DEF CommodityTypes, ThreadTypes
        <4>2. mi' = mi + 1 /\ mpc' = "scan"
          BY <1>4, <3>1 DEF Scan
        <4>3. mi' \in 1..(NumCommodities + 1)
          BY <3>1, <4>2 DEF Commodities
        <4>4. CASE backdiff[mi] > mdiff
          <5>1. mc' = mi /\ mdiff' = backdiff[mi]
            BY <1>4, <3>1, <4>4 DEF Scan
          <5>2. route[mi] # NONE
            BY <3>1, <4>1, <4>4 DEF ReleaseInv
          <5> QED
            BY <3>1, <4>1, <4>2, <4>3, <5>1, <5>2
        <4>5. CASE ~(backdiff[mi] > mdiff)
          <5>1. UNCHANGED <<mc, mdiff>>
            BY <1>4, <3>1, <4>5 DEF Scan
          <5> QED
            BY <4>2, <4>3, <5>1 DEF ThreadTypes, ReleaseInv
        <4> QED
          BY <4>4, <4>5
      <3>2. CASE mi \notin Commodities
        BY <1>4, <3>2 DEF Scan, ThreadTypes, ReleaseInv
      <3> QED
        BY <3>1, <3>2
    <2>4. ThreadTypes' /\ ReleaseInv'
      BY <1>1, <2>3 DEF ThreadTypes, ReleaseInv, clist, reader, router
    <2> QED
      BY <1>2, <1>3, <2>2, <2>4
  <1>5. CASE Release
    <2>1. mpc' = "scan" /\ mi' = 1 /\ mc' = 0 /\ mdiff' = 0
      BY <1>5 DEF Release
    <2>2. Allowance(1, mdiff) \in Nat
      BY DEF Allowance, ThreadTypes
    <2>3. \A c \in Commodities : queue[c] \in Nat /\ arrivals[c] \in Nat
                                /\ queue[c] <= MaxArrivals
      BY DEF CommodityTypes
    <2>4. /\ queue' \in [Commodities -> 0..MaxArrivals]
          /\ \A c \in Commodities : queue'[c] <= queue[c]
      <3>1. CASE mc = 0
        BY <1>5, <2>3, <3>1 DEF Release, CommodityTypes
      <3>2. CASE mc \in Commodities
        <4>1. /\ Diff(queue[mc], Allowance(1, mdiff)) \in 0..MaxArrivals
              /\ Diff(queue[mc], Allowance(1, mdiff)) <= queue[mc]
          BY <2>2, <2>3, <3>2 DEF Diff
        <4>2. queue' = [queue EXCEPT ![mc] = Diff(@, Allowance(1, mdiff))]
          BY <1>5, <3>2 DEF Release, Commodities
        <4> QED
          BY <2>3, <3>2, <4>1, <4>2 DEF CommodityTypes
      <3> QED
        BY <3>1, <3>2 DEF ThreadTypes
    <2>5. CommodityTypes' /\ QueueInv'
      BY <1>1, <2>3, <2>4 DEF CommodityTypes, QueueInv, clist
    <2>6. ThreadTypes' /\ ReleaseInv'
      BY <1>1, <2>1 DEF ThreadTypes, ReleaseInv, clist, reader, router
    <2> QED
      BY <1>2, <1>3, <2>5, <2>6
  <1> QED
    BY <1>4, <1>5 DEF Main

(* What the router finds in the table when it holds the mutex: whole hellos.*)
LEMMA WholeEntries ==
  ASSUME IndInv, mutex = "router"
  PROVE  \A n \in DOMAIN ntable : /\ n \in Neighbors
                                  /\ DOMAIN ntable[n].clist = Advertised[n]
  BY DEF IndInv, TypeOK, TableTypes, MutexInv, TableInv

(* A next hop is a bidirectional neighbor that has the commodity. *)
LEMMA HopFacts ==
  ASSUME IndInv, NEW c \in Commodities,
         NEW n \in BestHops(View(c), backlog[c], Dst[c])
  PROVE  /\ n \in DOMAIN ntable /\ n \in Neighbors /\ n \in listed
         /\ Diff(backlog[c], ntable[n].clist[c]) \in 0..(W - 1)
  <1> USE DaemonAssumption
  <1>1. n \in Bidirectional(View(c))
    BY DEF BestHops
  <1>2. n \in DOMAIN ntable /\ c \in DOMAIN ntable[n].clist /\ ntable[n].bidir
    BY <1>1 DEF Bidirectional, View, Lacking
  <1>3. n \in Neighbors /\ n \in listed /\ ntable[n] \in Entries(n)
    BY <1>2 DEF IndInv, TypeOK, TableTypes, TableInv
  <1>4. ntable[n].clist[c] \in Nat
    BY <1>2, <1>3 DEF Entries
  <1>5. backlog[c] \in 0..(W - 1)
    BY DEF IndInv, TypeOK, CommodityTypes
  <1> QED
    BY <1>2, <1>3, <1>4, <1>5 DEF Diff

(* A load or the subtraction of fifo_length(): whatever head and tail have  *)
(* become meanwhile, what is stored is a length modulo W.                   *)
LEMMA LengthStep ==
  ASSUME IndInv, Length
  PROVE  /\ ri' \in 1..(NumCommodities + 1)
         /\ rpc' \in {"length", "tail", "head", "lock"}
         /\ rpc' \in {"tail", "head"} => ri' \in Commodities
         /\ rload' \in 0..MaxArrivals
         /\ backlog' \in [Commodities -> 0..(W - 1)]
  <1> USE DaemonAssumption DEF IndInv, TypeOK
  <1>1. \A c \in Commodities : head(c) \in 0..MaxArrivals /\ tail(c) \in 0..MaxArrivals
    BY DEF head, tail, CommodityTypes, QueueInv
  <1>2. rload \in 0..MaxArrivals /\ ri \in 1..(NumCommodities + 1)
    BY DEF ThreadTypes
  <1>3. backlog \in [Commodities -> 0..(W - 1)]
    BY DEF CommodityTypes
  <1>4. ASSUME NEW length \in 0..(W - 1), ri \in Commodities, StoreLength(length)
        PROVE  /\ ri' \in 1..(NumCommodities + 1) /\ rpc' = "length"
               /\ rload' \in 0..MaxArrivals
               /\ backlog' \in [Commodities -> 0..(W - 1)]
    BY <1>3, <1>4 DEF StoreLength, Commodities
  <1>5. CASE RouterLength
    <2>1. backlog' = backlog /\ ri' = ri
      BY <1>5 DEF RouterLength, clist
    <2> QED
      BY <1>1, <1>2, <1>3, <1>5, <2>1 DEF RouterLength
  <1>6. CASE RouterTail
    <2>1. ri \in Commodities
      BY <1>6 DEF RouterTail, ReleaseInv
    <2>2. CASE StoreLength(0)
      BY <1>4, <2>1, <2>2
    <2>3. CASE rload < tail(ri) /\ StoreLength(tail(ri) - rload)
      <3>1. tail(ri) - rload \in 0..(W - 1)
        BY <1>1, <1>2, <2>1, <2>3
      <3> QED
        BY <1>4, <2>1, <2>3, <3>1
    <2>4. CASE rload' = tail(ri) /\ rpc' = "head" /\ UNCHANGED <<backlog, ri>>
      BY <1>1, <1>2, <1>3, <2>1, <2>4
    <2>5. rload >= tail(ri) \/ rload < tail(ri)
      BY <1>1, <1>2, <2>1
    <2> QED
      BY <1>6, <2>2, <2>3, <2>4, <2>5 DEF RouterTail
  <1>7. CASE RouterHead
    <2>1. ri \in Commodities /\ StoreLength((rload - head(ri)) % W)
      BY <1>7 DEF RouterHead, ReleaseInv
    <2>2. (rload - head(ri)) % W \in 0..(W - 1)
      BY <1>1, <1>2, <2>1
    <2> QED
      BY <1>4, <2>1, <2>2
  <1> QED
    BY <1>5, <1>6, <1>7 DEF Length

(* The router, as long as the kernel accepts its routes. *)
LEMMA RouterInd ==
  ASSUME IndInv, Router, ~RouteFails
  PROVE  IndInv'
  <1> USE DaemonAssumption DEF IndInv, TypeOK
  <1>1. UNCHANGED <<arrivals, queue, ntable, reader, wpc, main, listed>>
    BY DEF Router, Length, RouterLength, RouterTail, RouterHead, RouterLock, RouterDiff, Select, SelectOwn,
           SelectFails, SelectNone, SelectRoute, StoreDiff, RouterUnlock,
           RouterPrint, clist, router
  <1>2. TableTypes' /\ TableInv'
    BY <1>1 DEF TableTypes, TableInv, reader
  <1>3. CASE Length
    <2>1. UNCHANGED <<exited, route, backdiff, mutex, rdiff>>
      BY <1>3 DEF Length, RouterLength, RouterTail, RouterHead, clist
    <2>2. /\ ri' \in 1..(NumCommodities + 1)
          /\ rpc' \in {"length", "tail", "head", "lock"}
          /\ rpc' \in {"tail", "head"} => ri' \in Commodities
          /\ rload' \in 0..MaxArrivals
          /\ backlog' \in [Commodities -> 0..(W - 1)]
      BY <1>3, LengthStep
    <2>3. CommodityTypes' /\ QueueInv'
      BY <1>1, <2>1, <2>2 DEF CommodityTypes, QueueInv
    <2>4. ThreadTypes'
      BY <1>1, <2>1, <2>2 DEF ThreadTypes, reader, main
    <2>5. MutexInv' /\ ReleaseInv'
      BY <1>1, <1>3, <2>1, <2>2
      DEF Length, RouterLength, RouterTail, RouterHead, MutexInv, ReleaseInv,
          reader, main
    <2>6. ExitOnlyOnDisagreement'
      BY <1>1, <2>1 DEF ExitOnlyOnDisagreement
    <2> QED
      BY <1>2, <2>3, <2>4, <2>5, <2>6
  <1>4. CASE RouterLock \/ RouterUnlock \/ RouterPrint
    <2>1. /\ UNCHANGED <<exited, route, clist, rdiff>>
          /\ ri' \in {ri, 1}
          /\ rpc' \in {"diff", "print", "length"} /\ rload' = rload
          /\ mutex' \in {"free", "router"}
      BY <1>4 DEF RouterLock, RouterUnlock, RouterPrint, Lock, Unlock
    <2>2. CommodityTypes' /\ QueueInv'
      BY <1>1, <2>1 DEF CommodityTypes, QueueInv, clist
    <2>3. ThreadTypes'
      BY <1>1, <2>1 DEF ThreadTypes, reader, main
    <2>4. MutexInv'
      BY <1>1, <1>4 DEF RouterLock, RouterUnlock, RouterPrint, Lock, Unlock,
                        MutexInv, reader
    <2>5. ReleaseInv' /\ ExitOnlyOnDisagreement'
      BY <1>1, <2>1 DEF ReleaseInv, ExitOnlyOnDisagreement, clist, main
    <2> QED
      BY <1>2, <2>2, <2>3, <2>4, <2>5
  <1>5. CASE RouterDiff \/ SelectFails
    <2>1. UNCHANGED <<route, clist, mutex, rload, rdiff>> /\ mutex = "router"
      BY <1>5 DEF RouterDiff, SelectFails, MutexInv, router
    <2>2. CommodityTypes' /\ QueueInv'
      BY <1>1, <2>1 DEF CommodityTypes, QueueInv, clist
    <2>3. /\ ri' \in {ri, 1} /\ rpc' \in {rpc, "select"}
          /\ exited' \in {"no", "commodities", "hello", "system"}
          /\ rpc \in {"diff", "select"}
      BY <1>5 DEF RouterDiff, SelectFails, router, ThreadTypes
    <2>4. ThreadTypes' /\ MutexInv' /\ ReleaseInv'
      BY <1>1, <2>1, <2>3 DEF ThreadTypes, MutexInv, ReleaseInv, clist, reader,
                              main
    <2>5. ExitOnlyOnDisagreement'
      <3>1. CASE RouterDiff /\ exited' # "no"
        <4>1. PICK n \in DOMAIN ntable : ~(DOMAIN ntable[n].clist \subseteq Commodities)
          BY <3>1 DEF RouterDiff
        <4> QED
          BY <1>1, <2>1, <4>1, WholeEntries DEF ExitOnlyOnDisagreement
      <3>2. CASE SelectFails
        <4>1. ri \in Commodities
          BY <3>2 DEF SelectFails
        <4>2. PICK n \in DOMAIN ntable : ri \notin DOMAIN ntable[n].clist
          BY <3>2 DEF SelectFails, Lacking
        <4> QED
          BY <1>1, <2>1, <4>1, <4>2, WholeEntries DEF ExitOnlyOnDisagreement
      <3>3. CASE exited' = "no"
        BY <3>3 DEF ExitOnlyOnDisagreement
      <3> QED
        BY <1>5, <3>1, <3>2, <3>3
    <2> QED
      BY <1>2, <2>2, <2>4, <2>5
  <1>6. CASE SelectOwn \/ SelectNone \/ StoreDiff
    <2>1. /\ UNCHANGED <<exited, route, backlog, mutex, rload>>
          /\ ri \in Commodities /\ ri' = ri + 1
          /\ rpc \in {"select", "store"} /\ rpc' = "select"
          /\ rdiff' \in {rdiff, 0}
      BY <1>6 DEF SelectOwn, SelectNone, StoreDiff, ReleaseInv
    <2>2. \/ backdiff' = [backdiff EXCEPT ![ri] = 0]
          \/ backdiff' = [backdiff EXCEPT ![ri] = rdiff] /\ route[ri] # NONE
      BY <1>6 DEF SelectOwn, SelectNone, StoreDiff, ReleaseInv
    <2>3. CommodityTypes' /\ QueueInv'
      BY <1>1, <2>1, <2>2
      DEF CommodityTypes, QueueInv, ThreadTypes
    <2>4. ThreadTypes' /\ MutexInv'
      <3>1. ri' \in 1..(NumCommodities + 1)
        BY <2>1 DEF Commodities
      <3> QED
        BY <1>1, <2>1, <3>1 DEF ThreadTypes, MutexInv, reader, main
    <2>5. ReleaseInv'
      <3>1. \A c \in Commodities : backdiff'[c] > 0 => route[c] # NONE
        BY <2>1, <2>2 DEF CommodityTypes, ReleaseInv
      <3> QED
        BY <1>1, <2>1, <3>1 DEF ReleaseInv, main
    <2>6. ExitOnlyOnDisagreement'
      BY <1>1, <2>1 DEF ExitOnlyOnDisagreement
    <2> QED
      BY <1>2, <2>3, <2>4, <2>5, <2>6
  <1>7. ASSUME NEW n, SelectRoute(n)
        PROVE  IndInv'
    <2>1. /\ UNCHANGED <<exited, clist, mutex, ri, rload>>
          /\ ri \in Commodities /\ rpc = "select" /\ rpc' = "store"
          /\ route' = [route EXCEPT ![ri] = n]
          /\ rdiff' = Diff(backlog[ri], ntable[n].clist[ri])
          /\ n \in BestHops(View(ri), backlog[ri], Dst[ri])
      BY <1>7 DEF SelectRoute
    <2>2. n \in Neighbors /\ n \in listed /\ rdiff' \in 0..(W - 1) /\ n # NONE
      BY <2>1, HopFacts
    <2>3. CommodityTypes' /\ QueueInv'
      BY <1>1, <2>1, <2>2 DEF CommodityTypes, QueueInv, clist
    <2>4. ThreadTypes' /\ MutexInv'
      BY <1>1, <2>1, <2>2 DEF ThreadTypes, MutexInv, reader, main
    <2>5. \A c \in Commodities : route'[c] = IF c = ri THEN n ELSE route[c]
      BY <2>1 DEF CommodityTypes
    <2>6. ReleaseInv'
      <3>1. mc # 0 => route'[mc] # NONE
        BY <2>2, <2>5 DEF ReleaseInv, ThreadTypes
      <3>2. \A c \in Commodities : backdiff[c] > 0 => route'[c] # NONE
        BY <2>2, <2>5 DEF ReleaseInv
      <3> QED
        BY <1>1, <2>1, <2>2, <2>5, <3>1, <3>2 DEF ReleaseInv, clist, main
    <2>7. ExitOnlyOnDisagreement'
      BY <1>1, <2>1, <2>2, <2>5 DEF ExitOnlyOnDisagreement
    <2> QED
      BY <1>2, <2>3, <2>4, <2>6, <2>7
  <1> QED
    BY <1>3, <1>4, <1>5, <1>6, <1>7 DEF Router, Select

-----------------------------------------------------------------------------
(* Every step of every thread preserves the inductive invariant. *)
LEMMA NextInd ==
  ASSUME IndInv, [Next]_vars
  PROVE  IndInv'
  <1>1. CASE \E c \in Commodities : Arrive(c)
    BY <1>1, ArriveInd
  <1>2. CASE Reader /\ ~RecvFails /\ ~UnknownContent
    BY <1>2, ReaderInd
  <1>3. CASE Writer /\ UNCHANGED exited
    BY <1>3, WriterInd
  <1>4. CASE Router /\ ~RouteFails
    BY <1>4, RouterInd
  <1>5. CASE Main
    BY <1>5, MainInd
  <1>6. CASE UNCHANGED vars
    BY <1>6 DEF vars, clist, reader, router, main, IndInv, TypeOK, CommodityTypes,
                TableTypes, ThreadTypes, QueueInv, MutexInv, TableInv, ReleaseInv,
                ExitOnlyOnDisagreement
  <1>7. CASE RecvFails \/ UnknownContent \/ RouteFails \/ (Writer /\ exited' # exited)
    <2>1. CASE RecvFails \/ UnknownContent \/ RouteFails
      BY <2>1, ErrorInd DEF RecvFails, UnknownContent, RouteFails, commodityData,
                            clist
    <2>2. CASE Writer /\ exited' # exited
      <3>1. hello_send /\ exited' = "system" /\ UNCHANGED wpc
        BY <2>2 DEF Writer, WriterLock, ntable_refresh, WriterUnlock, hello_send
      <3> QED
        BY <3>1, ErrorInd DEF hello_send, commodityData, clist
    <2> QED
      BY <1>7, <2>1, <2>2
  <1> QED
    BY <1>1, <1>2, <1>3, <1>4, <1>5, <1>6, <1>7 DEF Next

(* The inductive invariant holds throughout every run of the daemon. *)
THEOREM IndInvHolds == Spec => []IndInv
  <1>1. Init => IndInv
    BY InitInd
  <1>2. IndInv /\ [Next]_vars => IndInv'
    BY NextInd
  <1> QED
    BY <1>1, <1>2, PTL DEF Spec

(* Counters, entries and control states keep their types: no queue length  *)
(* goes below zero (fifo_send_packet's test for an empty queue).           *)
THEOREM TypeCorrect == Spec => []TypeOK
  <1>1. IndInv => TypeOK
    BY DEF IndInv
  <1> QED
    BY <1>1, IndInvHolds, PTL

(* The router's fatal errors need a neighbor in the table whose hellos do  *)
(* not carry exactly this station's commodities (router.c:267 and 301).    *)
THEOREM ExitNeedsDisagreement == Spec => []ExitOnlyOnDisagreement
  <1>1. IndInv => ExitOnlyOnDisagreement
    BY DEF IndInv
  <1> QED
    BY <1>1, IndInvHolds, PTL

(* A route is only ever set to a neighbor that has listed this station in a *)
(* hello since it entered the table (router.c:305 tests bidir, which        *)
(* hello_reader.c:125 sets and a new entry does not have).                  *)
THEOREM RoutesLead == Spec => RoutesLeadToListeners
  <1> DEFINE OnlyToListeners ==
        \A c \in Commodities : route'[c] # route[c] => route'[c] \in listed
  <1>1. ASSUME IndInv, NEW n, SelectRoute(n)
        PROVE  OnlyToListeners
    <2>1. /\ ri \in Commodities /\ route' = [route EXCEPT ![ri] = n]
          /\ n \in BestHops(View(ri), backlog[ri], Dst[ri])
      BY <1>1 DEF SelectRoute
    <2>2. n \in listed
      BY <1>1, <2>1, HopFacts
    <2>3. DOMAIN route = Commodities
      BY <1>1 DEF IndInv, TypeOK, CommodityTypes
    <2> QED
      BY <2>1, <2>2, <2>3
  <1>2. ASSUME Next, ~\E n \in DOMAIN ntable : SelectRoute(n)
        PROVE  route' = route
    <2>1. CASE \E c \in Commodities : Arrive(c)
      BY <2>1 DEF Arrive
    <2>2. CASE Reader
      BY <2>2 DEF Reader, Receive, RecvFails, ReaderLock, Parse, hello_cons_msg_start,
                  hello_cons_msg_tlv, hello_cons_addr_start, UnknownContent,
                  ReaderUnlock
    <2>3. CASE Writer
      BY <2>3 DEF Writer, WriterLock, ntable_refresh, WriterUnlock, hello_send
    <2>4. CASE Router
      BY <1>2, <2>4 DEF Router, Length, RouterLength, RouterTail, RouterHead,
                        RouterLock, RouterDiff, Select, SelectOwn, SelectFails,
                        SelectNone, RouteFails, StoreDiff, RouterUnlock, RouterPrint
    <2>5. CASE Main
      BY <2>5 DEF Main, Scan, Release
    <2> QED
      BY <1>2, <2>1, <2>2, <2>3, <2>4, <2>5 DEF Next
  <1>3. IndInv /\ [Next]_vars => [OnlyToListeners]_vars
    BY <1>1, <1>2
  <1> QED
    BY IndInvHolds, <1>3, PTL DEF Spec, RoutesLeadToListeners

(* main releases packets of a commodity only when the kernel has a route   *)
(* for it, although it reads backdiff without a lock (backlogger.c:51-58). *)
THEOREM ReleaseHasRoute == Spec => []ReleaseOnlyWithRoute
  <1>1. IndInv => ReleaseOnlyWithRoute
    BY DEF IndInv, ReleaseInv, ReleaseOnlyWithRoute
  <1> QED
    BY <1>1, IndInvHolds, PTL

-----------------------------------------------------------------------------
(* The differential the router is about to publish is never that of a       *)
(* commodity destined to this station.                                      *)
OwnInv ==
  /\ OwnTrafficLeftAlone
  /\ rpc = "store" => Dst[ri] # Me

(* The parts of the state OwnInv is about. *)
ownData == <<queue, route, backdiff, mc, rpc, ri>>

(* The steps of the router leave such a commodity without a route and with  *)
(* a differential of zero.                                                  *)
LEMMA RouterOwn ==
  ASSUME IndInv, OwnInv, Router
  PROVE  OwnInv'
  <1>1. UNCHANGED <<queue, mc>>
    BY DEF Router, Select, Length, RouterLength, RouterTail, RouterHead, RouterLock, RouterDiff, SelectOwn,
           SelectFails, SelectNone, RouteFails, SelectRoute, StoreDiff,
           RouterUnlock, RouterPrint, main
  <1>2. route \in [Commodities -> Neighbors \cup {NONE}] /\ DOMAIN backdiff = Commodities
    BY DEF IndInv, TypeOK, CommodityTypes
  <1>3. CASE Length \/ RouterLock \/ RouterDiff \/ RouterUnlock \/ RouterPrint
    BY <1>1, <1>3 DEF Length, RouterLength, RouterTail, RouterHead, StoreLength, RouterLock, RouterDiff, RouterUnlock, RouterPrint,
                      OwnInv, OwnTrafficLeftAlone, clist
  <1>4. CASE SelectOwn \/ SelectNone
    BY <1>1, <1>2, <1>4 DEF SelectOwn, SelectNone, OwnInv, OwnTrafficLeftAlone
  <1>5. CASE SelectFails \/ RouteFails
    BY <1>1, <1>5 DEF SelectFails, RouteFails, OwnInv, OwnTrafficLeftAlone, clist,
                      router
  <1>6. ASSUME NEW n, SelectRoute(n)
        PROVE  OwnInv'
    BY <1>1, <1>2, <1>6 DEF SelectRoute, OwnInv, OwnTrafficLeftAlone, clist
  <1>7. CASE StoreDiff
    BY <1>1, <1>2, <1>7 DEF StoreDiff, OwnInv, OwnTrafficLeftAlone
  <1> QED
    BY <1>3, <1>4, <1>5, <1>6, <1>7 DEF Router, Select

(* main selects only commodities whose differential is positive. *)
LEMMA MainOwn ==
  ASSUME IndInv, OwnInv, Main
  PROVE  OwnInv'
  <1>1. /\ mdiff \in Nat /\ DOMAIN queue = Commodities /\ 0 \notin Commodities
        /\ \A c \in Commodities : backdiff[c] \in Nat
    BY DaemonAssumption DEF IndInv, TypeOK, CommodityTypes, ThreadTypes, Commodities
  <1>2. CASE Scan
    <2>1. UNCHANGED <<queue, route, backdiff, rpc, ri>>
      BY <1>2 DEF Scan, clist, router
    <2>2. mc' = mc \/ (mc' = mi /\ mi \in Commodities /\ backdiff[mi] > mdiff)
      BY <1>2 DEF Scan
    <2>3. \A c \in Commodities : Dst[c] = Me => mc' # c
      BY <1>1, <2>2 DEF OwnInv, OwnTrafficLeftAlone
    <2> QED
      BY <2>1, <2>3 DEF OwnInv, OwnTrafficLeftAlone
  <1>3. CASE Release
    <2>1. UNCHANGED <<route, backdiff, rpc, ri>> /\ mc' = 0
      BY <1>3 DEF Release, clist, router
    <2>2. \A c \in Commodities : Dst[c] = Me => queue'[c] = queue[c]
      BY <1>1, <1>3 DEF Release, OwnInv, OwnTrafficLeftAlone
    <2> QED
      BY <1>1, <2>1, <2>2 DEF OwnInv, OwnTrafficLeftAlone
  <1> QED
    BY <1>2, <1>3 DEF Main

(* No thread makes anything of a commodity destined to this station. *)
LEMMA NextOwn ==
  ASSUME IndInv, OwnInv, [Next]_vars
  PROVE  OwnInv'
  <1>1. ASSUME NEW c \in Commodities, Arrive(c)
        PROVE  OwnInv'
    <2>1. UNCHANGED <<route, backdiff, mc, rpc, ri>>
      BY <1>1 DEF Arrive, clist, main, router
    <2>2. \A d \in Commodities : Dst[d] = Me => queue'[d] = queue[d]
      BY <1>1 DEF Arrive, IndInv, TypeOK, CommodityTypes
    <2> QED
      BY <2>1, <2>2 DEF OwnInv, OwnTrafficLeftAlone
  <1>2. CASE Reader \/ Writer \/ UNCHANGED vars
    <2>1. UNCHANGED ownData
      BY <1>2 DEF Reader, Writer, Parse, Receive, RecvFails, UnknownContent, ReaderLock,
                  hello_cons_msg_start, hello_cons_msg_tlv, hello_cons_addr_start,
                  ReaderUnlock, WriterLock, WriterUnlock, hello_send,
                  ntable_refresh, vars, clist, main, router, ownData
    <2> QED
      BY <2>1 DEF ownData, OwnInv, OwnTrafficLeftAlone
  <1> QED
    BY <1>1, <1>2, RouterOwn, MainOwn DEF Next

(* Traffic that has reached its destination is never queued, never given a  *)
(* route and never selected for release (backlogger.c:140, router.c:285).   *)
THEOREM OwnTraffic == Spec => []OwnTrafficLeftAlone
  <1>1. Init => OwnInv
    BY DaemonAssumption DEF Init, OwnInv, OwnTrafficLeftAlone, Commodities
  <1>2. IndInv /\ OwnInv /\ [Next]_vars => OwnInv'
    BY NextOwn
  <1>3. OwnInv => OwnTrafficLeftAlone
    BY DEF OwnInv
  <1> QED
    BY IndInvHolds, <1>1, <1>2, <1>3, PTL DEF Spec
=============================================================================
