----------------------------- MODULE FifoQueue -----------------------------
(***************************************************************************)
(* One commodity queue of bprd: the two counters of fifo_queue.c, the     *)
(* three threads that use them and the kernel queue they stand for.       *)
(*                                                                         *)
(*   kernel      holds intercepted packets and numbers them (external)    *)
(*   backlogger  recv() loop; its callback fifo_add_packet() moves tail   *)
(*   main        fifo_send_packet() (and drop, delete): moves head and    *)
(*               issues the verdict for the packet whose id is head       *)
(*   router      fifo_length(): reads both counters                       *)
(*                                                                         *)
(* No lock protects head and tail, so every load and store that another   *)
(* thread can see is a step of its own.  A packet is named by its place   *)
(* in the order of arrival; its NFQUEUE id is that number modulo W.       *)
(***************************************************************************)
EXTENDS Integers, FiniteSets

CONSTANTS W,               \* counters are taken modulo W (2^32 in the code)
          MaxPackets,      \* bound on the packets that ever arrive
          Capacity,        \* bound on the packets the kernel holds at once
          Calls,           \* the operations main may call
          VerdictOutcomes, \* {TRUE}, or BOOLEAN if nfq_set_verdict may fail
          RecvMayFail,     \* whether recv() may fail, ending the backlogger
          Optimized        \* configure --enable-optimization: one load each

ASSUME FifoAssumption ==
  /\ W \in Nat \ {0}
  /\ MaxPackets \in Nat
  /\ Capacity \in Nat
  /\ Calls \subseteq {"send", "drop", "delete"}
  /\ VerdictOutcomes \subseteq BOOLEAN
  /\ RecvMayFail \in BOOLEAN
  /\ Optimized \in BOOLEAN

VARIABLES
  arrived,   \* kernel: number of packets intercepted so far
  held,      \* kernel: the packets it still holds
  fate,      \* kernel: fate[p] of every packet main has decided about
  delivered, \* number of notifications the backlogger has received
  bpc,       \* backlogger: "recv", or "ended" once its loop is left
  head, tail,\* fifo_t
  mpc,       \* main: "idle", "check", "inc" or "verdict"
  call,      \* main: the operation in progress
  lpc,       \* router: "idle", "tail", "retail", "rehead" in fifo_length()
  lhead,     \* router: the head it loaded
  ltail,     \* router: the tail it loaded
  length     \* router: the last value fifo_length() returned

kernel == <<arrived, held, fate>>
main   == <<mpc, call>>
reader == <<lpc, lhead, ltail, length>>
vars   == <<kernel, delivered, bpc, head, tail, main, reader>>

Packets == 1..MaxPackets
Fates   == {"accept", "drop", "stuck"}

Init ==
  /\ arrived = 0
  /\ held = {}
  /\ fate = [p \in {} |-> "stuck"]
  /\ delivered = 0
  /\ bpc = "recv"
  /\ head = 0
  /\ tail = 0
  /\ mpc = "idle"
  /\ call = "send"
  /\ lpc = "idle"
  /\ lhead = 0
  /\ ltail = 0
  /\ length = 0

-----------------------------------------------------------------------------
(* The kernel (external): iptables diverts a packet of the commodity to    *)
(* the queue; it is held and a notification is sent to the daemon.  A full *)
(* queue takes no packet.                                                   *)
Arrive ==
  /\ arrived < MaxPackets
  /\ Cardinality(held) < Capacity
  /\ arrived' = arrived + 1
  /\ held' = held \cup {arrived + 1}
  /\ UNCHANGED <<fate, delivered, bpc, head, tail, main, reader>>

(* The kernel (external): what nfq_set_verdict(qh, id, v) does.  It acts    *)
(* on the oldest held packet with that id, and on none if there is none.    *)
Matching(id) == {p \in held : p % W = id}
Oldest(S) == CHOOSE p \in S : \A q \in S : p <= q
SetVerdict(id, v) ==
  IF Matching(id) = {}
    THEN UNCHANGED kernel
    ELSE LET p == Oldest(Matching(id)) IN
         \E ok \in VerdictOutcomes :
           /\ held' = IF ok THEN held \ {p} ELSE held
           /\ fate' = [q \in DOMAIN fate \cup {p} |->
                          IF q \in DOMAIN fate THEN fate[q]
                          ELSE IF ok THEN v ELSE "stuck"]
           /\ UNCHANGED arrived

-----------------------------------------------------------------------------
(* Mutant: the callback counts a notification twice. *)
fifo_add_packet_twice ==
  /\ bpc = "recv"
  /\ delivered < arrived
  /\ delivered' = delivered + 1
  /\ tail' = (tail + 2) % W
  /\ UNCHANGED <<kernel, bpc, head, main, reader>>

(* Mutant: a recv() that returns without a packet is counted as one. *)
fifo_add_packet_spurious ==
  /\ bpc = "recv"
  /\ delivered' = delivered + 1
  /\ tail' = (tail + 1) % W
  /\ UNCHANGED <<kernel, bpc, head, main, reader>>

(* The backlogger receives one notification and runs the callback. *)
fifo_add_packet ==
  /\ bpc = "recv"
  /\ delivered < arrived
  /\ delivered' = delivered + 1
  /\ tail' = (tail + 1) % W
  /\ UNCHANGED <<kernel, bpc, head, main, reader>>

(* recv() returns an error or zero: the loop ends, and with it the thread. *)
RecvFails ==
  /\ RecvMayFail
  /\ bpc = "recv"
  /\ bpc' = "ended"
  /\ UNCHANGED <<kernel, delivered, head, tail, main, reader>>

-----------------------------------------------------------------------------
(* main: fifo_send_packet, fifo_drop_packet and fifo_delete share their     *)
(* steps; they differ in the verdict, and delete starts over.               *)
Begin(c) ==
  /\ mpc = "idle"
  /\ mpc' = "check"
  /\ call' = c
  /\ UNCHANGED <<kernel, delivered, bpc, head, tail, reader>>

(* Mutants: the test is off by one, or is left out. *)
Check_leaves_last ==
  /\ mpc = "check"
  /\ mpc' = IF head + 1 < tail THEN "inc" ELSE "idle"
  /\ UNCHANGED <<kernel, delivered, bpc, head, tail, call, reader>>

Check_always ==
  /\ mpc = "check"
  /\ mpc' = "inc"
  /\ UNCHANGED <<kernel, delivered, bpc, head, tail, call, reader>>

Check ==
  /\ mpc = "check"
  /\ mpc' = IF head < tail THEN "inc" ELSE "idle"
  /\ UNCHANGED <<kernel, delivered, bpc, head, tail, call, reader>>

(* Mutant: the verdict is issued before head moves, for the previous id. *)
AdvanceHead_late ==
  /\ mpc = "inc"
  /\ SetVerdict(head, IF call = "send" THEN "accept" ELSE "drop")
  /\ head' = (head + 1) % W
  /\ mpc' = IF call = "delete" THEN "check" ELSE "idle"
  /\ UNCHANGED <<delivered, bpc, tail, call, reader>>

AdvanceHead ==
  /\ mpc = "inc"
  /\ head' = (head + 1) % W
  /\ mpc' = "verdict"
  /\ UNCHANGED <<kernel, delivered, bpc, tail, call, reader>>

Verdict ==
  /\ mpc = "verdict"
  /\ SetVerdict(head, IF call = "send" THEN "accept" ELSE "drop")
  /\ mpc' = IF call = "delete" THEN "check" ELSE "idle"
  /\ UNCHANGED <<delivered, bpc, head, tail, call, reader>>

-----------------------------------------------------------------------------
(* router: fifo_length().  The default build (configure.ac: -ggdb3, no -O)  *)
(* loads head and tail for the test and loads both again for the            *)
(* subtraction; an optimized build loads each once.                         *)
(* Mutant: tail is loaded before head. *)
LoadHead_after_tail ==
  /\ lpc = "idle"
  /\ ltail' = tail
  /\ lpc' = "tail"
  /\ UNCHANGED <<kernel, delivered, bpc, head, tail, main, lhead, length>>

LoadTail_before_head ==
  /\ lpc = "tail"
  /\ lhead' = head
  /\ length' = IF head >= ltail THEN 0 ELSE ltail - head
  /\ lpc' = "idle"
  /\ UNCHANGED <<kernel, delivered, bpc, head, tail, main, ltail>>

LoadHead ==
  /\ lpc = "idle"
  /\ lhead' = head
  /\ lpc' = "tail"
  /\ UNCHANGED <<kernel, delivered, bpc, head, tail, main, ltail, length>>

(* Mutant: an empty queue takes the branch that subtracts. *)
LoadTail_allows_empty ==
  /\ lpc = "tail"
  /\ ltail' = tail
  /\ IF lhead > tail
       THEN length' = 0 /\ lpc' = "idle"
       ELSE UNCHANGED length /\ lpc' = "retail"
  /\ UNCHANGED <<kernel, delivered, bpc, head, tail, main, lhead>>

LoadTail ==
  /\ lpc = "tail"
  /\ ltail' = tail
  /\ IF lhead >= tail
       THEN length' = 0 /\ lpc' = "idle"
       ELSE IF Optimized
              THEN length' = tail - lhead /\ lpc' = "idle"
              ELSE UNCHANGED length /\ lpc' = "retail"
  /\ UNCHANGED <<kernel, delivered, bpc, head, tail, main, lhead>>

ReloadTail ==
  /\ lpc = "retail"
  /\ ltail' = tail
  /\ lpc' = "rehead"
  /\ UNCHANGED <<kernel, delivered, bpc, head, tail, main, lhead, length>>

ReloadHead ==
  /\ lpc = "rehead"
  /\ lhead' = head
  /\ length' = (ltail - head) % W
  /\ lpc' = "idle"
  /\ UNCHANGED <<kernel, delivered, bpc, head, tail, main, ltail>>

-----------------------------------------------------------------------------
Kernel     == Arrive
Backlogger == fifo_add_packet \/ RecvFails
Main       == (\E c \in Calls : Begin(c)) \/ Check \/ AdvanceHead \/ Verdict
Router_tail_first == LoadHead_after_tail \/ LoadTail_before_head
Router     == LoadHead \/ LoadTail \/ ReloadTail \/ ReloadHead

Next == Kernel \/ Backlogger \/ Main \/ Router

Spec == Init /\ [][Next]_vars

(* The scheduler runs every thread; recv() returns what was sent. *)
Fairness == WF_vars(fifo_add_packet) /\ WF_vars(Main) /\ WF_vars(Router)
FairSpec == Spec /\ Fairness

-----------------------------------------------------------------------------
(* Packets the main thread has decided about: head has passed them.  In     *)
(* the window between the store to head and the verdict the packet that     *)
(* head names is still undecided.                                           *)
Decided == IF mpc = "verdict" THEN head - 1 ELSE head

(* The value fifo_length() computes when nothing interferes with it. *)
CountedBacklog == IF head < tail THEN tail - head ELSE 0

(* The types of the counters, of the kernel's books and of the threads'     *)
(* control states (fifo_t, the recv loop, the callers of fifo_queue.c).     *)
TypeOK ==
  /\ arrived \in 0..MaxPackets
  /\ held \subseteq Packets
  /\ DOMAIN fate \subseteq Packets
  /\ \A p \in DOMAIN fate : fate[p] \in Fates
  /\ delivered \in 0..MaxPackets
  /\ bpc \in {"recv", "ended"}
  /\ head \in 0..(W - 1)
  /\ tail \in 0..(W - 1)
  /\ mpc \in {"idle", "check", "inc", "verdict"}
  /\ call \in {"send", "drop", "delete"}
  /\ lpc \in {"idle", "tail", "retail", "rehead"}
  /\ lhead \in 0..(W - 1)
  /\ ltail \in 0..(W - 1)
  /\ length \in 0..(W - 1)

(* Two counters stand for a queue of packets.  The packets the kernel holds *)
(* and nobody has decided about are exactly those behind head, whatever the *)
(* interleaving of arrivals, callbacks and verdicts and whichever verdicts  *)
(* fail: none is forgotten and none is decided about twice.                 *)
CountersNameHeldPackets ==
  held \ DOMAIN fate = (Decided + 1)..arrived

(* fifo_send_packet() hands the kernel an id it took from a counter, not    *)
(* from the packet: it must be the id of a packet whose notification the    *)
(* backlogger has received, so no packet is decided about unannounced.      *)
OnlyAnnouncedPacketsAreDecided ==
  /\ DOMAIN fate \subseteq 1..delivered
  /\ mpc = "verdict" => \E p \in 1..delivered : p \in held \ DOMAIN fate

(* "Returns the number of packets currently enqueued" (fifo_queue.c:119):   *)
(* outside of main's calls, tail - head is the number of announced packets  *)
(* that nobody has decided about.                                           *)
LengthCountsEnqueued ==
  mpc = "idle" => CountedBacklog = Cardinality((1..delivered) \ DOMAIN fate)

(* fifo_length() takes no lock.  In an optimized build it loads head before *)
(* tail, so what it returns is never less than the backlog at the moment it *)
(* returns, and never more than the packets that were ever announced.       *)
LengthNeverShort ==
  [][lpc = "tail" /\ lpc' = "idle" =>
       length' >= tail - head /\ length' <= tail]_vars

(* The default build loads both counters twice.  As long as no packet is    *)
(* decided about during the call (head is the same at both loads), what     *)
(* fifo_length() returns is positive and at most the backlog at its return. *)
LengthExactBetweenReleases ==
  [][lpc = "rehead" /\ lpc' = "idle" /\ lhead = head =>
       length' > 0 /\ length' <= tail - head]_vars

(* main keeps calling fifo_send_packet(): every packet that is intercepted  *)
(* is eventually decided about (the kernel accepts every verdict and the    *)
(* backlogger keeps receiving).                                             *)
EveryPacketDecided ==
  \A p \in Packets : (arrived >= p) ~> (p \in DOMAIN fate)

(* The packets after the d-th up to the a-th, oldest first. *)
Interval(d, a) == [i \in 1..(a - d) |-> d + i]

(* The counters and the kernel's books together are a first in, first out   *)
(* queue whose head is decided about once (struct bprd_simple_fifo): the    *)
(* model implements PacketQueue.                                            *)
Abstract == INSTANCE PacketQueue WITH queue <- Interval(Decided, arrived),
                                      total <- arrived
ImplementsPacketQueue == Abstract!Spec
=============================================================================
