-------------------------- MODULE FifoQueueProofs --------------------------
(***************************************************************************)
(* Proofs about FifoQueue, for any number of packets smaller than the     *)
(* range W of the counters, any mix of operations, failing verdicts and a *)
(* backlogger that may die at any moment.                                 *)
(*                                                                         *)
(* The inductive invariant ties the counters to the kernel's books: tail  *)
(* counts the notifications received, head never passes tail (a packet    *)
(* passed the test "head < tail" before head moves, and tail only grows), *)
(* and the packets decided about are exactly 1..Decided.                  *)
(***************************************************************************)
EXTENDS FifoQueue, Sequences, SequenceTheorems, FiniteSetTheorems, TLAPS

(* No counter wraps: fewer than W packets ever arrive. *)
NoWrap == MaxPackets < W

(* The counters in order, and what each control point of main has checked. *)
CountersOrdered ==
  /\ tail = delivered
  /\ delivered <= arrived
  /\ head <= tail
  /\ mpc = "inc" => head < tail
  /\ mpc = "verdict" => head > 0

(* The kernel's books, in terms of the counters. *)
BooksMatch ==
  /\ held \subseteq 1..arrived
  /\ DOMAIN fate = 1..Decided
  /\ (Decided + 1)..arrived \subseteq held

(* What fifo_length() has loaded is not newer than what is stored, and      *)
(* past its test the loaded counters differ.                                *)
LoadsAreOld ==
  /\ lhead <= head /\ ltail <= tail
  /\ lpc \in {"retail", "rehead"} => lhead < ltail

IndInv == TypeOK /\ CountersOrdered /\ BooksMatch /\ LoadsAreOld

-----------------------------------------------------------------------------
(* Below W, taking a number modulo W changes nothing. *)
LEMMA SmallMod == \A n \in Nat : n < W => n % W = n
  BY FifoAssumption

(* With no wrap, the verdict for id head acts on the one undecided packet   *)
(* whose number is head.                                                    *)
LEMMA VerdictMatch ==
  ASSUME NoWrap, IndInv, mpc = "verdict"
  PROVE  /\ Matching(head) = {head}
         /\ Oldest(Matching(head)) = head
         /\ head \in 1..arrived
         /\ head \notin DOMAIN fate
  <1>1. head \in 1..arrived /\ head \in held
    BY FifoAssumption DEF IndInv, TypeOK, CountersOrdered, BooksMatch, Decided
  <1>2. \A p \in held : p \in Nat /\ p < W
    BY FifoAssumption DEF IndInv, TypeOK, NoWrap, Packets
  <1>3. Matching(head) = {head}
    BY <1>1, <1>2, SmallMod DEF Matching
  <1>4. Oldest(Matching(head)) = head
    <2>1. \A q \in {head} : head <= q
      BY <1>1
    <2>2. \A p \in {head} : p = head
      OBVIOUS
    <2> QED
      BY <1>3, <2>1, <2>2, Zenon DEF Oldest
  <1>5. head \notin DOMAIN fate
    BY <1>1 DEF IndInv, BooksMatch, Decided
  <1> QED
    BY <1>1, <1>3, <1>4, <1>5

(* The initial state satisfies the invariant. *)
LEMMA InitInd == Init => IndInv
  BY FifoAssumption
  DEF Init, IndInv, TypeOK, CountersOrdered, BooksMatch, LoadsAreOld, Decided,
      Packets, Fates

(* Every step of every thread preserves the invariant. *)
LEMMA NextInd ==
  ASSUME NoWrap, IndInv, [Next]_vars
  PROVE  IndInv'
  <1> USE FifoAssumption
  <1>1. CASE Arrive
    BY <1>1 DEF Arrive, IndInv, TypeOK, CountersOrdered, BooksMatch,
                LoadsAreOld, Decided, Packets, Fates, main, reader
  <1>2. CASE fifo_add_packet
    <2>1. (tail + 1) % W = tail + 1
      BY <1>2, SmallMod DEF fifo_add_packet, IndInv, TypeOK, CountersOrdered,
                            NoWrap
    <2> QED
      BY <1>2, <2>1 DEF fifo_add_packet, IndInv, TypeOK, CountersOrdered,
                        BooksMatch, LoadsAreOld, Decided, Packets, Fates,
                        NoWrap, kernel, main, reader
  <1>3. CASE RecvFails
    BY <1>3 DEF RecvFails, IndInv, TypeOK, CountersOrdered, BooksMatch,
                LoadsAreOld, Decided, Packets, Fates, kernel, main, reader
  <1>4. ASSUME NEW c \in Calls, Begin(c)
        PROVE  IndInv'
    BY <1>4 DEF Begin, IndInv, TypeOK, CountersOrdered, BooksMatch,
                LoadsAreOld, Decided, Packets, Fates, kernel, reader
  <1>5. CASE Check
    BY <1>5 DEF Check, IndInv, TypeOK, CountersOrdered, BooksMatch,
                LoadsAreOld, Decided, Packets, Fates, kernel, reader
  <1>6. CASE AdvanceHead
    <2>1. (head + 1) % W = head + 1
      BY <1>6, SmallMod DEF AdvanceHead, IndInv, TypeOK, CountersOrdered,
                            NoWrap
    <2> QED
      BY <1>6, <2>1 DEF AdvanceHead, IndInv, TypeOK, CountersOrdered,
                        BooksMatch, LoadsAreOld, Decided, Packets, Fates,
                        NoWrap, kernel, reader
  <1>7. CASE Verdict
    <2>1. PICK ok \in VerdictOutcomes :
            /\ held' = IF ok THEN held \ {head} ELSE held
            /\ fate' = [q \in DOMAIN fate \cup {head} |->
                          IF q \in DOMAIN fate THEN fate[q]
                          ELSE IF ok THEN IF call = "send" THEN "accept"
                                          ELSE "drop"
                               ELSE "stuck"]
            /\ arrived' = arrived
      <3>1. Matching(head) # {} /\ Oldest(Matching(head)) = head
        BY <1>7, VerdictMatch DEF Verdict
      <3> QED
        BY <1>7, <3>1, Zenon DEF Verdict, SetVerdict
    <2>2. head \in 1..arrived /\ head \notin DOMAIN fate
      BY <1>7, VerdictMatch DEF Verdict
    <2>3. DOMAIN fate' = DOMAIN fate \cup {head}
      BY <2>1
    <2>4. \A q \in DOMAIN fate' : fate'[q] \in Fates
      BY <2>1 DEF IndInv, TypeOK, Fates
    <2>5. TypeOK'
      <3>1. held' \subseteq Packets
        BY <2>1 DEF IndInv, TypeOK
      <3>2. DOMAIN fate' \subseteq Packets
        BY <2>2, <2>3 DEF IndInv, TypeOK, Packets
      <3> HIDE <2>1
      <3> QED
        BY <1>7, <2>1, <2>4, <3>1, <3>2 DEF Verdict, IndInv, TypeOK, reader
    <2>6. CountersOrdered' /\ LoadsAreOld'
      BY <1>7, <2>1
      DEF Verdict, IndInv, TypeOK, CountersOrdered, LoadsAreOld, reader
    <2>7. BooksMatch'
      BY <1>7, <2>1, <2>2, <2>3
      DEF Verdict, IndInv, TypeOK, CountersOrdered, BooksMatch, Decided
    <2> QED
      BY <2>5, <2>6, <2>7 DEF IndInv
  <1>8. CASE Router
    <2>1. LoadHead \/ LoadTail \/ ReloadTail \/ ReloadHead
      BY <1>8 DEF Router
    <2>2. UNCHANGED <<kernel, delivered, bpc, head, tail, main>>
      BY <2>1 DEF LoadHead, LoadTail, ReloadTail, ReloadHead, kernel, main
    <2>3. /\ lhead' \in 0..(W - 1) /\ ltail' \in 0..(W - 1)
          /\ length' \in 0..(W - 1)
          /\ lpc' \in {"idle", "tail", "retail", "rehead"}
          /\ lhead' <= head /\ ltail' <= tail
          /\ lpc' \in {"retail", "rehead"} => lhead' < ltail'
      BY <2>1 DEF LoadHead, LoadTail, ReloadTail, ReloadHead, IndInv, TypeOK,
                  LoadsAreOld
    <2> QED
      BY <2>2, <2>3 DEF IndInv, TypeOK, CountersOrdered, BooksMatch,
                        LoadsAreOld, Decided, kernel, main
  <1>9. CASE UNCHANGED vars
    BY <1>9 DEF vars, IndInv, TypeOK, CountersOrdered, BooksMatch,
                LoadsAreOld, Decided, Packets, Fates, kernel, main, reader
  <1> QED
    BY <1>1, <1>2, <1>3, <1>4, <1>5, <1>6, <1>7, <1>8, <1>9
    DEF Next, Kernel, Backlogger, Main

(* The invariant holds throughout: the base of the theorems below. *)
THEOREM IndInvHolds ==
  ASSUME NoWrap
  PROVE  Spec => []IndInv
  <1>1. IndInv /\ [Next]_vars => IndInv'
    BY NextInd
  <1> QED
    BY InitInd, <1>1, PTL DEF Spec

-----------------------------------------------------------------------------
(* The counters, the kernel's books and the control states keep their       *)
(* types: head and tail stay below W because the arithmetic wraps.          *)
THEOREM TypeCorrect ==
  ASSUME NoWrap
  PROVE  Spec => []TypeOK
  <1>1. IndInv => TypeOK
    BY DEF IndInv
  <1> QED
    BY IndInvHolds, <1>1, PTL

(* fifo_send_packet(), fifo_drop_packet(), fifo_delete() and the callback   *)
(* never lose track of a packet: what the kernel holds undecided is exactly *)
(* what lies behind head.                                                   *)
THEOREM CountersNameHeld ==
  ASSUME NoWrap
  PROVE  Spec => []CountersNameHeldPackets
  <1>1. IndInv => CountersNameHeldPackets
    <2> SUFFICES ASSUME IndInv
                 PROVE  held \ DOMAIN fate = (Decided + 1)..arrived
      BY DEF CountersNameHeldPackets
    <2>1. Decided \in Nat /\ arrived \in Nat
      BY FifoAssumption DEF IndInv, TypeOK, CountersOrdered, Decided
    <2>2. /\ held \subseteq 1..arrived
          /\ DOMAIN fate = 1..Decided
          /\ (Decided + 1)..arrived \subseteq held
      BY DEF IndInv, BooksMatch
    <2>3. \A p \in 1..arrived : p \notin 1..Decided => p \in (Decided + 1)..arrived
      BY <2>1
    <2>4. \A p \in (Decided + 1)..arrived : p \notin 1..Decided
      BY <2>1
    <2> QED
      BY <2>2, <2>3, <2>4, Zenon
  <1> QED
    BY IndInvHolds, <1>1, PTL

(* No packet is decided about before the backlogger has received its        *)
(* notification.                                                            *)
THEOREM OnlyAnnounced ==
  ASSUME NoWrap
  PROVE  Spec => []OnlyAnnouncedPacketsAreDecided
  <1>1. IndInv => OnlyAnnouncedPacketsAreDecided
    <2> SUFFICES ASSUME IndInv
                 PROVE  OnlyAnnouncedPacketsAreDecided
      OBVIOUS
    <2>1. DOMAIN fate \subseteq 1..delivered
      BY FifoAssumption
      DEF IndInv, TypeOK, CountersOrdered, BooksMatch, Decided
    <2>2. mpc = "verdict" => /\ head \in 1..delivered
                             /\ head \in held \ DOMAIN fate
      BY FifoAssumption
      DEF IndInv, TypeOK, CountersOrdered, BooksMatch, Decided
    <2> QED
      BY <2>1, <2>2 DEF OnlyAnnouncedPacketsAreDecided
  <1> QED
    BY IndInvHolds, <1>1, PTL

(* The unlocked fifo_length() of an optimized build never reports less than *)
(* the backlog at its return, because head was loaded first and only grows. *)
THEOREM NeverShort ==
  ASSUME NoWrap
  PROVE  Spec => LengthNeverShort
  <1>1. ASSUME IndInv, [Next]_vars
        PROVE  [lpc = "tail" /\ lpc' = "idle" =>
                  length' >= tail - head /\ length' <= tail]_vars
    <2> SUFFICES ASSUME Next, lpc = "tail", lpc' = "idle"
                 PROVE  length' >= tail - head /\ length' <= tail
      BY <1>1
    <2>1. LoadTail
      BY DEF Next, Kernel, Backlogger, Main, Router, Arrive, fifo_add_packet,
             RecvFails, Begin, Check, AdvanceHead, Verdict, LoadHead,
             ReloadTail, ReloadHead, reader
    <2> QED
      BY <1>1, <2>1, FifoAssumption
      DEF LoadTail, IndInv, TypeOK, CountersOrdered, LoadsAreOld
  <1> QED
    BY IndInvHolds, <1>1, PTL DEF Spec, LengthNeverShort

(* Between main's calls fifo_length()'s difference is the number of packets *)
(* that were announced and not decided about.                               *)
THEOREM LengthCounts ==
  ASSUME NoWrap
  PROVE  Spec => []LengthCountsEnqueued
  <1>1. IndInv => LengthCountsEnqueued
    <2> SUFFICES ASSUME IndInv, mpc = "idle"
                 PROVE  CountedBacklog = Cardinality((1..delivered) \ DOMAIN fate)
      BY DEF LengthCountsEnqueued
    <2>1. /\ head \in Nat /\ delivered \in Nat /\ tail = delivered /\ head <= tail
          /\ DOMAIN fate = 1..head
      BY FifoAssumption DEF IndInv, TypeOK, CountersOrdered, BooksMatch, Decided
    <2>2. (1..delivered) \ (1..head) = (head + 1)..delivered
      BY <2>1
    <2>3. Cardinality((head + 1)..delivered) =
            IF head + 1 > delivered THEN 0 ELSE delivered - (head + 1) + 1
      BY <2>1, FS_Interval
    <2>4. Cardinality((1..delivered) \ DOMAIN fate)
            = Cardinality((head + 1)..delivered)
      BY <2>1, <2>2, Zenon
    <2>5. CASE head < tail
      <3>1. ~(head + 1 > delivered)
        BY <2>1, <2>5
      <3>2. Cardinality((head + 1)..delivered) = delivered - (head + 1) + 1
        BY <2>3, <3>1, Zenon
      <3> QED
        BY <2>1, <2>4, <2>5, <3>2 DEF CountedBacklog
    <2>6. CASE ~(head < tail)
      <3>1. head + 1 > delivered
        BY <2>1, <2>6
      <3>2. Cardinality((head + 1)..delivered) = 0
        BY <2>3, <3>1, Zenon
      <3> QED
        BY <2>4, <2>6, <3>2 DEF CountedBacklog
    <2> QED
      BY <2>5, <2>6
  <1> QED
    BY IndInvHolds, <1>1, PTL

(* fifo_length() of the default build, which loads the counters twice, is   *)
(* right as long as no packet is released between the two loads of head.    *)
THEOREM LengthExact ==
  ASSUME NoWrap
  PROVE  Spec => LengthExactBetweenReleases
  <1>1. ASSUME IndInv, [Next]_vars
        PROVE  [lpc = "rehead" /\ lpc' = "idle" /\ lhead = head =>
                  length' > 0 /\ length' <= tail - head]_vars
    <2> SUFFICES ASSUME Next, lpc = "rehead", lpc' = "idle", lhead = head
                 PROVE  length' > 0 /\ length' <= tail - head
      BY <1>1
    <2>1. ReloadHead
      BY DEF Next, Kernel, Backlogger, Main, Router, Arrive, fifo_add_packet,
             RecvFails, Begin, Check, AdvanceHead, Verdict, LoadHead,
             LoadTail, ReloadTail, reader
    <2>2. /\ head \in Nat /\ ltail \in Nat /\ head < ltail /\ ltail < W
          /\ ltail <= tail /\ tail \in Nat /\ W \in Nat
      BY <1>1, FifoAssumption DEF IndInv, TypeOK, LoadsAreOld
    <2>3. (ltail - head) % W = ltail - head
      BY <2>2, SmallMod
    <2> QED
      BY <2>1, <2>2, <2>3 DEF ReloadHead
  <1> QED
    BY IndInvHolds, <1>1, PTL DEF Spec, LengthExactBetweenReleases

-----------------------------------------------------------------------------
(* Intervals as queues: an arrival is appended, the oldest is the head. *)
LEMMA IntervalAppend ==
  ASSUME NEW d \in Nat, NEW a \in Nat, d <= a
  PROVE  Append(Interval(d, a), a + 1) = Interval(d, a + 1)
  BY DEF Interval

(* Removing the first element of an interval sequence: fifo_send_packet()   *)
(* takes the oldest packet.                                                 *)
LEMMA IntervalTail ==
  ASSUME NEW d \in Nat, NEW a \in Nat, d < a
  PROVE  /\ Interval(d, a) # << >>
         /\ Head(Interval(d, a)) = d + 1
         /\ Tail(Interval(d, a)) = Interval(d + 1, a)
  <1>1. /\ Interval(d, a) \in Seq(Nat)
        /\ Len(Interval(d, a)) = a - d
        /\ Interval(d + 1, a) \in Seq(Nat)
        /\ Len(Interval(d + 1, a)) = a - (d + 1)
    BY DEF Interval
  <1>2. Interval(d, a) # << >>
    BY <1>1
  <1>3. Head(Interval(d, a)) = d + 1
    BY <1>1, <1>2, HeadTailProperties DEF Interval
  <1>4. /\ Tail(Interval(d, a)) \in Seq(Nat)
        /\ Len(Tail(Interval(d, a))) = a - (d + 1)
        /\ \A i \in 1..(a - (d + 1)) : Tail(Interval(d, a))[i] = Interval(d, a)[i + 1]
    BY <1>1, <1>2, HeadTailProperties
  <1>5. \A i \in 1..(a - (d + 1)) : Interval(d, a)[i + 1] = Interval(d + 1, a)[i]
    BY DEF Interval
  <1>6. Tail(Interval(d, a)) = Interval(d + 1, a)
    BY <1>1, <1>4, <1>5, SeqEqual
  <1> QED
    BY <1>2, <1>3, <1>6

(* Every step of FifoQueue is a step of PacketQueue or changes nothing that *)
(* PacketQueue speaks of: an arrival enqueues, a verdict dequeues, and the  *)
(* store to head is invisible until the verdict.                            *)
LEMMA StepRefines ==
  ASSUME NoWrap, IndInv, IndInv', [Next]_vars
  PROVE  [Abstract!Next]_(Abstract!vars)
  <1> USE FifoAssumption
  <1> DEFINE Q == Interval(Decided, arrived)
  <1>0. /\ Decided \in Nat /\ arrived \in Nat /\ Decided <= arrived
        /\ DOMAIN fate = 1..Decided
    BY DEF IndInv, TypeOK, CountersOrdered, BooksMatch, Decided
  <1>1. CASE Arrive
    <2>1. Decided' = Decided /\ arrived' = arrived + 1 /\ fate' = fate
      BY <1>1 DEF Arrive, Decided, main
    <2>2. Q' = Append(Q, arrived + 1)
      BY <1>0, <2>1, IntervalAppend
    <2> QED
      BY <1>1, <2>1, <2>2 DEF Arrive, Abstract!Next, Abstract!Enqueue
  <1>2. CASE Verdict
    <2>1. /\ Matching(head) # {} /\ Oldest(Matching(head)) = head
          /\ head \in 1..arrived /\ head \notin DOMAIN fate
      BY <1>2, VerdictMatch DEF Verdict
    <2>2. Decided < arrived /\ Decided + 1 = head /\ Decided' = Decided + 1
      BY <1>2, <1>0, <2>1 DEF Verdict, Decided, IndInv, TypeOK
    <2>3. PICK f \in Fates :
            /\ fate' = [q \in DOMAIN fate \cup {head} |->
                          IF q \in DOMAIN fate THEN fate[q] ELSE f]
            /\ arrived' = arrived
      BY <1>2, <2>1, Zenon DEF Verdict, SetVerdict, Fates
    <2>4. Q # << >> /\ Head(Q) = head /\ Tail(Q) = Q'
      BY <1>0, <2>2, <2>3, IntervalTail
    <2>5. Abstract!Dequeue(f)
      BY <2>3, <2>4 DEF Abstract!Dequeue
    <2> QED
      BY <2>5 DEF Abstract!Next
  <1>3. CASE ~Arrive /\ ~Verdict
    <2>1. UNCHANGED <<Decided, arrived, fate>>
      <3>1. CASE AdvanceHead
        <4>1. (head + 1) % W = head + 1
          BY <3>1, SmallMod DEF AdvanceHead, IndInv, TypeOK, CountersOrdered,
                                NoWrap
        <4> QED
          BY <3>1, <4>1 DEF AdvanceHead, Decided, IndInv, TypeOK, kernel
      <3>2. CASE Backlogger \/ Router \/ UNCHANGED vars
        BY <3>2 DEF Backlogger, fifo_add_packet, RecvFails, Router, LoadHead,
                    LoadTail, ReloadTail, ReloadHead, Decided, kernel, main,
                    vars
      <3>3. CASE (\E c \in Calls : Begin(c)) \/ Check
        BY <3>3 DEF Begin, Check, Decided, kernel
      <3> QED
        BY <1>3, <3>1, <3>2, <3>3 DEF Next, Kernel, Main
    <2> QED
      BY <2>1 DEF Abstract!vars
  <1> QED
    BY <1>1, <1>2, <1>3

(* A commodity queue built from two counters and kernel ids behaves as a    *)
(* first in, first out queue of packets.                                    *)
THEOREM Refinement ==
  ASSUME NoWrap
  PROVE  Spec => ImplementsPacketQueue
  <1>1. Init => Abstract!Init
    <2> SUFFICES ASSUME Init
                 PROVE  Abstract!Init
      OBVIOUS
    <2>1. Interval(Decided, arrived) = << >>
      BY DEF Init, Decided, Interval
    <2>2. fate = [p \in {} |-> "none"]
      BY DEF Init
    <2> QED
      BY <2>1, <2>2 DEF Init, Abstract!Init
  <1>2. IndInv /\ IndInv' /\ [Next]_vars => [Abstract!Next]_(Abstract!vars)
    BY StepRefines
  <1> QED
    BY IndInvHolds, <1>1, <1>2, PTL DEF Spec, Abstract!Spec, ImplementsPacketQueue
=============================================================================
