---------------------------- MODULE PacketQueue ----------------------------
(***************************************************************************)
(* What a commodity queue of bprd promises, without counters, ids or      *)
(* threads: packets wait in the order in which the kernel intercepted     *)
(* them, only the oldest waiting packet is ever decided about, and the    *)
(* decision is made once.  A decision the kernel refuses leaves the       *)
(* packet "stuck" in the kernel: it is no longer waiting and nobody will  *)
(* decide about it again.                                                 *)
(*                                                                         *)
(* FifoQueue (fifo_queue.c, the backlogger's receive loop and the kernel's*)
(* NFQUEUE) is shown to implement this specification.                     *)
(***************************************************************************)
EXTENDS Naturals, Sequences

CONSTANTS MaxPackets,  \* bound on the packets that ever arrive
          Fates        \* what may become of a packet that leaves the queue

VARIABLES queue,   \* the packets that wait, oldest first
          total,   \* how many packets have arrived; packet p is the p-th
          fate     \* fate[p], for every packet that has left the queue

vars == <<queue, total, fate>>

Init == /\ queue = << >>
        /\ total = 0
        /\ fate = [p \in {} |-> "none"]

(* A packet of the commodity is intercepted: it waits behind the others. *)
Enqueue == /\ total < MaxPackets
           /\ total' = total + 1
           /\ queue' = Append(queue, total + 1)
           /\ UNCHANGED fate

(* The oldest waiting packet leaves the queue. *)
Dequeue(f) == /\ queue # << >>
              /\ queue' = Tail(queue)
              /\ fate' = [p \in DOMAIN fate \cup {Head(queue)} |->
                             IF p \in DOMAIN fate THEN fate[p] ELSE f]
              /\ UNCHANGED total

Next == Enqueue \/ \E f \in Fates : Dequeue(f)

Spec == Init /\ [][Next]_vars
=============================================================================
