----------------------------- MODULE HelloPath -----------------------------
(***************************************************************************)
(* The way of a hello from the lists of one station, through its packetbb  *)
(* writer, over the air and through the packetbb reader, into the neighbor *)
(* table of another station: hello_writer.c and PbbWriter on one side,     *)
(* hello_reader.c, ntable.c, list.c and PbbReader on the other.            *)
(*                                                                         *)
(* The sender's lists change while the writer thread goes through them.    *)
(* The network loses, repeats and reorders what is sent.  The receiver     *)
(* also hears other stations, of bprd and not of bprd, forgets neighbors,  *)
(* and has a wall clock that somebody may set.  When its process has ended *)
(* over a message the model follows it no further.                         *)
(***************************************************************************)
EXTENDS PbbWriter, FiniteSets, Functions

CONSTANTS
  Me,              \* the receiver's address
  You,             \* the sender's address
  CommodityLists,  \* the lists of commodities the sender may be started with
  NeighborLists,   \* the neighbors its table may hold
  Backlogs,        \* the backlogs its queues may have
  Others,          \* the hellos of other stations, [orig, seqno, coms, nbrs]
  Foreign,         \* messages of the hello's type that bprd does not write
  NeighborTimeout, \* bprd.neighbor_timeout
  W,               \* times are taken modulo W (2^32 in the code)
  ClockSettings,   \* what the receiver's clock may be set to
  MaxBacklogs, MaxHellos, MaxTicks, MaxClockSets  \* bounds

VARIABLES
  sender,  \* [pc, at, clist, seqno, w]: the writer thread, its list and writer
  copied,  \* history: what the writer has taken from the lists, as a hello
  air,     \* what was sent: [bytes, hello], where hello is history
  nlist,   \* the receiver's neighbor table, newest first
  n,       \* the static variable n of hello_reader.c, by the neighbor's address
  exited,  \* what has ended the receiver's process, or "no"
  clock,   \* the receiver's wall clock
  left,    \* what is left of the bounds
  heard,   \* history: the hello being read and the table before it
  quiet,   \* history, by neighbor: how long ago its last hello was read
  stepped, \* history: the neighbors in the table when the clock was last set
  rd, call, open, gone, seen  \* PbbReader

readerVars == <<rd, call, open, gone, seen>>
senderVars == <<sender, copied>>
tableVars == <<nlist, n, exited, quiet, stepped>>
vars == <<senderVars, air, clock, left, heard, tableVars, readerVars>>

BPRD_MSG_TYPE_HELLO == MsgType
BPRD_MSGTLV_TYPE_COM == 1

(* hello_reader_init(): nothing is wanted of the packet, start and TLV      *)
(* callbacks of messages and addresses; all of them return PBB_OKAY.        *)
HelloConsumers ==
  <<[kind |-> "packet", order |-> 0, msg_id |-> 0, entries |-> << >>, callbacks |-> {}],
    [kind |-> "message", order |-> 0, msg_id |-> BPRD_MSG_TYPE_HELLO, entries |-> << >>,
     callbacks |-> {"start", "tlv"}],
    [kind |-> "address", order |-> 0, msg_id |-> BPRD_MSG_TYPE_HELLO, entries |-> << >>,
     callbacks |-> {"start", "tlv"}]>>

R == INSTANCE PbbReader
       WITH Registered <- HelloConsumers, Returns <- << >>, MaxDrops <- 0, Forwards <- FALSE,
            Failures <- {0}, Datagrams <- {}

-----------------------------------------------------------------------------
(* Addresses.  Every netaddr of a station has the full prefix length; a     *)
(* commodity's netaddr has its own.                                         *)

netaddr_from_binary(bytes) == [addr |-> bytes, prefix_len |-> AddrLen * 8]

(* A commodity_s_t as bytes, and back.                                      *)
Packed(c) == c.addr.addr \o <<c.addr.prefix_len, c.backlog>>

CommoditySize == AddrLen + 2

Unpacked(bytes) ==
  [addr |-> [addr |-> SubSeq(bytes, 1, AddrLen), prefix_len |-> bytes[AddrLen + 1]],
   backlog |-> bytes[AddrLen + 2]]

-----------------------------------------------------------------------------
(* Lists, newest first: list_insert() prepends, list_find() returns the     *)
(* first element whose address is equal.                                    *)

list_insert(l, data) == <<data>> \o l

list_find(l, addr) == SelectInSeq(l, LAMBDA e : e.addr = addr)

(* Met: the elements that meet the condition.                               *)
list_remove_cond(l, Met) == SelectSeq(l, LAMBDA e : e \notin Met)

-----------------------------------------------------------------------------
(* The sender.                                                              *)

NoHello == [orig |-> << >>, seqno |-> 0, coms |-> << >>, nbrs |-> << >>]

Nothing == [hello |-> NoHello, before |-> << >>]

hello_add_msg_header(w, saddr) ==
  set_msg_originator(set_msg_header(w, {"originator", "seqno"}), saddr)

(* The callback of a commodity and of a neighbor.                           *)
AddCommodity(w, c) == add_messagetlv(w, BPRD_MSGTLV_TYPE_COM, 0, Packed(c))

AddNeighbor(w, addr) == add_address(w, addr, AddrLen * 8)

(* The stations share only the air, so that nothing is lost if neither does *)
(* anything while the other is in the middle of a message.  The reader      *)
(* holds the lock of its table, and what its clock does meanwhile it could  *)
(* do before or after; the sender's own threads do interleave.              *)
NotReading == rd.stage = "idle" /\ exited = "no"
NotWriting == sender.pc \in {"sleep", "undefined", "exited"}

(* The writer wakes up and begins a message.                                *)
hello_begin ==
  /\ NotReading /\ sender.pc = "sleep" /\ left.hellos > 0
  /\ sender' = [sender EXCEPT !.pc = "msgtlvs", !.at = 1,
                              !.w = hello_add_msg_header(begin_message(@), You)]
  /\ copied' = [orig |-> You, seqno |-> sender.seqno, coms |-> << >>, nbrs |-> << >>]
  /\ left' = [left EXCEPT !.hellos = @ - 1]
  /\ UNCHANGED <<air, clock, heard, tableVars, readerVars>>

(* hello_add_msgtlvs(): the next commodity; no lock is held.                *)
hello_add_msgtlvs ==
  /\ NotReading /\ sender.pc = "msgtlvs"
  /\ LET c == sender.clist[sender.at]
     IN IF sender.at > Len(sender.clist)
        THEN /\ sender' = [sender EXCEPT !.pc = "addresses"]
             /\ UNCHANGED copied
        ELSE /\ sender' = [sender EXCEPT !.at = @ + 1, !.w = AddCommodity(@, c)]
             /\ copied' = [copied EXCEPT !.coms = Append(@, c)]
  /\ UNCHANGED <<air, clock, left, heard, tableVars, readerVars>>

(* hello_add_addresses(): the table is refreshed and read under its lock;   *)
(* its neighbors are those that the sender happens to hear.                 *)
hello_add_addresses ==
  /\ NotReading /\ sender.pc = "addresses"
  /\ \E l \in NeighborLists :
       /\ sender' = [sender EXCEPT !.pc = "finish", !.w = FoldLeft(AddNeighbor, @, l)]
       /\ copied' = [copied EXCEPT !.nbrs = l]
  /\ UNCHANGED <<air, clock, left, heard, tableVars, readerVars>>

(* The message is written, with the sequence number of                      *)
(* hello_fin_msg_header(), and the packet is sent; if sendto() fails the    *)
(* sender's process ends.                                                   *)
hello_send ==
  /\ NotReading /\ sender.pc = "finish" /\ ~Overruns(sender.w)
  /\ LET w == pbb_writer_flush(finish_message(set_msg_seqno(sender.w, sender.seqno)), FALSE)
     IN \/ /\ sender' = [sender EXCEPT
                           !.pc = "sleep", !.w = [w EXCEPT !.out = << >>],
                           !.seqno = IF Finalizes(sender.w) THEN (@ + 1) % (BYTE * BYTE) ELSE @]
           /\ air' = air \cup {[bytes |-> w.out[i], hello |-> copied] : i \in DOMAIN w.out}
        \/ /\ w.out # << >>
           /\ sender' = [sender EXCEPT !.pc = "exited", !.w = writer_init]
           /\ UNCHANGED air
  /\ copied' = NoHello
  /\ UNCHANGED <<clock, left, heard, tableVars, readerVars>>

(* The message is longer than its buffer: what the sender does from here on *)
(* is undefined, and the model leaves it.                                   *)
hello_overrun ==
  /\ NotReading /\ sender.pc = "finish" /\ Overruns(sender.w)
  /\ sender' = [sender EXCEPT !.pc = "undefined"]
  /\ UNCHANGED <<copied, air, clock, left, heard, tableVars, readerVars>>

(* The router stores the length of a queue that has changed.                *)
BacklogChanges ==
  /\ NotReading /\ left.backlogs > 0 /\ sender.pc \notin {"undefined", "exited"}
  /\ \E i \in DOMAIN sender.clist, b \in Backlogs :
       /\ sender.clist[i].backlog # b
       /\ sender' = [sender EXCEPT !.clist[i].backlog = b]
  /\ left' = [left EXCEPT !.backlogs = @ - 1]
  /\ UNCHANGED <<copied, air, clock, heard, tableVars, readerVars>>

(* What the writer sends for the hello h of another station.                *)
HelloBytes(h) ==
  LET begun == hello_add_msg_header(begin_message(writer_init), h.orig)
      w     == FoldLeft(AddNeighbor, FoldLeft(AddCommodity, begun, h.coms), h.nbrs)
  IN pbb_writer_flush(finish_message(set_msg_seqno(w, h.seqno)), FALSE).out[1]

FromOthers == {[bytes |-> HelloBytes(h), hello |-> h] : h \in Others}
                \cup {[bytes |-> b, hello |-> NoHello] : b \in Foreign}

-----------------------------------------------------------------------------
(* The receiver.                                                            *)

(* hello_recv(): anything that was ever sent may arrive, once, again, late  *)
(* or not at all.                                                           *)
hello_recv ==
  /\ NotReading /\ NotWriting
  /\ \E m \in air \cup FromOthers :
       /\ R!Arrive(m.bytes, 0)
       /\ heard' = [hello |-> m.hello, before |-> nlist]
  /\ UNCHANGED <<senderVars, air, clock, left, tableVars>>

(* recvfrom() fails, which ends the process.                                *)
RecvFails ==
  /\ NotReading /\ NotWriting
  /\ exited' = "system"
  /\ UNCHANGED <<senderVars, air, nlist, n, clock, left, heard, quiet, stepped, readerVars>>

(* The neighbor n points at.                                                *)
At == list_find(nlist, n)

(* A callback that does not return: BPRD_LOG_ERR or an assertion.           *)
Ends(why) ==
  /\ exited' = why
  /\ UNCHANGED <<nlist, n, quiet, stepped>>

(* Mutant: only a new neighbor gets the time of its hello.                  *)
hello_cons_msg_start_time_of_first ==
  LET addr  == netaddr_from_binary(rd.msg.orig)
      found == list_find(nlist, addr)
      fresh == [addr |-> addr, bidir |-> FALSE, clist |-> << >>, update_time |-> clock]
  IN IF rd.msg.orig = << >> THEN Ends("abort")
     ELSE /\ nlist' = IF found = 0 THEN list_insert(nlist, fresh) ELSE nlist
          /\ n' = addr
          /\ quiet' = (addr :> 0) @@ quiet
          /\ stepped' = stepped \ {addr}
          /\ UNCHANGED exited

(* The sender is found or inserted and gets the time of this hello.  That   *)
(* there is an originator is asserted (the reader has chosen the consumer   *)
(* by the message type, which is asserted too).                             *)
hello_cons_msg_start ==
  LET addr  == netaddr_from_binary(rd.msg.orig)
      found == list_find(nlist, addr)
      fresh == [addr |-> addr, bidir |-> FALSE, clist |-> << >>, update_time |-> clock]
  IN IF rd.msg.orig = << >> THEN Ends("abort")
     ELSE /\ nlist' = IF found = 0 THEN list_insert(nlist, fresh)
                      ELSE [nlist EXCEPT ![found].update_time = clock]
          /\ n' = addr
          /\ quiet' = (addr :> 0) @@ quiet
          /\ stepped' = stepped \ {addr}
          /\ UNCHANGED exited

(* Mutant: a commodity that is known is not updated.                        *)
Update_once(com) ==
  LET clist == nlist[At].clist
  IN IF list_find(clist, com.addr) = 0 THEN list_insert(clist, com) ELSE clist

(* The commodity of the TLV is updated or added in the neighbor's list.     *)
Update(com) ==
  LET clist == nlist[At].clist
      found == list_find(clist, com.addr)
  IN IF found = 0 THEN list_insert(clist, com)
     ELSE [clist EXCEPT ![found].backlog = com.backlog]

(* Mutant: the size of the whole commodity_t is compared, with its backdiff.*)
IsCommodity_whole(tlv) ==
  tlv.order \div BYTE = BPRD_MSGTLV_TYPE_COM /\ tlv.length = CommoditySize + 1

(* A TLV of this type with a value of this size is a commodity, any other   *)
(* message TLV a fatal error.                                               *)
IsCommodity(tlv) ==
  tlv.order \div BYTE = BPRD_MSGTLV_TYPE_COM /\ tlv.length = CommoditySize

hello_cons_msg_tlv(tlv) ==
  IF IsCommodity(tlv)
  THEN /\ nlist' = [nlist EXCEPT
                      ![At].clist = Update(Unpacked(R!Bytes(rd.buf, tlv.value, tlv.length)))]
       /\ UNCHANGED <<n, exited, quiet, stepped>>
  ELSE Ends("error")

(* If the address is this station's, the sender is bidirectional.           *)
hello_cons_addr_start ==
  /\ LET naddr1 == netaddr_from_binary(R!AddressOf(rd.buf, R!Block, rd.ai))
         naddr2 == netaddr_from_binary(Me)
     IN nlist' = IF naddr1 = naddr2 THEN [nlist EXCEPT ![At].bidir = TRUE] ELSE nlist
  /\ UNCHANGED <<n, exited, quiet, stepped>>

(* "Addresses should not have tlv's!"                                       *)
hello_cons_addr_tlv == Ends("error")

(* The callback that the reader has made in this step.                      *)
Makes(kind, cb) == call'.cb = cb /\ call'.consumer.kind = kind

(* A step of the reader, with what hello_reader.c does in its callback.     *)
ReaderStep ==
  /\ exited = "no"
  /\ R!Step
  /\ \/ Makes("message", "start") /\ hello_cons_msg_start
     \/ Makes("message", "tlv") /\ hello_cons_msg_tlv(rd.msg.tlvs[rd.ti])
     \/ Makes("address", "start") /\ hello_cons_addr_start
     \/ Makes("address", "tlv") /\ hello_cons_addr_tlv
     \/ call'.cb = "none" /\ UNCHANGED tableVars
  /\ heard' = IF rd'.stage = "idle" THEN Nothing ELSE heard
  /\ UNCHANGED <<senderVars, air, clock, left>>

(* elapsed is an unsigned number.                                           *)
cond_n_expired(e) == (clock - e.update_time) % W > NeighborTimeout

(* The hello writer forgets stale neighbors before it lists the others.     *)
ntable_refresh ==
  /\ NotReading /\ NotWriting
  /\ nlist' = list_remove_cond(nlist, {e \in Range(nlist) : cond_n_expired(e)})
  /\ quiet' = Restrict(quiet, {nlist'[i].addr : i \in DOMAIN nlist'})
  /\ stepped' = stepped \cap DOMAIN quiet'
  /\ UNCHANGED <<senderVars, air, n, exited, clock, left, heard, readerVars>>

Tick ==
  /\ NotReading /\ NotWriting /\ left.ticks > 0
  /\ clock' = (clock + 1) % W
  /\ quiet' = [a \in DOMAIN quiet |-> quiet[a] + 1]
  /\ left' = [left EXCEPT !.ticks = @ - 1]
  /\ UNCHANGED <<senderVars, air, nlist, n, exited, heard, stepped, readerVars>>

(* Somebody sets the clock.                                                 *)
SetClock ==
  /\ NotReading /\ NotWriting /\ left.sets > 0
  /\ clock' \in ClockSettings
  /\ stepped' = DOMAIN quiet
  /\ left' = [left EXCEPT !.sets = @ - 1]
  /\ UNCHANGED <<senderVars, air, nlist, n, exited, heard, quiet, readerVars>>

-----------------------------------------------------------------------------

Init ==
  /\ \E l \in CommodityLists :
       sender = [pc |-> "sleep", at |-> 1, clist |-> l, seqno |-> BYTE * BYTE - 1,
                 w |-> writer_init]
  /\ copied = NoHello /\ air = {}
  /\ nlist = << >> /\ n = NoHello /\ exited = "no" /\ quiet = << >> /\ stepped = {}
  /\ clock = W - 2
  /\ left = [backlogs |-> MaxBacklogs, hellos |-> MaxHellos, ticks |-> MaxTicks,
             sets |-> MaxClockSets]
  /\ heard = Nothing
  /\ R!Init

Next ==
  \/ hello_begin \/ hello_add_msgtlvs \/ hello_add_addresses \/ hello_send \/ hello_overrun
  \/ BacklogChanges
  \/ hello_recv \/ RecvFails \/ ReaderStep \/ ntable_refresh \/ Tick \/ SetClock

Spec == Init /\ [][Next]_vars

-----------------------------------------------------------------------------

(* The commodities of hello h that find room in a message: 3 bytes are the  *)
(* packet header's.                                                         *)
Room == (Mtu - 3 - (6 + AddrLen + 2)) \div (3 + CommoditySize)
Carried(h) == SubSeq(h.coms, 1, IF Len(h.coms) < Room THEN Len(h.coms) ELSE Room)

(* What the reader has parsed when it turns to the consumers is what the    *)
(* writer was given: originator, sequence number, every neighbor, and the   *)
(* commodities in their order up to the first that finds no room, each with *)
(* the backlog it had when the writer came by.  No hello is refused.        *)
HelloReadsBack ==
  /\ rd.result = R!PBB_OKAY
  /\ rd.stage = "consumer" /\ heard.hello # NoHello =>
       LET h == heard.hello
           blocks == rd.msg.blocks
       IN /\ rd.msg.orig = h.orig /\ rd.msg.seqno = h.seqno
          /\ [i \in DOMAIN rd.msg.tlvs |->
                Unpacked(R!Bytes(rd.buf, rd.msg.tlvs[i].value, rd.msg.tlvs[i].length))]
               = Carried(h)
          /\ [i \in DOMAIN blocks |-> R!AddressOf(rd.buf, blocks[i], 0)] = h.nbrs

(* The entries of list l for this address.                                  *)
Entries(l, addr) == {l[i] : i \in {j \in DOMAIN l : l[j].addr = addr}}

(* When a hello has been read, the table has one entry for its originator:  *)
(* with the backlogs of this hello, whichever hellos were read before, the  *)
(* commodities known from earlier ones that it did not carry, no commodity  *)
(* twice, and bidirectional if this or an earlier hello listed this         *)
(* station.  The other neighbors are left alone.                            *)
TableReflectsHello ==
  [][(rd.stage # "idle" /\ rd'.stage = "idle") =>
       LET h    == heard.hello
           addr == netaddr_from_binary(h.orig)
           mine(e) == e.addr = addr
           old  == SelectSeq(heard.before, mine)
           new  == SelectSeq(nlist', mine)
           known == IF old = << >> THEN << >> ELSE old[1].clist
           told == {Carried(h)[i].addr : i \in DOMAIN Carried(h)}
       IN /\ Len(new) = 1
          /\ Range(new[1].clist) =
                Range(Carried(h)) \cup {c \in Range(known) : c.addr \notin told}
          /\ \A c \in Range(new[1].clist) : Cardinality(Entries(new[1].clist, c.addr)) = 1
          /\ IsInjective(new[1].clist)
          /\ new[1].bidir <=> (Me \in Range(h.nbrs) \/ (old # << >> /\ old[1].bidir))
          /\ list_remove_cond(nlist', Range(new)) = list_remove_cond(heard.before, Range(old))]_vars

(* hello_reader.c ends the process over content it does not know ("TODO:    *)
(* softer error handling", line 55).  It never does so over a hello that a  *)
(* bprd station has sent, however its lists have changed while it was       *)
(* written and whatever did not fit into the message.                       *)
OwnHellosNeverFatal ==
  exited \in {"error", "abort"} => heard.hello = NoHello

(* A neighbor leaves the table only when no hello of it was read for longer *)
(* than the timeout, also when the clock wraps around, and then all such    *)
(* neighbors leave; one that was heard exactly the timeout ago stays, as    *)
(* the > in cond_n_expired() has it.  A clock that is set may deceive the   *)
(* refresh about the neighbors of that time, but only until their next      *)
(* hello.                                                                   *)
OnlySilentForgotten ==
  [][Len(nlist') < Len(nlist) =>
       \A a \in DOMAIN quiet \ stepped :
         Entries(nlist', a) # {} <=> quiet[a] <= NeighborTimeout]_vars
=============================================================================
