----------------------------- MODULE PbbReader -----------------------------
(***************************************************************************)
(* The packetbb reader (lib/packetbb/pbb_reader.c): it parses a datagram  *)
(* and hands its packet, messages, addresses and TLVs to the registered   *)
(* consumers, whose callbacks decide how much of the context the later    *)
(* consumers get to see.                                                  *)
(*                                                                         *)
(* A step parses a header, a TLV or an address block, or makes at most one *)
(* callback.                                                               *)
(* "call" names the callback of the last step, so that a specification of *)
(* a consumer can add what its callback does.                             *)
(*                                                                         *)
(* A byte is a number.  BYTE stands for the 256 values of a byte wherever *)
(* a number may need two of them, so that small models reach both cases.  *)
(* The build does not define DISALLOW_CONSUMER_CONTEXT_DROP: consumers    *)
(* may drop.                                                              *)
(***************************************************************************)
EXTENDS Integers, Sequences, SequencesExt, FiniteSets

CONSTANTS
  BYTE,        \* 256
  Registered,  \* the consumers, in the order of their registration
  Returns,     \* Returns[cb]: what the callbacks of that kind may return
  MaxDrops,    \* bound on the callbacks per packet that do not return PBB_OKAY
  Forwards,    \* whether a forward_message callback is set
  Failures,    \* which allocation of a packet may fail; 0: none
  Datagrams    \* the datagrams that may arrive

VARIABLES
  rd,    \* the state of pbb_reader_handle_packet() and its callees
  call,  \* the callback made by the last step
  open,  \* history: the contexts started and not ended, innermost last;
         \* an end callback out of turn stays in it; only of the consumers
         \* that have both callbacks
  gone,  \* history: what consumers have dropped of the current packet
  seen   \* history: the TLVs the current consumer was called with in this pass

vars == <<rd, call, open, gone, seen>>

PBB_DROP_PACKET == 5
PBB_DROP_MESSAGE == 4
PBB_DROP_MSG_BUT_FORWARD == 3
PBB_DROP_ADDRESS == 2
PBB_DROP_TLV == 1
PBB_OKAY == 0
PBB_UNSUPPORTED_VERSION == -1
PBB_END_OF_BUFFER == -2
PBB_BAD_TLV_IDXFLAGS == -3
PBB_BAD_TLV_VALUEFLAGS == -4
PBB_BAD_TLV_LENGTH == -5
PBB_OUT_OF_MEMORY == -6
PBB_EMPTY_ADDRBLOCK == -7
PBB_BAD_MSG_TAILFLAGS == -8
PBB_BAD_MSG_PREFIXFLAGS == -9

(* Not a result of the parser: a division by zero ends the process.         *)
SIGFPE == -10

(* The flag with this mask is set in a byte of flags.                       *)
Flag(byte, mask) == (byte \div mask) % 2 = 1

-----------------------------------------------------------------------------
(* Reading the datagram b.  A position p is the number of bytes before it.  *)
(* What lies at or beyond the end reads as 0; a reader that then goes on    *)
(* has its position beyond the end, which is the error PBB_END_OF_BUFFER.   *)

pbb_get_u8(b, p, end) == IF p < end THEN b[p + 1] ELSE 0

pbb_get_u16(b, p, end) == pbb_get_u8(b, p, end) * BYTE + pbb_get_u8(b, p + 1, end)

Bytes(b, p, n) == SubSeq(b, p + 1, p + n)

(* How many bytes an optional field of n bytes takes.                       *)
Takes(present, n) == IF present THEN n ELSE 0

-----------------------------------------------------------------------------
(* TLVs.                                                                    *)

TLV_TYPEEXT == 128
TLV_SINGLE_IDX == 64
TLV_MULTI_IDX == 32
TLV_VALUE == 16
TLV_EXTVALUE == 8
TLV_MULTIVALUE == 4

calc_tlv_intorder(type, ext) == type * BYTE + ext

has_same_tlvtype(order1, order2) == order1 \div BYTE = order2 \div BYTE

(* Comes after every TLV type.                                              *)
TLVTYPE_ORDER_INFINITE == BYTE * BYTE

(* One TLV: [err, ptr, tlv].  The value is remembered by the position of    *)
(* its first byte.  count is a uint8_t: it is 0 for several values without  *)
(* an index, and for an index2 one below index1.                            *)
parse_tlv(b, ptr, eob) ==
  LET flags   == pbb_get_u8(b, ptr + 1, eob)
      hasExt  == Flag(flags, TLV_TYPEEXT)
      single  == Flag(flags, TLV_SINGLE_IDX)
      multi   == Flag(flags, TLV_MULTI_IDX)
      value   == Flag(flags, TLV_VALUE)
      wide    == Flag(flags, TLV_EXTVALUE)
      idx     == ptr + 2 + Takes(hasExt, 1)
      len     == idx + Takes(single, 1) + Takes(multi, 2)
      body    == len + Takes(value, 1) + Takes(wide, 1)
      length  == CASE value /\ wide -> pbb_get_u16(b, len, eob)
                   [] value /\ ~wide -> pbb_get_u8(b, len, eob)
                   [] OTHER -> 0
      type    == pbb_get_u8(b, ptr, eob)
      ext     == IF hasExt THEN pbb_get_u8(b, ptr + 2, eob) ELSE 0
      index1  == IF single \/ multi THEN pbb_get_u8(b, idx, eob) ELSE 0
      index2  == CASE multi -> pbb_get_u8(b, idx + 1, eob) [] single -> index1
                   [] OTHER -> BYTE - 1
      count   == (index2 - index1 + 1) % BYTE
      several == Flag(flags, TLV_MULTIVALUE) /\ length > 0 /\ count # 1
      err     == CASE ~value /\ wide -> PBB_BAD_TLV_VALUEFLAGS
                   [] (value \/ ~wide) /\ single /\ multi -> PBB_BAD_TLV_IDXFLAGS
                   [] OTHER -> IF body + length > eob THEN PBB_END_OF_BUFFER
                               ELSE IF several /\ count = 0 THEN SIGFPE
                               ELSE IF several /\ length % count # 0 THEN PBB_BAD_TLV_LENGTH
                               ELSE PBB_OKAY
  IN IF err # PBB_OKAY THEN [err |-> err]
     ELSE [err |-> err, ptr |-> body + length,
           tlv |-> [order |-> calc_tlv_intorder(type, ext), index1 |-> index1,
                    index2 |-> index2, multivalue |-> several, value |-> body,
                    length |-> IF several THEN length \div count ELSE length, drop |-> {}]]

(* avl_insert() into the tree of a TLV block (SortedList).  The key is a    *)
(* uint16_t and the comparator reads a uint32_t: this is the list where the *)
(* two bytes behind the key are alike in all entries, as they are where     *)
(* they are padding (64-bit): an entry is a copy of one cleared buffer.     *)
InsertTlv(tlvs, tlv) ==
  InsertAt(tlvs, 1 + Cardinality({i \in DOMAIN tlvs : tlvs[i].order <= tlv.order}), tlv)

-----------------------------------------------------------------------------
(* Address blocks and messages.                                             *)

ADDR_HEAD == 128
ADDR_FULLTAIL == 64
ADDR_ZEROTAIL == 32
ADDR_SINGLEPLEN == 16
ADDR_MULTIPLEN == 8

(* An address block: [err, ptr, block].  addr holds head and tail, zero     *)
(* elsewhere.  The code does not check that head and tail fit into an       *)
(* address; the datagrams of the model keep to that.                        *)
parse_addrblock(b, addrlen, ptr, end) ==
  LET num       == pbb_get_u8(b, ptr, end)
      flags     == pbb_get_u8(b, ptr + 1, end)
      head      == Flag(flags, ADDR_HEAD)
      full      == Flag(flags, ADDR_FULLTAIL)
      zero      == Flag(flags, ADDR_ZEROTAIL)
      single    == Flag(flags, ADDR_SINGLEPLEN)
      multi     == Flag(flags, ADDR_MULTIPLEN)
      mid_start == IF head THEN pbb_get_u8(b, ptr + 2, end) ELSE 0
      headAt    == ptr + 2 + Takes(head, 1)
      afterHead == headAt + mid_start
      tail_len  == IF full \/ zero THEN pbb_get_u8(b, afterHead, end) ELSE 0
      tailAt    == afterHead + Takes(full \/ zero, 1)
      mid_src   == tailAt + Takes(full, tail_len)
      mid_len   == addrlen - mid_start - tail_len
      plen      == mid_src + mid_len * num
      after     == plen + Takes(single, 1) + Takes(multi, num)
      err       == IF num = 0 THEN PBB_EMPTY_ADDRBLOCK
                   ELSE IF headAt <= end /\ afterHead > end THEN PBB_END_OF_BUFFER
                   ELSE IF full /\ zero THEN PBB_BAD_MSG_TAILFLAGS
                   ELSE IF plen > end THEN PBB_END_OF_BUFFER
                   ELSE IF single /\ multi THEN PBB_BAD_MSG_PREFIXFLAGS
                   ELSE IF after > end THEN PBB_END_OF_BUFFER
                   ELSE PBB_OKAY
  IN IF err # PBB_OKAY THEN [err |-> err]
     ELSE [err |-> err, ptr |-> after,
           block |-> [num |-> num, mid_start |-> mid_start, mid_len |-> mid_len,
                      mid_src |-> mid_src,
                      addr |-> Bytes(b, headAt, mid_start) \o [i \in 1..mid_len |-> 0] \o
                               (IF full THEN Bytes(b, tailAt, tail_len)
                                ELSE [i \in 1..tail_len |-> 0]),
                      prefixes |-> CASE single -> [i \in 1..num |-> b[plen + 1]]
                                     [] multi -> Bytes(b, plen, num)
                                     [] OTHER -> [i \in 1..num |-> addrlen * 8],
                      tlvs |-> << >>, drop |-> {}]]

(* Address number i of a block (the first is 0), as assembled for the       *)
(* context of an address consumer.                                          *)
AddressOf(b, block, i) ==
  [k \in DOMAIN block.addr |->
     IF k \in block.mid_start + 1 .. block.mid_start + block.mid_len
     THEN b[block.mid_src + block.mid_len * i + k - block.mid_start] ELSE block.addr[k]]

MSG_ORIGINATOR == 128
MSG_HOPLIMIT == 64
MSG_HOPCOUNT == 32
MSG_SEQNO == 16

(* The value of an optional field of a message that is not there.           *)
Absent == -1

NoMsg == [type |-> Absent]

(* The header of a message: [err, body, msg]; the TLV block begins at body. *)
parse_msgheader(b, ptr) ==
  LET eob      == Len(b)
      flags    == pbb_get_u8(b, ptr + 1, eob)
      addrlen  == (flags % 16) + 1
      Has(f)   == Flag(flags, f)
      hoplimit == ptr + 4 + Takes(Has(MSG_ORIGINATOR), addrlen)
      hopcount == hoplimit + Takes(Has(MSG_HOPLIMIT), 1)
      seqno    == hopcount + Takes(Has(MSG_HOPCOUNT), 1)
      body     == seqno + Takes(Has(MSG_SEQNO), 2)
      end      == ptr + pbb_get_u16(b, ptr + 2, eob)
  IN IF body > eob \/ end > eob THEN [err |-> PBB_END_OF_BUFFER]
     ELSE [err |-> PBB_OKAY, body |-> body,
           msg |-> [start |-> ptr, end |-> end, type |-> pbb_get_u8(b, ptr, eob),
                    addrlen |-> addrlen,
                    orig |-> IF Has(MSG_ORIGINATOR) THEN Bytes(b, ptr + 4, addrlen) ELSE << >>,
                    hoplimit |-> IF Has(MSG_HOPLIMIT) THEN pbb_get_u8(b, hoplimit, eob) ELSE Absent,
                    hopcount |-> IF Has(MSG_HOPCOUNT) THEN pbb_get_u8(b, hopcount, eob) ELSE Absent,
                    seqno |-> IF Has(MSG_SEQNO) THEN pbb_get_u16(b, seqno, eob) ELSE Absent,
                    tlvs |-> << >>, blocks |-> << >>]]

-----------------------------------------------------------------------------
(* The consumers.  One is [kind, order, msg_id, entries, callbacks]; kind   *)
(* is "packet", "message" or "address", msg_id is AnyType for a default     *)
(* consumer, an entry is [type, ext, match_ext, mandatory].                 *)

AnyType == -1

EntryOrder(e) == calc_tlv_intorder(e.type, e.ext)

(* avl_insert() into the tree of a consumer's entries: no duplicates.       *)
InsertEntry(tree, e) ==
  IF \E i \in DOMAIN tree : EntryOrder(tree[i]) = EntryOrder(e) THEN tree
  ELSE InsertAt(tree, 1 + Len(SelectSeq(tree, LAMBDA f : EntryOrder(f) < EntryOrder(e))), e)

(* A consumer is inserted before its addrblock_consumer flag is set, so an  *)
(* address consumer, too, has the key of the message consumers of its order.*)
(* Once a message consumer leads them, each further consumer of the order   *)
(* of either kind goes to the end of its duplicates; before that, each      *)
(* goes in front, a leader, and an address consumer is then found by        *)
(* another key.                                                             *)
add_consumer(tree, c) ==
  LET led == \E i \in DOMAIN tree :
               tree[i].leader /\ tree[i].order = c.order /\ tree[i].kind # "address"
      Before(d) == \/ d.order < c.order
                   \/ d.order = c.order /\ ~(d.leader /\ d.kind = "address")
  IN InsertAt(tree, 1 + Len(SelectSeq(tree, Before)),
              [kind |-> c.kind, order |-> c.order, msg_id |-> c.msg_id, callbacks |-> c.callbacks,
               entries |-> FoldLeft(InsertEntry, << >>, c.entries), leader |-> ~led])

PacketConsumers ==
  FoldLeft(add_consumer, << >>, SelectSeq(Registered, LAMBDA c : c.kind = "packet"))

MessageConsumers ==
  FoldLeft(add_consumer, << >>, SelectSeq(Registered, LAMBDA c : c.kind # "packet"))

(* The entries are in the order of their extended types, without duplicates.*)
SortedEntries(entries) ==
  /\ Len(entries) \in Nat /\ DOMAIN entries = 1..Len(entries)
  /\ \A i \in DOMAIN entries : /\ entries[i].match_ext \in BOOLEAN
                               /\ EntryOrder(entries[i]) \in 0..TLVTYPE_ORDER_INFINITE
  /\ \A i, j \in DOMAIN entries : i < j => EntryOrder(entries[i]) < EntryOrder(entries[j])

(* A consumer's callbacks, where they may drop at all, return a member of   *)
(* enum pbb_result that is not an error; the result of a packet's end       *)
(* callback is not looked at.                                               *)
Installed(c, kinds) ==
  /\ DOMAIN c = {"kind", "order", "msg_id", "entries", "callbacks", "leader"}
  /\ c.kind \in kinds /\ SortedEntries(c.entries)
  /\ MaxDrops > 0 => \A cb \in c.callbacks :
                       \/ c.kind = "packet" /\ cb = "end"
                       \/ Returns[c.kind][cb] \subseteq PBB_OKAY..PBB_DROP_PACKET

(* The consumers are in the order of their priorities, and the message      *)
(* consumers of a priority come before its address consumers.  It is so     *)
(* when no message consumer is registered after both a message and then an  *)
(* address consumer of its order, and not otherwise.                        *)
SortedConsumers(tree) ==
  /\ \A i \in 1..Len(tree) : tree[i].order \in Int
  /\ \A i, j \in 1..Len(tree) :
       i < j => \/ tree[i].order < tree[j].order
                \/ tree[i].order = tree[j].order /\ (tree[i].kind = "address" =>
                                                       tree[j].kind = "address")

ASSUME ConsumersAssumption ==
  /\ {MaxDrops, Len(PacketConsumers), Len(MessageConsumers)} \subseteq Nat
  /\ \A i \in 1..Len(PacketConsumers) : Installed(PacketConsumers[i], {"packet"})
  /\ \A i \in 1..Len(MessageConsumers) :
       Installed(MessageConsumers[i], {"message", "address"})

ASSUME DatagramsAssumption == BYTE \in Nat \ {0} /\ \A b \in Datagrams : b \in Seq(Nat)

-----------------------------------------------------------------------------
(* The state of the reader.  result: what handle_packet() would return;     *)
(* used: the allocations made so far, of which number fail fails; held:     *)
(* those not freed.  ptlvs: the TLVs of the packet; msg: the message at     *)
(* hand; tlvs, blk, limit and eob: the TLV block being parsed, the address  *)
(* block it belongs to and where it ends.  ci: the consumer, bi and ai: the *)
(* address block and the address (from 0) in it, ti and ei: the TLV and the *)
(* entry of _schedule_tlvblock(), found and missing: what it knows of the   *)
(* entries, first and last: same_order[], down: the consumer of a loop over *)
(* end callbacks.                                                           *)

Idle == [stage |-> "idle", buf |-> << >>, ptr |-> 0, result |-> PBB_OKAY,
         used |-> 0, fail |-> 0, held |-> 0, drops |-> 0,
         has_tlv |-> FALSE, ptlvs |-> << >>, msg |-> NoMsg,
         tlvs |-> << >>, blk |-> << >>, limit |-> 0, eob |-> 0,
         ci |-> 0, bi |-> 0, ai |-> 0, ti |-> 0, ei |-> 0, found |-> << >>, missing |-> FALSE,
         first |-> 0, last |-> 0, down |-> 0]

NoCall == [cb |-> "none"]

Consumers == IF rd.msg = NoMsg THEN PacketConsumers ELSE MessageConsumers

(* Whether a message consumer wants messages of this type.                  *)
Wants(c) == c.msg_id = AnyType \/ c.msg_id = rd.msg.type

(* The TLVs that _schedule_tlvblock() is given for consumer c.              *)
Tlvs(c) == CASE c.kind = "packet" -> rd.ptlvs
             [] c.kind = "message" -> rd.msg.tlvs
             [] c.kind = "address" -> rd.msg.blocks[rd.bi].tlvs

(* What callback cb of consumer c may return, and the step's callback; tlvs *)
(* is the TLV it is called with, or the ones it drops.                      *)
Results(c, cb) == IF cb \in c.callbacks /\ rd.drops < MaxDrops
                  THEN Returns[c.kind][cb] ELSE {PBB_OKAY}

Called(c, cb, r, tlvs) ==
  call' = IF cb \notin c.callbacks THEN NoCall
          ELSE [cb |-> cb, consumer |-> c, tlvs |-> tlvs, result |-> r,
                dropped |-> rd.result # PBB_OKAY, missing |-> rd.missing]

Silent == call' = NoCall

Drops(r) == IF r = PBB_OKAY THEN rd.drops ELSE rd.drops + 1

(* rd as _schedule_tlvblock() starts: the merge of consumer c's entries     *)
(* with the TLVs.                                                           *)
Merge(c, s) == [s EXCEPT !.stage = "tlvs", !.ti = 1, !.ei = 1, !.missing = FALSE,
                         !.found = [e \in DOMAIN c.entries |-> [tlv |-> 0, dup |-> FALSE]]]

(* Mutant: after a drop the end callbacks are passed over.                  *)
LeaveConsumers_no_end(s) ==
  [s EXCEPT !.stage = IF s.first # 0 /\ s.result = PBB_OKAY THEN "endmsg" ELSE "cleanup",
            !.down = s.last]

(* rd as the loop over the message consumers is left.                       *)
LeaveConsumers(s) == [s EXCEPT !.stage = IF s.first # 0 THEN "endmsg" ELSE "cleanup",
                               !.down = s.last]

(* rd as consumer c is done with its context and result s.result.           *)
AfterConsumer(c, s) ==
  CASE c.kind = "packet" /\ s.result = PBB_OKAY -> [s EXCEPT !.stage = "packet", !.ci = @ + 1]
    [] c.kind = "packet" /\ s.result # PBB_OKAY -> [s EXCEPT !.stage = "endpkt", !.down = s.ci]
    [] c.kind = "message" /\ s.result = PBB_OKAY -> [s EXCEPT !.stage = "consumer", !.ci = @ + 1]
    [] c.kind = "message" /\ s.result # PBB_OKAY -> LeaveConsumers(s)
    [] c.kind = "address" -> [s EXCEPT !.stage = "addrend"]

-----------------------------------------------------------------------------
(* The steps of pbb_reader_handle_packet().                                 *)

PKT_SEQNO == 8
PKT_TLV == 4

(* s at the start of a TLV block, at ptr; s.eob is where the context ends.  *)
parse_tlvblock(s, ptr) ==
  [s EXCEPT !.stage = "parse", !.ptr = ptr + 2, !.tlvs = << >>,
            !.limit = ptr + 2 + pbb_get_u16(s.buf, ptr, s.eob)]

(* What the trees and lists of a message hold: its TLVs, its address blocks *)
(* and their TLVs.                                                          *)
Objects(m) ==
  ({0} \X DOMAIN m.tlvs)
    \cup UNION {{i} \X ({0} \cup DOMAIN m.blocks[i].tlvs) : i \in DOMAIN m.blocks}

Allocated(m) == Cardinality(Objects(m))

(* s after an error of parsing.  Everything allocated for the message is    *)
(* freed; no callback was made for it.  In the packet's own TLVs it is the  *)
(* end of the packet.                                                       *)
ParseError(s, err) ==
  IF s.msg = NoMsg THEN [Idle EXCEPT !.result = err, !.held = s.held - Len(s.tlvs)]
  ELSE [s EXCEPT !.stage = "message", !.result = err, !.msg = NoMsg,
                 !.held = @ - Len(s.tlvs) - Len(s.blk) - Allocated(s.msg),
                 !.tlvs = << >>, !.blk = << >>]

(* A datagram arrives; allocation number f will fail.  The header is        *)
(* parsed; after an error no callback is made.                              *)
handle_packet(b, f) ==
  /\ rd.stage = "idle"
  /\ LET first_byte == pbb_get_u8(b, 0, Len(b))
         flags == first_byte % 16
         body  == 1 + Takes(Flag(flags, PKT_SEQNO), 2)
         s     == [Idle EXCEPT !.stage = "packet", !.buf = b, !.fail = f, !.ptr = body,
                               !.eob = Len(b), !.has_tlv = Flag(flags, PKT_TLV), !.ci = 1]
     IN rd' = IF first_byte \div 16 # 0
              THEN [Idle EXCEPT !.result = PBB_UNSUPPORTED_VERSION]
              ELSE IF body > Len(b) THEN [Idle EXCEPT !.result = PBB_END_OF_BUFFER]
              ELSE IF Flag(flags, PKT_TLV) THEN parse_tlvblock(s, body) ELSE s
  /\ Silent

(* The next TLV of a TLV block is parsed, allocated and inserted.  SIGFPE   *)
(* is the end of the process: no step follows.                              *)
ParseTlv ==
  /\ rd.stage = "parse" /\ (rd.limit > rd.eob \/ rd.ptr < rd.limit)
  /\ rd.limit <= rd.eob => parse_tlv(rd.buf, rd.ptr, rd.eob).err # SIGFPE
  /\ LET next == parse_tlv(rd.buf, rd.ptr, rd.eob)
     IN rd' = IF rd.limit > rd.eob THEN ParseError(rd, PBB_END_OF_BUFFER)
              ELSE IF next.err # PBB_OKAY THEN ParseError(rd, next.err)
              ELSE IF rd.used + 1 = rd.fail THEN ParseError(rd, PBB_OUT_OF_MEMORY)
              ELSE [rd EXCEPT !.ptr = next.ptr, !.tlvs = InsertTlv(@, next.tlv),
                              !.used = @ + 1, !.held = @ + 1]
  /\ Silent

(* A TLV block is complete.                                                 *)
TlvBlockParsed ==
  /\ rd.stage = "parse" /\ rd.limit <= rd.eob /\ rd.ptr >= rd.limit
  /\ LET s == [rd EXCEPT !.tlvs = << >>, !.blk = << >>]
     IN rd' = IF rd.msg = NoMsg THEN [s EXCEPT !.stage = "packet", !.ptlvs = rd.tlvs]
              ELSE IF rd.blk = << >>
              THEN [s EXCEPT !.stage = "blocks", !.msg.tlvs = rd.tlvs]
              ELSE [s EXCEPT !.stage = "blocks",
                             !.msg.blocks = Append(@, [rd.blk[1] EXCEPT !.tlvs = rd.tlvs])]
  /\ Silent

(* The next packet consumer.                                                *)
StartPacketConsumer ==
  /\ rd.stage = "packet" /\ rd.ci <= Len(PacketConsumers)
  /\ LET c == PacketConsumers[rd.ci]
     IN \E r \in Results(c, "start") :
          LET s == [rd EXCEPT !.result = r, !.drops = Drops(r)]
          IN /\ Called(c, "start", r, {})
             /\ rd' = IF /\ r = PBB_OKAY /\ rd.has_tlv /\ rd.ptlvs # << >>
                         /\ c.callbacks \cap {"tlv", "block"} # {}
                      THEN Merge(c, s) ELSE AfterConsumer(c, s)

PacketConsumersDone ==
  /\ rd.stage = "packet" /\ rd.ci > Len(PacketConsumers)
  /\ rd' = [rd EXCEPT !.stage = "message"]
  /\ Silent

(* The header of the next message.                                          *)
ReadMessage ==
  /\ rd.stage = "message" /\ rd.result = PBB_OKAY /\ rd.ptr < Len(rd.buf)
  /\ LET m == parse_msgheader(rd.buf, rd.ptr)
     IN rd' = IF m.err # PBB_OKAY THEN [rd EXCEPT !.result = m.err]
              ELSE parse_tlvblock([rd EXCEPT !.msg = m.msg, !.eob = m.msg.end], m.body)
  /\ Silent

(* The next address block of a message, up to its TLVs.                     *)
ReadAddressBlock ==
  /\ rd.stage = "blocks" /\ rd.ptr < rd.msg.end
  /\ LET blk == parse_addrblock(rd.buf, rd.msg.addrlen, rd.ptr, rd.msg.end)
     IN rd' = IF rd.used + 1 = rd.fail THEN ParseError(rd, PBB_OUT_OF_MEMORY)
              ELSE IF blk.err # PBB_OKAY THEN ParseError(rd, blk.err)
              ELSE parse_tlvblock([rd EXCEPT !.blk = <<blk.block>>, !.used = @ + 1, !.held = @ + 1],
                                  blk.ptr)
  /\ Silent

(* The whole message is parsed and goes to the consumers.                   *)
MessageRead ==
  /\ rd.stage = "blocks" /\ rd.ptr >= rd.msg.end
  /\ rd' = [rd EXCEPT !.stage = "consumer", !.ci = 1, !.first = 0, !.last = 0]
  /\ Silent

MessagesDone ==
  /\ rd.stage = "message" /\ (rd.result # PBB_OKAY \/ rd.ptr >= Len(rd.buf))
  /\ rd' = [rd EXCEPT !.stage = "endpkt", !.down = Len(PacketConsumers)]
  /\ Silent

(* The end callbacks of the started packet consumers, the last one first.   *)
EndPacketConsumer ==
  /\ rd.stage = "endpkt" /\ rd.down > 0
  /\ LET c == PacketConsumers[rd.down]
     IN Called(c, "end", PBB_OKAY, {})
  /\ rd' = [rd EXCEPT !.down = @ - 1]

(* The packet's TLVs are freed; a drop of the packet is not an error.       *)
PacketDone ==
  /\ rd.stage = "endpkt" /\ rd.down = 0
  /\ rd' = [Idle EXCEPT !.held = rd.held - Len(rd.ptlvs),
                         !.result = IF rd.result = PBB_DROP_PACKET THEN PBB_OKAY ELSE rd.result]
  /\ Silent

-----------------------------------------------------------------------------
(* The steps of _handle_message() after parsing.                            *)

SkipConsumer ==
  /\ rd.stage = "consumer" /\ rd.ci <= Len(MessageConsumers)
  /\ ~Wants(MessageConsumers[rd.ci])
  /\ rd' = [rd EXCEPT !.ci = @ + 1]
  /\ Silent

(* The consumers of one order are done before the next one's order.         *)
OrderDone == rd.first # 0 /\ MessageConsumers[rd.ci].order > MessageConsumers[rd.last].order

EndOrder ==
  /\ rd.stage = "consumer" /\ rd.ci <= Len(MessageConsumers)
  /\ Wants(MessageConsumers[rd.ci]) /\ OrderDone
  /\ rd' = [rd EXCEPT !.stage = "endmsg", !.down = rd.last]
  /\ Silent

(* schedule_msgtlv_consumer(), up to the TLVs.                              *)
StartMessageConsumer ==
  /\ rd.stage = "consumer" /\ rd.ci <= Len(MessageConsumers)
  /\ LET c == MessageConsumers[rd.ci]
     IN /\ c.kind = "message" /\ Wants(c) /\ ~OrderDone
        /\ \E r \in Results(c, "start") :
             LET s == [rd EXCEPT !.result = r, !.drops = Drops(r), !.last = rd.ci,
                                 !.first = IF @ = 0 THEN rd.ci ELSE @]
             IN /\ Called(c, "start", r, {})
                /\ rd' = IF r = PBB_OKAY /\ rd.msg.tlvs # << >> THEN Merge(c, s)
                         ELSE AfterConsumer(c, s)

StartAddressConsumer ==
  /\ rd.stage = "consumer" /\ rd.ci <= Len(MessageConsumers)
  /\ LET c == MessageConsumers[rd.ci] IN c.kind = "address" /\ Wants(c) /\ ~OrderDone
  /\ rd' = [rd EXCEPT !.stage = "address", !.bi = 1, !.ai = 0]
  /\ Silent

ConsumersDone ==
  /\ rd.stage = "consumer" /\ rd.ci > Len(MessageConsumers)
  /\ rd' = LeaveConsumers(rd)
  /\ Silent

(* schedule_end_message_cbs().                                              *)
EndMessageConsumer ==
  /\ rd.stage = "endmsg" /\ rd.down >= rd.first
  /\ LET c == MessageConsumers[rd.down]
         d == IF Wants(c) THEN c ELSE [c EXCEPT !.callbacks = {}]
     IN \E r \in Results(d, "end") :
          /\ Called(d, "end", r, {})
          /\ rd' = [rd EXCEPT !.down = @ - 1, !.drops = Drops(r),
                              !.result = IF r > @ THEN r ELSE @]

EndMessageDone ==
  /\ rd.stage = "endmsg" /\ rd.down < rd.first
  /\ rd' = [rd EXCEPT !.stage = IF rd.result = PBB_OKAY THEN "consumer" ELSE "cleanup",
                      !.first = 0]
  /\ Silent

(* Whether the message is handed to forward_message().                      *)
ForwardsMessage ==
  /\ rd.result \in {PBB_OKAY, PBB_DROP_MSG_BUT_FORWARD}
  /\ Forwards /\ rd.msg.hopcount # Absent
  /\ rd.msg.hopcount < (IF rd.msg.hoplimit = Absent THEN BYTE - 1 ELSE rd.msg.hoplimit) - 1

(* cleanup_parse_message.                                                   *)
MessageDone ==
  /\ rd.stage = "cleanup"
  /\ call' = IF ForwardsMessage THEN [cb |-> "forward", from |-> rd.msg.start, to |-> rd.msg.end]
             ELSE NoCall
  /\ rd' = [rd EXCEPT !.stage = "message", !.msg = NoMsg, !.ptr = rd.msg.end,
                      !.held = @ - Allocated(rd.msg),
                      !.result = IF @ = PBB_DROP_MESSAGE THEN PBB_OKAY ELSE @]

-----------------------------------------------------------------------------
(* The steps of schedule_msgaddr_consumer() and _schedule_tlvblock().       *)

Block == rd.msg.blocks[rd.bi]

(* Mutant: the loop is continued without its increment.                     *)
SkipAddress_stays ==
  /\ rd.stage = "address"
  /\ \/ /\ rd.bi > Len(rd.msg.blocks)
        /\ rd' = [rd EXCEPT !.stage = "consumer", !.ci = @ + 1]
     \/ /\ rd.bi <= Len(rd.msg.blocks) /\ rd.ai = Block.num
        /\ rd' = [rd EXCEPT !.bi = @ + 1, !.ai = 0]
     \/ /\ rd.bi <= Len(rd.msg.blocks) /\ rd.ai \in Block.drop
        /\ rd' = rd
  /\ Silent

(* An address that a consumer has dropped is left out, a block that is done *)
(* is followed by the next one, and after the last one the consumer is done.*)
SkipAddress ==
  /\ rd.stage = "address"
  /\ \/ /\ rd.bi > Len(rd.msg.blocks)
        /\ rd' = [rd EXCEPT !.stage = "consumer", !.ci = @ + 1]
     \/ /\ rd.bi <= Len(rd.msg.blocks) /\ rd.ai = Block.num
        /\ rd' = [rd EXCEPT !.bi = @ + 1, !.ai = 0]
     \/ /\ rd.bi <= Len(rd.msg.blocks) /\ rd.ai \in Block.drop
        /\ rd' = [rd EXCEPT !.ai = @ + 1]
  /\ Silent

StartAddress ==
  /\ rd.stage = "address" /\ rd.bi <= Len(rd.msg.blocks)
  /\ rd.ai < Block.num /\ rd.ai \notin Block.drop
  /\ LET c == MessageConsumers[rd.ci]
     IN \E r \in Results(c, "start") :
          LET s == [rd EXCEPT !.result = r, !.drops = Drops(r)]
          IN /\ Called(c, "start", r, {})
             /\ rd' = IF r = PBB_OKAY /\ Block.tlvs # << >> THEN Merge(c, s)
                      ELSE AfterConsumer(c, s)

(* The end callback of an address, and what becomes of the result.          *)
EndAddress ==
  /\ rd.stage = "addrend"
  /\ LET c == MessageConsumers[rd.ci]
     IN \E r \in Results(c, "end") :
          LET result == IF r > rd.result THEN r ELSE rd.result
              s      == [rd EXCEPT !.result = result, !.drops = Drops(r)]
          IN /\ Called(c, "end", r, {})
             /\ rd' = CASE result = PBB_OKAY -> [s EXCEPT !.stage = "address", !.ai = @ + 1]
                        [] result = PBB_DROP_ADDRESS ->
                             [s EXCEPT !.stage = "address", !.ai = @ + 1, !.result = PBB_OKAY,
                                       !.msg.blocks[rd.bi].drop = @ \cup {rd.ai}]
                        [] OTHER -> LeaveConsumers(s)

(* The index that TLVs of the context of consumer c are matched against.    *)
Index(c) == IF c.kind = "address" THEN rd.ai ELSE 0

(* Mutant: a TLV that was dropped still matches.                            *)
index_match_dropped(c, tlv) == tlv.index1 <= Index(c) /\ Index(c) <= tlv.index2

index_match(c, tlv) ==
  Index(c) \notin tlv.drop /\ tlv.index1 <= Index(c) /\ Index(c) <= tlv.index2

(* s after the TLVs in T are marked as dropped for the current address.     *)
DropTlvs(c, s, T) ==
  LET Marked(tlvs) == [i \in DOMAIN tlvs |->
                         IF i \in T THEN [tlvs[i] EXCEPT !.drop = @ \cup {Index(c)}] ELSE tlvs[i]]
  IN CASE c.kind = "packet" -> [s EXCEPT !.ptlvs = Marked(@)]
       [] c.kind = "message" -> [s EXCEPT !.msg.tlvs = Marked(@)]
       [] c.kind = "address" -> [s EXCEPT !.msg.blocks[rd.bi].tlvs = Marked(@)]

(* An entry matches a TLV.                                                  *)
EntryMatches(entry, tlv) == IF entry.match_ext THEN EntryOrder(entry) = tlv.order
                            ELSE has_same_tlvtype(EntryOrder(entry), tlv.order)

(* Mutant: the entry is passed as soon as its order is reached.             *)
Advance_past_equal(s, tlvs, entries) ==
  LET TlvOrder(i)   == IF i \in DOMAIN tlvs THEN tlvs[i].order ELSE TLVTYPE_ORDER_INFINITE
      EntryAt(i)    == IF i \in DOMAIN entries THEN EntryOrder(entries[i])
                       ELSE TLVTYPE_ORDER_INFINITE
      ti == IF TlvOrder(s.ti) <= EntryAt(s.ei) /\ s.ti \in DOMAIN tlvs THEN s.ti + 1 ELSE s.ti
  IN [s EXCEPT !.ti = ti,
               !.ei = IF EntryAt(s.ei) <= TlvOrder(ti) /\ s.ei \in DOMAIN entries
                      THEN @ + 1 ELSE @]

(* The end of one round of the merge: s after the TLV, the entry, or first  *)
(* the TLV and then the entry have been passed.                             *)
Advance(s, tlvs, entries) ==
  LET TlvOrder(i)   == IF i \in DOMAIN tlvs THEN tlvs[i].order ELSE TLVTYPE_ORDER_INFINITE
      EntryAt(i)    == IF i \in DOMAIN entries THEN EntryOrder(entries[i])
                       ELSE TLVTYPE_ORDER_INFINITE
      ti == IF TlvOrder(s.ti) <= EntryAt(s.ei) /\ s.ti \in DOMAIN tlvs THEN s.ti + 1 ELSE s.ti
  IN [s EXCEPT !.ti = ti, !.ei = IF EntryAt(s.ei) < TlvOrder(ti) THEN @ + 1 ELSE @]

(* s after the entry and the TLV at hand have been compared; r is what the  *)
(* TLV callback returned.  An entry keeps its first TLV.                    *)
NoteEntry(c, tlvs, r, s) ==
  LET isTlv   == rd.ti \in DOMAIN tlvs
      entry   == c.entries[rd.ei]
      old     == rd.found[rd.ei]
      reached == /\ rd.ei \in DOMAIN c.entries
                 /\ isTlv => EntryOrder(entry) <= tlvs[rd.ti].order
      match   == /\ isTlv /\ index_match(c, tlvs[rd.ti])
                 /\ r # PBB_DROP_TLV /\ EntryMatches(entry, tlvs[rd.ti])
  IN [s EXCEPT !.missing = @ \/ (reached /\ entry.mandatory /\ ~match),
               !.found = IF reached /\ match
                         THEN [@ EXCEPT ![rd.ei] = IF old.tlv = 0 THEN [old EXCEPT !.tlv = rd.ti]
                                                   ELSE [old EXCEPT !.dup = TRUE]]
                         ELSE @]

(* One round of the merge of TLVs and entries.                              *)
MatchTlv ==
  /\ rd.stage = "tlvs"
  /\ LET c       == Consumers[rd.ci]
         tlvs    == Tlvs(c)
         indexed == rd.ti \in DOMAIN tlvs /\ index_match(c, tlvs[rd.ti])
         d       == IF indexed THEN c ELSE [c EXCEPT !.callbacks = {}]
     IN /\ rd.ti \in DOMAIN tlvs \/ rd.ei \in DOMAIN c.entries
        /\ \E r \in Results(d, "tlv") :
             LET s    == [rd EXCEPT !.result = IF r = PBB_DROP_TLV THEN PBB_OKAY ELSE r,
                                    !.drops = Drops(r)]
                 next == Advance(NoteEntry(c, tlvs, r, s), tlvs, c.entries)
             IN /\ Called(d, "tlv", r, {rd.ti})
                /\ rd' = CASE r = PBB_OKAY -> next
                           [] r = PBB_DROP_TLV -> DropTlvs(c, next, {rd.ti})
                           [] OTHER -> AfterConsumer(c, s)

(* Both lists are at their end: the block callback, which may drop some of  *)
(* the TLVs found.                                                          *)
HandleBlock ==
  /\ rd.stage = "tlvs"
  /\ LET c == Consumers[rd.ci]
         found == {rd.found[e].tlv : e \in DOMAIN rd.found} \ {0}
     IN /\ rd.ti > Len(Tlvs(c)) /\ rd.ei > Len(c.entries)
        /\ \E r \in Results(c, "block") :
             LET s == [rd EXCEPT !.drops = Drops(r),
                                 !.result = IF r = PBB_DROP_TLV THEN PBB_OKAY ELSE r]
             IN \E T \in IF r = PBB_DROP_TLV THEN SUBSET found ELSE {{}} :
                     /\ Called(c, "block", r, T)
                     /\ rd' = AfterConsumer(c, DropTlvs(c, s, T))

-----------------------------------------------------------------------------
(* The reader with its history.                                             *)

(* The address of consumer c's context.                                     *)
Place(c) == IF c.kind = "address" THEN <<rd.bi, rd.ai>> ELSE <<0, 0>>

(* What is no longer to be seen after the callback of this step.            *)
Dropped ==
  LET c == call'.consumer
      TlvOf(t) == <<"tlv", c.kind, Place(c), t>>
  IN CASE call'.cb \in {"none", "forward"} -> {}
       [] call'.cb \notin {"none", "forward"} ->
            CASE call'.result = PBB_DROP_PACKET -> {<<"packet">>, <<"message">>, <<"forward">>}
              [] call'.result = PBB_DROP_MESSAGE -> {<<"message">>, <<"forward">>}
              [] call'.result = PBB_DROP_MSG_BUT_FORWARD -> {<<"message">>}
              [] call'.result = PBB_DROP_ADDRESS -> {<<"address", Place(c)>>}
              [] call'.result = PBB_DROP_TLV -> {TlvOf(t) : t \in call'.tlvs}
              [] OTHER -> {}

(* What of the packet's history is still about the next message.            *)
Lasting == {g \in gone : g[1] = "packet" \/ (g[1] = "tlv" /\ g[2] = "packet")}

History ==
  /\ open' = CASE call'.cb = "start" -> IF "end" \in call'.consumer.callbacks
                                         THEN Append(open, call'.consumer) ELSE open
               [] call'.cb = "end" -> IF "start" \notin call'.consumer.callbacks THEN open
                                       ELSE IF open # << >> /\ Last(open) = call'.consumer
                                       THEN Front(open) ELSE Append(open, call'.consumer)
               [] OTHER -> open
  /\ gone' = CASE rd'.stage = "idle" -> {}
               [] rd'.stage = "message" /\ rd.stage = "cleanup" -> Lasting
               [] OTHER -> gone \cup Dropped
  /\ seen' = CASE rd'.stage # "tlvs" -> << >>
               [] rd'.stage = "tlvs" /\ call'.cb = "tlv" -> Append(seen, rd.ti)
               [] OTHER -> seen

Init ==
  rd = Idle /\ call = NoCall /\ open = << >> /\ gone = {} /\ seen = << >>

Arrive(b, f) == handle_packet(b, f) /\ History

Step ==
  /\ \/ StartPacketConsumer \/ PacketConsumersDone
     \/ ParseTlv \/ TlvBlockParsed \/ ReadMessage \/ ReadAddressBlock \/ MessageRead
     \/ MessagesDone \/ EndPacketConsumer \/ PacketDone
     \/ SkipConsumer \/ EndOrder \/ StartMessageConsumer \/ StartAddressConsumer
     \/ ConsumersDone \/ EndMessageConsumer \/ EndMessageDone \/ MessageDone
     \/ SkipAddress \/ StartAddress \/ EndAddress \/ MatchTlv \/ HandleBlock
  /\ History

Next == (\E b \in Datagrams, f \in Failures : Arrive(b, f)) \/ Step

(* The reader is a function call: once called it runs to its end.           *)
Spec == Init /\ [][Next]_vars /\ WF_vars(Step)

-----------------------------------------------------------------------------

(* Every context that a consumer was told of by its start callback is ended *)
(* by its end callback, innermost first, whatever the callbacks drop and    *)
(* wherever the datagram turns out to be broken: when a message is done     *)
(* only packet contexts are open, and when the packet is none, and nothing  *)
(* that was allocated for it is left.  It is so where the consumers are     *)
(* sorted (SortedConsumers): schedule_end_message_cbs() does not look at    *)
(* the kind of the consumers between the first and the last one.            *)
Bracketed ==
  /\ rd.stage = "message" => \A i \in DOMAIN open : open[i].kind = "packet"
  /\ rd.stage = "idle" => open = << >> /\ rd.held = 0

(* What a consumer has dropped is not shown to the consumers after it: no   *)
(* start, TLV or block callback is made for a dropped packet, message or    *)
(* address, no TLV callback for a dropped TLV of that address, and a        *)
(* message that was dropped altogether is not forwarded.                    *)
DropsRespected ==
  [][LET c == call'.consumer
     IN /\ call'.cb = "forward" => <<"forward">> \notin gone
        /\ call'.cb \in {"start", "tlv", "block"} =>
             /\ <<"packet">> \notin gone
             /\ c.kind # "packet" => <<"message">> \notin gone
             /\ <<"address", Place(c)>> \notin gone
             /\ call'.cb = "tlv" =>
                  \A t \in call'.tlvs : <<"tlv", c.kind, Place(c), t>> \notin gone]_vars

(* The merge of TLVs and entries loses nothing.  When both lists are at     *)
(* their end, every TLV that applies to the address and was not dropped has *)
(* been passed to the TLV callback, in order, and just once if the consumer *)
(* has no entries; and an entry for one extended type holds the first such  *)
(* TLV, if there is one, and knows whether there was another.               *)
TlvDelivery ==
  rd.stage = "tlvs" =>
    LET c    == Consumers[rd.ci]
        tlvs == Tlvs(c)
        visible == {t \in DOMAIN tlvs : index_match(c, tlvs[t])}
    IN rd.ti > Len(tlvs) /\ rd.ei > Len(c.entries) =>
         /\ "tlv" \in c.callbacks =>
              /\ visible \subseteq Range(seen)
              /\ \A i \in 1..Len(seen) - 1 :
                   seen[i] < seen[i + 1] \/ (c.entries # << >> /\ seen[i] = seen[i + 1])
         /\ \A e \in DOMAIN c.entries :
              LET mine == {t \in visible : tlvs[t].order = EntryOrder(c.entries[e])}
              IN c.entries[e].match_ext =>
                   /\ rd.found[e].tlv = IF mine = {} THEN 0
                                        ELSE CHOOSE t \in mine : \A u \in mine : t <= u
                   /\ rd.found[e].dup <=> Cardinality(mine) > 1

(* Every datagram is handled to its end, unless parse_tlv() divides by zero *)
(* (SIGFPE): no other header, size or combination of TLVs and entries makes *)
(* the reader loop.                                                         *)
HandlingEnds == rd.stage # "idle" ~> rd.stage = "idle"
=============================================================================
