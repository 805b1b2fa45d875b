----------------------------- MODULE PbbWriter -----------------------------
(***************************************************************************)
(* The packetbb writer (lib/packetbb/pbb_*writer.c, pbb_*generator.c) with *)
(* one interface, one registered message type and no packet handlers, as   *)
(* bprd uses it: what each call does to the writer, and the bytes that     *)
(* come out.  Nothing is allocated ahead (pbb_writer_allocate_*tlv()) and  *)
(* addresses have no TLVs.  The build defines neither DO_ADDR_COMPRESSION  *)
(* nor CLEAR_ADDRESS_POSTFIX: every address is a block of its own.         *)
(*                                                                         *)
(* BYTE stands for the 256 values of a byte, as in PbbReader.              *)
(***************************************************************************)
EXTENDS Integers, Sequences, SequencesExt

CONSTANTS
  BYTE,     \* 256
  Mtu,      \* the bytes of the writer's and of the interface's buffer
  MsgType,  \* the message type that is registered
  AddrLen   \* its address length

U16(n) == <<n \div BYTE, n % BYTE>>

(* How many bytes an optional field of n bytes takes; the bytes it writes.  *)
Size(present, n) == IF present THEN n ELSE 0
Field(present, bytes) == IF present THEN bytes ELSE << >>

-----------------------------------------------------------------------------
(* TLVs are collected in a buffer [header, added, max]: the bytes reserved  *)
(* for the header, those of the TLVs so far, and the limit for both.        *)

tlv_writer_init(max) == [header |-> 0, added |-> << >>, max |-> max]

calc_tlv_size(exttype, length) ==
  2 + Size(exttype # 0, 1) + length +
      CASE length >= BYTE -> 2 [] length \in 1..BYTE - 1 -> 1 [] OTHER -> 0

(* A TLV of all addresses (idx1 = 0, idx2 = 255).                           *)
write_tlv(type, exttype, value) ==
  LET length == Len(value)
      flags  == Size(exttype # 0, 128) + Size(length >= BYTE, 8) + Size(length > 0, 16)
  IN <<type, flags>> \o Field(exttype # 0, <<exttype>>)
       \o Field(length >= BYTE, <<length \div BYTE>>)
       \o Field(length > 0, <<length % BYTE>>) \o value

(* A TLV that does not fit is left out.                                     *)
tlv_writer_add(data, type, exttype, value) ==
  IF data.header + Len(data.added) + calc_tlv_size(exttype, Len(value)) > data.max THEN data
  ELSE [data EXCEPT !.added = @ \o write_tlv(type, exttype, value)]

-----------------------------------------------------------------------------
(* Packets.  A writer is [pkt, bin_msgs, is_flushed, msg, head, addrs,      *)
(* out]: the packet's buffer and the messages in it, the message's buffer,  *)
(* header fields and addresses, and the packets passed to sendPacket().     *)

(* The header fields of a message; "has" names those it will have.          *)
NoFields == [has |-> {}, orig |-> << >>, hoplimit |-> 0, hopcount |-> 0, seqno |-> 0]

writer_init ==
  [pkt |-> tlv_writer_init(Mtu), bin_msgs |-> << >>, is_flushed |-> TRUE,
   msg |-> tlv_writer_init(0), head |-> NoFields, addrs |-> << >>, out |-> << >>]

(* The header of an empty packet: flags and, always, a TLV block length.    *)
set_pkt_header(pkt) == [pkt EXCEPT !.header = 3]

begin_packet(w) == [w EXCEPT !.pkt = set_pkt_header(tlv_writer_init(Mtu)), !.is_flushed = FALSE]

write_pktheader(pkt) ==
  LET hasTlv == pkt.added # << >>
  IN <<Size(hasTlv, 4)>> \o Field(hasTlv, U16(Len(pkt.added)))

pbb_writer_flush(w, force) ==
  LET s == IF w.is_flushed THEN begin_packet(w) ELSE w
  IN IF w.is_flushed /\ ~force THEN w
     ELSE [s EXCEPT !.out = Append(@, write_pktheader(s.pkt) \o s.pkt.added \o s.bin_msgs),
                    !.bin_msgs = << >>, !.is_flushed = TRUE]

-----------------------------------------------------------------------------
(* Messages.  pbb_writer_create_message() is begin_message(), then the      *)
(* callbacks, then finish_message().                                        *)

(* Type, flags, size and TLV block length are always there.                 *)
set_msg_header(w, has) ==
  [w EXCEPT !.head.has = has,
            !.msg.header = 6 + Size("originator" \in has, AddrLen) + Size("hoplimit" \in has, 1)
                             + Size("hopcount" \in has, 1) + Size("seqno" \in has, 2)]

(* The message gets what the packet's header leaves, at most the message    *)
(* MTU.                                                                     *)
begin_message(w) ==
  LET s    == IF w.is_flushed THEN begin_packet(w) ELSE w
      left == Mtu - s.pkt.header - Len(s.pkt.added)
  IN set_msg_header([s EXCEPT !.msg = tlv_writer_init(left)], {})

set_msg_originator(w, addr) == [w EXCEPT !.head.orig = addr]

set_msg_seqno(w, seqno) == [w EXCEPT !.head.seqno = seqno]

add_messagetlv(w, type, exttype, value) ==
  [w EXCEPT !.msg = tlv_writer_add(@, type, exttype, value)]

(* An address is added once.                                                *)
add_address(w, addr, prefixlen) ==
  IF \E i \in DOMAIN w.addrs : w.addrs[i].addr = addr THEN w
  ELSE [w EXCEPT !.addrs = Append(@, [addr |-> addr, prefixlen |-> prefixlen])]

special_prefixlen(a) == a.prefixlen # AddrLen * 8

(* What _compress_address() reckons for an address.  Without compression    *)
(* the sum over the addresses starts again with each of them.               *)
new_cost(a) == 2 + AddrLen + Size(special_prefixlen(a), 1)

(* The addresses up to the first that would not fit into a message alone.   *)
FittingAddresses(w) ==
  LET first == SelectInSeq(w.addrs, LAMBDA a : new_cost(a) > w.msg.max)
  IN IF first = 0 THEN w.addrs ELSE SubSeq(w.addrs, 1, first - 1)

write_addresses(addrs) ==
  FlattenSeq([i \in DOMAIN addrs |->
    <<1, Size(special_prefixlen(addrs[i]), 16)>> \o addrs[i].addr
      \o Field(special_prefixlen(addrs[i]), <<addrs[i].prefixlen>>) \o U16(0)])

(* Mutant: the size leaves out the address blocks.                          *)
write_msgheader_without_addresses(w, binAddrSize) ==
  LET Has(f) == f \in w.head.has
  IN <<MsgType, AddrLen - 1 + Size(Has("originator"), 128) + Size(Has("hoplimit"), 64)
                  + Size(Has("hopcount"), 32) + Size(Has("seqno"), 16)>>
       \o U16(w.msg.header + Len(w.msg.added))
       \o Field(Has("originator"), w.head.orig) \o Field(Has("hoplimit"), <<w.head.hoplimit>>)
       \o Field(Has("hopcount"), <<w.head.hopcount>>)
       \o Field(Has("seqno"), U16(w.head.seqno)) \o U16(Len(w.msg.added))

(* The header of a message whose address blocks take binAddrSize bytes.     *)
write_msgheader(w, binAddrSize) ==
  LET Has(f) == f \in w.head.has
  IN <<MsgType, AddrLen - 1 + Size(Has("originator"), 128) + Size(Has("hoplimit"), 64)
                  + Size(Has("hopcount"), 32) + Size(Has("seqno"), 16)>>
       \o U16(w.msg.header + Len(w.msg.added) + binAddrSize)
       \o Field(Has("originator"), w.head.orig) \o Field(Has("hoplimit"), <<w.head.hoplimit>>)
       \o Field(Has("hopcount"), <<w.head.hopcount>>)
       \o Field(Has("seqno"), U16(w.head.seqno)) \o U16(Len(w.msg.added))

(* The message of w with these addresses.                                   *)
MessageBytes(w, addrs) ==
  LET blocks == write_addresses(addrs)
  IN write_msgheader(w, Len(blocks)) \o w.msg.added \o blocks

(* A message that does not go into the packet with the others makes the     *)
(* packet so far be sent first.                                             *)
finalize_message(w, addrs) ==
  LET bytes == MessageBytes(w, addrs)
      full  == w.pkt.header + Len(w.pkt.added) + Len(w.bin_msgs) + Len(bytes) > w.pkt.max
      s     == IF full THEN begin_packet(pbb_writer_flush(w, FALSE)) ELSE w
  IN [s EXCEPT !.bin_msgs = @ \o bytes]

(* Whether a message is written at all: one whose first address is longer   *)
(* than a message is given up.                                              *)
Finalizes(w) == w.addrs = << >> \/ FittingAddresses(w) # << >>

(* Whether it is written beyond the end of a buffer of Mtu bytes.  What     *)
(* happens then is undefined: nothing in this build looks at the sum of     *)
(* header, TLVs and addresses before they are written.                      *)
Overruns(w) ==
  Finalizes(w) /\ 3 + Len(MessageBytes(w, FittingAddresses(w))) > Mtu

(* The end of pbb_writer_create_message(): the message goes into the packet *)
(* and its addresses are freed.                                             *)
finish_message(w) ==
  LET s == IF Finalizes(w) THEN finalize_message(w, FittingAddresses(w)) ELSE w
  IN [s EXCEPT !.addrs = << >>]
=============================================================================
