---------------------------- MODULE MCPbbReader ----------------------------
(* Datagrams and consumers for checking PbbReader.                          *)
EXTENDS PbbReader

(* The drops each callback may ask for.  The result of a packet's end       *)
(* callback is ignored by the reader.                                       *)
MCReturns ==
  [packet  |-> [start |-> {PBB_OKAY, PBB_DROP_PACKET},
                tlv   |-> {PBB_OKAY, PBB_DROP_TLV, PBB_DROP_PACKET},
                block |-> {PBB_OKAY, PBB_DROP_TLV}],
   message |-> [start |-> {PBB_OKAY, PBB_DROP_MESSAGE},
                tlv   |-> {PBB_OKAY, PBB_DROP_TLV, PBB_DROP_PACKET},
                block |-> {PBB_OKAY, PBB_DROP_TLV, PBB_DROP_MSG_BUT_FORWARD},
                end   |-> {PBB_OKAY, PBB_DROP_MESSAGE}],
   address |-> [start |-> {PBB_OKAY, PBB_DROP_ADDRESS},
                tlv   |-> {PBB_OKAY, PBB_DROP_TLV, PBB_DROP_ADDRESS},
                block |-> {PBB_OKAY, PBB_DROP_TLV, PBB_DROP_MESSAGE},
                end   |-> {PBB_OKAY, PBB_DROP_ADDRESS, PBB_DROP_PACKET}]]

Everything == {"start", "tlv", "block", "end"}

Entry(type, ext, match_ext, mandatory) ==
  [type |-> type, ext |-> ext, match_ext |-> match_ext, mandatory |-> mandatory]

Consumer(kind, order, msg_id, entries, callbacks) ==
  [kind |-> kind, order |-> order, msg_id |-> msg_id, entries |-> entries,
   callbacks |-> callbacks]

(* Two packet consumers; for messages of type 1, two orders that each have  *)
(* a message and an address consumer, registered first in one order and     *)
(* last in the other; and a consumer of another type between two of the     *)
(* same order.                                                              *)
MCRegistered == <<
  Consumer("packet", 1, 0, << >>, {"start", "tlv", "end"}),
  Consumer("address", 1, 1, << >>, {"start", "tlv", "end"}),
  Consumer("message", 1, 1, <<Entry(2, 0, FALSE, FALSE), Entry(1, 1, TRUE, TRUE),
                              Entry(1, 1, TRUE, FALSE)>>, Everything),
  Consumer("message", 1, 2, << >>, {"start", "end"}),
  Consumer("message", 1, AnyType, << >>, {"start", "end"}),
  Consumer("message", 2, AnyType, <<Entry(2, 0, TRUE, TRUE)>>, {"tlv"}),
  Consumer("address", 2, AnyType, <<Entry(1, 0, TRUE, FALSE)>>, {"start", "block", "end"}),
  Consumer("packet", 2, 0, <<Entry(1, 0, TRUE, FALSE), Entry(3, 0, TRUE, TRUE)>>, Everything) >>

(* Of one order, for messages of type 1: a message consumer, then an        *)
(* address consumer, then a message consumer.                               *)
MCMixed == <<
  Consumer("message", 1, 1, << >>, {"start", "end"}),
  Consumer("address", 1, 1, << >>, {"start", "end"}),
  Consumer("message", 1, 1, << >>, {"start", "end"}) >>

U16(n) == <<n \div BYTE, n % BYTE>>

TlvBlock(tlvs) == U16(Len(tlvs)) \o tlvs

Message(type, flags, header, body) ==
  <<type, flags>> \o U16(4 + Len(header) + Len(body)) \o header \o body

(* A TLV without a value, one with a short and one with a long length, an   *)
(* extended type.                                                           *)
Bare(t) == <<t, 0>>
Short(t) == <<t, 16, 1, 9>>
Long(t) == <<t, 24, 0, 1, 9>>
Extended(t, e) == <<t, 128, e>>

(* Unsorted packet TLVs with a duplicate; two messages.                     *)
PacketTlvs ==
  <<12, 0, 1>> \o TlvBlock(Bare(3) \o Short(1) \o Bare(1))
    \o Message(2, 33, <<0>>, TlvBlock(<< >>))
    \o Message(1, 113, <<5, 1, 0, 7>>, TlvBlock(Long(2) \o Extended(1, 1) \o Extended(1, 1)))

(* Two address blocks: head, full tail and one prefix length, then zero     *)
(* tail and a prefix length for each address; TLVs for one address and, as  *)
(* one with several values, for a range of them.                            *)
Addresses ==
  <<0>> \o Message(1, 162, <<1, 2, 3, 0>>,
     TlvBlock(Bare(2))
     \o <<2, 208, 1, 7, 1, 8, 4, 5, 24>> \o TlvBlock(<<1, 64, 1>> \o <<2, 52, 0, 1, 2, 9, 9>>)
     \o <<1, 40, 1, 4, 4, 16>> \o TlvBlock(Short(1)))

(* A datagram for each error that a flag or a length can be.                *)
Broken == {
  <<16>>,
  <<0>> \o Message(1, 0, << >>, TlvBlock(<<1, 96>>)),
  <<0>> \o Message(1, 0, << >>, TlvBlock(<<1, 8, 1>>)),
  <<0>> \o Message(1, 0, << >>, TlvBlock(<<1, 52, 0, 1, 3, 9, 9, 9>>)),
  <<0>> \o Message(1, 0, << >>, TlvBlock(<< >>) \o <<0, 0>>),
  <<0>> \o Message(1, 0, << >>, TlvBlock(<< >>) \o <<1, 96, 0, 4>>),
  <<0>> \o Message(1, 0, << >>, TlvBlock(<< >>) \o <<1, 24, 4>>) }

MCDatagrams == Prefixes(PacketTlvs) \cup Prefixes(Addresses) \cup Broken
=============================================================================
