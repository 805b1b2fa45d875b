---------------------------- MODULE MCHelloPath ----------------------------
(* Stations, commodities and hellos for checking HelloPath.                 *)
EXTENDS HelloPath

MCMe == <<1, 1>>
MCYou == <<1, 2>>
Third == <<2, 1>>

Commodity(id, b) == [addr |-> [addr |-> <<3, id>>, prefix_len |-> 16], backlog |-> b]

(* One commodity; and three, of which a hello has room for two.             *)
MCCommodityLists == {<<Commodity(1, 0)>>, [i \in 1..3 |-> Commodity(i, 0)]}

(* The neighbors of the sender: a third station, or that one and this one,  *)
(* which together with two commodities are too many for a message.        *)
MCNeighborLists == {<<Third>>, <<Third, MCMe>>}

(* A hello of another station, which lists the sender.                      *)
MCOthers == {[orig |-> Third, seqno |-> 5, coms |-> <<Commodity(2, 4)>>, nbrs |-> <<MCYou>>]}

(* Messages of the hello's type that other programs might send: with a       *)
(* message TLV of another type; without an originator; with a TLV of an      *)
(* address.                                                                 *)
Sent(w) == pbb_writer_flush(finish_message(w), FALSE).out[1]

OtherTlv ==
  Sent(add_messagetlv(hello_add_msg_header(begin_message(writer_init), Third),
                      BPRD_MSGTLV_TYPE_COM + 1, 0, <<1>>))

NoOriginator == Sent(set_msg_header(begin_message(writer_init), {"seqno"}))

AddressTlv ==
  <<0, MsgType, 128 + AddrLen - 1>> \o U16(16) \o Third \o U16(0)
     \o <<1, 0>> \o MCMe \o U16(2) \o <<3, 0>>

MCForeign == {OtherTlv, NoOriginator, AddressTlv}
=============================================================================
