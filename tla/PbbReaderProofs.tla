-------------------------- MODULE PbbReaderProofs --------------------------
(***************************************************************************)
(* Proof that the packetbb reader respects what its consumers drop, for   *)
(* any datagram, any consumers and any results of their callbacks.        *)
(*                                                                         *)
(* What a callback drops is remembered by the reader in three places: the *)
(* result of the context, the dropped addresses of an address block and   *)
(* the dropped indices of a TLV.  The inductive invariant says, for each  *)
(* of them, that everything in the history of drops is still remembered   *)
(* there until it can no longer be shown to anybody.                      *)
(***************************************************************************)
EXTENDS PbbReader, FiniteSetTheorems, SequenceTheorems, TLAPS

(* The fields of the reader's state. *)
Fields == {"stage", "buf", "ptr", "result", "used", "fail", "held", "drops",
           "has_tlv", "ptlvs", "msg", "tlvs", "blk", "limit", "eob", "ci", "bi", "ai",
           "ti", "ei", "found", "missing", "first", "last", "down"}

(* Lists of TLVs and of address blocks, in which drops are remembered. *)
IsSeq(l) == l \in Seq({l[i] : i \in DOMAIN l})
TlvList(l) == \A i \in DOMAIN l : "drop" \in DOMAIN l[i]
IsBlock(b) == {"tlvs", "drop"} \subseteq DOMAIN b
BlockList(l) == IsSeq(l) /\ \A i \in DOMAIN l : IsBlock(l[i]) /\ TlvList(l[i].tlvs)
IsMessage(m) == {"tlvs", "blocks"} \subseteq DOMAIN m /\ TlvList(m.tlvs) /\ BlockList(m.blocks)

(* The shape of the reader's state. *)
Shape(s) ==
  /\ DOMAIN s = Fields
  /\ s.drops \in Nat /\ s.bi \in Nat
  /\ s.first \in Nat /\ s.last \in 0..Len(MessageConsumers)
  /\ TlvList(s.ptlvs)
  /\ s.msg # NoMsg => IsMessage(s.msg)
  /\ s.stage = "parse" =>
       /\ IsSeq(s.tlvs) /\ TlvList(s.tlvs)
       /\ s.blk # << >> => IsBlock(s.blk[1])
  /\ s.stage # "parse" => s.blk = << >>

(* Where the reader is in the datagram, and with which consumer. *)
Position(s) ==
  /\ s.stage \in {"idle", "packet", "message", "endpkt"} => s.msg = NoMsg
  /\ s.stage \in {"blocks", "consumer", "address", "addrend", "endmsg", "cleanup"}
       => s.msg # NoMsg
  /\ s.stage # "idle" => s.ci \in Nat \ {0}
  /\ s.stage \in {"address", "addrend"} =>
       /\ s.ci <= Len(MessageConsumers) /\ MessageConsumers[s.ci].kind = "address"
       /\ s.bi > 0
  /\ s.stage = "addrend" => s.bi \in DOMAIN s.msg.blocks
  /\ s.stage = "tlvs" /\ s.msg = NoMsg => s.ci <= Len(PacketConsumers)
  /\ s.stage = "tlvs" /\ s.msg # NoMsg =>
       /\ s.ci <= Len(MessageConsumers)
       /\ MessageConsumers[s.ci].kind = "address" =>
            /\ s.bi > 0
            /\ s.bi \in DOMAIN s.msg.blocks
            /\ s.ai \notin s.msg.blocks[s.bi].drop
  /\ s.stage = "endmsg" => s.first # 0 /\ s.down \in Int /\ s.down <= Len(MessageConsumers)

(* The results with which a stage is reached. *)
Outcome(s) ==
  /\ s.stage \in {"packet", "tlvs", "parse", "blocks", "consumer", "address"}
       => s.result = PBB_OKAY
  /\ s.stage \in {"addrend", "endmsg"} => s.result \in PBB_OKAY..PBB_DROP_PACKET

(* A dropped packet or message is remembered by the result. *)
ContextsRemembered(s, g) ==
  /\ <<"packet">> \in g => s.result = PBB_DROP_PACKET
  /\ <<"message">> \in g =>
       s.result \in {PBB_DROP_MSG_BUT_FORWARD, PBB_DROP_MESSAGE, PBB_DROP_PACKET}
  /\ <<"forward">> \in g => s.result \in {PBB_DROP_MESSAGE, PBB_DROP_PACKET}

(* A dropped address is remembered by its block: at the latest when its end *)
(* callback has been made, unless the whole message is done with.           *)
InBlock(s, b, a) ==
  s.msg # NoMsg /\ b \in DOMAIN s.msg.blocks /\ a \in s.msg.blocks[b].drop

AddressesRemembered(s, g) ==
  /\ \A b, a : <<"address", <<b, a>>>> \in g =>
       /\ s.result = PBB_OKAY => InBlock(s, b, a)
       /\ s.stage = "addrend" /\ s.result \in {PBB_DROP_TLV, PBB_DROP_ADDRESS} =>
            InBlock(s, b, a) \/ (b = s.bi /\ a = s.ai)
  /\ s.stage \in {"parse", "blocks"} => \A b, a : <<"address", <<b, a>>>> \notin g

(* A dropped TLV is remembered by itself, for each address. *)
TlvsRemembered(s, g) ==
  /\ \A t : <<"tlv", "packet", <<0, 0>>, t>> \in g /\ t \in DOMAIN s.ptlvs
       => 0 \in s.ptlvs[t].drop
  /\ \A t : <<"tlv", "message", <<0, 0>>, t>> \in g =>
       /\ s.msg # NoMsg /\ s.stage \notin {"parse", "blocks"}
       /\ t \in DOMAIN s.msg.tlvs => 0 \in s.msg.tlvs[t].drop
  /\ \A b, a, t : <<"tlv", "address", <<b, a>>, t>> \in g =>
       /\ s.msg # NoMsg /\ s.stage \notin {"parse", "blocks"}
       /\ b \in DOMAIN s.msg.blocks /\ t \in DOMAIN s.msg.blocks[b].tlvs =>
            a \in s.msg.blocks[b].tlvs[t].drop

(* Nothing is dropped yet. *)
NothingYet(s, g) ==
  s.stage = "idle" \/ (s.stage = "parse" /\ s.msg = NoMsg) => g = {}

Inv(s, g) ==
  /\ Shape(s) /\ Position(s) /\ Outcome(s)
  /\ ContextsRemembered(s, g) /\ AddressesRemembered(s, g) /\ TlvsRemembered(s, g)
  /\ NothingYet(s, g)

-----------------------------------------------------------------------------
(* What the history records of a step without a callback. *)
LEMMA SilentHistory ==
  ASSUME Silent, History
  PROVE  /\ rd'.stage = "idle" => gone' = {}
         /\ rd'.stage # "idle" /\ ~(rd'.stage = "message" /\ rd.stage = "cleanup")
              => gone' = gone
  <1>1. Dropped = {}
    BY DEF Silent, NoCall, Dropped
  <1> QED
    BY <1>1 DEF History

(* A step that changes neither the message, the result nor the packet's     *)
(* TLVs keeps what is remembered.                                           *)
LEMMA FrameInv ==
  ASSUME NEW s, NEW u, NEW g, Inv(s, g),
         Shape(u), Position(u), Outcome(u),
         u.result = s.result, u.msg = s.msg, u.ptlvs = s.ptlvs,
         u.stage \notin {"idle", "addrend"},
         u.stage \in {"parse", "blocks"} => u.stage = s.stage
  PROVE  Inv(u, g)
  <1>1. ContextsRemembered(u, g)
    BY DEF Inv, ContextsRemembered
  <1>2. AddressesRemembered(u, g)
    BY DEF Inv, AddressesRemembered, InBlock
  <1>3. TlvsRemembered(u, g)
    BY DEF Inv, TlvsRemembered
  <1> QED
    BY <1>1, <1>2, <1>3 DEF Inv, NothingYet

(* No drop of a packet, a message or anything in a message. *)
Clean(g) ==
  /\ g \cap {<<"packet">>, <<"message">>, <<"forward">>} = {}
  /\ \A b, a : <<"address", <<b, a>>>> \notin g
  /\ \A t : <<"tlv", "message", <<0, 0>>, t>> \notin g
  /\ \A b, a, t : <<"tlv", "address", <<b, a>>, t>> \notin g

(* While a message is parsed, and between messages, nothing in it is        *)
(* dropped: no consumer has seen it.                                        *)
LEMMA CleanBetween ==
  ASSUME NEW s, NEW g, Inv(s, g), s.result = PBB_OKAY,
         s.msg = NoMsg \/ s.stage \in {"parse", "blocks"}
  PROVE  Clean(g)
  BY DEF Inv, Clean, ContextsRemembered, AddressesRemembered, TlvsRemembered, InBlock,
         PBB_OKAY, PBB_DROP_PACKET, PBB_DROP_MESSAGE, PBB_DROP_MSG_BUT_FORWARD

(* Then the message may change. *)
LEMMA CleanInv ==
  ASSUME NEW s, NEW u, NEW g, Inv(s, g), Clean(g),
         Shape(u), Position(u), Outcome(u), NothingYet(u, g), u.ptlvs = s.ptlvs
  PROVE  Inv(u, g)
  <1>1. ContextsRemembered(u, g) /\ AddressesRemembered(u, g)
    BY DEF Clean, ContextsRemembered, AddressesRemembered
  <1>2. TlvsRemembered(u, g)
    BY DEF Clean, TlvsRemembered, Inv
  <1> QED
    BY <1>1, <1>2 DEF Inv

(* With an empty history nothing need be remembered. *)
LEMMA EmptyInv ==
  ASSUME NEW u, Shape(u), Position(u), Outcome(u)
  PROVE  Inv(u, {})
  BY DEF Inv, ContextsRemembered, AddressesRemembered, TlvsRemembered, NothingYet

(* The empty sequence is a list of TLVs and of address blocks. *)
LEMMA EmptyLists == IsSeq(<< >>) /\ TlvList(<< >>) /\ BlockList(<< >>)
  BY DEF IsSeq, TlvList, BlockList

(* A state without a packet. *)
LEMMA IdleInv ==
  ASSUME NEW u, DOMAIN u = Fields, u.stage = "idle", u.drops = 0, u.bi = 0,
         u.first = 0, u.last = 0, u.ptlvs = << >>, u.msg = NoMsg, u.blk = << >>
  PROVE  Inv(u, {})
  <1>1. Shape(u) /\ Position(u) /\ Outcome(u)
    BY EmptyLists, ConsumersAssumption DEF Shape, Position, Outcome
  <1> QED
    BY <1>1, EmptyInv

-----------------------------------------------------------------------------
(* Parsing.                                                                 *)

(* The size of an initial segment of the numbers. *)
LEMMA SegmentSize ==
  ASSUME NEW k \in Nat
  PROVE  IsFiniteSet(1..k) /\ Cardinality(1..k) = k
  <1>1. IsFiniteSet(1..k) /\ Cardinality(1..k) = IF 1 > k THEN 0 ELSE k - 1 + 1
    BY FS_Interval
  <1>2. CASE k = 0
    BY <1>1, <1>2
  <1>3. CASE k # 0
    <2>1. ~(1 > k) /\ k - 1 + 1 = k
      BY <1>3
    <2> QED
      BY <1>1, <2>1, Zenon
  <1> QED
    BY <1>2, <1>3

(* What a sequence holds. *)
LEMMA SeqElements ==
  ASSUME NEW S, NEW q \in Seq(S)
  PROVE  /\ \A i \in DOMAIN q : q[i] \in S
         /\ IsSeq(q)
  <1>1. \A i \in DOMAIN q : q[i] \in S
    OBVIOUS
  <1>2. Range(q) = {q[i] : i \in DOMAIN q}
    BY DEF Range
  <1> QED
    BY <1>1, <1>2, SeqOfRange DEF IsSeq

(* The TLV tree of a block after an insertion holds TLVs. *)
LEMMA InsertedTlv ==
  ASSUME NEW l, NEW x, IsSeq(l), TlvList(l), "drop" \in DOMAIN x
  PROVE  /\ IsSeq(InsertTlv(l, x)) /\ TlvList(InsertTlv(l, x))
         /\ Len(InsertTlv(l, x)) = Len(l) + 1
  <1> DEFINE S == {l[i] : i \in DOMAIN l} \cup {x}
             before == {i \in DOMAIN l : l[i].order <= x.order}
             n == Cardinality(before)
             a == SubSeq(l, 1, n)
             b == SubSeq(l, n + 1, Len(l))
             r == a \o <<x>> \o b
  <1>1. l \in Seq(S) /\ Len(l) \in Nat /\ DOMAIN l = 1..Len(l)
    <2>1. l \in Seq({l[i] : i \in DOMAIN l})
      BY DEF IsSeq
    <2>2. Seq({l[i] : i \in DOMAIN l}) \subseteq Seq(S)
      BY SeqMonotonic
    <2> QED
      BY <2>1, <2>2
  <1>2. n \in 0..Len(l)
    <2>1. IsFiniteSet(1..Len(l)) /\ Cardinality(1..Len(l)) = Len(l)
      BY <1>1, SegmentSize
    <2>2. before \in SUBSET (1..Len(l))
      BY <1>1
    <2>3. IsFiniteSet(before) /\ n <= Len(l)
      BY <2>1, <2>2, FS_Subset
    <2>4. n \in Nat
      BY <2>3, FS_CardinalityType
    <2> QED
      BY <1>1, <2>3, <2>4
  <1>3. InsertTlv(l, x) = r
    <2>1. (1 + n) - 1 = n /\ 1 + n = n + 1
      BY <1>2
    <2> QED
      BY <2>1 DEF InsertTlv, InsertAt
  <1> HIDE DEF n, before
  <1>4. a \in Seq(S) /\ b \in Seq(S) /\ <<x>> \in Seq(S)
    BY <1>1, <1>2, SubSeqProperties
  <1>5. r \in Seq(S)
    BY <1>4, ConcatProperties
  <1>6. \A e \in S : "drop" \in DOMAIN e
    BY DEF TlvList
  <1>len. Len(r) = Len(l) + 1
    <2>0. Len(l) \in Nat /\ n \in Nat /\ n <= Len(l)
      BY <1>1, <1>2
    <2>1. Len(a) = n
      <3>1. Len(a) = IF 1 <= n THEN n - 1 + 1 ELSE 0
        BY <1>1, <1>2, SubSeqProperties
      <3> QED
        BY <1>2, <3>1
    <2>3. Len(b) = Len(l) - n
      <3>1. Len(b) = IF n + 1 <= Len(l) THEN Len(l) - (n + 1) + 1 ELSE 0
        BY <1>1, <1>2, SubSeqProperties
      <3> HIDE DEF b
      <3> QED
        BY <2>0, <3>1
    <2>4. Len(<<x>>) = 1
      OBVIOUS
    <2>2. /\ a \o <<x>> \in Seq(S) /\ Len(a \o <<x>>) = Len(a) + Len(<<x>>)
          /\ Len((a \o <<x>>) \o b) = Len(a \o <<x>>) + Len(b)
      <3> HIDE DEF a, b, S
      <3> QED
        BY <1>4, ConcatProperties
    <2>5. Len(r) = n + 1 + (Len(l) - n)
      <3> HIDE DEF a, b, S
      <3> QED
        BY <2>1, <2>2, <2>3, <2>4
    <2> HIDE DEF r
    <2> QED
      BY <2>0, <2>5
  <1> HIDE DEF r, S
  <1>7. IsSeq(r) /\ \A i \in DOMAIN r : r[i] \in S
    BY <1>5, SeqElements
  <1> QED
    BY <1>3, <1>6, <1>7, <1>len DEF TlvList

(* A list of address blocks with another block appended. *)
LEMMA AppendedBlock ==
  ASSUME NEW l, NEW x, BlockList(l), IsBlock(x), TlvList(x.tlvs)
  PROVE  BlockList(Append(l, x))
  <1> DEFINE S == {l[i] : i \in DOMAIN l} \cup {x}
             r == Append(l, x)
  <1>1. l \in Seq(S)
    <2>1. l \in Seq({l[i] : i \in DOMAIN l})
      BY DEF BlockList, IsSeq
    <2>2. Seq({l[i] : i \in DOMAIN l}) \subseteq Seq(S)
      BY SeqMonotonic
    <2> QED
      BY <2>1, <2>2
  <1>2. r \in Seq(S)
    BY <1>1, AppendProperties
  <1>3. \A e \in S : IsBlock(e) /\ TlvList(e.tlvs)
    BY DEF BlockList
  <1> HIDE DEF r, S
  <1>4. IsSeq(r) /\ \A i \in DOMAIN r : r[i] \in S
    BY <1>2, SeqElements
  <1> QED
    BY <1>3, <1>4 DEF BlockList, r

(* What the parsers return when they do not fail. *)
LEMMA ParsedTlv ==
  ASSUME NEW b, NEW ptr, NEW eob, parse_tlv(b, ptr, eob).err = PBB_OKAY
  PROVE  "drop" \in DOMAIN parse_tlv(b, ptr, eob).tlv
  BY DEF parse_tlv

LEMMA ParsedHeader ==
  ASSUME NEW b, NEW ptr, parse_msgheader(b, ptr).err = PBB_OKAY
  PROVE  /\ IsMessage(parse_msgheader(b, ptr).msg)
         /\ parse_msgheader(b, ptr).msg # NoMsg
  <1> DEFINE m == parse_msgheader(b, ptr).msg
  <1>1. /\ {"start", "tlvs", "blocks"} \subseteq DOMAIN m
        /\ m.tlvs = << >> /\ m.blocks = << >>
    BY DEF parse_msgheader, PBB_OKAY, PBB_END_OF_BUFFER
  <1>2. "start" \notin DOMAIN NoMsg
    BY DEF NoMsg
  <1> HIDE DEF m
  <1>3. m # NoMsg
    BY <1>1, <1>2
  <1> QED
    BY <1>1, <1>3, EmptyLists DEF m, IsMessage

LEMMA ParsedBlock ==
  ASSUME NEW b, NEW addrlen, NEW ptr, NEW end,
         parse_addrblock(b, addrlen, ptr, end).err = PBB_OKAY
  PROVE  IsBlock(parse_addrblock(b, addrlen, ptr, end).block)
  BY DEF parse_addrblock, IsBlock

(* An error of parsing ends the message, or the packet. *)
LEMMA ParseErrorInv ==
  ASSUME Inv(rd, gone), rd.stage \in {"parse", "blocks"}, NEW err,
         rd' = ParseError(rd, err), Silent, History
  PROVE  Inv(rd, gone)'
  <1>1. CASE rd.msg = NoMsg
    <2>1. rd' = [Idle EXCEPT !.result = err, !.held = rd.held - Len(rd.tlvs)]
      BY <1>1 DEF ParseError
    <2>2. /\ DOMAIN rd' = Fields /\ rd'.stage = "idle" /\ rd'.drops = 0 /\ rd'.bi = 0
          /\ rd'.first = 0 /\ rd'.last = 0 /\ rd'.ptlvs = << >> /\ rd'.msg = NoMsg
          /\ rd'.blk = << >>
      BY <2>1 DEF Idle, Fields
    <2> QED
      BY <2>2, IdleInv, SilentHistory
  <1>2. CASE rd.msg # NoMsg
    <2>1. /\ DOMAIN rd' = Fields /\ rd'.stage = "message" /\ rd'.drops = rd.drops
          /\ rd'.bi = rd.bi /\ rd'.ptlvs = rd.ptlvs /\ rd'.msg = NoMsg /\ rd'.ci = rd.ci
          /\ rd'.first = rd.first /\ rd'.last = rd.last /\ rd'.blk = << >>
      BY <1>2 DEF ParseError, Inv, Shape, Fields
    <2>2. gone' = gone
      BY <2>1, SilentHistory
    <2>3. Shape(rd') /\ Position(rd') /\ Outcome(rd') /\ NothingYet(rd', gone)
      BY <2>1 DEF Inv, Shape, Position, Outcome, NothingYet
    <2>4. Clean(gone)
      BY CleanBetween DEF Inv, Outcome
    <2> QED
      BY <2>1, <2>2, <2>3, <2>4, CleanInv
  <1> QED
    BY <1>1, <1>2

(* A TLV block begins. *)
LEMMA BlockBegins ==
  ASSUME NEW s, NEW ptr, DOMAIN s = Fields
  PROVE  LET u == parse_tlvblock(s, ptr)
         IN /\ DOMAIN u = Fields /\ u.stage = "parse" /\ u.tlvs = << >>
            /\ \A f \in Fields \ {"stage", "ptr", "tlvs", "limit"} : u[f] = s[f]
  BY DEF parse_tlvblock, Fields

(* The steps of parsing keep the invariant. *)
LEMMA ParseInv ==
  ASSUME Inv(rd, gone), History,
         ParseTlv \/ TlvBlockParsed \/ ReadMessage \/ ReadAddressBlock \/ MessageRead
  PROVE  Inv(rd, gone)'
  <1>0. DOMAIN rd = Fields /\ Silent
    BY DEF Inv, Shape, ParseTlv, TlvBlockParsed, ReadMessage, ReadAddressBlock,
           MessageRead
  <1>1. CASE \E err : rd' = ParseError(rd, err) /\ rd.stage \in {"parse", "blocks"}
    BY <1>0, <1>1, ParseErrorInv
  <1>2. CASE ParseTlv /\ ~\E err : rd' = ParseError(rd, err)
    <2> DEFINE next == parse_tlv(rd.buf, rd.ptr, rd.eob)
    <2>1. /\ next.err = PBB_OKAY /\ rd.stage = "parse"
          /\ rd' = [rd EXCEPT !.ptr = next.ptr, !.tlvs = InsertTlv(@, next.tlv),
                              !.used = @ + 1, !.held = @ + 1]
      BY <1>2 DEF ParseTlv
    <2>2. "drop" \in DOMAIN next.tlv
      BY <2>1, ParsedTlv
    <2> HIDE DEF next
    <2>3. /\ DOMAIN rd' = Fields /\ rd'.tlvs = InsertTlv(rd.tlvs, next.tlv)
          /\ \A f \in Fields \ {"ptr", "tlvs", "used", "held"} : rd'[f] = rd[f]
      BY <1>0, <2>1 DEF Fields
    <2>4. /\ rd'.stage = "parse" /\ rd'.drops = rd.drops /\ rd'.bi = rd.bi
          /\ rd'.ptlvs = rd.ptlvs /\ rd'.msg = rd.msg /\ rd'.ci = rd.ci
          /\ rd'.blk = rd.blk /\ rd'.result = rd.result
          /\ rd'.first = rd.first /\ rd'.last = rd.last
      BY <2>1, <2>3 DEF Fields
    <2>5. IsSeq(rd'.tlvs) /\ TlvList(rd'.tlvs)
      BY <2>1, <2>2, <2>3, InsertedTlv DEF Inv, Shape
    <2>6. Shape(rd') /\ Position(rd') /\ Outcome(rd')
      BY <2>1, <2>3, <2>4, <2>5 DEF Inv, Shape, Position, Outcome
    <2>7. gone' = gone
      BY <1>0, <2>4, SilentHistory
    <2> QED
      BY <2>1, <2>4, <2>6, <2>7, FrameInv
  <1>3. CASE TlvBlockParsed
    <2> DEFINE s == [rd EXCEPT !.tlvs = << >>, !.blk = << >>]
    <2>0. /\ DOMAIN s = Fields
          /\ \A f \in Fields \ {"tlvs", "blk"} : s[f] = rd[f]
      BY <1>0 DEF Fields
    <2>00. /\ s.msg = rd.msg /\ s.drops = rd.drops /\ s.bi = rd.bi /\ s.ptlvs = rd.ptlvs
           /\ s.ci = rd.ci /\ s.result = rd.result
           /\ s.first = rd.first /\ s.last = rd.last /\ s.blk = << >>
      BY <2>0 DEF Fields
    <2>1. /\ rd.stage = "parse"
          /\ rd' = IF rd.msg = NoMsg THEN [s EXCEPT !.stage = "packet", !.ptlvs = rd.tlvs]
                   ELSE IF rd.blk = << >>
                   THEN [s EXCEPT !.stage = "blocks", !.msg.tlvs = rd.tlvs]
                   ELSE [s EXCEPT !.stage = "blocks",
                           !.msg.blocks = Append(@, [rd.blk[1] EXCEPT !.tlvs = rd.tlvs])]
      BY <1>3 DEF TlvBlockParsed
    <2> HIDE DEF s
    <2>2. rd.result = PBB_OKAY /\ Clean(gone)
      BY <2>1, CleanBetween DEF Inv, Outcome
    <2>3. CASE rd.msg = NoMsg
      <3>1. gone = {}
        BY <2>1, <2>3 DEF Inv, NothingYet
      <3>2. /\ DOMAIN rd' = Fields /\ rd'.stage = "packet" /\ rd'.drops = rd.drops
            /\ rd'.bi = rd.bi /\ rd'.ptlvs = rd.tlvs /\ rd'.msg = NoMsg
            /\ rd'.ci = rd.ci /\ rd'.result = PBB_OKAY
            /\ rd'.first = rd.first /\ rd'.last = rd.last /\ rd'.blk = << >>
        BY <2>0, <2>00, <2>1, <2>2, <2>3 DEF Fields
      <3>3. Shape(rd') /\ Position(rd') /\ Outcome(rd')
        BY <2>1, <3>2 DEF Inv, Shape, Position, Outcome
      <3>4. gone' = {}
        BY <1>0, <3>1, <3>2, SilentHistory
      <3> QED
        BY <3>3, <3>4, EmptyInv
    <2>4. CASE rd.msg # NoMsg
      <3>1. IsMessage(rd.msg) /\ TlvList(rd.tlvs)
        BY <2>1, <2>4 DEF Inv, Shape
      <3>2. /\ DOMAIN rd' = Fields /\ rd'.stage = "blocks" /\ rd'.drops = rd.drops
            /\ rd'.bi = rd.bi /\ rd'.ptlvs = rd.ptlvs
            /\ rd'.ci = rd.ci /\ rd'.result = PBB_OKAY
            /\ rd'.first = rd.first /\ rd'.last = rd.last /\ rd'.blk = << >>
        BY <2>0, <2>00, <2>1, <2>2, <2>4 DEF Fields
      <3>3. IsMessage(rd'.msg) /\ rd'.msg # NoMsg
        <4>1. CASE rd.blk = << >>
          <5>1. rd'.msg = [rd.msg EXCEPT !.tlvs = rd.tlvs]
            BY <2>0, <2>00, <2>1, <2>4, <4>1 DEF Fields
          <5>2. /\ DOMAIN rd'.msg = DOMAIN rd.msg
                /\ rd'.msg.tlvs = rd.tlvs /\ rd'.msg.blocks = rd.msg.blocks
            BY <3>1, <5>1 DEF IsMessage
          <5>3. "tlvs" \notin DOMAIN NoMsg
            BY DEF NoMsg
          <5> QED
            BY <3>1, <5>2, <5>3 DEF IsMessage
        <4>2. CASE rd.blk # << >>
          <5> DEFINE x == [rd.blk[1] EXCEPT !.tlvs = rd.tlvs]
          <5>1. rd'.msg = [rd.msg EXCEPT !.blocks = Append(@, x)]
            BY <2>0, <2>00, <2>1, <2>4, <4>2 DEF Fields
          <5>2. IsBlock(x) /\ x.tlvs = rd.tlvs
            BY <2>1, <4>2 DEF Inv, Shape, IsBlock
          <5> HIDE DEF x
          <5>3. /\ DOMAIN rd'.msg = DOMAIN rd.msg
                /\ rd'.msg.tlvs = rd.msg.tlvs
                /\ rd'.msg.blocks = Append(rd.msg.blocks, x)
            BY <3>1, <5>1 DEF IsMessage
          <5>4. BlockList(Append(rd.msg.blocks, x))
            BY <3>1, <5>2, AppendedBlock DEF IsMessage
          <5>5. "tlvs" \notin DOMAIN NoMsg
            BY DEF NoMsg
          <5> QED
            BY <3>1, <5>3, <5>4, <5>5 DEF IsMessage
        <4> QED
          BY <4>1, <4>2
      <3>4. Shape(rd') /\ Position(rd') /\ Outcome(rd') /\ NothingYet(rd', gone)
        BY <2>1, <3>2, <3>3 DEF Inv, Shape, Position, Outcome, NothingYet
      <3>5. gone' = gone
        BY <1>0, <3>2, SilentHistory
      <3> QED
        BY <2>2, <3>2, <3>4, <3>5, CleanInv
    <2> QED
      BY <2>3, <2>4
  <1>4. CASE ReadMessage
    <2> DEFINE m == parse_msgheader(rd.buf, rd.ptr)
    <2>1. /\ rd.stage = "message" /\ rd.result = PBB_OKAY /\ rd.msg = NoMsg
          /\ rd' = IF m.err # PBB_OKAY THEN [rd EXCEPT !.result = m.err]
                   ELSE parse_tlvblock([rd EXCEPT !.msg = m.msg, !.eob = m.msg.end], m.body)
      BY <1>4 DEF ReadMessage, Inv, Position
    <2>2. m.err = PBB_OKAY => IsMessage(m.msg) /\ m.msg # NoMsg
      BY ParsedHeader
    <2>3. Clean(gone)
      BY <2>1, CleanBetween
    <2> HIDE DEF m
    <2>4. CASE m.err # PBB_OKAY
      <3>1. /\ DOMAIN rd' = Fields /\ rd'.stage = "message" /\ rd'.drops = rd.drops
            /\ rd'.bi = rd.bi /\ rd'.ptlvs = rd.ptlvs /\ rd'.msg = NoMsg /\ rd'.ci = rd.ci
            /\ rd'.first = rd.first /\ rd'.last = rd.last /\ rd'.blk = rd.blk
        BY <1>0, <2>1, <2>4 DEF Fields
      <3>2. Shape(rd') /\ Position(rd') /\ Outcome(rd') /\ NothingYet(rd', gone)
        BY <2>1, <3>1 DEF Inv, Shape, Position, Outcome, NothingYet
      <3>3. gone' = gone
        BY <1>0, <2>1, <3>1, SilentHistory
      <3> QED
        BY <2>3, <3>1, <3>2, <3>3, CleanInv
    <2>5. CASE m.err = PBB_OKAY
      <3> DEFINE v == [rd EXCEPT !.msg = m.msg, !.eob = m.msg.end]
      <3>0. rd' = parse_tlvblock(v, m.body)
        BY <2>1, <2>5
      <3>1. /\ DOMAIN v = Fields /\ v.msg = m.msg
            /\ \A f \in Fields \ {"msg", "eob"} : v[f] = rd[f]
        BY <1>0 DEF Fields
      <3> HIDE DEF v
      <3>2. /\ DOMAIN rd' = Fields /\ rd'.stage = "parse" /\ rd'.drops = rd.drops
            /\ rd'.bi = rd.bi /\ rd'.ptlvs = rd.ptlvs /\ rd'.msg = m.msg
            /\ rd'.ci = rd.ci /\ rd'.result = rd.result /\ rd'.tlvs = << >>
            /\ rd'.blk = rd.blk /\ rd'.first = rd.first /\ rd'.last = rd.last
        BY <3>0, <3>1, BlockBegins DEF Fields
      <3>3. Shape(rd') /\ Position(rd') /\ Outcome(rd') /\ NothingYet(rd', gone)
        BY <2>1, <2>2, <2>5, <3>2, EmptyLists DEF Inv, Shape, Position, Outcome, NothingYet
      <3>4. gone' = gone
        BY <1>0, <3>2, SilentHistory
      <3> QED
        BY <2>3, <3>2, <3>3, <3>4, CleanInv
    <2> QED
      BY <2>4, <2>5
  <1>5. CASE ReadAddressBlock /\ ~\E err : rd' = ParseError(rd, err)
    <2> DEFINE blk == parse_addrblock(rd.buf, rd.msg.addrlen, rd.ptr, rd.msg.end)
               v == [rd EXCEPT !.blk = <<blk.block>>, !.used = @ + 1, !.held = @ + 1]
    <2>1. /\ rd.stage = "blocks" /\ blk.err = PBB_OKAY
          /\ rd' = parse_tlvblock(v, blk.ptr)
      BY <1>5 DEF ReadAddressBlock
    <2>2. IsBlock(blk.block)
      BY <2>1, ParsedBlock
    <2> HIDE DEF blk
    <2>3. /\ DOMAIN v = Fields /\ v.blk[1] = blk.block
          /\ \A f \in Fields \ {"blk", "used", "held"} : v[f] = rd[f]
      BY <1>0 DEF Fields
    <2> HIDE DEF v
    <2>4. /\ DOMAIN rd' = Fields /\ rd'.stage = "parse" /\ rd'.drops = rd.drops
          /\ rd'.bi = rd.bi /\ rd'.ptlvs = rd.ptlvs /\ rd'.msg = rd.msg
          /\ rd'.ci = rd.ci /\ rd'.result = rd.result /\ rd'.tlvs = << >>
          /\ rd'.blk[1] = blk.block /\ rd'.first = rd.first /\ rd'.last = rd.last
      BY <2>1, <2>3, BlockBegins DEF Fields
    <2>5. Shape(rd') /\ Position(rd') /\ Outcome(rd') /\ NothingYet(rd', gone)
      BY <2>1, <2>2, <2>4, EmptyLists DEF Inv, Shape, Position, Outcome, NothingYet
    <2>6. Clean(gone)
      BY <2>1, CleanBetween DEF Inv, Outcome
    <2>7. gone' = gone
      BY <1>0, <2>4, SilentHistory
    <2> QED
      BY <2>4, <2>5, <2>6, <2>7, CleanInv
  <1>6. CASE MessageRead
    <2>1. /\ rd.stage = "blocks"
          /\ rd' = [rd EXCEPT !.stage = "consumer", !.ci = 1, !.first = 0, !.last = 0]
      BY <1>6 DEF MessageRead
    <2>2. /\ DOMAIN rd' = Fields /\ rd'.stage = "consumer" /\ rd'.drops = rd.drops
          /\ rd'.bi = rd.bi /\ rd'.ptlvs = rd.ptlvs /\ rd'.msg = rd.msg
          /\ rd'.ci = 1 /\ rd'.result = rd.result
          /\ rd'.first = 0 /\ rd'.last = 0 /\ rd'.blk = rd.blk
      BY <1>0, <2>1 DEF Fields
    <2>3. Shape(rd') /\ Position(rd') /\ Outcome(rd')
      BY <2>1, <2>2, ConsumersAssumption DEF Inv, Shape, Position, Outcome
    <2>4. gone' = gone
      BY <1>0, <2>2, SilentHistory
    <2> QED
      BY <2>2, <2>3, <2>4, FrameInv
  <1> QED
    BY <1>1, <1>2, <1>3, <1>4, <1>5, <1>6 DEF ParseTlv, ReadAddressBlock

-----------------------------------------------------------------------------
(* Steps without a callback after parsing.                                  *)

(* The arrival of a datagram. *)
LEMMA ArriveInv ==
  ASSUME Inv(rd, gone), History, NEW b, NEW f, handle_packet(b, f)
  PROVE  Inv(rd, gone)'
  <1> DEFINE flags == pbb_get_u8(b, 0, Len(b)) % 16
             body  == 1 + Takes(Flag(flags, PKT_SEQNO), 2)
             s     == [Idle EXCEPT !.stage = "packet", !.buf = b, !.fail = f, !.ptr = body,
                               !.eob = Len(b), !.has_tlv = Flag(flags, PKT_TLV), !.ci = 1]
  <1>1. gone = {} /\ Silent
    BY DEF Inv, NothingYet, handle_packet
  <1>2. CASE \E err : rd' = [Idle EXCEPT !.result = err]
    <2>1. /\ DOMAIN rd' = Fields /\ rd'.stage = "idle" /\ rd'.drops = 0 /\ rd'.bi = 0
          /\ rd'.first = 0 /\ rd'.last = 0 /\ rd'.ptlvs = << >> /\ rd'.msg = NoMsg
          /\ rd'.blk = << >>
      BY <1>2 DEF Idle, Fields
    <2> QED
      BY <1>1, <2>1, IdleInv, SilentHistory
  <1>3. CASE rd' = s \/ rd' = parse_tlvblock(s, body)
    <2>1. /\ DOMAIN s = Fields /\ s.stage = "packet" /\ s.drops = 0 /\ s.bi = 0
          /\ s.first = 0 /\ s.last = 0 /\ s.ptlvs = << >> /\ s.msg = NoMsg
          /\ s.blk = << >> /\ s.ci = 1 /\ s.result = PBB_OKAY
      BY DEF Idle, Fields
    <2> HIDE DEF s
    <2>2. /\ DOMAIN rd' = Fields /\ rd'.stage \in {"packet", "parse"}
          /\ rd'.drops = 0 /\ rd'.bi = 0
          /\ rd'.first = 0 /\ rd'.last = 0 /\ rd'.ptlvs = << >> /\ rd'.msg = NoMsg
          /\ rd'.blk = << >> /\ rd'.ci = 1 /\ rd'.result = PBB_OKAY
          /\ rd'.stage = "parse" => rd'.tlvs = << >>
      BY <1>3, <2>1, BlockBegins DEF Fields
    <2>3. Shape(rd') /\ Position(rd') /\ Outcome(rd')
      BY <2>2, EmptyLists, ConsumersAssumption DEF Shape, Position, Outcome
    <2>4. gone' = {}
      BY <1>1, <2>2, SilentHistory
    <2> QED
      BY <2>3, <2>4, EmptyInv
  <1> QED
    BY <1>2, <1>3 DEF handle_packet

(* The packet is done. *)
LEMMA PacketDoneInv ==
  ASSUME Inv(rd, gone), History, PacketDone
  PROVE  Inv(rd, gone)'
  <1>1. Silent /\ rd' = [Idle EXCEPT !.held = rd.held - Len(rd.ptlvs),
                         !.result = IF rd.result = PBB_DROP_PACKET THEN PBB_OKAY ELSE rd.result]
    BY DEF PacketDone
  <1>2. /\ DOMAIN rd' = Fields /\ rd'.stage = "idle" /\ rd'.drops = 0 /\ rd'.bi = 0
        /\ rd'.first = 0 /\ rd'.last = 0 /\ rd'.ptlvs = << >> /\ rd'.msg = NoMsg
        /\ rd'.blk = << >>
    BY <1>1 DEF Idle, Fields
  <1> QED
    BY <1>1, <1>2, IdleInv, SilentHistory

(* What stays the same as the reader goes on to another consumer.           *)
Moves(s, u) ==
  /\ DOMAIN u = Fields /\ u.drops = s.drops /\ u.result = s.result
  /\ u.msg = s.msg /\ u.ptlvs = s.ptlvs /\ u.last = s.last /\ u.blk = s.blk

LEMMA MovesInv ==
  ASSUME Inv(rd, gone), History, Silent, Moves(rd, rd'),
         rd.stage \notin {"parse", "blocks", "cleanup"},
         rd'.stage \notin {"idle", "addrend", "parse", "blocks"},
         rd'.bi \in Nat, rd'.first \in Nat, Position(rd'), Outcome(rd')
  PROVE  Inv(rd, gone)'
  <1>1. Shape(rd')
    BY DEF Moves, Inv, Shape
  <1>2. gone' = gone
    BY SilentHistory
  <1> QED
    BY <1>1, <1>2, FrameInv DEF Moves

LEMMA LoopsInv ==
  ASSUME Inv(rd, gone), History,
         PacketConsumersDone \/ MessagesDone \/ SkipConsumer \/ EndOrder
           \/ StartAddressConsumer \/ ConsumersDone \/ EndMessageDone \/ SkipAddress
  PROVE  Inv(rd, gone)'
  <1>0. DOMAIN rd = Fields /\ rd.bi \in Nat /\ rd.first \in Nat
    BY DEF Inv, Shape
  <1>1. CASE PacketConsumersDone
    <2>1. /\ rd.stage = "packet" /\ Silent /\ Moves(rd, rd') /\ rd'.stage = "message"
          /\ rd'.bi = rd.bi /\ rd'.first = rd.first /\ rd'.ci = rd.ci
      BY <1>0, <1>1 DEF PacketConsumersDone, Moves, Fields
    <2>2. Position(rd') /\ Outcome(rd')
      BY <2>1 DEF Moves, Inv, Position, Outcome
    <2> QED
      BY <1>0, <2>1, <2>2, MovesInv
  <1>2. CASE MessagesDone
    <2>1. /\ rd.stage = "message" /\ Silent /\ Moves(rd, rd') /\ rd'.stage = "endpkt"
          /\ rd'.bi = rd.bi /\ rd'.first = rd.first /\ rd'.ci = rd.ci
      BY <1>0, <1>2 DEF MessagesDone, Moves, Fields
    <2>2. Position(rd') /\ Outcome(rd')
      BY <2>1 DEF Moves, Inv, Position, Outcome
    <2> QED
      BY <1>0, <2>1, <2>2, MovesInv
  <1>3. CASE SkipConsumer
    <2>1. /\ rd.stage = "consumer" /\ Silent /\ Moves(rd, rd') /\ rd'.stage = "consumer"
          /\ rd'.bi = rd.bi /\ rd'.first = rd.first /\ rd'.ci = rd.ci + 1
      BY <1>0, <1>3 DEF SkipConsumer, Moves, Fields
    <2>2. Position(rd') /\ Outcome(rd')
      BY <2>1 DEF Moves, Inv, Position, Outcome
    <2> QED
      BY <1>0, <2>1, <2>2, MovesInv
  <1>4. CASE EndOrder
    <2>1. /\ rd.stage = "consumer" /\ Silent /\ Moves(rd, rd') /\ rd'.stage = "endmsg"
          /\ rd'.bi = rd.bi /\ rd'.first = rd.first /\ rd'.ci = rd.ci
          /\ rd'.down = rd.last /\ rd.first # 0
      BY <1>0, <1>4 DEF EndOrder, OrderDone, Moves, Fields
    <2>2. Position(rd') /\ Outcome(rd')
      BY <2>1, ConsumersAssumption
         DEF Moves, Inv, Shape, Position, Outcome, PBB_OKAY, PBB_DROP_PACKET
    <2> QED
      BY <1>0, <2>1, <2>2, MovesInv
  <1>5. CASE StartAddressConsumer
    <2>1. /\ rd.stage = "consumer" /\ Silent /\ Moves(rd, rd') /\ rd'.stage = "address"
          /\ rd'.bi = 1 /\ rd'.first = rd.first /\ rd'.ci = rd.ci
          /\ rd.ci <= Len(MessageConsumers) /\ MessageConsumers[rd.ci].kind = "address"
      BY <1>0, <1>5 DEF StartAddressConsumer, Moves, Fields
    <2>2. Position(rd') /\ Outcome(rd')
      BY <2>1 DEF Moves, Inv, Position, Outcome
    <2> QED
      BY <1>0, <2>1, <2>2, MovesInv
  <1>6. CASE ConsumersDone
    <2>1. /\ rd.stage = "consumer" /\ Silent /\ Moves(rd, rd')
          /\ rd'.stage = (IF rd.first # 0 THEN "endmsg" ELSE "cleanup")
          /\ rd'.bi = rd.bi /\ rd'.first = rd.first /\ rd'.ci = rd.ci
          /\ rd'.down = rd.last
      BY <1>0, <1>6 DEF ConsumersDone, LeaveConsumers, Moves, Fields
    <2>2. Position(rd') /\ Outcome(rd')
      BY <2>1, ConsumersAssumption
         DEF Moves, Inv, Shape, Position, Outcome, PBB_OKAY, PBB_DROP_PACKET
    <2> QED
      BY <1>0, <2>1, <2>2, MovesInv
  <1>7. CASE EndMessageDone
    <2>1. /\ rd.stage = "endmsg" /\ Silent /\ Moves(rd, rd')
          /\ rd'.stage = (IF rd.result = PBB_OKAY THEN "consumer" ELSE "cleanup")
          /\ rd'.bi = rd.bi /\ rd'.first = 0 /\ rd'.ci = rd.ci
      BY <1>0, <1>7 DEF EndMessageDone, Moves, Fields
    <2>2. Position(rd') /\ Outcome(rd')
      BY <2>1 DEF Moves, Inv, Position, Outcome
    <2> QED
      BY <1>0, <2>1, <2>2, MovesInv
  <1>8. CASE SkipAddress
    <2>0. rd.stage = "address" /\ Silent /\ rd.bi > 0
      BY <1>8 DEF SkipAddress, Inv, Position
    <2>1. CASE rd' = [rd EXCEPT !.stage = "consumer", !.ci = @ + 1]
      <3>1. /\ Moves(rd, rd') /\ rd'.stage = "consumer"
            /\ rd'.bi = rd.bi /\ rd'.first = rd.first /\ rd'.ci = rd.ci + 1
        BY <1>0, <2>1 DEF Moves, Fields
      <3>2. Position(rd') /\ Outcome(rd')
        BY <2>0, <3>1 DEF Moves, Inv, Position, Outcome
      <3> QED
        BY <1>0, <2>0, <3>1, <3>2, MovesInv
    <2>2. CASE rd' = [rd EXCEPT !.bi = @ + 1, !.ai = 0]
      <3>1. /\ Moves(rd, rd') /\ rd'.stage = "address"
            /\ rd'.bi = rd.bi + 1 /\ rd'.first = rd.first /\ rd'.ci = rd.ci
        BY <1>0, <2>0, <2>2 DEF Moves, Fields
      <3>2. Position(rd') /\ Outcome(rd')
        BY <1>0, <2>0, <3>1 DEF Moves, Inv, Position, Outcome
      <3> QED
        BY <1>0, <2>0, <3>1, <3>2, MovesInv
    <2>3. CASE rd' = [rd EXCEPT !.ai = @ + 1]
      <3>1. /\ Moves(rd, rd') /\ rd'.stage = "address"
            /\ rd'.bi = rd.bi /\ rd'.first = rd.first /\ rd'.ci = rd.ci
        BY <1>0, <2>0, <2>3 DEF Moves, Fields
      <3>2. Position(rd') /\ Outcome(rd')
        BY <1>0, <2>0, <3>1 DEF Moves, Inv, Position, Outcome
      <3> QED
        BY <1>0, <2>0, <3>1, <3>2, MovesInv
    <2> QED
      BY <1>8, <2>1, <2>2, <2>3 DEF SkipAddress
  <1> QED
    BY <1>1, <1>2, <1>3, <1>4, <1>5, <1>6, <1>7, <1>8

(* The message is done: only drops of the packet and its TLVs last. *)
LEMMA MessageDoneInv ==
  ASSUME Inv(rd, gone), History, MessageDone
  PROVE  Inv(rd, gone)'
  <1>1. /\ rd.stage = "cleanup" /\ DOMAIN rd' = Fields /\ rd'.stage = "message"
        /\ rd'.msg = NoMsg /\ rd'.drops = rd.drops /\ rd'.bi = rd.bi /\ rd'.ptlvs = rd.ptlvs
        /\ rd'.ci = rd.ci /\ rd'.first = rd.first /\ rd'.last = rd.last /\ rd'.blk = rd.blk
        /\ rd'.result = IF rd.result = PBB_DROP_MESSAGE THEN PBB_OKAY ELSE rd.result
    BY DEF MessageDone, Inv, Shape, Fields
  <1>2. gone' = Lasting
    BY <1>1 DEF History
  <1>3. Shape(rd') /\ Position(rd') /\ Outcome(rd') /\ NothingYet(rd', gone')
    BY <1>1 DEF Inv, Shape, Position, Outcome, NothingYet
  <1>4. \A g \in gone' : g \in gone /\ (g[1] = "packet" \/ (g[1] = "tlv" /\ g[2] = "packet"))
    BY <1>2 DEF Lasting
  <1>5. /\ gone' \cap {<<"message">>, <<"forward">>} = {}
        /\ \A b, a : <<"address", <<b, a>>>> \notin gone'
        /\ \A t : <<"tlv", "message", <<0, 0>>, t>> \notin gone'
        /\ \A b, a, t : <<"tlv", "address", <<b, a>>, t>> \notin gone'
    BY <1>4
  <1>6. ContextsRemembered(rd', gone') /\ AddressesRemembered(rd', gone')
    BY <1>1, <1>4, <1>5
       DEF Inv, ContextsRemembered, AddressesRemembered, PBB_DROP_PACKET, PBB_DROP_MESSAGE
  <1>7. TlvsRemembered(rd', gone')
    BY <1>1, <1>4, <1>5 DEF Inv, TlvsRemembered
  <1> QED
    BY <1>3, <1>6, <1>7 DEF Inv

-----------------------------------------------------------------------------
(* Steps with a callback.                                                   *)

(* What a result r drops, for a context of kind k and address p. *)
DropSet(k, p, r, T) ==
  CASE r = PBB_DROP_PACKET -> {<<"packet">>, <<"message">>, <<"forward">>}
    [] r = PBB_DROP_MESSAGE -> {<<"message">>, <<"forward">>}
    [] r = PBB_DROP_MSG_BUT_FORWARD -> {<<"message">>}
    [] r = PBB_DROP_ADDRESS -> {<<"address", p>>}
    [] r = PBB_DROP_TLV -> {<<"tlv", k, p, t>> : t \in T}
    [] OTHER -> {}

(* What a callback may return. *)
LEMMA ResultsRange ==
  ASSUME NEW c, NEW kinds, Installed(c, kinds), NEW cb, c.kind # "packet" \/ cb # "end",
         rd.drops \in Nat, NEW r \in Results(c, cb)
  PROVE  /\ r \in PBB_OKAY..PBB_DROP_PACKET
         /\ Drops(r) \in Nat
         /\ cb \notin c.callbacks => r = PBB_OKAY
  <1>1. Drops(r) \in Nat
    BY DEF Drops
  <1>2. CASE cb \in c.callbacks /\ rd.drops < MaxDrops
    <2>1. MaxDrops > 0
      BY <1>2, ConsumersAssumption
    <2>2. r \in Returns[c.kind][cb]
      BY <1>2 DEF Results
    <2> QED
      BY <1>1, <1>2, <2>1, <2>2 DEF Installed
  <1>3. CASE ~(cb \in c.callbacks /\ rd.drops < MaxDrops)
    <2>1. r = PBB_OKAY
      BY <1>3 DEF Results
    <2> QED
      BY <1>1, <2>1 DEF PBB_OKAY, PBB_DROP_PACKET
  <1> QED
    BY <1>2, <1>3

(* What the history records of a callback. *)
LEMMA CalledHistory ==
  ASSUME NEW c, NEW cb \in {"start", "tlv", "block", "end"}, NEW r, NEW T,
         cb \notin c.callbacks => r = PBB_OKAY,
         Called(c, cb, r, T), History,
         rd'.stage # "idle", rd'.stage # "message"
  PROVE  gone' = gone \cup DropSet(c.kind, Place(c), r, T)
  <1>1. gone' = gone \cup Dropped
    BY DEF History
  <1>2. CASE cb \in c.callbacks
    <2>1. call'.cb = cb /\ call'.consumer = c /\ call'.tlvs = T /\ call'.result = r
      BY <1>2 DEF Called
    <2>2. Dropped = DropSet(c.kind, Place(c), r, T)
      BY <2>1 DEF Dropped, DropSet, Place
    <2> QED
      BY <1>1, <2>2
  <1>3. CASE cb \notin c.callbacks
    <2>1. call'.cb = "none" /\ r = PBB_OKAY
      BY <1>3 DEF Called, NoCall
    <2>2. Dropped = {}
      BY <2>1 DEF Dropped
    <2>3. DropSet(c.kind, Place(c), r, T) = {}
      BY <2>1 DEF DropSet, PBB_OKAY, PBB_DROP_PACKET, PBB_DROP_MESSAGE,
                  PBB_DROP_MSG_BUT_FORWARD, PBB_DROP_ADDRESS, PBB_DROP_TLV
    <2> QED
      BY <1>1, <2>2, <2>3
  <1> QED
    BY <1>2, <1>3

(* What is in the set of drops of a result. *)
LEMMA DropSetMembers ==
  ASSUME NEW k, NEW p, NEW r, NEW T
  PROVE  LET D == DropSet(k, p, r, T)
         IN /\ <<"packet">> \in D => r = PBB_DROP_PACKET
            /\ <<"message">> \in D =>
                 r \in {PBB_DROP_PACKET, PBB_DROP_MESSAGE, PBB_DROP_MSG_BUT_FORWARD}
            /\ <<"forward">> \in D => r \in {PBB_DROP_PACKET, PBB_DROP_MESSAGE}
            /\ \A b, a : <<"address", <<b, a>>>> \in D => r = PBB_DROP_ADDRESS /\ p = <<b, a>>
            /\ \A kk, pp, t : <<"tlv", kk, pp, t>> \in D =>
                 r = PBB_DROP_TLV /\ kk = k /\ pp = p /\ t \in T
  <1> USE DEF PBB_OKAY, PBB_DROP_PACKET, PBB_DROP_MESSAGE, PBB_DROP_MSG_BUT_FORWARD,
              PBB_DROP_ADDRESS, PBB_DROP_TLV
  <1> DEFINE D == DropSet(k, p, r, T)
  <1>1. CASE r = 5
    <2>1. D = {<<"packet">>, <<"message">>, <<"forward">>}
      BY <1>1 DEF DropSet
    <2> QED
      BY <1>1, <2>1
  <1>2. CASE r = 4
    <2>1. D = {<<"message">>, <<"forward">>}
      BY <1>2 DEF DropSet
    <2> QED
      BY <1>2, <2>1
  <1>3. CASE r = 3
    <2>1. D = {<<"message">>}
      BY <1>3 DEF DropSet
    <2> QED
      BY <1>3, <2>1
  <1>4. CASE r = 2
    <2>1. D = {<<"address", p>>}
      BY <1>4 DEF DropSet
    <2> QED
      BY <1>4, <2>1
  <1>5. CASE r = 1
    <2>1. D = {<<"tlv", k, p, t>> : t \in T}
      BY <1>5 DEF DropSet
    <2> QED
      BY <1>5, <2>1
  <1>6. CASE r \notin {1, 2, 3, 4, 5}
    <2>1. D = {}
      BY <1>6 DEF DropSet
    <2> QED
      BY <2>1
  <1> QED
    BY <1>1, <1>2, <1>3, <1>4, <1>5, <1>6

(* A callback whose result becomes the result of the context, or is left    *)
(* aside for a stronger one.                                                *)
LEMMA ResultInv ==
  ASSUME NEW s, NEW u, NEW g, NEW k, NEW p, NEW T, Inv(s, g),
         NEW r \in PBB_OKAY..PBB_DROP_PACKET, r = PBB_DROP_TLV => T = {},
         s.result \in PBB_OKAY..PBB_DROP_PACKET,
         u.result = IF r > s.result THEN r ELSE s.result,
         Shape(u), Position(u), Outcome(u), u.msg = s.msg, u.ptlvs = s.ptlvs,
         s.stage \notin {"parse", "blocks"}, u.stage \notin {"idle", "parse", "blocks"},
         u.stage = "addrend" =>
           /\ u.bi = s.bi /\ u.ai = s.ai /\ p = <<s.bi, s.ai>>
           /\ s.stage = "addrend" \/ s.result = PBB_OKAY
  PROVE  Inv(u, g \cup DropSet(k, p, r, T))
  <1> DEFINE D == DropSet(k, p, r, T)
             h == g \cup D
  <1>0. /\ <<"packet">> \in D => r = PBB_DROP_PACKET
        /\ <<"message">> \in D =>
             r \in {PBB_DROP_PACKET, PBB_DROP_MESSAGE, PBB_DROP_MSG_BUT_FORWARD}
        /\ <<"forward">> \in D => r \in {PBB_DROP_PACKET, PBB_DROP_MESSAGE}
        /\ \A b, a : <<"address", <<b, a>>>> \in D => r = PBB_DROP_ADDRESS /\ p = <<b, a>>
        /\ \A kk, pp, t : <<"tlv", kk, pp, t>> \notin D
    BY DropSetMembers
  <1> HIDE DEF D
  <1>1. ContextsRemembered(u, h)
    BY <1>0 DEF Inv, ContextsRemembered, PBB_OKAY, PBB_DROP_PACKET, PBB_DROP_MESSAGE,
                PBB_DROP_MSG_BUT_FORWARD
  <1>2. AddressesRemembered(u, h)
    <2>1. ASSUME NEW b, NEW a, <<"address", <<b, a>>>> \in h
          PROVE  /\ u.result = PBB_OKAY => InBlock(u, b, a)
                 /\ u.stage = "addrend" /\ u.result \in {PBB_DROP_TLV, PBB_DROP_ADDRESS} =>
                      InBlock(u, b, a) \/ (b = u.bi /\ a = u.ai)
      <3>1. CASE <<"address", <<b, a>>>> \in g
        <4>1. s.result = PBB_OKAY => InBlock(s, b, a)
          BY <3>1 DEF Inv, AddressesRemembered
        <4>2. s.stage = "addrend" /\ s.result \in {PBB_DROP_TLV, PBB_DROP_ADDRESS} =>
                InBlock(s, b, a) \/ (b = s.bi /\ a = s.ai)
          BY <3>1 DEF Inv, AddressesRemembered
        <4>3. InBlock(u, b, a) <=> InBlock(s, b, a)
          BY DEF InBlock
        <4>4. /\ u.result = PBB_OKAY => s.result = PBB_OKAY
              /\ u.result \in {PBB_DROP_TLV, PBB_DROP_ADDRESS} =>
                   s.result \in {PBB_OKAY, PBB_DROP_TLV, PBB_DROP_ADDRESS}
          BY DEF PBB_OKAY, PBB_DROP_TLV, PBB_DROP_ADDRESS, PBB_DROP_PACKET
        <4> QED
          BY <4>1, <4>2, <4>3, <4>4
      <3>2. CASE <<"address", <<b, a>>>> \in D
        <4>1. r = PBB_DROP_ADDRESS /\ p = <<b, a>>
          BY <1>0, <3>2
        <4>2. u.result # PBB_OKAY
          BY <4>1 DEF PBB_OKAY, PBB_DROP_ADDRESS, PBB_DROP_PACKET
        <4> QED
          BY <4>1, <4>2
      <3> QED
        BY <2>1, <3>1, <3>2
    <2> QED
      BY <2>1 DEF AddressesRemembered
  <1>3. TlvsRemembered(u, h)
    BY <1>0 DEF Inv, TlvsRemembered
  <1>4. NothingYet(u, h)
    BY DEF NothingYet
  <1> QED
    BY <1>1, <1>2, <1>3, <1>4 DEF Inv, D

(* A list of TLVs with the ones in T marked for index x. *)
Marked(l, T, x) ==
  [i \in DOMAIN l |-> IF i \in T THEN [l[i] EXCEPT !.drop = @ \cup {x}] ELSE l[i]]

LEMMA MarkedList ==
  ASSUME NEW l, TlvList(l), NEW T, NEW x
  PROVE  /\ DOMAIN Marked(l, T, x) = DOMAIN l /\ TlvList(Marked(l, T, x))
         /\ \A i \in DOMAIN l : l[i].drop \subseteq Marked(l, T, x)[i].drop
         /\ \A i \in DOMAIN l : i \in T => x \in Marked(l, T, x)[i].drop
  <1> DEFINE M == Marked(l, T, x)
  <1>1. DOMAIN M = DOMAIN l
    BY DEF Marked
  <1>2. ASSUME NEW i \in DOMAIN l
        PROVE  /\ "drop" \in DOMAIN M[i] /\ l[i].drop \subseteq M[i].drop
               /\ i \in T => x \in M[i].drop
    <2>1. "drop" \in DOMAIN l[i]
      BY DEF TlvList
    <2>2. CASE i \in T
      <3>1. M[i] = [l[i] EXCEPT !.drop = @ \cup {x}]
        BY <2>2 DEF Marked
      <3> QED
        BY <2>1, <3>1
    <2>3. CASE i \notin T
      <3>1. M[i] = l[i]
        BY <2>3 DEF Marked
      <3> QED
        BY <2>1, <2>3, <3>1
    <2> QED
      BY <2>2, <2>3
  <1> QED
    BY <1>1, <1>2 DEF TlvList

(* A list of address blocks in which one block is replaced. *)
LEMMA ReplacedBlock ==
  ASSUME NEW l, BlockList(l), NEW i \in DOMAIN l, NEW x, IsBlock(x), TlvList(x.tlvs)
  PROVE  /\ BlockList([l EXCEPT ![i] = x])
         /\ DOMAIN [l EXCEPT ![i] = x] = DOMAIN l
         /\ [l EXCEPT ![i] = x][i] = x
         /\ \A j \in DOMAIN l : j # i => [l EXCEPT ![i] = x][j] = l[j]
  <1> DEFINE S == {l[j] : j \in DOMAIN l} \cup {x}
             r == [l EXCEPT ![i] = x]
  <1>0. /\ DOMAIN r = DOMAIN l /\ r[i] = x
        /\ \A j \in DOMAIN l : j # i => r[j] = l[j]
    OBVIOUS
  <1>1. l \in Seq(S)
    <2>1. l \in Seq({l[j] : j \in DOMAIN l})
      BY DEF BlockList, IsSeq
    <2>2. Seq({l[j] : j \in DOMAIN l}) \subseteq Seq(S)
      BY SeqMonotonic
    <2> QED
      BY <2>1, <2>2
  <1>2. Len(l) \in Nat /\ DOMAIN l = 1..Len(l)
    BY <1>1
  <1>3. r \in Seq(S)
    BY <1>1, <1>2, ExceptSeq
  <1>4. \A e \in S : IsBlock(e) /\ TlvList(e.tlvs)
    BY DEF BlockList
  <1> HIDE DEF r, S
  <1>5. IsSeq(r) /\ \A j \in DOMAIN r : r[j] \in S
    BY <1>3, SeqElements
  <1>6. BlockList(r)
    BY <1>4, <1>5 DEF BlockList
  <1> QED
    BY <1>0, <1>6 DEF r

(* Lists in which the TLVs T of a context of kind k are marked. *)
Marks(s, u, k, T) ==
  /\ k \in {"packet", "message", "address"}
  /\ k = "packet" => u.ptlvs = Marked(s.ptlvs, T, 0) /\ u.msg = s.msg
  /\ k = "message" =>
       u.ptlvs = s.ptlvs /\ u.msg = [s.msg EXCEPT !.tlvs = Marked(s.msg.tlvs, T, 0)]
  /\ k = "address" =>
       /\ u.ptlvs = s.ptlvs
       /\ LET blk == s.msg.blocks[s.bi]
              new == [blk EXCEPT !.tlvs = Marked(blk.tlvs, T, s.ai)]
          IN u.msg = [s.msg EXCEPT !.blocks = [s.msg.blocks EXCEPT ![s.bi] = new]]

(* Marks are only added, and addresses stay as they are. *)
LEMMA MarksKeep ==
  ASSUME NEW s, NEW u, NEW k, NEW T, Shape(s), Marks(s, u, k, T),
         k = "packet" <=> s.msg = NoMsg,
         k = "address" => s.bi \in DOMAIN s.msg.blocks
  PROVE  /\ TlvList(u.ptlvs)
         /\ \A t \in DOMAIN u.ptlvs : /\ t \in DOMAIN s.ptlvs
                                      /\ s.ptlvs[t].drop \subseteq u.ptlvs[t].drop
                                      /\ k = "packet" /\ t \in T => 0 \in u.ptlvs[t].drop
         /\ k = "packet" => u.msg = NoMsg
         /\ k # "packet" =>
              /\ u.msg # NoMsg /\ IsMessage(u.msg)
              /\ DOMAIN u.msg.blocks = DOMAIN s.msg.blocks
              /\ \A t \in DOMAIN u.msg.tlvs :
                   /\ t \in DOMAIN s.msg.tlvs
                   /\ s.msg.tlvs[t].drop \subseteq u.msg.tlvs[t].drop
                   /\ k = "message" /\ t \in T => 0 \in u.msg.tlvs[t].drop
              /\ \A b \in DOMAIN u.msg.blocks :
                   /\ u.msg.blocks[b].drop = s.msg.blocks[b].drop
                   /\ \A t \in DOMAIN u.msg.blocks[b].tlvs :
                        /\ t \in DOMAIN s.msg.blocks[b].tlvs
                        /\ s.msg.blocks[b].tlvs[t].drop \subseteq u.msg.blocks[b].tlvs[t].drop
                        /\ k = "address" /\ b = s.bi /\ t \in T =>
                             s.ai \in u.msg.blocks[b].tlvs[t].drop
  <1>0. TlvList(s.ptlvs) /\ (s.msg # NoMsg => IsMessage(s.msg))
    BY DEF Shape
  <1>00. "tlvs" \notin DOMAIN NoMsg
    BY DEF NoMsg
  <1>1. CASE k = "packet"
    BY <1>0, <1>1, MarkedList DEF Marks
  <1>2. CASE k = "message"
    <2> DEFINE M == Marked(s.msg.tlvs, T, 0)
    <2>1. IsMessage(s.msg)
      BY <1>0, <1>2
    <2>2. /\ u.ptlvs = s.ptlvs /\ DOMAIN u.msg = DOMAIN s.msg
          /\ u.msg.tlvs = M /\ u.msg.blocks = s.msg.blocks
      BY <1>2, <2>1 DEF Marks, IsMessage
    <2>3. /\ DOMAIN M = DOMAIN s.msg.tlvs /\ TlvList(M)
          /\ \A t \in DOMAIN M : /\ s.msg.tlvs[t].drop \subseteq M[t].drop
                                 /\ t \in T => 0 \in M[t].drop
      BY <2>1, MarkedList DEF IsMessage
    <2> HIDE DEF M
    <2>4. u.msg # NoMsg /\ IsMessage(u.msg)
      BY <1>00, <2>1, <2>2, <2>3 DEF IsMessage
    <2> QED
      BY <1>0, <1>2, <2>2, <2>3, <2>4
  <1>3. CASE k = "address"
    <2> DEFINE old == s.msg.blocks[s.bi]
               M == Marked(old.tlvs, T, s.ai)
               x == [old EXCEPT !.tlvs = M]
               bs == [s.msg.blocks EXCEPT ![s.bi] = x]
    <2>1. IsMessage(s.msg) /\ s.bi \in DOMAIN s.msg.blocks
      BY <1>0, <1>3
    <2>2. BlockList(s.msg.blocks) /\ IsBlock(old) /\ TlvList(old.tlvs)
      BY <2>1 DEF IsMessage, BlockList
    <2>3. /\ DOMAIN M = DOMAIN old.tlvs /\ TlvList(M)
          /\ \A t \in DOMAIN M : /\ old.tlvs[t].drop \subseteq M[t].drop
                                 /\ t \in T => s.ai \in M[t].drop
      BY <2>2, MarkedList
    <2>4. /\ u.ptlvs = s.ptlvs /\ DOMAIN u.msg = DOMAIN s.msg
          /\ u.msg.tlvs = s.msg.tlvs /\ u.msg.blocks = bs
      BY <1>3, <2>1 DEF Marks, IsMessage
    <2> HIDE DEF M
    <2>5. IsBlock(x) /\ x.tlvs = M /\ x.drop = old.drop
      BY <2>2 DEF IsBlock
    <2> HIDE DEF x
    <2>6. /\ BlockList(bs) /\ DOMAIN bs = DOMAIN s.msg.blocks /\ bs[s.bi] = x
          /\ \A j \in DOMAIN s.msg.blocks : j # s.bi => bs[j] = s.msg.blocks[j]
      BY <2>1, <2>2, <2>3, <2>5, ReplacedBlock
    <2> HIDE DEF bs
    <2>7. u.msg # NoMsg /\ IsMessage(u.msg)
      BY <1>00, <2>1, <2>4, <2>6 DEF IsMessage
    <2>8. ASSUME NEW b \in DOMAIN u.msg.blocks
          PROVE  /\ u.msg.blocks[b].drop = s.msg.blocks[b].drop
                 /\ \A t \in DOMAIN u.msg.blocks[b].tlvs :
                      /\ t \in DOMAIN s.msg.blocks[b].tlvs
                      /\ s.msg.blocks[b].tlvs[t].drop \subseteq u.msg.blocks[b].tlvs[t].drop
                      /\ b = s.bi /\ t \in T => s.ai \in u.msg.blocks[b].tlvs[t].drop
      <3>1. CASE b = s.bi
        BY <2>3, <2>4, <2>5, <2>6, <3>1
      <3>2. CASE b # s.bi
        BY <2>4, <2>6, <3>2
      <3> QED
        BY <3>1, <3>2
    <2> QED
      BY <1>0, <1>3, <2>4, <2>6, <2>7, <2>8
  <1> QED
    BY <1>1, <1>2, <1>3 DEF Marks

(* TLVs are dropped and marked. *)
LEMMA MarkInv ==
  ASSUME NEW s, NEW u, NEW g, NEW k, NEW T, Inv(s, g), Marks(s, u, k, T),
         k = "packet" <=> s.msg = NoMsg,
         k = "address" => s.bi \in DOMAIN s.msg.blocks,
         NEW p, p = IF k = "address" THEN <<s.bi, s.ai>> ELSE <<0, 0>>,
         s.result = PBB_OKAY, u.result = PBB_OKAY, Shape(u), Position(u), Outcome(u),
         s.stage \notin {"parse", "blocks"}, u.stage \notin {"idle", "parse", "blocks"}
  PROVE  Inv(u, g \cup DropSet(k, p, PBB_DROP_TLV, T))
  <1> DEFINE D == DropSet(k, p, PBB_DROP_TLV, T)
             h == g \cup D
  <1>0. /\ {<<"packet">>, <<"message">>, <<"forward">>} \cap D = {}
        /\ \A b, a : <<"address", <<b, a>>>> \notin D
        /\ \A kk, pp, t : <<"tlv", kk, pp, t>> \in D => kk = k /\ pp = p /\ t \in T
    BY DropSetMembers DEF PBB_DROP_TLV, PBB_DROP_PACKET, PBB_DROP_MESSAGE,
         PBB_DROP_MSG_BUT_FORWARD, PBB_DROP_ADDRESS
  <1> HIDE DEF D
  <1>1. ContextsRemembered(u, h)
    BY <1>0 DEF Inv, ContextsRemembered
  <1>2. k # "packet" =>
          /\ u.msg # NoMsg /\ DOMAIN u.msg.blocks = DOMAIN s.msg.blocks
          /\ \A b \in DOMAIN u.msg.blocks : u.msg.blocks[b].drop = s.msg.blocks[b].drop
    BY MarksKeep DEF Inv
  <1>3. AddressesRemembered(u, h)
    BY <1>0, <1>2 DEF Inv, AddressesRemembered, InBlock, PBB_OKAY, PBB_DROP_TLV,
         PBB_DROP_ADDRESS
  <1>4. TlvsRemembered(u, h)
    <2>1. ASSUME NEW t, <<"tlv", "packet", <<0, 0>>, t>> \in h, t \in DOMAIN u.ptlvs
          PROVE  0 \in u.ptlvs[t].drop
      <3>1. /\ t \in DOMAIN s.ptlvs /\ s.ptlvs[t].drop \subseteq u.ptlvs[t].drop
            /\ k = "packet" /\ t \in T => 0 \in u.ptlvs[t].drop
        BY <2>1, MarksKeep DEF Inv
      <3> QED
        BY <1>0, <2>1, <3>1 DEF Inv, TlvsRemembered
    <2>2. ASSUME NEW t, <<"tlv", "message", <<0, 0>>, t>> \in h
          PROVE  /\ u.msg # NoMsg
                 /\ t \in DOMAIN u.msg.tlvs => 0 \in u.msg.tlvs[t].drop
      <3>1. k # "packet"
        BY <1>0, <2>2 DEF Inv, TlvsRemembered
      <3>2. /\ u.msg # NoMsg
            /\ t \in DOMAIN u.msg.tlvs =>
                 /\ t \in DOMAIN s.msg.tlvs
                 /\ s.msg.tlvs[t].drop \subseteq u.msg.tlvs[t].drop
                 /\ k = "message" /\ t \in T => 0 \in u.msg.tlvs[t].drop
        BY <3>1, MarksKeep DEF Inv
      <3> QED
        BY <1>0, <2>2, <3>2 DEF Inv, TlvsRemembered
    <2>3. ASSUME NEW b, NEW a, NEW t, <<"tlv", "address", <<b, a>>, t>> \in h
          PROVE  /\ u.msg # NoMsg
                 /\ b \in DOMAIN u.msg.blocks /\ t \in DOMAIN u.msg.blocks[b].tlvs =>
                      a \in u.msg.blocks[b].tlvs[t].drop
      <3>1. k # "packet"
        BY <1>0, <2>3 DEF Inv, TlvsRemembered
      <3>2. /\ u.msg # NoMsg /\ DOMAIN u.msg.blocks = DOMAIN s.msg.blocks
            /\ b \in DOMAIN u.msg.blocks /\ t \in DOMAIN u.msg.blocks[b].tlvs =>
                 /\ t \in DOMAIN s.msg.blocks[b].tlvs
                 /\ s.msg.blocks[b].tlvs[t].drop \subseteq u.msg.blocks[b].tlvs[t].drop
                 /\ k = "address" /\ b = s.bi /\ t \in T =>
                      s.ai \in u.msg.blocks[b].tlvs[t].drop
        BY <3>1, MarksKeep DEF Inv
      <3>3. CASE <<"tlv", "address", <<b, a>>, t>> \in g
        BY <3>2, <3>3 DEF Inv, TlvsRemembered
      <3>4. CASE <<"tlv", "address", <<b, a>>, t>> \in D
        <4>1. k = "address" /\ <<b, a>> = <<s.bi, s.ai>> /\ t \in T
          BY <1>0, <3>4
        <4>2. b = s.bi /\ a = s.ai
          BY <4>1
        <4> QED
          BY <3>2, <4>1, <4>2
      <3> QED
        BY <2>3, <3>3, <3>4
    <2> QED
      BY <2>1, <2>2, <2>3 DEF TlvsRemembered
  <1>5. NothingYet(u, h)
    BY DEF NothingYet
  <1> QED
    BY <1>1, <1>3, <1>4, <1>5 DEF Inv, D

(* DropTlvs() marks. *)
LEMMA DropTlvsMarks ==
  ASSUME NEW c, c.kind \in {"packet", "message", "address"}, NEW T,
         NEW s, DOMAIN s = Fields, s.bi = rd.bi, s.ai = rd.ai
  PROVE  LET u == DropTlvs(c, s, T)
         IN /\ DOMAIN u = Fields
            /\ \A f \in Fields \ {"ptlvs", "msg"} : u[f] = s[f]
            /\ Marks(s, u, c.kind, T)
  <1> DEFINE u == DropTlvs(c, s, T)
  <1>1. CASE c.kind = "packet"
    <2>1. u = [s EXCEPT !.ptlvs = Marked(s.ptlvs, T, 0)]
      BY <1>1 DEF DropTlvs, Marked, Index
    <2> QED
      BY <1>1, <2>1 DEF Marks, Fields
  <1>2. CASE c.kind = "message"
    <2>1. u = [s EXCEPT !.msg = [s.msg EXCEPT !.tlvs = Marked(s.msg.tlvs, T, 0)]]
      BY <1>2 DEF DropTlvs, Marked, Index
    <2> QED
      BY <1>2, <2>1 DEF Marks, Fields
  <1>3. CASE c.kind = "address"
    <2> DEFINE blk == s.msg.blocks[s.bi]
               new == [blk EXCEPT !.tlvs = Marked(blk.tlvs, T, s.ai)]
    <2>1. u = [s EXCEPT !.msg = [s.msg EXCEPT !.blocks = [s.msg.blocks EXCEPT ![s.bi] = new]]]
      BY <1>3 DEF DropTlvs, Marked, Index
    <2> QED
      BY <1>3, <2>1 DEF Marks, Fields
  <1> QED
    BY <1>1, <1>2, <1>3

(* The consumer of the current context: which list it is in, and where the  *)
(* context of an address consumer is.                                       *)
Context(s, c) ==
  /\ s.ci \in Nat \ {0}
  /\ c.kind \in {"packet", "message", "address"}
  /\ c.kind = "packet" <=> s.msg = NoMsg
  /\ c.kind = "packet" => s.ci <= Len(PacketConsumers)
  /\ c.kind # "packet" => s.ci <= Len(MessageConsumers) /\ MessageConsumers[s.ci] = c
  /\ c.kind = "address" => s.bi > 0 /\ s.bi \in DOMAIN s.msg.blocks

(* The merge of a consumer's entries with the TLVs begins. *)
LEMMA MergeState ==
  ASSUME NEW c, NEW s, Shape(s), s.stage # "parse", Context(s, c), s.result = PBB_OKAY,
         c.kind = "address" => s.ai \notin s.msg.blocks[s.bi].drop
  PROVE  LET u == Merge(c, s)
         IN /\ Shape(u) /\ Position(u) /\ Outcome(u) /\ u.stage = "tlvs"
            /\ u.result = s.result /\ u.msg = s.msg /\ u.ptlvs = s.ptlvs
  <1> DEFINE u == Merge(c, s)
  <1>1. /\ DOMAIN u = Fields /\ u.stage = "tlvs"
        /\ u.drops = s.drops /\ u.bi = s.bi /\ u.ai = s.ai /\ u.first = s.first
        /\ u.last = s.last /\ u.ptlvs = s.ptlvs /\ u.msg = s.msg /\ u.blk = s.blk
        /\ u.ci = s.ci /\ u.result = s.result
    BY DEF Merge, Shape, Fields
  <1> HIDE DEF u
  <1>2. Shape(u)
    BY <1>1 DEF Shape
  <1>3. Position(u) /\ Outcome(u)
    BY <1>1 DEF Position, Outcome, Context
  <1> QED
    BY <1>1, <1>2, <1>3 DEF u

(* A consumer is done with its context. *)
LEMMA AfterConsumerState ==
  ASSUME NEW c, NEW s, Shape(s), s.stage # "parse", Context(s, c),
         s.result \in PBB_OKAY..PBB_DROP_PACKET
  PROVE  LET u == AfterConsumer(c, s)
         IN /\ Shape(u) /\ Position(u) /\ Outcome(u)
            /\ u.stage \in {"packet", "endpkt", "consumer", "endmsg", "cleanup", "addrend"}
            /\ u.stage = "addrend" => c.kind = "address"
            /\ u.result = s.result /\ u.msg = s.msg /\ u.ptlvs = s.ptlvs
            /\ u.bi = s.bi /\ u.ai = s.ai
  <1> DEFINE u == AfterConsumer(c, s)
             Same == /\ DOMAIN u = Fields
                     /\ u.drops = s.drops /\ u.bi = s.bi /\ u.ai = s.ai /\ u.first = s.first
                     /\ u.last = s.last /\ u.ptlvs = s.ptlvs /\ u.msg = s.msg /\ u.blk = s.blk
                     /\ u.result = s.result
  <1>0. DOMAIN s = Fields
    BY DEF Shape
  <1>1. CASE c.kind = "packet"
    <2>1. /\ Same
          /\ \/ u.stage = "packet" /\ u.ci = s.ci + 1 /\ s.result = PBB_OKAY
             \/ u.stage = "endpkt" /\ u.ci = s.ci
      BY <1>0, <1>1 DEF AfterConsumer, Fields
    <2> HIDE DEF u
    <2>2. Shape(u)
      BY <2>1 DEF Shape
    <2>3. Position(u) /\ Outcome(u)
      BY <1>1, <2>1 DEF Position, Outcome, Context
    <2> QED
      BY <2>1, <2>2, <2>3 DEF u
  <1>2. CASE c.kind = "message"
    <2>1. /\ Same
          /\ \/ u.stage = "consumer" /\ u.ci = s.ci + 1 /\ s.result = PBB_OKAY
             \/ /\ u.stage = (IF s.first # 0 THEN "endmsg" ELSE "cleanup")
                /\ u.ci = s.ci /\ u.down = s.last
      BY <1>0, <1>2 DEF AfterConsumer, LeaveConsumers, Fields
    <2> HIDE DEF u
    <2>2. Shape(u)
      BY <2>1 DEF Shape
    <2>3. Position(u) /\ Outcome(u)
      BY <1>2, <2>1, ConsumersAssumption DEF Position, Outcome, Context, Shape
    <2> QED
      BY <2>1, <2>2, <2>3 DEF u
  <1>3. CASE c.kind = "address"
    <2>1. Same /\ u.stage = "addrend" /\ u.ci = s.ci
      BY <1>0, <1>3 DEF AfterConsumer, Fields
    <2> HIDE DEF u
    <2>2. Shape(u)
      BY <2>1 DEF Shape
    <2>3. Position(u) /\ Outcome(u)
      BY <1>3, <2>1 DEF Position, Outcome, Context
    <2> QED
      BY <1>3, <2>1, <2>2, <2>3 DEF u
  <1> QED
    BY <1>1, <1>2, <1>3 DEF Context

(* The start callback of a context. *)
LEMMA StartInv ==
  ASSUME Inv(rd, gone), History, NEW c, NEW kinds, Installed(c, kinds),
         rd.stage \in {"packet", "consumer", "address"}, Context(rd, c),
         c.kind = "address" => rd.ai \notin rd.msg.blocks[rd.bi].drop,
         NEW r \in Results(c, "start"), Called(c, "start", r, {}),
         NEW s, Shape(s), Context(s, c), s.stage # "parse",
         s.result = r, s.msg = rd.msg, s.ptlvs = rd.ptlvs, s.bi = rd.bi, s.ai = rd.ai,
         rd' = AfterConsumer(c, s) \/ (rd' = Merge(c, s) /\ r = PBB_OKAY)
  PROVE  Inv(rd, gone)'
  <1>1. /\ r \in PBB_OKAY..PBB_DROP_PACKET /\ rd.result = PBB_OKAY
        /\ "start" \notin c.callbacks => r = PBB_OKAY
    BY ResultsRange DEF Inv, Shape, Outcome
  <1>2. /\ Shape(rd') /\ Position(rd') /\ Outcome(rd')
        /\ rd'.stage \notin {"idle", "message", "parse", "blocks"}
        /\ rd'.stage = "addrend" => c.kind = "address" /\ rd'.bi = rd.bi /\ rd'.ai = rd.ai
        /\ rd'.result = r /\ rd'.msg = rd.msg /\ rd'.ptlvs = rd.ptlvs
    <2>1. CASE rd' = AfterConsumer(c, s)
      BY <1>1, <2>1, AfterConsumerState
    <2>2. CASE rd' = Merge(c, s) /\ r = PBB_OKAY
      BY <2>2, MergeState
    <2> QED
      BY <2>1, <2>2
  <1>3. gone' = gone \cup DropSet(c.kind, Place(c), r, {})
    BY <1>1, <1>2, CalledHistory
  <1>4. rd'.result = IF r > rd.result THEN r ELSE rd.result
    BY <1>1, <1>2 DEF PBB_OKAY, PBB_DROP_PACKET
  <1>5. rd.result \in PBB_OKAY..PBB_DROP_PACKET
    BY <1>1 DEF PBB_OKAY, PBB_DROP_PACKET
  <1>6. c.kind = "address" => Place(c) = <<rd.bi, rd.ai>>
    BY DEF Place
  <1> QED
    BY <1>1, <1>2, <1>3, <1>4, <1>5, <1>6, ResultInv

LEMMA StartPacketInv ==
  ASSUME Inv(rd, gone), History, StartPacketConsumer
  PROVE  Inv(rd, gone)'
  <1> DEFINE c == PacketConsumers[rd.ci]
             S(r) == [rd EXCEPT !.result = r, !.drops = Drops(r)]
  <1>0. DOMAIN rd = Fields /\ rd.ci \in Nat \ {0} /\ rd.drops \in Nat
    BY DEF Inv, Shape, Position, StartPacketConsumer
  <1>1. PICK r \in Results(c, "start") :
          /\ Called(c, "start", r, {})
          /\ rd' = AfterConsumer(c, S(r)) \/ (rd' = Merge(c, S(r)) /\ r = PBB_OKAY)
    BY DEF StartPacketConsumer
  <1>2. rd.stage = "packet" /\ rd.ci \in 1..Len(PacketConsumers) /\ rd.msg = NoMsg
    BY <1>0, ConsumersAssumption DEF StartPacketConsumer, Inv, Position
  <1>3. Installed(c, {"packet"}) /\ c.kind = "packet"
    BY <1>2, ConsumersAssumption DEF Installed
  <1>4. Context(rd, c)
    BY <1>0, <1>2, <1>3 DEF Context
  <1>5. Drops(r) \in Nat
    BY <1>0, <1>1, <1>3, ResultsRange
  <1> HIDE DEF c
  <1>6. /\ DOMAIN S(r) = Fields /\ S(r).result = r /\ S(r).drops \in Nat
        /\ S(r).stage = "packet"
        /\ S(r).bi = rd.bi /\ S(r).ai = rd.ai /\ S(r).first = rd.first
        /\ S(r).last = rd.last /\ S(r).ptlvs = rd.ptlvs /\ S(r).msg = rd.msg
        /\ S(r).blk = rd.blk /\ S(r).ci = rd.ci
    BY <1>0, <1>2, <1>5 DEF Fields
  <1> HIDE DEF S
  <1>7. Shape(S(r)) /\ Context(S(r), c)
    BY <1>2, <1>4, <1>6 DEF Inv, Shape, Context
  <1> QED
    BY <1>1, <1>2, <1>3, <1>4, <1>6, <1>7, StartInv

LEMMA StartMessageInv ==
  ASSUME Inv(rd, gone), History, StartMessageConsumer
  PROVE  Inv(rd, gone)'
  <1> DEFINE c == MessageConsumers[rd.ci]
             S(r) == [rd EXCEPT !.result = r, !.drops = Drops(r), !.last = rd.ci,
                                !.first = IF @ = 0 THEN rd.ci ELSE @]
  <1>0. DOMAIN rd = Fields /\ rd.ci \in Nat \ {0} /\ rd.drops \in Nat
    BY DEF Inv, Shape, Position, StartMessageConsumer
  <1>1. PICK r \in Results(c, "start") :
          /\ Called(c, "start", r, {})
          /\ rd' = AfterConsumer(c, S(r)) \/ (rd' = Merge(c, S(r)) /\ r = PBB_OKAY)
    BY DEF StartMessageConsumer
  <1>2. /\ rd.stage = "consumer" /\ rd.ci \in 1..Len(MessageConsumers) /\ rd.msg # NoMsg
        /\ c.kind = "message"
    BY <1>0, ConsumersAssumption DEF StartMessageConsumer, Inv, Position
  <1>3. Installed(c, {"message", "address"})
    BY <1>2, ConsumersAssumption
  <1>4. Context(rd, c)
    BY <1>0, <1>2 DEF Context
  <1>5. Drops(r) \in Nat
    BY <1>0, <1>1, <1>2, <1>3, ResultsRange
  <1>6. /\ DOMAIN S(r) = Fields /\ S(r).result = r /\ S(r).drops \in Nat
        /\ S(r).stage = "consumer"
        /\ S(r).bi = rd.bi /\ S(r).ai = rd.ai
        /\ S(r).first = (IF rd.first = 0 THEN rd.ci ELSE rd.first)
        /\ S(r).last = rd.ci /\ S(r).ptlvs = rd.ptlvs /\ S(r).msg = rd.msg
        /\ S(r).blk = rd.blk /\ S(r).ci = rd.ci
    BY <1>0, <1>2, <1>5 DEF Fields
  <1> HIDE DEF S
  <1>7. Shape(S(r)) /\ Context(S(r), c)
    <2>1. S(r).first \in Nat /\ S(r).last \in 0..Len(MessageConsumers)
      BY <1>0, <1>2, <1>6, ConsumersAssumption DEF Inv, Shape
    <2>2. Shape(S(r))
      BY <1>2, <1>6, <2>1 DEF Inv, Shape
    <2> QED
      BY <1>4, <1>6, <2>2 DEF Context
  <1> HIDE DEF c
  <1> QED
    BY <1>1, <1>2, <1>3, <1>4, <1>6, <1>7, StartInv

(* The positions of a list of blocks. *)
LEMMA BlockPositions ==
  ASSUME NEW l, BlockList(l)
  PROVE  Len(l) \in Nat /\ DOMAIN l = 1..Len(l)
  BY DEF BlockList, IsSeq

LEMMA StartAddressInv ==
  ASSUME Inv(rd, gone), History, StartAddress
  PROVE  Inv(rd, gone)'
  <1> DEFINE c == MessageConsumers[rd.ci]
             S(r) == [rd EXCEPT !.result = r, !.drops = Drops(r)]
  <1>0. DOMAIN rd = Fields /\ rd.ci \in Nat \ {0} /\ rd.drops \in Nat
    BY DEF Inv, Shape, Position, StartAddress
  <1>1. PICK r \in Results(c, "start") :
          /\ Called(c, "start", r, {})
          /\ rd' = AfterConsumer(c, S(r)) \/ (rd' = Merge(c, S(r)) /\ r = PBB_OKAY)
    BY DEF StartAddress
  <1>2. /\ rd.stage = "address" /\ rd.ci \in 1..Len(MessageConsumers) /\ rd.msg # NoMsg
        /\ c.kind = "address" /\ rd.bi > 0 /\ rd.bi <= Len(rd.msg.blocks)
        /\ rd.ai \notin rd.msg.blocks[rd.bi].drop
    BY <1>0, ConsumersAssumption DEF StartAddress, Block, Inv, Position
  <1>3. Installed(c, {"message", "address"})
    BY <1>2, ConsumersAssumption
  <1>4. rd.bi \in DOMAIN rd.msg.blocks
    <2>1. BlockList(rd.msg.blocks) /\ rd.bi \in Nat
      BY <1>2 DEF Inv, Shape, IsMessage
    <2> QED
      BY <1>2, <2>1, BlockPositions
  <1>5. Context(rd, c)
    BY <1>0, <1>2, <1>4 DEF Context
  <1>6. Drops(r) \in Nat
    BY <1>0, <1>1, <1>2, <1>3, ResultsRange
  <1> HIDE DEF c
  <1>7. /\ DOMAIN S(r) = Fields /\ S(r).result = r /\ S(r).drops \in Nat
        /\ S(r).stage = "address"
        /\ S(r).bi = rd.bi /\ S(r).ai = rd.ai /\ S(r).first = rd.first
        /\ S(r).last = rd.last /\ S(r).ptlvs = rd.ptlvs /\ S(r).msg = rd.msg
        /\ S(r).blk = rd.blk /\ S(r).ci = rd.ci
    BY <1>0, <1>2, <1>6 DEF Fields
  <1> HIDE DEF S
  <1>8. Shape(S(r)) /\ Context(S(r), c)
    BY <1>2, <1>5, <1>7 DEF Inv, Shape, Context
  <1> QED
    BY <1>1, <1>2, <1>3, <1>5, <1>7, <1>8, StartInv

LEMMA EndPacketInv ==
  ASSUME Inv(rd, gone), History, EndPacketConsumer
  PROVE  Inv(rd, gone)'
  <1> DEFINE c == PacketConsumers[rd.down]
  <1>1. /\ rd.stage = "endpkt" /\ Called(c, "end", PBB_OKAY, {}) /\ DOMAIN rd' = Fields
        /\ rd'.stage = "endpkt" /\ rd'.drops = rd.drops /\ rd'.bi = rd.bi
        /\ rd'.first = rd.first /\ rd'.last = rd.last /\ rd'.ptlvs = rd.ptlvs
        /\ rd'.msg = rd.msg /\ rd'.blk = rd.blk /\ rd'.ci = rd.ci /\ rd'.result = rd.result
    BY DEF EndPacketConsumer, Inv, Shape, Fields
  <1>2. Shape(rd') /\ Position(rd') /\ Outcome(rd')
    BY <1>1 DEF Inv, Shape, Position, Outcome
  <1> HIDE DEF c
  <1>3. gone' = gone \cup DropSet(c.kind, Place(c), PBB_OKAY, {})
    BY <1>1, CalledHistory
  <1>4. DropSet(c.kind, Place(c), PBB_OKAY, {}) = {}
    BY DEF DropSet, PBB_OKAY, PBB_DROP_PACKET, PBB_DROP_MESSAGE,
           PBB_DROP_MSG_BUT_FORWARD, PBB_DROP_ADDRESS, PBB_DROP_TLV
  <1>5. gone' = gone
    BY <1>3, <1>4
  <1> QED
    BY <1>1, <1>2, <1>5, FrameInv

LEMMA EndMessageInv ==
  ASSUME Inv(rd, gone), History, EndMessageConsumer
  PROVE  Inv(rd, gone)'
  <1> DEFINE c == MessageConsumers[rd.down]
             d == IF Wants(c) THEN c ELSE [c EXCEPT !.callbacks = {}]
  <1>0. DOMAIN rd = Fields /\ rd.drops \in Nat
    BY DEF Inv, Shape
  <1>1. /\ rd.stage = "endmsg" /\ rd.down >= rd.first
        /\ \E r \in Results(d, "end") :
             /\ Called(d, "end", r, {})
             /\ rd' = [rd EXCEPT !.down = @ - 1, !.drops = Drops(r),
                                 !.result = IF r > @ THEN r ELSE @]
    BY DEF EndMessageConsumer
  <1>2. rd.down \in 1..Len(MessageConsumers) /\ rd.result \in PBB_OKAY..PBB_DROP_PACKET
    BY <1>1, ConsumersAssumption DEF Inv, Shape, Position, Outcome
  <1>3. Installed(c, {"message", "address"})
    BY <1>2, ConsumersAssumption
  <1> HIDE DEF c
  <1>4. Installed(d, {"message", "address"}) /\ d.kind # "packet"
    BY <1>3 DEF Installed
  <1> HIDE DEF d
  <1>5. PICK r \in Results(d, "end") :
             /\ Called(d, "end", r, {})
             /\ rd' = [rd EXCEPT !.down = @ - 1, !.drops = Drops(r),
                                 !.result = IF r > @ THEN r ELSE @]
    BY <1>1
  <1>6. /\ r \in PBB_OKAY..PBB_DROP_PACKET /\ Drops(r) \in Nat
        /\ "end" \notin d.callbacks => r = PBB_OKAY
    BY <1>0, <1>4, ResultsRange
  <1>7. /\ DOMAIN rd' = Fields /\ rd'.stage = "endmsg" /\ rd'.drops = Drops(r)
        /\ rd'.bi = rd.bi /\ rd'.first = rd.first /\ rd'.last = rd.last
        /\ rd'.ptlvs = rd.ptlvs /\ rd'.msg = rd.msg /\ rd'.blk = rd.blk /\ rd'.ci = rd.ci
        /\ rd'.down = rd.down - 1
        /\ rd'.result = IF r > rd.result THEN r ELSE rd.result
    BY <1>0, <1>1, <1>5 DEF Fields
  <1>8. Shape(rd') /\ Position(rd') /\ Outcome(rd')
    <2>1. Shape(rd')
      BY <1>1, <1>6, <1>7 DEF Inv, Shape
    <2>2. rd'.down \in Int /\ rd'.down <= Len(MessageConsumers)
      BY <1>2, <1>7, ConsumersAssumption
    <2>3. Position(rd')
      BY <1>1, <1>7, <2>2 DEF Inv, Position
    <2>4. Outcome(rd')
      BY <1>2, <1>6, <1>7 DEF Outcome
    <2> QED
      BY <2>1, <2>3, <2>4
  <1>9. gone' = gone \cup DropSet(d.kind, Place(d), r, {})
    BY <1>5, <1>6, <1>7, CalledHistory
  <1> QED
    BY <1>1, <1>2, <1>6, <1>7, <1>8, <1>9, ResultInv

(* An address is dropped: its block remembers it, and the result is reset.  *)
LEMMA DropAddressInv ==
  ASSUME NEW s, NEW u, NEW g, NEW k, Inv(s, g), s.stage = "addrend",
         NEW r \in PBB_OKAY..PBB_DROP_ADDRESS, s.result \in PBB_OKAY..PBB_DROP_ADDRESS,
         DOMAIN u = Fields, u.stage = "address", u.result = PBB_OKAY, u.drops \in Nat,
         u.ci = s.ci, u.bi = s.bi, u.first = s.first, u.last = s.last,
         u.ptlvs = s.ptlvs, u.blk = s.blk, NEW blk, blk = s.msg.blocks[s.bi],
         NEW new, new = [blk EXCEPT !.drop = blk.drop \cup {s.ai}],
         u.msg = [s.msg EXCEPT !.blocks = [s.msg.blocks EXCEPT ![s.bi] = new]]
  PROVE  Inv(u, g \cup DropSet(k, <<s.bi, s.ai>>, r, {}))
  <1> DEFINE D == DropSet(k, <<s.bi, s.ai>>, r, {})
             h == g \cup D
             bs == [s.msg.blocks EXCEPT ![s.bi] = new]
  <1>0. /\ {<<"packet">>, <<"message">>, <<"forward">>} \cap D = {}
        /\ \A b, a : <<"address", <<b, a>>>> \in D => <<s.bi, s.ai>> = <<b, a>>
        /\ \A kk, pp, t : <<"tlv", kk, pp, t>> \notin D
    BY DropSetMembers DEF PBB_OKAY, PBB_DROP_PACKET, PBB_DROP_MESSAGE,
         PBB_DROP_MSG_BUT_FORWARD, PBB_DROP_ADDRESS
  <1> HIDE DEF D
  <1>1. s.msg # NoMsg /\ IsMessage(s.msg) /\ s.bi \in DOMAIN s.msg.blocks
    BY DEF Inv, Shape, Position
  <1>2. BlockList(s.msg.blocks) /\ IsBlock(blk) /\ TlvList(blk.tlvs)
    BY <1>1 DEF IsMessage, BlockList
  <1>3. IsBlock(new) /\ new.tlvs = blk.tlvs /\ new.drop = blk.drop \cup {s.ai}
    BY <1>2 DEF IsBlock
  <1>4. /\ BlockList(bs) /\ DOMAIN bs = DOMAIN s.msg.blocks /\ bs[s.bi] = new
        /\ \A j \in DOMAIN s.msg.blocks : j # s.bi => bs[j] = s.msg.blocks[j]
    BY <1>1, <1>2, <1>3, ReplacedBlock
  <1>5. /\ DOMAIN u.msg = DOMAIN s.msg /\ u.msg.tlvs = s.msg.tlvs /\ u.msg.blocks = bs
    BY <1>1 DEF IsMessage
  <1> HIDE DEF bs
  <1>6. "tlvs" \notin DOMAIN NoMsg
    BY DEF NoMsg
  <1>7. IsMessage(u.msg) /\ u.msg # NoMsg
    BY <1>1, <1>4, <1>5, <1>6 DEF IsMessage
  <1>8. \A b \in DOMAIN u.msg.blocks :
          /\ u.msg.blocks[b].tlvs = s.msg.blocks[b].tlvs
          /\ s.msg.blocks[b].drop \subseteq u.msg.blocks[b].drop
          /\ b = s.bi => s.ai \in u.msg.blocks[b].drop
    <2>1. TAKE b \in DOMAIN u.msg.blocks
    <2>2. CASE b = s.bi
      BY <1>3, <1>4, <1>5, <2>2
    <2>3. CASE b # s.bi
      BY <1>4, <1>5, <2>3
    <2> QED
      BY <2>2, <2>3
  <1>9. Shape(u) /\ Position(u) /\ Outcome(u)
    BY <1>7 DEF Inv, Shape, Position, Outcome
  <1>10. ContextsRemembered(u, h)
    BY <1>0 DEF Inv, ContextsRemembered, PBB_OKAY, PBB_DROP_ADDRESS, PBB_DROP_PACKET,
         PBB_DROP_MESSAGE, PBB_DROP_MSG_BUT_FORWARD
  <1>11. AddressesRemembered(u, h)
    <2>1. ASSUME NEW b, NEW a, <<"address", <<b, a>>>> \in h
          PROVE  InBlock(u, b, a)
      <3>1. InBlock(s, b, a) \/ (b = s.bi /\ a = s.ai)
        <4>1. CASE <<"address", <<b, a>>>> \in g
          <5>1. s.result \in {PBB_OKAY, PBB_DROP_TLV, PBB_DROP_ADDRESS}
            BY DEF PBB_OKAY, PBB_DROP_TLV, PBB_DROP_ADDRESS
          <5> QED
            BY <4>1, <5>1 DEF Inv, AddressesRemembered
        <4>2. CASE <<"address", <<b, a>>>> \in D
          BY <1>0, <4>2
        <4> QED
          BY <2>1, <4>1, <4>2
      <3> QED
        BY <1>1, <1>4, <1>5, <1>7, <1>8, <3>1 DEF InBlock
    <2> QED
      BY <2>1 DEF AddressesRemembered
  <1>12. TlvsRemembered(u, h)
    BY <1>0, <1>1, <1>4, <1>5, <1>7, <1>8 DEF Inv, TlvsRemembered
  <1>13. NothingYet(u, h)
    BY DEF NothingYet
  <1> QED
    BY <1>9, <1>10, <1>11, <1>12, <1>13 DEF Inv, D

LEMMA EndAddressInv ==
  ASSUME Inv(rd, gone), History, EndAddress
  PROVE  Inv(rd, gone)'
  <1> DEFINE c == MessageConsumers[rd.ci]
             Result(r) == IF r > rd.result THEN r ELSE rd.result
             S(r) == [rd EXCEPT !.result = Result(r), !.drops = Drops(r)]
  <1>0. DOMAIN rd = Fields /\ rd.drops \in Nat
    BY DEF Inv, Shape
  <1>1. PICK r \in Results(c, "end") :
          /\ Called(c, "end", r, {})
          /\ rd' = CASE Result(r) = PBB_OKAY -> [S(r) EXCEPT !.stage = "address", !.ai = @ + 1]
                     [] Result(r) = PBB_DROP_ADDRESS ->
                          [S(r) EXCEPT !.stage = "address", !.ai = @ + 1, !.result = PBB_OKAY,
                                       !.msg.blocks[rd.bi].drop = @ \cup {rd.ai}]
                     [] OTHER -> LeaveConsumers(S(r))
    BY DEF EndAddress
  <1>2. /\ rd.stage = "addrend" /\ rd.ci \in 1..Len(MessageConsumers) /\ c.kind = "address"
        /\ rd.result \in PBB_OKAY..PBB_DROP_PACKET
    BY ConsumersAssumption DEF EndAddress, Inv, Position, Outcome
  <1>3. Installed(c, {"message", "address"})
    BY <1>2, ConsumersAssumption
  <1> HIDE DEF c
  <1>4. /\ r \in PBB_OKAY..PBB_DROP_PACKET /\ Drops(r) \in Nat
        /\ "end" \notin c.callbacks => r = PBB_OKAY
    BY <1>0, <1>2, <1>3, ResultsRange
  <1>called. Called(c, "end", r, {})
    BY <1>1
  <1>5. Place(c) = <<rd.bi, rd.ai>>
    BY <1>2 DEF Place
  <1>6. /\ DOMAIN S(r) = Fields /\ S(r).result = Result(r) /\ S(r).drops = Drops(r)
        /\ S(r).bi = rd.bi /\ S(r).ai = rd.ai /\ S(r).first = rd.first
        /\ S(r).last = rd.last /\ S(r).ptlvs = rd.ptlvs /\ S(r).msg = rd.msg
        /\ S(r).blk = rd.blk /\ S(r).ci = rd.ci
    BY <1>0 DEF Fields
  <1> HIDE DEF S
  <1>7. CASE Result(r) = PBB_OKAY
    <2>1. rd' = [S(r) EXCEPT !.stage = "address", !.ai = @ + 1]
      BY <1>1, <1>7 DEF PBB_OKAY, PBB_DROP_ADDRESS
    <2>2. /\ DOMAIN rd' = Fields /\ rd'.stage = "address" /\ rd'.drops = Drops(r)
          /\ rd'.bi = rd.bi /\ rd'.first = rd.first /\ rd'.last = rd.last
          /\ rd'.ptlvs = rd.ptlvs /\ rd'.msg = rd.msg /\ rd'.blk = rd.blk /\ rd'.ci = rd.ci
          /\ rd'.result = Result(r)
      BY <1>6, <2>1 DEF Fields
    <2>3. Shape(rd') /\ Position(rd') /\ Outcome(rd')
      BY <1>2, <1>4, <1>7, <2>2 DEF Inv, Shape, Position, Outcome
    <2>4. gone' = gone \cup DropSet(c.kind, Place(c), r, {})
      BY <1>called, <1>4, <2>2, CalledHistory
    <2> QED
      BY <1>2, <1>4, <2>2, <2>3, <2>4, ResultInv
  <1>8. CASE Result(r) = PBB_DROP_ADDRESS
    <2> DEFINE blk == rd.msg.blocks[rd.bi]
               new == [blk EXCEPT !.drop = blk.drop \cup {rd.ai}]
    <2>1. rd' = [S(r) EXCEPT !.stage = "address", !.ai = @ + 1, !.result = PBB_OKAY,
                             !.msg.blocks[rd.bi].drop = @ \cup {rd.ai}]
      BY <1>1, <1>8 DEF PBB_OKAY, PBB_DROP_ADDRESS
    <2>2. /\ DOMAIN rd' = Fields /\ rd'.stage = "address" /\ rd'.drops = Drops(r)
          /\ rd'.bi = rd.bi /\ rd'.first = rd.first /\ rd'.last = rd.last
          /\ rd'.ptlvs = rd.ptlvs /\ rd'.blk = rd.blk /\ rd'.ci = rd.ci
          /\ rd'.result = PBB_OKAY
          /\ rd'.msg = [rd.msg EXCEPT !.blocks = [rd.msg.blocks EXCEPT ![rd.bi] = new]]
      BY <1>6, <2>1 DEF Fields
    <2>3. r \in PBB_OKAY..PBB_DROP_ADDRESS /\ rd.result \in PBB_OKAY..PBB_DROP_ADDRESS
      BY <1>2, <1>4, <1>8 DEF PBB_OKAY, PBB_DROP_ADDRESS, PBB_DROP_PACKET
    <2>4. gone' = gone \cup DropSet(c.kind, <<rd.bi, rd.ai>>, r, {})
      BY <1>called, <1>4, <1>5, <2>2, CalledHistory
    <2> HIDE DEF blk, new
    <2>5. Inv(rd', gone \cup DropSet(c.kind, <<rd.bi, rd.ai>>, r, {}))
      BY <1>2, <1>4, <2>2, <2>3, DropAddressInv DEF blk, new
    <2> QED
      BY <2>4, <2>5
  <1>9. CASE Result(r) \notin {PBB_OKAY, PBB_DROP_ADDRESS}
    <2>1. rd' = LeaveConsumers(S(r))
      BY <1>1, <1>9
    <2>2. /\ DOMAIN rd' = Fields
          /\ rd'.stage = (IF rd.first # 0 THEN "endmsg" ELSE "cleanup")
          /\ rd'.drops = Drops(r) /\ rd'.down = rd.last
          /\ rd'.bi = rd.bi /\ rd'.first = rd.first /\ rd'.last = rd.last
          /\ rd'.ptlvs = rd.ptlvs /\ rd'.msg = rd.msg /\ rd'.blk = rd.blk /\ rd'.ci = rd.ci
          /\ rd'.result = Result(r)
      BY <1>6, <2>1 DEF LeaveConsumers, Fields
    <2>3. Shape(rd') /\ Position(rd') /\ Outcome(rd')
      BY <1>2, <1>4, <2>2, ConsumersAssumption DEF Inv, Shape, Position, Outcome
    <2>4. gone' = gone \cup DropSet(c.kind, Place(c), r, {})
      BY <1>called, <1>4, <2>2, CalledHistory
    <2> QED
      BY <1>2, <1>4, <2>2, <2>3, <2>4, ResultInv
  <1> QED
    BY <1>7, <1>8, <1>9

(* The consumer whose TLVs are handed over. *)
LEMMA TlvsContext ==
  ASSUME Inv(rd, gone), rd.stage = "tlvs", NEW c, c = Consumers[rd.ci]
  PROVE  /\ Context(rd, c) /\ Installed(c, {"packet", "message", "address"})
         /\ c.kind = "address" => rd.ai \notin rd.msg.blocks[rd.bi].drop
  <1>0. rd.ci \in Nat \ {0}
    BY DEF Inv, Position
  <1>1. CASE rd.msg = NoMsg
    <2>1. rd.ci \in 1..Len(PacketConsumers) /\ c = PacketConsumers[rd.ci]
      BY <1>0, <1>1, ConsumersAssumption DEF Inv, Position, Consumers
    <2>2. Installed(c, {"packet"})
      BY <2>1, ConsumersAssumption
    <2> QED
      BY <1>0, <1>1, <2>1, <2>2 DEF Installed, Context
  <1>2. CASE rd.msg # NoMsg
    <2>1. rd.ci \in 1..Len(MessageConsumers) /\ c = MessageConsumers[rd.ci]
      BY <1>0, <1>2, ConsumersAssumption DEF Inv, Position, Consumers
    <2>2. Installed(c, {"message", "address"})
      BY <2>1, ConsumersAssumption
    <2>3. c.kind = "address" =>
            /\ rd.bi > 0 /\ rd.bi \in DOMAIN rd.msg.blocks
            /\ rd.ai \notin rd.msg.blocks[rd.bi].drop
      BY <1>2, <2>1 DEF Inv, Position
    <2> QED
      BY <1>0, <1>2, <2>1, <2>2, <2>3 DEF Installed, Context
  <1> QED
    BY <1>1, <1>2

(* The end of a round changes only what the merge knows. *)
LEMMA RoundFields ==
  ASSUME NEW c, NEW tlvs, NEW r, NEW s, DOMAIN s = Fields, NEW u,
         u = Advance(NoteEntry(c, tlvs, r, s), tlvs, c.entries)
  PROVE  /\ DOMAIN u = Fields /\ u.result = s.result /\ u.drops = s.drops
         /\ u.stage = s.stage /\ u.bi = s.bi /\ u.ai = s.ai /\ u.first = s.first
         /\ u.last = s.last /\ u.ptlvs = s.ptlvs /\ u.msg = s.msg
         /\ u.blk = s.blk /\ u.ci = s.ci
  <1> DEFINE n == NoteEntry(c, tlvs, r, s)
  <1>1. /\ DOMAIN n = Fields
        /\ \A f \in Fields \ {"missing", "found"} : n[f] = s[f]
    BY DEF NoteEntry, Fields
  <1> HIDE DEF n
  <1>2. /\ DOMAIN u = Fields
        /\ \A f \in Fields \ {"ti", "ei"} : u[f] = n[f]
    BY <1>1 DEF Advance, Fields, n
  <1> QED
    BY <1>1, <1>2 DEF Fields

(* TLVs are marked as dropped, and the reader goes on in the context. *)
LEMMA MarkedState ==
  ASSUME NEW c, NEW s, NEW u, NEW T, Inv(rd, gone), rd.stage = "tlvs", Context(rd, c),
         c.kind = "address" => rd.ai \notin rd.msg.blocks[rd.bi].drop,
         DOMAIN s = Fields, s.result = PBB_OKAY, s.drops \in Nat,
         s.stage = "tlvs", s.bi = rd.bi, s.ai = rd.ai, s.first = rd.first,
         s.last = rd.last, s.ptlvs = rd.ptlvs, s.msg = rd.msg, s.blk = rd.blk, s.ci = rd.ci,
         u = DropTlvs(c, s, T)
  PROVE  /\ Marks(rd, u, c.kind, T) /\ Shape(u) /\ Context(u, c) /\ Position(u) /\ Outcome(u)
         /\ u.stage = "tlvs" /\ u.result = PBB_OKAY
  <1>0. c.kind \in {"packet", "message", "address"}
    BY DEF Context
  <1>1. /\ DOMAIN u = Fields
        /\ \A f \in Fields \ {"ptlvs", "msg"} : u[f] = s[f]
        /\ Marks(s, u, c.kind, T)
    BY <1>0, DropTlvsMarks
  <1>2. /\ u.stage = "tlvs" /\ u.result = PBB_OKAY /\ u.drops \in Nat
        /\ u.bi = rd.bi /\ u.ai = rd.ai /\ u.first = rd.first /\ u.last = rd.last
        /\ u.blk = rd.blk /\ u.ci = rd.ci
    BY <1>1 DEF Fields
  <1>3. Marks(rd, u, c.kind, T)
    BY <1>1 DEF Marks
  <1>4. /\ TlvList(u.ptlvs)
        /\ c.kind = "packet" => u.msg = NoMsg
        /\ c.kind # "packet" =>
             /\ u.msg # NoMsg /\ IsMessage(u.msg)
             /\ DOMAIN u.msg.blocks = DOMAIN rd.msg.blocks
             /\ \A b \in DOMAIN u.msg.blocks : u.msg.blocks[b].drop = rd.msg.blocks[b].drop
    BY <1>3, MarksKeep DEF Inv, Context
  <1>5. Shape(u)
    BY <1>1, <1>2, <1>4 DEF Inv, Shape
  <1>6. Context(u, c)
    BY <1>2, <1>4 DEF Context
  <1>7. Position(u) /\ Outcome(u)
    BY <1>2, <1>4, <1>6 DEF Position, Outcome, Context
  <1> QED
    BY <1>2, <1>3, <1>5, <1>6, <1>7

LEMMA MatchTlvInv ==
  ASSUME Inv(rd, gone), History, MatchTlv
  PROVE  Inv(rd, gone)'
  <1> DEFINE c == Consumers[rd.ci]
             tlvs == Tlvs(c)
             indexed == rd.ti \in DOMAIN tlvs /\ index_match(c, tlvs[rd.ti])
             d == IF indexed THEN c ELSE [c EXCEPT !.callbacks = {}]
             S(r) == [rd EXCEPT !.result = IF r = PBB_DROP_TLV THEN PBB_OKAY ELSE r,
                                !.drops = Drops(r)]
             next(r) == Advance(NoteEntry(c, tlvs, r, S(r)), tlvs, c.entries)
  <1>0. DOMAIN rd = Fields /\ rd.drops \in Nat /\ rd.stage = "tlvs" /\ rd.result = PBB_OKAY
    BY DEF MatchTlv, Inv, Shape, Outcome
  <1>1. PICK r \in Results(d, "tlv") :
          /\ Called(d, "tlv", r, {rd.ti})
          /\ rd' = CASE r = PBB_OKAY -> next(r)
                     [] r = PBB_DROP_TLV -> DropTlvs(c, next(r), {rd.ti})
                     [] OTHER -> AfterConsumer(c, S(r))
    BY DEF MatchTlv
  <1>called. Called(d, "tlv", r, {rd.ti})
    BY <1>1
  <1>2. /\ Context(rd, c) /\ Installed(c, {"packet", "message", "address"})
        /\ c.kind = "address" => rd.ai \notin rd.msg.blocks[rd.bi].drop
    BY <1>0, TlvsContext
  <1> HIDE DEF c, tlvs, indexed
  <1>3. Installed(d, {"packet", "message", "address"}) /\ d.kind = c.kind
    BY <1>2 DEF Installed
  <1> HIDE DEF d
  <1>4. /\ r \in PBB_OKAY..PBB_DROP_PACKET /\ Drops(r) \in Nat
        /\ "tlv" \notin d.callbacks => r = PBB_OKAY
    BY <1>0, <1>3, ResultsRange
  <1>5. Place(d) = IF c.kind = "address" THEN <<rd.bi, rd.ai>> ELSE <<0, 0>>
    BY <1>3 DEF Place
  <1>6. /\ DOMAIN S(r) = Fields /\ S(r).result = (IF r = PBB_DROP_TLV THEN PBB_OKAY ELSE r)
        /\ S(r).drops = Drops(r)
        /\ S(r).stage = "tlvs" /\ S(r).bi = rd.bi /\ S(r).ai = rd.ai /\ S(r).first = rd.first
        /\ S(r).last = rd.last /\ S(r).ptlvs = rd.ptlvs /\ S(r).msg = rd.msg
        /\ S(r).blk = rd.blk /\ S(r).ci = rd.ci
    BY <1>0 DEF Fields
  <1> HIDE DEF S
  <1>7. /\ DOMAIN next(r) = Fields /\ next(r).result = S(r).result
        /\ next(r).drops = Drops(r)
        /\ next(r).stage = "tlvs" /\ next(r).bi = rd.bi /\ next(r).ai = rd.ai
        /\ next(r).first = rd.first
        /\ next(r).last = rd.last /\ next(r).ptlvs = rd.ptlvs /\ next(r).msg = rd.msg
        /\ next(r).blk = rd.blk /\ next(r).ci = rd.ci
    BY <1>6, RoundFields
  <1> HIDE DEF next
  <1>results. /\ PBB_OKAY = 0 /\ PBB_DROP_TLV = 1 /\ PBB_DROP_PACKET = 5
              /\ rd.result \in PBB_OKAY..PBB_DROP_PACKET
    BY <1>0 DEF PBB_OKAY, PBB_DROP_TLV, PBB_DROP_PACKET
  <1>8. CASE r = PBB_OKAY
    <2>1. rd' = next(r)
      BY <1>1, <1>8, <1>results
    <2>2. rd'.result = r
      BY <1>6, <1>7, <1>8, <1>results, <2>1
    <2>3. Shape(rd')
      BY <1>0, <1>4, <1>7, <2>1 DEF Inv, Shape
    <2>4. Position(rd') /\ Outcome(rd')
      BY <1>0, <1>2, <1>7, <1>8, <2>1, <2>2 DEF Position, Outcome, Context
    <2>5. gone' = gone \cup DropSet(d.kind, Place(d), r, {rd.ti})
      BY <1>called, <1>4, <1>7, <2>1, CalledHistory
    <2>6. /\ rd'.stage = "tlvs" /\ rd'.msg = rd.msg /\ rd'.ptlvs = rd.ptlvs
          /\ rd'.result = (IF r > rd.result THEN r ELSE rd.result) /\ r # PBB_DROP_TLV
      BY <1>0, <1>7, <1>results, <1>8, <2>1, <2>2
    <2> QED
      BY <1>0, <1>4, <1>results, <1>8, <2>2, <2>3, <2>4, <2>5, <2>6, ResultInv
  <1>9. CASE r = PBB_DROP_TLV
    <2>1. rd' = DropTlvs(c, next(r), {rd.ti})
      BY <1>1, <1>9, <1>results
    <2>2. next(r).result = PBB_OKAY /\ next(r).drops \in Nat
      BY <1>4, <1>6, <1>7, <1>9
    <2>3. /\ Marks(rd, rd', c.kind, {rd.ti}) /\ Shape(rd') /\ Position(rd') /\ Outcome(rd')
          /\ rd'.stage = "tlvs" /\ rd'.result = PBB_OKAY
      BY <1>0, <1>2, <1>7, <2>1, <2>2, MarkedState
    <2>4. gone' = gone \cup DropSet(c.kind, Place(d), PBB_DROP_TLV, {rd.ti})
      BY <1>called, <1>3, <1>4, <1>9, <2>3, CalledHistory
    <2>5. /\ c.kind = "packet" <=> rd.msg = NoMsg
          /\ c.kind = "address" => rd.bi \in DOMAIN rd.msg.blocks
      BY <1>2 DEF Context
    <2>6. Inv(rd', gone \cup DropSet(c.kind, Place(d), PBB_DROP_TLV, {rd.ti}))
      BY <1>0, <1>5, <2>3, <2>5, MarkInv
    <2> QED
      BY <2>4, <2>6
  <1>10. CASE r \notin {PBB_OKAY, PBB_DROP_TLV}
    <2>1. rd' = AfterConsumer(c, S(r))
      BY <1>1, <1>10
    <2>2. S(r).result = r
      BY <1>6, <1>10
    <2>3. Shape(S(r))
      BY <1>0, <1>4, <1>6 DEF Inv, Shape
    <2>4. Context(S(r), c)
      BY <1>2, <1>6 DEF Context
    <2>5. /\ Shape(rd') /\ Position(rd') /\ Outcome(rd')
          /\ rd'.stage \in {"packet", "endpkt", "consumer", "endmsg", "cleanup", "addrend"}
          /\ rd'.stage = "addrend" => c.kind = "address"
          /\ rd'.result = r /\ rd'.msg = rd.msg /\ rd'.ptlvs = rd.ptlvs
          /\ rd'.bi = rd.bi /\ rd'.ai = rd.ai
      BY <1>4, <1>6, <2>1, <2>2, <2>3, <2>4, AfterConsumerState
    <2>6. gone' = gone \cup DropSet(d.kind, Place(d), r, {rd.ti})
      BY <1>called, <1>4, <2>5, CalledHistory
    <2>7. /\ rd'.result = (IF r > rd.result THEN r ELSE rd.result)
          /\ rd'.stage = "addrend" => Place(d) = <<rd.bi, rd.ai>>
      BY <1>0, <1>4, <1>5, <1>results, <2>5
    <2> QED
      BY <1>0, <1>4, <1>results, <1>10, <2>5, <2>6, <2>7, ResultInv
  <1> QED
    BY <1>8, <1>9, <1>10

(* The block callback, or the end of a TLV block without one. *)
LEMMA HandleBlockInv ==
  ASSUME Inv(rd, gone), History, HandleBlock
  PROVE  Inv(rd, gone)'
  <1> DEFINE c == Consumers[rd.ci]
             Result(r) == IF r = PBB_DROP_TLV THEN PBB_OKAY ELSE r
             S(r) == [rd EXCEPT !.drops = Drops(r), !.result = Result(r)]
  <1>0. DOMAIN rd = Fields /\ rd.drops \in Nat /\ rd.stage = "tlvs" /\ rd.result = PBB_OKAY
    BY DEF HandleBlock, Inv, Shape, Outcome
  <1>1. PICK r \in Results(c, "block") : \E T :
          /\ r # PBB_DROP_TLV => T = {}
          /\ Called(c, "block", r, T)
          /\ rd' = AfterConsumer(c, DropTlvs(c, S(r), T))
    BY DEF HandleBlock
  <1>2. PICK T : /\ r # PBB_DROP_TLV => T = {}
                 /\ Called(c, "block", r, T)
                 /\ rd' = AfterConsumer(c, DropTlvs(c, S(r), T))
    BY <1>1
  <1>3. /\ Context(rd, c) /\ Installed(c, {"packet", "message", "address"})
        /\ c.kind = "address" => rd.ai \notin rd.msg.blocks[rd.bi].drop
        /\ c.kind \in {"packet", "message", "address"}
    BY <1>0, TlvsContext DEF Context
  <1> HIDE DEF c
  <1>4. /\ r \in PBB_OKAY..PBB_DROP_PACKET /\ Drops(r) \in Nat
        /\ "block" \notin c.callbacks => r = PBB_OKAY
    BY <1>0, <1>3, ResultsRange
  <1>results. /\ PBB_OKAY = 0 /\ PBB_DROP_TLV = 1 /\ PBB_DROP_PACKET = 5
    BY DEF PBB_OKAY, PBB_DROP_TLV, PBB_DROP_PACKET
  <1>5. /\ DOMAIN S(r) = Fields /\ S(r).result = Result(r) /\ S(r).drops = Drops(r)
        /\ S(r).stage = "tlvs" /\ S(r).bi = rd.bi /\ S(r).ai = rd.ai /\ S(r).first = rd.first
        /\ S(r).last = rd.last /\ S(r).ptlvs = rd.ptlvs /\ S(r).msg = rd.msg
        /\ S(r).blk = rd.blk /\ S(r).ci = rd.ci
    BY <1>0 DEF Fields
  <1>6. Result(r) \in PBB_OKAY..PBB_DROP_PACKET /\ Result(r) # PBB_DROP_TLV
    BY <1>4, <1>results
  <1> HIDE DEF S, Result
  <1> DEFINE m == DropTlvs(c, rd, T)
             w == DropTlvs(c, S(r), T)
  (* First the TLVs are marked, with the result still as it was. *)
  <1>7. /\ Marks(rd, m, c.kind, T) /\ Shape(m) /\ Context(m, c) /\ Position(m) /\ Outcome(m)
        /\ m.stage = "tlvs" /\ m.result = PBB_OKAY
    BY <1>0, <1>3, MarkedState
  <1>8. m.bi = rd.bi /\ m.ai = rd.ai /\ m.ci = rd.ci
    <2>1. \A f \in Fields \ {"ptlvs", "msg"} : m[f] = rd[f]
      BY <1>0, <1>3, DropTlvsMarks
    <2> QED
      BY <2>1 DEF Fields
  <1>9. /\ DOMAIN w = Fields /\ w.result = Result(r) /\ w.drops \in Nat
        /\ w.stage = "tlvs" /\ w.bi = rd.bi /\ w.ai = rd.ai /\ w.first = rd.first
        /\ w.last = rd.last /\ w.blk = rd.blk /\ w.ci = rd.ci
        /\ w.msg = m.msg /\ w.ptlvs = m.ptlvs
    <2>1. /\ DOMAIN w = Fields
          /\ \A f \in Fields \ {"ptlvs", "msg"} : w[f] = S(r)[f]
          /\ Marks(S(r), w, c.kind, T)
      BY <1>3, <1>5, DropTlvsMarks
    <2>2. w.msg = m.msg /\ w.ptlvs = m.ptlvs
      BY <1>3, <1>5, <1>7, <2>1 DEF Marks
    <2>3. /\ w.result = S(r).result /\ w.drops = S(r).drops
          /\ w.stage = S(r).stage /\ w.bi = S(r).bi /\ w.ai = S(r).ai /\ w.first = S(r).first
          /\ w.last = S(r).last /\ w.blk = S(r).blk /\ w.ci = S(r).ci
      BY <2>1 DEF Fields
    <2> QED
      BY <1>4, <1>5, <2>1, <2>2, <2>3
  <1>10. rd' = AfterConsumer(c, w) /\ Called(c, "block", r, T) /\ (r # PBB_DROP_TLV => T = {})
    BY <1>2
  <1>11. /\ c.kind = "packet" <=> rd.msg = NoMsg
         /\ c.kind = "address" => rd.bi \in DOMAIN rd.msg.blocks
         /\ Place(c) = IF c.kind = "address" THEN <<rd.bi, rd.ai>> ELSE <<0, 0>>
    BY <1>3 DEF Context, Place
  <1> HIDE DEF m, w
  <1> DEFINE g == gone \cup DropSet(c.kind, Place(c), PBB_DROP_TLV, T)
  <1>12. Inv(m, g)
    BY <1>0, <1>7, <1>11, MarkInv
  <1> HIDE DEF g
  <1>13. Shape(w)
    BY <1>0, <1>7, <1>9 DEF Inv, Shape
  <1>14. Context(w, c)
    BY <1>7, <1>8, <1>9 DEF Context
  <1>15. /\ Shape(rd') /\ Position(rd') /\ Outcome(rd')
         /\ rd'.stage \in {"packet", "endpkt", "consumer", "endmsg", "cleanup", "addrend"}
         /\ rd'.stage = "addrend" => c.kind = "address"
         /\ rd'.result = Result(r) /\ rd'.msg = m.msg /\ rd'.ptlvs = m.ptlvs
         /\ rd'.bi = m.bi /\ rd'.ai = m.ai
    BY <1>6, <1>8, <1>9, <1>10, <1>13, <1>14, AfterConsumerState
  <1>16. gone' = gone \cup DropSet(c.kind, Place(c), r, T)
    BY <1>4, <1>10, <1>15, CalledHistory
  <1>17. gone' = g \cup DropSet(c.kind, Place(c), Result(r), {})
    <2> USE DEF DropSet, PBB_OKAY, PBB_DROP_TLV, PBB_DROP_ADDRESS, PBB_DROP_MSG_BUT_FORWARD,
                PBB_DROP_MESSAGE, PBB_DROP_PACKET
    <2>1. CASE r = PBB_DROP_TLV
      <3>1. DropSet(c.kind, Place(c), Result(r), {}) = {}
        BY <2>1 DEF Result
      <3> HIDE DEF DropSet
      <3> QED
        BY <1>16, <2>1, <3>1 DEF g
    <2>2. CASE r # PBB_DROP_TLV
      <3>1. DropSet(c.kind, Place(c), PBB_DROP_TLV, T) = {}
        BY <1>10, <2>2
      <3> HIDE DEF DropSet
      <3> QED
        BY <1>10, <1>16, <2>2, <3>1 DEF g, Result
    <2> QED
      BY <2>1, <2>2
  <1>18. /\ rd'.result = IF Result(r) > m.result THEN Result(r) ELSE m.result
         /\ m.result \in PBB_OKAY..PBB_DROP_PACKET
         /\ rd'.stage = "addrend" => Place(c) = <<m.bi, m.ai>>
    BY <1>6, <1>7, <1>8, <1>11, <1>15, <1>results
  <1> QED
    BY <1>6, <1>7, <1>12, <1>15, <1>17, <1>18, ResultInv

-----------------------------------------------------------------------------
(* The theorems.                                                            *)

LEMMA NextInv ==
  ASSUME Inv(rd, gone), [Next]_vars
  PROVE  Inv(rd, gone)'
  <1>1. CASE \E b \in Datagrams, f \in Failures : Arrive(b, f)
    BY <1>1, ArriveInv DEF Arrive
  <1>2. CASE Step
    BY <1>2, StartPacketInv, ParseInv, EndPacketInv, PacketDoneInv, LoopsInv,
       StartMessageInv, EndMessageInv, MessageDoneInv, StartAddressInv, EndAddressInv,
       MatchTlvInv, HandleBlockInv
       DEF Step
  <1>3. CASE UNCHANGED vars
    BY <1>3 DEF vars
  <1> QED
    BY <1>1, <1>2, <1>3 DEF Next

(* Whatever a consumer has dropped is remembered by the reader, in the      *)
(* result of the context, in the address block or in the TLV, for as long   *)
(* as it could still be shown to another consumer, in every reachable state *)
(* of pbb_reader_handle_packet() and for all datagrams and consumers.       *)
THEOREM DropsRemembered == Spec => []Inv(rd, gone)
  <1>1. Init => Inv(rd, gone)
    <2> SUFFICES ASSUME Init PROVE Inv(rd, gone)
      OBVIOUS
    <2>1. /\ DOMAIN rd = Fields /\ rd.stage = "idle" /\ rd.drops = 0 /\ rd.bi = 0
          /\ rd.first = 0 /\ rd.last = 0 /\ rd.ptlvs = << >> /\ rd.msg = NoMsg
          /\ rd.blk = << >> /\ gone = {}
      BY DEF Init, Idle, Fields
    <2> QED
      BY <2>1, IdleInv
  <1>2. Inv(rd, gone) /\ [Next]_vars => Inv(rd, gone)'
    BY NextInv
  <1> QED
    BY <1>1, <1>2, PTL DEF Spec

(* What a step of the reader may show to whom: see DropsRespected.          *)
Respects ==
  LET c == call'.consumer
  IN /\ call'.cb = "forward" => <<"forward">> \notin gone
     /\ call'.cb \in {"start", "tlv", "block"} =>
          /\ <<"packet">> \notin gone
          /\ c.kind # "packet" => <<"message">> \notin gone
          /\ <<"address", Place(c)>> \notin gone
          /\ call'.cb = "tlv" =>
               \A t \in call'.tlvs : <<"tlv", c.kind, Place(c), t>> \notin gone

(* While the result is PBB_OKAY and the address is not dropped, the context *)
(* may be shown.                                                            *)
LEMMA ContextVisible ==
  ASSUME Inv(rd, gone), rd.result = PBB_OKAY, NEW c, Context(rd, c),
         c.kind = "address" => rd.ai \notin rd.msg.blocks[rd.bi].drop
  PROVE  /\ <<"packet">> \notin gone /\ <<"message">> \notin gone
         /\ <<"address", Place(c)>> \notin gone
  <1>1. <<"packet">> \notin gone /\ <<"message">> \notin gone
    BY DEF Inv, ContextsRemembered, PBB_OKAY, PBB_DROP_PACKET, PBB_DROP_MESSAGE,
           PBB_DROP_MSG_BUT_FORWARD
  <1>2. \A b, a : <<"address", <<b, a>>>> \in gone => InBlock(rd, b, a)
    BY DEF Inv, AddressesRemembered
  <1>3. CASE c.kind = "address"
    <2>1. Place(c) = <<rd.bi, rd.ai>> /\ ~InBlock(rd, rd.bi, rd.ai)
      BY <1>3 DEF Place, InBlock
    <2> QED
      BY <1>1, <1>2, <2>1
  <1>4. CASE c.kind # "address"
    <2>1. Place(c) = <<0, 0>>
      BY <1>4 DEF Place
    <2>2. ~InBlock(rd, 0, 0)
      <3>1. SUFFICES ASSUME rd.msg # NoMsg PROVE 0 \notin DOMAIN rd.msg.blocks
        BY DEF InBlock
      <3>2. BlockList(rd.msg.blocks)
        BY <3>1 DEF Inv, Shape, IsMessage
      <3> QED
        BY <3>2, BlockPositions
    <2> QED
      BY <1>1, <1>2, <2>1, <2>2
  <1> QED
    BY <1>3, <1>4

(* A TLV that matches the current index was not dropped for it. *)
LEMMA TlvVisible ==
  ASSUME Inv(rd, gone), NEW c, Context(rd, c),
         rd.ti \in DOMAIN Tlvs(c), index_match(c, Tlvs(c)[rd.ti])
  PROVE  <<"tlv", c.kind, Place(c), rd.ti>> \notin gone
  <1>1. CASE c.kind = "packet"
    BY <1>1 DEF Tlvs, index_match, Index, Place, Inv, TlvsRemembered
  <1>2. CASE c.kind = "message"
    BY <1>2 DEF Tlvs, index_match, Index, Place, Inv, TlvsRemembered
  <1>3. CASE c.kind = "address"
    BY <1>3 DEF Tlvs, index_match, Index, Place, Inv, TlvsRemembered, Context
  <1> QED
    BY <1>1, <1>2, <1>3 DEF Context

(* A start or block callback in a context that may be shown. *)
LEMMA ShownRespects ==
  ASSUME Inv(rd, gone), rd.result = PBB_OKAY, NEW c, Context(rd, c),
         c.kind = "address" => rd.ai \notin rd.msg.blocks[rd.bi].drop,
         NEW cb \in {"start", "block"}, NEW r, NEW T, Called(c, cb, r, T)
  PROVE  Respects
  <1>1. CASE cb \in c.callbacks
    <2>1. call'.cb = cb /\ call'.consumer = c
      BY <1>1 DEF Called
    <2> QED
      BY <2>1, ContextVisible DEF Respects
  <1>2. CASE cb \notin c.callbacks
    BY <1>2 DEF Called, NoCall, Respects
  <1> QED
    BY <1>1, <1>2

LEMMA StepRespects ==
  ASSUME Inv(rd, gone), Next
  PROVE  Respects
  <1>0. rd.bi \in Nat /\ (rd.msg # NoMsg => BlockList(rd.msg.blocks))
    BY DEF Inv, Shape, IsMessage
  <1>1. CASE Silent
    BY <1>1 DEF Silent, NoCall, Respects
  <1>2. CASE MessageDone
    <2>1. CASE ForwardsMessage
      <3>1. call'.cb = "forward"
        BY <1>2, <2>1 DEF MessageDone
      <3>2. rd.result \in {PBB_OKAY, PBB_DROP_MSG_BUT_FORWARD}
        BY <2>1 DEF ForwardsMessage
      <3>3. <<"forward">> \notin gone
        BY <3>2 DEF Inv, ContextsRemembered, PBB_OKAY, PBB_DROP_MSG_BUT_FORWARD,
             PBB_DROP_MESSAGE, PBB_DROP_PACKET
      <3> QED
        BY <3>1, <3>3 DEF Respects
    <2>2. CASE ~ForwardsMessage
      BY <1>2, <2>2 DEF MessageDone, NoCall, Respects
    <2> QED
      BY <2>1, <2>2
  <1>3. CASE EndPacketConsumer \/ EndMessageConsumer \/ EndAddress
    <2>1. \E c, r : Called(c, "end", r, {})
      BY <1>3 DEF EndPacketConsumer, EndMessageConsumer, EndAddress
    <2>2. call'.cb \in {"none", "end"}
      BY <2>1 DEF Called, NoCall
    <2> QED
      BY <2>2 DEF Respects
  <1>4. CASE StartPacketConsumer
    <2> DEFINE c == PacketConsumers[rd.ci]
    <2>1. rd.stage = "packet" /\ \E r : Called(c, "start", r, {})
      BY <1>4 DEF StartPacketConsumer
    <2>2. /\ rd.ci \in 1..Len(PacketConsumers) /\ rd.msg = NoMsg /\ rd.ci \in Nat \ {0}
          /\ rd.result = PBB_OKAY
      BY <1>4, <2>1, ConsumersAssumption DEF StartPacketConsumer, Inv, Position, Outcome
    <2>3. c.kind = "packet"
      BY <2>2, ConsumersAssumption DEF Installed
    <2>4. Context(rd, c)
      BY <2>2, <2>3 DEF Context
    <2> HIDE DEF c
    <2> QED
      BY <2>1, <2>2, <2>3, <2>4, ShownRespects
  <1>5. CASE StartMessageConsumer
    <2> DEFINE c == MessageConsumers[rd.ci]
    <2>1. /\ rd.stage = "consumer" /\ c.kind = "message" /\ \E r : Called(c, "start", r, {})
      BY <1>5 DEF StartMessageConsumer
    <2>2. /\ rd.ci \in 1..Len(MessageConsumers) /\ rd.msg # NoMsg /\ rd.ci \in Nat \ {0}
          /\ rd.result = PBB_OKAY
      BY <1>5, <2>1, ConsumersAssumption DEF StartMessageConsumer, Inv, Position, Outcome
    <2>3. Context(rd, c)
      BY <2>1, <2>2 DEF Context
    <2> HIDE DEF c
    <2> QED
      BY <2>1, <2>2, <2>3, ShownRespects
  <1>6. CASE StartAddress
    <2> DEFINE c == MessageConsumers[rd.ci]
    <2>1. /\ rd.stage = "address" /\ rd.bi <= Len(rd.msg.blocks)
          /\ rd.ai \notin rd.msg.blocks[rd.bi].drop /\ \E r : Called(c, "start", r, {})
      BY <1>6 DEF StartAddress, Block
    <2>2. /\ rd.ci \in 1..Len(MessageConsumers) /\ rd.msg # NoMsg /\ rd.ci \in Nat \ {0}
          /\ rd.result = PBB_OKAY /\ c.kind = "address" /\ rd.bi > 0
      BY <2>1, ConsumersAssumption DEF Inv, Position, Outcome
    <2>3. rd.bi \in DOMAIN rd.msg.blocks
      BY <1>0, <2>1, <2>2, BlockPositions
    <2>4. Context(rd, c)
      BY <2>2, <2>3 DEF Context
    <2> HIDE DEF c
    <2> QED
      BY <2>1, <2>2, <2>4, ShownRespects
  <1>7. CASE HandleBlock
    <2> DEFINE c == Consumers[rd.ci]
    <2>1. rd.stage = "tlvs" /\ \E r, T : Called(c, "block", r, T)
      BY <1>7 DEF HandleBlock
    <2>2. /\ Context(rd, c) /\ rd.result = PBB_OKAY
          /\ c.kind = "address" => rd.ai \notin rd.msg.blocks[rd.bi].drop
      BY <2>1, TlvsContext DEF Inv, Outcome
    <2> HIDE DEF c
    <2> QED
      BY <2>1, <2>2, ShownRespects
  <1>8. CASE MatchTlv
    <2> DEFINE c == Consumers[rd.ci]
               tlvs == Tlvs(c)
               indexed == rd.ti \in DOMAIN tlvs /\ index_match(c, tlvs[rd.ti])
               d == IF indexed THEN c ELSE [c EXCEPT !.callbacks = {}]
    <2>1. rd.stage = "tlvs" /\ \E r : Called(d, "tlv", r, {rd.ti})
      BY <1>8 DEF MatchTlv
    <2>2. /\ Context(rd, c) /\ rd.result = PBB_OKAY
          /\ c.kind = "address" => rd.ai \notin rd.msg.blocks[rd.bi].drop
          /\ Installed(c, {"packet", "message", "address"})
      BY <2>1, TlvsContext DEF Inv, Outcome
    <2> HIDE DEF c
    <2>3. CASE indexed /\ "tlv" \in c.callbacks
      <3>1. call'.cb = "tlv" /\ call'.consumer = c /\ call'.tlvs = {rd.ti}
        BY <2>1, <2>3 DEF Called
      <3>2. <<"tlv", c.kind, Place(c), rd.ti>> \notin gone
        BY <2>2, <2>3, TlvVisible
      <3> QED
        BY <2>2, <3>1, <3>2, ContextVisible DEF Respects
    <2>4. CASE ~(indexed /\ "tlv" \in c.callbacks)
      <3>1. "tlv" \notin d.callbacks
        BY <2>2, <2>4 DEF Installed
      <3>2. call' = NoCall
        BY <2>1, <3>1 DEF Called
      <3> QED
        BY <3>2 DEF NoCall, Respects
    <2> QED
      BY <2>3, <2>4
  <1>9. Silent \/ MessageDone \/ EndPacketConsumer \/ EndMessageConsumer \/ EndAddress
          \/ StartPacketConsumer \/ StartMessageConsumer \/ StartAddress \/ HandleBlock
          \/ MatchTlv
    BY DEF Next, Arrive, handle_packet, Step, PacketConsumersDone, ParseTlv, TlvBlockParsed,
           ReadMessage, ReadAddressBlock, MessageRead, MessagesDone, PacketDone,
           SkipConsumer, EndOrder, StartAddressConsumer, ConsumersDone, EndMessageDone,
           SkipAddress
  <1> QED
    BY <1>1, <1>2, <1>3, <1>4, <1>5, <1>6, <1>7, <1>8, <1>9

(* What a consumer has dropped is not shown to the consumers after it, for  *)
(* any datagram, any consumers and any results of their callbacks: the      *)
(* reader starts no context, hands over no TLV and calls for no TLV block   *)
(* of a dropped packet, message or address, hands over no dropped TLV, and  *)
(* does not forward a message that was dropped altogether.                  *)
THEOREM DropsAreRespected == Spec => DropsRespected
  <1>1. Inv(rd, gone) /\ [Next]_vars => [Respects]_vars
    BY StepRespects
  <1>2. Spec => [][Respects]_vars
    BY <1>1, DropsRemembered, PTL DEF Spec
  <1>3. DropsRespected <=> [][Respects]_vars
    BY DEF DropsRespected, Respects
  <1> QED
    BY <1>2, <1>3
=============================================================================
