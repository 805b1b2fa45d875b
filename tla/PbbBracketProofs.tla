-------------------------- MODULE PbbBracketProofs --------------------------
(***************************************************************************)
(* Proof that the packetbb reader ends every context it has started,      *)
(* innermost first, and frees everything it has allocated, for any        *)
(* datagram, any results of the callbacks and any failing allocation; the *)
(* first for consumers whose registration left them sorted                *)
(* (SortedConsumers), the second for any consumers.                       *)
(*                                                                         *)
(* The contexts have a fixed nesting order: those of the packet consumers *)
(* in the order of their tree, then those of the message consumers, then  *)
(* that of the address consumer.  For every stage of the reader there is  *)
(* a set of contexts (Contexts) that must be open then; the invariant     *)
(* Balanced says that the history is that set, as a stack.  A start       *)
(* callback adds the greatest element and an end callback removes it.     *)
(* That the end callbacks of message consumers reach exactly the started  *)
(* ones rests on the order of the tree (SortedConsumers), which is a      *)
(* hypothesis because _add_consumer() does not keep it: between the first *)
(* and the last one started there is no address consumer.                 *)
(*                                                                         *)
(* The invariant Memory counts: what is held is what hangs in the lists   *)
(* and trees of the packet, of the message and of the block being parsed. *)
(***************************************************************************)
EXTENDS PbbReaderProofs

(* The number of consumers in the two trees. *)
P == Len(PacketConsumers)
M == Len(MessageConsumers)

(* A context is known by a number: in this order the contexts are nested.   *)
ConsumerAt(x) == IF x <= P THEN PacketConsumers[x]
                 ELSE IF x <= P + M THEN MessageConsumers[x - P]
                 ELSE MessageConsumers[x - P - M]

(* o holds the contexts in K, innermost last. *)
Stack(o, K) ==
  /\ o \in Seq({ConsumerAt(x) : x \in Nat})
  /\ \E k \in Seq(Nat) :
       /\ Len(k) = Len(o)
       /\ \A i, j \in 1..Len(k) : i < j => k[i] < k[j]
       /\ \A x : x \in K <=> \E i \in 1..Len(k) : k[i] = x
       /\ \A i \in 1..Len(k) : o[i] = ConsumerAt(k[i])

LEMMA EmptyStack == Stack(<< >>, {})
  <1> DEFINE k == << >>
  <1>1. k \in Seq(Nat) /\ Len(k) = 0 /\ Len(<< >>) = 0
    OBVIOUS
  <1>2. << >> \in Seq({ConsumerAt(x) : x \in Nat})
    OBVIOUS
  <1>3. ~ \E i \in 1..Len(k) : TRUE
    BY <1>1
  <1> HIDE DEF k
  <1> QED
    BY <1>1, <1>2, <1>3 DEF Stack

(* With no contexts the stack is empty. *)
LEMMA StackEmpty ==
  ASSUME NEW o, Stack(o, {})
  PROVE  o = << >>
  <1> DEFINE S == {ConsumerAt(x) : x \in Nat}
  <1>1. o \in Seq(S)
    BY DEF Stack
  <1>2. PICK k \in Seq(Nat) : /\ Len(k) = Len(o)
                              /\ \A x : x \in {} <=> \E i \in 1..Len(k) : k[i] = x
    BY DEF Stack
  <1>3. Len(k) = 0
    <2>1. Len(k) \in Nat
      BY <1>2
    <2>2. ASSUME Len(k) > 0 PROVE FALSE
      <3>1. 1 \in 1..Len(k)
        BY <2>1, <2>2
      <3> QED
        BY <1>2, <3>1
    <2> QED
      BY <2>1, <2>2
  <1> HIDE DEF S
  <1> QED
    BY <1>1, <1>2, <1>3, EmptySeq

(* A context inside all the others is started. *)
LEMMA Push ==
  ASSUME NEW o, NEW K, Stack(o, K), NEW x \in Nat, \A y \in K : y < x
  PROVE  Stack(Append(o, ConsumerAt(x)), K \cup {x})
  <1> DEFINE S == {ConsumerAt(y) : y \in Nat}
             q == Append(o, ConsumerAt(x))
  <1>1. o \in Seq(S) /\ Len(o) \in Nat
    BY DEF Stack
  <1>2. PICK k \in Seq(Nat) :
          /\ Len(k) = Len(o)
          /\ \A i, j \in 1..Len(k) : i < j => k[i] < k[j]
          /\ \A y : y \in K <=> \E i \in 1..Len(k) : k[i] = y
          /\ \A i \in 1..Len(k) : o[i] = ConsumerAt(k[i])
    BY DEF Stack
  <1>3. ConsumerAt(x) \in S
    OBVIOUS
  <1> HIDE DEF S
  <1> DEFINE n == Append(k, x)
  <1>4. /\ n \in Seq(Nat) /\ Len(n) = Len(k) + 1 /\ n[Len(k) + 1] = x
        /\ \A i \in 1..Len(k) : n[i] = k[i]
    BY <1>2, AppendProperties
  <1>5. /\ q \in Seq(S) /\ Len(q) = Len(k) + 1 /\ q[Len(k) + 1] = ConsumerAt(x)
        /\ \A i \in 1..Len(k) : q[i] = o[i]
    BY <1>1, <1>2, <1>3, AppendProperties
  <1> HIDE DEF n, q
  <1>6. Len(k) \in Nat /\ \A i \in 1..Len(n) : i \in 1..Len(k) \/ i = Len(k) + 1
    BY <1>2, <1>4
  <1>7. \A i \in 1..Len(k) : k[i] \in Nat /\ k[i] < x
    BY <1>2
  <1>8. ASSUME NEW i \in 1..Len(n), NEW j \in 1..Len(n), i < j
        PROVE  n[i] < n[j]
    <2>1. i \in 1..Len(k)
      BY <1>4, <1>6, <1>8
    <2>2. CASE j \in 1..Len(k)
      BY <1>2, <1>4, <1>8, <2>1, <2>2
    <2>3. CASE j = Len(k) + 1
      BY <1>4, <1>7, <2>1, <2>3
    <2> QED
      BY <1>6, <2>2, <2>3
  <1>9. ASSUME NEW y
        PROVE  y \in K \cup {x} <=> \E i \in 1..Len(n) : n[i] = y
    <2>1. ASSUME y \in K PROVE \E i \in 1..Len(n) : n[i] = y
      <3>1. PICK i \in 1..Len(k) : k[i] = y
        BY <1>2, <2>1
      <3>2. i \in 1..Len(n)
        BY <1>4, <1>6, <3>1
      <3> QED
        BY <1>4, <3>1, <3>2
    <2>2. Len(k) + 1 \in 1..Len(n)
      BY <1>4, <1>6
    <2>3. ASSUME NEW i \in 1..Len(n), n[i] = y PROVE y \in K \cup {x}
      BY <1>2, <1>4, <1>6, <2>3
    <2> QED
      BY <1>4, <2>1, <2>2, <2>3
  <1>10. \A i \in 1..Len(n) : q[i] = ConsumerAt(n[i])
    BY <1>2, <1>4, <1>5, <1>6
  <1> QED
    BY <1>4, <1>5, <1>8, <1>9, <1>10 DEF Stack, q, S

(* The innermost context is ended. *)
LEMMA Pop ==
  ASSUME NEW o, NEW K, Stack(o, K), NEW x \in K, \A y \in K : y <= x
  PROVE  o # << >> /\ Last(o) = ConsumerAt(x) /\ Stack(Front(o), K \ {x})
  <1> DEFINE S == {ConsumerAt(y) : y \in Nat}
  <1>1. o \in Seq(S) /\ Len(o) \in Nat
    BY DEF Stack
  <1>2. PICK k \in Seq(Nat) :
          /\ Len(k) = Len(o)
          /\ \A i, j \in 1..Len(k) : i < j => k[i] < k[j]
          /\ \A y : y \in K <=> \E i \in 1..Len(k) : k[i] = y
          /\ \A i \in 1..Len(k) : o[i] = ConsumerAt(k[i])
    BY DEF Stack
  <1> HIDE DEF S
  <1> DEFINE l == Len(k)
  <1>3. PICK m \in 1..l : k[m] = x
    BY <1>2
  <1>4. l \in Nat /\ l > 0 /\ \A i \in 1..l : k[i] \in Nat /\ k[i] \in K
    BY <1>2, <1>3
  <1>5. k[l] = x
    <2>1. l \in 1..l
      BY <1>4
    <2>2. CASE m = l
      BY <1>3, <2>2
    <2>3. CASE m # l
      <3>1. k[m] < k[l]
        BY <1>2, <1>3, <1>4, <2>1, <2>3
      <3>2. k[l] <= x /\ k[l] \in Nat /\ x \in Nat
        BY <1>3, <1>4, <2>1
      <3> QED
        BY <1>3, <3>1, <3>2
    <2> QED
      BY <2>2, <2>3
  <1>6. o # << >> /\ Last(o) = ConsumerAt(x)
    BY <1>1, <1>2, <1>4, <1>5 DEF Last
  <1> DEFINE n == SubSeq(k, 1, l - 1)
             q == SubSeq(o, 1, l - 1)
  <1>7. /\ n \in Seq(Nat) /\ Len(n) = l - 1 /\ \A i \in 1..(l - 1) : n[i] = k[i]
    BY <1>2, <1>4
  <1>8. /\ q \in Seq(S) /\ Len(q) = l - 1 /\ \A i \in 1..(l - 1) : q[i] = o[i]
    BY <1>1, <1>2, <1>4
  <1>9. Front(o) = q
    BY <1>2 DEF Front
  <1> HIDE DEF n, q
  <1>10. \A i \in 1..(l - 1) : i \in 1..l
    BY <1>4
  <1>11. ASSUME NEW y
         PROVE  y \in K \ {x} <=> \E i \in 1..(l - 1) : n[i] = y
    <2>1. ASSUME y \in K, y # x PROVE \E i \in 1..(l - 1) : n[i] = y
      <3>1. PICK i \in 1..l : k[i] = y
        BY <1>2, <2>1
      <3>2. i \in 1..(l - 1)
        BY <1>4, <1>5, <2>1, <3>1
      <3> QED
        BY <1>7, <3>1, <3>2
    <2>2. ASSUME NEW i \in 1..(l - 1), n[i] = y PROVE y \in K /\ y # x
      <3>1. i \in 1..l /\ l \in 1..l /\ i < l
        BY <1>4
      <3>2. k[i] < k[l] /\ k[i] \in K /\ k[i] \in Nat /\ k[l] \in Nat
        BY <1>2, <1>4, <3>1
      <3> QED
        BY <1>5, <1>7, <2>2, <3>2
    <2> QED
      BY <2>1, <2>2
  <1>12. \A i, j \in 1..(l - 1) : i < j => n[i] < n[j]
    BY <1>2, <1>7, <1>10
  <1>13. \A i \in 1..(l - 1) : q[i] = ConsumerAt(n[i])
    BY <1>2, <1>7, <1>8, <1>10
  <1>14. Stack(q, K \ {x})
    <2>1. Len(n) = Len(q)
      BY <1>7, <1>8
    <2>2. /\ \A i, j \in 1..Len(n) : i < j => n[i] < n[j]
          /\ \A i \in 1..Len(n) : q[i] = ConsumerAt(n[i])
      BY <1>7, <1>12, <1>13
    <2>3. \A y : y \in K \ {x} <=> \E i \in 1..Len(n) : n[i] = y
      BY <1>7, <1>11, Zenon
    <2>4. n \in Seq(Nat) /\ q \in Seq(S)
      BY <1>7, <1>8
    <2> HIDE DEF l
    <2> QED
      BY <2>1, <2>2, <2>3, <2>4, Zenon DEF Stack, S
  <1> QED
    BY <1>6, <1>9, <1>14

-----------------------------------------------------------------------------
(* The contexts that are open.                                              *)

Opens(c) == {"start", "end"} \subseteq c.callbacks

WantsType(type, c) == c.msg_id = AnyType \/ c.msg_id = type

(* Of the message consumers from first to last, those that were started for *)
(* a message of this type and will be told of its end.                      *)
Started(type, first, last) ==
  {j \in first..last : first # 0 /\ WantsType(type, MessageConsumers[j])
                                 /\ Opens(MessageConsumers[j])}

(* Message consumer i, if it was started for an address. *)
InAddress(i) ==
  {j \in {i} : MessageConsumers[j].kind = "address" /\ Opens(MessageConsumers[j])}

(* The contexts of the first n packet consumers, of the message consumers   *)
(* in J and of the address consumers in A.                                  *)
Nested(n, J, A) ==
  {j \in 1..n : Opens(PacketConsumers[j])} \cup {P + j : j \in J} \cup {P + M + j : j \in A}

Contexts(s) ==
  CASE s.stage = "idle" -> Nested(0, {}, {})
    [] s.stage = "parse" -> Nested(IF s.msg = NoMsg THEN 0 ELSE P, {}, {})
    [] s.stage = "packet" -> Nested(s.ci - 1, {}, {})
    [] s.stage = "endpkt" -> Nested(s.down, {}, {})
    [] s.stage \in {"message", "blocks", "cleanup"} -> Nested(P, {}, {})
    [] s.stage \in {"consumer", "address"} ->
         Nested(P, Started(s.msg.type, s.first, s.last), {})
    [] s.stage = "endmsg" -> Nested(P, Started(s.msg.type, s.first, s.down), {})
    [] s.stage = "addrend" -> Nested(P, Started(s.msg.type, s.first, s.last), InAddress(s.ci))
    [] s.stage = "tlvs" ->
         IF s.msg = NoMsg THEN Nested(s.ci, {}, {})
         ELSE Nested(P, Started(s.msg.type, s.first, s.last), InAddress(s.ci))

(* The started message consumers, from first to last, have one order. *)
OneOrder(first, last) ==
  first # 0 =>
    /\ first \in 1..last /\ last <= M
    /\ MessageConsumers[first].kind = "message" /\ MessageConsumers[last].kind = "message"
    /\ MessageConsumers[first].order = MessageConsumers[last].order

(* After the last one started, none that wanted the message was passed.     *)
Passed(type, first, last, ci) ==
  first # 0 =>
    /\ last <= ci
    /\ \A j \in (last + 1)..(ci - 1) :
         MessageConsumers[j].kind = "message" => ~WantsType(type, MessageConsumers[j])

(* Where the loops over the consumers are. *)
Loops(s) ==
  /\ s.msg # NoMsg => "type" \in DOMAIN s.msg
  /\ s.stage = "parse" /\ s.msg = NoMsg => s.ci = 1
  /\ s.stage = "packet" => s.ci <= P + 1
  /\ s.stage = "endpkt" => s.down \in 0..P
  /\ s.stage \in {"consumer", "address", "addrend", "tlvs", "endmsg"} /\ s.msg # NoMsg =>
       OneOrder(s.first, s.last)
  /\ s.stage \in {"consumer", "address", "addrend", "tlvs"} /\ s.msg # NoMsg =>
       Passed(s.msg.type, s.first, s.last, s.ci)
  /\ s.stage = "consumer" /\ s.first # 0 => s.last < s.ci
  /\ s.stage = "tlvs" /\ s.msg # NoMsg /\ MessageConsumers[s.ci].kind = "message" =>
       s.first # 0 /\ s.last = s.ci
  /\ s.stage = "endmsg" => s.down \in (s.first - 1)..s.last

Balanced(s, o) == Loops(s) /\ Stack(o, Contexts(s))

-----------------------------------------------------------------------------
(* What the history records of a step.                                      *)

LEMMA OpenKept ==
  ASSUME History, call'.cb \notin {"start", "end"}
  PROVE  open' = open
  BY DEF History

LEMMA OpenStarted ==
  ASSUME History, NEW c, NEW r, NEW T, Called(c, "start", r, T)
  PROVE  open' = IF Opens(c) THEN Append(open, c) ELSE open
  <1>1. CASE "start" \in c.callbacks
    <2>1. call'.cb = "start" /\ call'.consumer = c
      BY <1>1 DEF Called
    <2> QED
      BY <1>1, <2>1 DEF History, Opens
  <1>2. CASE "start" \notin c.callbacks
    <2>1. call'.cb = "none"
      BY <1>2 DEF Called, NoCall
    <2> QED
      BY <1>2, <2>1, OpenKept DEF Opens
  <1> QED
    BY <1>1, <1>2

LEMMA OpenEnded ==
  ASSUME History, NEW c, NEW r, NEW T, Called(c, "end", r, T)
  PROVE  /\ ~Opens(c) => open' = open
         /\ Opens(c) /\ open # << >> /\ Last(open) = c => open' = Front(open)
  <1>1. CASE "end" \in c.callbacks
    <2>1. call'.cb = "end" /\ call'.consumer = c
      BY <1>1 DEF Called
    <2> QED
      BY <1>1, <2>1 DEF History, Opens
  <1>2. CASE "end" \notin c.callbacks
    <2>1. call'.cb = "none"
      BY <1>2 DEF Called, NoCall
    <2> QED
      BY <1>2, <2>1, OpenKept DEF Opens
  <1> QED
    BY <1>1, <1>2

(* The other callbacks. *)
LEMMA OpenCalled ==
  ASSUME History, NEW c, NEW cb \in {"tlv", "block"}, NEW r, NEW T, Called(c, cb, r, T)
  PROVE  open' = open
  <1>1. call'.cb \in {"none", "tlv", "block"}
    BY DEF Called, NoCall
  <1> QED
    BY <1>1, OpenKept

LEMMA OpenSilent ==
  ASSUME History, Silent
  PROVE  open' = open
  BY OpenKept DEF Silent, NoCall

(* The numbers of consumers. *)
LEMMA Counts == P \in Nat /\ M \in Nat
  BY ConsumersAssumption DEF P, M

-----------------------------------------------------------------------------
(* Parsing opens and ends no context.                                       *)

LEMMA ParseErrorBalanced ==
  ASSUME DOMAIN rd = Fields, rd.stage \in {"parse", "blocks"}, rd.stage = "blocks" => rd.msg # NoMsg,
         NEW err
  PROVE  /\ Loops(ParseError(rd, err))
         /\ Contexts(ParseError(rd, err)) = Contexts(rd)
  <1> DEFINE u == ParseError(rd, err)
  <1>1. CASE rd.msg = NoMsg
    <2>1. u.stage = "idle" /\ u.msg = NoMsg /\ rd.stage = "parse"
      BY <1>1 DEF ParseError, Idle
    <2> HIDE DEF u
    <2> QED
      BY <1>1, <2>1 DEF Loops, Contexts, u
  <1>2. CASE rd.msg # NoMsg
    <2>1. u.stage = "message" /\ u.msg = NoMsg
      BY <1>2 DEF ParseError, Fields
    <2> HIDE DEF u
    <2> QED
      BY <1>2, <2>1 DEF Loops, Contexts, u
  <1> QED
    BY <1>1, <1>2

LEMMA BlockBeginsBalanced ==
  ASSUME NEW s, DOMAIN s = Fields, s.msg = NoMsg => s.ci = 1,
         s.msg # NoMsg => "type" \in DOMAIN s.msg, NEW ptr
  PROVE  /\ Loops(parse_tlvblock(s, ptr))
         /\ Contexts(parse_tlvblock(s, ptr)) = Nested(IF s.msg = NoMsg THEN 0 ELSE P, {}, {})
  <1> DEFINE u == parse_tlvblock(s, ptr)
  <1>1. u.stage = "parse" /\ u.msg = s.msg /\ u.ci = s.ci
    BY DEF parse_tlvblock, Fields
  <1> HIDE DEF u
  <1> QED
    BY <1>1 DEF Loops, Contexts, u

LEMMA ParsingBalanced ==
  ASSUME Inv(rd, gone), Loops(rd), ParseTlv \/ TlvBlockParsed \/ ReadMessage \/ ReadAddressBlock
  PROVE  Silent /\ Loops(rd') /\ Contexts(rd') = Contexts(rd)
  <1>0. /\ DOMAIN rd = Fields /\ (rd.stage = "blocks" => rd.msg # NoMsg)
        /\ (rd.stage = "message" => rd.msg = NoMsg)
        /\ (rd.msg # NoMsg => IsMessage(rd.msg))
        /\ rd.msg # NoMsg => "type" \in DOMAIN rd.msg
    BY DEF Inv, Shape, Position, Loops
  <1>1. CASE ParseTlv
    <2>1. rd.stage = "parse" /\ Silent
      BY <1>1 DEF ParseTlv
    <2>2. CASE \E err : rd' = ParseError(rd, err)
      BY <1>0, <2>1, <2>2, ParseErrorBalanced
    <2>3. CASE ~ \E err : rd' = ParseError(rd, err)
      <3>1. rd'.stage = rd.stage /\ rd'.msg = rd.msg /\ rd'.ci = rd.ci
        BY <1>0, <1>1, <2>3 DEF ParseTlv, Fields
      <3> QED
        BY <1>0, <2>1, <3>1 DEF Loops, Contexts
    <2> QED
      BY <2>2, <2>3
  <1>2. CASE TlvBlockParsed
    <2>1. rd.stage = "parse" /\ Silent
      BY <1>2 DEF TlvBlockParsed
    <2>2. CASE rd.msg = NoMsg
      <3>1. rd'.stage = "packet" /\ rd'.msg = NoMsg /\ rd'.ci = 1
        BY <1>0, <1>2, <2>1, <2>2 DEF TlvBlockParsed, Fields, Loops
      <3>2. 1 - 1 = 0 /\ 1 <= P + 1
        BY Counts
      <3> QED
        BY <2>1, <2>2, <3>1, <3>2 DEF Loops, Contexts
    <2>3. CASE rd.msg # NoMsg
      <3>1. rd'.stage = "blocks" /\ DOMAIN rd'.msg = DOMAIN rd.msg
        BY <1>0, <1>2, <2>1, <2>3 DEF TlvBlockParsed, Fields
      <3> QED
        BY <1>0, <2>1, <2>3, <3>1 DEF Loops, Contexts
    <2> QED
      BY <2>2, <2>3
  <1>3. CASE ReadMessage
    <2> DEFINE m == parse_msgheader(rd.buf, rd.ptr)
               s == [rd EXCEPT !.msg = m.msg, !.eob = m.msg.end]
    <2>1. rd.stage = "message" /\ Silent /\ rd.msg = NoMsg
      BY <1>0, <1>3 DEF ReadMessage
    <2>2. CASE m.err # PBB_OKAY
      <3>1. rd'.stage = "message" /\ rd'.msg = NoMsg
        BY <1>0, <1>3, <2>1, <2>2 DEF ReadMessage, Fields
      <3> QED
        BY <2>1, <3>1 DEF Loops, Contexts
    <2>3. CASE m.err = PBB_OKAY
      <3>1. rd' = parse_tlvblock(s, m.body)
        BY <1>3, <2>3 DEF ReadMessage
      <3>2. {"type", "tlvs"} \subseteq DOMAIN m.msg
        BY <2>3 DEF parse_msgheader, PBB_OKAY, PBB_END_OF_BUFFER
      <3>3. m.msg # NoMsg
        BY <3>2 DEF NoMsg
      <3>4. DOMAIN s = Fields /\ s.msg = m.msg
        BY <1>0 DEF Fields
      <3> HIDE DEF s, m
      <3>5. Loops(rd') /\ Contexts(rd') = Nested(P, {}, {})
        BY <3>1, <3>2, <3>3, <3>4, BlockBeginsBalanced
      <3> QED
        BY <2>1, <3>5 DEF Contexts
    <2> QED
      BY <2>2, <2>3
  <1>4. CASE ReadAddressBlock
    <2> DEFINE blk == parse_addrblock(rd.buf, rd.msg.addrlen, rd.ptr, rd.msg.end)
               s == [rd EXCEPT !.blk = <<blk.block>>, !.used = @ + 1, !.held = @ + 1]
    <2>1. rd.stage = "blocks" /\ Silent /\ rd.msg # NoMsg
      BY <1>0, <1>4 DEF ReadAddressBlock
    <2>2. CASE \E err : rd' = ParseError(rd, err)
      BY <1>0, <2>1, <2>2, ParseErrorBalanced
    <2>3. CASE ~ \E err : rd' = ParseError(rd, err)
      <3>1. rd' = parse_tlvblock(s, blk.ptr)
        BY <1>4, <2>3 DEF ReadAddressBlock
      <3>2. DOMAIN s = Fields /\ s.msg = rd.msg
        BY <1>0 DEF Fields
      <3> HIDE DEF s, blk
      <3>3. Loops(rd') /\ Contexts(rd') = Nested(P, {}, {})
        BY <1>0, <2>1, <3>1, <3>2, BlockBeginsBalanced
      <3> QED
        BY <2>1, <3>3 DEF Contexts
    <2> QED
      BY <2>2, <2>3
  <1> QED
    BY <1>1, <1>2, <1>3, <1>4

-----------------------------------------------------------------------------
(* The steps between the callbacks.                                         *)

LEMMA ArriveBalanced ==
  ASSUME NEW b, NEW f, handle_packet(b, f)
  PROVE  Silent /\ Loops(rd') /\ Contexts(rd') = Contexts(rd)
  <1> DEFINE flags == pbb_get_u8(b, 0, Len(b)) % 16
             body  == 1 + Takes(Flag(flags, PKT_SEQNO), 2)
             s     == [Idle EXCEPT !.stage = "packet", !.buf = b, !.fail = f, !.ptr = body,
                               !.eob = Len(b), !.has_tlv = Flag(flags, PKT_TLV), !.ci = 1]
  <1>1. /\ rd.stage = "idle" /\ Silent
        /\ \/ \E err : rd' = [Idle EXCEPT !.result = err]
           \/ rd' = parse_tlvblock(s, body)
           \/ rd' = s
    BY Zenon DEF handle_packet
  <1>2. Contexts(rd) = Nested(0, {}, {})
    BY <1>1 DEF Contexts
  <1>3. DOMAIN s = Fields /\ s.stage = "packet" /\ s.msg = NoMsg /\ s.ci = 1
    BY DEF Idle, Fields
  <1> HIDE DEF s
  <1>4. CASE \E err : rd' = [Idle EXCEPT !.result = err]
    <2>1. rd'.stage = "idle" /\ rd'.msg = NoMsg
      BY <1>4 DEF Idle
    <2> QED
      BY <1>1, <1>2, <2>1 DEF Loops, Contexts
  <1>5. CASE rd' = parse_tlvblock(s, body)
    BY <1>1, <1>2, <1>3, <1>5, BlockBeginsBalanced
  <1>6. CASE rd' = s
    <2>1. 1 - 1 = 0 /\ 1 <= P + 1
      BY Counts
    <2> QED
      BY <1>1, <1>2, <1>3, <1>6, <2>1 DEF Loops, Contexts
  <1> QED
    BY <1>1, <1>4, <1>5, <1>6

LEMMA PacketStepsBalanced ==
  ASSUME Inv(rd, gone), Loops(rd),
         PacketConsumersDone \/ MessagesDone \/ PacketDone \/ MessageRead
  PROVE  Silent /\ Loops(rd') /\ Contexts(rd') = Contexts(rd)
  <1>0. /\ DOMAIN rd = Fields /\ (rd.stage = "blocks" => rd.msg # NoMsg)
        /\ (rd.stage \in {"packet", "message"} => rd.msg = NoMsg)
        /\ (rd.stage # "idle" => rd.ci \in Nat \ {0})
    BY DEF Inv, Shape, Position
  <1>1. CASE PacketConsumersDone
    <2>1. rd.stage = "packet" /\ rd.ci > P /\ Silent /\ rd.msg = NoMsg
      BY <1>0, <1>1 DEF PacketConsumersDone, P
    <2>2. rd'.stage = "message" /\ rd'.msg = NoMsg
      BY <1>0, <1>1, <2>1 DEF PacketConsumersDone, Fields
    <2>3. rd.ci - 1 = P
      BY <1>0, <2>1, Counts DEF Loops
    <2> QED
      BY <2>1, <2>2, <2>3 DEF Loops, Contexts
  <1>2. CASE MessagesDone
    <2>1. rd.stage = "message" /\ Silent /\ rd.msg = NoMsg
      BY <1>0, <1>2 DEF MessagesDone
    <2>2. rd'.stage = "endpkt" /\ rd'.msg = NoMsg /\ rd'.down = P
      BY <1>0, <1>2, <2>1 DEF MessagesDone, Fields, P
    <2>3. P \in 0..P
      BY Counts
    <2> QED
      BY <2>1, <2>2, <2>3 DEF Loops, Contexts
  <1>3. CASE PacketDone
    <2>1. rd.stage = "endpkt" /\ rd.down = 0 /\ Silent
      BY <1>3 DEF PacketDone
    <2>2. rd'.stage = "idle" /\ rd'.msg = NoMsg
      BY <1>3 DEF PacketDone, Idle
    <2> QED
      BY <2>1, <2>2 DEF Loops, Contexts
  <1>4. CASE MessageRead
    <2>1. rd.stage = "blocks" /\ Silent /\ rd.msg # NoMsg
      BY <1>0, <1>4 DEF MessageRead
    <2>2. rd'.stage = "consumer" /\ rd'.msg = rd.msg /\ rd'.first = 0
      BY <1>0, <1>4 DEF MessageRead, Fields
    <2>3. Started(rd'.msg.type, 0, rd'.last) = {}
      BY DEF Started
    <2> QED
      BY <2>1, <2>2, <2>3 DEF Loops, Contexts, OneOrder, Passed
  <1> QED
    BY <1>1, <1>2, <1>3, <1>4

(* With none started there is nothing to end. *)
LEMMA NoneStarted ==
  ASSUME NEW type, NEW first, NEW last, first = 0 \/ (first \in Int /\ last \in Int /\ last < first)
  PROVE  Started(type, first, last) = {}
  BY DEF Started

(* The loop over the message consumers is left. *)
LEMMA LeaveBalanced ==
  ASSUME NEW s, DOMAIN s = Fields, s.msg # NoMsg, "type" \in DOMAIN s.msg,
         s.first \in Nat, s.last \in Nat, OneOrder(s.first, s.last)
  PROVE  /\ Loops(LeaveConsumers(s))
         /\ Contexts(LeaveConsumers(s)) = Nested(P, Started(s.msg.type, s.first, s.last), {})
  <1> DEFINE u == LeaveConsumers(s)
  <1>1. /\ u.stage = IF s.first # 0 THEN "endmsg" ELSE "cleanup"
        /\ u.msg = s.msg /\ u.first = s.first /\ u.last = s.last /\ u.down = s.last
    BY DEF LeaveConsumers, Fields
  <1> HIDE DEF u
  <1>2. CASE s.first = 0
    <2>1. Started(s.msg.type, s.first, s.last) = {}
      BY <1>2, NoneStarted
    <2> QED
      BY <1>1, <1>2, <2>1 DEF Loops, Contexts, u
  <1>3. CASE s.first # 0
    <2>1. s.last \in (s.first - 1)..s.last
      BY <1>3 DEF OneOrder
    <2> QED
      BY <1>1, <1>3, <2>1 DEF Loops, Contexts, u
  <1> QED
    BY <1>2, <1>3

(* The loop goes on to the next consumer. *)
LEMMA PassedOn ==
  ASSUME NEW type, NEW first, NEW last \in Nat, NEW ci \in Nat, Passed(type, first, last, ci),
         \/ MessageConsumers[ci].kind # "message"
         \/ ~WantsType(type, MessageConsumers[ci])
         \/ last = ci
  PROVE  Passed(type, first, last, ci + 1) /\ (first # 0 => last < ci + 1)
  <1> SUFFICES ASSUME first # 0
               PROVE  /\ last < ci + 1
                      /\ \A j \in (last + 1)..(ci + 1 - 1) :
                           MessageConsumers[j].kind = "message"
                             => ~WantsType(type, MessageConsumers[j])
    BY DEF Passed
  <1>1. /\ last <= ci
        /\ \A j \in (last + 1)..(ci - 1) :
             MessageConsumers[j].kind = "message" => ~WantsType(type, MessageConsumers[j])
    BY DEF Passed
  <1>2. \A j \in (last + 1)..(ci + 1 - 1) : j \in (last + 1)..(ci - 1) \/ (j = ci /\ last # ci)
    BY <1>1
  <1>3. last < ci + 1
    BY <1>1
  <1> QED
    BY <1>1, <1>2, <1>3, Zenon

LEMMA ConsumerStepsBalanced ==
  ASSUME Inv(rd, gone), Loops(rd),
         SkipConsumer \/ EndOrder \/ StartAddressConsumer \/ ConsumersDone \/ EndMessageDone
  PROVE  Silent /\ Loops(rd') /\ Contexts(rd') = Contexts(rd)
  <1>0. /\ DOMAIN rd = Fields
        /\ (rd.stage \in {"consumer", "endmsg"} => rd.msg # NoMsg)
        /\ rd.first \in Nat /\ rd.last \in Nat
        /\ (rd.stage # "idle" => rd.ci \in Nat \ {0})
        /\ (rd.msg # NoMsg => "type" \in DOMAIN rd.msg)
    BY Counts DEF Inv, Shape, Position, Loops, M
  <1>1. CASE SkipConsumer
    <2>1. /\ rd.stage = "consumer" /\ Silent /\ ~Wants(MessageConsumers[rd.ci])
          /\ rd' = [rd EXCEPT !.ci = @ + 1] /\ rd.msg # NoMsg
      BY <1>0, <1>1 DEF SkipConsumer
    <2>2. /\ rd'.stage = "consumer" /\ rd'.msg = rd.msg /\ rd'.first = rd.first
          /\ rd'.last = rd.last /\ rd'.ci = rd.ci + 1
      BY <1>0, <2>1 DEF Fields
    <2>3. ~WantsType(rd.msg.type, MessageConsumers[rd.ci])
      BY <2>1 DEF Wants, WantsType
    <2>4. /\ Passed(rd.msg.type, rd.first, rd.last, rd.ci + 1)
          /\ rd.first # 0 => rd.last < rd.ci + 1
      <3>1. Passed(rd.msg.type, rd.first, rd.last, rd.ci) /\ rd.ci \in Nat
        BY <1>0, <2>1 DEF Loops
      <3> QED
        BY <1>0, <2>3, <3>1, PassedOn
    <2> QED
      BY <1>0, <2>1, <2>2, <2>4 DEF Loops, Contexts
  <1>2. CASE EndOrder
    <2>1. /\ rd.stage = "consumer" /\ Silent /\ rd.first # 0
          /\ rd' = [rd EXCEPT !.stage = "endmsg", !.down = rd.last] /\ rd.msg # NoMsg
      BY <1>0, <1>2 DEF EndOrder, OrderDone
    <2>2. /\ rd'.stage = "endmsg" /\ rd'.msg = rd.msg /\ rd'.first = rd.first
          /\ rd'.last = rd.last /\ rd'.down = rd.last
      BY <1>0, <2>1 DEF Fields
    <2>3. rd.last \in (rd.first - 1)..rd.last
      BY <1>0, <2>1 DEF Loops, OneOrder
    <2> QED
      BY <2>1, <2>2, <2>3 DEF Loops, Contexts
  <1>3. CASE StartAddressConsumer
    <2>1. /\ rd.stage = "consumer" /\ Silent
          /\ rd' = [rd EXCEPT !.stage = "address", !.bi = 1, !.ai = 0] /\ rd.msg # NoMsg
      BY <1>0, <1>3 DEF StartAddressConsumer
    <2>2. /\ rd'.stage = "address" /\ rd'.msg = rd.msg /\ rd'.first = rd.first
          /\ rd'.last = rd.last /\ rd'.ci = rd.ci
      BY <1>0, <2>1 DEF Fields
    <2> QED
      BY <2>1, <2>2 DEF Loops, Contexts
  <1>4. CASE ConsumersDone
    <2>1. rd.stage = "consumer" /\ Silent /\ rd' = LeaveConsumers(rd) /\ rd.msg # NoMsg
      BY <1>0, <1>4 DEF ConsumersDone
    <2>2. OneOrder(rd.first, rd.last)
      BY <2>1 DEF Loops
    <2>3. Loops(rd') /\ Contexts(rd') = Nested(P, Started(rd.msg.type, rd.first, rd.last), {})
      BY <1>0, <2>1, <2>2, LeaveBalanced
    <2> QED
      BY <2>1, <2>3 DEF Contexts
  <1>5. CASE EndMessageDone
    <2>1. /\ rd.stage = "endmsg" /\ Silent /\ rd.down < rd.first /\ rd.msg # NoMsg
          /\ rd' = [rd EXCEPT !.stage = IF rd.result = PBB_OKAY THEN "consumer" ELSE "cleanup",
                              !.first = 0]
      BY <1>0, <1>5 DEF EndMessageDone
    <2>2. rd'.stage \in {"consumer", "cleanup"} /\ rd'.msg = rd.msg /\ rd'.first = 0
      BY <1>0, <2>1 DEF Fields
    <2>3. Started(rd.msg.type, rd.first, rd.down) = {}
      <3>1. rd.down \in Int
        BY <1>0, <2>1 DEF Loops
      <3> QED
        BY <1>0, <2>1, <3>1, NoneStarted
    <2>4. Started(rd'.msg.type, 0, rd'.last) = {}
      BY NoneStarted
    <2> QED
      BY <1>0, <2>1, <2>2, <2>3, <2>4 DEF Loops, Contexts, OneOrder, Passed
  <1> QED
    BY <1>1, <1>2, <1>3, <1>4, <1>5

LEMMA MessageDoneBalanced ==
  ASSUME Inv(rd, gone), MessageDone
  PROVE  call'.cb \notin {"start", "end"} /\ Loops(rd') /\ Contexts(rd') = Contexts(rd)
  <1>1. DOMAIN rd = Fields /\ rd.stage = "cleanup"
    BY DEF MessageDone, Inv, Shape
  <1>2. rd'.stage = "message" /\ rd'.msg = NoMsg
    BY <1>1 DEF MessageDone, Fields
  <1>3. call'.cb \in {"none", "forward"}
    BY DEF MessageDone, NoCall
  <1> QED
    BY <1>1, <1>2, <1>3 DEF Loops, Contexts

(* An address consumer is done with the addresses or goes on to the next. *)
LEMMA SkipAddressBalanced ==
  ASSUME Inv(rd, gone), Loops(rd), SkipAddress
  PROVE  Silent /\ Loops(rd') /\ Contexts(rd') = Contexts(rd)
  <1>0. /\ DOMAIN rd = Fields /\ rd.stage = "address" /\ Silent /\ rd.msg # NoMsg
        /\ rd.ci \in Nat \ {0} /\ rd.last \in Nat
        /\ MessageConsumers[rd.ci].kind = "address"
    BY Counts DEF SkipAddress, Inv, Shape, Position, M
  <1>1. /\ rd'.msg = rd.msg /\ rd'.first = rd.first /\ rd'.last = rd.last
        /\ \/ rd'.stage = "address" /\ rd'.ci = rd.ci
           \/ rd'.stage = "consumer" /\ rd'.ci = rd.ci + 1
    BY <1>0 DEF SkipAddress, Fields
  <1>2. CASE rd'.stage = "address" /\ rd'.ci = rd.ci
    BY <1>0, <1>1, <1>2 DEF Loops, Contexts
  <1>3. CASE rd'.stage = "consumer" /\ rd'.ci = rd.ci + 1
    <2>1. Passed(rd.msg.type, rd.first, rd.last, rd.ci + 1) /\ (rd.first # 0 => rd.last < rd.ci + 1)
      <3>1. Passed(rd.msg.type, rd.first, rd.last, rd.ci)
        BY <1>0 DEF Loops
      <3> QED
        BY <1>0, <3>1, PassedOn
    <2> QED
      BY <1>0, <1>1, <1>3, <2>1 DEF Loops, Contexts
  <1> QED
    BY <1>1, <1>2, <1>3

-----------------------------------------------------------------------------
(* In the context of a consumer.                                            *)

(* The reader, in state s, is in the context of consumer c. *)
Inside(s, c) ==
  /\ DOMAIN s = Fields /\ Context(s, c)
  /\ c.kind # "packet" =>
       /\ "type" \in DOMAIN s.msg /\ s.first \in Nat /\ s.last \in Nat
       /\ OneOrder(s.first, s.last) /\ Passed(s.msg.type, s.first, s.last, s.ci)
  /\ c.kind = "message" => s.first # 0 /\ s.last = s.ci

(* The contexts that are open then. *)
Around(s) == IF s.msg = NoMsg THEN Nested(s.ci, {}, {})
             ELSE Nested(P, Started(s.msg.type, s.first, s.last), InAddress(s.ci))

LEMMA TlvsInside ==
  ASSUME Inv(rd, gone), Loops(rd), rd.stage = "tlvs", NEW c, c = Consumers[rd.ci]
  PROVE  Inside(rd, c) /\ Contexts(rd) = Around(rd)
  <1>1. Context(rd, c)
    BY TlvsContext
  <1>2. Contexts(rd) = Around(rd)
    BY DEF Contexts, Around
  <1>3. DOMAIN rd = Fields /\ rd.first \in Nat /\ rd.last \in Nat
    BY Counts DEF Inv, Shape, M
  <1>4. c.kind # "packet" => rd.msg # NoMsg /\ MessageConsumers[rd.ci] = c
    BY <1>1 DEF Context
  <1> QED
    BY <1>1, <1>2, <1>3, <1>4 DEF Inside, Loops

LEMMA MergeBalanced ==
  ASSUME NEW c, NEW s, Inside(s, c)
  PROVE  Loops(Merge(c, s)) /\ Contexts(Merge(c, s)) = Around(s)
  <1> DEFINE u == Merge(c, s)
  <1>0. DOMAIN s = Fields /\ Context(s, c)
    BY DEF Inside
  <1>1. /\ u.stage = "tlvs" /\ u.msg = s.msg /\ u.first = s.first /\ u.last = s.last
        /\ u.ci = s.ci
    BY <1>0 DEF Merge, Fields
  <1> HIDE DEF u
  <1>2. Contexts(u) = Around(s)
    BY <1>1 DEF Contexts, Around
  <1>3. s.msg # NoMsg => c.kind # "packet" /\ MessageConsumers[s.ci] = c
    BY <1>0 DEF Context
  <1>4. Loops(u)
    BY <1>1, <1>3 DEF Loops, Inside
  <1> QED
    BY <1>2, <1>4 DEF u

LEMMA AfterBalanced ==
  ASSUME NEW c, NEW s, Inside(s, c)
  PROVE  Loops(AfterConsumer(c, s)) /\ Contexts(AfterConsumer(c, s)) = Around(s)
  <1> DEFINE u == AfterConsumer(c, s)
  <1>0. /\ DOMAIN s = Fields /\ s.ci \in Nat \ {0}
        /\ c.kind \in {"packet", "message", "address"}
        /\ c.kind = "packet" <=> s.msg = NoMsg
        /\ c.kind = "packet" => s.ci <= P
        /\ c.kind # "packet" => s.ci <= M /\ MessageConsumers[s.ci] = c
    BY DEF Inside, Context, P, M
  <1>1. CASE c.kind = "packet"
    <2>1. /\ u.msg = NoMsg
          /\ \/ u.stage = "packet" /\ u.ci = s.ci + 1
             \/ u.stage = "endpkt" /\ u.down = s.ci
      BY <1>0, <1>1 DEF AfterConsumer, Fields
    <2> HIDE DEF u
    <2>2. s.ci + 1 - 1 = s.ci /\ s.ci + 1 <= P + 1 /\ s.ci \in 0..P
      BY <1>0, <1>1, Counts
    <2>3. Around(s) = Nested(s.ci, {}, {})
      BY <1>0, <1>1 DEF Around
    <2> QED
      BY <2>1, <2>2, <2>3 DEF Loops, Contexts, u
  <1>2. CASE c.kind = "message"
    <2>1. InAddress(s.ci) = {}
      BY <1>0, <1>2 DEF InAddress
    <2>2. Around(s) = Nested(P, Started(s.msg.type, s.first, s.last), {})
      BY <1>0, <1>2, <2>1 DEF Around
    <2>3. /\ "type" \in DOMAIN s.msg /\ s.first \in Nat /\ s.last \in Nat
          /\ OneOrder(s.first, s.last) /\ Passed(s.msg.type, s.first, s.last, s.ci)
          /\ s.last = s.ci
      BY <1>2 DEF Inside
    <2>4. CASE s.result = PBB_OKAY
      <3>1. /\ u.stage = "consumer" /\ u.msg = s.msg /\ u.first = s.first /\ u.last = s.last
            /\ u.ci = s.ci + 1
        BY <1>0, <1>2, <2>4 DEF AfterConsumer, Fields
      <3>2. /\ Passed(s.msg.type, s.first, s.last, s.ci + 1)
            /\ s.first # 0 => s.last < s.ci + 1
        <4>1. s.ci \in Nat
          BY <1>0
        <4> QED
          BY <2>3, <4>1, PassedOn
      <3> HIDE DEF u
      <3> QED
        BY <1>0, <1>2, <2>2, <2>3, <3>1, <3>2 DEF Loops, Contexts, u
    <2>5. CASE s.result # PBB_OKAY
      <3>1. u = LeaveConsumers(s)
        BY <1>2, <2>5 DEF AfterConsumer
      <3> QED
        BY <1>0, <1>2, <2>2, <2>3, <3>1, LeaveBalanced
    <2> QED
      BY <2>4, <2>5
  <1>3. CASE c.kind = "address"
    <2>1. /\ u.stage = "addrend" /\ u.msg = s.msg /\ u.first = s.first /\ u.last = s.last
          /\ u.ci = s.ci
      BY <1>0, <1>3 DEF AfterConsumer, Fields
    <2> HIDE DEF u
    <2>2. Contexts(u) = Around(s)
      BY <1>0, <1>3, <2>1 DEF Contexts, Around
    <2>3. Loops(u)
      BY <1>0, <1>3, <2>1 DEF Loops, Inside
    <2> QED
      BY <2>2, <2>3 DEF u
  <1> QED
    BY <1>0, <1>1, <1>2, <1>3

(* Marking TLVs as dropped opens and ends nothing. *)
LEMMA MarksInside ==
  ASSUME NEW c, NEW s, Inside(s, c), s.msg # NoMsg => IsMessage(s.msg),
         NEW u, DOMAIN u = Fields, NEW T, Marks(s, u, c.kind, T),
         u.ci = s.ci, u.bi = s.bi, u.first = s.first, u.last = s.last
  PROVE  Inside(u, c) /\ Around(u) = Around(s)
  <1>0. Context(s, c) /\ c.kind \in {"packet", "message", "address"}
    BY DEF Inside, Context
  <1>1. CASE c.kind = "packet"
    <2>1. u.msg = s.msg
      BY <1>1 DEF Marks
    <2> QED
      BY <1>1, <2>1 DEF Inside, Context, Around
  <1>2. CASE c.kind # "packet"
    <2>1. s.msg # NoMsg /\ IsMessage(s.msg) /\ "type" \in DOMAIN s.msg
      BY <1>0, <1>2 DEF Inside, Context
    <2>2. \E f : \E v : u.msg = [s.msg EXCEPT ![f] = v] /\ f \in {"tlvs", "blocks"}
                        /\ (f = "blocks" => DOMAIN v = DOMAIN s.msg.blocks)
      <3>1. CASE c.kind = "message"
        <4> DEFINE v == Marked(s.msg.tlvs, T, 0)
        <4>1. u.msg = [s.msg EXCEPT !.tlvs = v]
          BY <3>1 DEF Marks
        <4> HIDE DEF v
        <4>2. "tlvs" \in {"tlvs", "blocks"} /\ "tlvs" # "blocks"
          OBVIOUS
        <4> QED
          BY <4>1, <4>2, Zenon
      <3>2. CASE c.kind = "address"
        <4> DEFINE blk == s.msg.blocks[s.bi]
                   new == [blk EXCEPT !.tlvs = Marked(blk.tlvs, T, s.ai)]
                   v == [s.msg.blocks EXCEPT ![s.bi] = new]
        <4>1. u.msg = [s.msg EXCEPT !.blocks = v]
          BY <3>2 DEF Marks
        <4> HIDE DEF new
        <4>2. DOMAIN v = DOMAIN s.msg.blocks
          OBVIOUS
        <4> HIDE DEF v
        <4> QED
          BY <4>1, <4>2
      <3> QED
        BY <1>0, <1>2, <3>1, <3>2
    <2>3. /\ DOMAIN u.msg = DOMAIN s.msg /\ u.msg.type = s.msg.type
          /\ DOMAIN u.msg.blocks = DOMAIN s.msg.blocks
      BY <2>1, <2>2 DEF IsMessage
    <2>4. u.msg # NoMsg
      BY <2>1, <2>3 DEF IsMessage, NoMsg
    <2>5. Around(u) = Around(s)
      BY <2>1, <2>3, <2>4 DEF Around
    <2>6. Context(u, c)
      BY <1>0, <1>2, <2>1, <2>3, <2>4 DEF Context
    <2> QED
      BY <1>2, <2>3, <2>5, <2>6 DEF Inside
  <1> QED
    BY <1>1, <1>2

(* What only the merge or the results are changed by. *)
LEMMA SameInside ==
  ASSUME NEW c, NEW s, Inside(s, c), NEW u, DOMAIN u = Fields, u.msg = s.msg,
         u.ci = s.ci, u.bi = s.bi, u.first = s.first, u.last = s.last
  PROVE  Inside(u, c) /\ Around(u) = Around(s)
  BY DEF Inside, Context, Around

LEMMA MatchTlvBalanced ==
  ASSUME Inv(rd, gone), Loops(rd), History, MatchTlv
  PROVE  open' = open /\ Loops(rd') /\ Contexts(rd') = Contexts(rd)
  <1> DEFINE c == Consumers[rd.ci]
             tlvs == Tlvs(c)
             indexed == rd.ti \in DOMAIN tlvs /\ index_match(c, tlvs[rd.ti])
             d == IF indexed THEN c ELSE [c EXCEPT !.callbacks = {}]
             S(r) == [rd EXCEPT !.result = IF r = PBB_DROP_TLV THEN PBB_OKAY ELSE r,
                                !.drops = Drops(r)]
             next(r) == Advance(NoteEntry(c, tlvs, r, S(r)), tlvs, c.entries)
  <1>0. /\ rd.stage = "tlvs" /\ DOMAIN rd = Fields
        /\ rd.msg # NoMsg => IsMessage(rd.msg)
    BY DEF MatchTlv, Inv, Shape
  <1>1. PICK r \in Results(d, "tlv") :
          /\ Called(d, "tlv", r, {rd.ti})
          /\ rd' = CASE r = PBB_OKAY -> next(r)
                     [] r = PBB_DROP_TLV -> DropTlvs(c, next(r), {rd.ti})
                     [] OTHER -> AfterConsumer(c, S(r))
    BY DEF MatchTlv
  <1>2. Inside(rd, c) /\ Contexts(rd) = Around(rd)
    BY <1>0, TlvsInside
  <1>kind. c.kind \in {"packet", "message", "address"}
    BY <1>2 DEF Inside, Context
  <1> HIDE DEF c, tlvs
  <1>3. open' = open
    <2> HIDE DEF d
    <2> QED
      BY <1>1, OpenCalled
  <1>4. /\ DOMAIN S(r) = Fields /\ S(r).stage = "tlvs" /\ S(r).msg = rd.msg
        /\ S(r).ci = rd.ci /\ S(r).bi = rd.bi /\ S(r).ai = rd.ai
        /\ S(r).first = rd.first /\ S(r).last = rd.last
    BY <1>0 DEF Fields
  <1> HIDE DEF S
  <1>5. Inside(S(r), c) /\ Around(S(r)) = Around(rd)
    BY <1>2, <1>4, SameInside
  <1>6. /\ DOMAIN next(r) = Fields /\ next(r).stage = "tlvs" /\ next(r).msg = rd.msg
        /\ next(r).ci = rd.ci /\ next(r).bi = rd.bi /\ next(r).ai = rd.ai
        /\ next(r).first = rd.first /\ next(r).last = rd.last
    BY <1>4, RoundFields
  <1> HIDE DEF next, d
  <1>7. Inside(next(r), c) /\ Around(next(r)) = Around(rd)
    BY <1>2, <1>6, SameInside
  <1>inside. ASSUME NEW u, Inside(u, c), u.stage = "tlvs"
             PROVE  Loops(u) /\ Contexts(u) = Around(u)
    <2>1. Context(u, c)
      BY <1>inside DEF Inside
    <2>2. u.msg # NoMsg => c.kind # "packet" /\ MessageConsumers[u.ci] = c
      BY <2>1 DEF Context
    <2>3. Loops(u)
      BY <1>inside, <2>2 DEF Loops, Inside
    <2> QED
      BY <1>inside, <2>3 DEF Contexts, Around
  <1>8. CASE r = PBB_OKAY
    <2>1. rd' = next(r)
      BY <1>1, <1>8 DEF PBB_OKAY, PBB_DROP_TLV
    <2>2. rd'.stage = "tlvs" /\ Inside(rd', c) /\ Around(rd') = Around(rd)
      BY <1>6, <1>7, <2>1
    <2> QED
      BY <1>2, <1>3, <1>inside, <2>2
  <1>9. CASE r = PBB_DROP_TLV
    <2>1. rd' = DropTlvs(c, next(r), {rd.ti})
      BY <1>1, <1>9 DEF PBB_OKAY, PBB_DROP_TLV
    <2>2. /\ DOMAIN rd' = Fields
          /\ \A f \in Fields \ {"ptlvs", "msg"} : rd'[f] = next(r)[f]
          /\ Marks(next(r), rd', c.kind, {rd.ti})
      BY <1>kind, <1>6, <2>1, DropTlvsMarks
    <2>3. /\ rd'.stage = "tlvs" /\ rd'.ci = next(r).ci /\ rd'.bi = next(r).bi
          /\ rd'.first = next(r).first /\ rd'.last = next(r).last
      BY <1>6, <2>2 DEF Fields
    <2>4. Inside(rd', c) /\ Around(rd') = Around(next(r))
      BY <1>0, <1>6, <1>7, <2>2, <2>3, MarksInside
    <2> QED
      BY <1>2, <1>3, <1>7, <1>inside, <2>3, <2>4
  <1>10. CASE r \notin {PBB_OKAY, PBB_DROP_TLV}
    <2>1. rd' = AfterConsumer(c, S(r))
      BY <1>1, <1>10
    <2> QED
      BY <1>2, <1>3, <1>5, <2>1, AfterBalanced
  <1> QED
    BY <1>8, <1>9, <1>10

LEMMA HandleBlockBalanced ==
  ASSUME Inv(rd, gone), Loops(rd), History, HandleBlock
  PROVE  open' = open /\ Loops(rd') /\ Contexts(rd') = Contexts(rd)
  <1> DEFINE c == Consumers[rd.ci]
             S(r) == [rd EXCEPT !.drops = Drops(r),
                                !.result = IF r = PBB_DROP_TLV THEN PBB_OKAY ELSE r]
  <1>0. /\ rd.stage = "tlvs" /\ DOMAIN rd = Fields
        /\ rd.msg # NoMsg => IsMessage(rd.msg)
    BY DEF HandleBlock, Inv, Shape
  <1>1. PICK r, T : /\ Called(c, "block", r, T)
                    /\ rd' = AfterConsumer(c, DropTlvs(c, S(r), T))
    BY DEF HandleBlock
  <1>2. Inside(rd, c) /\ Contexts(rd) = Around(rd)
    BY <1>0, TlvsInside
  <1>kind. c.kind \in {"packet", "message", "address"}
    BY <1>2 DEF Inside, Context
  <1> HIDE DEF c
  <1>3. open' = open
    BY <1>1, OpenCalled
  <1>4. /\ DOMAIN S(r) = Fields /\ S(r).msg = rd.msg
        /\ S(r).ci = rd.ci /\ S(r).bi = rd.bi /\ S(r).ai = rd.ai
        /\ S(r).first = rd.first /\ S(r).last = rd.last
    BY <1>0 DEF Fields
  <1> HIDE DEF S
  <1>5. Inside(S(r), c) /\ Around(S(r)) = Around(rd)
    BY <1>2, <1>4, SameInside
  <1> DEFINE w == DropTlvs(c, S(r), T)
  <1>6. /\ DOMAIN w = Fields
        /\ \A f \in Fields \ {"ptlvs", "msg"} : w[f] = S(r)[f]
        /\ Marks(S(r), w, c.kind, T)
    BY <1>kind, <1>4, DropTlvsMarks
  <1>7. w.ci = S(r).ci /\ w.bi = S(r).bi /\ w.first = S(r).first /\ w.last = S(r).last
    <2> HIDE DEF w
    <2> QED
      BY <1>6 DEF Fields
  <1>8. rd' = AfterConsumer(c, w)
    BY <1>1
  <1> HIDE DEF w
  <1>9. Inside(w, c) /\ Around(w) = Around(S(r))
    BY <1>0, <1>4, <1>5, <1>6, <1>7, MarksInside
  <1> QED
    BY <1>2, <1>3, <1>5, <1>8, <1>9, AfterBalanced

-----------------------------------------------------------------------------
(* The start and end callbacks.                                             *)

LEMMA OpenPush ==
  ASSUME History, NEW c, NEW r, NEW T, Called(c, "start", r, T),
         NEW K, Stack(open, K), NEW x \in Nat, ConsumerAt(x) = c, \A y \in K : y < x,
         NEW L, L = IF Opens(c) THEN K \cup {x} ELSE K
  PROVE  Stack(open', L)
  <1>1. open' = IF Opens(c) THEN Append(open, c) ELSE open
    BY OpenStarted
  <1>2. Stack(Append(open, c), K \cup {x})
    BY Push
  <1> QED
    BY <1>1, <1>2

LEMMA OpenPop ==
  ASSUME History, NEW c, NEW r, NEW T, Called(c, "end", r, T),
         NEW K, Stack(open, K), NEW x, ConsumerAt(x) = c,
         Opens(c) => x \in K /\ \A y \in K : y <= x,
         NEW L, L = IF Opens(c) THEN K \ {x} ELSE K
  PROVE  Stack(open', L)
  <1>1. CASE Opens(c)
    <2>1. open # << >> /\ Last(open) = c /\ Stack(Front(open), K \ {x})
      BY <1>1, Pop
    <2>2. open' = Front(open)
      BY <1>1, <2>1, OpenEnded
    <2> QED
      BY <1>1, <2>1, <2>2
  <1>2. CASE ~Opens(c)
    BY <1>2, OpenEnded
  <1> QED
    BY <1>1, <1>2

(* The contexts of one more consumer. *)
LEMMA NestedPacket ==
  ASSUME NEW n \in 1..P
  PROVE  /\ ConsumerAt(n) = PacketConsumers[n]
         /\ \A y \in Nested(n - 1, {}, {}) : y < n
         /\ \A y \in Nested(n, {}, {}) : y <= n
         /\ n \in Nested(n, {}, {}) <=> Opens(PacketConsumers[n])
         /\ Nested(n - 1, {}, {}) = Nested(n, {}, {}) \ {n}
         /\ Nested(n, {}, {}) = IF Opens(PacketConsumers[n]) THEN Nested(n - 1, {}, {}) \cup {n}
                                ELSE Nested(n - 1, {}, {})
  <1>1. n \in Nat \ {0} /\ n <= P
    BY Counts
  <1>2. \A m : Nested(m, {}, {}) = {j \in 1..m : Opens(PacketConsumers[j])}
    BY DEF Nested
  <1>3. ConsumerAt(n) = PacketConsumers[n]
    BY <1>1 DEF ConsumerAt
  <1>4. \A j \in 1..n : j <= n /\ (j \in 1..(n - 1) <=> j # n)
    BY <1>1
  <1>5. \A j \in 1..(n - 1) : j \in 1..n /\ j < n
    BY <1>1
  <1> QED
    BY <1>1, <1>2, <1>3, <1>4, <1>5

LEMMA NestedMessage ==
  ASSUME NEW m \in 1..M, NEW J, \A j \in J : j \in Int /\ j < m
  PROVE  /\ ConsumerAt(P + m) = MessageConsumers[m]
         /\ \A y \in Nested(P, J, {}) : y < P + m
         /\ Nested(P, J \cup {m}, {}) = Nested(P, J, {}) \cup {P + m}
         /\ P + m \in Nat
  <1>1. m \in Nat \ {0} /\ m <= M /\ P \in Nat /\ M \in Nat
    BY Counts
  <1>2. ConsumerAt(P + m) = MessageConsumers[m]
    <2>1. ~(P + m <= P) /\ P + m <= P + M /\ (P + m) - P = m
      BY <1>1
    <2> QED
      BY <2>1 DEF ConsumerAt
  <1>3. ASSUME NEW y \in Nested(P, J, {}) PROVE y < P + m
    BY <1>1 DEF Nested
  <1>4. Nested(P, J \cup {m}, {}) = Nested(P, J, {}) \cup {P + m}
    BY DEF Nested
  <1> QED
    BY <1>1, <1>2, <1>3, <1>4

LEMMA NestedAddress ==
  ASSUME NEW i \in 1..M, NEW J, \A j \in J : j \in 1..M
  PROVE  /\ ConsumerAt(P + M + i) = MessageConsumers[i]
         /\ \A y \in Nested(P, J, {}) : y < P + M + i
         /\ Nested(P, J, {i}) = Nested(P, J, {}) \cup {P + M + i}
         /\ P + M + i \in Nat
  <1>1. i \in Nat \ {0} /\ i <= M /\ P \in Nat /\ M \in Nat
    BY Counts
  <1>2. ConsumerAt(P + M + i) = MessageConsumers[i]
    <2>1. ~(P + M + i <= P) /\ ~(P + M + i <= P + M) /\ (P + M + i) - P - M = i
      BY <1>1
    <2> QED
      BY <2>1 DEF ConsumerAt
  <1>3. ASSUME NEW y \in Nested(P, J, {}) PROVE y < P + M + i
    BY <1>1 DEF Nested
  <1>4. Nested(P, J, {i}) = Nested(P, J, {}) \cup {P + M + i}
    BY DEF Nested
  <1> QED
    BY <1>1, <1>2, <1>3, <1>4

LEMMA StartPacketBalanced ==
  ASSUME Inv(rd, gone), Balanced(rd, open), History, StartPacketConsumer
  PROVE  Balanced(rd', open')
  <1> DEFINE c == PacketConsumers[rd.ci]
             S(r) == [rd EXCEPT !.result = r, !.drops = Drops(r)]
  <1>0. DOMAIN rd = Fields /\ rd.ci \in Nat \ {0} /\ rd.stage = "packet" /\ rd.msg = NoMsg
    BY DEF Inv, Shape, Position, StartPacketConsumer
  <1>1. PICK r : /\ Called(c, "start", r, {})
                 /\ rd' = AfterConsumer(c, S(r)) \/ rd' = Merge(c, S(r))
    BY DEF StartPacketConsumer
  <1>2. rd.ci \in 1..P
    BY <1>0, Counts DEF StartPacketConsumer, P
  <1>3. c.kind = "packet"
    BY <1>2, ConsumersAssumption DEF Installed, P
  <1>4. DOMAIN S(r) = Fields /\ S(r).msg = NoMsg /\ S(r).ci = rd.ci
    BY <1>0 DEF Fields
  <1> HIDE DEF S
  <1>5. Inside(S(r), c) /\ Around(S(r)) = Nested(rd.ci, {}, {})
    BY <1>0, <1>2, <1>3, <1>4, Counts DEF Inside, Context, Around, P
  <1>6. Loops(rd') /\ Contexts(rd') = Nested(rd.ci, {}, {})
    <2> HIDE DEF c
    <2> QED
      BY <1>1, <1>5, AfterBalanced, MergeBalanced
  <1>7. Stack(open, Nested(rd.ci - 1, {}, {}))
    BY <1>0 DEF Balanced, Contexts
  <1>8. Stack(open', Nested(rd.ci, {}, {}))
    BY <1>0, <1>1, <1>2, <1>7, NestedPacket, OpenPush
  <1> QED
    BY <1>6, <1>8 DEF Balanced

LEMMA StartMessageBalanced ==
  ASSUME SortedConsumers(MessageConsumers),
         Inv(rd, gone), Balanced(rd, open), History, StartMessageConsumer
  PROVE  Balanced(rd', open')
  <1> DEFINE c == MessageConsumers[rd.ci]
             first == IF rd.first = 0 THEN rd.ci ELSE rd.first
             type == rd.msg.type
             S(r) == [rd EXCEPT !.result = r, !.drops = Drops(r), !.last = rd.ci,
                                !.first = IF @ = 0 THEN rd.ci ELSE @]
             old == Started(type, rd.first, rd.last)
  <1>0. /\ DOMAIN rd = Fields /\ rd.ci \in Nat \ {0} /\ rd.stage = "consumer" /\ rd.msg # NoMsg
        /\ rd.first \in Nat /\ rd.last \in Nat
    BY Counts DEF Inv, Shape, Position, StartMessageConsumer, M
  <1>1. PICK r : /\ Called(c, "start", r, {})
                 /\ rd' = AfterConsumer(c, S(r)) \/ rd' = Merge(c, S(r))
    BY DEF StartMessageConsumer
  <1>2. /\ rd.ci \in 1..M /\ c.kind = "message" /\ WantsType(type, c)
        /\ ~(rd.first # 0 /\ c.order > MessageConsumers[rd.last].order)
    BY <1>0, Counts DEF StartMessageConsumer, Wants, WantsType, OrderDone, M
  <1>3. /\ "type" \in DOMAIN rd.msg
        /\ OneOrder(rd.first, rd.last) /\ Passed(type, rd.first, rd.last, rd.ci)
        /\ rd.first # 0 => rd.last < rd.ci
    BY <1>0 DEF Balanced, Loops
  <1>4. /\ DOMAIN S(r) = Fields /\ S(r).msg = rd.msg /\ S(r).ci = rd.ci
        /\ S(r).first = first /\ S(r).last = rd.ci
    BY <1>0 DEF Fields
  <1> HIDE DEF S
  <1>5. /\ \A i \in 1..M : MessageConsumers[i].order \in Int
        /\ \A i, j \in 1..M :
             i < j => \/ MessageConsumers[i].order < MessageConsumers[j].order
                      \/ /\ MessageConsumers[i].order = MessageConsumers[j].order
                         /\ MessageConsumers[i].kind = "address"
                              => MessageConsumers[j].kind = "address"
    BY DEF SortedConsumers, M
  <1>6. rd.first # 0 => rd.last \in 1..M /\ MessageConsumers[rd.last].order = c.order
    <2> SUFFICES ASSUME rd.first # 0
                 PROVE  rd.last \in 1..M /\ MessageConsumers[rd.last].order = c.order
      OBVIOUS
    <2>1. rd.last \in 1..M
      BY <1>0, <1>3, Counts DEF OneOrder
    <2>2. MessageConsumers[rd.last].order <= c.order /\ ~(c.order > MessageConsumers[rd.last].order)
      BY <1>2, <1>3, <1>5, <2>1
    <2>3. MessageConsumers[rd.last].order \in Int /\ c.order \in Int
      BY <1>2, <1>5, <2>1
    <2> QED
      BY <2>1, <2>2, <2>3
  <1>7. OneOrder(first, rd.ci)
    <2>1. CASE rd.first = 0
      BY <1>0, <1>2, <2>1 DEF OneOrder
    <2>2. CASE rd.first # 0
      BY <1>0, <1>2, <1>3, <1>6, <2>2, Counts DEF OneOrder
    <2> QED
      BY <2>1, <2>2
  <1>8. Passed(type, first, rd.ci, rd.ci)
    BY <1>0 DEF Passed
  <1>9. Inside(S(r), c)
    <2>1. Context(S(r), c)
      BY <1>0, <1>2, <1>4 DEF Context, M
    <2>2. first \in Nat /\ first # 0 /\ rd.ci \in Nat
      BY <1>0
    <2> HIDE DEF first, c
    <2> QED
      BY <1>2, <1>3, <1>4, <1>7, <1>8, <2>1, <2>2 DEF Inside
  <1>10. \A j \in old : j \in Int /\ j < rd.ci
    BY <1>0, <1>3 DEF Started
  <1>11. Started(type, first, rd.ci) = IF Opens(c) THEN old \cup {rd.ci} ELSE old
    <2>1. CASE rd.first = 0
      <3>1. old = {}
        BY <2>1, NoneStarted
      <3>2. \A j : j \in rd.ci..rd.ci <=> j = rd.ci
        BY <1>0
      <3>3. \A j : j \in Started(type, first, rd.ci) <=> j = rd.ci /\ Opens(c)
        BY <1>0, <1>2, <2>1, <3>2 DEF Started
      <3> QED
        BY <3>1, <3>3
    <2>2. CASE rd.first # 0
      <3>1. /\ rd.first \in 1..rd.last /\ rd.last < rd.ci /\ rd.last \in 1..M
            /\ first = rd.first
        BY <1>3, <1>6, <2>2 DEF OneOrder
      <3>2. ASSUME NEW j \in (rd.last + 1)..(rd.ci - 1)
            PROVE  ~WantsType(type, MessageConsumers[j])
        <4>1. j \in 1..M /\ rd.last < j /\ j < rd.ci
          BY <1>0, <1>2, <3>1, Counts
        <4>2. MessageConsumers[j].kind # "address"
          <5>1. /\ MessageConsumers[rd.last].order <= MessageConsumers[j].order
                /\ MessageConsumers[j].order \in Int /\ c.order \in Int
            BY <1>2, <1>5, <3>1, <4>1
          <5>2. \/ MessageConsumers[j].order < c.order
                \/ /\ MessageConsumers[j].order = c.order
                   /\ MessageConsumers[j].kind = "address" => c.kind = "address"
            BY <1>2, <1>5, <4>1
          <5> QED
            BY <1>2, <1>6, <2>2, <5>1, <5>2
        <4>3. MessageConsumers[j].kind \in {"message", "address"}
          BY <4>1, ConsumersAssumption DEF Installed, M
        <4>4. MessageConsumers[j].kind = "message" => ~WantsType(type, MessageConsumers[j])
          BY <1>3, <2>2 DEF Passed
        <4> QED
          BY <4>2, <4>3, <4>4
      <3>3. \A j \in rd.first..rd.ci : \/ j \in rd.first..rd.last
                                       \/ j \in (rd.last + 1)..(rd.ci - 1)
                                       \/ j = rd.ci
        BY <1>0, <3>1
      <3>4. \A j \in rd.first..rd.last : j \in rd.first..rd.ci
        BY <1>0, <3>1
      <3>5. rd.ci \in rd.first..rd.ci
        BY <1>0, <3>1
      <3>6. \A j : j \in Started(type, first, rd.ci)
                     <=> j \in old \/ (j = rd.ci /\ Opens(c))
        <4>1. \A j : j \in Started(type, first, rd.ci)
                       <=> /\ j \in rd.first..rd.ci /\ WantsType(type, MessageConsumers[j])
                           /\ Opens(MessageConsumers[j])
          BY <2>2, <3>1 DEF Started
        <4>2. \A j : j \in old <=> /\ j \in rd.first..rd.last
                                   /\ WantsType(type, MessageConsumers[j])
                                   /\ Opens(MessageConsumers[j])
          BY <2>2 DEF Started
        <4>3. ASSUME NEW j, j \in Started(type, first, rd.ci)
              PROVE  j \in old \/ (j = rd.ci /\ Opens(c))
          <5>1. /\ j \in rd.first..rd.ci /\ WantsType(type, MessageConsumers[j])
                /\ Opens(MessageConsumers[j])
            BY <4>1, <4>3
          <5> HIDE DEF old, first, type
          <5>2. CASE j = rd.ci
            BY <5>1, <5>2
          <5>3. CASE j \in rd.first..rd.last
            BY <4>2, <5>1, <5>3, Zenon
          <5>4. j \notin (rd.last + 1)..(rd.ci - 1)
            BY <3>2, <5>1, Zenon
          <5> QED
            BY <3>3, <5>1, <5>2, <5>3, <5>4, Zenon
        <4>4. ASSUME NEW j, j \in old \/ (j = rd.ci /\ Opens(c))
              PROVE  j \in Started(type, first, rd.ci)
          <5> HIDE DEF old, first, type
          <5>1. CASE j \in old
            BY <3>4, <4>1, <4>2, <5>1, Zenon
          <5>2. CASE j = rd.ci /\ Opens(c)
            BY <1>2, <3>5, <4>1, <5>2
          <5> QED
            BY <4>4, <5>1, <5>2
        <4> HIDE DEF old, first, type
        <4> QED
          BY <4>3, <4>4
      <3> DEFINE new == Started(type, first, rd.ci)
      <3> HIDE DEF old, new
      <3>7. CASE Opens(c)
        <4>1. \A j : j \in new <=> j \in old \cup {rd.ci}
          BY <3>6, <3>7 DEF new
        <4> QED
          BY <3>7, <4>1 DEF new
      <3>8. CASE ~Opens(c)
        <4>1. \A j : j \in new <=> j \in old
          BY <3>6, <3>8 DEF new
        <4> QED
          BY <3>8, <4>1 DEF new
      <3> QED
        BY <3>7, <3>8
    <2> QED
      BY <2>1, <2>2
  <1>12. Around(S(r)) = Nested(P, Started(type, first, rd.ci), {})
    <2>1. InAddress(rd.ci) = {}
      BY <1>2 DEF InAddress
    <2> QED
      BY <1>0, <1>4, <2>1 DEF Around
  <1>13. Loops(rd') /\ Contexts(rd') = Nested(P, Started(type, first, rd.ci), {})
    <2> HIDE DEF c, first, type
    <2> QED
      BY <1>1, <1>9, <1>12, AfterBalanced, MergeBalanced
  <1>14. Stack(open, Nested(P, old, {}))
    BY <1>0 DEF Balanced, Contexts
  <1>15. Stack(open', Nested(P, Started(type, first, rd.ci), {}))
    <2> HIDE DEF old, first, type
    <2>1. /\ ConsumerAt(P + rd.ci) = c /\ P + rd.ci \in Nat
          /\ \A y \in Nested(P, old, {}) : y < P + rd.ci
          /\ Nested(P, old \cup {rd.ci}, {}) = Nested(P, old, {}) \cup {P + rd.ci}
      BY <1>2, <1>10, NestedMessage
    <2>2. Nested(P, Started(type, first, rd.ci), {})
            = IF Opens(c) THEN Nested(P, old, {}) \cup {P + rd.ci} ELSE Nested(P, old, {})
      BY <1>11, <2>1
    <2> HIDE DEF c
    <2> QED
      BY <1>1, <1>14, <2>1, <2>2, OpenPush
  <1> QED
    BY <1>13, <1>15 DEF Balanced

(* The started message consumers are message consumers. *)
LEMMA StartedRange ==
  ASSUME NEW type, NEW first \in Nat, NEW last \in Nat, OneOrder(first, last)
  PROVE  \A j \in Started(type, first, last) : j \in 1..M
  BY Counts DEF Started, OneOrder

LEMMA StartAddressBalanced ==
  ASSUME Inv(rd, gone), Balanced(rd, open), History, StartAddress
  PROVE  Balanced(rd', open')
  <1> DEFINE c == MessageConsumers[rd.ci]
             S(r) == [rd EXCEPT !.result = r, !.drops = Drops(r)]
             J == Started(rd.msg.type, rd.first, rd.last)
  <1>0. /\ DOMAIN rd = Fields /\ rd.ci \in Nat \ {0} /\ rd.stage = "address" /\ rd.msg # NoMsg
        /\ rd.first \in Nat /\ rd.last \in Nat
    BY Counts DEF Inv, Shape, Position, StartAddress, M
  <1>1. PICK r : /\ Called(c, "start", r, {})
                 /\ rd' = AfterConsumer(c, S(r)) \/ rd' = Merge(c, S(r))
    BY DEF StartAddress
  <1>2. /\ rd.ci \in 1..M /\ c.kind = "address" /\ rd.bi > 0 /\ rd.bi <= Len(rd.msg.blocks)
    BY <1>0, Counts DEF StartAddress, Inv, Position, M
  <1>3. rd.bi \in DOMAIN rd.msg.blocks
    <2>1. BlockList(rd.msg.blocks) /\ rd.bi \in Nat
      BY <1>0 DEF Inv, Shape, IsMessage
    <2> QED
      BY <1>2, <2>1, BlockPositions
  <1>4. /\ DOMAIN S(r) = Fields /\ S(r).msg = rd.msg /\ S(r).ci = rd.ci
        /\ S(r).first = rd.first /\ S(r).last = rd.last /\ S(r).bi = rd.bi
    BY <1>0 DEF Fields
  <1> HIDE DEF S
  <1>5. /\ "type" \in DOMAIN rd.msg /\ OneOrder(rd.first, rd.last)
        /\ Passed(rd.msg.type, rd.first, rd.last, rd.ci)
    BY <1>0 DEF Balanced, Loops
  <1>6. Inside(S(r), c)
    BY <1>0, <1>2, <1>3, <1>4, <1>5 DEF Inside, Context, M
  <1>7. Around(S(r)) = Nested(P, J, InAddress(rd.ci))
    BY <1>0, <1>4 DEF Around
  <1>8. Loops(rd') /\ Contexts(rd') = Nested(P, J, InAddress(rd.ci))
    <2> HIDE DEF c, J
    <2> QED
      BY <1>1, <1>6, <1>7, AfterBalanced, MergeBalanced
  <1>9. Stack(open, Nested(P, J, {}))
    BY <1>0 DEF Balanced, Contexts
  <1>10. \A j \in J : j \in 1..M
    BY <1>0, <1>5, StartedRange
  <1> HIDE DEF J
  <1>11. /\ ConsumerAt(P + M + rd.ci) = c /\ P + M + rd.ci \in Nat
         /\ \A y \in Nested(P, J, {}) : y < P + M + rd.ci
         /\ Nested(P, J, {rd.ci}) = Nested(P, J, {}) \cup {P + M + rd.ci}
    BY <1>2, <1>10, NestedAddress
  <1>12. Nested(P, J, InAddress(rd.ci))
           = IF Opens(c) THEN Nested(P, J, {}) \cup {P + M + rd.ci} ELSE Nested(P, J, {})
    <2>1. InAddress(rd.ci) = IF Opens(c) THEN {rd.ci} ELSE {}
      BY <1>2 DEF InAddress
    <2> QED
      BY <1>11, <2>1
  <1>13. Stack(open', Nested(P, J, InAddress(rd.ci)))
    <2> HIDE DEF c
    <2> QED
      BY <1>1, <1>9, <1>11, <1>12, OpenPush
  <1> QED
    BY <1>8, <1>13 DEF Balanced

LEMMA EndPacketBalanced ==
  ASSUME Inv(rd, gone), Balanced(rd, open), History, EndPacketConsumer
  PROVE  Balanced(rd', open')
  <1> DEFINE c == PacketConsumers[rd.down]
  <1>0. DOMAIN rd = Fields /\ rd.stage = "endpkt" /\ rd.msg = NoMsg /\ rd.down \in 1..P
    <2>1. rd.down \in 0..P /\ rd.down > 0 /\ rd.stage = "endpkt"
      BY DEF EndPacketConsumer, Balanced, Loops
    <2> QED
      BY <2>1, Counts DEF Inv, Shape, Position
  <1>1. Called(c, "end", PBB_OKAY, {})
    BY DEF EndPacketConsumer
  <1>2. rd'.stage = "endpkt" /\ rd'.msg = NoMsg /\ rd'.down = rd.down - 1
    BY <1>0 DEF EndPacketConsumer, Fields
  <1>3. rd.down - 1 \in 0..P
    BY <1>0, Counts
  <1>4. Loops(rd') /\ Contexts(rd') = Nested(rd.down - 1, {}, {})
    BY <1>2, <1>3 DEF Loops, Contexts
  <1>5. Stack(open, Nested(rd.down, {}, {}))
    BY <1>0 DEF Balanced, Contexts
  <1>6. /\ ConsumerAt(rd.down) = c
        /\ Opens(c) => rd.down \in Nested(rd.down, {}, {})
                       /\ \A y \in Nested(rd.down, {}, {}) : y <= rd.down
        /\ Nested(rd.down - 1, {}, {})
             = IF Opens(c) THEN Nested(rd.down, {}, {}) \ {rd.down} ELSE Nested(rd.down, {}, {})
    BY <1>0, NestedPacket
  <1>7. Stack(open', Nested(rd.down - 1, {}, {}))
    <2> HIDE DEF c
    <2> QED
      BY <1>1, <1>5, <1>6, OpenPop
  <1> QED
    BY <1>4, <1>7 DEF Balanced

(* The last of the started message consumers. *)
LEMMA StartedLast ==
  ASSUME NEW type, NEW first \in Nat \ {0}, NEW n \in first..M
  PROVE  LET J == Started(type, first, n - 1)
         IN /\ \A j \in J : j \in Int /\ j < n
            /\ Started(type, first, n)
                 = IF WantsType(type, MessageConsumers[n]) /\ Opens(MessageConsumers[n])
                   THEN J \cup {n} ELSE J
  <1> DEFINE J == Started(type, first, n - 1)
             new == Started(type, first, n)
             In(j) == WantsType(type, MessageConsumers[j]) /\ Opens(MessageConsumers[j])
  <1>0. n \in Nat /\ first <= n
    BY Counts
  <1>1. \A j : j \in first..n <=> j \in first..(n - 1) \/ j = n
    BY <1>0
  <1>2. \A j \in first..(n - 1) : j \in Int /\ j < n
    BY <1>0
  <1>3. \A j : j \in J <=> j \in first..(n - 1) /\ In(j)
    BY <1>0 DEF Started
  <1>4. \A j : j \in new <=> j \in first..n /\ In(j)
    BY <1>0 DEF Started
  <1>5. \A j : j \in new <=> j \in J \/ (j = n /\ In(n))
    <2> HIDE DEF J, new, In
    <2> QED
      BY <1>1, <1>3, <1>4, Zenon
  <1> HIDE DEF J, new
  <1>6. \A j \in J : j \in Int /\ j < n
    BY <1>2, <1>3
  <1>7. new = IF In(n) THEN J \cup {n} ELSE J
    <2> HIDE DEF In
    <2>1. CASE In(n)
      <3>1. \A j : j \in new <=> j \in J \cup {n}
        BY <1>5, <2>1
      <3> QED
        BY <2>1, <3>1
    <2>2. CASE ~In(n)
      <3>1. \A j : j \in new <=> j \in J
        BY <1>5, <2>2
      <3> QED
        BY <2>2, <3>1
    <2> QED
      BY <2>1, <2>2
  <1> QED
    BY <1>6, <1>7 DEF J, new

LEMMA EndMessageBalanced ==
  ASSUME Inv(rd, gone), Balanced(rd, open), History, EndMessageConsumer
  PROVE  Balanced(rd', open')
  <1> DEFINE n == rd.down
             c == MessageConsumers[n]
             d == IF WantsType(rd.msg.type, c) THEN c ELSE [c EXCEPT !.callbacks = {}]
             K == Started(rd.msg.type, rd.first, n)
             J == Started(rd.msg.type, rd.first, n - 1)
  <1>0. /\ DOMAIN rd = Fields /\ rd.stage = "endmsg" /\ rd.msg # NoMsg
        /\ rd.first \in Nat \ {0} /\ rd.last \in Nat
        /\ n \in (rd.first - 1)..rd.last /\ n >= rd.first /\ OneOrder(rd.first, rd.last)
        /\ "type" \in DOMAIN rd.msg
    BY Counts DEF Inv, Shape, Position, EndMessageConsumer, Balanced, Loops, M
  <1>1. PICK r : Called(d, "end", r, {})
    BY DEF EndMessageConsumer, Wants, WantsType
  <1>2. /\ rd'.stage = "endmsg" /\ rd'.msg = rd.msg /\ rd'.first = rd.first /\ rd'.last = rd.last
        /\ rd'.down = n - 1
    BY <1>0 DEF EndMessageConsumer, Fields
  <1>3. n - 1 \in (rd.first - 1)..rd.last /\ n \in rd.first..M /\ n \in 1..M
    BY <1>0, Counts DEF OneOrder
  <1>4. Loops(rd') /\ Contexts(rd') = Nested(P, J, {})
    BY <1>0, <1>2, <1>3 DEF Loops, Contexts
  <1>5. Stack(open, Nested(P, K, {}))
    BY <1>0 DEF Balanced, Contexts
  <1>6. /\ \A j \in J : j \in Int /\ j < n
        /\ K = IF WantsType(rd.msg.type, c) /\ Opens(c) THEN J \cup {n} ELSE J
    BY <1>0, <1>3, StartedLast
  <1> HIDE DEF J, K
  <1>7. /\ ConsumerAt(P + n) = c /\ P + n \in Nat
        /\ \A y \in Nested(P, J, {}) : y < P + n
        /\ Nested(P, J \cup {n}, {}) = Nested(P, J, {}) \cup {P + n}
    <2> HIDE DEF n
    <2> QED
      BY <1>3, <1>6, NestedMessage DEF c
  <1>8. DOMAIN c = {"kind", "order", "msg_id", "entries", "callbacks", "leader"}
    BY <1>3, ConsumersAssumption DEF Installed, M
  <1>9. CASE WantsType(rd.msg.type, c) /\ Opens(c)
    <2>1. d = c
      BY <1>9
    <2> DEFINE big == Nested(P, J, {}) \cup {P + n}
    <2>2. Stack(open, big)
      BY <1>5, <1>6, <1>7, <1>9
    <2>3. P + n \in big /\ \A y \in big : y <= P + n
      <3>1. P + n <= P + n
        BY <1>7
      <3>2. \A y \in Nested(P, J, {}) : y <= P + n
        <4>1. \A y \in Nested(P, J, {}) : y \in Int
          BY <1>6, Counts DEF Nested
        <4> QED
          BY <1>7, <4>1
      <3> HIDE DEF n
      <3> QED
        BY <3>1, <3>2
    <2>4. P + n \notin Nested(P, J, {})
      BY <1>7
    <2>5. Nested(P, J, {}) = big \ {P + n}
      <3> HIDE DEF n
      <3> QED
        BY <2>4
    <2> HIDE DEF big, c, d, n
    <2>6. Stack(open', Nested(P, J, {}))
      BY <1>1, <1>7, <1>9, <2>1, <2>2, <2>3, <2>5, OpenPop
    <2> QED
      BY <1>4, <2>6 DEF Balanced
  <1>10. CASE ~(WantsType(rd.msg.type, c) /\ Opens(c))
    <2>1. ~Opens(d)
      BY <1>8, <1>10 DEF Opens
    <2> HIDE DEF d
    <2>2. open' = open
      BY <1>1, <2>1, OpenEnded
    <2>3. K = J
      BY <1>6, <1>10
    <2> QED
      BY <1>4, <1>5, <2>2, <2>3 DEF Balanced
  <1> QED
    BY <1>9, <1>10

LEMMA EndAddressBalanced ==
  ASSUME Inv(rd, gone), Balanced(rd, open), History, EndAddress
  PROVE  Balanced(rd', open')
  <1> DEFINE c == MessageConsumers[rd.ci]
             Result(r) == IF r > rd.result THEN r ELSE rd.result
             S(r) == [rd EXCEPT !.result = Result(r), !.drops = Drops(r)]
             J == Started(rd.msg.type, rd.first, rd.last)
  <1>0. /\ DOMAIN rd = Fields /\ rd.stage = "addrend" /\ rd.msg # NoMsg /\ IsMessage(rd.msg)
        /\ rd.ci \in 1..M /\ c.kind = "address" /\ rd.bi \in DOMAIN rd.msg.blocks
        /\ rd.first \in Nat /\ rd.last \in Nat
        /\ "type" \in DOMAIN rd.msg /\ OneOrder(rd.first, rd.last)
        /\ Passed(rd.msg.type, rd.first, rd.last, rd.ci)
    BY Counts DEF Inv, Shape, Position, EndAddress, Balanced, Loops, M
  <1>1. PICK r : /\ Called(c, "end", r, {})
                 /\ rd' = CASE Result(r) = PBB_OKAY -> [S(r) EXCEPT !.stage = "address", !.ai = @ + 1]
                            [] Result(r) = PBB_DROP_ADDRESS ->
                                 [S(r) EXCEPT !.stage = "address", !.ai = @ + 1, !.result = PBB_OKAY,
                                              !.msg.blocks[rd.bi].drop = @ \cup {rd.ai}]
                            [] OTHER -> LeaveConsumers(S(r))
    BY DEF EndAddress
  <1>2. /\ DOMAIN S(r) = Fields /\ S(r).msg = rd.msg /\ S(r).ci = rd.ci
        /\ S(r).first = rd.first /\ S(r).last = rd.last
    BY <1>0 DEF Fields
  <1> HIDE DEF S
  <1>3. Loops(rd') /\ Contexts(rd') = Nested(P, J, {})
    <2>1. CASE Result(r) \notin {PBB_OKAY, PBB_DROP_ADDRESS}
      <3>1. rd' = LeaveConsumers(S(r))
        BY <1>1, <2>1
      <3> QED
        BY <1>0, <1>2, <3>1, LeaveBalanced
    <2>2. ASSUME rd'.stage = "address", rd'.ci = rd.ci, rd'.first = rd.first, rd'.last = rd.last,
                 DOMAIN rd'.msg = DOMAIN rd.msg, rd'.msg.type = rd.msg.type
          PROVE  Loops(rd') /\ Contexts(rd') = Nested(P, J, {})
      <3>1. rd'.msg # NoMsg
        BY <1>0, <2>2 DEF IsMessage, NoMsg
      <3> QED
        BY <1>0, <2>2, <3>1 DEF Loops, Contexts
    <2>3. CASE Result(r) = PBB_OKAY
      <3>1. rd' = [S(r) EXCEPT !.stage = "address", !.ai = @ + 1]
        BY <1>1, <2>3 DEF PBB_OKAY, PBB_DROP_ADDRESS
      <3>2. /\ rd'.stage = "address" /\ rd'.ci = rd.ci /\ rd'.first = rd.first
            /\ rd'.last = rd.last /\ rd'.msg = rd.msg
        BY <1>2, <3>1 DEF Fields
      <3> QED
        BY <2>2, <3>2
    <2>4. CASE Result(r) = PBB_DROP_ADDRESS
      <3> DEFINE blk == rd.msg.blocks[rd.bi]
                 new == [blk EXCEPT !.drop = blk.drop \cup {rd.ai}]
                 v == [rd.msg.blocks EXCEPT ![rd.bi] = new]
      <3>1. rd' = [S(r) EXCEPT !.stage = "address", !.ai = @ + 1, !.result = PBB_OKAY,
                               !.msg.blocks[rd.bi].drop = @ \cup {rd.ai}]
        BY <1>1, <2>4 DEF PBB_OKAY, PBB_DROP_ADDRESS
      <3>2. S(r).ai = rd.ai /\ S(r).bi = rd.bi
        BY <1>0 DEF S, Fields
      <3>3. /\ rd'.stage = "address" /\ rd'.ci = rd.ci /\ rd'.first = rd.first
            /\ rd'.last = rd.last /\ rd'.msg = [rd.msg EXCEPT !.blocks = v]
        BY <1>2, <3>1, <3>2 DEF Fields
      <3> HIDE DEF v
      <3>4. DOMAIN rd'.msg = DOMAIN rd.msg /\ rd'.msg.type = rd.msg.type
        BY <1>0, <3>3
      <3> QED
        BY <2>2, <3>3, <3>4
    <2> QED
      BY <2>1, <2>3, <2>4
  <1>4. Stack(open, Nested(P, J, InAddress(rd.ci)))
    BY <1>0 DEF Balanced, Contexts
  <1>5. \A j \in J : j \in 1..M
    BY <1>0, StartedRange
  <1> HIDE DEF J
  <1>6. /\ ConsumerAt(P + M + rd.ci) = c /\ P + M + rd.ci \in Nat
        /\ \A y \in Nested(P, J, {}) : y < P + M + rd.ci
        /\ Nested(P, J, {rd.ci}) = Nested(P, J, {}) \cup {P + M + rd.ci}
    BY <1>0, <1>5, NestedAddress
  <1> DEFINE x == P + M + rd.ci
             K == Nested(P, J, InAddress(rd.ci))
             L == Nested(P, J, {})
  <1>7. K = IF Opens(c) THEN L \cup {x} ELSE L
    <2>1. InAddress(rd.ci) = IF Opens(c) THEN {rd.ci} ELSE {}
      BY <1>0 DEF InAddress
    <2> QED
      BY <1>6, <2>1
  <1>8. x \notin L /\ \A y \in L \cup {x} : y <= x
    <2>1. \A y \in L : y \in Int
      BY <1>5, Counts DEF Nested
    <2>2. x \in Nat /\ \A y \in L : y < x
      BY <1>6
    <2> HIDE DEF x, L
    <2> QED
      BY <2>1, <2>2
  <1>9. ConsumerAt(x) = c /\ Stack(open, K) /\ Called(c, "end", r, {})
    BY <1>1, <1>4, <1>6
  <1> HIDE DEF x, K, L, c
  <1>10. Stack(open', L)
    <2>1. Opens(c) => x \in K /\ \A y \in K : y <= x
      BY <1>7, <1>8
    <2>2. L = IF Opens(c) THEN K \ {x} ELSE K
      BY <1>7, <1>8
    <2> QED
      BY <1>9, <2>1, <2>2, OpenPop
  <1> QED
    BY <1>3, <1>10 DEF Balanced, L

LEMMA NextBalanced ==
  ASSUME SortedConsumers(MessageConsumers), Inv(rd, gone), Balanced(rd, open), [Next]_vars
  PROVE  Balanced(rd', open')
  <1>0. Loops(rd) /\ Stack(open, Contexts(rd))
    BY DEF Balanced
  <1>1. ASSUME NEW b, NEW f, Arrive(b, f) PROVE Balanced(rd', open')
    BY <1>0, <1>1, ArriveBalanced, OpenSilent DEF Arrive, Balanced
  <1>2. CASE Step
    <2>1. History
      BY <1>2 DEF Step
    <2>2. CASE ParseTlv \/ TlvBlockParsed \/ ReadMessage \/ ReadAddressBlock
      BY <1>0, <2>1, <2>2, ParsingBalanced, OpenSilent DEF Balanced
    <2>3. CASE PacketConsumersDone \/ MessagesDone \/ PacketDone \/ MessageRead
      BY <1>0, <2>1, <2>3, PacketStepsBalanced, OpenSilent DEF Balanced
    <2>4. CASE SkipConsumer \/ EndOrder \/ StartAddressConsumer \/ ConsumersDone \/ EndMessageDone
      BY <1>0, <2>1, <2>4, ConsumerStepsBalanced, OpenSilent DEF Balanced
    <2>5. CASE MessageDone
      BY <1>0, <2>1, <2>5, MessageDoneBalanced, OpenKept DEF Balanced
    <2>6. CASE SkipAddress
      BY <1>0, <2>1, <2>6, SkipAddressBalanced, OpenSilent DEF Balanced
    <2>7. CASE MatchTlv
      BY <1>0, <2>1, <2>7, MatchTlvBalanced DEF Balanced
    <2>8. CASE HandleBlock
      BY <1>0, <2>1, <2>8, HandleBlockBalanced DEF Balanced
    <2> QED
      BY <1>2, <2>1, <2>2, <2>3, <2>4, <2>5, <2>6, <2>7, <2>8, StartPacketBalanced,
         StartMessageBalanced, StartAddressBalanced, EndPacketBalanced, EndMessageBalanced,
         EndAddressBalanced DEF Step
  <1>3. CASE UNCHANGED vars
    BY <1>3 DEF vars
  <1> QED
    BY <1>1, <1>2, <1>3 DEF Next

LEMMA InitBalanced ==
  ASSUME Init
  PROVE  Balanced(rd, open)
  <1>1. rd.stage = "idle" /\ rd.msg = NoMsg /\ open = << >>
    BY DEF Init, Idle
  <1>2. Nested(0, {}, {}) = {}
    BY DEF Nested
  <1> QED
    BY <1>1, <1>2, EmptyStack DEF Balanced, Loops, Contexts

(* What the stack says where the property looks at it. *)
LEMMA BalancedContexts ==
  ASSUME Inv(rd, gone), Balanced(rd, open)
  PROVE  /\ rd.stage = "message" => \A i \in DOMAIN open : open[i].kind = "packet"
         /\ rd.stage = "idle" => open = << >>
  <1>1. ASSUME rd.stage = "idle" PROVE open = << >>
    <2>1. Contexts(rd) = {}
      BY <1>1 DEF Contexts, Nested
    <2> QED
      BY <2>1, StackEmpty DEF Balanced
  <1>2. ASSUME rd.stage = "message", NEW i \in DOMAIN open PROVE open[i].kind = "packet"
    <2>1. Stack(open, Nested(P, {}, {}))
      BY <1>2 DEF Balanced, Contexts
    <2>2. \A x \in Nested(P, {}, {}) : x \in 1..P
      BY DEF Nested
    <2>3. PICK k \in Seq(Nat) :
            /\ Len(k) = Len(open)
            /\ \A x : x \in Nested(P, {}, {}) <=> \E j \in 1..Len(k) : k[j] = x
            /\ \A j \in 1..Len(k) : open[j] = ConsumerAt(k[j])
      BY <2>1 DEF Stack
    <2>4. i \in 1..Len(k)
      BY <2>1, <2>3 DEF Stack
    <2>5. k[i] \in 1..P
      BY <2>2, <2>3, <2>4
    <2>6. open[i] = PacketConsumers[k[i]]
      BY <2>3, <2>4, <2>5, Counts DEF ConsumerAt
    <2> QED
      BY <2>5, <2>6, ConsumersAssumption DEF Installed, P
  <1> QED
    BY <1>1, <1>2

-----------------------------------------------------------------------------
(* What is allocated.                                                       *)

Amount(m) == IF m = NoMsg THEN 0 ELSE Allocated(m)

(* What is held is what hangs in the lists and trees. *)
Memory(s) ==
  /\ IsSeq(s.ptlvs) /\ IsSeq(s.tlvs)
  /\ s.msg # NoMsg => IsFiniteSet(Objects(s.msg))
  /\ s.stage # "parse" => s.tlvs = << >> /\ s.blk = << >>
  /\ s.stage = "idle" => s.ptlvs = << >>
  /\ s.blk = << >> \/ Len(s.blk) = 1
  /\ s.stage = "parse" /\ s.msg = NoMsg => s.ptlvs = << >> /\ s.blk = << >>
  /\ s.stage = "parse" /\ s.msg # NoMsg /\ s.blk = << >> =>
       s.msg.tlvs = << >> /\ s.msg.blocks = << >>
  /\ s.held = Len(s.ptlvs) + Len(s.tlvs) + Len(s.blk) + Amount(s.msg)

LEMMA SeqLength ==
  ASSUME NEW l, IsSeq(l)
  PROVE  Len(l) \in Nat /\ DOMAIN l = 1..Len(l)
  BY DEF IsSeq

LEMMA EmptyLength == Len(<< >>) = 0 /\ DOMAIN << >> = {} /\ IsSeq(<< >>)
  BY EmptyLists

LEMMA ObjectsMembers ==
  ASSUME NEW m
  PROVE  \A x : x \in Objects(m) <=>
                  \/ x \in {0} \X DOMAIN m.tlvs
                  \/ \E i \in DOMAIN m.blocks : x \in {i} \X ({0} \cup DOMAIN m.blocks[i].tlvs)
  BY DEF Objects

(* Only the positions count. *)
LEMMA SameObjects ==
  ASSUME NEW m, NEW n, DOMAIN n.tlvs = DOMAIN m.tlvs, DOMAIN n.blocks = DOMAIN m.blocks,
         \A i \in DOMAIN m.blocks : DOMAIN n.blocks[i].tlvs = DOMAIN m.blocks[i].tlvs
  PROVE  Objects(n) = Objects(m)
  <1>1. \A x : x \in Objects(n) <=> x \in Objects(m)
    <2>1. \A x : x \in Objects(n) <=>
                   \/ x \in {0} \X DOMAIN n.tlvs
                   \/ \E i \in DOMAIN n.blocks : x \in {i} \X ({0} \cup DOMAIN n.blocks[i].tlvs)
      BY ObjectsMembers
    <2>2. \A x : x \in Objects(m) <=>
                   \/ x \in {0} \X DOMAIN m.tlvs
                   \/ \E i \in DOMAIN m.blocks : x \in {i} \X ({0} \cup DOMAIN m.blocks[i].tlvs)
      BY ObjectsMembers
    <2> QED
      BY <2>1, <2>2, Zenon
  <1> QED
    BY <1>1

LEMMA NoObjects ==
  ASSUME NEW m, m.tlvs = << >>, m.blocks = << >>
  PROVE  Objects(m) = {} /\ IsFiniteSet(Objects(m)) /\ Allocated(m) = 0
  <1>1. \A x : x \notin Objects(m)
    BY ObjectsMembers, EmptyLength
  <1>2. Objects(m) = {}
    BY <1>1
  <1> QED
    BY <1>2, FS_EmptySet DEF Allocated

(* The objects of one list. *)
Row(k, D) == {k} \X D

LEMMA ListObjects ==
  ASSUME NEW k, NEW n \in Nat, NEW D, D = 1..n
  PROVE  /\ IsFiniteSet(Row(k, D)) /\ Cardinality(Row(k, D)) = n
         /\ IsFiniteSet(Row(k, {0} \cup D)) /\ Cardinality(Row(k, {0} \cup D)) = n + 1
  <1>1. IsFiniteSet(D) /\ Cardinality(D) = n
    BY SegmentSize
  <1>2. IsFiniteSet({k}) /\ Cardinality({k}) = 1
    BY FS_Singleton
  <1>3. 0 \notin D
    OBVIOUS
  <1>4. IsFiniteSet(D \cup {0}) /\ Cardinality(D \cup {0}) = n + 1
    BY <1>1, <1>3, FS_AddElement
  <1>5. {0} \cup D = D \cup {0}
    OBVIOUS
  <1>6. IsFiniteSet({0} \cup D) /\ Cardinality({0} \cup D) = n + 1
    BY <1>4, <1>5
  <1>7. IsFiniteSet({k} \X D) /\ Cardinality({k} \X D) = Cardinality({k}) * Cardinality(D)
    BY <1>1, <1>2, FS_Product
  <1>8. /\ IsFiniteSet({k} \X ({0} \cup D))
        /\ Cardinality({k} \X ({0} \cup D)) = Cardinality({k}) * Cardinality({0} \cup D)
    BY <1>2, <1>6, FS_Product
  <1>9. 1 * n = n /\ 1 * (n + 1) = n + 1
    OBVIOUS
  <1> QED
    BY <1>1, <1>2, <1>6, <1>7, <1>8, <1>9 DEF Row

(* A message whose TLVs are complete. *)
LEMMA FirstObjects ==
  ASSUME NEW m, IsSeq(m.tlvs), m.blocks = << >>
  PROVE  IsFiniteSet(Objects(m)) /\ Allocated(m) = Len(m.tlvs)
  <1> DEFINE D == DOMAIN m.tlvs
  <1>1. Len(m.tlvs) \in Nat /\ D = 1..Len(m.tlvs)
    BY SeqLength
  <1>2. \A x : x \in Objects(m) <=> x \in {0} \X D
    BY ObjectsMembers, EmptyLength
  <1>3. Objects(m) = Row(0, D)
    BY <1>2 DEF Row
  <1> HIDE DEF D
  <1>4. IsFiniteSet(Row(0, D)) /\ Cardinality(Row(0, D)) = Len(m.tlvs)
    BY <1>1, ListObjects
  <1> QED
    BY <1>3, <1>4, Zenon DEF Allocated

(* A message with one more address block. *)
LEMMA MoreObjects ==
  ASSUME NEW m, NEW n, NEW b, BlockList(m.blocks), IsFiniteSet(Objects(m)), IsSeq(b.tlvs),
         n.tlvs = m.tlvs, n.blocks = Append(m.blocks, b)
  PROVE  IsFiniteSet(Objects(n)) /\ Allocated(n) = Allocated(m) + 1 + Len(b.tlvs)
  <1> DEFINE k == Len(m.blocks)
             New == Row(k + 1, {0} \cup DOMAIN b.tlvs)
  <1>1. k \in Nat /\ DOMAIN m.blocks = 1..k
    BY BlockPositions
  <1>2. Len(b.tlvs) \in Nat /\ DOMAIN b.tlvs = 1..Len(b.tlvs)
    BY SeqLength
  <1>3. /\ DOMAIN n.blocks = 1..(k + 1) /\ n.blocks[k + 1] = b
        /\ \A i \in 1..k : n.blocks[i] = m.blocks[i]
    <2>1. m.blocks \in Seq({m.blocks[i] : i \in DOMAIN m.blocks} \cup {b})
      <3>1. m.blocks \in Seq({m.blocks[i] : i \in DOMAIN m.blocks})
        BY DEF BlockList, IsSeq
      <3> QED
        BY <3>1, SeqMonotonic
    <2> DEFINE S == {m.blocks[i] : i \in DOMAIN m.blocks} \cup {b}
    <2>2. b \in S
      OBVIOUS
    <2> HIDE DEF S
    <2>3. /\ Append(m.blocks, b) \in Seq(S) /\ Len(Append(m.blocks, b)) = k + 1
          /\ Append(m.blocks, b)[k + 1] = b
          /\ \A i \in 1..k : Append(m.blocks, b)[i] = m.blocks[i]
      BY <2>1, <2>2, AppendProperties DEF S
    <2> QED
      BY <2>3
  <1>4. \A i : i \in 1..(k + 1) <=> i \in 1..k \/ i = k + 1
    BY <1>1
  <1>5. \A x : x \in Objects(n) <=> x \in Objects(m) \/ x \in New
    <2> DEFINE Of(l, i) == {i} \X ({0} \cup DOMAIN l[i].tlvs)
    <2>1. \A x : x \in Objects(n) <=> x \in {0} \X DOMAIN m.tlvs
                                      \/ \E i \in 1..(k + 1) : x \in Of(n.blocks, i)
      BY <1>3, ObjectsMembers
    <2>2. \A x : x \in Objects(m) <=> x \in {0} \X DOMAIN m.tlvs
                                      \/ \E i \in 1..k : x \in Of(m.blocks, i)
      BY <1>1, ObjectsMembers
    <2>3. Of(n.blocks, k + 1) = New /\ \A i \in 1..k : Of(n.blocks, i) = Of(m.blocks, i)
      BY <1>3 DEF Row
    <2> HIDE DEF Of, New, k
    <2> QED
      BY <1>4, <2>1, <2>2, <2>3, Zenon
  <1>6. Objects(n) = Objects(m) \cup New
    <2> HIDE DEF New
    <2> QED
      BY <1>5
  <1>7. Objects(m) \cap New = {}
    <2>1. ASSUME NEW x, x \in Objects(m), x \in New PROVE FALSE
      <3>1. x[1] = k + 1
        BY <2>1 DEF Row
      <3>2. x[1] = 0 \/ x[1] \in 1..k
        BY <1>1, <2>1, ObjectsMembers
      <3> QED
        BY <1>1, <3>1, <3>2
    <2> HIDE DEF New
    <2> QED
      BY <2>1
  <1>8. IsFiniteSet(New) /\ Cardinality(New) = Len(b.tlvs) + 1
    BY <1>2, ListObjects
  <1> HIDE DEF New
  <1>9. /\ IsFiniteSet(Objects(n))
        /\ Cardinality(Objects(n)) = Cardinality(Objects(m)) + Cardinality(New)
                                       - Cardinality(Objects(m) \cap New)
    BY <1>6, <1>8, FS_Union
  <1>10. Cardinality(Objects(m) \cap New) = 0 /\ Cardinality(Objects(m)) \in Nat
    BY <1>7, FS_EmptySet, FS_CardinalityType
  <1> QED
    BY <1>2, <1>8, <1>9, <1>10 DEF Allocated

LEMMA AmountType ==
  ASSUME NEW s, Memory(s)
  PROVE  /\ Len(s.ptlvs) \in Nat /\ Len(s.tlvs) \in Nat /\ Len(s.blk) \in Nat
         /\ Amount(s.msg) \in Nat
  <1>1. Len(s.ptlvs) \in Nat /\ Len(s.tlvs) \in Nat
    BY SeqLength DEF Memory
  <1>2. Len(s.blk) \in Nat
    BY EmptyLength DEF Memory
  <1>3. Amount(s.msg) \in Nat
    BY FS_CardinalityType DEF Memory, Amount, Allocated
  <1> QED
    BY <1>1, <1>2, <1>3

(* A step that allocates and frees nothing. *)
LEMMA SameMemory ==
  ASSUME NEW s, NEW u, Memory(s), s.stage # "parse", u.stage \notin {"parse", "idle"},
         u.held = s.held, u.tlvs = s.tlvs, u.blk = s.blk,
         IsSeq(u.ptlvs), Len(u.ptlvs) = Len(s.ptlvs),
         u.msg = NoMsg <=> s.msg = NoMsg,
         u.msg # NoMsg => Objects(u.msg) = Objects(s.msg)
  PROVE  Memory(u)
  <1>1. Amount(u.msg) = Amount(s.msg)
    BY DEF Amount, Allocated
  <1>2. u.msg # NoMsg => IsFiniteSet(Objects(u.msg))
    BY DEF Memory
  <1> QED
    BY <1>1, <1>2 DEF Memory

Keeps(s, u) ==
  /\ u.stage \notin {"parse", "idle"}
  /\ u.held = s.held /\ u.tlvs = s.tlvs /\ u.blk = s.blk /\ u.ptlvs = s.ptlvs /\ u.msg = s.msg

LEMMA KeepsMemory ==
  ASSUME NEW s, NEW u, Memory(s), s.stage # "parse", Keeps(s, u)
  PROVE  Memory(u)
  BY SameMemory DEF Keeps, Memory

LEMMA AfterKeeps ==
  ASSUME NEW c, c.kind \in {"packet", "message", "address"}, NEW s, DOMAIN s = Fields
  PROVE  Keeps(s, AfterConsumer(c, s))
  BY DEF Keeps, AfterConsumer, LeaveConsumers, Fields

LEMMA MergeKeeps ==
  ASSUME NEW c, NEW s, DOMAIN s = Fields
  PROVE  Keeps(s, Merge(c, s))
  BY DEF Keeps, Merge, Fields

LEMMA KeepsOn ==
  ASSUME NEW s, NEW u, NEW v, Keeps(s, u), Keeps(u, v)
  PROVE  Keeps(s, v)
  BY DEF Keeps

(* Marking TLVs as dropped frees nothing. *)
LEMMA MarksMemory ==
  ASSUME NEW c, NEW s, NEW T, Memory(s), Context(s, c), TlvList(s.ptlvs),
         s.msg # NoMsg => IsMessage(s.msg),
         s.stage \notin {"parse", "idle"}, NEW u, u.stage = s.stage,
         u.held = s.held, u.tlvs = s.tlvs, u.blk = s.blk, Marks(s, u, c.kind, T)
  PROVE  Memory(u)
  <1>0. c.kind \in {"packet", "message", "address"} /\ (c.kind = "packet" <=> s.msg = NoMsg)
    BY DEF Context
  <1>1. CASE c.kind = "packet"
    <2> DEFINE l == s.ptlvs
               m == Marked(l, T, 0)
    <2>1. u.ptlvs = m /\ u.msg = NoMsg
      BY <1>0, <1>1 DEF Marks
    <2>2. Len(l) \in Nat /\ DOMAIN l = 1..Len(l)
      BY SeqLength DEF Memory
    <2>3. m \in Seq({m[i] : i \in 1..Len(l)}) /\ Len(m) = Len(l)
      <3>1. m = [i \in 1..Len(l) |-> m[i]]
        BY <2>2 DEF Marked
      <3>2. m \in [1..Len(l) -> {m[i] : i \in 1..Len(l)}]
        <4> HIDE DEF m
        <4> QED
          BY <3>1
      <3> HIDE DEF m
      <3> QED
        BY <2>2, <3>2
    <2> HIDE DEF m, l
    <2>4. IsSeq(m)
      BY <2>3, SeqElements
    <2> QED
      BY <1>0, <1>1, <2>1, <2>3, <2>4, SameMemory DEF l
  <1>2. CASE c.kind = "message"
    <2> DEFINE m == Marked(s.msg.tlvs, T, 0)
    <2>0. s.msg # NoMsg /\ IsMessage(s.msg)
      BY <1>0, <1>2
    <2>1. u.ptlvs = s.ptlvs /\ u.msg = [s.msg EXCEPT !.tlvs = m]
      BY <1>2 DEF Marks
    <2>2. DOMAIN m = DOMAIN s.msg.tlvs
      BY DEF Marked
    <2> HIDE DEF m
    <2>3. u.msg.tlvs = m /\ u.msg.blocks = s.msg.blocks /\ DOMAIN u.msg = DOMAIN s.msg
      BY <2>0, <2>1 DEF IsMessage
    <2>4. u.msg # NoMsg
      BY <2>0, <2>3 DEF IsMessage, NoMsg
    <2>5. Objects(u.msg) = Objects(s.msg)
      BY <2>2, <2>3, SameObjects
    <2>8. IsSeq(s.ptlvs)
      BY DEF Memory
    <2> QED
      BY <2>0, <2>1, <2>4, <2>5, <2>8, SameMemory
  <1>3. CASE c.kind = "address"
    <2> DEFINE blk == s.msg.blocks[s.bi]
               new == [blk EXCEPT !.tlvs = Marked(blk.tlvs, T, s.ai)]
               v == [s.msg.blocks EXCEPT ![s.bi] = new]
    <2>0. s.msg # NoMsg /\ IsMessage(s.msg) /\ s.bi \in DOMAIN s.msg.blocks
      BY <1>0, <1>3 DEF Context
    <2>1. u.ptlvs = s.ptlvs /\ u.msg = [s.msg EXCEPT !.blocks = v]
      BY <1>3 DEF Marks
    <2>2. DOMAIN new.tlvs = DOMAIN blk.tlvs
      <3>1. IsBlock(blk)
        BY <2>0 DEF IsMessage, BlockList
      <3>2. DOMAIN Marked(blk.tlvs, T, s.ai) = DOMAIN blk.tlvs
        BY DEF Marked
      <3>3. new.tlvs = Marked(blk.tlvs, T, s.ai)
        BY <3>1 DEF IsBlock
      <3> QED
        BY <3>2, <3>3
    <2> HIDE DEF new
    <2>3. /\ DOMAIN v = DOMAIN s.msg.blocks
          /\ \A i \in DOMAIN s.msg.blocks : DOMAIN v[i].tlvs = DOMAIN s.msg.blocks[i].tlvs
      BY <2>0, <2>2
    <2> HIDE DEF v
    <2>4. u.msg.tlvs = s.msg.tlvs /\ u.msg.blocks = v /\ DOMAIN u.msg = DOMAIN s.msg
      BY <2>0, <2>1 DEF IsMessage
    <2>5. u.msg # NoMsg
      BY <2>0, <2>4 DEF IsMessage, NoMsg
    <2>6. Objects(u.msg) = Objects(s.msg)
      BY <2>3, <2>4, SameObjects
    <2>8. IsSeq(s.ptlvs)
      BY DEF Memory
    <2> QED
      BY <2>0, <2>1, <2>5, <2>6, <2>8, SameMemory
  <1> QED
    BY <1>0, <1>1, <1>2, <1>3

(* Between the messages there are only the TLVs of the packet. *)
LEMMA RestMemory ==
  ASSUME NEW u, u.stage # "parse", u.stage = "idle" => u.ptlvs = << >>,
         u.tlvs = << >>, u.blk = << >>, u.msg = NoMsg, IsSeq(u.ptlvs), u.held = Len(u.ptlvs)
  PROVE  Memory(u)
  <1>1. Len(u.ptlvs) \in Nat
    BY SeqLength
  <1>2. u.held = Len(u.ptlvs) + Len(u.tlvs) + Len(u.blk) + Amount(u.msg)
    BY <1>1, EmptyLength DEF Amount
  <1> QED
    BY <1>2, EmptyLength DEF Memory

LEMMA ParseErrorMemory ==
  ASSUME Inv(rd, gone), Memory(rd), rd.stage \in {"parse", "blocks"}, NEW err,
         rd' = ParseError(rd, err)
  PROVE  Memory(rd')
  <1>0. /\ Len(rd.ptlvs) \in Nat /\ Len(rd.tlvs) \in Nat /\ Len(rd.blk) \in Nat
        /\ Amount(rd.msg) \in Nat
    BY AmountType
  <1>1. CASE rd.msg = NoMsg
    <2>1. rd.stage = "parse" /\ rd.ptlvs = << >> /\ rd.blk = << >>
      BY <1>1 DEF Inv, Position, Memory
    <2>2. /\ rd'.stage = "idle" /\ rd'.ptlvs = << >> /\ rd'.tlvs = << >> /\ rd'.blk = << >>
          /\ rd'.msg = NoMsg /\ rd'.held = rd.held - Len(rd.tlvs)
      BY <1>1 DEF ParseError, Idle
    <2>3. rd.held = 0 + Len(rd.tlvs) + 0 + 0
      BY <1>1, <2>1, EmptyLength DEF Memory, Amount
    <2>4. rd'.held = 0
      BY <1>0, <2>2, <2>3
    <2> QED
      BY <2>2, <2>4, EmptyLength, RestMemory
  <1>2. CASE rd.msg # NoMsg
    <2>0. DOMAIN rd = Fields
      BY DEF Inv, Shape
    <2>1. /\ rd'.stage = "message" /\ rd'.ptlvs = rd.ptlvs /\ rd'.tlvs = << >>
          /\ rd'.blk = << >> /\ rd'.msg = NoMsg
          /\ rd'.held = rd.held - Len(rd.tlvs) - Len(rd.blk) - Allocated(rd.msg)
      BY <1>2, <2>0 DEF ParseError, Fields
    <2>2. /\ rd.held = Len(rd.ptlvs) + Len(rd.tlvs) + Len(rd.blk) + Amount(rd.msg)
          /\ Amount(rd.msg) = Allocated(rd.msg)
      BY <1>2 DEF Memory, Amount
    <2>3. rd'.held = Len(rd.ptlvs)
      <3> DEFINE p == Len(rd.ptlvs)
                 t == Len(rd.tlvs)
                 b == Len(rd.blk)
                 a == Amount(rd.msg)
      <3>1. p \in Nat /\ t \in Nat /\ b \in Nat /\ a \in Nat
        BY <1>0
      <3>2. rd'.held = (p + t + b + a) - t - b - a
        BY <2>1, <2>2, Zenon
      <3> HIDE DEF p, t, b, a
      <3> QED
        <4>1. rd'.held = p
          BY <3>1, <3>2
        <4> QED
          BY <4>1 DEF p
    <2>4. IsSeq(rd.ptlvs)
      BY DEF Memory
    <2> QED
      BY <2>1, <2>3, <2>4, RestMemory
  <1> QED
    BY <1>1, <1>2

LEMMA ParseTlvMemory ==
  ASSUME Inv(rd, gone), Memory(rd), ParseTlv
  PROVE  Memory(rd')
  <1> DEFINE next == parse_tlv(rd.buf, rd.ptr, rd.eob)
  <1>0. rd.stage = "parse" /\ DOMAIN rd = Fields /\ IsSeq(rd.tlvs) /\ TlvList(rd.tlvs)
    BY DEF ParseTlv, Inv, Shape
  <1>1. CASE \E err : rd' = ParseError(rd, err)
    BY <1>0, <1>1, ParseErrorMemory
  <1>2. CASE ~ \E err : rd' = ParseError(rd, err)
    <2>1. /\ next.err = PBB_OKAY
          /\ rd' = [rd EXCEPT !.ptr = next.ptr, !.tlvs = InsertTlv(@, next.tlv),
                              !.used = @ + 1, !.held = @ + 1]
      BY <1>2 DEF ParseTlv
    <2>2. "drop" \in DOMAIN next.tlv
      BY <2>1, ParsedTlv
    <2> HIDE DEF next
    <2>3. /\ rd'.stage = "parse" /\ rd'.ptlvs = rd.ptlvs /\ rd'.blk = rd.blk /\ rd'.msg = rd.msg
          /\ rd'.tlvs = InsertTlv(rd.tlvs, next.tlv) /\ rd'.held = rd.held + 1
      BY <1>0, <2>1 DEF Fields
    <2>4. IsSeq(rd'.tlvs) /\ Len(rd'.tlvs) = Len(rd.tlvs) + 1
      BY <1>0, <2>2, <2>3, InsertedTlv
    <2>5. rd'.held = Len(rd'.ptlvs) + Len(rd'.tlvs) + Len(rd'.blk) + Amount(rd'.msg)
      <3> DEFINE p == Len(rd.ptlvs)
                 t == Len(rd.tlvs)
                 b == Len(rd.blk)
                 a == Amount(rd.msg)
      <3>1. p \in Nat /\ t \in Nat /\ b \in Nat /\ a \in Nat
        BY AmountType
      <3>2. rd'.held = (p + t + b + a) + 1
        BY <2>3 DEF Memory
      <3>3. Len(rd'.ptlvs) = p /\ Len(rd'.tlvs) = t + 1 /\ Len(rd'.blk) = b /\ Amount(rd'.msg) = a
        BY <2>3, <2>4
      <3> HIDE DEF p, t, b, a
      <3> QED
        BY <3>1, <3>2, <3>3
    <2> QED
      BY <1>0, <2>3, <2>4, <2>5 DEF Memory
  <1> QED
    BY <1>1, <1>2

LEMMA TlvBlockMemory ==
  ASSUME Inv(rd, gone), Memory(rd), TlvBlockParsed
  PROVE  Memory(rd')
  <1>0. /\ rd.stage = "parse" /\ DOMAIN rd = Fields
        /\ rd.msg # NoMsg => IsMessage(rd.msg)
        /\ rd.blk # << >> => IsBlock(rd.blk[1])
        /\ IsSeq(rd.tlvs) /\ IsSeq(rd.ptlvs)
    BY DEF TlvBlockParsed, Inv, Shape, Memory
  <1> DEFINE p == Len(rd.ptlvs)
             t == Len(rd.tlvs)
             b == Len(rd.blk)
             a == Amount(rd.msg)
  <1>1. p \in Nat /\ t \in Nat /\ b \in Nat /\ a \in Nat /\ rd.held = p + t + b + a
    BY AmountType DEF Memory
  <1>2. CASE rd.msg = NoMsg
    <2>1. /\ rd'.stage = "packet" /\ rd'.ptlvs = rd.tlvs /\ rd'.tlvs = << >> /\ rd'.blk = << >>
          /\ rd'.msg = NoMsg /\ rd'.held = rd.held
      BY <1>0, <1>2 DEF TlvBlockParsed, Fields
    <2>2. p = 0 /\ b = 0 /\ a = 0
      BY <1>0, <1>2, EmptyLength DEF Memory, Amount
    <2>3. rd'.held = t
      <3> HIDE DEF p, t, b, a
      <3> QED
        BY <1>1, <2>1, <2>2
    <2> QED
      BY <1>0, <2>1, <2>3, RestMemory
  <1>3. CASE rd.msg # NoMsg /\ rd.blk = << >>
    <2>1. /\ rd'.stage = "blocks" /\ rd'.ptlvs = rd.ptlvs /\ rd'.tlvs = << >> /\ rd'.blk = << >>
          /\ rd'.msg = [rd.msg EXCEPT !.tlvs = rd.tlvs] /\ rd'.held = rd.held
      BY <1>0, <1>3 DEF TlvBlockParsed, Fields
    <2>2. rd.msg.tlvs = << >> /\ rd.msg.blocks = << >> /\ IsMessage(rd.msg)
      BY <1>0, <1>3 DEF Memory
    <2>3. rd'.msg.tlvs = rd.tlvs /\ rd'.msg.blocks = << >> /\ DOMAIN rd'.msg = DOMAIN rd.msg
      BY <2>1, <2>2 DEF IsMessage
    <2>4. rd'.msg # NoMsg
      BY <2>2, <2>3 DEF IsMessage, NoMsg
    <2>5. IsFiniteSet(Objects(rd'.msg)) /\ Allocated(rd'.msg) = t
      BY <1>0, <2>3, FirstObjects
    <2>6. a = 0 /\ b = 0
      BY <1>3, <2>2, NoObjects, EmptyLength DEF Amount
    <2>7. rd'.held = Len(rd'.ptlvs) + Len(rd'.tlvs) + Len(rd'.blk) + Amount(rd'.msg)
      <3>1. Len(rd'.ptlvs) = p /\ Len(rd'.tlvs) = 0 /\ Len(rd'.blk) = 0 /\ Amount(rd'.msg) = t
        BY <2>1, <2>4, <2>5, EmptyLength DEF Amount
      <3> HIDE DEF p, t, b, a
      <3> QED
        BY <1>1, <2>1, <2>6, <3>1
    <2> QED
      BY <1>0, <2>1, <2>4, <2>5, <2>7, EmptyLength DEF Memory
  <1>4. CASE rd.msg # NoMsg /\ rd.blk # << >>
    <2> DEFINE x == [rd.blk[1] EXCEPT !.tlvs = rd.tlvs]
    <2>1. /\ rd'.stage = "blocks" /\ rd'.ptlvs = rd.ptlvs /\ rd'.tlvs = << >> /\ rd'.blk = << >>
          /\ rd'.msg = [rd.msg EXCEPT !.blocks = Append(rd.msg.blocks, x)] /\ rd'.held = rd.held
      BY <1>0, <1>4 DEF TlvBlockParsed, Fields
    <2>2. IsMessage(rd.msg) /\ x.tlvs = rd.tlvs /\ BlockList(rd.msg.blocks)
          /\ IsFiniteSet(Objects(rd.msg))
      BY <1>0, <1>4 DEF IsBlock, IsMessage, Memory
    <2> HIDE DEF x
    <2>3. /\ rd'.msg.tlvs = rd.msg.tlvs /\ rd'.msg.blocks = Append(rd.msg.blocks, x)
          /\ DOMAIN rd'.msg = DOMAIN rd.msg
      BY <2>1, <2>2 DEF IsMessage
    <2>4. rd'.msg # NoMsg
      BY <2>2, <2>3 DEF IsMessage, NoMsg
    <2>5. IsFiniteSet(Objects(rd'.msg)) /\ Allocated(rd'.msg) = Allocated(rd.msg) + 1 + t
      <3>1. IsSeq(x.tlvs)
        BY <1>0, <2>2
      <3> DEFINE m == rd.msg
                 n == rd'.msg
      <3>2. /\ BlockList(m.blocks) /\ IsFiniteSet(Objects(m))
            /\ n.tlvs = m.tlvs /\ n.blocks = Append(m.blocks, x)
        BY <2>2, <2>3
      <3>3. Len(x.tlvs) = t
        BY <2>2
      <3> HIDE DEF m, n
      <3>4. IsFiniteSet(Objects(n)) /\ Allocated(n) = Allocated(m) + 1 + Len(x.tlvs)
        BY <3>1, <3>2, MoreObjects
      <3> QED
        BY <3>3, <3>4, Zenon DEF m, n
    <2>6. a = Allocated(rd.msg) /\ b = 1
      BY <1>4 DEF Amount, Memory
    <2>7. rd'.held = Len(rd'.ptlvs) + Len(rd'.tlvs) + Len(rd'.blk) + Amount(rd'.msg)
      <3>1. /\ Len(rd'.ptlvs) = p /\ Len(rd'.tlvs) = 0 /\ Len(rd'.blk) = 0
            /\ Amount(rd'.msg) = a + 1 + t
        <4>1. Amount(rd'.msg) = Allocated(rd'.msg)
          BY <2>4 DEF Amount
        <4>2. Amount(rd'.msg) = a + 1 + t
          BY <2>5, <2>6, <4>1, Zenon
        <4> QED
          BY <2>1, <4>2, EmptyLength
      <3> HIDE DEF p, t, b, a
      <3> QED
        BY <1>1, <2>1, <2>6, <3>1
    <2> QED
      BY <1>0, <2>1, <2>4, <2>5, <2>7, EmptyLength DEF Memory
  <1> QED
    BY <1>2, <1>3, <1>4

LEMMA ReadMessageMemory ==
  ASSUME Inv(rd, gone), Memory(rd), ReadMessage
  PROVE  Memory(rd')
  <1> DEFINE m == parse_msgheader(rd.buf, rd.ptr)
             s == [rd EXCEPT !.msg = m.msg, !.eob = m.msg.end]
  <1>0. rd.stage = "message" /\ rd.msg = NoMsg /\ DOMAIN rd = Fields
    BY DEF ReadMessage, Inv, Position, Shape
  <1>1. CASE m.err # PBB_OKAY
    <2>1. rd' = [rd EXCEPT !.result = m.err]
      BY <1>1 DEF ReadMessage
    <2> HIDE DEF m
    <2>2. Keeps(rd, rd')
      BY <1>0, <2>1 DEF Keeps, Fields
    <2> QED
      BY <1>0, <2>2, KeepsMemory
  <1>2. CASE m.err = PBB_OKAY
    <2>1. rd' = parse_tlvblock(s, m.body)
      BY <1>2 DEF ReadMessage
    <2>2. m.msg.tlvs = << >> /\ m.msg.blocks = << >>
      BY <1>2 DEF parse_msgheader, PBB_OKAY, PBB_END_OF_BUFFER
    <2>3. m.msg # NoMsg
      BY <1>2, ParsedHeader
    <2> HIDE DEF m
    <2>4. /\ DOMAIN s = Fields /\ s.msg = m.msg /\ s.ptlvs = rd.ptlvs /\ s.blk = rd.blk
          /\ s.held = rd.held
      BY <1>0 DEF Fields
    <2> HIDE DEF s
    <2>5. /\ rd'.stage = "parse" /\ rd'.tlvs = << >> /\ rd'.msg = m.msg /\ rd'.ptlvs = rd.ptlvs
          /\ rd'.blk = rd.blk /\ rd'.held = rd.held
      BY <2>1, <2>4, BlockBegins DEF Fields
    <2>6. IsFiniteSet(Objects(rd'.msg)) /\ Allocated(rd'.msg) = 0
      BY <2>2, <2>5, NoObjects
    <2>7. /\ IsSeq(rd.ptlvs) /\ rd.tlvs = << >> /\ rd.blk = << >>
          /\ rd.held = Len(rd.ptlvs) + Len(rd.tlvs) + Len(rd.blk) + Amount(rd.msg)
      BY <1>0 DEF Memory
    <2>8. Amount(rd'.msg) = 0 /\ Amount(rd.msg) = 0
      BY <1>0, <2>3, <2>5, <2>6 DEF Amount
    <2>9. rd'.held = Len(rd'.ptlvs) + Len(rd'.tlvs) + Len(rd'.blk) + Amount(rd'.msg)
      BY <2>5, <2>7, <2>8, Zenon
    <2> QED
      BY <2>2, <2>3, <2>5, <2>6, <2>7, <2>9, EmptyLength DEF Memory
  <1> QED
    BY <1>1, <1>2

LEMMA ReadBlockMemory ==
  ASSUME Inv(rd, gone), Memory(rd), ReadAddressBlock
  PROVE  Memory(rd')
  <1> DEFINE blk == parse_addrblock(rd.buf, rd.msg.addrlen, rd.ptr, rd.msg.end)
             s == [rd EXCEPT !.blk = <<blk.block>>, !.used = @ + 1, !.held = @ + 1]
  <1>0. rd.stage = "blocks" /\ rd.msg # NoMsg /\ DOMAIN rd = Fields
    BY DEF ReadAddressBlock, Inv, Position, Shape
  <1>1. CASE \E err : rd' = ParseError(rd, err)
    BY <1>0, <1>1, ParseErrorMemory
  <1>2. CASE ~ \E err : rd' = ParseError(rd, err)
    <2>1. rd' = parse_tlvblock(s, blk.ptr)
      BY <1>2 DEF ReadAddressBlock
    <2> HIDE DEF blk
    <2>2. /\ DOMAIN s = Fields /\ s.msg = rd.msg /\ s.ptlvs = rd.ptlvs /\ s.blk = <<blk.block>>
          /\ s.held = rd.held + 1
      BY <1>0 DEF Fields
    <2> HIDE DEF s
    <2>3. /\ rd'.stage = "parse" /\ rd'.tlvs = << >> /\ rd'.msg = rd.msg /\ rd'.ptlvs = rd.ptlvs
          /\ rd'.blk = <<blk.block>> /\ rd'.held = rd.held + 1
      BY <2>1, <2>2, BlockBegins DEF Fields
    <2>4. Len(rd'.blk) = 1 /\ rd'.blk # << >>
      BY <2>3
    <2>5. IsSeq(rd.ptlvs) /\ rd.tlvs = << >> /\ rd.blk = << >> /\ IsFiniteSet(Objects(rd.msg))
      BY <1>0 DEF Memory
    <2>6. rd'.held = Len(rd'.ptlvs) + Len(rd'.tlvs) + Len(rd'.blk) + Amount(rd'.msg)
      <3> DEFINE p == Len(rd.ptlvs)
                 t == Len(rd.tlvs)
                 b == Len(rd.blk)
                 a == Amount(rd.msg)
      <3>1. p \in Nat /\ t = 0 /\ b = 0 /\ a \in Nat
        BY <2>5, AmountType, EmptyLength
      <3>2. rd'.held = (p + t + b + a) + 1
        BY <2>3 DEF Memory
      <3>3. Len(rd'.ptlvs) = p /\ Len(rd'.tlvs) = 0 /\ Len(rd'.blk) = 1 /\ Amount(rd'.msg) = a
        BY <2>3, <2>4, EmptyLength
      <3> HIDE DEF p, t, b, a
      <3> QED
        BY <3>1, <3>2, <3>3
    <2> QED
      BY <1>0, <2>3, <2>4, <2>5, <2>6, EmptyLength DEF Memory
  <1> QED
    BY <1>1, <1>2

LEMMA ArriveMemory ==
  ASSUME Memory(rd), NEW b, NEW f, handle_packet(b, f)
  PROVE  Memory(rd')
  <1> DEFINE flags == pbb_get_u8(b, 0, Len(b)) % 16
             body  == 1 + Takes(Flag(flags, PKT_SEQNO), 2)
             s     == [Idle EXCEPT !.stage = "packet", !.buf = b, !.fail = f, !.ptr = body,
                               !.eob = Len(b), !.has_tlv = Flag(flags, PKT_TLV), !.ci = 1]
  <1>1. \/ \E err : rd' = [Idle EXCEPT !.result = err]
        \/ rd' = parse_tlvblock(s, body)
        \/ rd' = s
    BY Zenon DEF handle_packet
  <1>2. /\ DOMAIN s = Fields /\ s.stage = "packet" /\ s.msg = NoMsg /\ s.ptlvs = << >>
        /\ s.tlvs = << >> /\ s.blk = << >> /\ s.held = 0
    BY DEF Idle, Fields
  <1> HIDE DEF s
  <1>3. CASE \E err : rd' = [Idle EXCEPT !.result = err]
    <2>1. /\ rd'.stage = "idle" /\ rd'.msg = NoMsg /\ rd'.ptlvs = << >>
          /\ rd'.tlvs = << >> /\ rd'.blk = << >> /\ rd'.held = 0
      BY <1>3 DEF Idle
    <2> QED
      BY <2>1, RestMemory, EmptyLength
  <1>4. CASE rd' = parse_tlvblock(s, body)
    <2>1. /\ rd'.stage = "parse" /\ rd'.msg = NoMsg /\ rd'.ptlvs = << >>
          /\ rd'.tlvs = << >> /\ rd'.blk = << >> /\ rd'.held = 0
      BY <1>2, <1>4, BlockBegins DEF Fields
    <2>2. rd'.held = Len(rd'.ptlvs) + Len(rd'.tlvs) + Len(rd'.blk) + Amount(rd'.msg)
      <3>1. Len(rd'.ptlvs) = 0 /\ Len(rd'.tlvs) = 0 /\ Len(rd'.blk) = 0 /\ Amount(rd'.msg) = 0
        BY <2>1, EmptyLength DEF Amount
      <3> QED
        BY <2>1, <3>1
    <2> QED
      BY <2>1, <2>2, EmptyLength DEF Memory
  <1>5. CASE rd' = s
    BY <1>2, <1>5, RestMemory, EmptyLength
  <1> QED
    BY <1>1, <1>3, <1>4, <1>5

LEMMA DoneMemory ==
  ASSUME Inv(rd, gone), Memory(rd), PacketDone \/ MessageDone
  PROVE  Memory(rd')
  <1> DEFINE p == Len(rd.ptlvs)
             t == Len(rd.tlvs)
             b == Len(rd.blk)
             a == Amount(rd.msg)
  <1>0. DOMAIN rd = Fields /\ rd.stage \in {"endpkt", "cleanup"}
    BY DEF PacketDone, MessageDone, Inv, Shape
  <1>1. /\ p \in Nat /\ t = 0 /\ b = 0 /\ a \in Nat /\ rd.held = p + t + b + a
        /\ rd.tlvs = << >> /\ rd.blk = << >> /\ IsSeq(rd.ptlvs)
    BY <1>0, AmountType, EmptyLength DEF Memory
  <1>2. CASE PacketDone
    <2>1. /\ rd'.stage = "idle" /\ rd'.msg = NoMsg /\ rd'.ptlvs = << >>
          /\ rd'.tlvs = << >> /\ rd'.blk = << >> /\ rd'.held = rd.held - p
      BY <1>2 DEF PacketDone, Idle
    <2>2. a = 0
      BY <1>2 DEF PacketDone, Inv, Position, Amount
    <2>3. rd'.held = 0
      <3> HIDE DEF p, t, b, a
      <3> QED
        BY <1>1, <2>1, <2>2
    <2> QED
      BY <2>1, <2>3, RestMemory, EmptyLength
  <1>3. CASE MessageDone
    <2>1. /\ rd'.stage = "message" /\ rd'.msg = NoMsg /\ rd'.ptlvs = rd.ptlvs
          /\ rd'.tlvs = rd.tlvs /\ rd'.blk = rd.blk /\ rd'.held = rd.held - Allocated(rd.msg)
      BY <1>0, <1>3 DEF MessageDone, Fields
    <2>2. a = Allocated(rd.msg)
      BY <1>3 DEF MessageDone, Inv, Position, Amount
    <2>3. rd'.held = p
      <3>1. rd'.held = rd.held - a
        BY <2>1, <2>2
      <3> HIDE DEF p, t, b, a
      <3> QED
        BY <1>1, <3>1
    <2> QED
      BY <1>1, <2>1, <2>3, RestMemory
  <1> QED
    BY <1>2, <1>3

(* The loops over the consumers and their start and end callbacks. *)
LEMMA LoopsMemory ==
  ASSUME Inv(rd, gone), Memory(rd),
         PacketConsumersDone \/ MessageRead \/ MessagesDone \/ EndPacketConsumer \/ SkipConsumer
           \/ EndOrder \/ StartAddressConsumer \/ ConsumersDone \/ EndMessageConsumer
           \/ EndMessageDone \/ SkipAddress
  PROVE  Memory(rd')
  <1>1. DOMAIN rd = Fields
    BY DEF Inv, Shape
  <1>2. rd.stage # "parse"
    BY DEF PacketConsumersDone, MessageRead, MessagesDone, EndPacketConsumer, SkipConsumer,
           EndOrder, StartAddressConsumer, ConsumersDone, EndMessageConsumer,
           EndMessageDone, SkipAddress
  <1>3. Keeps(rd, rd')
    <2>1. CASE PacketConsumersDone
      BY <1>1, <2>1 DEF PacketConsumersDone, Keeps, Fields
    <2>2. CASE MessageRead
      BY <1>1, <2>2 DEF MessageRead, Keeps, Fields
    <2>3. CASE MessagesDone
      BY <1>1, <2>3 DEF MessagesDone, Keeps, Fields
    <2>4. CASE EndPacketConsumer
      BY <1>1, <2>4 DEF EndPacketConsumer, Keeps, Fields
    <2>5. CASE SkipConsumer
      BY <1>1, <2>5 DEF SkipConsumer, Keeps, Fields
    <2>6. CASE EndOrder
      BY <1>1, <2>6 DEF EndOrder, Keeps, Fields
    <2>7. CASE StartAddressConsumer
      BY <1>1, <2>7 DEF StartAddressConsumer, Keeps, Fields
    <2>8. CASE ConsumersDone
      BY <1>1, <2>8 DEF ConsumersDone, LeaveConsumers, Keeps, Fields
    <2>9. CASE EndMessageConsumer
      BY <1>1, <2>9 DEF EndMessageConsumer, Keeps, Fields
    <2>10. CASE EndMessageDone
      BY <1>1, <2>10 DEF EndMessageDone, Keeps, Fields
    <2>11. CASE SkipAddress
      BY <1>1, <2>11 DEF SkipAddress, Keeps, Fields
    <2> QED
      BY <2>1, <2>2, <2>3, <2>4, <2>5, <2>6, <2>7, <2>8, <2>9, <2>10, <2>11
  <1> QED
    BY <1>2, <1>3, KeepsMemory

LEMMA StartMemory ==
  ASSUME Inv(rd, gone), Memory(rd), StartPacketConsumer \/ StartMessageConsumer \/ StartAddress
  PROVE  Memory(rd')
  <1>0. DOMAIN rd = Fields /\ rd.stage # "parse"
    BY DEF Inv, Shape, StartPacketConsumer, StartMessageConsumer, StartAddress
  <1>1. PICK c, s : /\ c.kind \in {"packet", "message", "address"}
                    /\ DOMAIN s = Fields /\ s.stage = rd.stage
                    /\ s.held = rd.held /\ s.tlvs = rd.tlvs /\ s.blk = rd.blk
                    /\ s.ptlvs = rd.ptlvs /\ s.msg = rd.msg
                    /\ rd' = AfterConsumer(c, s) \/ rd' = Merge(c, s)
    <2>1. CASE StartPacketConsumer
      <3> DEFINE c == PacketConsumers[rd.ci]
                 S(r) == [rd EXCEPT !.result = r, !.drops = Drops(r)]
      <3>1. PICK r : rd' = AfterConsumer(c, S(r)) \/ rd' = Merge(c, S(r))
        BY <2>1 DEF StartPacketConsumer
      <3>2. rd.ci \in 1..Len(PacketConsumers)
        <4>1. rd.stage = "packet" /\ rd.ci <= Len(PacketConsumers)
          BY <2>1 DEF StartPacketConsumer
        <4>2. rd.ci \in Nat \ {0}
          BY <4>1 DEF Inv, Position
        <4> QED
          BY <4>1, <4>2, ConsumersAssumption
      <3>3. c.kind = "packet"
        BY <3>2, ConsumersAssumption DEF Installed
      <3>4. /\ DOMAIN S(r) = Fields /\ S(r).stage = rd.stage
            /\ S(r).held = rd.held /\ S(r).tlvs = rd.tlvs /\ S(r).blk = rd.blk
            /\ S(r).ptlvs = rd.ptlvs /\ S(r).msg = rd.msg
        BY <1>0 DEF Fields
      <3> HIDE DEF c, S
      <3> QED
        BY <3>1, <3>3, <3>4
    <2>2. CASE StartMessageConsumer
      <3> DEFINE c == MessageConsumers[rd.ci]
                 S(r) == [rd EXCEPT !.result = r, !.drops = Drops(r), !.last = rd.ci,
                                    !.first = IF @ = 0 THEN rd.ci ELSE @]
      <3>1. PICK r : rd' = AfterConsumer(c, S(r)) \/ rd' = Merge(c, S(r))
        BY <2>2 DEF StartMessageConsumer
      <3>2. c.kind = "message"
        BY <2>2 DEF StartMessageConsumer
      <3>3. /\ DOMAIN S(r) = Fields /\ S(r).stage = rd.stage
            /\ S(r).held = rd.held /\ S(r).tlvs = rd.tlvs /\ S(r).blk = rd.blk
            /\ S(r).ptlvs = rd.ptlvs /\ S(r).msg = rd.msg
        BY <1>0 DEF Fields
      <3> HIDE DEF c, S
      <3> QED
        BY <3>1, <3>2, <3>3
    <2>3. CASE StartAddress
      <3> DEFINE c == MessageConsumers[rd.ci]
                 S(r) == [rd EXCEPT !.result = r, !.drops = Drops(r)]
      <3>1. PICK r : rd' = AfterConsumer(c, S(r)) \/ rd' = Merge(c, S(r))
        BY <2>3 DEF StartAddress
      <3>2. c.kind = "address"
        BY <2>3 DEF StartAddress, Inv, Position
      <3>3. /\ DOMAIN S(r) = Fields /\ S(r).stage = rd.stage
            /\ S(r).held = rd.held /\ S(r).tlvs = rd.tlvs /\ S(r).blk = rd.blk
            /\ S(r).ptlvs = rd.ptlvs /\ S(r).msg = rd.msg
        BY <1>0 DEF Fields
      <3> HIDE DEF c, S
      <3> QED
        BY <3>1, <3>2, <3>3
    <2> QED
      BY <2>1, <2>2, <2>3
  <1>2. Keeps(s, rd')
    BY <1>1, AfterKeeps, MergeKeeps
  <1>3. Keeps(rd, rd')
    BY <1>1, <1>2 DEF Keeps
  <1> QED
    BY <1>0, <1>3, KeepsMemory

LEMMA EndAddressMemory ==
  ASSUME Inv(rd, gone), Memory(rd), EndAddress
  PROVE  Memory(rd')
  <1> DEFINE Result(r) == IF r > rd.result THEN r ELSE rd.result
             S(r) == [rd EXCEPT !.result = Result(r), !.drops = Drops(r)]
             blk == rd.msg.blocks[rd.bi]
             new == [blk EXCEPT !.drop = blk.drop \cup {rd.ai}]
             v == [rd.msg.blocks EXCEPT ![rd.bi] = new]
  <1>0. /\ DOMAIN rd = Fields /\ rd.stage = "addrend" /\ rd.msg # NoMsg /\ IsMessage(rd.msg)
        /\ rd.bi \in DOMAIN rd.msg.blocks
    BY DEF Inv, Shape, Position, EndAddress
  <1>1. PICK r : rd' = CASE Result(r) = PBB_OKAY -> [S(r) EXCEPT !.stage = "address", !.ai = @ + 1]
                         [] Result(r) = PBB_DROP_ADDRESS ->
                              [S(r) EXCEPT !.stage = "address", !.ai = @ + 1, !.result = PBB_OKAY,
                                           !.msg.blocks[rd.bi].drop = @ \cup {rd.ai}]
                         [] OTHER -> LeaveConsumers(S(r))
    BY DEF EndAddress
  <1>2. /\ DOMAIN S(r) = Fields /\ S(r).msg = rd.msg /\ S(r).bi = rd.bi /\ S(r).ai = rd.ai
        /\ S(r).held = rd.held /\ S(r).tlvs = rd.tlvs /\ S(r).blk = rd.blk
        /\ S(r).ptlvs = rd.ptlvs
    BY <1>0 DEF Fields
  <1> HIDE DEF S
  <1>3. CASE Result(r) # PBB_DROP_ADDRESS
    <2>1. \/ rd' = [S(r) EXCEPT !.stage = "address", !.ai = @ + 1]
          \/ rd' = LeaveConsumers(S(r))
      BY <1>1, <1>3
    <2>2. Keeps(rd, rd')
      BY <1>2, <2>1 DEF Keeps, LeaveConsumers, Fields
    <2> QED
      BY <1>0, <2>2, KeepsMemory
  <1>4. CASE Result(r) = PBB_DROP_ADDRESS
    <2>1. rd' = [S(r) EXCEPT !.stage = "address", !.ai = @ + 1, !.result = PBB_OKAY,
                             !.msg.blocks[rd.bi].drop = @ \cup {rd.ai}]
      BY <1>1, <1>4 DEF PBB_OKAY, PBB_DROP_ADDRESS
    <2>2. /\ rd'.stage = "address" /\ rd'.held = rd.held /\ rd'.tlvs = rd.tlvs
          /\ rd'.blk = rd.blk /\ rd'.ptlvs = rd.ptlvs
          /\ rd'.msg = [rd.msg EXCEPT !.blocks = v]
      BY <1>2, <2>1 DEF Fields
    <2>3. new.tlvs = blk.tlvs
      <3>1. IsBlock(blk)
        BY <1>0 DEF IsMessage, BlockList
      <3> QED
        BY <3>1 DEF IsBlock
    <2> HIDE DEF new
    <2>4. /\ DOMAIN v = DOMAIN rd.msg.blocks
          /\ \A i \in DOMAIN rd.msg.blocks : v[i].tlvs = rd.msg.blocks[i].tlvs
      BY <1>0, <2>3
    <2> HIDE DEF v
    <2>5. rd'.msg.tlvs = rd.msg.tlvs /\ rd'.msg.blocks = v /\ DOMAIN rd'.msg = DOMAIN rd.msg
      BY <1>0, <2>2 DEF IsMessage
    <2>6. rd'.msg # NoMsg
      BY <1>0, <2>5 DEF IsMessage, NoMsg
    <2>7. Objects(rd'.msg) = Objects(rd.msg)
      BY <2>4, <2>5, SameObjects
    <2>8. IsSeq(rd.ptlvs)
      BY DEF Memory
    <2> QED
      BY <1>0, <2>2, <2>6, <2>7, <2>8, SameMemory
  <1> QED
    BY <1>3, <1>4

(* What a round of the merge leaves alone. *)
LEMMA RoundKeeps ==
  ASSUME NEW c, NEW tlvs, NEW r, NEW s, DOMAIN s = Fields,
         s.stage \notin {"parse", "idle"}
  PROVE  Keeps(s, Advance(NoteEntry(c, tlvs, r, s), tlvs, c.entries))
  <1> DEFINE n == NoteEntry(c, tlvs, r, s)
             u == Advance(n, tlvs, c.entries)
  <1>1. DOMAIN n = Fields /\ \A f \in Fields \ {"missing", "found"} : n[f] = s[f]
    BY DEF NoteEntry, Fields
  <1> HIDE DEF n
  <1>2. \A f \in Fields \ {"ti", "ei"} : u[f] = n[f]
    BY <1>1 DEF Advance, Fields
  <1> HIDE DEF u
  <1>3. Keeps(s, u)
    BY <1>1, <1>2 DEF Fields, Keeps
  <1> QED
    BY <1>3 DEF u, n

LEMMA MergeStepsMemory ==
  ASSUME Inv(rd, gone), Memory(rd), MatchTlv \/ HandleBlock
  PROVE  Memory(rd')
  <1> DEFINE c == Consumers[rd.ci]
             tlvs == Tlvs(c)
             S(r) == [rd EXCEPT !.result = IF r = PBB_DROP_TLV THEN PBB_OKAY ELSE r,
                                !.drops = Drops(r)]
             next(r) == Advance(NoteEntry(c, tlvs, r, S(r)), tlvs, c.entries)
  <1>0. /\ rd.stage = "tlvs" /\ DOMAIN rd = Fields /\ TlvList(rd.ptlvs)
        /\ rd.msg # NoMsg => IsMessage(rd.msg)
    BY DEF MatchTlv, HandleBlock, Inv, Shape
  <1>1. Context(rd, c) /\ c.kind \in {"packet", "message", "address"}
    BY <1>0, TlvsContext DEF Context
  <1>2. \A r : /\ DOMAIN S(r) = Fields /\ S(r).stage = "tlvs" /\ S(r).ci = rd.ci
               /\ S(r).bi = rd.bi /\ S(r).ai = rd.ai /\ Keeps(rd, S(r))
    BY <1>0 DEF Fields, Keeps
  <1>3. \/ \E r : rd' = next(r)
        \/ \E r, T : rd' = DropTlvs(c, next(r), T)
        \/ \E r : rd' = AfterConsumer(c, S(r))
        \/ \E r, T : rd' = AfterConsumer(c, DropTlvs(c, S(r), T))
    <2>1. CASE MatchTlv
      BY <2>1, Zenon DEF MatchTlv
    <2>2. CASE HandleBlock
      <3>1. PICK r, T : rd' = AfterConsumer(c, DropTlvs(c, [rd EXCEPT !.drops = Drops(r),
                                 !.result = IF r = PBB_DROP_TLV THEN PBB_OKAY ELSE r], T))
        BY <2>2 DEF HandleBlock
      <3>2. [rd EXCEPT !.drops = Drops(r), !.result = IF r = PBB_DROP_TLV THEN PBB_OKAY ELSE r]
              = S(r)
        BY <1>0 DEF Fields
      <3> QED
        BY <3>1, <3>2
    <2> QED
      BY <2>1, <2>2
  <1> HIDE DEF c, tlvs, S
  <1>4. \A r : /\ DOMAIN next(r) = Fields /\ next(r).stage = "tlvs" /\ next(r).ci = rd.ci
               /\ next(r).bi = rd.bi /\ next(r).ai = rd.ai /\ Keeps(rd, next(r))
    <2> SUFFICES ASSUME NEW r
                 PROVE  /\ DOMAIN next(r) = Fields /\ next(r).stage = "tlvs"
                        /\ next(r).ci = rd.ci
                        /\ next(r).bi = rd.bi /\ next(r).ai = rd.ai /\ Keeps(rd, next(r))
      OBVIOUS
    <2>1. DOMAIN S(r) = Fields /\ S(r).stage \notin {"parse", "idle"} /\ Keeps(rd, S(r))
      BY <1>2
    <2>2. Keeps(S(r), next(r))
      BY <2>1, RoundKeeps
    <2>3. /\ DOMAIN next(r) = Fields /\ next(r).stage = S(r).stage /\ next(r).ci = S(r).ci
          /\ next(r).bi = S(r).bi /\ next(r).ai = S(r).ai
      BY <2>1, RoundFields
    <2> HIDE DEF next
    <2> QED
      BY <1>2, <2>1, <2>2, <2>3, KeepsOn
  <1> HIDE DEF next
  <1>5. ASSUME NEW s, NEW T, DOMAIN s = Fields, s.stage = "tlvs", s.ci = rd.ci, s.bi = rd.bi,
               s.ai = rd.ai, Keeps(rd, s)
        PROVE  Memory(DropTlvs(c, s, T)) /\ DOMAIN DropTlvs(c, s, T) = Fields
               /\ DropTlvs(c, s, T).stage = "tlvs"
    <2> DEFINE u == DropTlvs(c, s, T)
    <2>1. /\ DOMAIN u = Fields
          /\ \A f \in Fields \ {"ptlvs", "msg"} : u[f] = s[f]
          /\ Marks(s, u, c.kind, T)
      BY <1>1, <1>5, DropTlvsMarks
    <2> HIDE DEF u
    <2>2. u.stage = s.stage /\ u.held = s.held /\ u.tlvs = s.tlvs /\ u.blk = s.blk
      BY <2>1 DEF Fields
    <2>3. Memory(s)
      BY <1>0, <1>5, KeepsMemory
    <2>4. s.msg = rd.msg /\ s.ptlvs = rd.ptlvs
      BY <1>5 DEF Keeps
    <2>5. Context(s, c)
      BY <1>1, <1>5, <2>4 DEF Context
    <2>6. Memory(u)
      BY <1>0, <1>5, <2>1, <2>2, <2>3, <2>4, <2>5, MarksMemory
    <2> QED
      BY <1>5, <2>1, <2>2, <2>6 DEF u
  <1>6. CASE \E r : rd' = next(r)
    BY <1>0, <1>4, <1>6, KeepsMemory
  <1>7. CASE \E r, T : rd' = DropTlvs(c, next(r), T)
    BY <1>4, <1>5, <1>7
  <1>8. CASE \E r : rd' = AfterConsumer(c, S(r))
    <2>1. PICK r : rd' = AfterConsumer(c, S(r))
      BY <1>8
    <2>2. Keeps(S(r), rd')
      BY <1>1, <1>2, <2>1, AfterKeeps
    <2>3. Keeps(rd, rd')
      BY <1>2, <2>2, KeepsOn
    <2> QED
      BY <1>0, <2>3, KeepsMemory
  <1>9. CASE \E r, T : rd' = AfterConsumer(c, DropTlvs(c, S(r), T))
    <2>1. PICK r, T : rd' = AfterConsumer(c, DropTlvs(c, S(r), T))
      BY <1>9
    <2> DEFINE w == DropTlvs(c, S(r), T)
    <2>2. Memory(w) /\ DOMAIN w = Fields /\ w.stage = "tlvs"
      BY <1>2, <1>5
    <2>3. rd' = AfterConsumer(c, w)
      BY <2>1
    <2> HIDE DEF w
    <2>4. Keeps(w, rd')
      BY <1>1, <2>2, <2>3, AfterKeeps
    <2> QED
      BY <2>2, <2>4, KeepsMemory
  <1> QED
    BY <1>3, <1>6, <1>7, <1>8, <1>9

LEMMA NextMemory ==
  ASSUME Inv(rd, gone), Memory(rd), [Next]_vars
  PROVE  Memory(rd')
  <1>1. ASSUME NEW b, NEW f, Arrive(b, f) PROVE Memory(rd')
    BY <1>1, ArriveMemory DEF Arrive
  <1>2. CASE Step
    BY <1>2, ParseTlvMemory, TlvBlockMemory, ReadMessageMemory, ReadBlockMemory, DoneMemory,
       LoopsMemory, StartMemory, EndAddressMemory, MergeStepsMemory DEF Step
  <1>3. CASE UNCHANGED vars
    BY <1>3 DEF vars
  <1> QED
    BY <1>1, <1>2, <1>3 DEF Next

LEMMA InitMemory == Init => Memory(rd)
  <1>1. ASSUME Init
        PROVE  /\ rd.stage = "idle" /\ rd.msg = NoMsg /\ rd.ptlvs = << >>
               /\ rd.tlvs = << >> /\ rd.blk = << >> /\ rd.held = 0
    BY <1>1 DEF Init, Idle
  <1> QED
    BY <1>1, RestMemory, EmptyLength

LEMMA NothingHeld ==
  ASSUME Inv(rd, gone), Memory(rd), rd.stage = "idle"
  PROVE  rd.held = 0
  <1>1. rd.msg = NoMsg /\ rd.ptlvs = << >> /\ rd.tlvs = << >> /\ rd.blk = << >>
    BY DEF Memory, Inv, Position
  <1> QED
    BY <1>1, EmptyLength DEF Memory, Amount

(* When a packet is done, every TLV and address block that parse_tlvblock() *)
(* and parse_addrblock() allocated for it is freed: for all datagrams, all  *)
(* consumers however registered, whatever the callbacks return and          *)
(* whichever allocation fails.                                              *)
THEOREM EverythingFreed == Spec => [](rd.stage = "idle" => rd.held = 0)
  <1>1. Inv(rd, gone) /\ Memory(rd) /\ [Next]_vars => Memory(rd)'
    BY NextMemory
  <1>2. Inv(rd, gone) /\ Memory(rd) => (rd.stage = "idle" => rd.held = 0)
    BY NothingHeld
  <1> QED
    BY <1>1, <1>2, InitMemory, DropsRemembered, PTL DEF Spec

(* Where the message consumers of an order stand before its address         *)
(* consumers, every context that a consumer with both callbacks was told of *)
(* by its start callback is ended by its end callback, innermost first;     *)
(* when a message is done only packet contexts are open, and when the       *)
(* packet is done none is, and nothing allocated for it is left: for all    *)
(* datagrams, whatever the callbacks return and whichever allocation fails. *)
(* Without the hypothesis it is false: schedule_end_message_cbs() calls an  *)
(* address consumer that stands between two message consumers.              *)
THEOREM ContextsAreBracketed == SortedConsumers(MessageConsumers) => (Spec => []Bracketed)
  <1> SUFFICES ASSUME SortedConsumers(MessageConsumers) PROVE Spec => []Bracketed
    OBVIOUS
  <1>1. Init => Balanced(rd, open) /\ Memory(rd)
    BY InitMemory, InitBalanced
  <1>2. Inv(rd, gone) /\ Balanced(rd, open) /\ Memory(rd) /\ [Next]_vars
          => (Balanced(rd, open) /\ Memory(rd))'
    BY NextBalanced, NextMemory
  <1>3. Inv(rd, gone) /\ Balanced(rd, open) /\ Memory(rd) => Bracketed
    BY NothingHeld, BalancedContexts DEF Bracketed
  <1> QED
    BY <1>1, <1>2, <1>3, DropsRemembered, PTL DEF Spec
=============================================================================
