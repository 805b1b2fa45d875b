------------------------- MODULE PbbDeliveryProofs -------------------------
(***************************************************************************)
(* Proof of TlvDelivery: what the packetbb reader shows a consumer of the  *)
(* TLVs of a block is right, for any consumers, any results of their       *)
(* callbacks and any failing allocation, and for every datagram that is    *)
(* WellFormed when it is parsed.                                           *)
(*                                                                         *)
(* _schedule_tlvblock() merges two sorted lists, TLVs and a consumer's     *)
(* entries, with two pointers.  The merge is reasoned about on the orders  *)
(* of the two lists alone: every entry passed is below every TLV to come,  *)
(* and no TLV passed is above an entry to come.  The invariant: Data       *)
(* says that the lists of TLVs are sorted and their numbers in range,      *)
(* which each parsing step has to keep; Delivering says what the consumer  *)
(* at hand has been shown and which entries have found their TLV when the  *)
(* pointers are where they are.                                            *)
(***************************************************************************)
EXTENDS PbbReaderProofs, WellFoundedInduction

(* A nonempty set of naturals has a least element. *)
LEMMA Least ==
  ASSUME NEW T \in SUBSET Nat, T # {}
  PROVE  \E x \in T : \A y \in T : x <= y
  <1> DEFINE R == {ss \in Nat \X Nat : ss[1] < ss[2]}
  <1>1. IsWellFoundedOn(R, Nat)
    BY NatLessThanWellFounded DEF OpToRel
  <1>2. PICK x \in T : \A y \in T : ~(<<y, x>> \in R)
    <2> HIDE DEF R
    <2> QED
      BY <1>1, WFMin, Zenon
  <1>3. ASSUME NEW y \in T
        PROVE  x <= y
    <2>1. x \in Nat /\ y \in Nat
      OBVIOUS
    <2>2. y < x => <<y, x>> \in R
      BY <2>1
    <2>3. ~(y < x)
      BY <1>2, <2>2
    <2> QED
      BY <2>1, <2>3
  <1> QED
    BY <1>3

-----------------------------------------------------------------------------
(* The merge, on the orders of the TLVs and of the entries alone.           *)

(* Orders in a row, up to the one that stands for the end. *)
Orders(o) ==
  /\ \E n \in Nat : DOMAIN o = 1..n
  /\ \A i \in DOMAIN o : o[i] \in Int /\ o[i] <= TLVTYPE_ORDER_INFINITE
  /\ \A i, j \in DOMAIN o : i < j => o[i] <= o[j]

(* The TLVs, of those in V, that an entry of order x has been compared with *)
(* when the merge is at TLV ti.                                             *)
Matched(ord, V, ti, x) == {t \in V : t < ti /\ ord[t] = x}

(* An entry holds the first of them and knows whether there is another. *)
Knows(f, M) ==
  /\ f.dup \in BOOLEAN
  /\ M = {} => f.tlv = 0
  /\ M # {} => f.tlv \in M /\ \A u \in M : f.tlv <= u
  /\ f.dup <=> \E t, u \in M : t # u

(* How far the merge of TLVs of orders ord, of which V apply, with entries  *)
(* of orders ent is.  X are the entries for one extended type.              *)
Merged(ord, V, ent, X, ti, ei, found) ==
  /\ ti \in Nat \ {0} /\ ei \in Nat \ {0}
  /\ DOMAIN found = DOMAIN ent
  /\ \A e \in DOMAIN ent : DOMAIN found[e] = {"tlv", "dup"}
  /\ \A t \in DOMAIN ord, e \in DOMAIN ent :
       /\ t < ti /\ e >= ei => ord[t] <= ent[e]
       /\ t >= ti /\ e < ei => ent[e] < ord[t]
  /\ \A e \in X : Knows(found[e], Matched(ord, V, ti, ent[e]))

(* What the TLV callback has been told. *)
Told(ord, V, ent, ti, told) ==
  /\ told \in Seq(Nat)
  /\ \A t \in V : t < ti => \E i \in 1..Len(told) : told[i] = t
  /\ \A i \in 1..Len(told) : told[i] <= ti /\ (DOMAIN ent = {} => told[i] < ti)
  /\ \A i \in 1..Len(told) - 1 :
       told[i] < told[i + 1] \/ (DOMAIN ent # {} /\ told[i] = told[i + 1])

(* The order at a place of a list, or at its end. *)
At(o, i) == IF i \in DOMAIN o THEN o[i] ELSE TLVTYPE_ORDER_INFINITE

NextTlv(ord, ent, ti, ei) ==
  IF At(ord, ti) <= At(ent, ei) /\ ti \in DOMAIN ord THEN ti + 1 ELSE ti

NextEntry(ord, ent, ti, ei) ==
  IF At(ent, ei) < At(ord, NextTlv(ord, ent, ti, ei)) THEN ei + 1 ELSE ei

Noted(f, t) == IF f.tlv = 0 THEN [f EXCEPT !.tlv = t] ELSE [f EXCEPT !.dup = TRUE]

(* An entry is compared with one more TLV, in the order of the TLVs. *)
LEMMA KnowsMore ==
  ASSUME NEW f, DOMAIN f = {"tlv", "dup"}, NEW M \in SUBSET Nat, Knows(f, M),
         NEW t \in Nat \ {0}, \A u \in M : u < t /\ u # 0
  PROVE  /\ Knows(Noted(f, t), M \cup {t})
         /\ DOMAIN Noted(f, t) = {"tlv", "dup"}
  <1>1. CASE M = {}
    <2>1. f.tlv = 0 /\ f.dup = FALSE
      BY <1>1 DEF Knows
    <2>2. Noted(f, t).tlv = t /\ Noted(f, t).dup = FALSE
      BY <2>1 DEF Noted
    <2> QED
      BY <1>1, <2>1, <2>2 DEF Knows, Noted
  <1>2. CASE M # {}
    <2>1. f.tlv \in M /\ f.tlv # 0 /\ \A u \in M : f.tlv <= u
      BY <1>2 DEF Knows
    <2>2. Noted(f, t).tlv = f.tlv /\ Noted(f, t).dup = TRUE /\ f.tlv # t
      BY <2>1 DEF Noted
    <2>3. DOMAIN Noted(f, t) = {"tlv", "dup"}
      BY <2>1 DEF Noted
    <2>4. \A u \in M \cup {t} : f.tlv <= u
      <3>1. f.tlv \in Nat /\ f.tlv < t
        BY <2>1
      <3> QED
        BY <2>1, <3>1
    <2>5. \E x, y \in M \cup {t} : x # y
      BY <2>1, <2>2
    <2> QED
      BY <2>1, <2>2, <2>3, <2>4, <2>5 DEF Knows
  <1> QED
    BY <1>1, <1>2

(* One round.  The TLV at hand is compared with the entry at hand if it     *)
(* applies (W: what applies after the callback, which may have dropped it). *)
LEMMA MergeRound ==
  ASSUME NEW ord, Orders(ord), NEW ent, Orders(ent),
         \A i, j \in DOMAIN ent : i < j => ent[i] < ent[j],
         NEW V \in SUBSET DOMAIN ord, NEW X \in SUBSET DOMAIN ent,
         NEW ti, NEW ei, NEW found, Merged(ord, V, ent, X, ti, ei, found),
         NEW W, W = V \/ W = V \ {ti},
         NEW new, DOMAIN new = DOMAIN found,
         \A e \in DOMAIN ent : DOMAIN new[e] = {"tlv", "dup"},
         \A e \in X : new[e] = IF e = ei /\ ti \in W /\ ent[e] = ord[ti]
                               THEN Noted(found[e], ti) ELSE found[e]
  PROVE  Merged(ord, W, ent, X, NextTlv(ord, ent, ti, ei), NextEntry(ord, ent, ti, ei), new)
  <1> DEFINE ti2 == NextTlv(ord, ent, ti, ei)
             ei2 == NextEntry(ord, ent, ti, ei)
  <1>1. /\ ti \in Nat \ {0} /\ ei \in Nat \ {0} /\ DOMAIN found = DOMAIN ent
        /\ \A e \in DOMAIN ent : DOMAIN found[e] = {"tlv", "dup"}
        /\ \A t \in DOMAIN ord, e \in DOMAIN ent :
             /\ t < ti /\ e >= ei => ord[t] <= ent[e]
             /\ t >= ti /\ e < ei => ent[e] < ord[t]
        /\ \A e \in X : Knows(found[e], Matched(ord, V, ti, ent[e]))
    BY DEF Merged
  <1>2. /\ \A i \in DOMAIN ord : i \in Nat \ {0} /\ ord[i] \in Int
        /\ \A i \in DOMAIN ent : i \in Nat \ {0} /\ ent[i] \in Int
        /\ \A i, j \in DOMAIN ord : i < j => ord[i] <= ord[j]
    BY DEF Orders
  <1>3. /\ ti2 = ti \/ (ti2 = ti + 1 /\ ti \in DOMAIN ord)
        /\ ti2 = ti + 1 /\ ei \in DOMAIN ent => ord[ti] <= ent[ei]
        /\ ti2 = ti /\ ti \in DOMAIN ord /\ ei \in DOMAIN ent => ent[ei] < ord[ti]
    BY <1>1, <1>2 DEF NextTlv, At
  <1>4. /\ ei2 = ei \/ ei2 = ei + 1
        /\ ei2 = ei + 1 /\ ei \in DOMAIN ent /\ ti2 \in DOMAIN ord => ent[ei] < ord[ti2]
    BY <1>1 DEF NextEntry, At
  <1>5. ti2 \in Nat \ {0} /\ ei2 \in Nat \ {0}
    BY <1>1, <1>3, <1>4
  <1> HIDE DEF ti2, ei2
  <1>6. ASSUME NEW t \in DOMAIN ord, NEW e \in DOMAIN ent
        PROVE  /\ t < ti2 /\ e >= ei2 => ord[t] <= ent[e]
               /\ t >= ti2 /\ e < ei2 => ent[e] < ord[t]
    <2>1. ASSUME t < ti2, e >= ei2 PROVE ord[t] <= ent[e]
      <3>1. e >= ei
        BY <1>1, <1>2, <1>4, <2>1
      <3>2. CASE t < ti
        BY <1>1, <3>1, <3>2
      <3>3. CASE t >= ti
        <4>1. t = ti /\ ti2 = ti + 1
          BY <1>1, <1>2, <1>3, <2>1, <3>3
        <4>2. CASE e = ei
          BY <1>3, <4>1, <4>2
        <4>3. CASE e # ei
          <5>1. ei < e
            BY <1>1, <1>2, <3>1, <4>3
          <5>2. ei \in DOMAIN ent
            BY <1>1, <5>1 DEF Orders
          <5> QED
            BY <1>2, <1>3, <4>1, <5>1, <5>2
        <4> QED
          BY <4>2, <4>3
      <3> QED
        BY <1>1, <1>2, <3>2, <3>3
    <2>2. ASSUME t >= ti2, e < ei2 PROVE ent[e] < ord[t]
      <3>1. t >= ti
        BY <1>1, <1>2, <1>3, <2>2
      <3>2. CASE e < ei
        BY <1>1, <3>1, <3>2
      <3>3. CASE e >= ei
        <4>1. e = ei /\ ei2 = ei + 1
          BY <1>1, <1>2, <1>4, <2>2, <3>3
        <4>2. ti2 \in DOMAIN ord
          BY <1>5, <2>2 DEF Orders
        <4>3. ord[ti2] <= ord[t]
          BY <1>2, <1>5, <2>2, <4>2
        <4> QED
          BY <1>2, <1>4, <4>1, <4>2, <4>3
      <3> QED
        BY <1>1, <1>2, <3>2, <3>3
    <2> QED
      BY <2>1, <2>2
  <1>7. ASSUME NEW e \in X
        PROVE  Knows(new[e], Matched(ord, W, ti2, ent[e]))
    <2> DEFINE M == Matched(ord, V, ti, ent[e])
               N == Matched(ord, W, ti2, ent[e])
    <2>1. \A t \in V : t \in Nat \ {0}
      BY <1>2
    <2>2. ti \notin M /\ M \in SUBSET Nat /\ \A u \in M : u < ti /\ u # 0
      BY <1>1, <2>1 DEF Matched
    <2>3. M = Matched(ord, W, ti, ent[e])
      BY <1>1, <2>1 DEF Matched
    <2>4. N = IF ti2 = ti + 1 /\ ti \in W /\ ord[ti] = ent[e] THEN M \cup {ti} ELSE M
      <3>1. \A t \in W : t < ti2 <=> (t < ti \/ (ti2 = ti + 1 /\ t = ti))
        BY <1>1, <1>3, <2>1
      <3> QED
        BY <1>1, <2>3, <3>1 DEF Matched
    <2>5. CASE ti \in W /\ ord[ti] = ent[e]
      <3>1. ti \in DOMAIN ord /\ e \in DOMAIN ent /\ ord[ti] \in Int /\ e \in Nat \ {0}
        BY <1>2, <2>5
      <3>2. CASE e = ei
        <4>1. ti2 = ti + 1
          BY <1>2, <1>3, <2>5, <3>1, <3>2
        <4>2. new[e] = Noted(found[e], ti)
          BY <2>5, <3>2
        <4>3. DOMAIN found[e] = {"tlv", "dup"} /\ Knows(found[e], M)
          BY <1>1
        <4> HIDE DEF M
        <4>4. Knows(Noted(found[e], ti), M \cup {ti})
          BY <1>1, <2>2, <4>3, KnowsMore
        <4> QED
          BY <2>4, <2>5, <4>1, <4>2, <4>4
      <3>3. CASE e # ei
        <4>1. ti2 = ti
          <5>1. CASE e < ei
            BY <1>1, <1>2, <2>5, <3>1, <5>1
          <5>2. CASE e > ei
            <6>1. ei \in DOMAIN ent
              BY <1>1, <3>1, <5>2 DEF Orders
            <6>2. ent[ei] < ord[ti]
              BY <1>2, <2>5, <3>1, <5>2, <6>1
            <6> QED
              BY <1>1, <1>2, <1>3, <3>1, <6>1, <6>2
          <5> QED
            BY <1>1, <3>1, <3>3, <5>1, <5>2
        <4>2. N = M /\ new[e] = found[e]
          BY <1>1, <2>4, <3>3, <4>1
        <4> QED
          BY <1>1, <4>2
      <3> QED
        BY <3>2, <3>3
    <2>6. CASE ~(ti \in W /\ ord[ti] = ent[e])
      <3>1. N = M /\ new[e] = found[e]
        BY <2>4, <2>6
      <3> QED
        BY <1>1, <3>1
    <2> QED
      BY <2>5, <2>6
  <1> QED
    BY <1>1, <1>5, <1>6, <1>7 DEF Merged, ti2, ei2

(* The TLV callback is told in order. *)
LEMMA ToldRound ==
  ASSUME NEW ord, Orders(ord), NEW ent, Orders(ent),
         NEW V \in SUBSET DOMAIN ord, NEW ti \in Nat \ {0}, NEW ei \in Nat \ {0},
         NEW told, Told(ord, V, ent, ti, told),
         NEW W, W = V \/ W = V \ {ti},
         NEW more, more = IF ti \in V THEN Append(told, ti) ELSE told
  PROVE  Told(ord, W, ent, NextTlv(ord, ent, ti, ei), more)
  <1> DEFINE ti2 == NextTlv(ord, ent, ti, ei)
  <1>1. \A i \in DOMAIN ord : i \in Nat \ {0} /\ ord[i] \in Int
                              /\ ord[i] <= TLVTYPE_ORDER_INFINITE
    BY DEF Orders
  <1>2. /\ ti2 = ti \/ ti2 = ti + 1
        /\ ti \in DOMAIN ord /\ DOMAIN ent = {} => ti2 = ti + 1
    BY <1>1 DEF NextTlv, At
  <1> HIDE DEF ti2
  <1>3. /\ told \in Seq(Nat) /\ Len(told) \in Nat
        /\ \A i \in 1..Len(told) : told[i] \in Nat /\ told[i] <= ti
                                   /\ (DOMAIN ent = {} => told[i] < ti)
    BY DEF Told
  <1>4. CASE ti \in V
    <2>1. /\ more \in Seq(Nat) /\ Len(more) = Len(told) + 1 /\ more[Len(told) + 1] = ti
          /\ \A i \in 1..Len(told) : more[i] = told[i]
      BY <1>3, <1>4, AppendProperties
    <2>2. ASSUME NEW t \in W, t < ti2
          PROVE  \E i \in 1..Len(more) : more[i] = t
      <3>1. t \in V /\ t \in Nat
        BY <1>1
      <3>2. CASE t = ti
        BY <1>3, <2>1, <3>2
      <3>3. CASE t # ti
        <4>1. t < ti
          BY <1>2, <2>2, <3>1, <3>3
        <4>2. PICK i \in 1..Len(told) : told[i] = t
          BY <3>1, <4>1 DEF Told
        <4> QED
          BY <1>3, <2>1, <4>2
      <3> QED
        BY <3>2, <3>3
    <2>3. ASSUME NEW i \in 1..Len(more)
          PROVE  more[i] <= ti2 /\ (DOMAIN ent = {} => more[i] < ti2)
      <3>1. i \in 1..Len(told) \/ i = Len(told) + 1
        BY <1>3, <2>1
      <3> QED
        BY <1>2, <1>3, <1>4, <2>1, <3>1
    <2>4. ASSUME NEW i \in 1..Len(more) - 1
          PROVE  more[i] < more[i + 1] \/ (DOMAIN ent # {} /\ more[i] = more[i + 1])
      <3>1. CASE i \in 1..Len(told) - 1
        <4>1. i \in 1..Len(told) /\ i + 1 \in 1..Len(told)
          BY <1>3, <3>1
        <4>2. told[i] < told[i + 1] \/ (DOMAIN ent # {} /\ told[i] = told[i + 1])
          BY <3>1 DEF Told
        <4> QED
          BY <2>1, <4>1, <4>2
      <3>2. CASE i = Len(told)
        <4>1. i \in 1..Len(told) /\ more[i + 1] = ti
          BY <1>3, <2>1, <3>2
        <4>2. more[i] = told[i]
          BY <2>1, <4>1
        <4>3. told[i] \in Nat /\ told[i] <= ti /\ (DOMAIN ent = {} => told[i] < ti)
          BY <1>3, <4>1
        <4>4. CASE DOMAIN ent = {}
          BY <4>1, <4>2, <4>3, <4>4
        <4>5. CASE DOMAIN ent # {}
          <5>1. told[i] < ti \/ told[i] = ti
            BY <4>3
          <5> QED
            BY <4>1, <4>2, <4>5, <5>1
        <4> QED
          BY <4>4, <4>5
      <3> QED
        BY <1>3, <2>1, <3>1, <3>2
    <2> QED
      BY <2>1, <2>2, <2>3, <2>4 DEF Told, ti2
  <1>5. CASE ti \notin V
    <2>1. \A t \in W : t \in V /\ (t < ti2 => t < ti)
      BY <1>1, <1>2, <1>5
    <2>2. \A i \in 1..Len(told) : told[i] <= ti2 /\ (DOMAIN ent = {} => told[i] < ti2)
      BY <1>2, <1>3
    <2> QED
      BY <1>5, <2>1, <2>2 DEF Told, ti2
  <1> QED
    BY <1>4, <1>5

-----------------------------------------------------------------------------
(* Reading the datagram.                                                    *)

(* What the parsers are given: a buffer and where the context ends in it. *)
InBuffer(b, ptr, eob) ==
  b \in Seq(Nat) /\ ptr \in Nat /\ eob \in Nat /\ eob <= Len(b)

LEMMA ReadNat ==
  ASSUME NEW b, NEW eob, NEW ptr, InBuffer(b, ptr, eob)
  PROVE  pbb_get_u8(b, ptr, eob) \in Nat /\ pbb_get_u16(b, ptr, eob) \in Nat
  <1>1. \A p \in Nat : pbb_get_u8(b, p, eob) \in Nat
    <2> SUFFICES ASSUME NEW p \in Nat, p < eob
                 PROVE  b[p + 1] \in Nat
      BY DEF pbb_get_u8
    <2>1. p + 1 \in 1..Len(b)
      BY DEF InBuffer
    <2> QED
      BY <2>1 DEF InBuffer
  <1>2. pbb_get_u8(b, ptr, eob) \in Nat /\ pbb_get_u8(b, ptr + 1, eob) \in Nat
    <2>1. ptr \in Nat /\ ptr + 1 \in Nat
      BY DEF InBuffer
    <2> QED
      BY <1>1, <2>1, Zenon
  <1>3. pbb_get_u8(b, ptr, eob) * BYTE \in Nat
    BY <1>2, DatagramsAssumption
  <1> QED
    BY <1>2, <1>3 DEF pbb_get_u16

(* The place of an optional field. *)
LEMMA TakesNat ==
  ASSUME NEW p, NEW n \in Nat
  PROVE  Takes(p, n) \in Nat
  BY DEF Takes

LEMMA TlvRead ==
  ASSUME NEW b, NEW eob, NEW ptr, InBuffer(b, ptr, eob),
         parse_tlv(b, ptr, eob).err = PBB_OKAY
  PROVE  /\ {"order", "index1", "index2", "drop"} \subseteq DOMAIN parse_tlv(b, ptr, eob).tlv
         /\ parse_tlv(b, ptr, eob).tlv.order \in Int /\ parse_tlv(b, ptr, eob).ptr \in Nat
  <1> DEFINE flags   == pbb_get_u8(b, ptr + 1, eob)
             value   == Flag(flags, TLV_VALUE)
             wide    == Flag(flags, TLV_EXTVALUE)
             hasExt  == Flag(flags, TLV_TYPEEXT)
             idx     == ptr + 2 + Takes(hasExt, 1)
             len     == idx + Takes(Flag(flags, TLV_SINGLE_IDX), 1)
                            + Takes(Flag(flags, TLV_MULTI_IDX), 2)
             body    == len + Takes(value, 1) + Takes(wide, 1)
             length  == CASE value /\ wide -> pbb_get_u16(b, len, eob)
                          [] value /\ ~wide -> pbb_get_u8(b, len, eob)
                          [] OTHER -> 0
             type    == pbb_get_u8(b, ptr, eob)
             ext     == IF hasExt THEN pbb_get_u8(b, ptr + 2, eob) ELSE 0
  <1>1. /\ parse_tlv(b, ptr, eob).ptr = body + length
        /\ parse_tlv(b, ptr, eob).tlv.order = calc_tlv_intorder(type, ext)
        /\ {"order", "index1", "index2", "drop"} \subseteq DOMAIN parse_tlv(b, ptr, eob).tlv
    BY DEF parse_tlv
  <1>2. ptr \in Nat /\ \A p \in Nat : InBuffer(b, p, eob)
    BY DEF InBuffer
  <1>3. /\ Takes(hasExt, 1) \in Nat /\ Takes(Flag(flags, TLV_SINGLE_IDX), 1) \in Nat
        /\ Takes(Flag(flags, TLV_MULTI_IDX), 2) \in Nat
        /\ Takes(value, 1) \in Nat /\ Takes(wide, 1) \in Nat
    BY TakesNat
  <1>4. len \in Nat /\ body \in Nat
    BY <1>2, <1>3
  <1>5. type \in Nat /\ ext \in Nat
    <2>1. ptr + 2 \in Nat
      BY <1>2
    <2> QED
      BY <1>2, <2>1, ReadNat
  <1>6. length \in Nat
    BY <1>2, <1>4, ReadNat
  <1> HIDE DEF body, length, type, ext
  <1>7. type * BYTE \in Int
    BY <1>5, DatagramsAssumption
  <1> QED
    BY <1>1, <1>4, <1>5, <1>6, <1>7 DEF calc_tlv_intorder

LEMMA HeaderRead ==
  ASSUME NEW b, NEW ptr, InBuffer(b, ptr, Len(b)), parse_msgheader(b, ptr).err = PBB_OKAY
  PROVE  /\ parse_msgheader(b, ptr).body \in Nat
         /\ parse_msgheader(b, ptr).msg.end \in Nat
         /\ parse_msgheader(b, ptr).msg.end <= Len(b)
         /\ parse_msgheader(b, ptr).msg.addrlen \in Nat
         /\ parse_msgheader(b, ptr).msg.tlvs = << >>
         /\ parse_msgheader(b, ptr).msg.blocks = << >>
         /\ {"end", "addrlen"} \subseteq DOMAIN parse_msgheader(b, ptr).msg
  <1> DEFINE eob      == Len(b)
             flags    == pbb_get_u8(b, ptr + 1, eob)
             addrlen  == (flags % 16) + 1
             Has(f)   == Flag(flags, f)
             hoplimit == ptr + 4 + Takes(Has(MSG_ORIGINATOR), addrlen)
             hopcount == hoplimit + Takes(Has(MSG_HOPLIMIT), 1)
             seqno    == hopcount + Takes(Has(MSG_HOPCOUNT), 1)
             body     == seqno + Takes(Has(MSG_SEQNO), 2)
             end      == ptr + pbb_get_u16(b, ptr + 2, eob)
  <1>1. /\ parse_msgheader(b, ptr).body = body
        /\ parse_msgheader(b, ptr).msg.end = end
        /\ parse_msgheader(b, ptr).msg.addrlen = addrlen
        /\ parse_msgheader(b, ptr).msg.tlvs = << >>
        /\ parse_msgheader(b, ptr).msg.blocks = << >>
        /\ {"end", "addrlen"} \subseteq DOMAIN parse_msgheader(b, ptr).msg
        /\ ~(end > eob)
    BY DEF parse_msgheader, PBB_OKAY, PBB_END_OF_BUFFER
  <1>2. ptr \in Nat /\ Len(b) \in Nat /\ \A p \in Nat : InBuffer(b, p, eob)
    BY DEF InBuffer
  <1>3. flags \in Nat /\ pbb_get_u16(b, ptr + 2, eob) \in Nat
    <2>1. ptr + 1 \in Nat /\ ptr + 2 \in Nat
      BY <1>2
    <2> QED
      BY <1>2, <2>1, ReadNat
  <1>4. addrlen \in Nat
    BY <1>3
  <1>5. /\ Takes(Has(MSG_ORIGINATOR), addrlen) \in Nat /\ Takes(Has(MSG_HOPLIMIT), 1) \in Nat
        /\ Takes(Has(MSG_HOPCOUNT), 1) \in Nat /\ Takes(Has(MSG_SEQNO), 2) \in Nat
    BY <1>4, TakesNat
  <1>6. body \in Nat /\ end \in Nat
    <2> HIDE DEF addrlen, Has
    <2> QED
      BY <1>2, <1>3, <1>5
  <1> QED
    BY <1>1, <1>2, <1>4, <1>6

LEMMA BlockRead ==
  ASSUME NEW b, NEW ptr, NEW end, NEW addrlen \in Nat, InBuffer(b, ptr, end),
         parse_addrblock(b, addrlen, ptr, end).err = PBB_OKAY,
         parse_addrblock(b, addrlen, ptr, end).block.mid_len >= 0
  PROVE  /\ parse_addrblock(b, addrlen, ptr, end).ptr \in Nat
         /\ parse_addrblock(b, addrlen, ptr, end).block.tlvs = << >>
  <1> DEFINE num       == pbb_get_u8(b, ptr, end)
             flags     == pbb_get_u8(b, ptr + 1, end)
             head      == Flag(flags, ADDR_HEAD)
             full      == Flag(flags, ADDR_FULLTAIL)
             zero      == Flag(flags, ADDR_ZEROTAIL)
             single    == Flag(flags, ADDR_SINGLEPLEN)
             multi     == Flag(flags, ADDR_MULTIPLEN)
             mid_start == IF head THEN pbb_get_u8(b, ptr + 2, end) ELSE 0
             headAt    == ptr + 2 + Takes(head, 1)
             afterHead == headAt + mid_start
             tail_len  == IF full \/ zero THEN pbb_get_u8(b, afterHead, end) ELSE 0
             tailAt    == afterHead + Takes(full \/ zero, 1)
             mid_src   == tailAt + Takes(full, tail_len)
             mid_len   == addrlen - mid_start - tail_len
             plen      == mid_src + mid_len * num
             after     == plen + Takes(single, 1) + Takes(multi, num)
  <1>1. /\ parse_addrblock(b, addrlen, ptr, end).ptr = after
        /\ parse_addrblock(b, addrlen, ptr, end).block.mid_len = mid_len
        /\ parse_addrblock(b, addrlen, ptr, end).block.tlvs = << >>
    BY DEF parse_addrblock
  <1>2. ptr \in Nat /\ \A p \in Nat : InBuffer(b, p, end)
    BY DEF InBuffer
  <1>3. num \in Nat /\ mid_start \in Nat
    <2>1. ptr + 2 \in Nat
      BY <1>2
    <2> QED
      BY <1>2, <2>1, ReadNat
  <1>4. afterHead \in Nat
    <2>1. Takes(head, 1) \in Nat
      BY TakesNat
    <2> HIDE DEF head, mid_start
    <2> QED
      BY <1>2, <1>3, <2>1
  <1>5. tail_len \in Nat
    <2> HIDE DEF afterHead
    <2> QED
      BY <1>2, <1>4, ReadNat
  <1>6. mid_src \in Nat
    <2>1. Takes(full \/ zero, 1) \in Nat /\ Takes(full, tail_len) \in Nat
      BY <1>5, TakesNat
    <2> HIDE DEF afterHead, tail_len, full, zero
    <2> QED
      BY <1>4, <2>1
  <1>7. mid_len \in Nat
    <2> HIDE DEF mid_start, tail_len
    <2> QED
      BY <1>1, <1>3, <1>5
  <1> HIDE DEF mid_len, mid_src, num
  <1>8. mid_len * num \in Nat
    BY <1>3, <1>7
  <1>9. Takes(single, 1) \in Nat /\ Takes(multi, num) \in Nat
    BY <1>3, TakesNat
  <1>10. after \in Nat
    BY <1>6, <1>8, <1>9
  <1> QED
    BY <1>1, <1>10

-----------------------------------------------------------------------------
(* The trees of TLVs.                                                       *)

OrdersOf(l) == [i \in DOMAIN l |-> l[i].order]

IsTlv(x) == {"order", "index1", "index2", "drop"} \subseteq DOMAIN x

SortedTlvs(l) ==
  IsSeq(l) /\ TlvList(l) /\ (\A i \in DOMAIN l : IsTlv(l[i])) /\ Orders(OrdersOf(l))

(* The TLVs that are not after a TLV are the first ones. *)
LEMMA FirstOnes ==
  ASSUME NEW o, Orders(o), NEW x \in Int
  PROVE  LET B == {i \in DOMAIN o : o[i] <= x}
         IN Cardinality(B) \in Nat /\ B = 1..Cardinality(B)
  <1> DEFINE B == {i \in DOMAIN o : o[i] <= x}
             T == {i \in Nat \ {0} : i \notin B}
  <1>1. PICK n \in Nat : DOMAIN o = 1..n
    BY DEF Orders
  <1>2. T \in SUBSET Nat /\ T # {}
    <2>1. n + 1 \in T
      BY <1>1
    <2> QED
      BY <2>1
  <1>3. PICK k \in T : \A j \in T : k <= j
    BY <1>2, Least
  <1>4. B = 1..(k - 1)
    <2>1. ASSUME NEW i \in 1..(k - 1) PROVE i \in B
      <3>1. i \in Nat \ {0} /\ ~(k <= i)
        BY <1>3
      <3> QED
        BY <1>3, <3>1
    <2>2. ASSUME NEW i \in B, i >= k PROVE FALSE
      <3>1. i \in 1..n /\ k \in 1..n /\ k # i
        BY <1>1, <1>3, <2>2
      <3>2. o[k] <= o[i] /\ o[k] \in Int /\ o[i] \in Int /\ o[i] <= x
        BY <1>1, <2>2, <3>1 DEF Orders
      <3> QED
        BY <1>1, <3>1, <3>2
    <2>3. \A i \in B : i \in Nat \ {0}
      BY <1>1
    <2> QED
      BY <1>3, <2>1, <2>2, <2>3
  <1>5. k - 1 \in Nat
    BY <1>3
  <1>6. Cardinality(1..(k - 1)) = k - 1
    BY <1>5, SegmentSize
  <1> HIDE DEF B
  <1> QED
    BY <1>4, <1>5, <1>6 DEF B

(* An insertion keeps the order. *)
LEMMA InsertedSorted ==
  ASSUME NEW l, SortedTlvs(l), NEW x, IsTlv(x), x.order \in Int,
         x.order <= TLVTYPE_ORDER_INFINITE
  PROVE  SortedTlvs(InsertTlv(l, x))
  <1> DEFINE o == OrdersOf(l)
             n == Cardinality({i \in DOMAIN l : l[i].order <= x.order})
             r == InsertTlv(l, x)
  <1>1. IsSeq(r) /\ TlvList(r)
    BY InsertedTlv DEF SortedTlvs, IsTlv
  <1>2. /\ DOMAIN o = DOMAIN l /\ \A i \in DOMAIN l : o[i] = l[i].order
        /\ l \in Seq({l[i] : i \in DOMAIN l}) /\ Len(l) \in Nat /\ DOMAIN l = 1..Len(l)
    BY DEF OrdersOf, SortedTlvs, IsSeq
  <1>3. {i \in DOMAIN l : l[i].order <= x.order} = {i \in DOMAIN o : o[i] <= x.order}
    BY <1>2
  <1>4. n \in Nat /\ {i \in DOMAIN l : l[i].order <= x.order} = 1..n
    BY <1>3, FirstOnes DEF SortedTlvs
  <1>5. n <= Len(l) /\ \A i \in DOMAIN l : l[i].order <= x.order <=> i <= n
    <2>1. \A i \in 1..n : i \in 1..Len(l)
      BY <1>2, <1>4
    <2>2. n <= Len(l)
      <3>1. CASE n = 0
        BY <1>2, <3>1
      <3>2. CASE n # 0
        <4>1. n \in 1..n
          BY <1>4, <3>2
        <4> QED
          BY <1>2, <2>1, <4>1
      <3> QED
        BY <3>1, <3>2
    <2>3. ASSUME NEW i \in DOMAIN l PROVE l[i].order <= x.order <=> i <= n
      <3>1. l[i].order <= x.order <=> i \in 1..n
        BY <1>4
      <3>2. i \in Nat \ {0}
        BY <1>2
      <3> QED
        BY <1>4, <3>1, <3>2
    <2> QED
      BY <2>2, <2>3
  <1>6. r = SubSeq(l, 1, n) \o <<x>> \o SubSeq(l, n + 1, Len(l))
    <2>1. (1 + n) - 1 = n /\ 1 + n = n + 1
      BY <1>4
    <2> QED
      BY <2>1 DEF InsertTlv, InsertAt
  <1> HIDE DEF n, r
  <1>7. /\ DOMAIN r = 1..(Len(l) + 1)
        /\ \A i \in 1..(Len(l) + 1) :
             r[i] = IF i <= n THEN l[i] ELSE IF i = n + 1 THEN x ELSE l[i - 1]
    <2> DEFINE a == SubSeq(l, 1, n)
               z == SubSeq(l, n + 1, Len(l))
               S == {l[i] : i \in DOMAIN l} \cup {x}
    <2>1. l \in Seq(S)
      <3>1. Seq({l[i] : i \in DOMAIN l}) \subseteq Seq(S)
        BY SeqMonotonic
      <3> QED
        BY <1>2, <3>1
    <2>2. /\ a \in Seq(S) /\ Len(a) = n /\ \A i \in 1..n : a[i] = l[i]
          /\ z \in Seq(S) /\ Len(z) = Len(l) - n
          /\ \A i \in 1..(Len(l) - n) : z[i] = l[n + i]
      <3>1. /\ a \in Seq(S) /\ Len(a) = n /\ \A i \in 1..n : a[i] = l[i]
        <4>1. \A i \in 1..n : i \in 1..Len(l)
          BY <1>2, <1>4, <1>5
        <4> QED
          BY <1>2, <1>4, <1>5, <2>1, <4>1
      <3>2. /\ z \in Seq(S) /\ Len(z) = Len(l) - n
            /\ \A i \in 1..(Len(l) - n) : z[i] = l[n + i]
        <4>1. \A i \in (n + 1)..Len(l) : l[i] \in S
          BY <1>2, <1>4
        <4>2. n + 1 \in Nat /\ n + 1 <= Len(l) + 1
          BY <1>2, <1>4, <1>5
        <4>3. /\ z \in Seq(S) /\ Len(z) = IF n + 1 <= Len(l) THEN Len(l) - (n + 1) + 1 ELSE 0
              /\ \A i \in 1..(Len(l) - (n + 1) + 1) : z[i] = l[n + 1 + i - 1]
          <5>1. n + 1 \in Int /\ Len(l) \in Int
            BY <1>2, <4>2
          <5> HIDE DEF S
          <5> QED
            BY <4>1, <5>1, SubSeqProperties
        <4>4. Len(l) - (n + 1) + 1 = Len(l) - n /\ \A i \in Nat : n + 1 + i - 1 = n + i
          BY <1>2, <1>4
        <4> HIDE DEF S, z
        <4>5. Len(z) = Len(l) - n
          <5> DEFINE k == Len(l)
          <5>1. k \in Nat /\ n \in Nat /\ n <= k
            BY <1>2, <1>4, <1>5
          <5>2. Len(z) = IF n + 1 <= k THEN k - (n + 1) + 1 ELSE 0
            BY <4>3
          <5> HIDE DEF k
          <5>3. Len(z) = k - n
            BY <5>1, <5>2
          <5> QED
            BY <5>3 DEF k
        <4>6. ASSUME NEW i \in 1..(Len(l) - n) PROVE z[i] = l[n + i]
          <5>1. i \in 1..(Len(l) - (n + 1) + 1) /\ n + 1 + i - 1 = n + i
            BY <4>4
          <5>2. z[i] = l[n + 1 + i - 1]
            BY <4>3, <5>1
          <5> QED
            BY <5>1, <5>2
        <4> QED
          BY <4>3, <4>5, <4>6
      <3> QED
        BY <3>1, <3>2
    <2> HIDE DEF a, z, S
    <2>3. /\ a \o <<x>> \in Seq(S) /\ Len(a \o <<x>>) = n + 1
          /\ \A i \in 1..(n + 1) : (a \o <<x>>)[i] = IF i <= n THEN a[i] ELSE x
      <3> DEFINE y == <<x>>
      <3>1. y \in Seq(S) /\ Len(y) = 1 /\ y[1] = x
        BY DEF S
      <3> HIDE DEF y
      <3>2. /\ a \o y \in Seq(S) /\ Len(a \o y) = Len(a) + Len(y)
            /\ \A i \in 1..(Len(a) + Len(y)) :
                 (a \o y)[i] = IF i <= Len(a) THEN a[i] ELSE y[i - Len(a)]
        BY <2>2, <3>1, ConcatProperties
      <3>3. ASSUME NEW i \in 1..(n + 1) PROVE (a \o y)[i] = IF i <= n THEN a[i] ELSE x
        <4>1. i \in 1..(Len(a) + Len(y)) /\ (~(i <= n) => i - Len(a) = 1)
          BY <1>4, <2>2, <3>1
        <4> QED
          BY <2>2, <3>1, <3>2, <4>1
      <3> QED
        BY <2>2, <3>1, <3>2, <3>3 DEF y
    <2>4. /\ Len(r) = Len(l) + 1 /\ DOMAIN r = 1..Len(r)
          /\ \A i \in 1..Len(r) : r[i] = IF i <= n + 1 THEN (a \o <<x>>)[i] ELSE z[i - (n + 1)]
      <3>1. r = (a \o <<x>>) \o z
        BY <1>6 DEF a, z
      <3> QED
        BY <1>2, <1>4, <1>5, <2>2, <2>3, <3>1
    <2>5. ASSUME NEW i \in 1..(Len(l) + 1)
          PROVE  r[i] = IF i <= n THEN l[i] ELSE IF i = n + 1 THEN x ELSE l[i - 1]
      <3>1. CASE i <= n + 1
        <4>1. r[i] = IF i <= n THEN a[i] ELSE x
          BY <1>4, <2>3, <2>4, <3>1
        <4> QED
          BY <1>4, <2>2, <3>1, <4>1
      <3>2. CASE i > n + 1
        <4>1. i - (n + 1) \in 1..(Len(l) - n) /\ n + (i - (n + 1)) = i - 1
          BY <1>2, <1>4, <1>5, <3>2
        <4>2. r[i] = z[i - (n + 1)]
          BY <1>4, <2>4, <3>2
        <4> QED
          BY <1>4, <2>2, <3>2, <4>1, <4>2
      <3> QED
        BY <1>4, <3>1, <3>2
    <2> QED
      BY <2>4, <2>5
  <1>8. Orders(OrdersOf(r))
    <2> DEFINE q == OrdersOf(r)
    <2>1. /\ \A i \in DOMAIN l : l[i].order \in Int /\ l[i].order <= TLVTYPE_ORDER_INFINITE
          /\ \A i, j \in DOMAIN l : i < j => l[i].order <= l[j].order
      BY <1>2 DEF SortedTlvs, Orders
    <2>2. DOMAIN q = 1..(Len(l) + 1) /\ \A i \in DOMAIN q : q[i] = r[i].order
      BY <1>7 DEF OrdersOf
    <2>3. ASSUME NEW i \in 1..(Len(l) + 1)
          PROVE  /\ i <= n => i \in DOMAIN l /\ r[i] = l[i] /\ l[i].order <= x.order
                 /\ i = n + 1 => r[i] = x
                 /\ i > n + 1 => /\ i - 1 \in DOMAIN l /\ r[i] = l[i - 1]
                                 /\ ~(l[i - 1].order <= x.order)
      <3>1. CASE i <= n
        <4>1. i \in DOMAIN l /\ ~(i = n + 1) /\ ~(i > n + 1)
          BY <1>2, <1>4, <1>5, <3>1
        <4> QED
          BY <1>5, <1>7, <3>1, <4>1
      <3>2. CASE i = n + 1
        <4>1. ~(i <= n) /\ ~(i > n + 1)
          BY <1>4, <3>2
        <4> QED
          BY <1>7, <3>2, <4>1
      <3>3. CASE i > n + 1
        <4>1. i - 1 \in DOMAIN l /\ ~(i - 1 <= n) /\ ~(i <= n) /\ i # n + 1
          BY <1>2, <1>4, <3>3
        <4> QED
          BY <1>5, <1>7, <3>3, <4>1
      <3> QED
        BY <1>4, <3>1, <3>2, <3>3
    <2>4. ASSUME NEW i \in 1..(Len(l) + 1)
          PROVE  r[i].order \in Int /\ r[i].order <= TLVTYPE_ORDER_INFINITE
      BY <1>4, <2>1, <2>3
    <2>5. ASSUME NEW i \in 1..(Len(l) + 1), NEW j \in 1..(Len(l) + 1), i < j
          PROVE  r[i].order <= r[j].order
      <3>1. CASE i <= n /\ j <= n
        BY <2>1, <2>3, <2>5, <3>1
      <3>2. CASE i <= n /\ j = n + 1
        BY <2>3, <3>2
      <3>3. CASE i <= n /\ j > n + 1
        <4>1. l[i].order \in Int /\ l[j - 1].order \in Int
          BY <2>1, <2>3, <3>3
        <4> QED
          BY <2>3, <3>3, <4>1
      <3>4. CASE i = n + 1
        <4>1. j > n + 1
          BY <1>4, <2>5, <3>4
        <4>2. l[j - 1].order \in Int
          BY <2>1, <2>3, <4>1
        <4> QED
          BY <2>3, <3>4, <4>1, <4>2
      <3>5. CASE i > n + 1
        <4>1. j > n + 1 /\ i - 1 < j - 1
          BY <1>4, <2>5, <3>5
        <4> QED
          BY <2>1, <2>3, <3>5, <4>1
      <3> QED
        BY <1>4, <2>5, <3>1, <3>2, <3>3, <3>4, <3>5
    <2>6. Len(l) + 1 \in Nat
      BY <1>2
    <2> HIDE DEF q
    <2> QED
      BY <2>2, <2>4, <2>5, <2>6 DEF Orders, q
  <1>9. ASSUME NEW i \in DOMAIN r PROVE IsTlv(r[i])
    <2>1. CASE i <= n
      <3>1. i \in DOMAIN l /\ r[i] = l[i]
        BY <1>2, <1>4, <1>5, <1>7, <2>1
      <3> QED
        BY <3>1 DEF SortedTlvs
    <2>2. CASE i = n + 1
      <3>1. ~(i <= n)
        BY <1>4, <2>2
      <3> QED
        BY <1>7, <2>2, <3>1
    <2>3. CASE i > n + 1
      <3>1. i - 1 \in DOMAIN l /\ ~(i <= n) /\ i # n + 1
        BY <1>2, <1>4, <1>7, <2>3
      <3>2. r[i] = l[i - 1]
        BY <1>7, <3>1
      <3> QED
        BY <3>1, <3>2 DEF SortedTlvs
    <2> QED
      BY <1>2, <1>4, <1>7, <2>1, <2>2, <2>3
  <1> QED
    BY <1>1, <1>8, <1>9 DEF SortedTlvs, r

-----------------------------------------------------------------------------
(* The data of the reader.                                                  *)

(* What the theorem asks of the datagrams.  The type of a TLV and its       *)
(* extension are bytes, and the head and the tail of an address block are   *)
(* not longer than its addresses, which _parse_addrblock() does not check.  *)
WellFormed ==
  /\ rd.stage = "parse" /\ rd.limit <= rd.eob /\ rd.ptr < rd.limit =>
       LET next == parse_tlv(rd.buf, rd.ptr, rd.eob)
       IN next.err = PBB_OKAY => next.tlv.order <= TLVTYPE_ORDER_INFINITE
  /\ rd.stage = "blocks" /\ rd.ptr < rd.msg.end =>
       LET blk == parse_addrblock(rd.buf, rd.msg.addrlen, rd.ptr, rd.msg.end)
       IN blk.err = PBB_OKAY => blk.block.mid_len >= 0

(* A message's header, and its trees, which are sorted. *)
MessageData(m, buf) ==
  /\ {"end", "addrlen"} \subseteq DOMAIN m
  /\ m.end \in Nat /\ m.end <= Len(buf) /\ m.addrlen \in Nat
  /\ SortedTlvs(m.tlvs)
  /\ \A i \in DOMAIN m.blocks : SortedTlvs(m.blocks[i].tlvs)

Data(s) ==
  /\ SortedTlvs(s.ptlvs)
  /\ s.msg # NoMsg => MessageData(s.msg, s.buf)
  /\ s.stage = "parse" => s.limit \in Nat /\ SortedTlvs(s.tlvs)
  /\ s.stage # "idle" => InBuffer(s.buf, s.ptr, s.eob)

(* The context of the TLVs that are handed over in state s.                 *)
ConsumerOf(s) == IF s.msg = NoMsg THEN PacketConsumers[s.ci] ELSE MessageConsumers[s.ci]

TlvsOf(s) == CASE ConsumerOf(s).kind = "packet" -> s.ptlvs
               [] ConsumerOf(s).kind = "message" -> s.msg.tlvs
               [] ConsumerOf(s).kind = "address" -> s.msg.blocks[s.bi].tlvs

IndexOf(s) == IF ConsumerOf(s).kind = "address" THEN s.ai ELSE 0

(* The TLVs that apply to an index. *)
Applies(l, x) == {t \in DOMAIN l : x \notin l[t].drop /\ l[t].index1 <= x /\ x <= l[t].index2}

EntryOrders(c) == [e \in DOMAIN c.entries |-> EntryOrder(c.entries[e])]

(* The entries for one extended type. *)
Exact(c) == {e \in DOMAIN c.entries : c.entries[e].match_ext}

(* How far the merge is, and what the TLV callback has been told, q. *)
Delivering(s, q) ==
  /\ s.stage # "tlvs" => q = << >>
  /\ s.stage = "tlvs" =>
       LET c   == ConsumerOf(s)
           ord == OrdersOf(TlvsOf(s))
           V   == Applies(TlvsOf(s), IndexOf(s))
       IN /\ Merged(ord, V, EntryOrders(c), Exact(c), s.ti, s.ei, s.found)
          /\ "tlv" \in c.callbacks => Told(ord, V, EntryOrders(c), s.ti, q)

(* The lists that a packet begins with. *)
LEMMA EmptySorted == SortedTlvs(<< >>)
  <1>1. DOMAIN OrdersOf(<< >>) = 1..0
    BY DEF OrdersOf
  <1>2. Orders(OrdersOf(<< >>))
    BY <1>1 DEF Orders
  <1> QED
    BY <1>2, EmptyLists DEF SortedTlvs

(* Marking TLVs as dropped changes neither their order nor which others     *)
(* apply.                                                                   *)
LEMMA MarkedSorted ==
  ASSUME NEW l, SortedTlvs(l), NEW T, NEW x
  PROVE  /\ SortedTlvs(Marked(l, T, x))
         /\ DOMAIN Marked(l, T, x) = DOMAIN l
         /\ OrdersOf(Marked(l, T, x)) = OrdersOf(l)
         /\ Applies(Marked(l, T, x), x) = Applies(l, x) \ T
  <1> DEFINE m == Marked(l, T, x)
             S == {m[i] : i \in DOMAIN m}
  <1>1. DOMAIN m = DOMAIN l
    BY DEF Marked
  <1>2. ASSUME NEW i \in DOMAIN l
        PROVE  /\ IsTlv(m[i]) /\ m[i].order = l[i].order
               /\ m[i].index1 = l[i].index1 /\ m[i].index2 = l[i].index2
               /\ m[i].drop = IF i \in T THEN l[i].drop \cup {x} ELSE l[i].drop
    <2>1. IsTlv(l[i])
      BY DEF SortedTlvs
    <2>2. m[i] = IF i \in T THEN [l[i] EXCEPT !.drop = l[i].drop \cup {x}] ELSE l[i]
      BY DEF Marked
    <2>3. CASE i \in T
      BY <2>1, <2>2, <2>3 DEF IsTlv
    <2>4. CASE i \notin T
      BY <2>1, <2>2, <2>4 DEF IsTlv
    <2> QED
      BY <2>3, <2>4
  <1>3. OrdersOf(m) = OrdersOf(l)
    BY <1>1, <1>2 DEF OrdersOf
  <1>4. Applies(m, x) = Applies(l, x) \ T
    <2>1. ASSUME NEW t \in DOMAIN l
          PROVE  t \in Applies(m, x) <=> t \in Applies(l, x) /\ t \notin T
      BY <1>1, <1>2 DEF Applies
    <2> QED
      BY <1>1, <2>1 DEF Applies
  <1>5. IsSeq(m)
    <2>1. l \in Seq({l[i] : i \in DOMAIN l})
      BY DEF SortedTlvs, IsSeq
    <2>2. Len(l) \in Nat /\ DOMAIN l = 1..Len(l)
      BY <2>1
    <2>3. m \in [1..Len(l) -> S]
      BY <1>1, <2>2 DEF Marked
    <2> QED
      BY <2>2, <2>3, SeqDef DEF IsSeq
  <1>6. TlvList(m)
    BY <1>1, <1>2 DEF TlvList, IsTlv
  <1> QED
    BY <1>1, <1>2, <1>3, <1>4, <1>5, <1>6 DEF SortedTlvs

(* What a step leaves alone. *)
Fixed(s, u) ==
  u.ptlvs = s.ptlvs /\ u.msg = s.msg /\ u.buf = s.buf /\ u.ptr = s.ptr /\ u.eob = s.eob

LEMMA FixedData ==
  ASSUME NEW s, NEW u, Data(s), s.stage # "idle", u.stage # "parse", Fixed(s, u)
  PROVE  Data(u)
  BY DEF Data, Fixed

(* The steps that only move on. *)
LEMMA StepsFixed ==
  ASSUME DOMAIN rd = Fields,
         PacketConsumersDone \/ MessagesDone \/ SkipConsumer \/ EndOrder \/ MessageRead
           \/ StartAddressConsumer \/ ConsumersDone \/ EndMessageDone \/ SkipAddress
           \/ EndPacketConsumer \/ EndMessageConsumer
  PROVE  rd.stage # "idle" /\ rd'.stage \notin {"idle", "parse", "tlvs"} /\ Fixed(rd, rd')
  <1>1. CASE PacketConsumersDone
    BY <1>1 DEF PacketConsumersDone, Fixed, Fields
  <1>2. CASE MessagesDone
    BY <1>2 DEF MessagesDone, Fixed, Fields
  <1>3. CASE SkipConsumer
    BY <1>3 DEF SkipConsumer, Fixed, Fields
  <1>4. CASE EndOrder
    BY <1>4 DEF EndOrder, Fixed, Fields
  <1>5. CASE MessageRead
    BY <1>5 DEF MessageRead, Fixed, Fields
  <1>6. CASE StartAddressConsumer
    BY <1>6 DEF StartAddressConsumer, Fixed, Fields
  <1>7. CASE ConsumersDone
    BY <1>7 DEF ConsumersDone, LeaveConsumers, Fixed, Fields
  <1>8. CASE EndMessageDone
    BY <1>8 DEF EndMessageDone, Fixed, Fields
  <1>9. CASE SkipAddress
    BY <1>9 DEF SkipAddress, Fixed, Fields
  <1>10. CASE EndPacketConsumer
    BY <1>10 DEF EndPacketConsumer, Fixed, Fields
  <1>11. CASE EndMessageConsumer
    <2>1. PICK r : rd' = [rd EXCEPT !.down = @ - 1, !.drops = Drops(r),
                                    !.result = IF r > @ THEN r ELSE @]
      BY <1>11 DEF EndMessageConsumer
    <2>2. rd.stage = "endmsg"
      BY <1>11 DEF EndMessageConsumer
    <2> QED
      BY <2>1, <2>2 DEF Fixed, Fields
  <1> QED
    BY <1>1, <1>2, <1>3, <1>4, <1>5, <1>6, <1>7, <1>8, <1>9, <1>10, <1>11

(* A consumer is done with its context. *)
LEMMA AfterFixed ==
  ASSUME NEW c, c.kind \in {"packet", "message", "address"}, NEW s, DOMAIN s = Fields
  PROVE  /\ Fixed(s, AfterConsumer(c, s))
         /\ AfterConsumer(c, s).stage \notin {"idle", "parse", "tlvs"}
  <1>1. CASE c.kind = "packet"
    BY <1>1 DEF AfterConsumer, Fixed, Fields
  <1>2. CASE c.kind = "message"
    BY <1>2 DEF AfterConsumer, LeaveConsumers, Fixed, Fields
  <1>3. CASE c.kind = "address"
    BY <1>3 DEF AfterConsumer, Fixed, Fields
  <1> QED
    BY <1>1, <1>2, <1>3

(* Outside the merge there is nothing to deliver. *)
LEMMA NotDelivering ==
  ASSUME History, rd'.stage # "tlvs"
  PROVE  Delivering(rd', seen')
  BY DEF History, Delivering

-----------------------------------------------------------------------------
(* The steps of parsing keep the trees sorted and the position in the       *)
(* datagram.                                                                *)

LEMMA IdleData ==
  ASSUME NEW u, u.stage = "idle", u.ptlvs = << >>, u.msg = NoMsg
  PROVE  Data(u)
  BY EmptySorted DEF Data

(* A TLV block begins. *)
LEMMA BlockBeginsData ==
  ASSUME NEW s, DOMAIN s = Fields, NEW ptr \in Nat,
         SortedTlvs(s.ptlvs), s.msg # NoMsg => MessageData(s.msg, s.buf),
         InBuffer(s.buf, ptr, s.eob)
  PROVE  Data(parse_tlvblock(s, ptr)) /\ parse_tlvblock(s, ptr).stage = "parse"
  <1> DEFINE u == parse_tlvblock(s, ptr)
  <1>1. /\ u.stage = "parse" /\ u.tlvs = << >> /\ u.ptr = ptr + 2 /\ u.buf = s.buf
        /\ u.eob = s.eob /\ u.ptlvs = s.ptlvs /\ u.msg = s.msg
        /\ u.limit = ptr + 2 + pbb_get_u16(s.buf, ptr, s.eob)
    BY DEF parse_tlvblock, Fields
  <1>2. InBuffer(u.buf, u.ptr, u.eob) /\ u.limit \in Nat
    <2>1. pbb_get_u16(s.buf, ptr, s.eob) \in Nat
      BY ReadNat
    <2> QED
      BY <1>1, <2>1 DEF InBuffer
  <1> HIDE DEF u
  <1> QED
    BY <1>1, <1>2, EmptySorted DEF Data, u

(* An error of parsing. *)
LEMMA ParseErrorData ==
  ASSUME Data(rd), DOMAIN rd = Fields, rd.stage \in {"parse", "blocks"}, NEW err,
         rd' = ParseError(rd, err)
  PROVE  Data(rd') /\ rd'.stage # "tlvs"
  <1>1. CASE rd.msg = NoMsg
    <2>1. rd' = [Idle EXCEPT !.result = err, !.held = rd.held - Len(rd.tlvs)]
      BY <1>1 DEF ParseError
    <2>2. rd'.stage = "idle" /\ rd'.ptlvs = << >> /\ rd'.msg = NoMsg
      BY <2>1 DEF Idle
    <2> QED
      BY <2>2, IdleData
  <1>2. CASE rd.msg # NoMsg
    <2>1. /\ rd'.stage = "message" /\ rd'.ptlvs = rd.ptlvs /\ rd'.msg = NoMsg
          /\ rd'.buf = rd.buf /\ rd'.ptr = rd.ptr /\ rd'.eob = rd.eob
      BY <1>2 DEF ParseError, Fields
    <2> QED
      BY <2>1 DEF Data
  <1> QED
    BY <1>1, <1>2

LEMMA ArriveData ==
  ASSUME NEW b \in Datagrams, NEW f, handle_packet(b, f)
  PROVE  Data(rd') /\ rd'.stage # "tlvs"
  <1> DEFINE flags == pbb_get_u8(b, 0, Len(b)) % 16
             body  == 1 + Takes(Flag(flags, PKT_SEQNO), 2)
             s     == [Idle EXCEPT !.stage = "packet", !.buf = b, !.fail = f, !.ptr = body,
                               !.eob = Len(b), !.has_tlv = Flag(flags, PKT_TLV), !.ci = 1]
  <1>1. CASE \E err : rd' = [Idle EXCEPT !.result = err]
    <2>1. rd'.stage = "idle" /\ rd'.ptlvs = << >> /\ rd'.msg = NoMsg
      BY <1>1 DEF Idle
    <2> QED
      BY <2>1, IdleData
  <1>2. CASE rd' = s \/ rd' = parse_tlvblock(s, body)
    <2>1. /\ DOMAIN s = Fields /\ s.stage = "packet" /\ s.ptlvs = << >> /\ s.msg = NoMsg
          /\ s.buf = b /\ s.ptr = body /\ s.eob = Len(b)
      BY DEF Idle, Fields
    <2>2. body \in Nat
      <3>1. Takes(Flag(flags, PKT_SEQNO), 2) \in Nat
        BY TakesNat
      <3> QED
        BY <3>1
    <2> HIDE DEF s, body
    <2>3. InBuffer(b, body, Len(b))
      <3>1. b \in Seq(Nat)
        BY DatagramsAssumption
      <3> QED
        BY <2>2, <3>1 DEF InBuffer
    <2>4. Data(s)
      BY <2>1, <2>3, EmptySorted DEF Data
    <2>5. Data(parse_tlvblock(s, body)) /\ parse_tlvblock(s, body).stage = "parse"
      BY <2>1, <2>2, <2>3, EmptySorted, BlockBeginsData
    <2> QED
      BY <1>2, <2>1, <2>4, <2>5
  <1> QED
    BY <1>1, <1>2 DEF handle_packet

LEMMA ParseTlvData ==
  ASSUME Data(rd), DOMAIN rd = Fields, WellFormed, ParseTlv
  PROVE  Data(rd') /\ rd'.stage # "tlvs"
  <1> DEFINE next == parse_tlv(rd.buf, rd.ptr, rd.eob)
  <1>1. CASE \E err : rd' = ParseError(rd, err)
    BY <1>1, ParseErrorData DEF ParseTlv
  <1>2. CASE ~\E err : rd' = ParseError(rd, err)
    <2>1. /\ next.err = PBB_OKAY /\ rd.stage = "parse"
          /\ rd.limit <= rd.eob /\ rd.ptr < rd.limit
          /\ rd' = [rd EXCEPT !.ptr = next.ptr, !.tlvs = InsertTlv(@, next.tlv),
                              !.used = @ + 1, !.held = @ + 1]
      <3>1. /\ next.err = PBB_OKAY /\ rd.stage = "parse" /\ ~(rd.limit > rd.eob)
            /\ rd.ptr < rd.limit
            /\ rd' = [rd EXCEPT !.ptr = next.ptr, !.tlvs = InsertTlv(@, next.tlv),
                                !.used = @ + 1, !.held = @ + 1]
        BY <1>2 DEF ParseTlv
      <3> HIDE DEF next
      <3> QED
        BY <3>1 DEF Data, InBuffer
    <2>2. InBuffer(rd.buf, rd.ptr, rd.eob) /\ SortedTlvs(rd.tlvs)
      BY <2>1 DEF Data
    <2>3. next.tlv.order <= TLVTYPE_ORDER_INFINITE
      BY <2>1 DEF WellFormed
    <2>4. IsTlv(next.tlv) /\ next.tlv.order \in Int /\ next.ptr \in Nat
      BY <2>1, <2>2, TlvRead DEF IsTlv
    <2> HIDE DEF next
    <2>5. SortedTlvs(InsertTlv(rd.tlvs, next.tlv))
      BY <2>2, <2>3, <2>4, InsertedSorted
    <2>6. /\ rd'.stage = "parse" /\ rd'.ptlvs = rd.ptlvs /\ rd'.msg = rd.msg
          /\ rd'.limit = rd.limit /\ rd'.buf = rd.buf /\ rd'.eob = rd.eob /\ rd'.ptr = next.ptr
          /\ rd'.tlvs = InsertTlv(rd.tlvs, next.tlv)
      BY <2>1 DEF Fields
    <2> QED
      BY <2>1, <2>2, <2>4, <2>5, <2>6 DEF Data, InBuffer
  <1> QED
    BY <1>1, <1>2

LEMMA TlvBlockParsedData ==
  ASSUME Inv(rd, gone), Data(rd), TlvBlockParsed
  PROVE  Data(rd') /\ rd'.stage # "tlvs"
  <1> DEFINE s == [rd EXCEPT !.tlvs = << >>, !.blk = << >>]
             new == [rd.blk[1] EXCEPT !.tlvs = rd.tlvs]
  <1>0. DOMAIN rd = Fields /\ rd.stage = "parse" /\ SortedTlvs(rd.tlvs)
    BY DEF Inv, Shape, Data, TlvBlockParsed
  <1>1. /\ DOMAIN s = Fields /\ s.msg = rd.msg /\ s.ptlvs = rd.ptlvs /\ s.buf = rd.buf
        /\ s.ptr = rd.ptr /\ s.eob = rd.eob
    BY <1>0 DEF Fields
  <1>2. rd' = IF rd.msg = NoMsg THEN [s EXCEPT !.stage = "packet", !.ptlvs = rd.tlvs]
              ELSE IF rd.blk = << >>
              THEN [s EXCEPT !.stage = "blocks", !.msg.tlvs = rd.tlvs]
              ELSE [s EXCEPT !.stage = "blocks", !.msg.blocks = Append(@, new)]
    BY DEF TlvBlockParsed
  <1> HIDE DEF s
  <1>3. CASE rd.msg = NoMsg
    <2>1. /\ rd'.stage = "packet" /\ rd'.ptlvs = rd.tlvs /\ rd'.msg = NoMsg
          /\ rd'.buf = rd.buf /\ rd'.ptr = rd.ptr /\ rd'.eob = rd.eob
      BY <1>1, <1>2, <1>3 DEF Fields
    <2> QED
      BY <1>0, <2>1 DEF Data
  <1>4. CASE rd.msg # NoMsg
    <2> DEFINE m == rd.msg
    <2>1. IsMessage(m) /\ MessageData(m, rd.buf)
      BY <1>4 DEF Inv, Shape, Data
    <2>2. CASE rd.blk = << >>
      <3> DEFINE n == [m EXCEPT !.tlvs = rd.tlvs]
      <3>1. /\ rd'.stage = "blocks" /\ rd'.ptlvs = rd.ptlvs /\ rd'.msg = n
            /\ rd'.buf = rd.buf /\ rd'.ptr = rd.ptr /\ rd'.eob = rd.eob
        BY <1>1, <1>2, <1>4, <2>2 DEF Fields
      <3>2. /\ DOMAIN n = DOMAIN m /\ n.tlvs = rd.tlvs /\ n.blocks = m.blocks
            /\ n.end = m.end /\ n.addrlen = m.addrlen
        BY <2>1 DEF IsMessage, MessageData
      <3> HIDE DEF n
      <3>3. MessageData(n, rd.buf)
        BY <1>0, <2>1, <3>2 DEF MessageData
      <3> QED
        BY <1>0, <3>1, <3>3 DEF Data
    <2>3. CASE rd.blk # << >>
      <3> DEFINE n == [m EXCEPT !.blocks = Append(m.blocks, new)]
      <3>1. /\ rd'.stage = "blocks" /\ rd'.ptlvs = rd.ptlvs /\ rd'.msg = n
            /\ rd'.buf = rd.buf /\ rd'.ptr = rd.ptr /\ rd'.eob = rd.eob
        BY <1>1, <1>2, <1>4, <2>3 DEF Fields
      <3>2. /\ DOMAIN n = DOMAIN m /\ n.tlvs = m.tlvs /\ n.blocks = Append(m.blocks, new)
            /\ n.end = m.end /\ n.addrlen = m.addrlen
        BY <2>1 DEF IsMessage, MessageData
      <3>3. new.tlvs = rd.tlvs
        BY <1>0, <2>3 DEF Inv, Shape, IsBlock
      <3> HIDE DEF n, new
      <3>4. \A i \in DOMAIN n.blocks : SortedTlvs(n.blocks[i].tlvs)
        <4>1. m.blocks \in Seq({m.blocks[i] : i \in DOMAIN m.blocks})
          BY <2>1 DEF IsMessage, BlockList, IsSeq
        <4> DEFINE bs == m.blocks
        <4>2. /\ Len(bs) \in Nat /\ DOMAIN bs = 1..Len(bs)
              /\ DOMAIN Append(bs, new) = 1..(Len(bs) + 1)
              /\ Append(bs, new)[Len(bs) + 1] = new
              /\ \A i \in 1..Len(bs) : Append(bs, new)[i] = bs[i]
          BY <4>1
        <4>3. ASSUME NEW i \in DOMAIN n.blocks PROVE SortedTlvs(n.blocks[i].tlvs)
          <5>1. i \in 1..Len(bs) \/ i = Len(bs) + 1
            BY <3>2, <4>2
          <5>2. CASE i \in 1..Len(bs)
            BY <2>1, <3>2, <4>2, <5>2 DEF MessageData
          <5>3. CASE i = Len(bs) + 1
            BY <1>0, <3>2, <3>3, <4>2, <5>3
          <5> QED
            BY <5>1, <5>2, <5>3
        <4> QED
          BY <4>3
      <3>5. MessageData(n, rd.buf)
        BY <2>1, <3>2, <3>4 DEF MessageData
      <3> QED
        BY <1>0, <3>1, <3>5 DEF Data
    <2> QED
      BY <2>2, <2>3
  <1> QED
    BY <1>3, <1>4

LEMMA ReadMessageData ==
  ASSUME Inv(rd, gone), Data(rd), ReadMessage
  PROVE  Data(rd') /\ rd'.stage # "tlvs"
  <1> DEFINE m == parse_msgheader(rd.buf, rd.ptr)
             s == [rd EXCEPT !.msg = m.msg, !.eob = m.msg.end]
  <1>0. DOMAIN rd = Fields /\ rd.stage = "message" /\ InBuffer(rd.buf, rd.ptr, rd.eob)
    BY DEF Inv, Shape, Data, ReadMessage
  <1>1. CASE m.err # PBB_OKAY
    <2>1. rd' = [rd EXCEPT !.result = m.err]
      BY <1>1 DEF ReadMessage
    <2>2. rd'.stage = "message" /\ Fixed(rd, rd')
      BY <1>0, <2>1 DEF Fixed, Fields
    <2> QED
      BY <1>0, <2>2, FixedData
  <1>2. CASE m.err = PBB_OKAY
    <2>1. rd' = parse_tlvblock(s, m.body)
      BY <1>2 DEF ReadMessage
    <2>2. InBuffer(rd.buf, rd.ptr, Len(rd.buf))
      BY <1>0 DEF InBuffer
    <2>3. /\ m.body \in Nat /\ m.msg.end \in Nat /\ m.msg.end <= Len(rd.buf)
          /\ m.msg.addrlen \in Nat /\ m.msg.tlvs = << >> /\ m.msg.blocks = << >>
          /\ {"end", "addrlen"} \subseteq DOMAIN m.msg
      BY <1>2, <2>2, HeaderRead
    <2> HIDE DEF m
    <2>4. MessageData(m.msg, rd.buf)
      BY <2>3, EmptySorted DEF MessageData
    <2>5. /\ DOMAIN s = Fields /\ s.ptlvs = rd.ptlvs /\ s.msg = m.msg /\ s.buf = rd.buf
          /\ s.eob = m.msg.end
      BY <1>0 DEF Fields
    <2>6. InBuffer(s.buf, m.body, s.eob) /\ SortedTlvs(s.ptlvs)
      BY <1>0, <2>3, <2>5 DEF InBuffer, Data
    <2> HIDE DEF s
    <2>7. Data(parse_tlvblock(s, m.body)) /\ parse_tlvblock(s, m.body).stage = "parse"
      BY <2>3, <2>4, <2>5, <2>6, BlockBeginsData
    <2> QED
      BY <2>1, <2>7
  <1> QED
    BY <1>1, <1>2

LEMMA ReadAddressBlockData ==
  ASSUME Inv(rd, gone), Data(rd), WellFormed, ReadAddressBlock
  PROVE  Data(rd') /\ rd'.stage # "tlvs"
  <1> DEFINE blk == parse_addrblock(rd.buf, rd.msg.addrlen, rd.ptr, rd.msg.end)
             s == [rd EXCEPT !.blk = <<blk.block>>, !.used = @ + 1, !.held = @ + 1]
  <1>0. /\ DOMAIN rd = Fields /\ rd.stage = "blocks" /\ InBuffer(rd.buf, rd.ptr, rd.eob)
        /\ rd.msg # NoMsg /\ MessageData(rd.msg, rd.buf) /\ rd.ptr < rd.msg.end
    BY DEF Inv, Shape, Position, Data, ReadAddressBlock
  <1>1. CASE \E err : rd' = ParseError(rd, err)
    BY <1>0, <1>1, ParseErrorData
  <1>2. CASE ~\E err : rd' = ParseError(rd, err)
    <2>1. rd' = parse_tlvblock(s, blk.ptr) /\ blk.err = PBB_OKAY
      BY <1>2 DEF ReadAddressBlock
    <2>2. blk.block.mid_len >= 0
      BY <1>0, <2>1 DEF WellFormed
    <2>3. InBuffer(rd.buf, rd.ptr, rd.msg.end) /\ rd.msg.addrlen \in Nat
      BY <1>0 DEF InBuffer, MessageData
    <2>4. blk.ptr \in Nat
      BY <2>1, <2>2, <2>3, BlockRead
    <2> HIDE DEF blk
    <2>5. DOMAIN s = Fields /\ s.ptlvs = rd.ptlvs /\ s.msg = rd.msg /\ s.buf = rd.buf
          /\ s.eob = rd.eob
      BY <1>0 DEF Fields
    <2>6. InBuffer(s.buf, blk.ptr, s.eob) /\ SortedTlvs(s.ptlvs)
      BY <1>0, <2>4, <2>5 DEF InBuffer, Data
    <2> HIDE DEF s
    <2>7. Data(parse_tlvblock(s, blk.ptr)) /\ parse_tlvblock(s, blk.ptr).stage = "parse"
      BY <1>0, <2>4, <2>5, <2>6, BlockBeginsData
    <2> QED
      BY <2>1, <2>7
  <1> QED
    BY <1>1, <1>2

LEMMA DoneData ==
  ASSUME Inv(rd, gone), Data(rd), PacketDone \/ MessageDone
  PROVE  Data(rd') /\ rd'.stage # "tlvs"
  <1>1. CASE PacketDone
    <2>1. rd'.stage = "idle" /\ rd'.ptlvs = << >> /\ rd'.msg = NoMsg
      BY <1>1 DEF PacketDone, Idle
    <2> QED
      BY <2>1, IdleData
  <1>2. CASE MessageDone
    <2>1. /\ rd.stage = "cleanup" /\ rd'.stage = "message" /\ rd'.msg = NoMsg
          /\ rd'.ptr = rd.msg.end /\ rd'.ptlvs = rd.ptlvs /\ rd'.buf = rd.buf
          /\ rd'.eob = rd.eob
      BY <1>2 DEF MessageDone, Inv, Shape, Fields
    <2>2. rd.msg # NoMsg
      BY <2>1 DEF Inv, Position
    <2>3. MessageData(rd.msg, rd.buf) /\ InBuffer(rd.buf, rd.ptr, rd.eob)
      BY <2>1, <2>2 DEF Data
    <2>4. InBuffer(rd'.buf, rd'.ptr, rd'.eob)
      BY <2>1, <2>3 DEF InBuffer, MessageData
    <2> QED
      BY <2>1, <2>4 DEF Data
  <1> QED
    BY <1>1, <1>2

-----------------------------------------------------------------------------
(* The merge begins.                                                        *)

LEMMA ContextSorted ==
  ASSUME NEW s, Data(s), Context(s, ConsumerOf(s))
  PROVE  SortedTlvs(TlvsOf(s))
  <1> DEFINE c == ConsumerOf(s)
  <1>0. /\ c.kind \in {"packet", "message", "address"}
        /\ c.kind = "packet" <=> s.msg = NoMsg
        /\ c.kind = "address" => s.bi \in DOMAIN s.msg.blocks
    BY DEF Context
  <1>1. /\ c.kind = "packet" => TlvsOf(s) = s.ptlvs
        /\ c.kind = "message" => TlvsOf(s) = s.msg.tlvs
        /\ c.kind = "address" => TlvsOf(s) = s.msg.blocks[s.bi].tlvs
    BY DEF TlvsOf
  <1> HIDE DEF c
  <1>2. CASE c.kind = "packet"
    BY <1>1, <1>2 DEF Data
  <1>3. CASE c.kind # "packet"
    BY <1>0, <1>1, <1>3 DEF Data, MessageData
  <1> QED
    BY <1>2, <1>3

(* The orders of the entries of a consumer. *)
LEMMA EntriesSorted ==
  ASSUME NEW c, SortedEntries(c.entries)
  PROVE  /\ Orders(EntryOrders(c)) /\ DOMAIN EntryOrders(c) = DOMAIN c.entries
         /\ \A e \in DOMAIN c.entries : EntryOrders(c)[e] = EntryOrder(c.entries[e])
         /\ \A i, j \in DOMAIN EntryOrders(c) : i < j => EntryOrders(c)[i] < EntryOrders(c)[j]
         /\ DOMAIN c.entries = 1..Len(c.entries) /\ Len(c.entries) \in Nat
  <1> DEFINE o == EntryOrders(c)
  <1>1. /\ DOMAIN o = DOMAIN c.entries
        /\ \A e \in DOMAIN c.entries : o[e] = EntryOrder(c.entries[e])
    BY DEF EntryOrders
  <1>2. /\ Len(c.entries) \in Nat /\ DOMAIN c.entries = 1..Len(c.entries)
        /\ \A i \in DOMAIN c.entries : EntryOrder(c.entries[i]) \in 0..TLVTYPE_ORDER_INFINITE
        /\ \A i, j \in DOMAIN c.entries :
             i < j => EntryOrder(c.entries[i]) < EntryOrder(c.entries[j])
    BY DEF SortedEntries
  <1> HIDE DEF o
  <1>3. TLVTYPE_ORDER_INFINITE \in Int
    BY DatagramsAssumption DEF TLVTYPE_ORDER_INFINITE
  <1>4. \A i \in DOMAIN o : o[i] \in Int /\ o[i] <= TLVTYPE_ORDER_INFINITE
    BY <1>1, <1>2, <1>3
  <1>5. \A i, j \in DOMAIN o : i < j => o[i] < o[j] /\ o[i] <= o[j]
    BY <1>1, <1>2, <1>4
  <1>6. Orders(o)
    BY <1>1, <1>2, <1>4, <1>5 DEF Orders
  <1> QED
    BY <1>1, <1>2, <1>5, <1>6 DEF o

LEMMA MergeBegins ==
  ASSUME NEW u, NEW c, c = ConsumerOf(u), u.stage = "tlvs", u.ti = 1, u.ei = 1,
         u.found = [e \in DOMAIN c.entries |-> [tlv |-> 0, dup |-> FALSE]],
         SortedTlvs(TlvsOf(u)), SortedEntries(c.entries)
  PROVE  Delivering(u, << >>)
  <1> DEFINE ord == OrdersOf(TlvsOf(u))
             ent == EntryOrders(c)
             V   == Applies(TlvsOf(u), IndexOf(u))
             X   == Exact(c)
  <1>1. Orders(ord) /\ DOMAIN ord = DOMAIN TlvsOf(u)
    BY DEF SortedTlvs, OrdersOf
  <1>2. Orders(ent) /\ DOMAIN ent = DOMAIN c.entries
    BY EntriesSorted
  <1>3. V \subseteq DOMAIN ord /\ X \subseteq DOMAIN ent
    BY <1>1, <1>2 DEF Applies, Exact
  <1> HIDE DEF ord, ent, V, X
  <1>4. \A t \in DOMAIN ord : ~(t < 1)
    BY <1>1 DEF Orders
  <1>5. \A e \in DOMAIN ent : ~(e < 1)
    BY <1>2 DEF Orders
  <1>6. \A e \in DOMAIN ent : u.found[e] = [tlv |-> 0, dup |-> FALSE]
    BY <1>2
  <1>7. ASSUME NEW e \in X PROVE Knows(u.found[e], Matched(ord, V, 1, ent[e]))
    <2>1. Matched(ord, V, 1, ent[e]) = {}
      BY <1>3, <1>4 DEF Matched
    <2> DEFINE f == u.found[e]
    <2>2. f.tlv = 0 /\ f.dup = FALSE
      <3>1. f = [tlv |-> 0, dup |-> FALSE]
        BY <1>3, <1>6
      <3> HIDE DEF f
      <3> QED
        BY <3>1
    <2> QED
      BY <2>1, <2>2 DEF Knows
  <1>8. Merged(ord, V, ent, X, u.ti, u.ei, u.found)
    <2>1. DOMAIN u.found = DOMAIN ent
      BY <1>2
    <2> DEFINE none == [tlv |-> 0, dup |-> FALSE]
    <2>2. DOMAIN none = {"tlv", "dup"}
      OBVIOUS
    <2>3. \A e \in DOMAIN ent : u.found[e] = none
      BY <1>6
    <2> HIDE DEF none
    <2>4. \A e \in DOMAIN ent : DOMAIN u.found[e] = {"tlv", "dup"}
      BY <2>2, <2>3
    <2>5. \A t \in DOMAIN ord, e \in DOMAIN ent :
            /\ t < u.ti /\ e >= u.ei => ord[t] <= ent[e]
            /\ t >= u.ti /\ e < u.ei => ent[e] < ord[t]
      BY <1>4, <1>5
    <2>6. u.ti \in Nat \ {0} /\ u.ei \in Nat \ {0}
      OBVIOUS
    <2>7. \A e \in X : Knows(u.found[e], Matched(ord, V, u.ti, ent[e]))
      BY <1>7
    <2> QED
      BY <2>1, <2>4, <2>5, <2>6, <2>7 DEF Merged
  <1>9. Told(ord, V, ent, u.ti, << >>)
    BY <1>3, <1>4 DEF Told
  <1> QED
    BY <1>8, <1>9 DEF Delivering, ord, ent, V, X

(* The start callback of a context. *)
LEMMA StartDelivers ==
  ASSUME Data(rd), Delivering(rd, seen), History,
         rd.stage \in {"packet", "consumer", "address"},
         NEW c, c = ConsumerOf(rd), SortedEntries(c.entries), Context(rd, c),
         NEW s, DOMAIN s = Fields, Fixed(rd, s), s.ci = rd.ci, s.bi = rd.bi,
         NEW r, Called(c, "start", r, {}),
         rd' = AfterConsumer(c, s) \/ rd' = Merge(c, s)
  PROVE  Data(rd') /\ Delivering(rd', seen')
  <1>0. c.kind \in {"packet", "message", "address"}
    BY DEF Context
  <1>1. CASE rd' = AfterConsumer(c, s)
    <2>1. Fixed(s, rd') /\ rd'.stage \notin {"idle", "parse", "tlvs"}
      BY <1>0, <1>1, AfterFixed
    <2>2. Fixed(rd, rd')
      BY <2>1 DEF Fixed
    <2> QED
      BY <2>1, <2>2, FixedData, NotDelivering
  <1>2. CASE rd' = Merge(c, s)
    <2>1. /\ rd'.stage = "tlvs" /\ rd'.ti = 1 /\ rd'.ei = 1
          /\ rd'.found = [e \in DOMAIN c.entries |-> [tlv |-> 0, dup |-> FALSE]]
          /\ Fixed(s, rd') /\ rd'.ci = s.ci /\ rd'.bi = s.bi
      BY <1>2 DEF Merge, Fixed, Fields
    <2>2. Fixed(rd, rd') /\ rd'.ci = rd.ci /\ rd'.bi = rd.bi
      BY <2>1 DEF Fixed
    <2>3. Data(rd')
      BY <2>1, <2>2, FixedData
    <2>4. ConsumerOf(rd') = c
      BY <2>2 DEF ConsumerOf, Fixed
    <2>5. Context(rd', c)
      BY <2>2 DEF Context, Fixed
    <2>6. SortedTlvs(TlvsOf(rd'))
      BY <2>3, <2>4, <2>5, ContextSorted
    <2>7. call'.cb # "tlv"
      BY DEF Called, NoCall
    <2>8. seen' = << >>
      BY <2>1, <2>7 DEF History, Delivering
    <2>9. Delivering(rd', << >>)
      BY <2>1, <2>4, <2>6, MergeBegins
    <2> QED
      BY <2>3, <2>8, <2>9
  <1> QED
    BY <1>1, <1>2

LEMMA StartsDeliver ==
  ASSUME Inv(rd, gone), Data(rd), Delivering(rd, seen), History,
         StartPacketConsumer \/ StartMessageConsumer \/ StartAddress
  PROVE  Data(rd') /\ Delivering(rd', seen')
  <1>0. DOMAIN rd = Fields
    BY DEF Inv, Shape
  <1>1. CASE StartPacketConsumer
    <2> DEFINE c == PacketConsumers[rd.ci]
               S(r) == [rd EXCEPT !.result = r, !.drops = Drops(r)]
    <2>1. PICK r \in Results(c, "start") :
            /\ Called(c, "start", r, {})
            /\ rd' = AfterConsumer(c, S(r)) \/ rd' = Merge(c, S(r))
      BY <1>1 DEF StartPacketConsumer
    <2>2. rd.stage = "packet" /\ rd.ci \in 1..Len(PacketConsumers) /\ rd.msg = NoMsg
      <3>1. rd.stage = "packet" /\ rd.ci <= Len(PacketConsumers)
        BY <1>1 DEF StartPacketConsumer
      <3>2. rd.ci \in Nat \ {0}
        BY <3>1 DEF Inv, Position
      <3>3. Len(PacketConsumers) \in Nat
        BY ConsumersAssumption
      <3> QED
        BY <3>1, <3>2, <3>3 DEF Inv, Position
    <2>3. c.kind = "packet" /\ SortedEntries(c.entries) /\ c = ConsumerOf(rd)
      BY <2>2, ConsumersAssumption DEF Installed, ConsumerOf
    <2>4. Context(rd, c)
      BY <2>2, <2>3 DEF Context, Inv, Position
    <2> HIDE DEF c
    <2>5. DOMAIN S(r) = Fields /\ Fixed(rd, S(r)) /\ S(r).ci = rd.ci /\ S(r).bi = rd.bi
      BY <1>0 DEF Fixed, Fields
    <2> HIDE DEF S
    <2> QED
      BY <2>1, <2>2, <2>3, <2>4, <2>5, StartDelivers
  <1>2. CASE StartMessageConsumer
    <2> DEFINE c == MessageConsumers[rd.ci]
               S(r) == [rd EXCEPT !.result = r, !.drops = Drops(r), !.last = rd.ci,
                                  !.first = IF @ = 0 THEN rd.ci ELSE @]
    <2>1. PICK r \in Results(c, "start") :
            /\ Called(c, "start", r, {})
            /\ rd' = AfterConsumer(c, S(r)) \/ rd' = Merge(c, S(r))
      BY <1>2 DEF StartMessageConsumer
    <2>2. /\ rd.stage = "consumer" /\ rd.ci \in 1..Len(MessageConsumers) /\ rd.msg # NoMsg
          /\ c.kind = "message"
      <3>1. rd.stage = "consumer" /\ rd.ci <= Len(MessageConsumers) /\ c.kind = "message"
        BY <1>2 DEF StartMessageConsumer
      <3>2. rd.ci \in Nat \ {0}
        BY <3>1 DEF Inv, Position
      <3>3. Len(MessageConsumers) \in Nat
        BY ConsumersAssumption
      <3> QED
        BY <3>1, <3>2, <3>3 DEF Inv, Position
    <2>3. SortedEntries(c.entries) /\ c = ConsumerOf(rd)
      BY <2>2, ConsumersAssumption DEF Installed, ConsumerOf
    <2>4. Context(rd, c)
      BY <2>2, <2>3 DEF Context, Inv, Position
    <2> HIDE DEF c
    <2>5. DOMAIN S(r) = Fields /\ Fixed(rd, S(r)) /\ S(r).ci = rd.ci /\ S(r).bi = rd.bi
      BY <1>0 DEF Fixed, Fields
    <2> HIDE DEF S
    <2> QED
      BY <2>1, <2>2, <2>3, <2>4, <2>5, StartDelivers
  <1>3. CASE StartAddress
    <2> DEFINE c == MessageConsumers[rd.ci]
               S(r) == [rd EXCEPT !.result = r, !.drops = Drops(r)]
    <2>1. PICK r \in Results(c, "start") :
            /\ Called(c, "start", r, {})
            /\ rd' = AfterConsumer(c, S(r)) \/ rd' = Merge(c, S(r))
      BY <1>3 DEF StartAddress
    <2>2. /\ rd.stage = "address" /\ rd.ci \in 1..Len(MessageConsumers) /\ rd.msg # NoMsg
          /\ c.kind = "address" /\ rd.bi > 0 /\ rd.bi <= Len(rd.msg.blocks)
      <3>1. rd.stage = "address" /\ rd.bi <= Len(rd.msg.blocks)
        BY <1>3 DEF StartAddress
      <3>2. rd.ci \in Nat \ {0}
        BY <3>1 DEF Inv, Position
      <3>3. Len(MessageConsumers) \in Nat
        BY ConsumersAssumption
      <3> QED
        BY <3>1, <3>2, <3>3 DEF Inv, Position
    <2>3. SortedEntries(c.entries) /\ c = ConsumerOf(rd)
      BY <2>2, ConsumersAssumption DEF Installed, ConsumerOf
    <2>4. rd.bi \in DOMAIN rd.msg.blocks
      <3>1. BlockList(rd.msg.blocks) /\ rd.bi \in Nat
        BY <2>2 DEF Inv, Shape, IsMessage
      <3> QED
        BY <2>2, <3>1, BlockPositions
    <2>5. Context(rd, c)
      BY <2>2, <2>3, <2>4 DEF Context, Inv, Position
    <2> HIDE DEF c
    <2>6. DOMAIN S(r) = Fields /\ Fixed(rd, S(r)) /\ S(r).ci = rd.ci /\ S(r).bi = rd.bi
      BY <1>0 DEF Fixed, Fields
    <2> HIDE DEF S
    <2> QED
      BY <2>1, <2>2, <2>3, <2>5, <2>6, StartDelivers
  <1> QED
    BY <1>1, <1>2, <1>3

(* The end callback of an address, which may drop the address. *)
LEMMA EndAddressData ==
  ASSUME Inv(rd, gone), Data(rd), EndAddress
  PROVE  Data(rd') /\ rd'.stage # "tlvs"
  <1> DEFINE Result(r) == IF r > rd.result THEN r ELSE rd.result
             S(r) == [rd EXCEPT !.result = Result(r), !.drops = Drops(r)]
             blk == rd.msg.blocks[rd.bi]
             new == [blk EXCEPT !.drop = @ \cup {rd.ai}]
             bs == [rd.msg.blocks EXCEPT ![rd.bi] = new]
             m == [rd.msg EXCEPT !.blocks = bs]
  <1>0. DOMAIN rd = Fields /\ rd.stage = "addrend"
    BY DEF Inv, Shape, EndAddress
  <1>1. PICK r : rd' = CASE Result(r) = PBB_OKAY -> [S(r) EXCEPT !.stage = "address", !.ai = @ + 1]
                     [] Result(r) = PBB_DROP_ADDRESS ->
                          [S(r) EXCEPT !.stage = "address", !.ai = @ + 1, !.result = PBB_OKAY,
                                       !.msg.blocks[rd.bi].drop = @ \cup {rd.ai}]
                     [] OTHER -> LeaveConsumers(S(r))
    BY DEF EndAddress
  <1> HIDE DEF Result
  <1>2. DOMAIN S(r) = Fields /\ Fixed(rd, S(r))
    BY <1>0 DEF Fixed, Fields
  <1>3. CASE Result(r) # PBB_DROP_ADDRESS
    <2>1. rd' = [S(r) EXCEPT !.stage = "address", !.ai = @ + 1] \/ rd' = LeaveConsumers(S(r))
      BY <1>1, <1>3
    <2> HIDE DEF S
    <2>2. Fixed(rd, rd') /\ rd'.stage \notin {"parse", "tlvs"}
      BY <1>2, <2>1 DEF LeaveConsumers, Fixed, Fields
    <2> QED
      BY <1>0, <2>2, FixedData
  <1>4. CASE Result(r) = PBB_DROP_ADDRESS
    <2>1. PBB_OKAY # PBB_DROP_ADDRESS
      BY DEF PBB_OKAY, PBB_DROP_ADDRESS
    <2>2. rd' = [S(r) EXCEPT !.stage = "address", !.ai = @ + 1, !.result = PBB_OKAY,
                             !.msg.blocks[rd.bi].drop = @ \cup {rd.ai}]
      BY <1>1, <1>4, <2>1
    <2>3. /\ rd'.stage = "address" /\ rd'.msg = m /\ rd'.ptlvs = rd.ptlvs
          /\ rd'.buf = rd.buf /\ rd'.ptr = rd.ptr /\ rd'.eob = rd.eob
      BY <1>0, <2>2 DEF Fields
    <2>4. /\ rd.msg # NoMsg /\ IsMessage(rd.msg) /\ rd.bi \in DOMAIN rd.msg.blocks
          /\ MessageData(rd.msg, rd.buf)
      BY <1>0 DEF Inv, Shape, Position, Data
    <2>5. IsBlock(blk)
      BY <2>4 DEF IsMessage, BlockList
    <2>6. new.tlvs = blk.tlvs
      BY <2>5 DEF IsBlock
    <2>7. DOMAIN bs = DOMAIN rd.msg.blocks /\ \A i \in DOMAIN bs : bs[i].tlvs = rd.msg.blocks[i].tlvs
      <3> HIDE DEF new
      <3> QED
        BY <2>6
    <2> HIDE DEF bs
    <2>8. /\ DOMAIN m = DOMAIN rd.msg /\ m.tlvs = rd.msg.tlvs /\ m.blocks = bs
          /\ m.end = rd.msg.end /\ m.addrlen = rd.msg.addrlen
      BY <2>4 DEF IsMessage, MessageData
    <2> HIDE DEF m
    <2>9. MessageData(m, rd.buf)
      BY <2>4, <2>7, <2>8 DEF MessageData
    <2> QED
      BY <1>0, <2>3, <2>9 DEF Data
  <1> QED
    BY <1>3, <1>4

(* TLVs are marked as dropped. *)
LEMMA MarksData ==
  ASSUME NEW s, NEW u, NEW c, c = ConsumerOf(s), Shape(s), Data(s), s.stage = "tlvs",
         Context(s, c), NEW T, Marks(s, u, c.kind, T), u.stage = "tlvs",
         u.buf = s.buf, u.ptr = s.ptr, u.eob = s.eob, u.ci = s.ci, u.bi = s.bi, u.ai = s.ai
  PROVE  /\ Data(u) /\ ConsumerOf(u) = c /\ IndexOf(u) = IndexOf(s)
         /\ TlvsOf(u) = Marked(TlvsOf(s), T, IndexOf(s))
  <1>0. /\ c.kind \in {"packet", "message", "address"}
        /\ c.kind = "packet" <=> s.msg = NoMsg
        /\ c.kind = "address" => s.bi \in DOMAIN s.msg.blocks
    BY DEF Context
  <1>1. c.kind = "packet" <=> u.msg = NoMsg
    BY <1>0, MarksKeep
  <1>2. ConsumerOf(u) = c
    BY <1>0, <1>1 DEF ConsumerOf
  <1>3. IndexOf(u) = IndexOf(s)
    BY <1>2 DEF IndexOf
  <1>4. CASE c.kind = "packet"
    <2>1. TlvsOf(s) = s.ptlvs /\ TlvsOf(u) = u.ptlvs /\ IndexOf(s) = 0
      BY <1>2, <1>4 DEF TlvsOf, IndexOf
    <2>2. u.ptlvs = Marked(s.ptlvs, T, 0)
      BY <1>4 DEF Marks
    <2>3. SortedTlvs(u.ptlvs)
      BY <2>2, MarkedSorted DEF Data
    <2>4. Data(u)
      BY <1>1, <1>4, <2>3 DEF Data
    <2> QED
      BY <1>2, <1>3, <2>1, <2>2, <2>4
  <1>5. CASE c.kind = "message"
    <2>1. TlvsOf(s) = s.msg.tlvs /\ TlvsOf(u) = u.msg.tlvs /\ IndexOf(s) = 0
      BY <1>2, <1>5 DEF TlvsOf, IndexOf
    <2>2. u.ptlvs = s.ptlvs /\ u.msg = [s.msg EXCEPT !.tlvs = Marked(s.msg.tlvs, T, 0)]
      BY <1>5 DEF Marks
    <2>3. MessageData(s.msg, s.buf) /\ IsMessage(s.msg)
      BY <1>0, <1>5 DEF Data, Shape
    <2>4. /\ DOMAIN u.msg = DOMAIN s.msg /\ u.msg.tlvs = Marked(s.msg.tlvs, T, 0)
          /\ u.msg.blocks = s.msg.blocks
          /\ u.msg.end = s.msg.end /\ u.msg.addrlen = s.msg.addrlen
      BY <2>2, <2>3 DEF MessageData, IsMessage
    <2>5. SortedTlvs(u.msg.tlvs)
      BY <2>3, <2>4, MarkedSorted DEF MessageData
    <2>6. MessageData(u.msg, s.buf)
      BY <2>3, <2>4, <2>5 DEF MessageData
    <2>7. Data(u)
      BY <2>2, <2>6 DEF Data
    <2> QED
      BY <1>2, <1>3, <2>1, <2>4, <2>7
  <1>6. CASE c.kind = "address"
    <2> DEFINE blk == s.msg.blocks[s.bi]
               new == [blk EXCEPT !.tlvs = Marked(blk.tlvs, T, s.ai)]
               bs  == [s.msg.blocks EXCEPT ![s.bi] = new]
    <2>1. TlvsOf(s) = blk.tlvs /\ TlvsOf(u) = u.msg.blocks[s.bi].tlvs /\ IndexOf(s) = s.ai
      BY <1>2, <1>6 DEF TlvsOf, IndexOf
    <2>2. u.ptlvs = s.ptlvs /\ u.msg = [s.msg EXCEPT !.blocks = bs]
      BY <1>6 DEF Marks
    <2>3. MessageData(s.msg, s.buf) /\ IsMessage(s.msg) /\ s.bi \in DOMAIN s.msg.blocks
      BY <1>0, <1>6 DEF Data, Shape
    <2>4. IsBlock(blk) /\ SortedTlvs(blk.tlvs)
      BY <2>3 DEF IsMessage, BlockList, MessageData
    <2>5. new.tlvs = Marked(blk.tlvs, T, s.ai)
      BY <2>4 DEF IsBlock
    <2> HIDE DEF new, blk
    <2>6. SortedTlvs(new.tlvs)
      BY <2>4, <2>5, MarkedSorted
    <2>7. /\ DOMAIN bs = DOMAIN s.msg.blocks /\ bs[s.bi] = new
          /\ \A i \in DOMAIN bs : i # s.bi => bs[i] = s.msg.blocks[i]
      BY <2>3
    <2> HIDE DEF bs
    <2>8. /\ DOMAIN u.msg = DOMAIN s.msg /\ u.msg.tlvs = s.msg.tlvs /\ u.msg.blocks = bs
          /\ u.msg.end = s.msg.end /\ u.msg.addrlen = s.msg.addrlen
      BY <2>2, <2>3 DEF MessageData, IsMessage
    <2>9. \A i \in DOMAIN bs : SortedTlvs(bs[i].tlvs)
      BY <2>3, <2>6, <2>7 DEF MessageData
    <2>10. MessageData(u.msg, s.buf)
      BY <2>3, <2>8, <2>9 DEF MessageData
    <2>11. Data(u)
      BY <2>2, <2>10 DEF Data
    <2> QED
      BY <1>2, <1>3, <2>1, <2>5, <2>7, <2>8, <2>11
  <1> QED
    BY <1>0, <1>4, <1>5, <1>6

-----------------------------------------------------------------------------
(* A round of the merge.                                                    *)

(* The names of the model and those of the proof. *)
LEMMA SameContext ==
  /\ Consumers[rd.ci] = ConsumerOf(rd)
  /\ Tlvs(ConsumerOf(rd)) = TlvsOf(rd)
  /\ {t \in DOMAIN TlvsOf(rd) : index_match(ConsumerOf(rd), TlvsOf(rd)[t])}
       = Applies(TlvsOf(rd), IndexOf(rd))
  <1>1. Consumers[rd.ci] = ConsumerOf(rd)
    BY DEF Consumers, ConsumerOf
  <1>2. Tlvs(ConsumerOf(rd)) = TlvsOf(rd)
    BY DEF Tlvs, TlvsOf
  <1>3. Index(ConsumerOf(rd)) = IndexOf(rd)
    BY DEF Index, IndexOf
  <1> QED
    BY <1>1, <1>2, <1>3 DEF Applies, index_match

(* The end of a round, in the terms of the proof. *)
LEMMA AdvanceMoves ==
  ASSUME NEW s, DOMAIN s = Fields, NEW l, NEW entries,
         NEW ord, DOMAIN ord = DOMAIN l, \A i \in DOMAIN l : ord[i] = l[i].order,
         NEW ent, DOMAIN ent = DOMAIN entries,
         \A i \in DOMAIN entries : ent[i] = EntryOrder(entries[i])
  PROVE  /\ Advance(s, l, entries).ti = NextTlv(ord, ent, s.ti, s.ei)
         /\ Advance(s, l, entries).ei = NextEntry(ord, ent, s.ti, s.ei)
  <1> DEFINE TlvOrder(i) == IF i \in DOMAIN l THEN l[i].order ELSE TLVTYPE_ORDER_INFINITE
             EntryAt(i)  == IF i \in DOMAIN entries THEN EntryOrder(entries[i])
                            ELSE TLVTYPE_ORDER_INFINITE
             ti == IF TlvOrder(s.ti) <= EntryAt(s.ei) /\ s.ti \in DOMAIN l THEN s.ti + 1 ELSE s.ti
             ei == IF EntryAt(s.ei) < TlvOrder(ti) THEN s.ei + 1 ELSE s.ei
  <1>1. Advance(s, l, entries) = [s EXCEPT !.ti = ti, !.ei = ei]
    BY DEF Advance
  <1>2. \A i : TlvOrder(i) = At(ord, i) /\ EntryAt(i) = At(ent, i)
    BY DEF At
  <1> HIDE DEF TlvOrder, EntryAt
  <1>3. ti = NextTlv(ord, ent, s.ti, s.ei)
    BY <1>2 DEF NextTlv
  <1>4. ei = NextEntry(ord, ent, s.ti, s.ei)
    <2> HIDE DEF ti
    <2> QED
      BY <1>2, <1>3 DEF NextEntry
  <1> HIDE DEF ti, ei
  <1>5. Advance(s, l, entries).ti = ti /\ Advance(s, l, entries).ei = ei
    BY <1>1 DEF Fields
  <1> QED
    BY <1>3, <1>4, <1>5

(* What a round changes. *)
LEMMA RoundChanges ==
  ASSUME NEW c, c = ConsumerOf(rd), SortedEntries(c.entries),
         NEW l, l = TlvsOf(rd), NEW r, NEW s, DOMAIN s = Fields,
         s.ti = rd.ti, s.ei = rd.ei, s.found = rd.found,
         NEW ord, ord = OrdersOf(l), Orders(ord), NEW ent, ent = EntryOrders(c),
         NEW V, V = Applies(l, IndexOf(rd)),
         Merged(ord, V, ent, Exact(c), rd.ti, rd.ei, rd.found),
         NEW W, W = IF r = PBB_DROP_TLV THEN V \ {rd.ti} ELSE V,
         NEW u, u = Advance(NoteEntry(c, l, r, s), l, c.entries)
  PROVE  /\ u.ti = NextTlv(ord, ent, rd.ti, rd.ei)
         /\ u.ei = NextEntry(ord, ent, rd.ti, rd.ei)
         /\ DOMAIN u.found = DOMAIN rd.found
         /\ \A e \in DOMAIN ent : DOMAIN u.found[e] = {"tlv", "dup"}
         /\ \A e \in Exact(c) :
              u.found[e] = IF e = rd.ei /\ rd.ti \in W /\ ent[e] = ord[rd.ti]
                           THEN Noted(rd.found[e], rd.ti) ELSE rd.found[e]
  <1> DEFINE n == NoteEntry(c, l, r, s)
             isTlv   == rd.ti \in DOMAIN l
             entry   == c.entries[rd.ei]
             reached == /\ rd.ei \in DOMAIN c.entries
                        /\ isTlv => EntryOrder(entry) <= l[rd.ti].order
             match   == /\ isTlv /\ index_match(c, l[rd.ti])
                        /\ r # PBB_DROP_TLV /\ EntryMatches(entry, l[rd.ti])
             found   == rd.found
  <1>1. /\ DOMAIN n = Fields /\ n.ti = rd.ti /\ n.ei = rd.ei
        /\ n.found = IF reached /\ match
                     THEN [found EXCEPT ![rd.ei] = Noted(found[rd.ei], rd.ti)] ELSE found
    BY DEF NoteEntry, Fields, Noted
  <1>2. /\ DOMAIN ord = DOMAIN l /\ \A i \in DOMAIN l : ord[i] = l[i].order
        /\ DOMAIN ent = DOMAIN c.entries
        /\ \A i \in DOMAIN c.entries : ent[i] = EntryOrder(c.entries[i])
    BY DEF OrdersOf, EntryOrders
  <1>3. DOMAIN found = DOMAIN ent /\ \A e \in DOMAIN ent : DOMAIN found[e] = {"tlv", "dup"}
    BY DEF Merged
  <1>4. u.ti = NextTlv(ord, ent, rd.ti, rd.ei) /\ u.ei = NextEntry(ord, ent, rd.ti, rd.ei)
        /\ u.found = n.found
    <2> HIDE DEF n
    <2>1. u = Advance(n, l, c.entries)
      BY DEF n
    <2>3. /\ Advance(n, l, c.entries).ti = NextTlv(ord, ent, n.ti, n.ei)
          /\ Advance(n, l, c.entries).ei = NextEntry(ord, ent, n.ti, n.ei)
      BY <1>1, <1>2, AdvanceMoves
    <2>4. /\ u.ti = NextTlv(ord, ent, rd.ti, rd.ei)
          /\ u.ei = NextEntry(ord, ent, rd.ti, rd.ei)
      BY <1>1, <2>1, <2>3
    <2>5. u.found = n.found
      BY <1>1, <2>1 DEF Advance, Fields
    <2> QED
      BY <2>4, <2>5
  <1> HIDE DEF n
  <1>5. rd.ti \in V <=> isTlv /\ index_match(c, l[rd.ti])
    <2>1. \A t : t \in V <=> t \in DOMAIN l /\ index_match(c, l[t])
      BY SameContext
    <2> QED
      BY <2>1
  <1>6. \A f, t : DOMAIN f = {"tlv", "dup"} => DOMAIN Noted(f, t) = {"tlv", "dup"}
    BY DEF Noted
  <1>7. ASSUME NEW e \in Exact(c), e = rd.ei
        PROVE  reached /\ match <=> rd.ti \in W /\ ent[e] = ord[rd.ti]
    <2>1. e \in DOMAIN c.entries /\ entry.match_ext = TRUE
      BY <1>7 DEF Exact, SortedEntries
    <2>2. isTlv => (EntryMatches(entry, l[rd.ti]) <=> ent[e] = ord[rd.ti])
      BY <1>2, <1>7, <2>1 DEF EntryMatches
    <2>3. isTlv => ord[rd.ti] \in Int
      BY <1>2 DEF Orders
    <2>4. isTlv /\ ent[e] = ord[rd.ti] => reached
      BY <1>2, <1>7, <2>1, <2>3
    <2> HIDE DEF reached, isTlv, entry
    <2> QED
      BY <1>5, <2>2, <2>4
  <1> HIDE DEF reached, match
  <1>8. /\ DOMAIN n.found = DOMAIN found
        /\ \A e \in DOMAIN ent : DOMAIN n.found[e] = {"tlv", "dup"}
    <2>1. CASE reached /\ match
      <3>1. n.found = [found EXCEPT ![rd.ei] = Noted(found[rd.ei], rd.ti)]
        BY <1>1, <2>1
      <3>2. \A e \in DOMAIN found : n.found[e] = IF e = rd.ei THEN Noted(found[e], rd.ti)
                                                 ELSE found[e]
        BY <3>1
      <3> QED
        BY <1>3, <1>6, <3>1, <3>2
    <2>2. CASE ~(reached /\ match)
      BY <1>1, <1>3, <2>2
    <2> QED
      BY <2>1, <2>2
  <1>9. ASSUME NEW e \in Exact(c)
        PROVE  n.found[e] = IF e = rd.ei /\ rd.ti \in W /\ ent[e] = ord[rd.ti]
                            THEN Noted(found[e], rd.ti) ELSE found[e]
    <2>1. e \in DOMAIN found
      BY <1>2, <1>3 DEF Exact
    <2>2. CASE e = rd.ei
      BY <1>1, <1>7, <2>1, <2>2
    <2>3. CASE e # rd.ei
      BY <1>1, <2>1, <2>3
    <2> QED
      BY <2>2, <2>3
  <1> QED
    BY <1>4, <1>8, <1>9

(* What is in the history of TLV callbacks after a round. *)
LEMMA RoundSeen ==
  ASSUME NEW c, NEW indexed \in BOOLEAN, NEW d,
         d = IF indexed THEN c ELSE [c EXCEPT !.callbacks = {}], "callbacks" \in DOMAIN c,
         NEW r, NEW T, Called(d, "tlv", r, T), History, rd'.stage = "tlvs"
  PROVE  "tlv" \in c.callbacks => seen' = IF indexed THEN Append(seen, rd.ti) ELSE seen
  <1>1. CASE indexed
    <2>1. "tlv" \in c.callbacks => call'.cb = "tlv"
      BY <1>1 DEF Called
    <2> QED
      BY <1>1, <2>1 DEF History
  <1>2. CASE ~indexed
    <2>1. d.callbacks = {}
      BY <1>2
    <2>2. call'.cb = "none"
      BY <2>1 DEF Called, NoCall
    <2> QED
      BY <1>2, <2>2 DEF History
  <1> QED
    BY <1>1, <1>2

LEMMA MatchTlvDelivers ==
  ASSUME Inv(rd, gone), Data(rd), Delivering(rd, seen), History, MatchTlv
  PROVE  Data(rd') /\ Delivering(rd', seen')
  <1> DEFINE c == ConsumerOf(rd)
             l == TlvsOf(rd)
             ord == OrdersOf(l)
             ent == EntryOrders(c)
             V == Applies(l, IndexOf(rd))
             indexed == rd.ti \in DOMAIN l /\ index_match(c, l[rd.ti])
             d == IF indexed THEN c ELSE [c EXCEPT !.callbacks = {}]
             S(r) == [rd EXCEPT !.result = IF r = PBB_DROP_TLV THEN PBB_OKAY ELSE r,
                                !.drops = Drops(r)]
             next(r) == Advance(NoteEntry(c, l, r, S(r)), l, c.entries)
  <1>0. DOMAIN rd = Fields /\ rd.drops \in Nat /\ rd.stage = "tlvs" /\ Shape(rd)
    BY DEF MatchTlv, Inv, Shape
  <1>1. PICK r \in Results(d, "tlv") :
          /\ Called(d, "tlv", r, {rd.ti})
          /\ rd' = CASE r = PBB_OKAY -> next(r)
                     [] r = PBB_DROP_TLV -> DropTlvs(c, next(r), {rd.ti})
                     [] OTHER -> AfterConsumer(c, S(r))
    BY SameContext DEF MatchTlv
  <1>2. Context(rd, c) /\ Installed(c, {"packet", "message", "address"})
    BY <1>0, SameContext, TlvsContext
  <1>3. /\ c.kind \in {"packet", "message", "address"} /\ SortedEntries(c.entries)
        /\ "callbacks" \in DOMAIN c /\ SortedTlvs(l)
    BY <1>2, ContextSorted DEF Context, Installed
  <1>4. /\ Merged(ord, V, ent, Exact(c), rd.ti, rd.ei, rd.found)
        /\ "tlv" \in c.callbacks => Told(ord, V, ent, rd.ti, seen)
    BY <1>0 DEF Delivering
  <1>5. /\ Orders(ord) /\ Orders(ent)
        /\ \A i, j \in DOMAIN ent : i < j => ent[i] < ent[j]
        /\ V \subseteq DOMAIN ord /\ Exact(c) \subseteq DOMAIN ent
    <2>1. DOMAIN ord = DOMAIN l /\ V \subseteq DOMAIN l
      BY DEF OrdersOf, Applies
    <2>2. Exact(c) \subseteq DOMAIN ent
      BY DEF Exact, EntryOrders
    <2> QED
      BY <1>3, <2>1, <2>2, EntriesSorted DEF SortedTlvs
  <1>6. indexed <=> rd.ti \in V
    BY SameContext
  <1>called. Called(d, "tlv", r, {rd.ti})
    BY <1>1
  <1>7. r = PBB_DROP_TLV => indexed
    <2>1. ~indexed => d.callbacks = {}
      BY <1>3
    <2> HIDE DEF d
    <2>2. "tlv" \notin d.callbacks => r = PBB_OKAY
      BY DEF Results
    <2> QED
      BY <2>1, <2>2 DEF PBB_OKAY, PBB_DROP_TLV
  <1>8. /\ DOMAIN S(r) = Fields /\ S(r).stage = "tlvs" /\ Fixed(rd, S(r))
        /\ S(r).ci = rd.ci /\ S(r).bi = rd.bi /\ S(r).ai = rd.ai
        /\ S(r).ti = rd.ti /\ S(r).ei = rd.ei /\ S(r).found = rd.found
    BY <1>0 DEF Fixed, Fields
  <1> DEFINE W == IF r = PBB_DROP_TLV THEN V \ {rd.ti} ELSE V
             n == next(r)
  <1> HIDE DEF c, l, ord, ent, V, S
  <1>9. /\ n.ti = NextTlv(ord, ent, rd.ti, rd.ei) /\ n.ei = NextEntry(ord, ent, rd.ti, rd.ei)
        /\ DOMAIN n.found = DOMAIN rd.found
        /\ \A e \in DOMAIN ent : DOMAIN n.found[e] = {"tlv", "dup"}
        /\ \A e \in Exact(c) :
             n.found[e] = IF e = rd.ei /\ rd.ti \in W /\ ent[e] = ord[rd.ti]
                          THEN Noted(rd.found[e], rd.ti) ELSE rd.found[e]
    BY <1>3, <1>4, <1>5, <1>8, RoundChanges DEF c, l, ord, ent, V
  <1>10. /\ DOMAIN n = Fields /\ n.stage = "tlvs" /\ Fixed(rd, n)
         /\ n.ci = rd.ci /\ n.bi = rd.bi /\ n.ai = rd.ai
    <2>1. /\ DOMAIN n = Fields /\ n.stage = S(r).stage /\ n.bi = S(r).bi /\ n.ai = S(r).ai
          /\ n.ptlvs = S(r).ptlvs /\ n.msg = S(r).msg /\ n.ci = S(r).ci
      BY <1>8, RoundFields
    <2>2. n.buf = S(r).buf /\ n.ptr = S(r).ptr /\ n.eob = S(r).eob
      <3> DEFINE m == NoteEntry(c, l, r, S(r))
      <3>1. /\ DOMAIN m = Fields /\ m.buf = S(r).buf /\ m.ptr = S(r).ptr /\ m.eob = S(r).eob
        BY <1>8 DEF NoteEntry, Fields
      <3> HIDE DEF m
      <3>2. n = Advance(m, l, c.entries)
        BY DEF m
      <3> QED
        BY <3>1, <3>2 DEF Advance, Fields
    <2> QED
      BY <1>8, <2>1, <2>2 DEF Fixed
  <1> HIDE DEF next, n
  <1>11. W = V \/ W = V \ {rd.ti}
    OBVIOUS
  <1> HIDE DEF W
  <1>12. Merged(ord, W, ent, Exact(c), n.ti, n.ei, n.found)
    BY <1>4, <1>5, <1>9, <1>11, MergeRound
  <1>13. ASSUME rd'.stage = "tlvs", "tlv" \in c.callbacks
         PROVE  Told(ord, W, ent, n.ti, seen')
    <2>1. seen' = IF rd.ti \in V THEN Append(seen, rd.ti) ELSE seen
      BY <1>3, <1>6, <1>13, <1>called, RoundSeen
    <2>2. rd.ti \in Nat \ {0} /\ rd.ei \in Nat \ {0}
      BY <1>4 DEF Merged
    <2>3. Told(ord, V, ent, rd.ti, seen)
      BY <1>4, <1>13
    <2>4. V \in SUBSET DOMAIN ord
      BY <1>5
    <2> HIDE DEF indexed, d
    <2>5. Told(ord, W, ent, NextTlv(ord, ent, rd.ti, rd.ei), seen')
      BY <1>5, <1>11, <2>1, <2>2, <2>3, <2>4, ToldRound
    <2> QED
      BY <1>9, <2>5
  <1>results. PBB_OKAY # PBB_DROP_TLV
    BY DEF PBB_OKAY, PBB_DROP_TLV
  <1>14. CASE r = PBB_OKAY
    <2>1. rd' = n /\ W = V
      BY <1>1, <1>14, <1>results DEF n, W
    <2>2. Data(rd')
      BY <1>0, <1>10, <2>1, FixedData
    <2>3. ConsumerOf(rd') = c
      BY <1>10, <2>1 DEF c, ConsumerOf, Fixed
    <2>4. TlvsOf(rd') = l /\ IndexOf(rd') = IndexOf(rd)
      BY <1>10, <2>1, <2>3 DEF c, l, TlvsOf, IndexOf, Fixed
    <2>5. Delivering(rd', seen')
      BY <1>10, <1>12, <1>13, <2>1, <2>3, <2>4 DEF Delivering, ord, ent, V
    <2> QED
      BY <2>2, <2>5
  <1>15. CASE r = PBB_DROP_TLV
    <2>1. rd' = DropTlvs(c, n, {rd.ti}) /\ W = V \ {rd.ti}
      BY <1>1, <1>15, <1>results DEF n, W
    <2>2. /\ DOMAIN rd' = Fields
          /\ \A f \in Fields \ {"ptlvs", "msg"} : rd'[f] = n[f]
          /\ Marks(n, rd', c.kind, {rd.ti})
      BY <1>3, <1>10, <2>1, DropTlvsMarks
    <2>3. /\ rd'.stage = "tlvs" /\ rd'.ci = rd.ci /\ rd'.bi = rd.bi /\ rd'.ai = rd.ai
          /\ rd'.buf = rd.buf /\ rd'.ptr = rd.ptr /\ rd'.eob = rd.eob
          /\ rd'.ti = n.ti /\ rd'.ei = n.ei /\ rd'.found = n.found
      BY <1>10, <2>2 DEF Fixed, Fields
    <2>4. Marks(rd, rd', c.kind, {rd.ti})
      BY <1>10, <2>2 DEF Marks, Fixed
    <2>5. /\ Data(rd') /\ ConsumerOf(rd') = c /\ IndexOf(rd') = IndexOf(rd)
          /\ TlvsOf(rd') = Marked(l, {rd.ti}, IndexOf(rd))
      BY <1>0, <1>2, <2>3, <2>4, MarksData DEF c, l
    <2>6. /\ OrdersOf(TlvsOf(rd')) = ord
          /\ Applies(TlvsOf(rd'), IndexOf(rd')) = W
      <3> DEFINE k == IndexOf(rd)
      <3> HIDE DEF k
      <3>1. /\ OrdersOf(Marked(l, {rd.ti}, k)) = OrdersOf(l)
            /\ Applies(Marked(l, {rd.ti}, k), k) = Applies(l, k) \ {rd.ti}
        BY <1>3, MarkedSorted
      <3> QED
        BY <2>1, <2>5, <3>1 DEF ord, V, k
    <2>7. Delivering(rd', seen')
      BY <1>12, <1>13, <2>3, <2>5, <2>6 DEF Delivering, ent
    <2> QED
      BY <2>5, <2>7
  <1>16. CASE r \notin {PBB_OKAY, PBB_DROP_TLV}
    <2>1. rd' = AfterConsumer(c, S(r))
      BY <1>1, <1>16
    <2>2. Fixed(S(r), rd') /\ rd'.stage \notin {"idle", "parse", "tlvs"}
      BY <1>3, <1>8, <2>1, AfterFixed
    <2>3. Fixed(rd, rd')
      BY <1>8, <2>2 DEF Fixed
    <2> QED
      BY <1>0, <2>2, <2>3, FixedData, NotDelivering
  <1> QED
    BY <1>14, <1>15, <1>16

LEMMA HandleBlockData ==
  ASSUME Inv(rd, gone), Data(rd), HandleBlock
  PROVE  Data(rd') /\ rd'.stage # "tlvs"
  <1> DEFINE c == ConsumerOf(rd)
             S(r) == [rd EXCEPT !.drops = Drops(r),
                                !.result = IF r = PBB_DROP_TLV THEN PBB_OKAY ELSE r]
  <1>0. DOMAIN rd = Fields /\ rd.stage = "tlvs" /\ Shape(rd)
    BY DEF HandleBlock, Inv, Shape
  <1>1. PICK r, T : rd' = AfterConsumer(c, DropTlvs(c, S(r), T))
    BY SameContext DEF HandleBlock
  <1>2. Context(rd, c) /\ c.kind \in {"packet", "message", "address"}
    BY <1>0, SameContext, TlvsContext DEF Context
  <1>3. /\ DOMAIN S(r) = Fields /\ S(r).stage = "tlvs" /\ Fixed(rd, S(r))
        /\ S(r).ci = rd.ci /\ S(r).bi = rd.bi /\ S(r).ai = rd.ai
    BY <1>0 DEF Fixed, Fields
  <1> HIDE DEF S, c
  <1> DEFINE w == DropTlvs(c, S(r), T)
  <1>4. /\ DOMAIN w = Fields
        /\ \A f \in Fields \ {"ptlvs", "msg"} : w[f] = S(r)[f]
        /\ Marks(S(r), w, c.kind, T)
    BY <1>2, <1>3, DropTlvsMarks
  <1> HIDE DEF w
  <1>5. /\ w.stage = "tlvs" /\ w.ci = rd.ci /\ w.bi = rd.bi /\ w.ai = rd.ai
        /\ w.buf = rd.buf /\ w.ptr = rd.ptr /\ w.eob = rd.eob
    BY <1>3, <1>4 DEF Fixed, Fields
  <1>6. Marks(rd, w, c.kind, T)
    BY <1>3, <1>4 DEF Marks, Fixed
  <1>7. Data(w)
    BY <1>0, <1>2, <1>5, <1>6, MarksData DEF c
  <1>8. Fixed(w, rd') /\ rd'.stage \notin {"idle", "parse", "tlvs"}
    BY <1>1, <1>2, <1>4, AfterFixed DEF w
  <1> QED
    BY <1>5, <1>7, <1>8, FixedData

-----------------------------------------------------------------------------
(* The theorem.                                                             *)

LEMMA NextDelivers ==
  ASSUME Inv(rd, gone), Data(rd), Delivering(rd, seen), WellFormed, [Next]_vars
  PROVE  Data(rd') /\ Delivering(rd', seen')
  <1>0. DOMAIN rd = Fields
    BY DEF Inv, Shape
  <1>1. CASE UNCHANGED vars
    BY <1>1 DEF vars
  <1>2. ASSUME NEW b \in Datagrams, NEW f \in Failures, Arrive(b, f)
        PROVE  Data(rd') /\ Delivering(rd', seen')
    BY <1>2, ArriveData, NotDelivering DEF Arrive
  <1>3. CASE Step
    <2>1. History
      BY <1>3 DEF Step
    <2>2. CASE PacketConsumersDone \/ MessagesDone \/ SkipConsumer \/ EndOrder \/ MessageRead
                 \/ StartAddressConsumer \/ ConsumersDone \/ EndMessageDone \/ SkipAddress
                 \/ EndPacketConsumer \/ EndMessageConsumer
      <3>1. rd.stage # "idle" /\ rd'.stage \notin {"idle", "parse", "tlvs"} /\ Fixed(rd, rd')
        BY <1>0, <2>2, StepsFixed, Zenon
      <3> QED
        BY <2>1, <3>1, FixedData, NotDelivering
    <2>3. CASE StartPacketConsumer \/ StartMessageConsumer \/ StartAddress
      BY <2>1, <2>3, StartsDeliver, Zenon
    <2>4. CASE MatchTlv
      BY <2>1, <2>4, MatchTlvDelivers
    <2>5. CASE ParseTlv
      BY <1>0, <2>1, <2>5, ParseTlvData, NotDelivering
    <2>6. CASE TlvBlockParsed
      BY <2>1, <2>6, TlvBlockParsedData, NotDelivering
    <2>7. CASE ReadMessage
      BY <2>1, <2>7, ReadMessageData, NotDelivering
    <2>8. CASE ReadAddressBlock
      BY <2>1, <2>8, ReadAddressBlockData, NotDelivering
    <2>9. CASE PacketDone \/ MessageDone
      BY <2>1, <2>9, DoneData, NotDelivering
    <2>10. CASE EndAddress
      BY <2>1, <2>10, EndAddressData, NotDelivering
    <2>11. CASE HandleBlock
      BY <2>1, <2>11, HandleBlockData, NotDelivering
    <2> QED
      BY <1>3, <2>2, <2>3, <2>4, <2>5, <2>6, <2>7, <2>8, <2>9, <2>10, <2>11, Zenon DEF Step
  <1> QED
    BY <1>1, <1>2, <1>3 DEF Next

(* An entry that knows of the TLVs that match it holds the first of them    *)
(* and knows whether there is another.                                      *)
LEMMA KnowsFirst ==
  ASSUME NEW f, NEW M \in SUBSET Nat, IsFiniteSet(M), Knows(f, M)
  PROVE  /\ f.tlv = IF M = {} THEN 0 ELSE CHOOSE t \in M : \A u \in M : t <= u
         /\ f.dup <=> Cardinality(M) > 1
  <1>1. f.tlv = IF M = {} THEN 0 ELSE CHOOSE t \in M : \A u \in M : t <= u
    <2>1. CASE M = {}
      BY <2>1 DEF Knows
    <2>2. CASE M # {}
      <3> DEFINE x == CHOOSE t \in M : \A u \in M : t <= u
      <3>1. f.tlv \in M /\ \A u \in M : f.tlv <= u
        BY <2>2 DEF Knows
      <3>2. x \in M /\ \A u \in M : x <= u
        BY <3>1
      <3> HIDE DEF x
      <3>3. x \in Nat /\ f.tlv \in Nat /\ x <= f.tlv /\ f.tlv <= x
        BY <3>1, <3>2
      <3>4. x = f.tlv
        BY <3>3
      <3> QED
        BY <2>2, <3>4 DEF x
    <2> QED
      BY <2>1, <2>2
  <1>2. Cardinality(M) \in Nat
    BY FS_CardinalityType
  <1>3. Cardinality(M) > 1 <=> \E t, u \in M : t # u
    <2>1. CASE M = {}
      <3>1. Cardinality(M) = 0
        BY <2>1, FS_EmptySet
      <3> QED
        BY <2>1, <3>1
    <2>2. CASE M # {} /\ \A t, u \in M : t = u
      <3>0. PICK t : t \in M
        BY <2>2
      <3>1. M = {t}
        BY <2>2, <3>0
      <3>2. Cardinality(M) = 1
        BY <3>1, FS_Singleton
      <3> QED
        BY <2>2, <3>2
    <2>3. CASE \E t, u \in M : t # u
      <3>1. PICK t \in M, u \in M : t # u
        BY <2>3
      <3>2. {t} \subseteq M /\ {t} # M
        BY <3>1
      <3>3. Cardinality({t}) = 1
        BY FS_Singleton
      <3>4. Cardinality({t}) < Cardinality(M)
        BY <1>2, <3>2, FS_Subset, <3>3
      <3> QED
        BY <1>2, <2>3, <3>3, <3>4
    <2> QED
      BY <2>1, <2>2, <2>3
  <1> QED
    BY <1>1, <1>3 DEF Knows

(* At the end of the lists, what the merge knows is what is promised. *)
LEMMA DeliveredAtEnd ==
  ASSUME Inv(rd, gone), Data(rd), Delivering(rd, seen)
  PROVE  TlvDelivery
  <1> DEFINE c == ConsumerOf(rd)
             l == TlvsOf(rd)
             V == Applies(l, IndexOf(rd))
             ord == OrdersOf(l)
             ent == EntryOrders(c)
             Ended(k, tlvs) == rd.ti > Len(tlvs) /\ rd.ei > Len(k.entries)
             AllTold(k, visible) ==
               /\ visible \subseteq Range(seen)
               /\ \A i \in 1..Len(seen) - 1 :
                    seen[i] < seen[i + 1] \/ (k.entries # << >> /\ seen[i] = seen[i + 1])
             Mine(k, tlvs, visible, e) ==
               {t \in visible : tlvs[t].order = EntryOrder(k.entries[e])}
             FirstFound(e, mine) ==
               /\ rd.found[e].tlv = IF mine = {} THEN 0
                                    ELSE CHOOSE t \in mine : \A u \in mine : t <= u
               /\ rd.found[e].dup <=> Cardinality(mine) > 1
             Promise(k, tlvs, visible) ==
               Ended(k, tlvs) =>
                 /\ "tlv" \in k.callbacks => AllTold(k, visible)
                 /\ \A e \in DOMAIN k.entries :
                      k.entries[e].match_ext => FirstFound(e, Mine(k, tlvs, visible, e))
             k == Consumers[rd.ci]
             visible == {t \in DOMAIN Tlvs(k) : index_match(k, Tlvs(k)[t])}
  <1>0. (rd.stage = "tlvs" => Promise(k, Tlvs(k), visible)) => TlvDelivery
    BY DEF TlvDelivery
  <1> HIDE DEF Promise
  <1>tlvs. SUFFICES ASSUME rd.stage = "tlvs" PROVE Promise(c, l, V)
    BY <1>0, SameContext, Zenon
  <1> USE DEF Promise
  <1> HIDE DEF Ended, AllTold, Mine, FirstFound
  <1> SUFFICES ASSUME Ended(c, l)
               PROVE  /\ "tlv" \in c.callbacks => AllTold(c, V)
                      /\ \A e \in DOMAIN c.entries :
                           c.entries[e].match_ext => FirstFound(e, Mine(c, l, V, e))
    BY Zenon
  <1>1. Context(rd, c) /\ Installed(c, {"packet", "message", "address"})
    BY <1>tlvs, SameContext, TlvsContext
  <1>2. SortedEntries(c.entries) /\ SortedTlvs(l)
    BY <1>1, ContextSorted DEF Installed
  <1>3. /\ Merged(ord, V, ent, Exact(c), rd.ti, rd.ei, rd.found)
        /\ "tlv" \in c.callbacks => Told(ord, V, ent, rd.ti, seen)
    BY <1>tlvs DEF Delivering
  <1>4. /\ Len(l) \in Nat /\ DOMAIN l = 1..Len(l) /\ V \subseteq DOMAIN l
        /\ DOMAIN ord = DOMAIN l /\ \A i \in DOMAIN l : ord[i] = l[i].order
    <2>1. l \in Seq({l[i] : i \in DOMAIN l})
      BY <1>2 DEF SortedTlvs, IsSeq
    <2>2. Len(l) \in Nat /\ DOMAIN l = 1..Len(l)
      <3> HIDE DEF l
      <3> QED
        BY <2>1
    <2>3. V \subseteq DOMAIN l /\ DOMAIN ord = DOMAIN l /\ \A i \in DOMAIN l : ord[i] = l[i].order
      BY DEF Applies, OrdersOf
    <2> QED
      BY <2>2, <2>3
  <1>5. /\ DOMAIN ent = DOMAIN c.entries /\ DOMAIN c.entries = 1..Len(c.entries)
        /\ Len(c.entries) \in Nat
        /\ \A e \in DOMAIN c.entries : ent[e] = EntryOrder(c.entries[e])
    BY <1>2, EntriesSorted
  <1>6. \A t \in V : t \in Nat \ {0} /\ t < rd.ti
    <2>1. rd.ti \in Nat
      BY <1>3 DEF Merged
    <2> HIDE DEF l, V
    <2> QED
      BY <1>4, <2>1 DEF Ended
  <1> HIDE DEF c, l, V, ord, ent
  <1>7. ASSUME "tlv" \in c.callbacks
        PROVE  AllTold(c, V)
    <2>1. Told(ord, V, ent, rd.ti, seen)
      BY <1>3, <1>7
    <2>2. seen \in Seq(Nat) /\ DOMAIN seen = 1..Len(seen)
      BY <2>1 DEF Told
    <2>3. ASSUME NEW t \in V PROVE t \in Range(seen)
      <3>1. PICK i \in 1..Len(seen) : seen[i] = t
        BY <1>6, <2>1 DEF Told
      <3> QED
        BY <2>2, <3>1 DEF Range
    <2>4. DOMAIN ent # {} => c.entries # << >>
      <3>1. DOMAIN << >> = {}
        OBVIOUS
      <3> QED
        BY <1>5, <3>1
    <2>5. \A i \in 1..Len(seen) - 1 :
            seen[i] < seen[i + 1] \/ (DOMAIN ent # {} /\ seen[i] = seen[i + 1])
      BY <2>1 DEF Told
    <2> QED
      BY <2>3, <2>4, <2>5 DEF AllTold
  <1>8. ASSUME NEW e \in DOMAIN c.entries, c.entries[e].match_ext
        PROVE  FirstFound(e, Mine(c, l, V, e))
    <2> DEFINE mine == {t \in V : l[t].order = EntryOrder(c.entries[e])}
    <2>1. Knows(rd.found[e], Matched(ord, V, rd.ti, ent[e]))
      BY <1>3, <1>8 DEF Merged, Exact
    <2>2. Matched(ord, V, rd.ti, ent[e]) = mine
      BY <1>4, <1>5, <1>6 DEF Matched
    <2>3. mine \subseteq 1..Len(l) /\ mine \in SUBSET Nat
      BY <1>4, <1>6
    <2>4. IsFiniteSet(mine)
      <3>1. IsFiniteSet(1..Len(l))
        BY <1>4, FS_Interval
      <3> HIDE DEF mine
      <3> QED
        BY <2>3, <3>1, FS_Subset
    <2> HIDE DEF mine
    <2>5. FirstFound(e, mine)
      BY <2>1, <2>2, <2>3, <2>4, KnowsFirst DEF FirstFound
    <2> QED
      BY <2>5 DEF mine, Mine
  <1> QED
    BY <1>7, <1>8, Zenon

(* Whatever the consumers and the datagrams, as long as these are well-     *)
(* formed: _schedule_tlvblock() passes every TLV that applies to the TLV    *)
(* callback, in order, and an entry for one extended type ends up with the  *)
(* first TLV of that type and knows of further ones.                        *)
THEOREM TlvsDelivered == Spec /\ []WellFormed => []TlvDelivery
  <1> DEFINE I == Data(rd) /\ Delivering(rd, seen)
  <1>1. Init => I
    <2> SUFFICES ASSUME Init PROVE I
      OBVIOUS
    <2>1. rd.stage = "idle" /\ rd.ptlvs = << >> /\ rd.msg = NoMsg /\ seen = << >>
      BY DEF Init, Idle
    <2> QED
      BY <2>1, IdleData DEF Delivering
  <1>2. Inv(rd, gone) /\ I /\ WellFormed /\ [Next]_vars => I'
    <2> SUFFICES ASSUME Inv(rd, gone), I, WellFormed, [Next]_vars PROVE I'
      OBVIOUS
    <2>1. Data(rd') /\ Delivering(rd', seen')
      BY NextDelivers
    <2> QED
      BY <2>1
  <1>3. Inv(rd, gone) /\ I => TlvDelivery
    BY DeliveredAtEnd
  <1> HIDE DEF I
  <1> QED
    BY <1>1, <1>2, <1>3, DropsRemembered, PTL DEF Spec
=============================================================================
