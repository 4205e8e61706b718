--------------------------- MODULE WalFormatProofs ---------------------------
(***************************************************************************)
(* Lemmas about the log format: what replaying operations does to a store,  *)
(* what an encoded record consists of, and how the recovery loop classifies *)
(* a complete record and a torn one.                                       *)
(***************************************************************************)
EXTENDS WalFormat, SequenceTheorems, FiniteSetTheorems, WellFoundedInduction, TLAPS

(* Replaying keeps a store a store (replayPayload of well-formed payloads). *)
LEMMA ApplyOpsType ==
  ASSUME NEW store \in Store, NEW ops \in Seq(Op)
  PROVE  ApplyOps(store, ops) \in Store
<1>1. ASSUME NEW k \in Keys, LastWrites(ops, k) # {}
      PROVE  ops[CHOOSE i \in LastWrites(ops, k) : TRUE].val \in Values \cup {None}
  <2>1. (CHOOSE i \in LastWrites(ops, k) : TRUE) \in LastWrites(ops, k)
    BY <1>1
  <2>2. \A i \in LastWrites(ops, k) : ops[i] \in Op
    BY DEF LastWrites
  <2>3. QED
    BY <2>1, <2>2 DEF Op
<1>2. QED
  BY <1>1 DEF ApplyOps, Store

(* Replaying nothing changes nothing.                                      *)
LEMMA ApplyNoOps ==
  ASSUME NEW store \in Store
  PROVE  ApplyOps(store, << >>) = store
BY DEF ApplyOps, LastWrites, Store

(* A transaction's writes, applied one by one as they are made, give the    *)
(* store that replaying its journal gives: tx.set and tx.delete mean the     *)
(* same live and during recovery.                                          *)
LEMMA ApplyOpsAppend ==
  ASSUME NEW store \in Store, NEW ops \in Seq(Op), NEW op \in Op
  PROVE  ApplyOps(store, Append(ops, op)) = ApplyOp(ApplyOps(store, ops), op)
<1> DEFINE more == Append(ops, op)
           n == Len(ops) + 1
<1>1. /\ more \in Seq(Op) /\ Len(more) = n /\ more[n] = op
      /\ \A i \in 1 .. Len(ops) : more[i] = ops[i]
      /\ DOMAIN more = 1 .. n /\ DOMAIN ops = 1 .. Len(ops)
      /\ n \in Nat /\ n > 0 /\ Len(ops) \in Nat
  OBVIOUS
<1>2. op.key \in Keys /\ op.val \in Values \cup {None}
  BY DEF Op
<1>3. LastWrites(more, op.key) = {n}
  <2>1. n \in LastWrites(more, op.key)
    BY <1>1 DEF LastWrites
  <2>2. ASSUME NEW i \in LastWrites(more, op.key) PROVE i = n
    <3>1. i \in 1 .. n /\ \A j \in 1 .. n : j > i => more[j].key # op.key
      BY <1>1, <2>2 DEF LastWrites
    <3>2. QED
      BY <3>1, <1>1
  <2>3. QED
    BY <2>1, <2>2
<1>4. ASSUME NEW k \in Keys, k # op.key
      PROVE  LastWrites(more, k) = LastWrites(ops, k)
  <2>1. ASSUME NEW i \in LastWrites(more, k) PROVE i \in LastWrites(ops, k)
    <3>1. i \in 1 .. n /\ more[i].key = k /\ \A j \in 1 .. n : j > i => more[j].key # k
      BY <1>1, <2>1 DEF LastWrites
    <3>2. i \in 1 .. Len(ops)
      BY <3>1, <1>1, <1>4
    <3>3. QED
      BY <3>1, <3>2, <1>1 DEF LastWrites
  <2>2. ASSUME NEW i \in LastWrites(ops, k) PROVE i \in LastWrites(more, k)
    <3>1. i \in 1 .. Len(ops) /\ ops[i].key = k /\ \A j \in 1 .. Len(ops) : j > i => ops[j].key # k
      BY <1>1, <2>2 DEF LastWrites
    <3>2. \A j \in 1 .. n : j = n \/ j \in 1 .. Len(ops)
      BY <1>1
    <3>3. QED
      BY <3>1, <3>2, <1>1, <1>4 DEF LastWrites
  <2>3. QED
    BY <2>1, <2>2
<1>5. ASSUME NEW k \in Keys
      PROVE  ApplyOps(store, more)[k] = ApplyOp(ApplyOps(store, ops), op)[k]
  <2>1. CASE k = op.key
    <3>1. (CHOOSE i \in LastWrites(more, k) : TRUE) = n
      BY <1>3, <2>1
    <3>2. ApplyOps(store, more)[k] = op.val
      BY <3>1, <1>1, <1>3, <2>1 DEF ApplyOps
    <3>3. QED
      BY <3>2, <2>1, <1>2 DEF ApplyOp, ApplyOps
  <2>2. CASE k # op.key
    <3>1. ApplyOps(store, more)[k] = ApplyOps(store, ops)[k]
      <4>1. CASE LastWrites(ops, k) = {}
        BY <4>1, <2>2, <1>4 DEF ApplyOps
      <4>2. CASE LastWrites(ops, k) # {}
        <5>1. (CHOOSE i \in LastWrites(ops, k) : TRUE) \in 1 .. Len(ops)
          BY <4>2 DEF LastWrites
        <5>2. more[CHOOSE i \in LastWrites(ops, k) : TRUE]
                = ops[CHOOSE i \in LastWrites(ops, k) : TRUE]
          BY <5>1, <1>1
        <5>3. LastWrites(more, k) = LastWrites(ops, k)
          BY <2>2, <1>4
        <5>4. ApplyOps(store, more)[k] = more[CHOOSE i \in LastWrites(more, k) : TRUE].val
          BY <5>3, <4>2 DEF ApplyOps
        <5>5. (CHOOSE i \in LastWrites(more, k) : TRUE) = (CHOOSE i \in LastWrites(ops, k) : TRUE)
          BY <5>3, Zenon
        <5>6. ApplyOps(store, ops)[k] = ops[CHOOSE i \in LastWrites(ops, k) : TRUE].val
          BY <4>2 DEF ApplyOps
        <5>7. QED
          BY <5>2, <5>4, <5>5, <5>6
      <4>3. QED
        BY <4>1, <4>2
    <3>2. QED
      BY <3>1, <2>2 DEF ApplyOp, ApplyOps
  <2>3. QED
    BY <2>1, <2>2
<1>6. QED
  BY <1>5, ApplyOpsType DEF ApplyOps, ApplyOp

-----------------------------------------------------------------------------
(* Where the elements of a concatenation come from.                        *)
LEMMA ConcatElements ==
  ASSUME NEW S, NEW a \in Seq(S), NEW b \in Seq(S)
  PROVE  /\ a \o b \in Seq(S)
         /\ Len(a \o b) = Len(a) + Len(b)
         /\ \A j \in 1 .. Len(a) : (a \o b)[j] = a[j]
         /\ \A j \in 1 .. Len(b) : (a \o b)[Len(a) + j] = b[j]
<1>1. a \o b \in Seq(S) /\ Len(a \o b) = Len(a) + Len(b)
  OBVIOUS
<1>2. \A j \in 1 .. Len(a) : (a \o b)[j] = a[j]
  OBVIOUS
<1>3. ASSUME NEW j \in 1 .. Len(b) PROVE (a \o b)[Len(a) + j] = b[j]
  OBVIOUS
<1>4. QED
  BY <1>1, <1>2, <1>3

(* A non-empty set of natural numbers has a least member: that strict        *)
(* inclusion of finite sets is well founded, on the intervals up to a member. *)
LEMMA LeastMember ==
  ASSUME NEW S \in SUBSET Nat, S # {}
  PROVE  \E x \in S : \A n \in S : x =< n
<1> DEFINE T == {0 .. n : n \in S}
           R == StrictSubsetOrdering(UNION T)
<1>1. T \subseteq FiniteSubsetsOf(UNION T)
  <2>1. \A I \in T : IsFiniteSet(I)
    BY FS_Interval
  <2> HIDE DEF T
  <2>2. QED
    BY <2>1 DEF FiniteSubsetsOf
<1>2. PICK I \in T : \A J \in T : ~(<<J, I>> \in R)
  <2>1. T # {}
    OBVIOUS
  <2> HIDE DEF R
  <2>2. IsWellFoundedOn(R, FiniteSubsetsOf(UNION T))
    BY FS_StrictSubsetOrderingWellFounded DEF R
  <2> HIDE DEF T
  <2>3. QED
    BY <1>1, <2>1, <2>2, WFMin
<1>3. PICK x \in S : I = 0 .. x
  OBVIOUS
<1>4. ASSUME NEW n \in S PROVE x =< n
  <2> SUFFICES ASSUME n < x PROVE FALSE
    OBVIOUS
  <2>1. 0 .. n \subseteq 0 .. x /\ 0 .. n # 0 .. x /\ 0 .. n \in T
    OBVIOUS
  <2>2. <<0 .. n, I>> \in R
    <3>1. 0 .. n \in SUBSET (UNION T) /\ I \in SUBSET (UNION T)
      BY <1>3
    <3>2. QED
      BY <1>3, <2>1, <3>1 DEF StrictSubsetOrdering
  <2>3. QED
    BY <1>2, <2>1, <2>2
<1>5. QED
  BY <1>4

(* A bounded one has a greatest.                                            *)
LEMMA GreatestMember ==
  ASSUME NEW S \in SUBSET Nat, S # {}, NEW bound \in Nat, \A n \in S : n =< bound
  PROVE  \E x \in S : \A n \in S : n =< x
<1> DEFINE T == {bound - n : n \in S}
<1>1. T \in SUBSET Nat /\ T # {}
  <2>1. \A n \in S : bound - n \in Nat
    OBVIOUS
  <2>2. QED
    BY <2>1
<1>2. PICK m \in T : \A n \in T : m =< n
  BY <1>1, LeastMember
<1>3. PICK x \in S : m = bound - x
  OBVIOUS
<1>4. ASSUME NEW n \in S PROVE n =< x
  <2>1. bound - x =< bound - n
    BY <1>2, <1>3
  <2>2. QED
    BY <2>1
<1>5. QED
  BY <1>4

(* Replaying two journals in turn is replaying the one behind the other.      *)
LEMMA ApplyOpsConcat ==
  ASSUME NEW store \in Store, NEW a \in Seq(Op), NEW b \in Seq(Op)
  PROVE  ApplyOps(store, a \o b) = ApplyOps(ApplyOps(store, a), b)
<1> DEFINE c == a \o b
<1>1. /\ c \in Seq(Op) /\ Len(c) = Len(a) + Len(b)
      /\ \A j \in 1 .. Len(a) : c[j] = a[j]
      /\ \A j \in 1 .. Len(b) : c[Len(a) + j] = b[j]
      /\ Len(a) \in Nat /\ Len(b) \in Nat
      /\ DOMAIN a = 1 .. Len(a) /\ DOMAIN b = 1 .. Len(b) /\ DOMAIN c = 1 .. Len(a) + Len(b)
  <2>1. /\ c \in Seq(Op) /\ Len(c) = Len(a) + Len(b)
        /\ \A j \in 1 .. Len(a) : c[j] = a[j]
        /\ \A j \in 1 .. Len(b) : c[Len(a) + j] = b[j]
    BY ConcatElements
  <2> HIDE DEF c
  <2>2. QED
    BY <2>1
<1> HIDE DEF c
<1>2. ASSUME NEW k \in Keys
      PROVE  ApplyOps(store, c)[k] = ApplyOps(ApplyOps(store, a), b)[k]
  <2>1. CASE LastWrites(b, k) # {}
    <3>1. PICK i \in 1 .. Len(b) : i \in LastWrites(b, k)
      BY <1>1, <2>1 DEF LastWrites
    <3>2. b[i].key = k /\ \A j \in 1 .. Len(b) : j > i => b[j].key # k
      BY <1>1, <3>1 DEF LastWrites
    <3>3. \A j \in LastWrites(b, k) : j = i
      BY <1>1, <3>1, <3>2 DEF LastWrites
    <3>4. Len(a) + i \in LastWrites(c, k)
      <4>1. Len(a) + i \in 1 .. Len(a) + Len(b) /\ c[Len(a) + i].key = k
        BY <1>1, <3>2
      <4>2. ASSUME NEW j \in 1 .. Len(a) + Len(b), j > Len(a) + i PROVE c[j].key # k
        <5>1. j - Len(a) \in 1 .. Len(b) /\ j - Len(a) > i /\ Len(a) + (j - Len(a)) = j
          BY <1>1, <4>2
        <5>2. c[j] = b[j - Len(a)]
          BY <1>1, <5>1
        <5>3. QED
          BY <3>2, <5>1, <5>2
      <4>3. QED
        BY <1>1, <4>1, <4>2 DEF LastWrites
    <3>5. \A j \in LastWrites(c, k) : j = Len(a) + i
      <4>1. ASSUME NEW j \in LastWrites(c, k) PROVE j = Len(a) + i
        <5>1. /\ j \in 1 .. Len(a) + Len(b) /\ Len(a) + i \in 1 .. Len(a) + Len(b)
              /\ c[j].key = k /\ c[Len(a) + i].key = k
              /\ ~(j > Len(a) + i) /\ ~(Len(a) + i > j)
          BY <1>1, <3>4 DEF LastWrites
        <5>2. j \in Int /\ Len(a) + i \in Int
          BY <1>1, <5>1
        <5>3. QED
          BY <5>1, <5>2
      <4>2. QED
        BY <4>1
    <3>6. ApplyOps(store, c)[k] = c[Len(a) + i].val
      BY <3>4, <3>5 DEF ApplyOps
    <3>7. ApplyOps(ApplyOps(store, a), b)[k] = b[i].val
      BY <3>1, <3>3 DEF ApplyOps
    <3>8. QED
      BY <1>1, <3>6, <3>7
  <2>2. CASE LastWrites(b, k) = {}
    <3>1. ASSUME NEW i \in 1 .. Len(b), b[i].key = k PROVE FALSE
      <4> DEFINE W == {j \in 1 .. Len(b) : b[j].key = k}
      <4>1. W \in SUBSET Nat /\ W # {} /\ \A j \in W : j =< Len(b)
        BY <3>1
      <4>2. PICK x \in W : \A j \in W : j =< x
        <5> HIDE DEF W
        <5>1. QED
          BY <1>1, <4>1, GreatestMember
      <4>3. x \in LastWrites(b, k)
        BY <1>1, <4>2 DEF LastWrites
      <4>4. QED
        BY <2>2, <4>3
    <3>2. ASSUME NEW j \in 1 .. Len(a) + Len(b), c[j].key = k
          PROVE  j \in 1 .. Len(a) /\ a[j].key = k
      <4>1. CASE j > Len(a)
        <5>1. j - Len(a) \in 1 .. Len(b) /\ Len(a) + (j - Len(a)) = j
          BY <1>1, <4>1
        <5>2. b[j - Len(a)].key = k
          BY <1>1, <3>2, <5>1
        <5>3. QED
          BY <3>1, <5>1, <5>2
      <4>2. CASE j =< Len(a)
        BY <1>1, <3>2, <4>2
      <4>3. QED
        BY <1>1, <4>1, <4>2
    <3>3. ASSUME NEW j \in 1 .. Len(a)
          PROVE  j \in 1 .. Len(a) + Len(b) /\ c[j] = a[j]
      BY <1>1
    <3>4. LastWrites(c, k) = LastWrites(a, k)
      <4>1. ASSUME NEW i \in LastWrites(c, k) PROVE i \in LastWrites(a, k)
        <5>1. i \in 1 .. Len(a) + Len(b) /\ c[i].key = k
              /\ \A j \in 1 .. Len(a) + Len(b) : j > i => c[j].key # k
          BY <1>1, <4>1 DEF LastWrites
        <5>2. QED
          BY <1>1, <3>2, <3>3, <5>1 DEF LastWrites
      <4>2. ASSUME NEW i \in LastWrites(a, k) PROVE i \in LastWrites(c, k)
        <5>1. i \in 1 .. Len(a) /\ a[i].key = k /\ \A j \in 1 .. Len(a) : j > i => a[j].key # k
          BY <1>1, <4>2 DEF LastWrites
        <5>2. \A j \in 1 .. Len(a) + Len(b) : j > i => c[j].key # k
          BY <3>2, <3>3, <5>1
        <5>3. QED
          BY <1>1, <3>3, <5>1, <5>2 DEF LastWrites
      <4>3. QED
        BY <4>1, <4>2
    <3>5. CASE LastWrites(a, k) = {}
      BY <2>2, <3>4, <3>5 DEF ApplyOps
    <3>6. CASE LastWrites(a, k) # {}
      <4>1. (CHOOSE i \in LastWrites(a, k) : TRUE) \in LastWrites(a, k)
        BY <3>6
      <4>2. (CHOOSE i \in LastWrites(a, k) : TRUE) \in 1 .. Len(a)
        BY <1>1, <4>1 DEF LastWrites
      <4>3. c[CHOOSE i \in LastWrites(c, k) : TRUE] = a[CHOOSE i \in LastWrites(a, k) : TRUE]
        BY <3>3, <3>4, <4>2
      <4>4. QED
        BY <2>2, <3>4, <3>6, <4>3 DEF ApplyOps
    <3>7. QED
      BY <3>5, <3>6
  <2>3. QED
    BY <2>1, <2>2
<1>3. /\ ApplyOps(store, c) = [k \in Keys |-> ApplyOps(store, c)[k]]
      /\ ApplyOps(ApplyOps(store, a), b) = [k \in Keys |-> ApplyOps(ApplyOps(store, a), b)[k]]
  BY DEF ApplyOps
<1>4. QED
  BY <1>2, <1>3 DEF c

(* Where the elements of a slice come from.                                *)
LEMMA SliceElements ==
  ASSUME NEW S, NEW s \in Seq(S), NEW m \in Nat, NEW n \in Nat, m + n =< Len(s)
  PROVE  /\ SubSeq(s, m + 1, m + n) \in Seq(S)
         /\ Len(SubSeq(s, m + 1, m + n)) = n
         /\ \A j \in 1 .. n : SubSeq(s, m + 1, m + n)[j] = s[m + j]
<1> DEFINE a == m + 1
           b == m + n
<1>1. a \in Int /\ b \in Int /\ b - a + 1 = n /\ \A i \in a .. b : s[i] \in S
  OBVIOUS
<1>2. \A j \in 1 .. n : a + j - 1 = m + j
  OBVIOUS
<1>3. a =< b => b - a + 1 = n
  BY <1>1
<1>4. ~(a =< b) => n = 0
  OBVIOUS
<1> HIDE DEF a, b
<1>5. /\ SubSeq(s, a, b) \in Seq(S)
      /\ Len(SubSeq(s, a, b)) = IF a =< b THEN b - a + 1 ELSE 0
      /\ \A i \in 1 .. b - a + 1 : SubSeq(s, a, b)[i] = s[a + i - 1]
  BY <1>1, SubSeqProperties
<1>6. /\ SubSeq(s, a, b) \in Seq(S)
      /\ Len(SubSeq(s, a, b)) = n
      /\ \A j \in 1 .. n : SubSeq(s, a, b)[j] = s[m + j]
  BY <1>1, <1>2, <1>3, <1>4, <1>5
<1>7. QED
  BY <1>6 DEF a, b

(* A payload is the transaction's operations, back to back.                *)
LEMMA PayloadCells ==
  ASSUME NEW ops \in Seq(Op)
  PROVE  /\ Payload(ops) \in Seq(DataCell) /\ Payload(ops) \in Seq(Cell)
         /\ Len(Payload(ops)) = Len(ops)
         /\ \A j \in 1 .. Len(ops) : Payload(ops)[j] = OpCell(ops[j])
<1>1. \A j \in 1 .. Len(ops) : OpCell(ops[j]) \in DataCell
  BY DEF OpCell, DataCell
<1>2. Payload(ops) = [j \in 1 .. Len(ops) |-> OpCell(ops[j])]
  BY DEF Payload
<1>3. Payload(ops) \in Seq(DataCell)
  BY <1>1, <1>2
<1>4. DataCell \subseteq Cell
  BY DEF Cell
<1>5. QED
  BY <1>2, <1>3, <1>4

(* What encodeRecord writes, cell by cell.                                 *)
LEMMA RecordCells ==
  ASSUME NEW ops \in Seq(Op), NEW isLegacy \in BOOLEAN
  PROVE  LET rec == EncodeRecord(ops, isLegacy)
             h   == RecordHeader(isLegacy)
         IN  /\ rec \in Seq(Cell)
             /\ Len(rec) = RecordSize(ops, isLegacy)
             /\ rec[1] = U32(Len(ops))
             /\ ~isLegacy => rec[2] = Sum(<<U32(Len(ops))>>)
             /\ rec[h] = Sum(Payload(ops))
             /\ \A j \in 1 .. Len(ops) : rec[h + j] = OpCell(ops[j])
<1> DEFINE n == Len(ops)
           pay == Payload(ops)
           head == IF isLegacy THEN <<U32(n), Sum(pay)>>
                   ELSE <<U32(n), Sum(<<U32(n)>>), Sum(pay)>>
<1>1. n \in Nat /\ DOMAIN ops = 1 .. n /\ \A j \in 1 .. n : ops[j] \in Op
  OBVIOUS
<1>2. /\ pay \in Seq(DataCell) /\ pay \in Seq(Cell) /\ Len(pay) = n
      /\ \A j \in 1 .. n : pay[j] = OpCell(ops[j])
  BY PayloadCells
<1>3. U32(n) \in DataCell /\ <<U32(n)>> \in Seq(DataCell) /\ <<U32(n)>> # << >>
  BY <1>1 DEF U32, DataCell
<1>4. \A cells \in Seq(DataCell) : Sum(cells) \in Cell
  BY DEF Sum, U32, Cell, DataCell
<1>5. DataCell \subseteq Cell
  BY DEF Cell
<1>6. pay \in Seq(Cell)
  BY <1>2
<1>7. /\ head \in Seq(Cell) /\ Len(head) = RecordHeader(isLegacy)
      /\ head[1] = U32(n) /\ head[RecordHeader(isLegacy)] = Sum(pay)
      /\ ~isLegacy => head[2] = Sum(<<U32(n)>>)
  <2> HIDE DEF pay
  <2>1. Sum(pay) \in Cell /\ U32(n) \in Cell /\ Sum(<<U32(n)>>) \in Cell
    BY <1>2, <1>3, <1>4, <1>5
  <2>2. QED
    BY <2>1 DEF RecordHeader
<1>8. EncodeRecord(ops, isLegacy) = head \o pay
  BY DEF EncodeRecord
<1>9. QED
  <2> HIDE DEF head, pay
  <2>1. RecordHeader(isLegacy) \in Nat /\ RecordHeader(isLegacy) >= 2
    BY DEF RecordHeader
  <2>2. /\ head \o pay \in Seq(Cell)
        /\ Len(head \o pay) = RecordHeader(isLegacy) + n
        /\ \A j \in 1 .. RecordHeader(isLegacy) : (head \o pay)[j] = head[j]
        /\ \A j \in 1 .. n : (head \o pay)[RecordHeader(isLegacy) + j] = pay[j]
    <3>1. head \in Seq(Cell) /\ pay \in Seq(Cell)
      BY <1>6, <1>7
    <3>2. /\ head \o pay \in Seq(Cell)
          /\ Len(head \o pay) = Len(head) + Len(pay)
          /\ \A j \in 1 .. Len(head) : (head \o pay)[j] = head[j]
          /\ \A j \in 1 .. Len(pay) : (head \o pay)[Len(head) + j] = pay[j]
      BY <3>1, ConcatElements
    <3>3. Len(head) = RecordHeader(isLegacy) /\ Len(pay) = n
      BY <1>2, <1>7
    <3>4. QED
      BY <3>2, <3>3
  <2>3. pay = Payload(ops)
    BY DEF pay
  <2>4. 1 \in 1 .. RecordHeader(isLegacy) /\ 2 \in 1 .. RecordHeader(isLegacy)
        /\ RecordHeader(isLegacy) \in 1 .. RecordHeader(isLegacy)
    BY <2>1
  <2>5. /\ (head \o pay)[1] = U32(n)
        /\ ~isLegacy => (head \o pay)[2] = Sum(<<U32(n)>>)
        /\ (head \o pay)[RecordHeader(isLegacy)] = Sum(pay)
    BY <1>7, <2>2, <2>4
  <2>6. \A j \in 1 .. n : (head \o pay)[RecordHeader(isLegacy) + j] = OpCell(ops[j])
    BY <1>2, <2>2
  <2>7. Len(head \o pay) = RecordSize(ops, isLegacy)
    BY <2>2 DEF RecordSize
  <2>8. QED
    BY <1>8, <2>2, <2>3, <2>5, <2>6, <2>7

(* Different u32 numbers are different cells, and a checksum names what it   *)
(* was computed from.                                                      *)
LEMMA SumInjective ==
  ASSUME NEW a \in Seq(Cell), NEW b \in Seq(Cell), a # << >>
  PROVE  Sum(a) = Sum(b) => a = b
BY DEF Sum, U32

(* The recovery loop replays a complete record, with the operations that     *)
(* were journaled, and goes on right behind it.                            *)
LEMMA CompleteRecordReplays ==
  ASSUME NEW log \in Seq(Cell), NEW offset \in Nat, NEW isLegacy \in BOOLEAN,
         NEW ops \in Seq(Op), offset + RecordSize(ops, isLegacy) =< Len(log),
         HoldsRecord(log, offset, ops, isLegacy)
  PROVE  /\ Verdict(log, offset, isLegacy) = "replay"
         /\ RecordEnd(log, offset, isLegacy) = offset + RecordSize(ops, isLegacy)
         /\ RecordPayload(log, offset, isLegacy) = Payload(ops)
         /\ OpsOf(RecordPayload(log, offset, isLegacy)) = ops
<1> DEFINE n == Len(ops)
           h == RecordHeader(isLegacy)
           pay == RecordPayload(log, offset, isLegacy)
<1>1. n \in Nat /\ h \in {2, 3} /\ (isLegacy <=> h = 2) /\ Len(log) \in Nat
      /\ RecordSize(ops, isLegacy) = h + n
  BY DEF RecordHeader, RecordSize
<1>2. \A j \in 1 .. h + n : log[offset + j] = EncodeRecord(ops, isLegacy)[j]
  BY <1>1 DEF HoldsRecord
<1>3. /\ log[offset + 1] = U32(n)
      /\ ~isLegacy => log[offset + 2] = Sum(<<U32(n)>>)
      /\ log[offset + h] = Sum(Payload(ops))
  <2>1. 1 \in 1 .. h + n /\ 2 \in 1 .. h + n /\ h \in 1 .. h + n
    BY <1>1
  <2>2. QED
    BY <2>1, <1>2, RecordCells
<1>4. \A j \in 1 .. n : log[offset + h + j] = OpCell(ops[j])
  <2>1. ASSUME NEW j \in 1 .. n PROVE log[offset + (h + j)] = OpCell(ops[j])
    <3>1. h + j \in 1 .. h + n
      BY <1>1
    <3>2. EncodeRecord(ops, isLegacy)[h + j] = OpCell(ops[j])
      BY RecordCells
    <3>3. QED
      BY <3>1, <3>2, <1>2
  <2>2. \A j \in 1 .. n : offset + h + j = offset + (h + j)
    BY <1>1
  <2>3. QED
    BY <2>1, <2>2
<1>5. ReadU32(log, offset + 1) = n
  BY <1>3 DEF ReadU32, U32
<1>6. RecordStart(offset, isLegacy) = offset + h /\ RecordEnd(log, offset, isLegacy) = offset + h + n
  BY <1>5 DEF RecordStart, RecordEnd
<1>7. pay = Payload(ops)
  <2>1. pay = SubSeq(log, offset + h + 1, offset + h + n)
    BY <1>6 DEF RecordPayload
  <2>2. offset + h \in Nat /\ (offset + h) + n =< Len(log)
    BY <1>1
  <2>3. /\ pay \in Seq(Cell) /\ Len(pay) = n
        /\ \A j \in 1 .. n : pay[j] = log[offset + h + j]
    <3> DEFINE m == offset + h
    <3>1. m \in Nat /\ n \in Nat /\ m + n =< Len(log) /\ pay = SubSeq(log, m + 1, m + n)
      BY <2>1, <2>2, <1>1
    <3> HIDE DEF m, n, pay
    <3>2. /\ pay \in Seq(Cell) /\ Len(pay) = n
          /\ \A j \in 1 .. n : pay[j] = log[m + j]
      BY <3>1, SliceElements
    <3>3. QED
      BY <3>2 DEF m
  <2>4. Payload(ops) \in Seq(Cell) /\ Len(Payload(ops)) = n
        /\ \A j \in 1 .. n : Payload(ops)[j] = OpCell(ops[j])
    BY PayloadCells
  <2>5. \A j \in 1 .. n : pay[j] = Payload(ops)[j]
    BY <2>3, <2>4, <1>4
  <2>6. QED
    BY <2>3, <2>4, <2>5, SeqEqual
<1>8. /\ HeaderPresent(log, offset, isLegacy)
      /\ HeaderSound(log, offset, isLegacy)
      /\ PayloadPresent(log, offset, isLegacy)
      /\ PayloadSound(log, offset, isLegacy)
  <2>1. HeaderPresent(log, offset, isLegacy) /\ PayloadPresent(log, offset, isLegacy)
    BY <1>1, <1>6 DEF HeaderPresent, PayloadPresent
  <2>2. HeaderSound(log, offset, isLegacy)
    BY <1>3 DEF HeaderSound
  <2>3. PayloadSound(log, offset, isLegacy)
    BY <1>3, <1>6, <1>7 DEF PayloadSound
  <2>4. QED
    BY <2>1, <2>2, <2>3
<1>9. WellFormed(Payload(ops)) /\ OpsOf(Payload(ops)) = ops
  BY DEF WellFormed, OpsOf, Payload, OpCell
<1>10. Verdict(log, offset, isLegacy) = "replay"
  BY <1>7, <1>8, <1>9 DEF Verdict
<1>11. QED
  BY <1>1, <1>6, <1>7, <1>9, <1>10

(* It stops, without an error, at a record that was cut off anywhere, and    *)
(* at the end of the log.                                                  *)
LEMMA TornRecordEnds ==
  ASSUME NEW log \in Seq(Cell), NEW offset \in Nat, NEW isLegacy \in BOOLEAN,
         NEW ops \in Seq(Op), Len(log) < offset + RecordSize(ops, isLegacy),
         HoldsRecord(log, offset, ops, isLegacy)
  PROVE  Verdict(log, offset, isLegacy) = "end"
<1> DEFINE n == Len(ops)
           h == RecordHeader(isLegacy)
<1>1. n \in Nat /\ h \in {2, 3} /\ (isLegacy <=> h = 2) /\ Len(log) \in Nat
      /\ RecordSize(ops, isLegacy) = h + n
  BY DEF RecordHeader, RecordSize
<1>2. CASE ~HeaderPresent(log, offset, isLegacy)
  BY <1>2 DEF Verdict
<1>3. CASE HeaderPresent(log, offset, isLegacy)
  <2>1. offset + h =< Len(log)
    BY <1>3 DEF HeaderPresent, RecordStart
  <2>2. log[offset + 1] = U32(n) /\ (~isLegacy => log[offset + 2] = Sum(<<U32(n)>>))
    <3>1. 1 \in 1 .. h + n /\ 2 \in 1 .. h + n
      BY <1>1
    <3>2. offset + 1 =< Len(log) /\ offset + 2 =< Len(log)
      BY <2>1, <1>1
    <3>3. log[offset + 1] = EncodeRecord(ops, isLegacy)[1]
          /\ log[offset + 2] = EncodeRecord(ops, isLegacy)[2]
      BY <3>1, <3>2, <1>1 DEF HoldsRecord
    <3>4. QED
      BY <3>3, RecordCells
  <2>3. HeaderSound(log, offset, isLegacy)
    BY <2>2 DEF HeaderSound
  <2>4. RecordEnd(log, offset, isLegacy) = offset + h + n
    BY <2>2 DEF RecordEnd, RecordStart, ReadU32, U32
  <2>5. ~PayloadPresent(log, offset, isLegacy)
    BY <2>4, <1>1 DEF PayloadPresent
  <2>6. QED
    BY <1>3, <2>3, <2>5 DEF Verdict
<1>4. QED
  BY <1>2, <1>3

(* A file that begins with a complete v0.1.x record is recognised as such,   *)
(* whatever follows it (isLegacyLog, and the probe in recover()).           *)
LEMMA LegacyFileRecognised ==
  ASSUME NEW log \in Seq(Cell), NEW isLegacy \in BOOLEAN, isLegacy = TRUE,
         NEW ops \in Seq(Op), ops # << >>,
         RecordSize(ops, isLegacy) =< Len(log), HoldsRecord(log, 0, ops, isLegacy)
  PROVE  Recognise(log) = "legacy"
<1>1. Len(ops) \in Nat /\ Len(ops) # 0 /\ RecordSize(ops, isLegacy) = 2 + Len(ops)
  BY DEF RecordHeader, RecordSize
<1>2. 1 \in 1 .. RecordSize(ops, isLegacy) /\ 0 + 1 = 1 /\ 1 =< Len(log) /\ 2 =< Len(log)
  BY <1>1
<1>3. log[1] = U32(Len(ops))
  <2>1. log[0 + 1] = EncodeRecord(ops, isLegacy)[1]
    BY <1>2 DEF HoldsRecord
  <2>2. QED
    BY <1>2, <2>1, RecordCells
<1>4. Verdict(log, 0, isLegacy) = "replay"
  <2>1. 0 \in Nat /\ 0 + RecordSize(ops, isLegacy) =< Len(log)
    BY <1>1
  <2>2. QED
    BY <2>1, CompleteRecordReplays
<1>5. /\ HeaderPresent(log, 0, isLegacy) /\ PayloadPresent(log, 0, isLegacy)
      /\ PayloadSound(log, 0, isLegacy) /\ WellFormed(RecordPayload(log, 0, isLegacy))
  BY <1>4 DEF Verdict
<1>6. ReadU32(log, 1) # 0
  BY <1>1, <1>3 DEF ReadU32, U32
<1>7. log[1] # Magic
  BY <1>3 DEF Magic, U32
<1>8. log # << >> /\ ~(Len(log) < FILE_HEADER)
  BY <1>2 DEF FILE_HEADER
<1>9. IsLegacyLog(log)
  BY <1>5, <1>6, Zenon DEF IsLegacyLog
<1>10. QED
  BY <1>7, <1>8, <1>9 DEF Recognise
=============================================================================
