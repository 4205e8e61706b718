-------------------------- MODULE OrderedStoreProofs --------------------------
(***************************************************************************)
(* The keys: their byte order is a total order, a prefix range holds exactly *)
(* the keys with the prefix, and namespaces are disjoint.                    *)
(*                                                                         *)
(* The array of entries: it stays sorted, the binary search finds the key or  *)
(* its place, and every call is that of a map whose keys are in byte order.   *)
(*                                                                         *)
(* All of it for all bytes, keys, values and lengths.                       *)
(***************************************************************************)
EXTENDS OrderedStore, FiniteSetTheorems, SequenceTheorems, WellFoundedInduction, TLAPS

-----------------------------------------------------------------------------
(* Sets of naturals.  The library's least-number principle takes an operator *)
(* as its parameter; that strict inclusion of finite sets is well founded    *)
(* serves instead, on the intervals below and above the members.            *)

(* Of a family of finite sets, one includes no other.                       *)
LEMMA MinimalMember ==
  ASSUME NEW T, T # {}, \A I \in T : IsFiniteSet(I)
  PROVE  \E I \in T : \A J \in T : ~(J \subseteq I /\ J # I)
<1> DEFINE S == UNION T
           R == StrictSubsetOrdering(S)
<1>1. T \subseteq FiniteSubsetsOf(S)
  BY DEF FiniteSubsetsOf
<1>2. \E I \in T : \A J \in T : ~(<<J, I>> \in R)
  <2> HIDE DEF S, R
  <2>1. IsWellFoundedOn(R, FiniteSubsetsOf(S))
    BY FS_StrictSubsetOrderingWellFounded DEF R
  <2> QED
    BY <2>1, <1>1, WFMin
<1>3. ASSUME NEW I \in T, NEW J \in T, J \subseteq I, J # I
      PROVE  <<J, I>> \in R
  BY <1>3 DEF StrictSubsetOrdering
<1> QED
  BY <1>2, <1>3

(* A set of positive numbers has a least element.                           *)
LEMMA LeastNatural ==
  ASSUME NEW S \in SUBSET Nat, S # {}
  PROVE  Min(S) \in S /\ \A n \in S : Min(S) =< n
<1> DEFINE T == {0 .. n : n \in S}
<1>1. PICK I \in T : \A J \in T : ~(J \subseteq I /\ J # I)
  <2>1. \A J \in T : IsFiniteSet(J)
    BY FS_Interval
  <2>2. T # {}
    OBVIOUS
  <2> HIDE DEF T
  <2> QED
    BY <2>1, <2>2, MinimalMember
<1>2. PICK x \in S : I = 0 .. x
  OBVIOUS
<1>3. ASSUME NEW n \in S PROVE x =< n
  <2> SUFFICES ASSUME n < x PROVE FALSE
    OBVIOUS
  <2>1. 0 .. n \subseteq I /\ 0 .. n # I
    BY <1>2
  <2> QED
    BY <2>1, <1>1
<1> QED
  BY <1>3 DEF Min

(* A bounded set of natural numbers has a greatest element.                  *)
LEMMA GreatestNatural ==
  ASSUME NEW S \in SUBSET Nat, S # {}, NEW bound \in Nat, \A n \in S : n =< bound
  PROVE  Max(S) \in S /\ \A n \in S : n =< Max(S)
<1> DEFINE T == {bound - n : n \in S}
<1>1. T \in SUBSET Nat /\ T # {}
  <2>1. \A n \in S : bound - n \in Nat
    OBVIOUS
  <2> QED
    BY <2>1
<1>2. Min(T) \in T /\ \A m \in T : Min(T) =< m
  BY <1>1, LeastNatural
<1>3. PICK x \in S : Min(T) = bound - x
  BY <1>2
<1>4. \A n \in S : n =< x
  <2> TAKE n \in S
  <2>1. bound - x =< bound - n
    BY <1>2, <1>3
  <2> QED
    BY <2>1
<1> QED
  BY <1>4 DEF Max

-----------------------------------------------------------------------------
(* The order.                                                              *)

(* Unequal keys differ somewhere in common or in length; the first           *)
(* difference decides.                                                     *)
LEMMA FirstDifference ==
  ASSUME NEW a \in Key, NEW b \in Key, Differences(a, b) # {}
  PROVE  LET i == Min(Differences(a, b))
         IN  /\ i \in DOMAIN a \cap DOMAIN b
             /\ a[i] # b[i]
             /\ \A j \in DOMAIN a \cap DOMAIN b : j < i => a[j] = b[j]
<1>1. Differences(a, b) \in SUBSET Nat
  BY DEF Differences, Key
<1>2. /\ Min(Differences(a, b)) \in Differences(a, b)
      /\ \A j \in Differences(a, b) : Min(Differences(a, b)) =< j
  BY <1>1, LeastNatural
<1>3. /\ Min(Differences(a, b)) \in DOMAIN a \cap DOMAIN b
      /\ a[Min(Differences(a, b))] # b[Min(Differences(a, b))]
  BY <1>2 DEF Differences
<1>4. ASSUME NEW j \in DOMAIN a \cap DOMAIN b, j < Min(Differences(a, b))
      PROVE  a[j] = b[j]
  <2>1. ~(Min(Differences(a, b)) =< j)
    BY <1>1, <1>2, <1>4 DEF Key
  <2> QED
    BY <1>2, <2>1 DEF Differences
<1> QED
  BY <1>3, <1>4

(* compareKeys is a number.                                                *)
LEMMA CompareType ==
  ASSUME NEW a \in Key, NEW b \in Key
  PROVE  CompareKeys(a, b) \in Int
BY FirstDifference, MaxByteAssumption DEF CompareKeys, Key, Byte

(* Keys that compare as equal are equal.                                    *)
THEOREM CompareEqual ==
  ASSUME NEW a \in Key, NEW b \in Key
  PROVE  CompareKeys(a, b) = 0 <=> a = b
<1>1. ASSUME a = b PROVE CompareKeys(a, b) = 0
  BY <1>1 DEF CompareKeys, Differences, Key
<1>2. ASSUME CompareKeys(a, b) = 0 PROVE a = b
  <2>1. Differences(a, b) = {}
    BY <1>2, FirstDifference, MaxByteAssumption DEF CompareKeys, Key, Byte
  <2>2. Len(a) = Len(b)
    BY <1>2, <2>1 DEF CompareKeys, Key
  <2> QED
    BY <2>1, <2>2 DEF Differences, Key
<1> QED
  BY <1>1, <1>2

(* Swapping the keys swaps the sign.                                       *)
LEMMA CompareSwap ==
  ASSUME NEW a \in Key, NEW b \in Key
  PROVE  CompareKeys(b, a) = 0 - CompareKeys(a, b)
<1>1. Differences(a, b) = Differences(b, a)
  BY DEF Differences
<1> QED
  BY <1>1, FirstDifference, MaxByteAssumption DEF CompareKeys, Key, Byte

(* The order in terms of the bytes.                                         *)
LEMMA BeforeBytes ==
  ASSUME NEW a \in Key, NEW b \in Key
  PROVE  Before(a, b) <=>
           \/ /\ Len(a) < Len(b)
              /\ \A i \in 1 .. Len(a) : a[i] = b[i]
           \/ \E n \in 1 .. Len(a) :
                /\ n =< Len(b)
                /\ \A i \in 1 .. n - 1 : a[i] = b[i]
                /\ a[n] < b[n]
<1> DEFINE n == Min(Differences(a, b))
<1>1. CASE Differences(a, b) = {}
  <2>1. \A i \in DOMAIN a \cap DOMAIN b : a[i] = b[i]
    BY <1>1 DEF Differences
  <2>2. Before(a, b) <=> Len(a) < Len(b)
    BY <1>1 DEF Before, CompareKeys, Key
  <2>3. ASSUME NEW m \in 1 .. Len(a), m =< Len(b)
        PROVE  ~(a[m] < b[m])
    <3>1. a[m] = b[m] /\ a[m] \in Byte
      BY <2>1, <2>3 DEF Key
    <3> QED
      BY <3>1 DEF Byte
  <2>4. Len(a) < Len(b) => \A i \in 1 .. Len(a) : a[i] = b[i]
    BY <2>1 DEF Key
  <2> QED
    BY <2>2, <2>3, <2>4
<1>2. CASE Differences(a, b) # {}
  <2>1. /\ n \in 1 .. Len(a) /\ n =< Len(b)
        /\ a[n] # b[n]
        /\ \A i \in 1 .. n - 1 : a[i] = b[i]
    BY <1>2, FirstDifference DEF Key
  <2>2. Before(a, b) <=> a[n] < b[n]
    BY <1>2, <2>1, MaxByteAssumption DEF Before, CompareKeys, Key, Byte
  <2>3. a[n] \in Byte /\ b[n] \in Byte /\ n \in Nat
    BY <2>1 DEF Key
  <2> HIDE DEF n
  <2>4. ~(\A i \in 1 .. Len(a) : a[i] = b[i])
    BY <2>1
  <2>5. ASSUME NEW m \in 1 .. Len(a), m =< Len(b),
               \A i \in 1 .. m - 1 : a[i] = b[i], a[m] < b[m]
        PROVE  m = n
    <3>1. a[m] \in Byte
      BY DEF Key
    <3>2. ~(m < n)
      BY <2>1, <2>5, <3>1, MaxByteAssumption DEF Byte
    <3>3. ~(n < m)
      BY <2>1, <2>3, <2>5
    <3> QED
      BY <2>3, <3>2, <3>3
  <2> QED
    BY <2>1, <2>2, <2>4, <2>5
<1> QED
  BY <1>1, <1>2

(* The byte order is a strict total order on keys.                          *)
THEOREM ByteOrderIsTotal ==
  ASSUME NEW a \in Key, NEW b \in Key
  PROVE  /\ ~(Before(a, b) /\ Before(b, a))
         /\ Before(a, b) \/ Before(b, a) \/ a = b
BY CompareSwap, CompareType, CompareEqual DEF Before

(* A key before one that is before a third is before the third.              *)
THEOREM ByteOrderIsTransitive ==
  ASSUME NEW a \in Key, NEW b \in Key, NEW c \in Key, Before(a, b), Before(b, c)
  PROVE  Before(a, c)
<1>1. CASE /\ Len(a) < Len(b)
           /\ \A i \in 1 .. Len(a) : a[i] = b[i]
  <2>1. CASE /\ Len(b) < Len(c)
             /\ \A i \in 1 .. Len(b) : b[i] = c[i]
    BY <1>1, <2>1, BeforeBytes DEF Key
  <2>2. ASSUME NEW m \in 1 .. Len(b), m =< Len(c),
               \A i \in 1 .. m - 1 : b[i] = c[i], b[m] < c[m]
        PROVE  Before(a, c)
    <3>1. CASE m > Len(a)
      <4>1. Len(a) < Len(c) /\ \A i \in 1 .. Len(a) : a[i] = c[i]
        BY <1>1, <2>2, <3>1 DEF Key
      <4> QED
        BY <4>1, BeforeBytes
    <3>2. CASE m =< Len(a)
      <4>1. m \in 1 .. Len(a) /\ (\A i \in 1 .. m - 1 : a[i] = c[i]) /\ a[m] < c[m]
        BY <1>1, <2>2, <3>2 DEF Key
      <4> QED
        BY <2>2, <4>1, BeforeBytes
    <3> QED
      BY <3>1, <3>2 DEF Key
  <2> QED
    BY <2>1, <2>2, BeforeBytes
<1>2. ASSUME NEW n \in 1 .. Len(a), n =< Len(b),
             \A i \in 1 .. n - 1 : a[i] = b[i], a[n] < b[n]
      PROVE  Before(a, c)
  <2>1. CASE /\ Len(b) < Len(c)
             /\ \A i \in 1 .. Len(b) : b[i] = c[i]
    <3>1. n =< Len(c) /\ (\A i \in 1 .. n - 1 : a[i] = c[i]) /\ a[n] < c[n]
      BY <1>2, <2>1 DEF Key
    <3> QED
      BY <3>1, BeforeBytes
  <2>2. ASSUME NEW m \in 1 .. Len(b), m =< Len(c),
               \A i \in 1 .. m - 1 : b[i] = c[i], b[m] < c[m]
        PROVE  Before(a, c)
    <3>0. a[n] \in Byte /\ b[n] \in Byte /\ b[m] \in Byte /\ c[m] \in Byte
      BY <1>2, <2>2 DEF Key
    <3>1. CASE m < n
      <4>1. m \in 1 .. Len(a) /\ (\A i \in 1 .. m - 1 : a[i] = c[i]) /\ a[m] < c[m]
        BY <1>2, <2>2, <3>1 DEF Key
      <4> QED
        BY <2>2, <4>1, BeforeBytes
    <3>2. CASE n =< m
      <4>1. n =< Len(c) /\ (\A i \in 1 .. n - 1 : a[i] = c[i])
        BY <1>2, <2>2, <3>2 DEF Key
      <4>2. n = m \/ b[n] = c[n]
        BY <1>2, <2>2, <3>2
      <4>3. a[n] < c[n]
        BY <1>2, <2>2, <3>0, <4>2, MaxByteAssumption DEF Byte
      <4> QED
        BY <4>1, <4>3, BeforeBytes
    <3> QED
      BY <3>1, <3>2 DEF Key
  <2> QED
    BY <2>1, <2>2, BeforeBytes
<1> QED
  BY <1>1, <1>2, BeforeBytes

-----------------------------------------------------------------------------
(* Prefix ranges.                                                          *)

(* IsPrefix byte by byte.                                                  *)
LEMMA PrefixBytes ==
  ASSUME NEW p \in Key, NEW k \in Key
  PROVE  IsPrefix(p, k) <=> /\ Len(p) =< Len(k)
                            /\ \A i \in 1 .. Len(p) : p[i] = k[i]
<1>1. SubSeq(p, 1, Len(p)) = p
  BY DEF Key
<1>2. ASSUME Len(p) =< Len(k)
      PROVE  /\ SubSeq(k, 1, Len(p)) \in Key
             /\ Len(SubSeq(k, 1, Len(p))) = Len(p)
             /\ \A i \in 1 .. Len(p) : SubSeq(k, 1, Len(p))[i] = k[i]
  BY <1>2 DEF Key
<1>3. ASSUME Len(p) =< Len(k), \A i \in 1 .. Len(p) : p[i] = k[i]
      PROVE  SubSeq(k, 1, Len(p)) = p
  BY <1>2, <1>3 DEF Key
<1> QED
  BY <1>1, <1>2, <1>3 DEF IsPrefix

(* The last byte that can be counted up, and the greatest ones behind it.    *)
LEMMA KeptBytes ==
  ASSUME NEW p \in Key
  PROVE  /\ Kept(p) \in 0 .. Len(p)
         /\ Kept(p) > 0 => p[Kept(p)] # MaxByte
         /\ \A i \in 1 .. Len(p) : i > Kept(p) => p[i] = MaxByte
<1> DEFINE I == {i \in 1 .. Len(p) : p[i] # MaxByte}
<1>1. Kept(p) = IF I # {} THEN Max(I) ELSE 0
  BY DEF Kept, SelectLastInSeq
<1>2. I # {} => Max(I) \in I /\ \A n \in I : n =< Max(I)
  <2>1. I \in SUBSET Nat /\ (\A n \in I : n =< Len(p)) /\ Len(p) \in Nat
    BY DEF Key
  <2> HIDE DEF I
  <2> QED
    BY <2>1, GreatestNatural
<1>3. CASE I = {}
  BY <1>1, <1>3 DEF Key
<1>4. CASE I # {}
  <2>1. Kept(p) \in I /\ \A n \in I : n =< Kept(p)
    BY <1>1, <1>2, <1>4
  <2>2. ASSUME NEW i \in 1 .. Len(p), i > Kept(p)
        PROVE  p[i] = MaxByte
    <3>1. ~(i =< Kept(p))
      BY <2>1, <2>2
    <3> QED
      BY <2>1, <3>1
  <2> QED
    BY <2>1, <2>2 DEF Key
<1> QED
  BY <1>3, <1>4

(* The bound is a key: the kept bytes, the last of them counted up.          *)
LEMMA UpperBoundBytes ==
  ASSUME NEW p \in Key, HasUpperBound(p)
  PROVE  /\ UpperBound(p) \in Key
         /\ Len(UpperBound(p)) = Kept(p)
         /\ \A i \in 1 .. Kept(p) - 1 : UpperBound(p)[i] = p[i]
         /\ UpperBound(p)[Kept(p)] = p[Kept(p)] + 1
<1> DEFINE m == Kept(p)
<1>1. m \in 1 .. Len(p) /\ p[m] # MaxByte
  BY KeptBytes DEF HasUpperBound
<1>2. /\ SubSeq(p, 1, m) \in Key
      /\ Len(SubSeq(p, 1, m)) = m
      /\ \A i \in 1 .. m : SubSeq(p, 1, m)[i] = p[i]
  BY <1>1 DEF Key
<1>3. p[m] + 1 \in Byte
  BY <1>1, MaxByteAssumption DEF Key, Byte
<1> DEFINE q == SubSeq(p, 1, m)
<1>4. UpperBound(p) = [q EXCEPT ![m] = p[m] + 1]
  <2>1. UpperBound(p) = [q EXCEPT ![m] = q[m] + 1]
    BY DEF UpperBound
  <2>2. q[m] = p[m]
    BY <1>1, <1>2
  <2> QED
    BY <2>1, <2>2
<1>5. /\ q \in Seq(Byte) /\ m \in 1 .. Len(q) /\ Len(q) = m
      /\ \A i \in 1 .. m : q[i] = p[i]
  BY <1>1, <1>2 DEF Key
<1> HIDE DEF m, q
<1>6. /\ [q EXCEPT ![m] = p[m] + 1] \in Seq(Byte)
      /\ Len([q EXCEPT ![m] = p[m] + 1]) = m
      /\ \A i \in 1 .. m - 1 : [q EXCEPT ![m] = p[m] + 1][i] = q[i]
      /\ [q EXCEPT ![m] = p[m] + 1][m] = p[m] + 1
  BY <1>3, <1>5, ExceptSeq
<1> QED
  BY <1>4, <1>5, <1>6 DEF Key, m

(* prefixRange(): the range holds the keys with the prefix, and no others.   *)
THEOREM PrefixRangeIsExact ==
  ASSUME NEW p \in Key, NEW k \in Key, HasUpperBound(p)
  PROVE  InRange(k, PrefixRange(p)) <=> IsPrefix(p, k)
<1> DEFINE m == Kept(p)
           end == UpperBound(p)
<1>1. /\ m \in 1 .. Len(p) /\ p[m] # MaxByte
      /\ \A i \in 1 .. Len(p) : i > m => p[i] = MaxByte
  BY KeptBytes DEF HasUpperBound
<1>2. /\ end \in Key /\ Len(end) = m
      /\ \A i \in 1 .. m - 1 : end[i] = p[i]
      /\ end[m] = p[m] + 1
  BY UpperBoundBytes
<1>3. InRange(k, PrefixRange(p)) <=> ~Before(k, p) /\ Before(k, end)
  BY CompareType DEF InRange, PrefixRange, Before
<1>4. /\ Len(p) \in Nat /\ Len(k) \in Nat
      /\ \A i \in 1 .. Len(p) : p[i] \in 0 .. MaxByte
      /\ \A i \in 1 .. Len(k) : k[i] \in 0 .. MaxByte
  <2>1. /\ \A i \in 1 .. Len(p) : p[i] \in Byte
        /\ \A i \in 1 .. Len(k) : k[i] \in Byte
    BY DEF Key
  <2> QED
    BY <2>1 DEF Byte, Key
<1> HIDE DEF m, end
<1>5. ASSUME IsPrefix(p, k) PROVE ~Before(k, p) /\ Before(k, end)
  <2>1. Len(p) =< Len(k) /\ \A i \in 1 .. Len(p) : p[i] = k[i]
    BY <1>5, PrefixBytes
  <2>2. ~Before(k, p)
    BY <2>1, <1>4, MaxByteAssumption, BeforeBytes
  <2>3. m \in 1 .. Len(k) /\ (\A i \in 1 .. m - 1 : k[i] = end[i]) /\ k[m] < end[m]
    BY <2>1, <1>1, <1>2, <1>4, MaxByteAssumption
  <2>4. Before(k, end)
    BY <2>3, <1>2, BeforeBytes
  <2> QED
    BY <2>2, <2>4
<1>6. ASSUME ~Before(k, p), Before(k, end) PROVE IsPrefix(p, k)
  <2>1. ~(Len(k) < m /\ \A i \in 1 .. Len(k) : k[i] = end[i])
    <3> SUFFICES ASSUME Len(k) < m, \A i \in 1 .. Len(k) : k[i] = end[i]
                 PROVE  FALSE
      OBVIOUS
    <3>1. Len(k) < Len(p) /\ \A i \in 1 .. Len(k) : k[i] = p[i]
      BY <1>1, <1>2, <1>4
    <3> QED
      BY <3>1, <1>6, BeforeBytes
  <2>2. PICK n \in 1 .. Len(k) : /\ n =< m
                                 /\ \A i \in 1 .. n - 1 : k[i] = end[i]
                                 /\ k[n] < end[n]
    BY <2>1, <1>2, <1>6, BeforeBytes
  <2>3. \A i \in 1 .. n - 1 : k[i] = p[i]
    BY <2>2, <1>1, <1>2
  <2>4. ~(k[n] < p[n])
    BY <2>2, <2>3, <1>1, <1>6, BeforeBytes
  <2>5. n = m /\ k[m] = p[m]
    BY <2>2, <2>4, <1>1, <1>2, <1>4, MaxByteAssumption
  <2>6. Differences(k, p) = {}
    <3> SUFFICES ASSUME Differences(k, p) # {} PROVE FALSE
      OBVIOUS
    <3>1. PICK d \in DOMAIN k \cap DOMAIN p :
            k[d] # p[d] /\ \A j \in DOMAIN k \cap DOMAIN p : j < d => k[j] = p[j]
      BY FirstDifference
    <3>2. d \in 1 .. Len(k) /\ d \in 1 .. Len(p)
      BY <3>1 DEF Key
    <3>3. d > m
      BY <3>1, <3>2, <2>3, <2>5, <1>1
    <3>4. k[d] < p[d]
      BY <3>1, <3>2, <3>3, <1>1, <1>4, MaxByteAssumption
    <3>5. \A j \in 1 .. d - 1 : k[j] = p[j]
      BY <3>1, <3>2 DEF Key
    <3> QED
      BY <3>2, <3>4, <3>5, <1>6, BeforeBytes
  <2>7. \A i \in 1 .. Len(p) : i =< Len(k) => p[i] = k[i]
    BY <2>6 DEF Differences, Key
  <2>8. ~(Len(k) < Len(p))
    BY <2>7, <1>4, <1>6, BeforeBytes
  <2> QED
    BY <2>7, <2>8, <1>4, PrefixBytes
<1> QED
  BY <1>3, <1>5, <1>6

-----------------------------------------------------------------------------
(* Namespaces.                                                             *)

(* A collection's prefix is its name and a colon; a key adds the id.         *)
LEMMA KeyOfBytes ==
  ASSUME NEW name \in Key, NEW id \in Key
  PROVE  /\ CollectionPrefix(name) \in Key
         /\ KeyOf(name, id) \in Key
         /\ Len(CollectionPrefix(name)) = Len(name) + 1
         /\ Len(KeyOf(name, id)) = Len(name) + 1 + Len(id)
         /\ \A i \in 1 .. Len(name) : /\ CollectionPrefix(name)[i] = name[i]
                                      /\ KeyOf(name, id)[i] = name[i]
         /\ CollectionPrefix(name)[Len(name) + 1] = Colon
         /\ KeyOf(name, id)[Len(name) + 1] = Colon
         /\ \A i \in 1 .. Len(id) : KeyOf(name, id)[Len(name) + 1 + i] = id[i]
<1>1. /\ CollectionPrefix(name) \in Key
      /\ Len(CollectionPrefix(name)) = Len(name) + 1
      /\ \A i \in 1 .. Len(name) : CollectionPrefix(name)[i] = name[i]
      /\ CollectionPrefix(name)[Len(name) + 1] = Colon
  BY ColonAssumption DEF CollectionPrefix, Key
<1> QED
  BY <1>1 DEF KeyOf, Key

(* Every collection can be scanned: a colon can be counted up.               *)
LEMMA CollectionsHaveBounds ==
  ASSUME NEW name \in Key
  PROVE  HasUpperBound(CollectionPrefix(name))
<1>1. /\ CollectionPrefix(name) \in Key
      /\ Len(CollectionPrefix(name)) = Len(name) + 1
      /\ CollectionPrefix(name)[Len(name) + 1] = Colon
  BY KeyOfBytes
<1>2. Len(name) \in Nat
  BY DEF Key
<1> QED
  BY <1>1, <1>2, KeptBytes, ColonAssumption DEF HasUpperBound

(* doc(), table(): the scan of a collection finds its own keys and no other  *)
(* collection's, as no user name holds the colon that ends it.              *)
THEOREM CollectionScansItsOwn ==
  ASSUME NEW a \in Key, NEW b \in Key, UserName(a), UserName(b), NEW id \in Key
  PROVE  InRange(KeyOf(b, id), CollectionRange(a)) <=> a = b
<1> DEFINE p == CollectionPrefix(a)
           k == KeyOf(b, id)
<1>1. p \in Key /\ k \in Key
  BY KeyOfBytes
<1>2. InRange(k, CollectionRange(a)) <=> IsPrefix(p, k)
  BY <1>1, PrefixRangeIsExact, CollectionsHaveBounds DEF CollectionRange
<1>3. /\ Len(a) \in Nat /\ Len(b) \in Nat /\ Len(id) \in Nat
      /\ \A i \in 1 .. Len(a) : a[i] # Colon
      /\ \A i \in 1 .. Len(b) : b[i] # Colon
  BY DEF Key, UserName
<1>4. /\ Len(p) = Len(a) + 1 /\ p[Len(a) + 1] = Colon
      /\ \A i \in 1 .. Len(a) : p[i] = a[i]
  BY KeyOfBytes
<1>5. /\ Len(k) = Len(b) + 1 + Len(id) /\ k[Len(b) + 1] = Colon
      /\ \A i \in 1 .. Len(b) : k[i] = b[i]
  BY KeyOfBytes
<1> HIDE DEF p, k
<1>6. IsPrefix(p, k) <=> Len(p) =< Len(k) /\ \A i \in 1 .. Len(p) : p[i] = k[i]
  BY <1>1, PrefixBytes
<1>7. ASSUME a = b PROVE IsPrefix(p, k)
  <2>1. ASSUME NEW i \in 1 .. Len(a) + 1 PROVE p[i] = k[i]
    <3>1. i \in 1 .. Len(a) \/ i = Len(a) + 1
      BY <1>3
    <3> QED
      BY <3>1, <1>4, <1>5, <1>7
  <2> QED
    BY <2>1, <1>3, <1>4, <1>5, <1>6, <1>7
<1>8. ASSUME IsPrefix(p, k) PROVE a = b
  <2>1. \A i \in 1 .. Len(a) + 1 : p[i] = k[i]
    BY <1>4, <1>6, <1>8
  <2>2. ~(Len(a) < Len(b))
    <3> SUFFICES ASSUME Len(a) < Len(b) PROVE FALSE
      OBVIOUS
    <3>1. Len(a) + 1 \in 1 .. Len(b) /\ Len(a) + 1 \in 1 .. Len(a) + 1
      BY <1>3
    <3>2. k[Len(a) + 1] = Colon /\ k[Len(a) + 1] = b[Len(a) + 1]
      BY <2>1, <3>1, <1>4, <1>5
    <3> QED
      BY <3>1, <3>2, <1>3
  <2>3. ~(Len(b) < Len(a))
    <3> SUFFICES ASSUME Len(b) < Len(a) PROVE FALSE
      OBVIOUS
    <3>1. Len(b) + 1 \in 1 .. Len(a) /\ Len(b) + 1 \in 1 .. Len(a) + 1
      BY <1>3
    <3>2. a[Len(b) + 1] = Colon
      BY <2>1, <3>1, <1>4, <1>5
    <3> QED
      BY <3>1, <3>2, <1>3
  <2>4. Len(a) = Len(b)
    BY <2>2, <2>3, <1>3
  <2>5. ASSUME NEW i \in 1 .. Len(a) PROVE a[i] = b[i]
    <3>1. i \in 1 .. Len(a) + 1 /\ i \in 1 .. Len(b)
      BY <2>4, <1>3
    <3> QED
      BY <2>1, <3>1, <1>4, <1>5
  <2> QED
    BY <2>4, <2>5, SeqEqual DEF Key
<1> QED
  BY <1>2, <1>7, <1>8 DEF k

(* No two documents share a key.                                           *)
THEOREM KeysAreDistinct ==
  ASSUME NEW a \in Key, NEW b \in Key, UserName(a), UserName(b),
         NEW i \in Key, NEW j \in Key, KeyOf(a, i) = KeyOf(b, j)
  PROVE  a = b /\ i = j
<1>1. a = b
  <2>1. InRange(KeyOf(a, i), CollectionRange(a))
    BY CollectionScansItsOwn
  <2> QED
    BY <2>1, CollectionScansItsOwn
<1>2. Len(a) \in Nat /\ Len(i) \in Nat /\ Len(j) \in Nat
  BY DEF Key
<1> DEFINE k == KeyOf(a, i)
<1>3. /\ Len(k) = Len(a) + 1 + Len(i)
      /\ \A n \in 1 .. Len(i) : k[Len(a) + 1 + n] = i[n]
  BY KeyOfBytes
<1>4. /\ Len(k) = Len(a) + 1 + Len(j)
      /\ \A n \in 1 .. Len(j) : k[Len(a) + 1 + n] = j[n]
  <2>1. k = KeyOf(a, j)
    BY <1>1
  <2> HIDE DEF k
  <2>2. /\ Len(KeyOf(a, j)) = Len(a) + 1 + Len(j)
        /\ \A n \in 1 .. Len(j) : KeyOf(a, j)[Len(a) + 1 + n] = j[n]
    BY KeyOfBytes
  <2> QED
    BY <2>1, <2>2
<1> HIDE DEF k
<1>5. Len(i) = Len(j)
  BY <1>2, <1>3, <1>4
<1>6. \A n \in 1 .. Len(i) : i[n] = j[n]
  BY <1>3, <1>4, <1>5
<1> QED
  BY <1>1, <1>5, <1>6, SeqEqual DEF Key

(* The catalog is apart from every user's keys: a scan of a collection finds *)
(* no entry of the catalog, a scan of the catalog every entry and no document. *)
THEOREM CatalogIsApart ==
  ASSUME NEW a \in Key, UserName(a), NEW id \in Key, NEW name \in Key
  PROVE  /\ ~InRange(CatalogKey(name), CollectionRange(a))
         /\ ~InRange(KeyOf(a, id), CatalogRange)
         /\ InRange(CatalogKey(name), CatalogRange)
         /\ CatalogKey(name) # KeyOf(a, id)
<1>1. /\ a[1] # Marker /\ Len(a) >= 1 /\ Len(a) \in Nat
      /\ KeyOf(a, id)[1] = a[1] /\ CollectionPrefix(a)[1] = a[1]
  <2>1. a[1] # Marker /\ Len(a) >= 1 /\ Len(a) \in Nat
    BY DEF UserName, Key
  <2> QED
    BY <2>1, KeyOfBytes
<1>2. /\ CatalogPrefix \in Key /\ CatalogKey(name) \in Key
      /\ Len(CatalogPrefix) >= 1 /\ Len(CatalogPrefix) \in Nat
      /\ CatalogPrefix[1] = Marker /\ CatalogKey(name)[1] = Marker
  <2>1. /\ CatalogPrefix \in Key /\ Len(CatalogPrefix) >= 1
        /\ CatalogPrefix[1] = Marker /\ Len(CatalogPrefix) \in Nat
    BY CatalogAssumption, MaxByteAssumption DEF CatalogPrefix, Key, Byte, Marker
  <2> QED
    BY <2>1 DEF CatalogKey, Key
<1>3. ~IsPrefix(CollectionPrefix(a), CatalogKey(name))
  <2>1. CollectionPrefix(a) \in Key /\ 1 \in 1 .. Len(CollectionPrefix(a))
    BY <1>1, KeyOfBytes
  <2>2. CollectionPrefix(a)[1] # CatalogKey(name)[1]
    BY <1>1, <1>2
  <2> QED
    BY <2>1, <2>2, <1>2, PrefixBytes
<1>4. ~IsPrefix(CatalogPrefix, KeyOf(a, id))
  <2>0. KeyOf(a, id) \in Key
    BY KeyOfBytes
  <2>1. KeyOf(a, id) \in Key /\ 1 \in 1 .. Len(CatalogPrefix)
    BY <1>2, <2>0
  <2>2. CatalogPrefix[1] # KeyOf(a, id)[1]
    BY <1>1, <1>2
  <2> QED
    BY <2>1, <2>2, <1>2, PrefixBytes
<1>5. HasUpperBound(CatalogPrefix)
  BY <1>2, KeptBytes, MaxByteAssumption DEF HasUpperBound, Marker
<1>6. InRange(CatalogKey(name), CatalogRange)
  <2>1. IsPrefix(CatalogPrefix, CatalogKey(name))
    <3>1. /\ Len(CatalogPrefix) =< Len(CatalogPrefix \o name)
          /\ \A i \in 1 .. Len(CatalogPrefix) : CatalogPrefix[i] = (CatalogPrefix \o name)[i]
      <4> DEFINE p == CatalogPrefix
      <4>1. p \in Key /\ name \in Key
        BY <1>2
      <4> HIDE DEF p
      <4>2. /\ Len(p) =< Len(p \o name)
            /\ \A i \in 1 .. Len(p) : p[i] = (p \o name)[i]
        BY <4>1 DEF Key
      <4> QED
        BY <4>2 DEF p
    <3> QED
      BY <3>1, <1>2, PrefixBytes DEF CatalogKey
  <2> QED
    BY <2>1, <1>2, <1>5, PrefixRangeIsExact DEF CatalogRange
<1> QED
  BY <1>1, <1>2, <1>3, <1>4, <1>5, <1>6, PrefixRangeIsExact, CollectionsHaveBounds, KeyOfBytes
     DEF CollectionRange, CatalogRange

-----------------------------------------------------------------------------
(* Arrays.                                                                 *)

(* splice() to insert.                                                     *)
LEMMA InsertAtElements ==
  ASSUME NEW s \in Seq(Entry), NEW i \in 1 .. Len(s) + 1, NEW e \in Entry
  PROVE  /\ InsertAt(s, i, e) \in Seq(Entry)
         /\ Len(InsertAt(s, i, e)) = Len(s) + 1
         /\ \A j \in 1 .. Len(s) + 1 :
              InsertAt(s, i, e)[j] = IF j < i THEN s[j] ELSE IF j = i THEN e ELSE s[j - 1]
<1> DEFINE front == SubSeq(s, 1, i - 1)
           back == SubSeq(s, i, Len(s))
<1>1. /\ front \in Seq(Entry)
      /\ Len(front) = i - 1
      /\ \A j \in 1 .. i - 1 : front[j] = s[j]
  OBVIOUS
<1>2. /\ back \in Seq(Entry)
      /\ Len(back) = Len(s) - i + 1
      /\ \A j \in 1 .. Len(s) - i + 1 : back[j] = s[i + j - 1]
  OBVIOUS
<1>3. InsertAt(s, i, e) = front \o <<e>> \o back
  BY DEF InsertAt
<1> HIDE DEF front, back
<1>4. /\ front \o <<e>> \in Seq(Entry)
      /\ Len(front \o <<e>>) = i
      /\ \A j \in 1 .. i : (front \o <<e>>)[j] = IF j < i THEN s[j] ELSE e
  BY <1>1
<1>5. ASSUME NEW j \in 1 .. Len(s) + 1
      PROVE  InsertAt(s, i, e)[j] = IF j < i THEN s[j] ELSE IF j = i THEN e ELSE s[j - 1]
  <2>1. j > i => j - i \in 1 .. Len(s) - i + 1
    OBVIOUS
  <2>2. InsertAt(s, i, e)[j] = IF j =< i THEN (front \o <<e>>)[j] ELSE back[j - i]
    BY <1>2, <1>3, <1>4, ConcatProperties
  <2> QED
    BY <1>2, <1>4, <2>1, <2>2
<1>6. Len(InsertAt(s, i, e)) = Len(front \o <<e>>) + Len(back)
  BY <1>2, <1>3, <1>4, ConcatProperties
<1>7. InsertAt(s, i, e) \in Seq(Entry)
  BY <1>2, <1>3, <1>4, ConcatProperties
<1>8. Len(InsertAt(s, i, e)) = Len(s) + 1
  <2>1. Len(s) \in Nat /\ i \in Nat
    OBVIOUS
  <2>2. Len(InsertAt(s, i, e)) = i + (Len(s) - i + 1)
    BY <1>2, <1>4, <1>6
  <2> QED
    BY <2>1, <2>2
<1> QED
  BY <1>5, <1>7, <1>8

(* splice() to remove.                                                     *)
LEMMA RemoveAtElements ==
  ASSUME NEW s \in Seq(Entry), NEW i \in 1 .. Len(s)
  PROVE  /\ RemoveAt(s, i) \in Seq(Entry)
         /\ Len(RemoveAt(s, i)) = Len(s) - 1
         /\ \A j \in 1 .. Len(s) - 1 : RemoveAt(s, i)[j] = IF j < i THEN s[j] ELSE s[j + 1]
<1> DEFINE front == SubSeq(s, 1, i - 1)
           back == SubSeq(s, i + 1, Len(s))
<1>1. /\ front \in Seq(Entry)
      /\ Len(front) = i - 1
      /\ \A j \in 1 .. i - 1 : front[j] = s[j]
  OBVIOUS
<1>2. /\ back \in Seq(Entry)
      /\ Len(back) = Len(s) - i
      /\ \A j \in 1 .. Len(s) - i : back[j] = s[i + j]
  OBVIOUS
<1>3. RemoveAt(s, i) = front \o back
  BY DEF RemoveAt
<1> HIDE DEF front, back
<1>4. ASSUME NEW j \in 1 .. Len(s) - 1
      PROVE  RemoveAt(s, i)[j] = IF j < i THEN s[j] ELSE s[j + 1]
  <2>1. j >= i => j - (i - 1) \in 1 .. Len(s) - i
    OBVIOUS
  <2>2. RemoveAt(s, i)[j] = IF j =< i - 1 THEN front[j] ELSE back[j - (i - 1)]
    BY <1>1, <1>2, <1>3, ConcatProperties
  <2> QED
    BY <1>1, <1>2, <2>1, <2>2
<1>5. Len(RemoveAt(s, i)) = Len(front) + Len(back)
  BY <1>1, <1>2, <1>3, ConcatProperties
<1>6. RemoveAt(s, i) \in Seq(Entry)
  BY <1>1, <1>2, <1>3, ConcatProperties
<1> QED
  BY <1>1, <1>2, <1>4, <1>5, <1>6

(* An entry put where its key belongs leaves the array sorted.               *)
LEMMA InsertKeepsSorted ==
  ASSUME NEW s \in Seq(Entry), Sorted(s), NEW i \in 1 .. Len(s) + 1, NEW e \in Entry,
         \A j \in 1 .. i - 1 : Before(s[j].key, e.key),
         \A j \in i .. Len(s) : Before(e.key, s[j].key)
  PROVE  Sorted(InsertAt(s, i, e))
<1> DEFINE t == InsertAt(s, i, e)
<1>1. /\ DOMAIN t = 1 .. Len(s) + 1
      /\ \A j \in 1 .. Len(s) + 1 : t[j] = IF j < i THEN s[j] ELSE IF j = i THEN e ELSE s[j - 1]
  BY InsertAtElements
<1> HIDE DEF t
<1>2. \A j, k \in 1 .. Len(s) : j < k => Before(s[j].key, s[k].key)
  BY DEF Sorted
<1>3. ASSUME NEW j \in 1 .. Len(s) + 1, NEW k \in 1 .. Len(s) + 1, j < k
      PROVE  Before(t[j].key, t[k].key)
  <2>1. CASE k < i
    BY <1>1, <1>2, <1>3, <2>1
  <2>2. CASE k = i
    BY <1>1, <1>3, <2>2
  <2>3. CASE k > i /\ j < i
    BY <1>1, <1>2, <1>3, <2>3
  <2>4. CASE k > i /\ j = i
    BY <1>1, <1>3, <2>4
  <2>5. CASE j > i
    BY <1>1, <1>2, <1>3, <2>5
  <2> QED
    BY <1>3, <2>1, <2>2, <2>3, <2>4, <2>5
<1> QED
  BY <1>1, <1>3 DEF Sorted, t

LEMMA ReplaceKeepsSorted ==
  ASSUME NEW s \in Seq(Entry), Sorted(s), NEW i \in 1 .. Len(s), NEW e \in Entry, s[i].key = e.key
  PROVE  /\ ReplaceAt(s, i, e) \in Seq(Entry)
         /\ Sorted(ReplaceAt(s, i, e))
BY ExceptSeq DEF ReplaceAt, Sorted

LEMMA RemoveKeepsSorted ==
  ASSUME NEW s \in Seq(Entry), Sorted(s), NEW i \in 1 .. Len(s)
  PROVE  Sorted(RemoveAt(s, i))
<1> DEFINE t == RemoveAt(s, i)
<1>1. /\ DOMAIN t = 1 .. Len(s) - 1
      /\ \A j \in 1 .. Len(s) - 1 : t[j] = IF j < i THEN s[j] ELSE s[j + 1]
  BY RemoveAtElements
<1> HIDE DEF t
<1>2. \A j, k \in 1 .. Len(s) : j < k => Before(s[j].key, s[k].key)
  BY DEF Sorted
<1>3. ASSUME NEW j \in 1 .. Len(s) - 1, NEW k \in 1 .. Len(s) - 1, j < k
      PROVE  Before(t[j].key, t[k].key)
  BY <1>1, <1>2, <1>3
<1> QED
  BY <1>1, <1>3 DEF Sorted, t

-----------------------------------------------------------------------------
(* The invariant.                                                          *)

IInv == TypeOK /\ StaysSorted /\ SearchInv

(* What is searched for is a key.                                          *)
LEMMA TargetIsKey ==
  ASSUME NEW c \in Calls
  PROVE  Target(c) \in Key
<1>1. CASE c \in [name : {"get", "delete"}, key : Keys]
  BY <1>1, KeysAssumption DEF Target, IsScan
<1>2. CASE c \in [name : {"set"}, key : Keys, val : Values]
  BY <1>2, KeysAssumption DEF Target, IsScan
<1>3. CASE c \in [name : {"range"}, start : Keys, end : Keys]
  BY <1>3, KeysAssumption DEF Target, IsScan, Bounds
<1>4. CASE c \in [name : {"prefix"}, prefix : Keys]
  BY <1>4, KeysAssumption DEF Target, IsScan, Bounds, PrefixRange
<1> QED
  BY <1>1, <1>2, <1>3, <1>4 DEF Calls

LEMMA InitInv == Init => IInv
<1> SUFFICES ASSUME Init PROVE IInv
  OBVIOUS
<1>1. TypeOK
  <2>1. << >> \in Seq(Entry)
    OBVIOUS
  <2>2. call \in Calls \cup {None}
    BY DEF Init
  <2> QED
    BY <2>1, <2>2 DEF Init, TypeOK
<1>2. StaysSorted /\ SearchInv
  BY DEF Init, StaysSorted, Sorted, SearchInv
<1> QED
  BY <1>1, <1>2 DEF IInv

(* A call that returns has left the array sorted.                           *)
LEMMA ReturnStep ==
  ASSUME NEW a, Return(a), entries' \in Seq(Entry), Sorted(entries')
  PROVE  IInv'
<1>1. /\ pc' = "ready" /\ call' = None
      /\ low' = 0 /\ high' = 0 /\ index' = 0 /\ found' = FALSE /\ snapshot' = << >>
  BY DEF Return
<1>2. TypeOK'
  <2>1. << >> \in Seq(Entry)
    OBVIOUS
  <2> QED
    BY <1>1, <2>1 DEF TypeOK
<1>3. SearchInv'
  BY <1>1 DEF SearchInv
<1> QED
  BY <1>2, <1>3 DEF IInv, StaysSorted, Sorted

(* One step of locate()'s loop keeps what is left and right of the key apart. *)
LEMMA SearchStep ==
  ASSUME IInv, Search
  PROVE  IInv'
<1> DEFINE t == Target(call)
<1>1. /\ pc = "search" /\ low < high /\ low \in Nat /\ high \in Nat /\ high =< Len(entries)
      /\ Len(entries) \in Nat /\ entries \in Seq(Entry) /\ call \in Calls
  BY DEF Search, IInv, TypeOK, SearchInv
<1>2. /\ Mid \in Nat /\ low =< Mid /\ Mid < high /\ Mid + 1 \in 1 .. Len(entries)
  BY <1>1 DEF Mid
<1>3. t \in Key /\ \A i \in 1 .. Len(entries) : entries[i].key \in Key
  <2>1. \A i \in 1 .. Len(entries) : entries[i] \in Entry
    BY <1>1
  <2>2. \A e \in Entry : e.key \in Key
    BY KeysAssumption DEF Entry
  <2> QED
    BY <2>1, <2>2, <1>1, TargetIsKey
<1>4. /\ \A i, j \in 1 .. Len(entries) : i < j => Before(entries[i].key, entries[j].key)
      /\ \A i \in 1 .. low : Before(entries[i].key, t)
      /\ \A i \in high + 1 .. Len(entries) : Before(t, entries[i].key)
  BY <1>1 DEF IInv, StaysSorted, Sorted, SearchInv
<1>5. UNCHANGED <<entries, call, snapshot, answer>>
  BY DEF Search
<1>6. Target(call)' = t
  BY <1>5 DEF Target, IsScan, Bounds
<1> DEFINE order == CompareKeys(At(Mid).key, t)
<1>7. order \in Int /\ At(Mid) = entries[Mid + 1]
  BY <1>2, <1>3, CompareType DEF At
<1>8. CASE order = 0 /\ found' = TRUE /\ index' = Mid /\ pc' = "act" /\ UNCHANGED <<low, high>>
  <2>1. At(Mid).key = t
    BY <1>2, <1>3, <1>7, <1>8, CompareEqual
  <2> QED
    BY <2>1, <1>1, <1>2, <1>5, <1>6, <1>7, <1>8
       DEF IInv, TypeOK, StaysSorted, Sorted, SearchInv, At
<1>9. CASE order < 0 /\ Right /\ UNCHANGED <<high, found, index, pc>>
  <2>1. Before(entries[Mid + 1].key, t)
    BY <1>7, <1>9 DEF Before
  <2>2. ASSUME NEW i \in 1 .. Mid + 1 PROVE Before(entries[i].key, t)
    <3>1. i = Mid + 1 \/ Before(entries[i].key, entries[Mid + 1].key)
      BY <1>2, <1>4
    <3>2. i \in 1 .. Len(entries)
      BY <1>1, <1>2
    <3> QED
      BY <2>1, <3>1, <3>2, <1>2, <1>3, ByteOrderIsTransitive
  <2>3. low' = Mid + 1 /\ high' = high /\ pc' = "search"
    BY <1>1, <1>9 DEF Right
  <2>4. SearchInv'
    BY <2>2, <2>3, <1>1, <1>2, <1>4, <1>5, <1>6 DEF SearchInv
  <2> QED
    BY <2>3, <2>4, <1>1, <1>2, <1>5, <1>9 DEF IInv, TypeOK, StaysSorted, Sorted
<1>10. CASE order > 0 /\ Left /\ UNCHANGED <<low, found, index, pc>>
  <2>1. Before(t, entries[Mid + 1].key)
    BY <1>2, <1>3, <1>7, <1>10, CompareSwap DEF Before
  <2>2. ASSUME NEW i \in Mid + 1 .. Len(entries) PROVE Before(t, entries[i].key)
    <3>1. i = Mid + 1 \/ Before(entries[Mid + 1].key, entries[i].key)
      BY <1>2, <1>4
    <3>2. i \in 1 .. Len(entries)
      BY <1>1, <1>2
    <3> QED
      BY <2>1, <3>1, <3>2, <1>2, <1>3, ByteOrderIsTransitive
  <2>3. low' = low /\ high' = Mid /\ pc' = "search"
    BY <1>1, <1>10 DEF Left
  <2>4. SearchInv'
    BY <2>2, <2>3, <1>1, <1>2, <1>4, <1>5, <1>6 DEF SearchInv
  <2> QED
    BY <2>3, <2>4, <1>1, <1>2, <1>5, <1>10 DEF IInv, TypeOK, StaysSorted, Sorted
<1> QED
  BY <1>8, <1>9, <1>10 DEF Search

(* A set puts its entry where locate() says, which keeps the array sorted.   *)
LEMMA SetStep ==
  ASSUME IInv, Set
  PROVE  IInv'
<1> DEFINE e == [key |-> call.key, val |-> call.val]
<1>1. /\ pc = "act" /\ call \in Calls /\ call.name = "set"
      /\ entries' = Placed(e) /\ Return(None)
  BY DEF Set, IInv, TypeOK
<1>2. call \in [name : {"set"}, key : Keys, val : Values]
  BY <1>1 DEF Calls
<1>3. e \in Entry /\ Target(call) = e.key
  BY <1>2 DEF Entry, Target, IsScan
<1>4. entries \in Seq(Entry) /\ Sorted(entries) /\ index \in Nat /\ Len(entries) \in Nat
  BY DEF IInv, TypeOK, StaysSorted
<1>5. entries' \in Seq(Entry) /\ Sorted(entries')
  <2>1. CASE found
    <3>1. index + 1 \in 1 .. Len(entries) /\ entries[index + 1].key = e.key
      BY <2>1, <1>1, <1>3, <1>4 DEF IInv, SearchInv, At
    <3>2. entries' = ReplaceAt(entries, index + 1, e)
      BY <2>1, <1>1 DEF Placed
    <3> HIDE DEF e
    <3> QED
      BY <3>1, <3>2, <1>3, <1>4, ReplaceKeepsSorted
  <2>2. CASE ~found
    <3>1. /\ index + 1 \in 1 .. Len(entries) + 1
          /\ \A j \in 1 .. (index + 1) - 1 : Before(entries[j].key, e.key)
          /\ \A j \in index + 1 .. Len(entries) : Before(e.key, entries[j].key)
      BY <2>2, <1>1, <1>3, <1>4 DEF IInv, SearchInv
    <3>2. entries' = InsertAt(entries, index + 1, e)
      BY <2>2, <1>1 DEF Placed
    <3> HIDE DEF e
    <3> QED
      BY <3>1, <3>2, <1>3, <1>4, InsertKeepsSorted, InsertAtElements
  <2> QED
    BY <2>1, <2>2
<1> QED
  BY <1>1, <1>5, ReturnStep

LEMMA DeleteStep ==
  ASSUME IInv, Delete
  PROVE  IInv'
<1>1. /\ pc = "act" /\ Return(None)
      /\ entries' = IF found THEN RemoveAt(entries, index + 1) ELSE entries
  BY DEF Delete
<1>2. entries \in Seq(Entry) /\ Sorted(entries) /\ index \in Nat /\ Len(entries) \in Nat
  BY DEF IInv, TypeOK, StaysSorted
<1>3. entries' \in Seq(Entry) /\ Sorted(entries')
  <2>1. CASE found
    <3>1. index + 1 \in 1 .. Len(entries)
      BY <2>1, <1>1, <1>2 DEF IInv, SearchInv
    <3> QED
      BY <2>1, <3>1, <1>1, <1>2, RemoveKeepsSorted, RemoveAtElements
  <2> QED
    BY <2>1, <1>1, <1>2
<1> QED
  BY <1>1, <1>3, ReturnStep

LEMMA StepInv == IInv /\ [Next]_vars => IInv'
<1> SUFFICES ASSUME IInv, [Next]_vars PROVE IInv'
  OBVIOUS
<1>1. CASE Begin
  <2>1. ASSUME NEW c \in Calls, call' = c, low' = 0, high' = Len(entries), pc' = "search",
               UNCHANGED <<entries, found, index, snapshot>>
        PROVE  IInv'
    <3>1. TypeOK'
      BY <2>1, NoneAssumption DEF IInv, TypeOK
    <3>2. SearchInv'
      BY <2>1 DEF SearchInv, IInv, TypeOK
    <3> QED
      BY <2>1, <3>1, <3>2 DEF IInv, StaysSorted, Sorted
  <2>2. CASE UNCHANGED <<entries, call, low, high, found, index, snapshot, pc>> /\ pc = "ready"
    BY <2>2 DEF IInv, TypeOK, StaysSorted, Sorted, SearchInv
  <2> QED
    BY <1>1, <2>1, <2>2 DEF Begin
<1>2. CASE Search
  BY <1>2, SearchStep
<1>3. CASE Absent
  <2>1. Target(call)' = Target(call)
    <3>1. call' = call
      BY <1>3 DEF Absent
    <3> QED
      BY <3>1 DEF Target, IsScan, Bounds
  <2>2. TypeOK' /\ StaysSorted'
    BY <1>3 DEF Absent, IInv, TypeOK, StaysSorted, Sorted
  <2>3. SearchInv'
    BY <1>3, <2>1 DEF Absent, IInv, TypeOK, SearchInv
  <2> QED
    BY <2>2, <2>3 DEF IInv
<1>4. CASE Get
  <2>1. entries' \in Seq(Entry) /\ Sorted(entries')
    BY <1>4 DEF Get, IInv, TypeOK, StaysSorted
  <2> QED
    BY <1>4, <2>1, ReturnStep DEF Get
<1>5. CASE Set
  BY <1>5, SetStep
<1>6. CASE Delete
  BY <1>6, DeleteStep
<1>7. CASE Scan
  BY <1>7 DEF Scan, IInv, TypeOK, StaysSorted, Sorted, SearchInv
<1>8. CASE Walk
  <2>1. At(index) \in Entry
    BY <1>8 DEF Walk, Within, At, IInv, TypeOK
  <2> QED
    <3>1. TypeOK'
      BY <1>8, <2>1 DEF Walk, IInv, TypeOK
    <3> QED
      BY <1>8, <3>1 DEF Walk, IInv, StaysSorted, Sorted, SearchInv
<1>9. CASE WalkEnds
  <2>1. entries' \in Seq(Entry) /\ Sorted(entries')
    BY <1>9 DEF WalkEnds, IInv, TypeOK, StaysSorted
  <2> QED
    BY <1>9, <2>1, ReturnStep DEF WalkEnds
<1>10. CASE UNCHANGED vars
  BY <1>10 DEF vars, IInv, TypeOK, StaysSorted, Sorted, SearchInv, Target, IsScan, Bounds, At
<1> QED
  BY <1>1, <1>2, <1>3, <1>4, <1>5, <1>6, <1>7, <1>8, <1>9, <1>10 DEF Next, Work

(* No call leaves the array, or a scan's two searches, in a shape of another type. *)
THEOREM StoreTypeCorrect == Spec => []TypeOK
<1>1. IInv => TypeOK
  BY DEF IInv
<1> QED
  BY <1>1, InitInv, StepInv, PTL DEF Spec

(* The array is sorted after any calls.                                     *)
THEOREM ArrayStaysSorted == Spec => []StaysSorted
<1>1. IInv => StaysSorted
  BY DEF IInv
<1> QED
  BY <1>1, InitInv, StepInv, PTL DEF Spec

(* locate() finds the key, or the place where it goes.                       *)
THEOREM LocateIsRight == Spec => []SearchInv
<1>1. IInv => SearchInv
  BY DEF IInv
<1> QED
  BY <1>1, InitInv, StepInv, PTL DEF Spec
-----------------------------------------------------------------------------
(* The map.                                                                *)

(* No key is before itself: an array that is sorted has a key once.          *)
LEMMA KeysAreApart ==
  ASSUME NEW s \in Seq(Entry), Sorted(s), NEW i \in 1 .. Len(s), NEW j \in 1 .. Len(s),
         s[i].key = s[j].key
  PROVE  i = j
<1>1. s[i] \in Entry /\ s[i].key \in Key
  <2>1. s[i] \in Entry
    OBVIOUS
  <2> QED
    BY <2>1, KeysAssumption DEF Entry
<1>2. ~Before(s[i].key, s[i].key)
  BY <1>1, ByteOrderIsTotal
<1> QED
  BY <1>2 DEF Sorted

LEMMA MapOfPresent ==
  ASSUME NEW s \in Seq(Entry), Sorted(s), NEW i \in 1 .. Len(s)
  PROVE  /\ s[i].key \in Keys /\ s[i].val \in Values
         /\ MapOf(s)[s[i].key] = s[i].val
<1> DEFINE k == s[i].key
           same == CHOOSE e \in {s[j] : j \in DOMAIN s} : e.key = k
<1>1. s[i] \in Entry /\ i \in DOMAIN s
  OBVIOUS
<1>2. k \in Keys /\ s[i].val \in Values
  BY <1>1 DEF Entry
<1>3. same \in {s[j] : j \in DOMAIN s} /\ same.key = k
  BY <1>1
<1>4. PICK j \in DOMAIN s : same = s[j]
  BY <1>3
<1>5. j = i
  BY <1>3, <1>4, KeysAreApart
<1>6. MapOf(s)[k] = same.val
  BY <1>1, <1>2 DEF MapOf
<1> QED
  BY <1>2, <1>4, <1>5, <1>6

LEMMA MapOfAbsent ==
  ASSUME NEW s \in Seq(Entry), NEW k \in Keys, \A i \in 1 .. Len(s) : s[i].key # k
  PROVE  MapOf(s)[k] = None
BY DEF MapOf

(* t has the entries of s but for that of k: there it has v, or none.         *)
Updates(s, t, k, v) ==
  /\ \A i \in 1 .. Len(s) : s[i].key # k => \E j \in 1 .. Len(t) : t[j] = s[i]
  /\ \A j \in 1 .. Len(t) : t[j].key # k => \E i \in 1 .. Len(s) : t[j] = s[i]
  /\ \/ v = None /\ \A j \in 1 .. Len(t) : t[j].key # k
     \/ \E j \in 1 .. Len(t) : t[j].key = k /\ t[j].val = v

LEMMA MapOfUpdate ==
  ASSUME NEW s \in Seq(Entry), Sorted(s), NEW t \in Seq(Entry), Sorted(t), NEW k \in Keys, NEW v,
         Updates(s, t, k, v)
  PROVE  MapOf(t) = [MapOf(s) EXCEPT ![k] = v]
<1>0. /\ \A i \in 1 .. Len(s) : s[i].key # k => \E j \in 1 .. Len(t) : t[j] = s[i]
      /\ \A j \in 1 .. Len(t) : t[j].key # k => \E i \in 1 .. Len(s) : t[j] = s[i]
  BY DEF Updates
<1>1. MapOf(t)[k] = v
  <2>1. CASE v = None /\ \A j \in 1 .. Len(t) : t[j].key # k
    BY <2>1, MapOfAbsent
  <2>2. CASE \E j \in 1 .. Len(t) : t[j].key = k /\ t[j].val = v
    BY <2>2, MapOfPresent
  <2> QED
    BY <2>1, <2>2 DEF Updates
<1>2. ASSUME NEW x \in Keys, x # k PROVE MapOf(t)[x] = MapOf(s)[x]
  <2>1. CASE \E i \in 1 .. Len(s) : s[i].key = x
    <3>1. PICK i \in 1 .. Len(s) : s[i].key = x
      BY <2>1
    <3>2. PICK j \in 1 .. Len(t) : t[j] = s[i]
      BY <1>0, <1>2, <3>1
    <3>3. MapOf(s)[x] = s[i].val
      BY <3>1, MapOfPresent
    <3>4. MapOf(t)[x] = t[j].val
      BY <3>1, <3>2, MapOfPresent
    <3> QED
      BY <3>2, <3>3, <3>4
  <2>2. CASE \A i \in 1 .. Len(s) : s[i].key # x
    <3>1. ASSUME NEW j \in 1 .. Len(t), t[j].key = x PROVE FALSE
      <4>1. \E i \in 1 .. Len(s) : t[j] = s[i]
        BY <1>0, <1>2, <3>1
      <4> QED
        BY <2>2, <3>1, <4>1
    <3> QED
      BY <2>2, <3>1, MapOfAbsent
  <2> QED
    BY <2>1, <2>2
<1>3. DOMAIN MapOf(t) = Keys /\ DOMAIN MapOf(s) = Keys
  BY DEF MapOf
<1>4. MapOf(t) = [x \in Keys |-> MapOf(t)[x]] /\ MapOf(s) = [x \in Keys |-> MapOf(s)[x]]
  BY DEF MapOf
<1> QED
  BY <1>1, <1>2, <1>3, <1>4

(* The keys of the map are those of the array's entries.                     *)
LEMMA PresentKeys ==
  ASSUME NEW s \in Seq(Entry), Sorted(s), NEW k \in Keys
  PROVE  MapOf(s)[k] # None <=> \E i \in 1 .. Len(s) : s[i].key = k
<1>1. ASSUME NEW i \in 1 .. Len(s), s[i].key = k PROVE MapOf(s)[k] # None
  BY <1>1, MapOfPresent, NoneAssumption
<1> QED
  BY <1>1, MapOfAbsent

(* The abstract map compares keys as the array does.                         *)
LEMMA SameOrder ==
  ASSUME NEW a, NEW b
  PROVE  /\ Map!Before(a, b) <=> Before(a, b)
         /\ Map!IsPrefix(a, b) <=> IsPrefix(a, b)
<1>1. Map!Differences(a, b) = Differences(a, b)
  BY DEF Map!Differences, Differences
<1>2. Map!Min(Differences(a, b)) = Min(Differences(a, b))
  BY DEF Map!Min, Min
<1>3. Map!CompareKeys(a, b) = CompareKeys(a, b)
  BY <1>1, <1>2 DEF Map!CompareKeys, CompareKeys
<1>4. Map!IsPrefix(a, b) <=> IsPrefix(a, b)
  BY DEF Map!IsPrefix, IsPrefix
<1> QED
  BY <1>3, <1>4 DEF Map!Before, Before
-----------------------------------------------------------------------------
(* What a call keeps while it runs.                                         *)

(* There is no answer before a call returns, and no scan of a prefix without  *)
(* a bound; a walk has collected the entries from the first that is not        *)
(* before its start on, all before its end.                                 *)
WalkInv ==
  /\ call # None => answer = None
  /\ call # None /\ call.name = "prefix" => HasUpperBound(call.prefix)
  /\ pc = "walk" =>
       /\ IsScan(call)
       /\ Len(snapshot) =< index /\ index =< Len(entries)
       /\ \A i \in 1 .. index - Len(snapshot) : Before(entries[i].key, Bounds(call).start)
       /\ \A i \in index - Len(snapshot) + 1 .. Len(entries) :
            ~Before(entries[i].key, Bounds(call).start)
       /\ \A j \in 1 .. Len(snapshot) :
            /\ snapshot[j] = entries[index - Len(snapshot) + j]
            /\ Before(snapshot[j].key, Bounds(call).end)

(* The bounds of a scan are keys.                                          *)
LEMMA BoundsAreKeys ==
  ASSUME NEW c \in Calls, IsScan(c), c.name = "prefix" => HasUpperBound(c.prefix)
  PROVE  Bounds(c).start \in Key /\ Bounds(c).end \in Key
<1>1. CASE c \in [name : {"range"}, start : Keys, end : Keys]
  BY <1>1, KeysAssumption DEF Bounds
<1>2. CASE c \in [name : {"prefix"}, prefix : Keys]
  BY <1>2, KeysAssumption, UpperBoundBytes DEF Bounds, PrefixRange
<1> QED
  BY <1>1, <1>2 DEF Calls, IsScan

LEMMA EntriesHaveKeys ==
  ASSUME IInv
  PROVE  \A i \in 1 .. Len(entries) : entries[i] \in Entry /\ entries[i].key \in Key
<1>1. ASSUME NEW i \in 1 .. Len(entries) PROVE entries[i] \in Entry
  BY DEF IInv, TypeOK
<1> QED
  BY <1>1, KeysAssumption DEF Entry

(* The walk begins at the index locate() has returned.                       *)
LEMMA ScanBegins ==
  ASSUME IInv, WalkInv, Scan
  PROVE  WalkInv'
<1>1. /\ pc = "act" /\ IsScan(call) /\ snapshot' = << >> /\ pc' = "walk"
      /\ UNCHANGED <<entries, call, index, answer>>
  BY DEF Scan
<1>2. /\ call \in Calls /\ call # None /\ index \in Nat /\ Len(entries) \in Nat
  BY <1>1 DEF IInv, TypeOK
<1> DEFINE start == Bounds(call).start
<1>3. Target(call) = start
  BY <1>1 DEF Target
<1>4. start \in Key
  BY <1>1, <1>2, BoundsAreKeys DEF WalkInv
<1>5. /\ index =< Len(entries)
      /\ \A i \in 1 .. index : Before(entries[i].key, start)
      /\ \A i \in index + 1 .. Len(entries) : ~Before(entries[i].key, start)
  <2>1. CASE found
    <3>1. index < Len(entries) /\ entries[index + 1].key = start
      BY <2>1, <1>1, <1>3 DEF IInv, SearchInv, At
    <3>2. \A i, j \in 1 .. Len(entries) : i < j => Before(entries[i].key, entries[j].key)
      BY DEF IInv, StaysSorted, Sorted
    <3>3. \A i \in 1 .. index : Before(entries[i].key, start)
      BY <3>1, <3>2, <1>2
    <3>4. ASSUME NEW i \in index + 1 .. Len(entries) PROVE ~Before(entries[i].key, start)
      <4>1. i = index + 1 \/ Before(start, entries[i].key)
        BY <3>1, <3>2, <1>2
      <4>2. entries[i].key \in Key
        BY <1>2, EntriesHaveKeys
      <4>3. i = index + 1 => entries[i].key = start
        BY <3>1
      <4> HIDE DEF start
      <4> QED
        BY <4>1, <4>2, <4>3, <1>4, ByteOrderIsTotal
    <3> QED
      BY <1>2, <3>1, <3>3, <3>4
  <2>2. CASE ~found
    <3>1. /\ index =< Len(entries)
          /\ \A i \in 1 .. index : Before(entries[i].key, start)
          /\ \A i \in index + 1 .. Len(entries) : Before(start, entries[i].key)
      BY <2>2, <1>1, <1>3 DEF IInv, SearchInv
    <3>2. ASSUME NEW i \in index + 1 .. Len(entries) PROVE ~Before(entries[i].key, start)
      <4>1. entries[i].key \in Key
        BY <1>2, EntriesHaveKeys
      <4>2. Before(start, entries[i].key)
        BY <3>1
      <4> HIDE DEF start
      <4> QED
        BY <4>1, <4>2, <1>4, ByteOrderIsTotal
    <3> QED
      BY <3>1, <3>2
  <2> QED
    BY <2>1, <2>2
<1>6. Bounds(call)' = Bounds(call) /\ IsScan(call)'
  BY <1>1 DEF Bounds, IsScan
<1> QED
  BY <1>1, <1>2, <1>5, <1>6 DEF WalkInv

LEMMA WalkGoesOn ==
  ASSUME IInv, WalkInv, Walk
  PROVE  WalkInv'
<1>1. /\ pc = "walk" /\ Within /\ snapshot' = Append(snapshot, At(index)) /\ index' = index + 1
      /\ UNCHANGED <<entries, call, answer, pc>>
  BY DEF Walk
<1>2. /\ call \in Calls /\ call # None /\ index \in Nat /\ Len(entries) \in Nat
      /\ snapshot \in Seq(Entry) /\ Len(snapshot) \in Nat
  BY <1>1 DEF IInv, TypeOK
<1>3. index < Len(entries) /\ Before(entries[index + 1].key, Bounds(call).end)
  BY <1>1 DEF Within, At, Before
<1>4. entries[index + 1] \in Entry
  BY <1>2, <1>3, EntriesHaveKeys
<1>5. /\ Len(snapshot') = Len(snapshot) + 1
      /\ \A j \in 1 .. Len(snapshot) : snapshot'[j] = snapshot[j]
      /\ snapshot'[Len(snapshot) + 1] = entries[index + 1]
  BY <1>1, <1>2, <1>4 DEF At
<1>6. index' - Len(snapshot') = index - Len(snapshot)
  BY <1>1, <1>2, <1>5
<1>7. Bounds(call)' = Bounds(call) /\ IsScan(call)'
  BY <1>1 DEF Bounds, IsScan, WalkInv
<1>8. ASSUME NEW j \in 1 .. Len(snapshot')
      PROVE  /\ snapshot'[j] = entries[index - Len(snapshot) + j]
             /\ Before(snapshot'[j].key, Bounds(call).end)
  <2>1. CASE j =< Len(snapshot)
    BY <2>1, <1>1, <1>2, <1>5 DEF WalkInv
  <2>2. CASE j = Len(snapshot) + 1
    BY <2>2, <1>2, <1>3, <1>5
  <2> QED
    BY <2>1, <2>2, <1>2, <1>5
<1> QED
  BY <1>1, <1>2, <1>3, <1>5, <1>6, <1>7, <1>8 DEF WalkInv

LEMMA WalkStep == IInv /\ WalkInv /\ [Next]_vars => WalkInv'
<1> SUFFICES ASSUME IInv, WalkInv, [Next]_vars PROVE WalkInv'
  OBVIOUS
<1>1. CASE Begin
  <2>1. pc = "ready" /\ call = None
    BY <1>1 DEF Begin, IInv, TypeOK
  <2>2. PICK c \in Calls :
          IF c.name = "prefix" /\ ~HasUpperBound(c.prefix)
          THEN answer' = "no bound" /\ UNCHANGED <<call, low, high, pc>>
          ELSE call' = c /\ answer' = None /\ pc' = "search"
    BY <1>1 DEF Begin
  <2> QED
    BY <2>1, <2>2 DEF WalkInv
<1>2. CASE Search
  <2>1. UNCHANGED <<entries, call, snapshot, answer>> /\ pc = "search" /\ pc' \in {"search", "act"}
    BY <1>2 DEF Search
  <2> QED
    BY <2>1 DEF WalkInv
<1>3. CASE Absent
  BY <1>3 DEF Absent, WalkInv
<1>4. CASE \E a : Return(a)
  BY <1>4 DEF Return, WalkInv
<1>5. CASE Scan
  BY <1>5, ScanBegins
<1>6. CASE Walk
  BY <1>6, WalkGoesOn
<1>7. CASE UNCHANGED vars
  BY <1>7 DEF vars, WalkInv, IsScan, Bounds
<1>8. Get \/ Set \/ Delete \/ WalkEnds => \E a : Return(a)
  BY DEF Get, Set, Delete, WalkEnds
<1> QED
  BY <1>1, <1>2, <1>3, <1>4, <1>5, <1>6, <1>7, <1>8 DEF Next, Work
-----------------------------------------------------------------------------
(* Every step is one of the map, or none.                                   *)

(* What locate() found is the value of the key, and what it did not find has  *)
(* none.                                                                   *)
LEMMA LocatedValue ==
  ASSUME IInv, pc = "act", Target(call) \in Keys
  PROVE  Contents[Target(call)] = IF found THEN At(index).val ELSE None
<1> DEFINE k == Target(call)
<1>1. /\ entries \in Seq(Entry) /\ Sorted(entries) /\ index \in Nat /\ Len(entries) \in Nat
      /\ found \in BOOLEAN
  BY DEF IInv, TypeOK, StaysSorted
<1>2. CASE found
  <2>1. index + 1 \in 1 .. Len(entries) /\ entries[index + 1].key = k
    BY <1>1, <1>2 DEF IInv, SearchInv, At
  <2> HIDE DEF k
  <2> QED
    BY <1>1, <1>2, <2>1, MapOfPresent DEF Contents, At, k
<1>3. CASE ~found
  <2>1. ASSUME NEW i \in 1 .. Len(entries) PROVE entries[i].key # k
    <3>1. i =< index \/ i >= index + 1
      BY <1>1
    <3>2. Before(entries[i].key, k) \/ Before(k, entries[i].key)
      BY <1>1, <1>3, <3>1 DEF IInv, SearchInv
    <3>3. entries[i].key \in Key
      BY EntriesHaveKeys
    <3> QED
      BY <3>2, <3>3, ByteOrderIsTotal
  <2> QED
    BY <1>1, <1>3, <2>1, MapOfAbsent DEF Contents
<1> QED
  BY <1>1, <1>2, <1>3

LEMMA GetRefines ==
  ASSUME IInv, WalkInv, Get
  PROVE  Map!Get /\ call' = None
<1>1. /\ pc = "act" /\ call.name = "get" /\ entries' = entries /\ call' = None
      /\ answer' = IF found THEN At(index).val ELSE None
  BY DEF Get, Return
<1>2. call \in Calls /\ call # None
  BY <1>1 DEF IInv, TypeOK
<1>3. call \in [name : {"get", "delete"}, key : Keys]
  BY <1>1, <1>2 DEF Calls
<1>4. Target(call) = call.key /\ call.key \in Keys
  BY <1>1, <1>3 DEF Target, IsScan
<1>5. answer' = Contents[call.key]
  BY <1>1, <1>4, LocatedValue
<1>6. Contents' = Contents
  BY <1>1 DEF Contents, MapOf
<1> QED
  BY <1>1, <1>2, <1>5, <1>6 DEF Map!Get

LEMMA SetRefines ==
  ASSUME IInv, WalkInv, Set
  PROVE  Map!Set /\ call' = None
<1> DEFINE e == [key |-> call.key, val |-> call.val]
<1>1. /\ pc = "act" /\ call.name = "set" /\ entries' = Placed(e)
      /\ call' = None /\ answer' = None
  BY DEF Set, Return
<1>2. call \in Calls /\ call # None /\ answer = None
  BY <1>1 DEF IInv, TypeOK, WalkInv
<1>3. call \in [name : {"set"}, key : Keys, val : Values]
  BY <1>1, <1>2 DEF Calls
<1>4. /\ Target(call) = e.key /\ e \in Entry /\ e.key \in Keys
      /\ e.key = call.key /\ e.val = call.val
  BY <1>3 DEF Target, IsScan, Entry
<1>5. /\ entries \in Seq(Entry) /\ Sorted(entries) /\ index \in Nat /\ Len(entries) \in Nat
      /\ found \in BOOLEAN
  BY DEF IInv, TypeOK, StaysSorted
<1>6. entries' \in Seq(Entry) /\ Sorted(entries')
  BY SetStep DEF IInv, TypeOK, StaysSorted
<1>7. found => index + 1 \in 1 .. Len(entries) /\ entries[index + 1].key = e.key
  BY <1>1, <1>4, <1>5 DEF IInv, SearchInv, At
<1>8. ~found => index + 1 \in 1 .. Len(entries) + 1
  BY <1>1, <1>5 DEF IInv, SearchInv
<1> HIDE DEF e
<1>9. Updates(entries, entries', e.key, e.val)
  <2>1. CASE found
    <3>1. entries' = [entries EXCEPT ![index + 1] = e]
      BY <1>1, <2>1 DEF Placed, ReplaceAt
    <3>2. /\ Len(entries') = Len(entries)
          /\ entries'[index + 1] = e
          /\ \A i \in 1 .. Len(entries) : i # index + 1 => entries'[i] = entries[i]
      BY <1>4, <1>5, <1>7, <2>1, <3>1, ExceptSeq
    <3> QED
      BY <1>7, <2>1, <3>2 DEF Updates
  <2>2. CASE ~found
    <3>1. entries' = InsertAt(entries, index + 1, e)
      BY <1>1, <2>2 DEF Placed
    <3>2. /\ Len(entries') = Len(entries) + 1
          /\ \A j \in 1 .. Len(entries) + 1 :
               entries'[j] = IF j < index + 1 THEN entries[j]
                             ELSE IF j = index + 1 THEN e ELSE entries[j - 1]
      <4> DEFINE i == index + 1
      <4>1. i \in 1 .. Len(entries) + 1
        BY <1>8, <2>2
      <4> HIDE DEF i
      <4>2. /\ Len(InsertAt(entries, i, e)) = Len(entries) + 1
            /\ \A j \in 1 .. Len(entries) + 1 :
                 InsertAt(entries, i, e)[j] = IF j < i THEN entries[j]
                                              ELSE IF j = i THEN e ELSE entries[j - 1]
        BY <1>4, <1>5, <4>1, InsertAtElements
      <4> QED
        BY <3>1, <4>2 DEF i
    <3>3. entries'[index + 1] = e
      BY <1>8, <2>2, <3>2, <1>5
    <3>4. ASSUME NEW i \in 1 .. Len(entries)
          PROVE  \E j \in 1 .. Len(entries') : entries'[j] = entries[i]
      <4>1. CASE i < index + 1
        BY <4>1, <3>2, <1>5
      <4>2. CASE i >= index + 1
        <5>1. i + 1 \in 1 .. Len(entries) + 1 /\ (i + 1) - 1 = i /\ i + 1 > index + 1
          BY <4>2, <1>5
        <5>2. entries'[i + 1] = entries[i]
          BY <5>1, <3>2, <1>5
        <5> QED
          BY <5>1, <5>2, <3>2
      <4> QED
        BY <4>1, <4>2, <1>5
    <3>5. ASSUME NEW j \in 1 .. Len(entries'), entries'[j].key # e.key
          PROVE  \E i \in 1 .. Len(entries) : entries'[j] = entries[i]
      <4>1. j # index + 1
        BY <3>3, <3>5
      <4>2. CASE j < index + 1
        <5>1. j \in 1 .. Len(entries) /\ entries'[j] = entries[j]
          BY <4>2, <3>2, <1>5, <1>8, <2>2
        <5> QED
          BY <5>1
      <4>3. CASE j > index + 1
        <5>1. j - 1 \in 1 .. Len(entries) /\ entries'[j] = entries[j - 1]
          BY <4>3, <3>2, <1>5
        <5> QED
          BY <5>1
      <4> QED
        BY <4>1, <4>2, <4>3, <1>5
    <3> QED
      BY <1>8, <2>2, <3>2, <3>3, <3>4, <3>5 DEF Updates
  <2> QED
    BY <1>5, <2>1, <2>2
<1>10. MapOf(entries') = [MapOf(entries) EXCEPT ![e.key] = e.val]
  BY <1>4, <1>5, <1>6, <1>9, MapOfUpdate
<1>11. Contents' = [Contents EXCEPT ![call.key] = call.val]
  BY <1>4, <1>10 DEF Contents, MapOf
<1> QED
  BY <1>1, <1>2, <1>11 DEF Map!Set

LEMMA DeleteRefines ==
  ASSUME IInv, WalkInv, Delete
  PROVE  Map!Delete /\ call' = None
<1> DEFINE k == call.key
<1>1. /\ pc = "act" /\ call.name = "delete" /\ call' = None /\ answer' = None
      /\ entries' = IF found THEN RemoveAt(entries, index + 1) ELSE entries
  BY DEF Delete, Return
<1>2. call \in Calls /\ call # None /\ answer = None
  BY <1>1 DEF IInv, TypeOK, WalkInv
<1>3. call \in [name : {"get", "delete"}, key : Keys]
  BY <1>1, <1>2 DEF Calls
<1>4. Target(call) = k /\ k \in Keys
  BY <1>1, <1>3 DEF Target, IsScan
<1>5. /\ entries \in Seq(Entry) /\ Sorted(entries) /\ index \in Nat /\ Len(entries) \in Nat
      /\ found \in BOOLEAN
  BY DEF IInv, TypeOK, StaysSorted
<1>6. MapOf(entries') = [MapOf(entries) EXCEPT ![k] = None]
  <2>1. CASE found
    <3>1. index + 1 \in 1 .. Len(entries) /\ entries[index + 1].key = k
      BY <2>1, <1>1, <1>4, <1>5 DEF IInv, SearchInv, At
    <3>2. /\ entries' \in Seq(Entry) /\ Sorted(entries')
          /\ Len(entries') = Len(entries) - 1
          /\ \A j \in 1 .. Len(entries) - 1 :
               entries'[j] = IF j < index + 1 THEN entries[j] ELSE entries[j + 1]
      BY <2>1, <3>1, <1>1, <1>5, RemoveAtElements, RemoveKeepsSorted
    <3> HIDE DEF k
    <3>3. ASSUME NEW i \in 1 .. Len(entries), entries[i].key # k
          PROVE  \E j \in 1 .. Len(entries') : entries'[j] = entries[i]
      <4>1. i # index + 1
        BY <3>1, <3>3
      <4>2. CASE i < index + 1
        <5>1. i \in 1 .. Len(entries) - 1 /\ entries'[i] = entries[i]
          BY <4>2, <3>1, <3>2, <1>5
        <5> QED
          BY <5>1, <3>2
      <4>3. CASE i > index + 1
        <5>1. i - 1 \in 1 .. Len(entries) - 1 /\ (i - 1) + 1 = i /\ ~(i - 1 < index + 1)
          BY <4>3, <1>5
        <5>2. entries'[i - 1] = entries[i]
          BY <5>1, <3>2
        <5> QED
          BY <5>1, <5>2, <3>2
      <4> QED
        BY <4>1, <4>2, <4>3, <1>5
    <3>4. ASSUME NEW j \in 1 .. Len(entries')
          PROVE  /\ \E i \in 1 .. Len(entries) : entries'[j] = entries[i]
                 /\ entries'[j].key # k
      <4>1. PICK i \in 1 .. Len(entries) : entries'[j] = entries[i] /\ i # index + 1
        <5>1. CASE j < index + 1
          <6>1. j \in 1 .. Len(entries) /\ entries'[j] = entries[j] /\ j # index + 1
            BY <5>1, <3>2, <1>5
          <6> QED
            BY <6>1
        <5>2. CASE j >= index + 1
          <6>1. j + 1 \in 1 .. Len(entries) /\ entries'[j] = entries[j + 1] /\ j + 1 # index + 1
            BY <5>2, <3>2, <1>5
          <6> QED
            BY <6>1
        <5> QED
          BY <5>1, <5>2, <1>5
      <4>2. entries[i].key # k
        BY <4>1, <3>1, <1>5, KeysAreApart
      <4> QED
        BY <4>1, <4>2
    <3>5. Updates(entries, entries', k, None)
      BY <3>3, <3>4 DEF Updates
    <3> QED
      BY <1>4, <1>5, <3>2, <3>5, MapOfUpdate DEF k
  <2>2. CASE ~found
    <3>1. MapOf(entries)[k] = None
      BY <2>2, <1>1, <1>4, LocatedValue DEF Contents
    <3>2. entries' = entries
      BY <2>2, <1>1
    <3>3. MapOf(entries) = [x \in Keys |-> MapOf(entries)[x]]
      BY DEF MapOf
    <3> HIDE DEF k
    <3> QED
      BY <3>1, <3>2, <3>3, <1>4
  <2> QED
    BY <1>5, <2>1, <2>2
<1>7. Contents' = [Contents EXCEPT ![call.key] = None]
  BY <1>6 DEF Contents, MapOf
<1> QED
  BY <1>1, <1>2, <1>7 DEF Map!Delete
(* A walk that ends has listed the keys of its range.                        *)
LEMMA WalkLists ==
  ASSUME IInv, WalkInv, WalkEnds
  PROVE  Map!Lists(answer', {k \in Keys : /\ Contents[k] # None
                                          /\ ~Before(k, Bounds(call).start)
                                          /\ Before(k, Bounds(call).end)})
<1> DEFINE start == Bounds(call).start
           end == Bounds(call).end
           a == index - Len(snapshot)
           keys == {k \in Keys : Contents[k] # None /\ ~Before(k, start) /\ Before(k, end)}
<1>1. /\ pc = "walk" /\ ~Within /\ answer' = snapshot
  BY DEF WalkEnds, Return
<1>2. /\ call \in Calls /\ call # None /\ index \in Nat /\ Len(entries) \in Nat
      /\ snapshot \in Seq(Entry) /\ Len(snapshot) \in Nat
      /\ entries \in Seq(Entry) /\ Sorted(entries)
  BY <1>1 DEF IInv, TypeOK, StaysSorted
<1>3. /\ IsScan(call) /\ Len(snapshot) =< index /\ index =< Len(entries)
      /\ \A i \in 1 .. a : Before(entries[i].key, start)
      /\ \A i \in a + 1 .. Len(entries) : ~Before(entries[i].key, start)
      /\ \A j \in 1 .. Len(snapshot) : snapshot[j] = entries[a + j] /\ Before(snapshot[j].key, end)
  BY <1>1 DEF WalkInv
<1>4. start \in Key /\ end \in Key
  BY <1>2, <1>3, BoundsAreKeys DEF WalkInv
<1>5. index < Len(entries) => ~Before(entries[index + 1].key, end)
  BY <1>1 DEF Within, At, Before
<1>6. \A i, j \in 1 .. Len(entries) : i < j => Before(entries[i].key, entries[j].key)
  BY DEF IInv, StaysSorted, Sorted
<1>7. ASSUME NEW i \in 1 .. Len(entries)
      PROVE  /\ entries[i].key \in Keys /\ entries[i].key \in Key
             /\ Contents[entries[i].key] = entries[i].val /\ entries[i].val # None
  BY <1>2, MapOfPresent, EntriesHaveKeys, NoneAssumption DEF Contents
<1>8. \A j \in 1 .. Len(snapshot) : a + j \in 1 .. Len(entries) /\ a + j \in a + 1 .. Len(entries)
  BY <1>2, <1>3
<1> HIDE DEF start, end, a
<1>9. ASSUME NEW j \in 1 .. Len(snapshot)
      PROVE  snapshot[j].key \in keys /\ snapshot[j].val = Contents[snapshot[j].key]
  <2>1. snapshot[j] = entries[a + j] /\ Before(snapshot[j].key, end) /\ ~Before(snapshot[j].key, start)
    BY <1>3, <1>8
  <2> QED
    BY <2>1, <1>7, <1>8
<1>10. ASSUME NEW k \in keys PROVE \E j \in 1 .. Len(snapshot) : snapshot[j].key = k
  <2>1. PICK i \in 1 .. Len(entries) : entries[i].key = k
    BY <1>2, PresentKeys DEF Contents
  <2>2. i > a
    <3>1. a \in Int
      BY <1>2 DEF a
    <3> QED
      BY <2>1, <3>1, <1>3
  <2>3. i =< index
    <3>1. SUFFICES ASSUME i > index PROVE FALSE
      BY <1>2
    <3>2. index + 1 \in 1 .. Len(entries) /\ ~Before(entries[index + 1].key, end)
      BY <1>2, <1>5, <3>1
    <3>3. i = index + 1 \/ Before(entries[index + 1].key, entries[i].key)
      BY <1>2, <1>6, <3>1, <3>2
    <3>4. entries[index + 1].key \in Key /\ k \in Key
      BY <1>7, <2>1, <3>2
    <3>5. Before(k, end)
      OBVIOUS
    <3> QED
      BY <2>1, <3>2, <3>3, <3>4, <3>5, <1>4, ByteOrderIsTransitive
  <2>4. i - a \in 1 .. Len(snapshot) /\ a + (i - a) = i
    BY <1>2, <2>2, <2>3 DEF a
  <2>5. snapshot[i - a] = entries[i]
    BY <1>3, <2>4
  <2> QED
    BY <2>1, <2>4, <2>5
<1>11. ASSUME NEW i \in 1 .. Len(snapshot), NEW j \in 1 .. Len(snapshot), i < j
       PROVE  Map!Before(snapshot[i].key, snapshot[j].key)
  <2>1. a + i < a + j
    BY <1>2, <1>11 DEF a
  <2>2. Before(entries[a + i].key, entries[a + j].key)
    BY <1>6, <1>8, <2>1
  <2> QED
    BY <2>2, <1>3, SameOrder
<1>12. DOMAIN snapshot = 1 .. Len(snapshot)
  BY <1>2
<1>13. {snapshot[i].key : i \in DOMAIN snapshot} = keys
  <2> HIDE DEF keys
  <2> QED
    BY <1>9, <1>10, <1>12
<1> HIDE DEF keys
<1>14. Map!Lists(snapshot, keys)
  BY <1>2, <1>9, <1>11, <1>12, <1>13 DEF Map!Lists, Entry
<1> QED
  BY <1>1, <1>14 DEF keys, start, end

(* A range scan is the map's, and so is that of a prefix.                     *)
LEMMA WalkRefines ==
  ASSUME IInv, WalkInv, WalkEnds
  PROVE  (Map!RangeScan \/ Map!PrefixScan) /\ call' = None
<1>1. pc = "walk" /\ IsScan(call) /\ entries' = entries /\ call' = None
  BY DEF WalkEnds, Return, WalkInv
<1>2. call \in Calls /\ call # None
  BY <1>1 DEF IInv, TypeOK
<1>3. Contents' = Contents
  BY <1>1 DEF Contents, MapOf
<1>4. CASE call.name = "range"
  <2>1. Bounds(call).start = call.start /\ Bounds(call).end = call.end
    BY <1>4 DEF Bounds
  <2>2. {k \in Keys : /\ Contents[k] # None
                      /\ ~Before(k, Bounds(call).start)
                      /\ Before(k, Bounds(call).end)}
          = {k \in Map!Present : ~Map!Before(k, call.start) /\ Map!Before(k, call.end)}
    BY <2>1, SameOrder DEF Map!Present
  <2> QED
    BY <1>1, <1>2, <1>3, <1>4, <2>2, WalkLists DEF Map!RangeScan
<1>5. CASE call.name = "prefix"
  <2>1. call \in [name : {"prefix"}, prefix : Keys] /\ HasUpperBound(call.prefix)
    BY <1>2, <1>5 DEF Calls, WalkInv
  <2>2. call.prefix \in Key
    BY <2>1, KeysAssumption
  <2>3. Bounds(call) = PrefixRange(call.prefix)
    BY <1>5 DEF Bounds
  <2>4. Bounds(call).start \in Key /\ Bounds(call).end \in Key
    BY <1>1, <1>2, BoundsAreKeys DEF WalkInv
  <2>5. ASSUME NEW k \in Keys
        PROVE  ~Before(k, Bounds(call).start) /\ Before(k, Bounds(call).end)
                 <=> Map!IsPrefix(call.prefix, k)
    <3>1. k \in Key
      BY KeysAssumption
    <3>2. CompareKeys(k, Bounds(call).start) \in Int
      BY <2>4, <3>1, CompareType
    <3>3. ~Before(k, Bounds(call).start) <=> CompareKeys(k, Bounds(call).start) >= 0
      BY <3>2 DEF Before
    <3>4. InRange(k, Bounds(call)) <=> IsPrefix(call.prefix, k)
      BY <2>1, <2>2, <2>3, <3>1, PrefixRangeIsExact
    <3> QED
      BY <3>3, <3>4, SameOrder DEF InRange, Before
  <2>6. {k \in Keys : /\ Contents[k] # None
                      /\ ~Before(k, Bounds(call).start)
                      /\ Before(k, Bounds(call).end)}
          = {k \in Map!Present : Map!IsPrefix(call.prefix, k)}
    BY <2>5 DEF Map!Present
  <2> QED
    BY <1>1, <1>2, <1>3, <1>5, <2>6, WalkLists DEF Map!PrefixScan
<1> QED
  BY <1>1, <1>4, <1>5 DEF IsScan

LEMMA BeginRefines ==
  ASSUME IInv, Begin
  PROVE  Map!Begin
<1>1. call = None
  BY DEF Begin, IInv, TypeOK
<1>2. Contents' = Contents
  <2>1. entries' = entries
    BY DEF Begin
  <2> QED
    BY <2>1 DEF Contents, MapOf
<1>3. PICK c \in Calls :
        IF c.name = "prefix" /\ ~HasUpperBound(c.prefix)
        THEN answer' = "no bound" /\ call' = call
        ELSE call' = c /\ answer' = None
  BY DEF Begin
<1> QED
  BY <1>1, <1>2, <1>3 DEF Map!Begin, Calls

(* A turn of the search or of the walk is no step of the map.                 *)
LEMMA StepRefines == IInv /\ WalkInv /\ [Next]_vars => [Map!Next]_(Map!vars)
<1> SUFFICES ASSUME IInv, WalkInv, [Next]_vars PROVE [Map!Next]_(Map!vars)
  OBVIOUS
<1>1. CASE Begin
  BY <1>1, BeginRefines DEF Map!Next
<1>2. CASE UNCHANGED <<entries, call, answer>>
  <2>1. Contents' = Contents
    BY <1>2 DEF Contents, MapOf
  <2> QED
    BY <1>2, <2>1 DEF Map!vars
<1>3. CASE Get
  BY <1>3, GetRefines DEF Map!Next
<1>4. CASE Set
  BY <1>4, SetRefines DEF Map!Next
<1>5. CASE Delete
  BY <1>5, DeleteRefines DEF Map!Next
<1>6. CASE WalkEnds
  BY <1>6, WalkRefines DEF Map!Next
<1>7. Search \/ Absent \/ Scan \/ Walk \/ UNCHANGED vars => UNCHANGED <<entries, call, answer>>
  BY DEF Search, Absent, Scan, Walk, vars
<1> QED
  BY <1>1, <1>2, <1>3, <1>4, <1>5, <1>6, <1>7 DEF Next, Work

(* The array and its searches are a map in key order: a get returns what the  *)
(* last set of its key left, a range scan the entries of its range and a       *)
(* prefix scan those with the prefix, each once and in byte order, for all     *)
(* keys, values and lengths (src/core.ts, Transaction; src/query/range.ts).  *)
THEOREM StoreIsOrderedMap == Spec => ImplementsOrderedMap
<1>1. Init => WalkInv
  BY DEF Init, WalkInv
<1>2. Init => Map!Init
  <2>1. Init => Contents = [k \in Keys |-> None]
    BY DEF Init, Contents, MapOf
  <2> QED
    BY <2>1 DEF Init, Map!Init
<1> QED
  BY <1>1, <1>2, InitInv, StepInv, WalkStep, StepRefines, PTL DEF Spec, ImplementsOrderedMap, Map!Spec
=============================================================================
