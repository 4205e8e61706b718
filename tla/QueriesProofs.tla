----------------------------- MODULE QueriesProofs -----------------------------
(***************************************************************************)
(* For any rows, predicates, values and chains of steps: a pass over a query is  *)
(* the relation the query asked for, row for row and in order.                *)
(***************************************************************************)
EXTENDS Queries, SequenceTheorems, FiniteSetTheorems, WellFoundedInduction, TLAPS

-----------------------------------------------------------------------------
(* Induction over sets of numbers and of values, and what it takes for the         *)
(* recursive functions of Queries to exist.                                   *)

LEMMA LeastNumber ==
  ASSUME NEW S \in SUBSET Nat, S # {}
  PROVE  \E x \in S : \A n \in S : x =< n
<1> DEFINE T == {0 .. n : n \in S}
           R == StrictSubsetOrdering(UNION T)
<1>1. T \subseteq FiniteSubsetsOf(UNION T)
  <2>1. \A I \in T : IsFiniteSet(I) BY FS_Interval
  <2> HIDE DEF T
  <2>2. QED BY <2>1 DEF FiniteSubsetsOf
<1>2. PICK I \in T : \A J \in T : ~(<<J, I>> \in R)
  <2>1. T # {} OBVIOUS
  <2> HIDE DEF R
  <2>2. IsWellFoundedOn(R, FiniteSubsetsOf(UNION T))
    BY FS_StrictSubsetOrderingWellFounded DEF R
  <2> HIDE DEF T
  <2>3. QED BY <1>1, <2>1, <2>2, WFMin
<1>3. PICK x \in S : I = 0 .. x OBVIOUS
<1>4. ASSUME NEW n \in S, n < x PROVE FALSE
  <2>1. 0 .. n \subseteq 0 .. x /\ 0 .. n # 0 .. x /\ 0 .. n \in T BY <1>4
  <2>2. 0 .. n \in SUBSET (UNION T) /\ I \in SUBSET (UNION T) BY <1>3
  <2>3. <<0 .. n, I>> \in R BY <1>3, <2>1, <2>2 DEF StrictSubsetOrdering
  <2>4. QED BY <1>2, <2>1, <2>3
<1>5. QED BY <1>4

LEMMA UpTo ==
  ASSUME NEW N \in Nat, NEW S, 0 \in S, \A n \in 1..N : n - 1 \in S => n \in S
  PROVE  \A n \in 0..N : n \in S
<1> DEFINE T == {n \in 0..N : n \notin S}
<1> SUFFICES ASSUME T # {} PROVE FALSE OBVIOUS
<1>0. T \in SUBSET Nat OBVIOUS
<1>1. PICK m \in T : \A n \in T : m =< n
  <2> HIDE DEF T
  <2>1. QED BY <1>0, LeastNumber
<1>2. m \in 1..N /\ m - 1 \in 0..N /\ m - 1 < m OBVIOUS
<1>3. m - 1 \in S BY <1>1, <1>2
<1>4. QED BY <1>2, <1>3

Prefixes(N, X, base, next, f) ==
  /\ f \in [0..N -> X]
  /\ f[0] = base
  /\ \A i \in 1..N : f[i] = next[<<i, f[i - 1]>>]

LEMMA PrefixRecursion ==
  ASSUME NEW N \in Nat, NEW X, NEW base \in X, NEW next \in [(1..N) \X X -> X]
  PROVE  \E f : Prefixes(N, X, base, next, f)
<1> DEFINE Runs(n, f) == f[0] = base /\ \A i \in 1..n : f[i] = next[<<i, f[i - 1]>>]
           S == {n \in 0..N : \E f \in [0..n -> X] : Runs(n, f)}
<1>1. 0 \in S
  <2> DEFINE f == [i \in 0..0 |-> base]
  <2>1. f \in [0..0 -> X] /\ Runs(0, f) OBVIOUS
  <2> HIDE DEF f, Runs
  <2>2. 0 \in 0..N OBVIOUS
  <2>3. QED BY <2>1, <2>2
<1>2. ASSUME NEW n \in 1..N, n - 1 \in S PROVE n \in S
  <2>1. PICK f \in [0..(n - 1) -> X] : Runs(n - 1, f) BY <1>2
  <2> DEFINE g == [i \in 0..n |-> IF i = n THEN next[<<n, f[n - 1]>>] ELSE f[i]]
  <2>2. f[n - 1] \in X BY <2>1
  <2>3. g \in [0..n -> X]
    <3>1. next[<<n, f[n - 1]>>] \in X BY <2>2
    <3>2. \A i \in 0..n : i # n => f[i] \in X BY <2>1
    <3>3. QED BY <3>1, <3>2
  <2>4. Runs(n, g)
    <3>1. g[0] = base BY <2>1
    <3>2. ASSUME NEW i \in 1..n PROVE g[i] = next[<<i, g[i - 1]>>]
      <4>1. i - 1 \in 0..n /\ i - 1 # n /\ g[i - 1] = f[i - 1] OBVIOUS
      <4>2. CASE i = n BY <4>1, <4>2
      <4>3. CASE i # n
        <5>1. i \in 1..(n - 1) /\ g[i] = f[i] BY <4>3
        <5>2. f[i] = next[<<i, f[i - 1]>>] BY <5>1, <2>1
        <5>3. QED BY <4>1, <5>1, <5>2
      <4>4. QED BY <4>2, <4>3
    <3>3. QED BY <3>1, <3>2
  <2> HIDE DEF g, Runs
  <2>5. n \in 0..N OBVIOUS
  <2>6. QED BY <2>3, <2>4, <2>5
<1>3. N \in S
  <2> HIDE DEF S
  <2>1. QED BY <1>1, <1>2, UpTo
<1>4. QED BY <1>3 DEF Prefixes

LEMMA PrefixTyped ==
  ASSUME NEW N \in Nat, NEW X, NEW f, f[0] \in X, \A i \in 1..N : f[i - 1] \in X => f[i] \in X
  PROVE  \A i \in 0..N : f[i] \in X
<1> DEFINE S == {i \in 0..N : f[i] \in X}
<1>1. 0 \in S OBVIOUS
<1>2. \A i \in 1..N : i - 1 \in S => i \in S OBVIOUS
<1>3. \A i \in 0..N : i \in S
  <2> HIDE DEF S
  <2>1. QED BY <1>1, <1>2, UpTo
<1>4. QED BY <1>3

LEMMA ItemsAreValues == \A v \in Value : \A i \in DOMAIN v.items : v.items[i] \in Value
BY ValueAssumption

LEMMA ValueInduction ==
  ASSUME NEW S, \A v \in Value : (\A i \in DOMAIN v.items : v.items[i] \in S) => v \in S
  PROVE  \A v \in Value : v \in S
<1> DEFINE T == {v \in Value : v \notin S}
<1> SUFFICES ASSUME T # {} PROVE FALSE OBVIOUS
<1>1. T \in SUBSET Value OBVIOUS
<1>2. PICK v \in T : \A i \in DOMAIN v.items : v.items[i] \notin T BY <1>1, ValueAssumption
<1>3. \A i \in DOMAIN v.items : v.items[i] \in S BY <1>2, ItemsAreValues
<1>4. QED BY <1>3

Items(f, v) == [i \in DOMAIN v.items |-> f[v.items[i]]]
Closed(D) == D \in SUBSET Value /\ \A v \in D : \A i \in DOMAIN v.items : v.items[i] \in D
Recurs(D, X, step, f) == f \in [D -> X] /\ \A v \in D : f[v] = step[<<v, Items(f, v)>>]

Steps(X, step) ==
  \A v \in Value : \A items \in [DOMAIN v.items -> X] : step[<<v, items>>] \in X

LEMMA RecursionAgrees ==
  ASSUME NEW X, NEW step, NEW D, NEW E, NEW f, NEW g,
         Closed(D), Closed(E), Recurs(D, X, step, f), Recurs(E, X, step, g)
  PROVE  \A v \in D \cap E : f[v] = g[v]
<1> DEFINE S == {v \in Value : v \in D \cap E => f[v] = g[v]}
<1>1. ASSUME NEW v \in Value, \A i \in DOMAIN v.items : v.items[i] \in S PROVE v \in S
  <2> SUFFICES ASSUME v \in D, v \in E PROVE f[v] = g[v] OBVIOUS
  <2>1. \A i \in DOMAIN v.items : f[v.items[i]] = g[v.items[i]] BY <1>1 DEF Closed
  <2>2. Items(f, v) = Items(g, v) BY <2>1 DEF Items
  <2>3. QED BY <2>2 DEF Recurs
<1>2. \A v \in Value : v \in S
  <2> HIDE DEF S
  <2>1. QED BY <1>1, ValueInduction
<1>3. QED BY <1>2 DEF Closed

LEMMA ValueRecursion ==
  ASSUME NEW X, NEW step, Steps(X, step)
  PROVE  \E f : Recurs(Value, X, step, f)
<1> DEFINE Reach(v, D, f) == v \in D /\ Closed(D) /\ Recurs(D, X, step, f)
           S == {v \in Value : \E D, f : Reach(v, D, f)}
           F == [v \in S |-> CHOOSE x : \E D, f : Reach(v, D, f) /\ x = f[v]]
<1>1. ASSUME NEW v, NEW D, NEW f, Reach(v, D, f) PROVE v \in S /\ F[v] = f[v]
  <2>1. v \in S BY <1>1 DEF Closed
  <2>2. F[v] = CHOOSE x : \E E, g : Reach(v, E, g) /\ x = g[v] BY <2>1
  <2>3. \E x : \E E, g : Reach(v, E, g) /\ x = g[v] BY <1>1
  <2>4. PICK E, g : Reach(v, E, g) /\ F[v] = g[v] BY <2>2, <2>3
  <2>5. f[v] = g[v] BY <1>1, <2>4, RecursionAgrees
  <2>6. QED BY <2>1, <2>4, <2>5
<1> HIDE DEF F
<1>2. Closed(S) /\ Recurs(S, X, step, F)
  <2>1. ASSUME NEW v \in S
        PROVE  /\ \A i \in DOMAIN v.items : v.items[i] \in S
               /\ F[v] \in X /\ F[v] = step[<<v, Items(F, v)>>]
    <3>1. PICK D, f : Reach(v, D, f) OBVIOUS
    <3>2. \A i \in DOMAIN v.items : Reach(v.items[i], D, f) BY <3>1 DEF Closed
    <3>3. \A i \in DOMAIN v.items : v.items[i] \in S /\ F[v.items[i]] = f[v.items[i]]
      <4> HIDE DEF Reach, S
      <4>1. QED BY <3>2, <1>1
    <3>4. Items(F, v) = Items(f, v) BY <3>3 DEF Items
    <3>5. F[v] = f[v] BY <3>1, <1>1
    <3>6. f[v] \in X /\ f[v] = step[<<v, Items(f, v)>>] BY <3>1 DEF Recurs
    <3>7. QED BY <3>3, <3>4, <3>5, <3>6
  <2>2. Closed(S) BY <2>1 DEF Closed
  <2>3. F = [v \in S |-> F[v]] BY DEF F
  <2> HIDE DEF S
  <2>4. F \in [S -> X] BY <2>1, <2>3
  <2>5. QED BY <2>1, <2>2, <2>4 DEF Recurs
<1>3. ASSUME NEW v \in Value, \A i \in DOMAIN v.items : v.items[i] \in S PROVE v \in S
  <2> SUFFICES ASSUME v \notin S PROVE FALSE OBVIOUS
  <2> DEFINE D == S \cup {v}
             f == [u \in D |-> IF u = v THEN step[<<v, Items(F, v)>>] ELSE F[u]]
  <2> HIDE DEF S
  <2>1. Closed(D) BY <1>2, <1>3 DEF Closed
  <2>2. ASSUME NEW u \in D PROVE Items(f, u) = Items(F, u)
    <3>1. \A i \in DOMAIN u.items : u.items[i] \in S BY <1>2, <1>3 DEF Closed
    <3>2. \A i \in DOMAIN u.items : f[u.items[i]] = F[u.items[i]] BY <3>1
    <3>3. QED BY <3>2 DEF Items
  <2>3. Items(F, v) \in [DOMAIN v.items -> X] BY <1>2, <1>3 DEF Items, Recurs
  <2>4. step[<<v, Items(F, v)>>] \in X BY <2>3 DEF Steps
  <2>5. ASSUME NEW u \in D PROVE f[u] \in X /\ f[u] = step[<<u, Items(f, u)>>]
    <3>1. CASE u = v BY <3>1, <2>2, <2>4
    <3>2. CASE u # v
      <4>1. u \in S /\ f[u] = F[u] BY <3>2
      <4>2. F[u] \in X /\ F[u] = step[<<u, Items(F, u)>>] BY <4>1, <1>2 DEF Recurs
      <4>3. QED BY <4>1, <4>2, <2>2
    <3>3. QED BY <3>1, <3>2
  <2>6. f = [u \in D |-> f[u]] OBVIOUS
  <2> HIDE DEF f
  <2>7. Recurs(D, X, step, f) BY <2>5, <2>6 DEF Recurs
  <2>8. Reach(v, D, f) BY <2>1, <2>7
  <2>9. QED BY <2>8, <1>1
<1>4. \A v \in Value : v \in S
  <2> HIDE DEF S
  <2>1. QED BY <1>3, ValueInduction
<1>5. S = Value BY <1>4
<1>6. Recurs(Value, X, step, F) BY <1>2, <1>5
<1>7. QED BY <1>6

-----------------------------------------------------------------------------
(* deepEqual() and the same JSON value.                                       *)

(* What is equal to a, if classes has what is equal to each of its items.          *)
Alike(a, classes) ==
  {b \in Value :
     \/ a = b
     \/ /\ a.type = "array" /\ b.type = "array"
        /\ Len(a.items) = Len(b.items)
        /\ \A i \in DOMAIN a.items : b.items[i] \in classes[i]
     \/ /\ a.type = "object" /\ b.type = "object"
        /\ Len(a.items) = Len(b.items)
        /\ \A i \in DOMAIN a.items : \E j \in DOMAIN b.items :
             a.keys[i] = b.keys[j] /\ b.items[j] \in classes[i]}

EqualFrom(f, a) ==
  {b \in Value :
     \/ a = b
     \/ /\ a.type = "array" /\ b.type = "array"
        /\ Len(a.items) = Len(b.items)
        /\ \A i \in DOMAIN a.items : b.items[i] \in f[a.items[i]]
     \/ /\ a.type = "object" /\ b.type = "object"
        /\ Len(a.items) = Len(b.items)
        /\ \A i \in DOMAIN a.items : \E j \in DOMAIN b.items :
             a.keys[i] = b.keys[j] /\ b.items[j] \in f[a.items[i]]}

LEMMA AlikeUnfolds ==
  ASSUME NEW f, NEW a
  PROVE  Alike(a, Items(f, a)) = EqualFrom(f, a)
BY DEF Alike, Items, EqualFrom

LEMMA EqualIs == \A a \in Value : equal[a] = EqualFrom(equal, a)
<1> DEFINE X == SUBSET Value
           pairs == UNION {{v} \X [DOMAIN v.items -> X] : v \in Value}
           step == [p \in pairs |-> Alike(p[1], p[2])]
           Is(f) == f = [a \in Value |-> EqualFrom(f, a)]
<1>1. ASSUME NEW v \in Value, NEW items \in [DOMAIN v.items -> X]
      PROVE  step[<<v, items>>] = Alike(v, items) /\ Alike(v, items) \in X
  <2>1. <<v, items>> \in pairs BY <1>1
  <2> HIDE DEF pairs
  <2>2. step[<<v, items>>] = Alike(v, items) BY <2>1
  <2>3. Alike(v, items) \in X BY DEF Alike
  <2>4. QED BY <2>2, <2>3
<1> HIDE DEF step
<1>2. PICK f : Recurs(Value, X, step, f)
  <2>1. Steps(X, step) BY <1>1 DEF Steps
  <2> HIDE DEF X
  <2>2. QED BY <2>1, ValueRecursion
<1>3. ASSUME NEW v \in Value PROVE f[v] = EqualFrom(f, v)
  <2>1. Items(f, v) \in [DOMAIN v.items -> X] BY <1>2, ItemsAreValues DEF Items, Recurs
  <2>2. f[v] = Alike(v, Items(f, v)) BY <1>1, <1>2, <2>1 DEF Recurs
  <2>3. QED BY <2>2, AlikeUnfolds
<1>4. Is(f) BY <1>2, <1>3 DEF Recurs
<1>5. equal = CHOOSE g : Is(g) BY DEF equal, EqualFrom
<1>6. Is(equal)
  <2> HIDE DEF Is
  <2>1. QED BY <1>4, <1>5
<1>7. QED BY <1>6

LEMMA DeepEqualIs ==
  ASSUME NEW a \in Value, NEW b \in Value
  PROVE  DeepEqual(a, b) <=>
           \/ a = b
           \/ /\ a.type = "array" /\ b.type = "array"
              /\ Len(a.items) = Len(b.items)
              /\ \A i \in DOMAIN a.items : DeepEqual(a.items[i], b.items[i])
           \/ /\ a.type = "object" /\ b.type = "object"
              /\ Len(a.items) = Len(b.items)
              /\ \A i \in DOMAIN a.items : \E j \in DOMAIN b.items :
                   a.keys[i] = b.keys[j] /\ DeepEqual(a.items[i], b.items[j])
BY EqualIs DEF DeepEqual, EqualFrom

(* A leaf's path is of labels.                                               *)
Labels == Nat \cup UNION {{v.keys[i] : i \in DOMAIN v.items} : v \in Value}
Leaf == Seq(Labels) \X {v.type : v \in Value} \X {v.is : v \in Value}

Leafage(v, below) ==
  {<<<<>>, v.type, v.is>>}
    \cup UNION {Behind(Label(v, i), below[i]) : i \in DOMAIN v.items}

LeavesFrom(f, v) ==
  {<<<<>>, v.type, v.is>>}
    \cup UNION {Behind(Label(v, i), f[v.items[i]]) : i \in DOMAIN v.items}

LEMMA LeafageUnfolds ==
  ASSUME NEW f, NEW v
  PROVE  Leafage(v, Items(f, v)) = LeavesFrom(f, v)
<1>1. \A i \in DOMAIN v.items : Items(f, v)[i] = f[v.items[i]] BY DEF Items
<1>2. {Behind(Label(v, i), Items(f, v)[i]) : i \in DOMAIN v.items}
        = {Behind(Label(v, i), f[v.items[i]]) : i \in DOMAIN v.items}
  BY <1>1
<1>3. QED BY <1>2 DEF Leafage, LeavesFrom

LEMMA LabelType ==
  ASSUME NEW v \in Value, NEW i \in DOMAIN v.items
  PROVE  Label(v, i) \in Labels /\ i \in Nat
<1>1. i \in Nat BY ValueAssumption
<1>2. QED BY <1>1 DEF Label, Labels

LEMMA LeafageType ==
  ASSUME NEW v \in Value, NEW below \in [DOMAIN v.items -> SUBSET Leaf]
  PROVE  Leafage(v, below) \in SUBSET Leaf
<1>1. <<<<>>, v.type, v.is>> \in Leaf BY EmptySeq DEF Leaf
<1>2. ASSUME NEW i \in DOMAIN v.items, NEW leaf \in below[i]
      PROVE  <<<<Label(v, i)>> \o leaf[1], leaf[2], leaf[3]>> \in Leaf
  <2>1. leaf \in Leaf OBVIOUS
  <2>2. <<Label(v, i)>> \in Seq(Labels) BY LabelType
  <2>3. leaf[1] \in Seq(Labels) BY <2>1 DEF Leaf
  <2>4. <<Label(v, i)>> \o leaf[1] \in Seq(Labels) BY <2>2, <2>3, ConcatProperties
  <2>5. leaf[2] \in {u.type : u \in Value} /\ leaf[3] \in {u.is : u \in Value} BY <2>1 DEF Leaf
  <2>6. QED BY <2>4, <2>5 DEF Leaf
<1>3. ASSUME NEW leaf \in Leafage(v, below) PROVE leaf \in Leaf
  <2>1. CASE leaf = <<<<>>, v.type, v.is>> BY <1>1, <2>1
  <2>2. CASE \E i \in DOMAIN v.items : \E l \in below[i] : leaf = <<<<Label(v, i)>> \o l[1], l[2], l[3]>>
    BY <1>2, <2>2
  <2>3. QED BY <2>1, <2>2 DEF Leafage, Behind
<1>4. QED BY <1>3

LEMMA LeavesIs == leaves \in [Value -> SUBSET Leaf] /\ \A v \in Value : leaves[v] = LeavesFrom(leaves, v)
<1> DEFINE X == SUBSET Leaf
           pairs == UNION {{v} \X [DOMAIN v.items -> X] : v \in Value}
           step == [p \in pairs |-> Leafage(p[1], p[2])]
           Is(f) == f = [v \in Value |-> LeavesFrom(f, v)]
<1>1. ASSUME NEW v \in Value, NEW items \in [DOMAIN v.items -> X]
      PROVE  step[<<v, items>>] = Leafage(v, items) /\ Leafage(v, items) \in X
  <2>1. <<v, items>> \in pairs BY <1>1
  <2> HIDE DEF pairs
  <2>2. step[<<v, items>>] = Leafage(v, items) BY <2>1
  <2>3. Leafage(v, items) \in X BY LeafageType
  <2>4. QED BY <2>2, <2>3
<1> HIDE DEF step
<1>2. PICK f : Recurs(Value, X, step, f)
  <2>1. Steps(X, step) BY <1>1 DEF Steps
  <2> HIDE DEF X
  <2>2. QED BY <2>1, ValueRecursion
<1>3. ASSUME NEW v \in Value PROVE f[v] = LeavesFrom(f, v)
  <2>1. Items(f, v) \in [DOMAIN v.items -> X] BY <1>2, ItemsAreValues DEF Items, Recurs
  <2>2. f[v] = Leafage(v, Items(f, v)) BY <1>1, <1>2, <2>1 DEF Recurs
  <2>3. QED BY <2>2, LeafageUnfolds
<1>4. Is(f) BY <1>2, <1>3 DEF Recurs
<1>5. leaves = CHOOSE g : Is(g) BY DEF leaves, LeavesFrom
<1>6. Is(leaves)
  <2> HIDE DEF Is
  <2>1. QED BY <1>4, <1>5
<1> DEFINE S == {v \in Value : leaves[v] \in X}
<1>7. ASSUME NEW v \in Value, \A i \in DOMAIN v.items : v.items[i] \in S PROVE v \in S
  <2>1. Items(leaves, v) \in [DOMAIN v.items -> X] BY <1>7 DEF Items
  <2>2. leaves[v] = Leafage(v, Items(leaves, v)) BY <1>6, LeafageUnfolds
  <2>3. QED BY <2>1, <2>2, LeafageType
<1>8. \A v \in Value : v \in S
  <2> HIDE DEF S
  <2>1. QED BY <1>7, ValueInduction
<1>9. leaves = [v \in Value |-> leaves[v]] BY <1>6
<1> HIDE DEF X, Is
<1>10. leaves \in [Value -> X] BY <1>8, <1>9
<1>11. QED BY <1>6, <1>10 DEF X, Is

LEMMA LeafIs ==
  ASSUME NEW v \in Value
  PROVE  /\ leaves[v] \in SUBSET Leaf
         /\ <<<<>>, v.type, v.is>> \in leaves[v]
         /\ \A i \in DOMAIN v.items : \A l \in leaves[v.items[i]] :
              <<<<Label(v, i)>> \o l[1], l[2], l[3]>> \in leaves[v]
         /\ \A leaf \in leaves[v] :
              \/ leaf = <<<<>>, v.type, v.is>>
              \/ \E i \in DOMAIN v.items : \E l \in leaves[v.items[i]] :
                   leaf = <<<<Label(v, i)>> \o l[1], l[2], l[3]>>
<1>1. leaves[v] = LeavesFrom(leaves, v) /\ leaves[v] \in SUBSET Leaf BY LeavesIs
<1>2. QED BY <1>1 DEF LeavesFrom, Behind

(* A path that begins with a label is not the empty one, and tells what it began with. *)
LEMMA PathBegins ==
  ASSUME NEW l \in Labels, NEW m \in Labels, NEW p \in Seq(Labels), NEW q \in Seq(Labels)
  PROVE  /\ <<l>> \o p # <<>>
         /\ <<l>> \o p = <<m>> \o q => l = m /\ p = q
<1>1. <<l>> \in Seq(Labels) /\ <<m>> \in Seq(Labels) OBVIOUS
<1>2. /\ Len(<<l>> \o p) = 1 + Len(p) /\ (<<l>> \o p)[1] = l
      /\ \A i \in 1..Len(p) : (<<l>> \o p)[i + 1] = p[i]
  OBVIOUS
<1>3. /\ Len(<<m>> \o q) = 1 + Len(q) /\ (<<m>> \o q)[1] = m
      /\ \A i \in 1..Len(q) : (<<m>> \o q)[i + 1] = q[i]
  OBVIOUS
<1>4. Len(p) \in Nat /\ Len(q) \in Nat OBVIOUS
<1>5. ASSUME <<l>> \o p = <<m>> \o q PROVE l = m /\ p = q
  <2>1. l = m /\ Len(p) = Len(q) /\ \A i \in 1..Len(p) : p[i] = q[i] BY <1>2, <1>3, <1>4, <1>5
  <2>2. p = q BY <2>1, SeqEqual
  <2>3. QED BY <2>1, <2>2
<1>6. <<l>> \o p # <<>> BY <1>2, <1>4
<1>7. QED BY <1>5, <1>6

LEMMA RootIs ==
  ASSUME NEW v \in Value, NEW t, NEW s
  PROVE  <<<<>>, t, s>> \in leaves[v] => t = v.type /\ s = v.is
<1> SUFFICES ASSUME <<<<>>, t, s>> \in leaves[v] PROVE t = v.type /\ s = v.is OBVIOUS
<1>1. CASE \E i \in DOMAIN v.items : \E l \in leaves[v.items[i]] :
             <<<<>>, t, s>> = <<<<Label(v, i)>> \o l[1], l[2], l[3]>>
  <2>0. PICK i \in DOMAIN v.items : \E l \in leaves[v.items[i]] : <<>> = <<Label(v, i)>> \o l[1] BY <1>1
  <2>1. PICK l \in leaves[v.items[i]] : <<>> = <<Label(v, i)>> \o l[1] BY <2>0
  <2>2. Label(v, i) \in Labels BY LabelType
  <2>3. l \in Leaf BY ItemsAreValues, LeafIs
  <2>4. l[1] \in Seq(Labels) BY <2>3 DEF Leaf
  <2>5. QED BY <2>1, <2>2, <2>4, PathBegins
<1>2. QED BY <1>1, LeafIs

(* The labels of an array or an object are distinct.                          *)
LEMMA LabelsDiffer ==
  ASSUME NEW v \in Value, v.type \in {"array", "object"},
         NEW i \in DOMAIN v.items, NEW j \in DOMAIN v.items, Label(v, i) = Label(v, j)
  PROVE  i = j
<1>1. CASE v.type = "array" BY <1>1 DEF Label
<1>2. CASE v.type = "object" BY <1>2, ValueAssumption DEF Label
<1>3. QED BY <1>1, <1>2

(* What is behind the label of an item is that item's.                         *)
LEMMA ItemLeaves ==
  ASSUME NEW v \in Value, v.type \in {"array", "object"}, NEW i \in DOMAIN v.items,
         NEW p \in Seq(Labels), NEW t, NEW s
  PROVE  <<<<Label(v, i)>> \o p, t, s>> \in leaves[v] <=> <<p, t, s>> \in leaves[v.items[i]]
<1>1. Label(v, i) \in Labels BY LabelType
<1>2. ASSUME <<p, t, s>> \in leaves[v.items[i]] PROVE <<<<Label(v, i)>> \o p, t, s>> \in leaves[v]
  BY <1>2, LeafIs
<1>3. ASSUME <<<<Label(v, i)>> \o p, t, s>> \in leaves[v] PROVE <<p, t, s>> \in leaves[v.items[i]]
  <2>1. <<Label(v, i)>> \o p # <<>> BY <1>1, PathBegins
  <2>0. PICK j \in DOMAIN v.items : \E l \in leaves[v.items[j]] :
          <<<<Label(v, i)>> \o p, t, s>> = <<<<Label(v, j)>> \o l[1], l[2], l[3]>>
    BY <1>3, <2>1, LeafIs
  <2>2. PICK l \in leaves[v.items[j]] :
          <<<<Label(v, i)>> \o p, t, s>> = <<<<Label(v, j)>> \o l[1], l[2], l[3]>>
    BY <2>0
  <2>3. l \in Leaf BY ItemsAreValues, LeafIs
  <2>4. l[1] \in Seq(Labels) /\ l = <<l[1], l[2], l[3]>> BY <2>3 DEF Leaf
  <2>5. Label(v, j) \in Labels BY LabelType
  <2>6. Label(v, i) = Label(v, j) /\ p = l[1] BY <1>1, <2>2, <2>4, <2>5, PathBegins
  <2>7. i = j BY <2>6, LabelsDiffer
  <2>8. QED BY <2>2, <2>4, <2>6, <2>7
<1>4. QED BY <1>2, <1>3

LEMMA LeavesWithin ==
  ASSUME NEW a \in Value, NEW b \in Value, a.type \in {"array", "object"}, a.type = b.type
  PROVE  leaves[a] \subseteq leaves[b] <=> \A i \in DOMAIN a.items : \E j \in DOMAIN b.items :
           Label(a, i) = Label(b, j) /\ leaves[a.items[i]] \subseteq leaves[b.items[j]]
<1>1. a.is = b.is BY ValueAssumption
<1>2. ASSUME leaves[a] \subseteq leaves[b], NEW i \in DOMAIN a.items
      PROVE  \E j \in DOMAIN b.items :
               Label(a, i) = Label(b, j) /\ leaves[a.items[i]] \subseteq leaves[b.items[j]]
  <2> DEFINE u == a.items[i]
  <2>0. u \in Value /\ Label(a, i) \in Labels BY ItemsAreValues, LabelType
  <2>1. ASSUME NEW p \in Seq(Labels), NEW t, NEW s, <<p, t, s>> \in leaves[u]
        PROVE  \E j \in DOMAIN b.items : Label(a, i) = Label(b, j) /\ <<p, t, s>> \in leaves[b.items[j]]
    <3>1. <<<<Label(a, i)>> \o p, t, s>> \in leaves[b] BY <1>2, <2>1, ItemLeaves
    <3>2. <<Label(a, i)>> \o p # <<>> BY <2>0, PathBegins
    <3>0. PICK j \in DOMAIN b.items : \E l \in leaves[b.items[j]] :
            <<<<Label(a, i)>> \o p, t, s>> = <<<<Label(b, j)>> \o l[1], l[2], l[3]>>
      BY <3>1, <3>2, LeafIs
    <3>3. PICK l \in leaves[b.items[j]] :
            <<<<Label(a, i)>> \o p, t, s>> = <<<<Label(b, j)>> \o l[1], l[2], l[3]>>
      BY <3>0
    <3>4. l \in Leaf BY ItemsAreValues, LeafIs
    <3>5. l[1] \in Seq(Labels) /\ l = <<l[1], l[2], l[3]>> BY <3>4 DEF Leaf
    <3>6. Label(b, j) \in Labels BY LabelType
    <3>7. Label(a, i) = Label(b, j) /\ p = l[1] BY <2>0, <3>3, <3>5, <3>6, PathBegins
    <3>8. QED BY <3>3, <3>5, <3>7
  <2>2. <<<<>>, u.type, u.is>> \in leaves[u] /\ <<>> \in Seq(Labels) BY <2>0, LeafIs, EmptySeq
  <2>3. PICK j \in DOMAIN b.items : Label(a, i) = Label(b, j) BY <2>1, <2>2
  <2>4. ASSUME NEW leaf \in leaves[u] PROVE leaf \in leaves[b.items[j]]
    <3>1. leaf \in Leaf BY <2>0, LeafIs
    <3>2. leaf[1] \in Seq(Labels) /\ leaf = <<leaf[1], leaf[2], leaf[3]>> BY <3>1 DEF Leaf
    <3>3. PICK k \in DOMAIN b.items : Label(a, i) = Label(b, k) /\ leaf \in leaves[b.items[k]]
      BY <2>1, <3>2
    <3>4. k = j BY <2>3, <3>3, LabelsDiffer
    <3>5. QED BY <3>3, <3>4
  <2>5. QED BY <2>3, <2>4
<1>3. ASSUME \A i \in DOMAIN a.items : \E j \in DOMAIN b.items :
               Label(a, i) = Label(b, j) /\ leaves[a.items[i]] \subseteq leaves[b.items[j]],
             NEW leaf \in leaves[a]
      PROVE  leaf \in leaves[b]
  <2>1. CASE leaf = <<<<>>, a.type, a.is>> BY <1>1, <2>1, LeafIs
  <2>2. CASE \E i \in DOMAIN a.items : \E l \in leaves[a.items[i]] :
               leaf = <<<<Label(a, i)>> \o l[1], l[2], l[3]>>
    <3>0. PICK i \in DOMAIN a.items : \E l \in leaves[a.items[i]] :
            leaf = <<<<Label(a, i)>> \o l[1], l[2], l[3]>>
      BY <2>2
    <3>1. PICK l \in leaves[a.items[i]] : leaf = <<<<Label(a, i)>> \o l[1], l[2], l[3]>> BY <3>0
    <3>2. PICK j \in DOMAIN b.items : Label(a, i) = Label(b, j) /\ l \in leaves[b.items[j]] BY <1>3
    <3>3. QED BY <3>1, <3>2, LeafIs
  <2>3. QED BY <2>1, <2>2, LeafIs
<1>4. QED BY <1>2, <1>3

(* A one-to-one choice of items of b for the items of a, if there are as many, leaves no  *)
(* item of b out.                                                          *)
LEMMA AllTaken ==
  ASSUME NEW a \in Value, NEW b \in Value, a.type \in {"array", "object"}, a.type = b.type,
         Len(a.items) = Len(b.items),
         \A i \in DOMAIN a.items : \E j \in DOMAIN b.items : Label(a, i) = Label(b, j)
  PROVE  \A j \in DOMAIN b.items : \E i \in DOMAIN a.items : Label(a, i) = Label(b, j)
<1> DEFINE D == DOMAIN a.items
           f == [i \in D |-> CHOOSE j \in D : Label(a, i) = Label(b, j)]
<1>0. D = DOMAIN b.items /\ D = 1..Len(a.items) /\ Len(a.items) \in Nat BY ValueAssumption
<1> HIDE DEF D
<1>1. ASSUME NEW i \in D PROVE f[i] \in D /\ Label(a, i) = Label(b, f[i])
  BY <1>0
<1> HIDE DEF f
<1>2. ASSUME NEW i \in D, NEW j \in D, f[i] = f[j] PROVE i = j
  BY <1>0, <1>1, <1>2, LabelsDiffer
<1>3. f \in [D -> D] BY <1>1 DEF f
<1>4. IsFiniteSet(D) BY <1>0, FS_Interval
<1>5. f \in Surjection(D, D)
  <2>1. f \in Injection(D, D) BY <1>2, <1>3 DEF Injection, IsInjective
  <2>2. QED BY <1>4, <2>1, FS_Injection
<1>6. \A j \in D : \E i \in D : f[i] = j BY <1>5 DEF Surjection
<1>7. \A j \in D : \E i \in D : Label(a, i) = Label(b, j) BY <1>1, <1>6
<1>8. QED BY <1>0, <1>7

LEMMA SameLength ==
  ASSUME NEW a \in Value, NEW b \in Value, a.type \in {"array", "object"}, a.type = b.type,
         \A i \in DOMAIN a.items : \E j \in DOMAIN b.items : Label(a, i) = Label(b, j),
         \A j \in DOMAIN b.items : \E i \in DOMAIN a.items : Label(b, j) = Label(a, i)
  PROVE  Len(a.items) = Len(b.items)
<1> DEFINE D == DOMAIN a.items
           E == DOMAIN b.items
           f == [i \in D |-> CHOOSE j \in E : Label(a, i) = Label(b, j)]
<1>0. /\ D = 1..Len(a.items) /\ Len(a.items) \in Nat
      /\ E = 1..Len(b.items) /\ Len(b.items) \in Nat
  BY ValueAssumption
<1>1. ASSUME NEW i \in D PROVE f[i] \in E /\ Label(a, i) = Label(b, f[i])
  OBVIOUS
<1> HIDE DEF f
<1>2. ASSUME NEW i \in D, NEW j \in D, f[i] = f[j] PROVE i = j
  BY <1>1, <1>2, LabelsDiffer
<1>3. ASSUME NEW j \in E PROVE \E i \in D : f[i] = j
  <2>1. PICK i \in D : Label(b, j) = Label(a, i) OBVIOUS
  <2>2. f[i] \in E /\ Label(b, f[i]) = Label(b, j) BY <1>1, <2>1
  <2>3. f[i] = j BY <2>2, LabelsDiffer
  <2>4. QED BY <2>3
<1>4. f \in [D -> E] BY <1>1 DEF f
<1> HIDE DEF D, E
<1>5. f \in Bijection(D, E)
  <2>1. f \in Injection(D, E) BY <1>2, <1>4 DEF Injection, IsInjective
  <2>2. f \in Surjection(D, E) BY <1>3, <1>4 DEF Surjection
  <2>3. QED BY <2>1, <2>2 DEF Bijection
<1>6. Cardinality(D) = Len(a.items) /\ Cardinality(E) = Len(b.items) /\ IsFiniteSet(D)
  <2>1. \A n \in Nat : Cardinality(1..n) = n /\ IsFiniteSet(1..n)
    <3>1. ASSUME NEW n \in Nat PROVE Cardinality(1..n) = n /\ IsFiniteSet(1..n)
      <4>1. Cardinality(1..n) = (IF 1 > n THEN 0 ELSE n - 1 + 1) /\ IsFiniteSet(1..n) BY FS_Interval
      <4>2. QED BY <4>1
    <3>2. QED BY <3>1
  <2>2. QED BY <1>0, <2>1
<1>7. Cardinality(D) = Cardinality(E) BY <1>5, <1>6, FS_Bijection DEF ExistsBijection
<1>8. QED BY <1>6, <1>7

(* deepEqual() says of two values whether they are the same JSON: equal lengths and a    *)
(* partner for each key of the one are enough for objects.                      *)
LEMMA SameIsEqual == \A a, b \in Value : DeepEqual(a, b) <=> Same(a, b)
<1> DEFINE S == {a \in Value : \A b \in Value : DeepEqual(a, b) <=> Same(a, b)}
<1>1. ASSUME NEW a \in Value, \A i \in DOMAIN a.items : a.items[i] \in S PROVE a \in S
  <2> SUFFICES ASSUME NEW b \in Value PROVE DeepEqual(a, b) <=> Same(a, b) OBVIOUS
  <2>1. ASSUME NEW i \in DOMAIN a.items, NEW j \in DOMAIN b.items
        PROVE  DeepEqual(a.items[i], b.items[j]) <=> leaves[a.items[i]] = leaves[b.items[j]]
    BY <1>1, ItemsAreValues DEF Same
  <2> HIDE DEF S
  <2>2. ASSUME Same(a, b) PROVE a.type = b.type /\ a.is = b.is
    BY <2>2, LeafIs, RootIs DEF Same
  <2>3. CASE a.type \notin {"array", "object"}
    <3>1. DeepEqual(a, b) <=> a = b BY <2>3, DeepEqualIs
    <3>2. Same(a, b) => a = b BY <2>2, <2>3, ValueAssumption
    <3>3. a = b => Same(a, b) BY DEF Same
    <3>4. QED BY <3>1, <3>2, <3>3
  <2>4. CASE a.type \in {"array", "object"} /\ a.type # b.type
    BY <2>2, <2>4, DeepEqualIs
  <2>5. CASE a.type \in {"array", "object"} /\ a.type = b.type
    <3> DEFINE Match == \A i \in DOMAIN a.items : \E j \in DOMAIN b.items :
                          Label(a, i) = Label(b, j) /\ leaves[a.items[i]] = leaves[b.items[j]]
    <3>0. /\ DOMAIN a.items = 1..Len(a.items) /\ Len(a.items) \in Nat
          /\ DOMAIN b.items = 1..Len(b.items) /\ Len(b.items) \in Nat
      BY ValueAssumption
    <3>1. DeepEqual(a, b) <=> a = b \/ (Len(a.items) = Len(b.items) /\ Match)
      <4>1. CASE a.type = "array"
        <5>1. DeepEqual(a, b) <=> \/ a = b
                                 \/ /\ Len(a.items) = Len(b.items)
                                    /\ \A i \in DOMAIN a.items : DeepEqual(a.items[i], b.items[i])
          BY <2>5, <4>1, DeepEqualIs
        <5>2. \A i \in DOMAIN a.items, j \in DOMAIN b.items : Label(a, i) = Label(b, j) <=> i = j
          BY <2>5, <4>1 DEF Label
        <5>3. QED BY <2>1, <3>0, <5>1, <5>2
      <4>2. CASE a.type = "object"
        <5>1. DeepEqual(a, b) <=> \/ a = b
                                 \/ /\ Len(a.items) = Len(b.items)
                                    /\ \A i \in DOMAIN a.items : \E j \in DOMAIN b.items :
                                         a.keys[i] = b.keys[j] /\ DeepEqual(a.items[i], b.items[j])
          <6>1. a.type # "array" BY <4>2
          <6>2. a.type = "object" /\ b.type = "object" BY <2>5, <4>2
          <6>3. QED BY <6>1, <6>2, DeepEqualIs
        <5>2. \A i \in DOMAIN a.items, j \in DOMAIN b.items :
                Label(a, i) = Label(b, j) <=> a.keys[i] = b.keys[j]
          BY <2>5, <4>2 DEF Label
        <5>3. QED BY <2>1, <5>1, <5>2
      <4>3. QED BY <2>5, <4>1, <4>2
    <3>2. ASSUME Len(a.items) = Len(b.items), Match PROVE Same(a, b)
      <4>1. \A j \in DOMAIN b.items : \E i \in DOMAIN a.items : Label(a, i) = Label(b, j)
        BY <2>5, <3>2, AllTaken
      <4>2. ASSUME NEW j \in DOMAIN b.items
            PROVE  \E i \in DOMAIN a.items :
                     Label(b, j) = Label(a, i) /\ leaves[b.items[j]] \subseteq leaves[a.items[i]]
        <5>1. PICK i \in DOMAIN a.items : Label(a, i) = Label(b, j) BY <4>1
        <5>2. PICK k \in DOMAIN b.items :
                Label(a, i) = Label(b, k) /\ leaves[a.items[i]] = leaves[b.items[k]]
          BY <3>2
        <5>3. k = j BY <2>5, <5>1, <5>2, LabelsDiffer
        <5>4. QED BY <5>1, <5>2, <5>3
      <4>0. \A i \in DOMAIN a.items : \E j \in DOMAIN b.items :
              Label(a, i) = Label(b, j) /\ leaves[a.items[i]] \subseteq leaves[b.items[j]]
        BY <3>2
      <4>3. leaves[a] \subseteq leaves[b] BY <2>5, <4>0, LeavesWithin
      <4>4. leaves[b] \subseteq leaves[a] BY <2>5, <4>2, LeavesWithin
      <4>5. QED BY <4>3, <4>4 DEF Same
    <3>3. ASSUME Same(a, b) PROVE Len(a.items) = Len(b.items) /\ Match
      <4>1. \A i \in DOMAIN a.items : \E j \in DOMAIN b.items :
              Label(a, i) = Label(b, j) /\ leaves[a.items[i]] \subseteq leaves[b.items[j]]
        BY <2>5, <3>3, LeavesWithin DEF Same
      <4>2. \A j \in DOMAIN b.items : \E i \in DOMAIN a.items :
              Label(b, j) = Label(a, i) /\ leaves[b.items[j]] \subseteq leaves[a.items[i]]
        BY <2>5, <3>3, LeavesWithin DEF Same
      <4>3. Match
        <5> SUFFICES ASSUME NEW i \in DOMAIN a.items
                     PROVE  \E j \in DOMAIN b.items :
                              Label(a, i) = Label(b, j) /\ leaves[a.items[i]] = leaves[b.items[j]]
          OBVIOUS
        <5>1. PICK j \in DOMAIN b.items :
                Label(a, i) = Label(b, j) /\ leaves[a.items[i]] \subseteq leaves[b.items[j]]
          BY <4>1
        <5>2. PICK k \in DOMAIN a.items :
                Label(b, j) = Label(a, k) /\ leaves[b.items[j]] \subseteq leaves[a.items[k]]
          BY <4>2
        <5>3. k = i BY <2>5, <5>1, <5>2, LabelsDiffer
        <5>4. leaves[b.items[j]] \subseteq leaves[a.items[i]] BY <5>2, <5>3
        <5>5. leaves[a.items[i]] = leaves[b.items[j]] BY <5>1, <5>4
        <5>6. QED BY <5>1, <5>5
      <4>4. Len(a.items) = Len(b.items) BY <2>5, <3>0, <4>1, <4>2, SameLength
      <4>5. QED BY <4>3, <4>4
    <3>4. a = b => Same(a, b) BY DEF Same
    <3> HIDE DEF Match
    <3>5. QED BY <3>1, <3>2, <3>3, <3>4
  <2>6. QED BY <2>3, <2>4, <2>5
<1>2. \A a \in Value : a \in S
  <2> HIDE DEF S
  <2>1. QED BY <1>1, ValueInduction
<1>3. QED BY <1>2

-----------------------------------------------------------------------------
(* Filter, and joinRows(), as lists of what is at some positions.               *)

(* out is what in has at the chosen positions, in their order.                   *)
Lists(out, in, chosen, pos) ==
  /\ pos \in [DOMAIN out -> chosen]
  /\ \A i, j \in DOMAIN out : i < j => pos[i] < pos[j]
  /\ \A c \in chosen : \E i \in DOMAIN out : pos[i] = c
  /\ \A i \in DOMAIN out : out[i] = in[pos[i]]

Kept(in, chosen, f) ==
  f = [i \in 0..Len(in) |->
         IF i = 0 THEN <<>>
         ELSE IF i \in chosen THEN Append(f[i - 1], in[i]) ELSE f[i - 1]]

LEMMA FilterIs ==
  ASSUME NEW S, NEW in \in Seq(S), NEW chosen
  PROVE  \E f \in [0..Len(in) -> Seq(S)] :
           /\ Filter(in, chosen) = f[Len(in)]
           /\ f[0] = <<>>
           /\ \A i \in 1..Len(in) :
                f[i] = IF i \in chosen THEN Append(f[i - 1], in[i]) ELSE f[i - 1]
<1> DEFINE N == Len(in)
           X == Seq(S)
           next == [p \in (1..N) \X X |-> IF p[1] \in chosen THEN Append(p[2], in[p[1]]) ELSE p[2]]
           Chosen == CHOOSE f : Kept(in, chosen, f)
<1>0. N \in Nat /\ <<>> \in X BY LenProperties, EmptySeq
<1>1. ASSUME NEW i \in 1..N, NEW s \in X
      PROVE  /\ next[<<i, s>>] = IF i \in chosen THEN Append(s, in[i]) ELSE s
             /\ next[<<i, s>>] \in X
  <2>1. in[i] \in S BY ElementOfSeq
  <2>2. Append(s, in[i]) \in X BY <2>1, AppendProperties
  <2>3. next[<<i, s>>] = IF i \in chosen THEN Append(s, in[i]) ELSE s OBVIOUS
  <2> HIDE DEF next
  <2>4. QED BY <2>2, <2>3
<1> HIDE DEF X
<1>2. next \in [(1..N) \X X -> X]
  <2>1. next = [p \in (1..N) \X X |-> next[p]] OBVIOUS
  <2>2. \A p \in (1..N) \X X : next[p] \in X
    <3> HIDE DEF next
    <3>1. QED BY <1>1
  <2> HIDE DEF next
  <2>3. QED BY <2>1, <2>2
<1> HIDE DEF next, N
<1> DEFINE base == <<>>
<1>3. PICK g : Prefixes(N, X, base, next, g)
  <2>1. base \in X BY <1>0
  <2>2. N \in Nat BY <1>0
  <2> HIDE DEF base, Chosen
  <2>3. QED BY <1>2, <2>1, <2>2, PrefixRecursion
<1>4. ASSUME NEW i \in 1..N PROVE g[i] = IF i \in chosen THEN Append(g[i - 1], in[i]) ELSE g[i - 1]
  <2>1. i - 1 \in 0..N BY <1>0
  <2>2. g[i - 1] \in X /\ g[i] = next[<<i, g[i - 1]>>] BY <1>3, <2>1 DEF Prefixes
  <2>3. QED BY <1>1, <2>2
<1>5. Kept(in, chosen, g)
  <2>1. \A i \in 0..N : i = 0 \/ i \in 1..N BY <1>0
  <2>2. g = [i \in 0..N |-> g[i]] /\ g[0] = <<>> BY <1>3 DEF Prefixes
  <2>3. \A i \in 0..N : g[i] = IF i = 0 THEN <<>>
                              ELSE IF i \in chosen THEN Append(g[i - 1], in[i]) ELSE g[i - 1]
    BY <1>4, <2>1, <2>2
  <2>4. QED BY <2>2, <2>3 DEF Kept, N
<1>6. Kept(in, chosen, Chosen) BY <1>5
<1>7. Filter(in, chosen) = Chosen[N] BY DEF Filter, Kept, N
<1> HIDE DEF Chosen
<1>8. /\ Chosen = [i \in 0..N |-> Chosen[i]] /\ Chosen[0] = <<>>
      /\ \A i \in 1..N : Chosen[i] = IF i \in chosen THEN Append(Chosen[i - 1], in[i]) ELSE Chosen[i - 1]
  <2>1. Chosen = [i \in 0..N |-> IF i = 0 THEN <<>>
                                 ELSE IF i \in chosen THEN Append(Chosen[i - 1], in[i]) ELSE Chosen[i - 1]]
    BY <1>6 DEF Kept, N
  <2>2. \A i \in 0..N : Chosen[i] = IF i = 0 THEN <<>>
                                 ELSE IF i \in chosen THEN Append(Chosen[i - 1], in[i]) ELSE Chosen[i - 1]
    BY <2>1
  <2>3. Chosen = [i \in 0..N |-> Chosen[i]] BY <2>1
  <2>4. Chosen[0] = <<>> BY <1>0, <2>2
  <2>5. ASSUME NEW i \in 1..N
        PROVE  Chosen[i] = IF i \in chosen THEN Append(Chosen[i - 1], in[i]) ELSE Chosen[i - 1]
    <3>1. i \in 0..N /\ i # 0 BY <1>0
    <3>2. QED BY <2>2, <3>1
  <2>6. QED BY <2>3, <2>4, <2>5
<1>9. \A i \in 0..N : Chosen[i] \in X
  <2>1. ASSUME NEW i \in 1..N, Chosen[i - 1] \in X PROVE Chosen[i] \in X
    <3>1. (IF i \in chosen THEN Append(Chosen[i - 1], in[i]) ELSE Chosen[i - 1]) \in X BY <1>1, <2>1
    <3>2. QED BY <1>8, <3>1
  <2>2. Chosen[0] \in X BY <1>0, <1>8
  <2>3. QED BY <1>0, <2>1, <2>2, PrefixTyped
<1>10. Chosen \in [0..N -> X] BY <1>8, <1>9
<1>11. QED BY <1>7, <1>8, <1>10 DEF N, X

LEMMA FilterLists ==
  ASSUME NEW S, NEW in \in Seq(S), NEW chosen \in SUBSET (1..Len(in))
  PROVE  /\ Filter(in, chosen) \in Seq(S)
         /\ \E pos : Lists(Filter(in, chosen), in, chosen, pos)
<1> DEFINE N == Len(in)
<1>1. PICK f \in [0..N -> Seq(S)] :
        /\ Filter(in, chosen) = f[N]
        /\ f[0] = <<>>
        /\ \A i \in 1..N : f[i] = IF i \in chosen THEN Append(f[i - 1], in[i]) ELSE f[i - 1]
  BY FilterIs
<1>0. N \in Nat BY LenProperties
<1> HIDE DEF N
<1> DEFINE T == {i \in 0..N : \E pos : Lists(f[i], in, chosen \cap (1..i), pos)}
<1>2. 0 \in T
  <2> DEFINE none == [i \in {} |-> 0]
  <2>1. DOMAIN f[0] = {} BY <1>1
  <2>2. none \in [{} -> chosen \cap (1..0)] OBVIOUS
  <2>3. chosen \cap (1..0) = {} OBVIOUS
  <2> HIDE DEF none
  <2>4. Lists(f[0], in, chosen \cap (1..0), none) BY <2>1, <2>2, <2>3 DEF Lists
  <2>5. QED BY <1>0, <2>4
<1>3. ASSUME NEW i \in 1..N, i - 1 \in T PROVE i \in T
  <2>0. i - 1 \in 0..N /\ i \in 0..N BY <1>0
  <2>1. PICK pos : Lists(f[i - 1], in, chosen \cap (1..(i - 1)), pos) BY <1>3
  <2>2. CASE i \notin chosen
    <3>1. chosen \cap (1..i) = chosen \cap (1..(i - 1)) BY <2>2
    <3>2. f[i] = f[i - 1] BY <1>1, <2>2
    <3>3. QED BY <2>0, <2>1, <3>1, <3>2
  <2>3. CASE i \in chosen
    <3> DEFINE s == f[i - 1]
               n == Len(s)
               out == Append(s, in[i])
               new == [k \in 1..(n + 1) |-> IF k = n + 1 THEN i ELSE pos[k]]
    <3>1. s \in Seq(S) /\ in[i] \in S BY <2>0, ElementOfSeq DEF N
    <3>2. f[i] = out BY <1>1, <2>3
    <3>3. /\ n \in Nat /\ DOMAIN s = 1..n /\ DOMAIN out = 1..(n + 1)
          /\ out[n + 1] = in[i] /\ \A k \in 1..n : out[k] = s[k]
      <4> HIDE DEF s
      <4>1. QED BY <3>1, AppendProperties, LenProperties
    <3> HIDE DEF s, n, out
    <3>4. /\ pos \in [1..n -> chosen \cap (1..(i - 1))]
          /\ \A k, m \in 1..n : k < m => pos[k] < pos[m]
          /\ \A c \in chosen \cap (1..(i - 1)) : \E k \in 1..n : pos[k] = c
          /\ \A k \in 1..n : s[k] = in[pos[k]]
      BY <2>1, <3>3 DEF Lists, s
    <3>5. \A k \in 1..n : pos[k] \in chosen /\ pos[k] \in 1..(i - 1) /\ pos[k] < i BY <3>4
    <3>6. \A k \in 1..(n + 1) : k = n + 1 \/ k \in 1..n BY <3>3
    <3>7. /\ new[n + 1] = i /\ \A k \in 1..n : new[k] = pos[k] /\ k # n + 1
      BY <3>3
    <3>8. new \in [1..(n + 1) -> chosen \cap (1..i)] BY <2>3, <3>5, <3>6
    <3> HIDE DEF new
    <3>9. ASSUME NEW k \in 1..(n + 1), NEW m \in 1..(n + 1), k < m PROVE new[k] < new[m]
      <4>1. k \in 1..n BY <3>3, <3>9
      <4>2. CASE m = n + 1 BY <3>5, <3>7, <4>1, <4>2
      <4>3. CASE m \in 1..n BY <3>4, <3>7, <3>9, <4>1, <4>3
      <4>4. QED BY <3>6, <4>2, <4>3
    <3>10. ASSUME NEW c \in chosen \cap (1..i) PROVE \E k \in 1..(n + 1) : new[k] = c
      <4>1. CASE c = i BY <3>3, <3>7, <4>1
      <4>2. CASE c # i
        <5>1. c \in chosen \cap (1..(i - 1)) BY <4>2
        <5>2. PICK k \in 1..n : pos[k] = c BY <3>4, <5>1
        <5>3. k \in 1..(n + 1) /\ new[k] = c BY <3>3, <3>7, <5>2
        <5>4. QED BY <5>3
      <4>3. QED BY <4>1, <4>2
    <3>11. \A k \in 1..(n + 1) : out[k] = in[new[k]] BY <3>3, <3>4, <3>6, <3>7
    <3>12. Lists(out, in, chosen \cap (1..i), new) BY <3>3, <3>8, <3>9, <3>10, <3>11 DEF Lists
    <3>13. QED BY <2>0, <3>2, <3>12
  <2>4. QED BY <2>2, <2>3
<1>4. N \in T
  <2> HIDE DEF T
  <2>1. N \in 0..N BY <1>0
  <2>2. QED BY <1>0, <1>2, <1>3, <2>1, UpTo
<1>5. PICK pos : Lists(f[N], in, chosen \cap (1..N), pos) BY <1>4
<1>6. chosen \cap (1..N) = chosen BY DEF N
<1>7. f[N] \in Seq(S) BY <1>0
<1>8. QED BY <1>1, <1>5, <1>6, <1>7

-----------------------------------------------------------------------------
(* Rows and their columns.                                                  *)

Row == UNION {[D -> Value \ {Undefined}] : D \in SUBSET Column}

LEMMA RowIs ==
  ASSUME NEW row
  PROVE  row \in Row <=> IsRow(row)
<1>1. ASSUME row \in Row PROVE IsRow(row)
  <2>1. PICK D \in SUBSET Column : row \in [D -> Value \ {Undefined}] BY <1>1 DEF Row
  <2>2. row = [c \in DOMAIN row |-> row[c]] /\ DOMAIN row = D BY <2>1
  <2>3. \A c \in D : row[c] \in Value /\ row[c] # Undefined BY <2>1
  <2>4. QED BY <2>2, <2>3 DEF IsRow, IsPredicate
<1>2. ASSUME IsRow(row) PROVE row \in Row
  <2>1. DOMAIN row \in SUBSET Column BY <1>2 DEF IsRow, IsPredicate
  <2>2. row \in [DOMAIN row -> Value \ {Undefined}]
    BY <1>2 DEF IsRow, IsPredicate
  <2>3. QED BY <2>1, <2>2 DEF Row
<1>3. QED BY <1>1, <1>2

LEMMA RowColumns ==
  ASSUME NEW row \in Row
  PROVE  /\ DOMAIN row \subseteq Column
         /\ \A c \in DOMAIN row : row[c] \in Value /\ row[c] # Undefined
         /\ row = [c \in DOMAIN row |-> row[c]]
BY RowIs DEF IsRow, IsPredicate

LEMMA UndefinedAlone ==
  ASSUME NEW a \in Value
  PROVE  /\ DeepEqual(a, Undefined) <=> a = Undefined
         /\ DeepEqual(Undefined, a) <=> a = Undefined
<1>1. Undefined \in Value BY ValueAssumption
<1>2. Undefined.type # "array" /\ Undefined.type # "object" BY DEF Undefined, Primitive
<1> DEFINE u == Undefined
<1>3. u \in Value /\ u.type # "array" /\ u.type # "object" BY <1>1, <1>2
<1> HIDE DEF u
<1>4. DeepEqual(a, u) <=> a = u BY <1>3, DeepEqualIs
<1>5. DeepEqual(u, a) <=> u = a BY <1>3, DeepEqualIs
<1>6. QED BY <1>4, <1>5 DEF u

(* The columns of a row, under a prefix.                                       *)
LEMMA ColumnsOf ==
  ASSUME NEW row \in Row
  PROVE  Columns(<<>>, row) = {<<c, row[c]>> : c \in DOMAIN row}
<1>1. \A c \in DOMAIN row : <<>> \o c = c BY RowColumns, ConcatEmptySeq DEF Column
<1>2. QED BY <1>1 DEF Columns

LEMMA HasColumn ==
  ASSUME NEW row \in Row, NEW c, NEW v
  PROVE  <<c, v>> \in Columns(<<>>, row) <=> c \in DOMAIN row /\ v = row[c]
BY ColumnsOf

LEMMA ColumnsArePairs ==
  ASSUME NEW row \in Row, NEW col \in Columns(<<>>, row)
  PROVE  col = <<col[1], col[2]>> /\ col[1] \in DOMAIN row /\ col[2] = row[col[1]]
BY ColumnsOf

LEMMA ReadIs ==
  ASSUME NEW row \in Row, NEW c
  PROVE  /\ Read(row, c) \in Value
         /\ c \in DOMAIN row => Read(row, c) = row[c] /\ Read(row, c) # Undefined
         /\ c \notin DOMAIN row /\ c \notin DOMAIN Inherited => Read(row, c) = Undefined
         /\ c \notin DOMAIN row /\ c \in DOMAIN Inherited => Read(row, c) = Inherited[c]
<1>1. Undefined \in Value BY ValueAssumption
<1>2. \A d \in DOMAIN Inherited : Inherited[d] \in Value BY InheritedAssumption DEF IsRow, IsPredicate
<1>3. QED BY <1>1, <1>2, RowColumns DEF Read

Result(src, row) == [src |-> src, has |-> Columns(<<>>, row)]

(* No name of the predicate is one that every object has with an equal value.       *)
ClearPredicate(p) ==
  \A c \in DOMAIN Inherited \cap DOMAIN p : p[c] # Undefined /\ ~DeepEqual(Inherited[c], p[c])

LEMMA FitsIsSatisfies ==
  ASSUME NEW row \in Row, NEW src, NEW p, IsPredicate(p), ClearPredicate(p)
  PROVE  Fits(row, p) <=> Satisfies(Result(src, row), p)
<1> DEFINE has == Columns(<<>>, row)
           Asks(c) == IF p[c] = Undefined THEN \A col \in has : col[1] # c
                      ELSE \E col \in has : col[1] = c /\ Same(col[2], p[c])
<1>1. ASSUME NEW c \in DOMAIN p PROVE DeepEqual(Read(row, c), p[c]) <=> Asks(c)
  <2>0. p[c] \in Value BY DEF IsPredicate
  <2>1. CASE c \in DOMAIN row
    <3>1. <<c, row[c]>> \in has /\ row[c] \in Value /\ row[c] # Undefined
      BY <2>1, HasColumn, RowColumns
    <3>2. \A col \in has : col[1] = c => col[2] = row[c] BY ColumnsArePairs
    <3>3. Read(row, c) = row[c] BY <2>1, ReadIs
    <3>4. DeepEqual(row[c], p[c]) <=> Same(row[c], p[c]) BY <2>0, <3>1, SameIsEqual
    <3>5. <<c, row[c]>>[1] = c /\ <<c, row[c]>>[2] = row[c] OBVIOUS
    <3> HIDE DEF has
    <3>6. CASE p[c] = Undefined
      <4>1. ~DeepEqual(row[c], p[c]) BY <3>1, <3>6, UndefinedAlone
      <4>2. ~Asks(c) BY <3>1, <3>5, <3>6
      <4>3. QED BY <3>3, <4>1, <4>2
    <3>7. CASE p[c] # Undefined
      <4>1. Asks(c) <=> Same(row[c], p[c]) BY <3>1, <3>2, <3>5, <3>7
      <4>2. QED BY <3>3, <3>4, <4>1
    <3>8. QED BY <3>6, <3>7
  <2>2. CASE c \notin DOMAIN row
    <3>1. \A col \in has : col[1] # c BY <2>2, ColumnsArePairs
    <3>2. Asks(c) <=> p[c] = Undefined
      <4> HIDE DEF has
      <4>1. QED BY <3>1
    <3>3. CASE c \in DOMAIN Inherited
      <4>1. Read(row, c) = Inherited[c] BY <2>2, <3>3, ReadIs
      <4>2. QED BY <3>2, <3>3, <4>1 DEF ClearPredicate
    <3>4. CASE c \notin DOMAIN Inherited
      <4>1. Read(row, c) = Undefined BY <2>2, <3>4, ReadIs
      <4>2. QED BY <2>0, <3>2, <4>1, UndefinedAlone
    <3>5. QED BY <3>3, <3>4
  <2>3. QED BY <2>1, <2>2
<1>2. Satisfies(Result(src, row), p) <=> \A c \in DOMAIN p : Asks(c) BY DEF Satisfies, Result
<1> HIDE DEF Asks
<1>3. QED BY <1>1, <1>2 DEF Fits

LEMMA ProjectIs ==
  ASSUME NEW row \in Row, NEW columns \in SUBSET Column
  PROVE  /\ Project(row, columns) \in Row
         /\ columns \cap DOMAIN Inherited = {} =>
              Columns(<<>>, Project(row, columns)) = {col \in Columns(<<>>, row) : col[1] \in columns}
<1> DEFINE D == {d \in columns : Read(row, d) # Undefined}
<1>1. Project(row, columns) = [c \in D |-> Read(row, c)] BY DEF Project
<1>2. D \in SUBSET Column /\ \A c \in D : Read(row, c) \in Value \ {Undefined} BY ReadIs
<1>3. Project(row, columns) \in Row
  <2> HIDE DEF D
  <2>1. QED BY <1>1, <1>2 DEF Row
<1>4. ASSUME columns \cap DOMAIN Inherited = {}
      PROVE  Columns(<<>>, Project(row, columns)) = {col \in Columns(<<>>, row) : col[1] \in columns}
  <2>1. D = columns \cap DOMAIN row BY <1>4, ReadIs
  <2>2. \A c \in D : Project(row, columns)[c] = row[c] BY <1>1, <2>1, ReadIs
  <2>3. DOMAIN Project(row, columns) = D BY <1>1
  <2>4. Columns(<<>>, Project(row, columns)) = {<<c, Project(row, columns)[c]>> : c \in D}
    BY <1>3, <2>3, ColumnsOf
  <2> HIDE DEF D
  <2>5. {<<c, Project(row, columns)[c]>> : c \in D} = {<<c, row[c]>> : c \in D} BY <2>2
  <2>6. {<<c, row[c]>> : c \in D} = {col \in {<<c, row[c]>> : c \in DOMAIN row} : col[1] \in columns}
    BY <2>1
  <2>7. QED BY <2>4, <2>5, <2>6, ColumnsOf
<1>5. QED BY <1>3, <1>4

(* qualify() of two rows, as columns: the two sides under their names, the right one's    *)
(* where both have a name.                                                   *)
LEMMA PrefixedIs ==
  ASSUME NEW name \in Column, NEW row \in Row
  PROVE  /\ DOMAIN Prefixed(name, row) = {name \o d : d \in DOMAIN row}
         /\ \A d \in DOMAIN row : name \o d \in Column /\ Prefixed(name, row)[name \o d] = row[d]
<1>1. DOMAIN Prefixed(name, row) = {name \o d : d \in DOMAIN row} BY DEF Prefixed
<1>2. ASSUME NEW d \in DOMAIN row
      PROVE  name \o d \in Column /\ SubSeq(name \o d, Len(name) + 1, Len(name \o d)) = d
  <2> DEFINE c == name \o d
             m == Len(name)
             n == Len(d)
             rest == SubSeq(c, m + 1, Len(c))
  <2>1. name \in Seq(Part) /\ d \in Seq(Part) BY RowColumns DEF Column
  <2>2. m \in Nat /\ n \in Nat BY <2>1, LenProperties
  <2>3. /\ c \in Seq(Part) /\ Len(c) = m + n
        /\ \A i \in 1..(m + n) : c[i] = IF i <= m THEN name[i] ELSE d[i - m]
    BY <2>1, ConcatProperties
  <2> HIDE DEF c
  <2>4. \A i \in (m + 1)..(m + n) : c[i] \in Part BY <2>2, <2>3, ElementOfSeq
  <2>5. /\ rest \in Seq(Part)
        /\ Len(rest) = IF m + 1 <= m + n THEN m + n - (m + 1) + 1 ELSE 0
        /\ \A i \in 1..(m + n - (m + 1) + 1) : rest[i] = c[m + 1 + i - 1]
    <3> DEFINE a == m + 1
               b == m + n
               cut == SubSeq(c, a, b)
    <3>1. a \in Int /\ b \in Int BY <2>2
    <3>2. \A i \in a..b : c[i] \in Part BY <2>4
    <3> HIDE DEF a, b
    <3>3. /\ cut \in Seq(Part)
          /\ Len(cut) = IF a =< b THEN b - a + 1 ELSE 0
          /\ \A i \in 1..(b - a + 1) : cut[i] = c[a + i - 1]
      BY <3>1, <3>2, SubSeqProperties
    <3>4. rest = cut BY <2>3 DEF a, b
    <3> HIDE DEF cut, rest
    <3>5. QED BY <3>3, <3>4 DEF a, b
  <2> HIDE DEF rest
  <2>6. Len(rest) = n BY <2>2, <2>5
  <2>7. ASSUME NEW i \in 1..n PROVE rest[i] = d[i]
    <3>1. i \in 1..(m + n - (m + 1) + 1) /\ m + 1 + i - 1 = m + i /\ m + i \in 1..(m + n)
      BY <2>2
    <3>2. rest[i] = c[m + i] BY <2>5, <3>1
    <3>3. ~(m + i <= m) /\ m + i - m = i BY <2>2
    <3>4. c[m + i] = d[i] BY <2>3, <3>1, <3>3
    <3>5. QED BY <3>2, <3>4
  <2>8. rest = d BY <2>1, <2>5, <2>6, <2>7, SeqEqual
  <2>9. QED BY <2>3, <2>8 DEF rest, c, Column, m
<1>3. ASSUME NEW d \in DOMAIN row PROVE Prefixed(name, row)[name \o d] = row[d]
  <2>1. name \o d \in {name \o e : e \in DOMAIN row} OBVIOUS
  <2>2. Prefixed(name, row)[name \o d] = row[SubSeq(name \o d, Len(name) + 1, Len(name \o d))]
    BY <2>1 DEF Prefixed
  <2>3. QED BY <1>2, <2>2
<1>4. QED BY <1>1, <1>2, <1>3

LEMMA ApartNames ==
  ASSUME NEW n \in Column, NEW m \in Column, Apart(n, m), NEW c \in Column, NEW d \in Column
  PROVE  n \o c # m \o d
<1>1. PICK i \in DOMAIN n \cap DOMAIN m : n[i] # m[i] BY DEF Apart
<1>2. i \in 1..Len(n) /\ i \in 1..Len(m) BY DEF Column
<1>3. (n \o c)[i] = n[i] BY <1>2, ConcatProperties DEF Column
<1>4. (m \o d)[i] = m[i] BY <1>2, ConcatProperties DEF Column
<1>5. QED BY <1>1, <1>3, <1>4

LEMMA QualifyType ==
  ASSUME NEW name \in Column, NEW left \in Row, NEW other \in Column, NEW right \in Row
  PROVE  Qualify(name, left, other, right) \in Row
<1> DEFINE l == Prefixed(name, left)
           r == Prefixed(other, right)
           D == DOMAIN l \cup DOMAIN r
           both == Qualify(name, left, other, right)
<1>1. /\ DOMAIN l = {name \o d : d \in DOMAIN left}
      /\ \A d \in DOMAIN left : name \o d \in Column /\ l[name \o d] = left[d]
  BY PrefixedIs
<1>2. /\ DOMAIN r = {other \o d : d \in DOMAIN right}
      /\ \A d \in DOMAIN right : other \o d \in Column /\ r[other \o d] = right[d]
  BY PrefixedIs
<1>3. both = [c \in D |-> IF c \in DOMAIN r THEN r[c] ELSE l[c]] BY DEF Qualify
<1> HIDE DEF l, r, both
<1>4. ASSUME NEW c \in DOMAIN l PROVE c \in Column /\ l[c] \in Value \ {Undefined}
  <2>1. PICK d \in DOMAIN left : c = name \o d BY <1>1
  <2>2. left[d] \in Value /\ left[d] # Undefined BY RowColumns
  <2>3. QED BY <1>1, <2>1, <2>2
<1>5. ASSUME NEW c \in DOMAIN r PROVE c \in Column /\ r[c] \in Value \ {Undefined}
  <2>1. PICK d \in DOMAIN right : c = other \o d BY <1>2
  <2>2. right[d] \in Value /\ right[d] # Undefined BY RowColumns
  <2>3. QED BY <1>2, <2>1, <2>2
<1>6. both \in Row
  <2>1. D \in SUBSET Column /\ \A c \in D : both[c] \in Value \ {Undefined} BY <1>3, <1>4, <1>5
  <2>2. both \in [D -> Value \ {Undefined}] BY <1>3, <2>1
  <2> HIDE DEF D
  <2>3. QED BY <2>1, <2>2 DEF Row
<1>7. QED BY <1>6 DEF both

LEMMA QualifyIs ==
  ASSUME NEW name \in Column, NEW left \in Row, NEW other \in Column, NEW right \in Row, NEW src,
         Apart(name, other)
  PROVE  Columns(<<>>, Qualify(name, left, other, right)) = Both(name, Result(src, left), other, right)
<1> DEFINE l == Prefixed(name, left)
           r == Prefixed(other, right)
           D == DOMAIN l \cup DOMAIN r
           both == Qualify(name, left, other, right)
           has == Columns(<<>>, left)
           new == Columns(other, right)
           old == {<<name \o col[1], col[2]>> : col \in has}
<1>1. /\ DOMAIN l = {name \o d : d \in DOMAIN left}
      /\ \A d \in DOMAIN left : name \o d \in Column /\ l[name \o d] = left[d]
  BY PrefixedIs
<1>2. /\ DOMAIN r = {other \o d : d \in DOMAIN right}
      /\ \A d \in DOMAIN right : other \o d \in Column /\ r[other \o d] = right[d]
  BY PrefixedIs
<1>3. both = [c \in D |-> IF c \in DOMAIN r THEN r[c] ELSE l[c]] BY DEF Qualify
<1> HIDE DEF l, r, both
<1>4. both \in Row BY QualifyType DEF both
<1>5. new = {<<c, r[c]>> : c \in DOMAIN r}
  <2>1. new = {<<other \o d, right[d]>> : d \in DOMAIN right} BY DEF Columns
  <2>2. QED BY <1>2, <2>1
<1>6. old = {<<c, l[c]>> : c \in DOMAIN l}
  <2>1. ASSUME NEW p \in old PROVE p \in {<<c, l[c]>> : c \in DOMAIN l}
    <3>1. PICK col \in has : p = <<name \o col[1], col[2]>> OBVIOUS
    <3>2. col[1] \in DOMAIN left /\ col[2] = left[col[1]] BY ColumnsArePairs
    <3>3. QED BY <1>1, <3>1, <3>2
  <2>2. ASSUME NEW c \in DOMAIN l PROVE <<c, l[c]>> \in old
    <3>1. PICK d \in DOMAIN left : c = name \o d BY <1>1
    <3>2. <<d, left[d]>> \in has BY HasColumn
    <3>3. <<name \o <<d, left[d]>>[1], <<d, left[d]>>[2]>> \in old BY <3>2
    <3>4. <<d, left[d]>>[1] = d /\ <<d, left[d]>>[2] = left[d] OBVIOUS
    <3>5. <<name \o d, left[d]>> \in old BY <3>3, <3>4
    <3>6. QED BY <1>1, <3>1, <3>5
  <2> HIDE DEF old
  <2>3. QED BY <2>1, <2>2
<1>7. Both(name, Result(src, left), other, right) = old \cup new BY DEF Both, Result
<1> HIDE DEF new, old
<1>8. DOMAIN l \cap DOMAIN r = {}
  <2>1. ASSUME NEW c \in DOMAIN left, NEW d \in DOMAIN right PROVE name \o c # other \o d
    <3>1. c \in Column /\ d \in Column BY RowColumns
    <3>2. QED BY <3>1, ApartNames
  <2>2. QED BY <1>1, <1>2, <2>1
<1>9. Columns(<<>>, both) = {<<c, both[c]>> : c \in D} BY <1>3, <1>4, ColumnsOf
<1>10. {<<c, both[c]>> : c \in D} = {<<c, l[c]>> : c \in DOMAIN l} \cup {<<c, r[c]>> : c \in DOMAIN r}
  <2>1. /\ \A c \in DOMAIN r : both[c] = r[c] /\ c \in D
        /\ \A c \in DOMAIN l : both[c] = l[c] /\ c \in D
    BY <1>3, <1>8
  <2>2. QED BY <2>1
<1>11. QED BY <1>5, <1>6, <1>7, <1>9, <1>10 DEF both

-----------------------------------------------------------------------------
(* The rows a query has after some of its steps, with the keys they come from.      *)

Sources(n) == {s \in Seq(Keys) : Len(s) = n}

(* The rows of in are the results, in the order of their sources.                *)
Ranks(in, srcs, results, n) ==
  /\ in \in Seq(Row)
  /\ srcs \in [DOMAIN in -> Sources(n)]
  /\ \A i, j \in DOMAIN in : i < j => Before(srcs[i], srcs[j])
  /\ results = {Result(srcs[i], in[i]) : i \in DOMAIN in}

Ranked(in, results, n) == \E srcs : Ranks(in, srcs, results, n)

LEMMA BeforeKeys ==
  ASSUME NEW k \in Keys, NEW m \in Keys
  PROVE  /\ <<k>> \in Sources(1)
         /\ k < m => Before(<<k>>, <<m>>)
<1>1. <<k>> \in Seq(Keys) /\ Len(<<k>>) = 1 OBVIOUS
<1>2. ASSUME k < m PROVE Before(<<k>>, <<m>>)
  <2>1. 1 \in DOMAIN <<k>> /\ <<k>>[1] = k /\ <<m>>[1] = m OBVIOUS
  <2>2. \A j \in 1..(1 - 1) : <<k>>[j] = <<m>>[j] OBVIOUS
  <2>3. QED BY <1>2, <2>1, <2>2 DEF Before
<1>3. QED BY <1>1, <1>2 DEF Sources

LEMMA BeforeLonger ==
  ASSUME NEW n \in Nat, NEW s \in Sources(n), NEW t \in Sources(n), NEW k \in Keys, NEW m \in Keys
  PROVE  /\ s \o <<k>> \in Sources(n + 1)
         /\ Before(s, t) => Before(s \o <<k>>, t \o <<m>>)
         /\ k < m => Before(s \o <<k>>, s \o <<m>>)
<1>1. s \in Seq(Keys) /\ t \in Seq(Keys) /\ Len(s) = n /\ Len(t) = n BY DEF Sources
<1>2. <<k>> \in Seq(Keys) /\ <<m>> \in Seq(Keys) /\ Len(<<k>>) = 1 /\ Len(<<m>>) = 1
      /\ <<k>>[1] = k /\ <<m>>[1] = m
  OBVIOUS
<1> DEFINE sk == s \o <<k>>
           tm == t \o <<m>>
           sm == s \o <<m>>
<1>3. /\ sk \in Seq(Keys) /\ Len(sk) = n + 1 /\ DOMAIN sk = 1..(n + 1)
      /\ sk[n + 1] = k /\ \A i \in 1..n : sk[i] = s[i]
  <2>1. \A i \in 1..(n + 1) : sk[i] = IF i <= n THEN s[i] ELSE <<k>>[i - n] BY <1>1, <1>2, ConcatProperties
  <2>2. sk \in Seq(Keys) /\ Len(sk) = n + 1 BY <1>1, <1>2, ConcatProperties
  <2> HIDE DEF sk
  <2>3. DOMAIN sk = 1..(n + 1) BY <2>2, LenProperties
  <2>4. QED BY <1>2, <2>1, <2>2, <2>3
<1>4. tm[n + 1] = m /\ \A i \in 1..n : tm[i] = t[i]
  <2>1. \A i \in 1..(n + 1) : tm[i] = IF i <= n THEN t[i] ELSE <<m>>[i - n] BY <1>1, <1>2, ConcatProperties
  <2> HIDE DEF tm
  <2>2. QED BY <1>2, <2>1
<1>5. sm[n + 1] = m /\ \A i \in 1..n : sm[i] = s[i]
  <2>1. \A i \in 1..(n + 1) : sm[i] = IF i <= n THEN s[i] ELSE <<m>>[i - n] BY <1>1, <1>2, ConcatProperties
  <2> HIDE DEF sm
  <2>2. QED BY <1>2, <2>1
<1> HIDE DEF sk, tm, sm
<1>6. ASSUME Before(s, t) PROVE Before(sk, tm)
  <2>1. PICK i \in DOMAIN s : s[i] < t[i] /\ \A j \in 1..(i - 1) : s[j] = t[j] BY <1>6 DEF Before
  <2>2. i \in 1..n BY <1>1, LenProperties
  <2>3. \A j \in 1..(i - 1) : j \in 1..n BY <2>2
  <2>4. \A j \in 1..(i - 1) : sk[j] = tm[j] BY <1>3, <1>4, <2>1, <2>3
  <2>5. sk[i] < tm[i] BY <1>3, <1>4, <2>1, <2>2
  <2>6. i \in DOMAIN sk BY <1>3, <2>2
  <2>7. QED BY <2>4, <2>5, <2>6 DEF Before
<1>7. ASSUME k < m PROVE Before(sk, sm)
  <2>1. n + 1 \in DOMAIN sk /\ sk[n + 1] < sm[n + 1] BY <1>3, <1>5, <1>7
  <2>2. \A j \in 1..(n + 1 - 1) : sk[j] = sm[j] BY <1>3, <1>5
  <2>3. QED BY <2>1, <2>2 DEF Before
<1>8. QED BY <1>3, <1>6, <1>7 DEF Sources, sk, tm, sm

(* The scan.                                                               *)
Stored(name) == {k \in Keys : rows[name][k] # None}

LEMMA AllLists ==
  ASSUME NEW name, rows[name] \in [Keys -> Row \cup {None}]
  PROVE  /\ All(name) \in Seq(Row)
         /\ \E pos : Lists(All(name), rows[name], Stored(name), pos)
<1> DEFINE S == Row \cup {None}
           in == rows[name]
           out == Filter(in, Stored(name))
<1>1. in \in Seq(S) /\ Len(in) = MaxKey BY MaxKeyAssumption DEF Keys
<1>2. Stored(name) \in SUBSET (1..Len(in)) BY <1>1 DEF Stored, Keys
<1> HIDE DEF S
<1>3. out \in Seq(S) /\ \E pos : Lists(out, in, Stored(name), pos) BY <1>1, <1>2, FilterLists
<1>4. All(name) = out BY DEF All, Stored
<1>5. PICK pos : Lists(out, in, Stored(name), pos) BY <1>3
<1> HIDE DEF out
<1>6. Len(out) \in Nat /\ DOMAIN out = 1..Len(out) /\ out = [i \in 1..Len(out) |-> out[i]]
  BY <1>3, LenProperties
<1>7. \A i \in DOMAIN out : out[i] \in Row BY <1>5 DEF Lists, Stored
<1>8. out \in Seq(Row) BY <1>6, <1>7
<1>9. QED BY <1>4, <1>5, <1>8 DEF out

LEMMA ListedFrom ==
  ASSUME NEW out, NEW in, NEW chosen, NEW pos, Lists(out, in, chosen, pos)
  PROVE  /\ \A i \in DOMAIN out : pos[i] \in chosen
         /\ \A c \in chosen : \E i \in DOMAIN out : pos[i] = c
BY DEF Lists

LEMMA BaseRanked ==
  ASSUME NEW name, rows[name] \in [Keys -> Row \cup {None}]
  PROVE  Ranked(All(name), Base(name, rows), 1)
<1> DEFINE out == All(name)
           stored == Stored(name)
           row(k) == rows[name][k]
<1>1. PICK pos : Lists(out, rows[name], stored, pos) BY AllLists
<1>2. out \in Seq(Row) BY AllLists
<1> DEFINE srcs == [i \in DOMAIN out |-> <<pos[i]>>]
<1> HIDE DEF out
<1>3. \A i \in DOMAIN out : pos[i] \in stored /\ out[i] = row(pos[i]) BY <1>1 DEF Lists
<1>4. \A k \in stored : k \in Keys BY DEF Stored
<1>5. srcs \in [DOMAIN out -> Sources(1)] BY <1>3, <1>4, BeforeKeys
<1>6. ASSUME NEW i \in DOMAIN out, NEW j \in DOMAIN out, i < j PROVE Before(srcs[i], srcs[j])
  <2>1. pos[i] < pos[j] BY <1>1, <1>6 DEF Lists
  <2>2. QED BY <1>3, <1>4, <2>1, BeforeKeys
<1>7. Base(name, rows) = {Result(srcs[i], out[i]) : i \in DOMAIN out}
  <2>1. Base(name, rows) = {Result(<<k>>, row(k)) : k \in stored} BY DEF Base, Result, Stored
  <2>2. \A i \in DOMAIN out : Result(srcs[i], out[i]) = Result(<<pos[i]>>, row(pos[i])) BY <1>3
  <2>3. \A k \in stored : \E i \in DOMAIN out : pos[i] = k BY <1>1 DEF Lists
  <2> HIDE DEF srcs, row, stored
  <2>4. {Result(srcs[i], out[i]) : i \in DOMAIN out} = {Result(<<pos[i]>>, row(pos[i])) : i \in DOMAIN out}
    BY <2>2
  <2>5. {Result(<<pos[i]>>, row(pos[i])) : i \in DOMAIN out} = {Result(<<k>>, row(k)) : k \in stored}
    BY <1>3, <2>3
  <2>6. QED BY <2>1, <2>4, <2>5
<1>8. Ranks(out, srcs, Base(name, rows), 1) BY <1>2, <1>5, <1>6, <1>7 DEF Ranks
<1>9. QED BY <1>8 DEF Ranked, out

(* where(), select().                                                       *)
LEMMA PickedRanked ==
  ASSUME NEW in, NEW srcs, NEW results, NEW n, Ranks(in, srcs, results, n),
         NEW chosen \in SUBSET DOMAIN in
  PROVE  Ranked(Filter(in, chosen), {Result(srcs[i], in[i]) : i \in chosen}, n)
<1> DEFINE out == Filter(in, chosen)
<1>1. in \in Seq(Row) /\ DOMAIN in = 1..Len(in) BY LenProperties DEF Ranks
<1>2. out \in Seq(Row) /\ \E pos : Lists(out, in, chosen, pos) BY <1>1, FilterLists
<1>3. PICK pos : Lists(out, in, chosen, pos) BY <1>2
<1> DEFINE new == [i \in DOMAIN out |-> srcs[pos[i]]]
           kept == {Result(srcs[i], in[i]) : i \in chosen}
<1> HIDE DEF out
<1>4. \A i \in DOMAIN out : pos[i] \in chosen /\ out[i] = in[pos[i]] BY <1>3 DEF Lists
<1>5. new \in [DOMAIN out -> Sources(n)] BY <1>4 DEF Ranks
<1>6. ASSUME NEW i \in DOMAIN out, NEW j \in DOMAIN out, i < j PROVE Before(new[i], new[j])
  <2>1. pos[i] < pos[j] BY <1>3, <1>6 DEF Lists
  <2>2. pos[i] \in DOMAIN in /\ pos[j] \in DOMAIN in BY <1>4
  <2>3. QED BY <2>1, <2>2 DEF Ranks
<1>7. kept = {Result(new[i], out[i]) : i \in DOMAIN out}
  <2>1. \A i \in DOMAIN out : Result(new[i], out[i]) = Result(srcs[pos[i]], in[pos[i]]) BY <1>4
  <2>2. \A c \in chosen : \E i \in DOMAIN out : pos[i] = c BY <1>3 DEF Lists
  <2> HIDE DEF new
  <2>3. {Result(new[i], out[i]) : i \in DOMAIN out} = {Result(srcs[pos[i]], in[pos[i]]) : i \in DOMAIN out}
    BY <2>1
  <2>4. {Result(srcs[pos[i]], in[pos[i]]) : i \in DOMAIN out} = {Result(srcs[i], in[i]) : i \in chosen}
    BY <1>4, <2>2
  <2>5. QED BY <2>3, <2>4
<1> HIDE DEF kept, new
<1>8. Ranks(out, new, kept, n) BY <1>2, <1>5, <1>6, <1>7 DEF Ranks
<1>9. QED BY <1>8 DEF Ranked, out, kept

LEMMA WhereRanked ==
  ASSUME NEW in, NEW results, NEW n, Ranked(in, results, n),
         NEW p, IsPredicate(p), ClearPredicate(p)
  PROVE  Ranked(Filter(in, {i \in DOMAIN in : Fits(in[i], p)}), {r \in results : Satisfies(r, p)}, n)
<1>1. PICK srcs : Ranks(in, srcs, results, n) BY DEF Ranked
<1> DEFINE chosen == {i \in DOMAIN in : Fits(in[i], p)}
           r(i) == Result(srcs[i], in[i])
<1>2. \A i \in DOMAIN in : Fits(in[i], p) <=> Satisfies(r(i), p)
  <2>1. \A i \in DOMAIN in : in[i] \in Row BY <1>1, LenProperties, ElementOfSeq DEF Ranks
  <2>2. QED BY <2>1, FitsIsSatisfies
<1>3. results = {r(i) : i \in DOMAIN in} BY <1>1 DEF Ranks
<1>4. Ranked(Filter(in, chosen), {r(i) : i \in chosen}, n) BY <1>1, PickedRanked
<1> HIDE DEF r
<1>5. {s \in results : Satisfies(s, p)} = {r(i) : i \in chosen} BY <1>2, <1>3
<1>6. QED BY <1>4, <1>5

Selected(results, columns) ==
  {[r EXCEPT !.has = {col \in @ : col[1] \in columns}] : r \in results}

LEMMA SelectRanked ==
  ASSUME NEW in, NEW results, NEW n, Ranked(in, results, n),
         NEW columns \in SUBSET Column, columns \cap DOMAIN Inherited = {}
  PROVE  Ranked([i \in DOMAIN in |-> Project(in[i], columns)], Selected(results, columns), n)
<1>1. PICK srcs : Ranks(in, srcs, results, n) BY DEF Ranked
<1> DEFINE out == [i \in DOMAIN in |-> Project(in[i], columns)]
           Cut(r) == [r EXCEPT !.has = {col \in @ : col[1] \in columns}]
<1>2. in \in Seq(Row) /\ Len(in) \in Nat /\ DOMAIN in = 1..Len(in) BY <1>1, LenProperties DEF Ranks
<1>3. \A i \in DOMAIN in : in[i] \in Row BY <1>2, ElementOfSeq
<1>4. out \in Seq(Row) /\ DOMAIN out = DOMAIN in
  <2>1. \A i \in 1..Len(in) : Project(in[i], columns) \in Row BY <1>2, <1>3, ProjectIs
  <2>2. QED BY <1>2, <2>1
<1>5. ASSUME NEW i \in DOMAIN in PROVE Result(srcs[i], out[i]) = Cut(Result(srcs[i], in[i]))
  <2>1. out[i] = Project(in[i], columns) OBVIOUS
  <2>2. Columns(<<>>, out[i]) = {col \in Columns(<<>>, in[i]) : col[1] \in columns}
    BY <1>3, <2>1, ProjectIs
  <2> HIDE DEF out
  <2> DEFINE cut == {col \in Columns(<<>>, in[i]) : col[1] \in columns}
  <2>3. Result(srcs[i], out[i]) = [src |-> srcs[i], has |-> cut] BY <2>2 DEF Result
  <2>4. Result(srcs[i], in[i]).has = Columns(<<>>, in[i]) BY DEF Result
  <2>5. Cut(Result(srcs[i], in[i])) = [Result(srcs[i], in[i]) EXCEPT !.has = cut] BY <2>4
  <2> HIDE DEF cut
  <2>6. [Result(srcs[i], in[i]) EXCEPT !.has = cut] = [src |-> srcs[i], has |-> cut] BY DEF Result
  <2> HIDE DEF Cut
  <2>7. QED BY <2>3, <2>5, <2>6
<1>6. {Cut(r) : r \in results} = {Result(srcs[i], out[i]) : i \in DOMAIN in}
  <2>1. results = {Result(srcs[i], in[i]) : i \in DOMAIN in} BY <1>1 DEF Ranks
  <2> HIDE DEF Cut, out
  <2>2. QED BY <1>5, <2>1
<1> HIDE DEF out
<1>7. Ranks(out, srcs, {Cut(r) : r \in results}, n) BY <1>1, <1>4, <1>6 DEF Ranks
<1>8. QED BY <1>7 DEF Ranked, out, Selected

(* join().                                                                 *)
LEMMA ConcatRanked ==
  ASSUME NEW a, NEW R, NEW b, NEW T, NEW n, Ranked(a, R, n), Ranked(b, T, n),
         \A r \in R : \A t \in T : Before(r.src, t.src)
  PROVE  Ranked(a \o b, R \cup T, n)
<1>1. PICK sa : Ranks(a, sa, R, n) BY DEF Ranked
<1>2. PICK sb : Ranks(b, sb, T, n) BY DEF Ranked
<1> DEFINE k == Len(a)
           m == Len(b)
           out == a \o b
           srcs == [i \in 1..(k + m) |-> IF i <= k THEN sa[i] ELSE sb[i - k]]
<1>3. /\ a \in Seq(Row) /\ k \in Nat /\ DOMAIN a = 1..k
      /\ b \in Seq(Row) /\ m \in Nat /\ DOMAIN b = 1..m
  BY <1>1, <1>2, LenProperties DEF Ranks
<1>4. /\ out \in Seq(Row) /\ DOMAIN out = 1..(k + m)
      /\ \A i \in 1..(k + m) : out[i] = IF i <= k THEN a[i] ELSE b[i - k]
  <2>1. /\ out \in Seq(Row) /\ Len(out) = k + m
        /\ \A i \in 1..(k + m) : out[i] = IF i <= k THEN a[i] ELSE b[i - k]
    BY <1>3, ConcatProperties
  <2> HIDE DEF out, k, m
  <2>2. QED BY <2>1, LenProperties
<1>5. /\ \A i \in 1..k : sa[i] \in Sources(n)
      /\ \A i, j \in 1..k : i < j => Before(sa[i], sa[j])
      /\ R = {Result(sa[i], a[i]) : i \in 1..k}
  BY <1>1, <1>3 DEF Ranks
<1>6. /\ \A i \in 1..m : sb[i] \in Sources(n)
      /\ \A i, j \in 1..m : i < j => Before(sb[i], sb[j])
      /\ T = {Result(sb[i], b[i]) : i \in 1..m}
  BY <1>2, <1>3 DEF Ranks
<1> HIDE DEF out, k, m
<1>7. ASSUME NEW i \in 1..k, NEW j \in 1..m PROVE Before(sa[i], sb[j])
  <2>1. Result(sa[i], a[i]) \in R /\ Result(sb[j], b[j]) \in T BY <1>5, <1>6
  <2>2. Result(sa[i], a[i]).src = sa[i] /\ Result(sb[j], b[j]).src = sb[j] BY DEF Result
  <2>3. QED BY <2>1, <2>2
<1>8. ASSUME NEW i \in 1..(k + m)
      PROVE  \/ i \in 1..k /\ srcs[i] = sa[i] /\ out[i] = a[i]
             \/ i - k \in 1..m /\ srcs[i] = sb[i - k] /\ out[i] = b[i - k] /\ ~(i <= k)
  BY <1>3, <1>4
<1>9. \A i \in 1..k : i \in 1..(k + m) /\ srcs[i] = sa[i] /\ out[i] = a[i] BY <1>3, <1>4
<1>10. \A i \in 1..m : i + k \in 1..(k + m) /\ srcs[i + k] = sb[i] /\ out[i + k] = b[i]
  <2>1. ASSUME NEW i \in 1..m PROVE i + k \in 1..(k + m) /\ srcs[i + k] = sb[i] /\ out[i + k] = b[i]
    <3> HIDE DEF srcs
    <3>1. PICK q \in Int : q = i + k BY <1>3
    <3>2. q \in 1..(k + m) /\ q \notin 1..k /\ q - k = i BY <1>3, <3>1
    <3>3. srcs[q] = sb[q - k] /\ out[q] = b[q - k] BY <1>8, <3>2
    <3>4. srcs[q] = sb[i] /\ out[q] = b[i] BY <3>2, <3>3
    <3>5. QED BY <3>1, <3>2, <3>4
  <2>2. QED BY <2>1
<1>11. srcs \in [1..(k + m) -> Sources(n)]
  <2>1. \A i \in 1..(k + m) : srcs[i] \in Sources(n) BY <1>5, <1>6, <1>8
  <2>2. srcs = [i \in 1..(k + m) |-> srcs[i]] OBVIOUS
  <2> HIDE DEF srcs
  <2>3. QED BY <2>1, <2>2
<1> HIDE DEF srcs
<1>12. ASSUME NEW i \in 1..(k + m), NEW j \in 1..(k + m), i < j PROVE Before(srcs[i], srcs[j])
  <2>1. CASE i \in 1..k /\ j \in 1..k BY <1>5, <1>9, <1>12, <2>1
  <2>2. CASE i \in 1..k /\ ~(j \in 1..k) BY <1>7, <1>8, <1>9, <2>2
  <2>3. CASE ~(i \in 1..k)
    <3>1. ~(j \in 1..k) BY <1>3, <1>12, <2>3
    <3>2. i - k \in 1..m /\ j - k \in 1..m /\ srcs[i] = sb[i - k] /\ srcs[j] = sb[j - k]
      BY <1>8, <2>3, <3>1
    <3>3. i - k < j - k BY <1>3, <1>12
    <3>4. QED BY <1>6, <3>2, <3>3
  <2>4. QED BY <2>1, <2>2, <2>3
<1>13. R \cup T = {Result(srcs[i], out[i]) : i \in 1..(k + m)}
  <2>1. ASSUME NEW r \in R PROVE r \in {Result(srcs[i], out[i]) : i \in 1..(k + m)}
    BY <1>5, <1>9
  <2>2. ASSUME NEW t \in T PROVE t \in {Result(srcs[i], out[i]) : i \in 1..(k + m)}
    <3>1. PICK i \in 1..m : t = Result(sb[i], b[i]) BY <1>6
    <3>2. t = Result(srcs[i + k], out[i + k]) BY <1>10, <3>1
    <3>3. QED BY <1>10, <3>2
  <2>3. ASSUME NEW i \in 1..(k + m) PROVE Result(srcs[i], out[i]) \in R \cup T
    BY <1>5, <1>6, <1>8
  <2>4. QED BY <2>1, <2>2, <2>3
<1>14. Ranks(out, srcs, R \cup T, n) BY <1>4, <1>11, <1>12, <1>13 DEF Ranks
<1>15. QED BY <1>14 DEF Ranked, out

Partners(left, other, lf, rf) ==
  Filter(All(other), {j \in DOMAIN All(other) : JoinKeyEqual(left, lf, All(other)[j], rf)})

Block(name, left, other, lf, rf) ==
  [j \in DOMAIN Partners(left, other, lf, rf) |->
     Qualify(name, left, other, Partners(left, other, lf, rf)[j])]

Joined(name, in, other, lf, rf, f) ==
  f = [i \in 0..Len(in) |-> IF i = 0 THEN <<>> ELSE f[i - 1] \o Block(name, in[i], other, lf, rf)]

Matching(left, other, lf, rf) ==
  {k \in Stored(other) : JoinKeyEqual(left, lf, rows[other][k], rf)}

(* What a row, from src, is joined to.                                         *)
Found(src, name, left, other, lf, rf) ==
  {Result(src \o <<k>>, Qualify(name, left, other, rows[other][k])) :
     k \in Matching(left, other, lf, rf)}

LEMMA PartnersLists ==
  ASSUME NEW left, NEW other, NEW lf, NEW rf, rows[other] \in [Keys -> Row \cup {None}]
  PROVE  /\ Partners(left, other, lf, rf) \in Seq(Row)
         /\ \E pos : Lists(Partners(left, other, lf, rf), rows[other], Matching(left, other, lf, rf), pos)
<1> DEFINE all == All(other)
           chosen == {j \in DOMAIN all : JoinKeyEqual(left, lf, all[j], rf)}
           out == Filter(all, chosen)
           at == rows[other]
           stored == Stored(other)
           match == Matching(left, other, lf, rf)
<1>1. all \in Seq(Row) /\ \E pos : Lists(all, at, stored, pos) BY AllLists
<1>2. PICK p : Lists(all, at, stored, p) BY <1>1
<1> HIDE DEF all
<1>3. chosen \in SUBSET (1..Len(all)) BY <1>1, LenProperties
<1>4. out \in Seq(Row) /\ \E pos : Lists(out, all, chosen, pos) BY <1>1, <1>3, FilterLists
<1>5. PICK s : Lists(out, all, chosen, s) BY <1>4
<1> HIDE DEF out
<1>6. Partners(left, other, lf, rf) = out BY DEF Partners, out, all
<1> DEFINE pos == [i \in DOMAIN out |-> p[s[i]]]
<1>7. ASSUME NEW i \in DOMAIN out
      PROVE  pos[i] \in match /\ out[i] = at[pos[i]] /\ s[i] \in DOMAIN all
  <2>1. s[i] \in chosen /\ out[i] = all[s[i]] BY <1>5 DEF Lists
  <2>2. p[s[i]] \in stored /\ all[s[i]] = at[p[s[i]]] BY <1>2, <2>1 DEF Lists
  <2>3. JoinKeyEqual(left, lf, at[p[s[i]]], rf) BY <2>1, <2>2
  <2>4. QED BY <2>1, <2>2, <2>3 DEF Matching
<1>8. ASSUME NEW i \in DOMAIN out, NEW j \in DOMAIN out, i < j PROVE pos[i] < pos[j]
  <2>1. s[i] < s[j] /\ s[i] \in DOMAIN all /\ s[j] \in DOMAIN all BY <1>5, <1>7, <1>8 DEF Lists
  <2>2. p[s[i]] < p[s[j]] BY <1>2, <2>1 DEF Lists
  <2>3. QED BY <2>2
<1>9. ASSUME NEW k \in match PROVE \E i \in DOMAIN out : pos[i] = k
  <2>1. k \in stored /\ JoinKeyEqual(left, lf, at[k], rf) BY DEF Matching
  <2>2. PICK j \in DOMAIN all : p[j] = k BY <1>2, <2>1 DEF Lists
  <2>3. all[j] = at[k] BY <1>2, <2>2 DEF Lists
  <2>4. j \in chosen BY <2>1, <2>3
  <2>5. PICK i \in DOMAIN out : s[i] = j BY <1>5, <2>4 DEF Lists
  <2>6. QED BY <2>2, <2>5
<1>10. pos \in [DOMAIN out -> match] BY <1>7
<1> HIDE DEF pos, match
<1>11. Lists(out, at, match, pos) BY <1>7, <1>8, <1>9, <1>10 DEF Lists
<1>12. QED BY <1>4, <1>6, <1>11 DEF match

LEMMA BlockRanked ==
  ASSUME NEW name \in Column, NEW left \in Row, NEW other \in Column, NEW lf, NEW rf,
         rows[other] \in [Keys -> Row \cup {None}], NEW n \in Nat, NEW src \in Sources(n)
  PROVE  Ranked(Block(name, left, other, lf, rf), Found(src, name, left, other, lf, rf), n + 1)
<1> DEFINE part == Partners(left, other, lf, rf)
           match == Matching(left, other, lf, rf)
           out == Block(name, left, other, lf, rf)
           found == Found(src, name, left, other, lf, rf)
           q(k) == Qualify(name, left, other, rows[other][k])
<1>1. PICK pos : Lists(part, rows[other], match, pos) BY PartnersLists
<1>2. part \in Seq(Row) /\ Len(part) \in Nat /\ DOMAIN part = 1..Len(part)
  <2>1. part \in Seq(Row) BY PartnersLists
  <2> HIDE DEF part
  <2>2. QED BY <2>1, LenProperties
<1>3. out = [j \in DOMAIN part |-> Qualify(name, left, other, part[j])] BY DEF Block
<1> HIDE DEF part, out, match
<1>4. \A i \in DOMAIN part : pos[i] \in match /\ part[i] = rows[other][pos[i]] BY <1>1 DEF Lists
<1>5. \A k \in match : k \in Keys BY DEF match, Matching, Stored
<1>6. \A i \in DOMAIN part : Qualify(name, left, other, part[i]) \in Row
  <2>1. \A i \in DOMAIN part : part[i] \in Row BY <1>2, ElementOfSeq
  <2>2. QED BY <2>1, QualifyType
<1>7. out \in Seq(Row) /\ DOMAIN out = DOMAIN part BY <1>2, <1>3, <1>6
<1>8. \A i \in DOMAIN part : out[i] = q(pos[i]) BY <1>3, <1>4
<1> DEFINE srcs == [i \in DOMAIN part |-> src \o <<pos[i]>>]
<1>9. srcs \in [DOMAIN part -> Sources(n + 1)]
  <2>1. \A i \in DOMAIN part : src \o <<pos[i]>> \in Sources(n + 1) BY <1>4, <1>5, BeforeLonger
  <2>2. QED BY <2>1
<1>10. ASSUME NEW i \in DOMAIN part, NEW j \in DOMAIN part, i < j PROVE Before(srcs[i], srcs[j])
  <2>1. pos[i] < pos[j] /\ pos[i] \in Keys /\ pos[j] \in Keys BY <1>1, <1>4, <1>5, <1>10 DEF Lists
  <2>2. Before(src \o <<pos[i]>>, src \o <<pos[j]>>) BY <2>1, BeforeLonger
  <2>3. QED BY <2>2
<1>11. found = {Result(srcs[i], out[i]) : i \in DOMAIN part}
  <2>1. found = {Result(src \o <<k>>, q(k)) : k \in match} BY DEF Found, match
  <2>2. \A i \in DOMAIN part : Result(srcs[i], out[i]) = Result(src \o <<pos[i]>>, q(pos[i])) BY <1>8
  <2>3. \A k \in match : \E i \in DOMAIN part : pos[i] = k BY <1>1 DEF Lists
  <2> HIDE DEF srcs, q, found
  <2>4. {Result(srcs[i], out[i]) : i \in DOMAIN part} = {Result(src \o <<pos[i]>>, q(pos[i])) : i \in DOMAIN part}
    BY <2>2
  <2>5. {Result(src \o <<pos[i]>>, q(pos[i])) : i \in DOMAIN part} = {Result(src \o <<k>>, q(k)) : k \in match}
    BY <1>4, <2>3
  <2>6. QED BY <2>1, <2>4, <2>5
<1> HIDE DEF srcs, found
<1>12. Ranks(out, srcs, found, n + 1) BY <1>7, <1>9, <1>10, <1>11 DEF Ranks
<1>13. QED BY <1>12 DEF Ranked, out, found

LEMMA BlockType ==
  ASSUME NEW name \in Column, NEW left \in Row, NEW other \in Column, NEW lf, NEW rf,
         rows[other] \in [Keys -> Row \cup {None}]
  PROVE  Block(name, left, other, lf, rf) \in Seq(Row)
<1>1. <<>> \in Sources(0) BY EmptySeq DEF Sources
<1>2. Ranked(Block(name, left, other, lf, rf), Found(<<>>, name, left, other, lf, rf), 0 + 1)
  BY <1>1, BlockRanked
<1>3. QED BY <1>2 DEF Ranked, Ranks

JoinRuns(name, in, other, lf, rf, f) ==
  /\ f \in [0..Len(in) -> Seq(Row)]
  /\ JoinRows(name, in, other, lf, rf) = f[Len(in)]
  /\ f[0] = <<>>
  /\ \A i \in 1..Len(in) : f[i] = f[i - 1] \o Block(name, in[i], other, lf, rf)

LEMMA JoinRowsIs ==
  ASSUME NEW name \in Column, NEW in \in Seq(Row), NEW other \in Column, NEW lf, NEW rf,
         rows[other] \in [Keys -> Row \cup {None}]
  PROVE  \E f : JoinRuns(name, in, other, lf, rf, f)
<1> DEFINE N == Len(in)
           X == Seq(Row)
           block(i) == Block(name, in[i], other, lf, rf)
           next == [p \in (1..N) \X X |-> p[2] \o block(p[1])]
           Chosen == CHOOSE f : Joined(name, in, other, lf, rf, f)
<1>0. N \in Nat /\ <<>> \in X BY LenProperties, EmptySeq
<1>1. ASSUME NEW i \in 1..N, NEW s \in X
      PROVE  next[<<i, s>>] = s \o block(i) /\ next[<<i, s>>] \in X
  <2>1. in[i] \in Row BY ElementOfSeq
  <2>2. block(i) \in X BY <2>1, BlockType
  <2> HIDE DEF block
  <2>3. s \o block(i) \in X BY <2>2, ConcatProperties
  <2>4. next[<<i, s>>] = s \o block(i) OBVIOUS
  <2>5. QED BY <2>3, <2>4
<1> HIDE DEF X, block
<1>2. next \in [(1..N) \X X -> X]
  <2>1. next = [p \in (1..N) \X X |-> next[p]] OBVIOUS
  <2>2. \A p \in (1..N) \X X : next[p] \in X
    <3> HIDE DEF next
    <3>1. QED BY <1>1
  <2> HIDE DEF next
  <2>3. QED BY <2>1, <2>2
<1> HIDE DEF next, N, Chosen
<1> DEFINE base == <<>>
<1>3. PICK g : Prefixes(N, X, base, next, g)
  <2>1. base \in X BY <1>0
  <2>2. N \in Nat BY <1>0
  <2> HIDE DEF base
  <2>3. QED BY <1>2, <2>1, <2>2, PrefixRecursion
<1>4. ASSUME NEW i \in 1..N PROVE g[i] = g[i - 1] \o block(i)
  <2>1. i - 1 \in 0..N BY <1>0
  <2>2. g[i - 1] \in X /\ g[i] = next[<<i, g[i - 1]>>] BY <1>3, <2>1 DEF Prefixes
  <2>3. QED BY <1>1, <2>2
<1>5. Joined(name, in, other, lf, rf, g)
  <2>1. \A i \in 0..N : i = 0 \/ i \in 1..N BY <1>0
  <2>2. g = [i \in 0..N |-> g[i]] /\ g[0] = <<>> BY <1>3 DEF Prefixes
  <2>3. \A i \in 0..N : g[i] = IF i = 0 THEN <<>> ELSE g[i - 1] \o block(i) BY <1>4, <2>1, <2>2
  <2>4. QED BY <2>2, <2>3 DEF Joined, N, block
<1>6. Joined(name, in, other, lf, rf, Chosen) BY <1>5 DEF Chosen
<1>7. JoinRows(name, in, other, lf, rf) = Chosen[N] BY DEF JoinRows, Joined, Block, Partners, N, Chosen
<1>8. Chosen = [i \in 0..N |-> IF i = 0 THEN <<>> ELSE Chosen[i - 1] \o block(i)]
  BY <1>6 DEF Joined, N, block
<1>9. Chosen = [i \in 0..N |-> Chosen[i]] /\ Chosen[0] = <<>> BY <1>0, <1>8
<1>10. ASSUME NEW i \in 1..N PROVE Chosen[i] = Chosen[i - 1] \o block(i)
  <2>1. i \in 0..N /\ i # 0 BY <1>0
  <2>2. QED BY <1>8, <2>1
<1>11. \A i \in 0..N : Chosen[i] \in X
  <2>1. ASSUME NEW i \in 1..N, Chosen[i - 1] \in X PROVE Chosen[i] \in X
    BY <1>1, <1>10, <2>1
  <2>2. Chosen[0] \in X BY <1>0, <1>9
  <2>3. QED BY <1>0, <2>1, <2>2, PrefixTyped
<1>12. Chosen \in [0..N -> X] BY <1>9, <1>11
<1>13. JoinRuns(name, in, other, lf, rf, Chosen) BY <1>7, <1>9, <1>10, <1>12 DEF JoinRuns, N, X, block
<1>14. QED BY <1>13

LEMMA JoinKeyIs ==
  ASSUME NEW left \in Row, NEW right \in Row, NEW lf, NEW rf,
         lf \notin DOMAIN Inherited, rf \notin DOMAIN Inherited
  PROVE  JoinKeyEqual(left, lf, right, rf) <=>
           /\ rf \in DOMAIN right
           /\ \E col \in Columns(<<>>, left) : col[1] = lf /\ Same(col[2], right[rf])
<1>1. Read(left, lf) # Undefined <=> lf \in DOMAIN left BY ReadIs
<1>2. Read(right, rf) # Undefined <=> rf \in DOMAIN right BY ReadIs
<1>3. CASE lf \in DOMAIN left /\ rf \in DOMAIN right
  <2>1. Read(left, lf) = left[lf] /\ Read(right, rf) = right[rf] BY <1>3, ReadIs
  <2>2. left[lf] \in Value /\ right[rf] \in Value BY <1>3, RowColumns
  <2>3. DeepEqual(left[lf], right[rf]) <=> Same(left[lf], right[rf]) BY <2>2, SameIsEqual
  <2>4. <<lf, left[lf]>> \in Columns(<<>>, left) BY <1>3, HasColumn
  <2>5. \A col \in Columns(<<>>, left) : col[1] = lf => col[2] = left[lf] BY ColumnsArePairs
  <2>6. <<lf, left[lf]>>[1] = lf /\ <<lf, left[lf]>>[2] = left[lf] OBVIOUS
  <2>7. (\E col \in Columns(<<>>, left) : col[1] = lf /\ Same(col[2], right[rf])) <=> Same(left[lf], right[rf])
    BY <2>4, <2>5, <2>6
  <2>8. QED BY <1>1, <1>2, <1>3, <2>1, <2>3, <2>7 DEF JoinKeyEqual
<1>4. CASE ~(lf \in DOMAIN left /\ rf \in DOMAIN right)
  <2>1. ~JoinKeyEqual(left, lf, right, rf) BY <1>1, <1>2, <1>4 DEF JoinKeyEqual
  <2>2. \A col \in Columns(<<>>, left) : col[1] \in DOMAIN left BY ColumnsArePairs
  <2>3. QED BY <1>4, <2>1, <2>2
<1>5. QED BY <1>3, <1>4

(* A left row and a key of the other table that belong together.                 *)
Joins(r, k, other, lf, rf) ==
  LET right == rows[other][k] IN
    /\ right # None
    /\ rf \in DOMAIN right
    /\ \E col \in r.has : col[1] = lf /\ Same(col[2], right[rf])

JoinedTo(name, results, other, lf, rf) ==
  {[src |-> p[1].src \o <<p[2]>>, has |-> Both(name, p[1], other, rows[other][p[2]])] :
     p \in {rk \in results \X Keys : Joins(rk[1], rk[2], other, lf, rf)}}

LEMMA JoinRanked ==
  ASSUME NEW name \in Column, NEW in, NEW results, NEW n \in Nat, Ranked(in, results, n),
         NEW other \in Column, NEW lf, NEW rf, rows[other] \in [Keys -> Row \cup {None}],
         lf \notin DOMAIN Inherited, rf \notin DOMAIN Inherited, Apart(name, other)
  PROVE  Ranked(JoinRows(name, in, other, lf, rf), JoinedTo(name, results, other, lf, rf), n + 1)
<1>1. PICK srcs : Ranks(in, srcs, results, n) BY DEF Ranked
<1> DEFINE N == Len(in)
           block(i) == Block(name, in[i], other, lf, rf)
           found(i) == Found(srcs[i], name, in[i], other, lf, rf)
           upto(i) == UNION {found(l) : l \in 1..i}
           all == JoinRows(name, in, other, lf, rf)
<1>2. in \in Seq(Row) /\ N \in Nat /\ DOMAIN in = 1..N BY <1>1, LenProperties DEF Ranks
<1>3. \A i \in 1..N : in[i] \in Row /\ srcs[i] \in Sources(n)
  BY <1>1, <1>2, ElementOfSeq DEF Ranks
<1>0. PICK f : JoinRuns(name, in, other, lf, rf, f) BY <1>2, JoinRowsIs
<1>4. /\ f \in [0..N -> Seq(Row)]
      /\ all = f[N] /\ f[0] = <<>> /\ \A i \in 1..N : f[i] = f[i - 1] \o block(i)
  BY <1>0 DEF JoinRuns
<1>5. \A i \in 1..N : Ranked(block(i), found(i), n + 1) BY <1>3, BlockRanked
<1>6. ASSUME NEW i \in 1..N, NEW l \in 1..N, l < i, NEW r \in found(l), NEW t \in found(i)
      PROVE  Before(r.src, t.src)
  <2>1. PICK k \in Matching(in[l], other, lf, rf) :
          r = Result(srcs[l] \o <<k>>, Qualify(name, in[l], other, rows[other][k]))
    BY DEF Found
  <2>2. PICK m \in Matching(in[i], other, lf, rf) :
          t = Result(srcs[i] \o <<m>>, Qualify(name, in[i], other, rows[other][m]))
    BY DEF Found
  <2>3. r.src = srcs[l] \o <<k>> /\ t.src = srcs[i] \o <<m>> BY <2>1, <2>2 DEF Result
  <2>4. k \in Keys /\ m \in Keys BY DEF Matching, Stored
  <2>5. Before(srcs[l], srcs[i]) BY <1>1, <1>2, <1>6 DEF Ranks
  <2>6. Before(srcs[l] \o <<k>>, srcs[i] \o <<m>>) BY <1>3, <2>4, <2>5, BeforeLonger
  <2>7. QED BY <2>3, <2>6
<1> HIDE DEF N, block, found, all
<1>7. Ranked(all, upto(N), n + 1)
  <2> DEFINE T == {i \in 0..N : Ranked(f[i], upto(i), n + 1)}
  <2>1. 0 \in T
    <3> DEFINE none == [i \in {} |-> 0]
    <3>1. upto(0) = {} OBVIOUS
    <3>2. <<>> \in Seq(Row) /\ DOMAIN <<>> = {} BY EmptySeq
    <3>3. none \in [{} -> Sources(n + 1)] OBVIOUS
    <3> HIDE DEF none, upto
    <3>4. Ranks(<<>>, none, upto(0), n + 1) BY <3>1, <3>2, <3>3 DEF Ranks
    <3>5. QED BY <1>2, <1>4, <3>4 DEF Ranked
  <2>2. ASSUME NEW i \in 1..N, i - 1 \in T PROVE i \in T
    <3>0. i \in 0..N /\ i - 1 \in 0..N BY <1>2
    <3>1. Ranked(f[i - 1], upto(i - 1), n + 1) /\ Ranked(block(i), found(i), n + 1) BY <1>5, <2>2
    <3>2. ASSUME NEW r \in upto(i - 1), NEW t \in found(i) PROVE Before(r.src, t.src)
      <4>1. PICK l \in 1..(i - 1) : r \in found(l) OBVIOUS
      <4>2. l \in 1..N /\ l < i BY <1>2
      <4>3. QED BY <1>6, <4>1, <4>2
    <3>3. upto(i) = upto(i - 1) \cup found(i)
      <4>1. 1..i = (1..(i - 1)) \cup {i} BY <1>2
      <4>2. QED BY <4>1
    <3> HIDE DEF upto
    <3>4. Ranked(f[i - 1] \o block(i), upto(i - 1) \cup found(i), n + 1) BY <3>1, <3>2, ConcatRanked
    <3>5. QED BY <1>4, <3>0, <3>3, <3>4
  <2>3. N \in T
    <3> HIDE DEF T
    <3>1. N \in 0..N BY <1>2
    <3>2. QED BY <1>2, <2>1, <2>2, <3>1, UpTo
  <2> HIDE DEF upto
  <2>4. QED BY <1>4, <2>3
<1> DEFINE pairs == {rk \in results \X Keys : Joins(rk[1], rk[2], other, lf, rf)}
           as(p) == [src |-> p[1].src \o <<p[2]>>, has |-> Both(name, p[1], other, rows[other][p[2]])]
           r(l) == Result(srcs[l], in[l])
<1>8. results = {r(l) : l \in 1..N} BY <1>1, <1>2 DEF Ranks
<1>9. ASSUME NEW l \in 1..N, NEW k \in Keys
      PROVE  Joins(r(l), k, other, lf, rf) <=> k \in Matching(in[l], other, lf, rf)
  <2>1. r(l).has = Columns(<<>>, in[l]) BY DEF Result
  <2>2. rows[other][k] # None => rows[other][k] \in Row OBVIOUS
  <2>3. QED BY <1>3, <2>1, <2>2, JoinKeyIs DEF Joins, Matching, Stored
<1>10. ASSUME NEW l \in 1..N, NEW k \in Matching(in[l], other, lf, rf)
       PROVE  as(<<r(l), k>>) = Result(srcs[l] \o <<k>>, Qualify(name, in[l], other, rows[other][k]))
  <2>1. rows[other][k] \in Row BY DEF Matching, Stored
  <2>2. Columns(<<>>, Qualify(name, in[l], other, rows[other][k])) = Both(name, r(l), other, rows[other][k])
    BY <1>3, <2>1, QualifyIs
  <2>3. r(l).src = srcs[l] BY DEF Result
  <2>4. <<r(l), k>>[1] = r(l) /\ <<r(l), k>>[2] = k OBVIOUS
  <2> HIDE DEF r
  <2>5. as(<<r(l), k>>) = [src |-> srcs[l] \o <<k>>, has |-> Both(name, r(l), other, rows[other][k])]
    BY <2>3, <2>4
  <2>6. QED BY <2>2, <2>5 DEF Result
<1>11. {as(p) : p \in pairs} = upto(N)
  <2>1. ASSUME NEW p \in pairs PROVE as(p) \in upto(N)
    <3>1. p[1] \in results /\ p[2] \in Keys /\ p = <<p[1], p[2]>> /\ Joins(p[1], p[2], other, lf, rf)
      OBVIOUS
    <3>2. PICK l \in 1..N : p[1] = r(l) BY <1>8, <3>1
    <3>3. p[2] \in Matching(in[l], other, lf, rf) BY <1>9, <3>1, <3>2
    <3>4. as(p) = Result(srcs[l] \o <<p[2]>>, Qualify(name, in[l], other, rows[other][p[2]]))
      BY <1>10, <3>1, <3>2, <3>3
    <3> HIDE DEF as, r, pairs
    <3>5. as(p) \in found(l) BY <3>3, <3>4 DEF found, Found
    <3>6. QED BY <3>5
  <2>2. ASSUME NEW x \in upto(N) PROVE x \in {as(p) : p \in pairs}
    <3>1. PICK l \in 1..N : x \in found(l) OBVIOUS
    <3>2. PICK k \in Matching(in[l], other, lf, rf) :
            x = Result(srcs[l] \o <<k>>, Qualify(name, in[l], other, rows[other][k]))
      BY <3>1 DEF found, Found
    <3>3. k \in Keys BY DEF Matching, Stored
    <3>4. Joins(r(l), k, other, lf, rf) /\ r(l) \in results BY <1>8, <1>9, <3>3
    <3> HIDE DEF r
    <3>5. <<r(l), k>> \in pairs BY <3>3, <3>4
    <3> HIDE DEF as, pairs
    <3>6. x = as(<<r(l), k>>) BY <1>10, <3>2 DEF r
    <3>7. QED BY <3>5, <3>6
  <2> HIDE DEF as, pairs, upto
  <2>3. QED BY <2>1, <2>2
<1> HIDE DEF as, pairs, upto
<1>12. Ranked(all, {as(p) : p \in pairs}, n + 1) BY <1>7, <1>11
<1>13. QED BY <1>12 DEF all, as, pairs, JoinedTo

-----------------------------------------------------------------------------
(* How many results there are, and which row is which one's.                      *)

LEMMA BeforeOneWay ==
  ASSUME NEW n \in Nat, NEW s \in Sources(n), NEW t \in Sources(n), Before(s, t)
  PROVE  ~Before(t, s)
<1>1. /\ DOMAIN s = 1..n /\ DOMAIN t = 1..n
      /\ \A i \in 1..n : s[i] \in Int /\ t[i] \in Int
  <2>1. s \in Seq(Keys) /\ t \in Seq(Keys) /\ Len(s) = n /\ Len(t) = n BY DEF Sources
  <2>2. \A i \in 1..n : s[i] \in Keys /\ t[i] \in Keys BY <2>1, ElementOfSeq
  <2>3. QED BY <2>1, <2>2, LenProperties DEF Keys
<1> SUFFICES ASSUME Before(t, s) PROVE FALSE OBVIOUS
<1>2. PICK i \in 1..n : s[i] < t[i] /\ \A k \in 1..(i - 1) : s[k] = t[k] BY <1>1 DEF Before
<1>3. PICK j \in 1..n : t[j] < s[j] /\ \A k \in 1..(j - 1) : t[k] = s[k] BY <1>1 DEF Before
<1>4. CASE i < j
  <2>1. i \in 1..(j - 1) BY <1>4
  <2>2. QED BY <1>1, <1>2, <1>3, <2>1
<1>5. CASE j < i
  <2>1. j \in 1..(i - 1) BY <1>5
  <2>2. QED BY <1>1, <1>2, <1>3, <2>1
<1>6. CASE i = j BY <1>1, <1>2, <1>3, <1>6
<1>7. QED BY <1>4, <1>5, <1>6

LEMMA OneForEach ==
  ASSUME NEW m \in Nat, NEW h, \A i, j \in 1..m : h[i] = h[j] => i = j
  PROVE  Cardinality({h[i] : i \in 1..m}) = m
<1> DEFINE D == 1..m
           E == {h[i] : i \in 1..m}
           f == [i \in D |-> h[i]]
<1>1. f \in Injection(D, E) /\ f \in Surjection(D, E)
  BY DEF Injection, Surjection, IsInjective
<1>2. f \in Bijection(D, E) BY <1>1 DEF Bijection
<1>3. IsFiniteSet(D) /\ Cardinality(D) = m
  <2>1. Cardinality(1..m) = (IF 1 > m THEN 0 ELSE m - 1 + 1) /\ IsFiniteSet(1..m) BY FS_Interval
  <2>2. QED BY <2>1
<1> HIDE DEF D, E, f
<1>4. Cardinality(E) = Cardinality(D) BY <1>2, <1>3, FS_Bijection DEF ExistsBijection
<1>5. QED BY <1>3, <1>4 DEF E

LEMMA RankedCounts ==
  ASSUME NEW in, NEW results, NEW n \in Nat, Ranked(in, results, n)
  PROVE  /\ Len(in) = Cardinality(results)
         /\ \A r \in results : Columns(<<>>, in[Rank(r, results)]) = r.has
<1>1. PICK srcs : Ranks(in, srcs, results, n) BY DEF Ranked
<1> DEFINE N == Len(in)
           h == [i \in 1..N |-> Result(srcs[i], in[i])]
<1>2. in \in Seq(Row) /\ N \in Nat /\ DOMAIN in = 1..N BY <1>1, LenProperties DEF Ranks
<1>3. /\ \A i \in 1..N : srcs[i] \in Sources(n)
      /\ \A i, j \in 1..N : i < j => Before(srcs[i], srcs[j])
      /\ results = {h[i] : i \in 1..N}
  BY <1>1, <1>2 DEF Ranks
<1>4. \A i \in 1..N : h[i].src = srcs[i] /\ h[i].has = Columns(<<>>, in[i]) BY DEF Result
<1> HIDE DEF N, h
<1>5. ASSUME NEW i \in 1..N, NEW j \in 1..N PROVE Before(srcs[i], srcs[j]) <=> i < j
  <2>1. ASSUME Before(srcs[i], srcs[j]), ~(i < j) PROVE FALSE
    <3>1. ~Before(srcs[j], srcs[i]) BY <1>3, <2>1, BeforeOneWay
    <3>2. ~(j < i) BY <1>3, <3>1
    <3>3. i = j BY <1>2, <2>1, <3>2
    <3>4. QED BY <2>1, <3>1, <3>3
  <2>2. QED BY <1>3, <2>1
<1>6. ASSUME NEW i \in 1..N, NEW j \in 1..N, h[i] = h[j] PROVE i = j
  <2>1. srcs[i] = srcs[j] BY <1>4, <1>6
  <2>2. ~(i < j) /\ ~(j < i) BY <1>5, <2>1
  <2>3. QED BY <1>2, <2>2
<1>7. N = Cardinality(results) BY <1>2, <1>3, <1>6, OneForEach
<1>8. ASSUME NEW i \in 1..N PROVE Rank(h[i], results) = i
  <2> DEFINE first == {s \in results : s = h[i] \/ Before(s.src, h[i].src)}
  <2>1. ASSUME NEW j \in 1..N PROVE (h[j] = h[i] \/ Before(h[j].src, h[i].src)) <=> j \in 1..i
    <3>1. h[j] = h[i] <=> j = i BY <1>6
    <3>2. Before(h[j].src, h[i].src) <=> j < i BY <1>4, <1>5
    <3>3. j \in 1..i <=> j = i \/ j < i BY <1>2
    <3>4. QED BY <3>1, <3>2, <3>3
  <2>2. first = {h[j] : j \in 1..i}
    <3>1. \A j \in 1..i : j \in 1..N BY <1>2
    <3>2. QED BY <1>3, <2>1, <3>1
  <2>3. i \in Nat /\ \A j, k \in 1..i : h[j] = h[k] => j = k
    <3>1. \A j \in 1..i : j \in 1..N BY <1>2
    <3>2. QED BY <1>2, <1>6, <3>1
  <2>4. Cardinality({h[j] : j \in 1..i}) = i BY <2>3, OneForEach
  <2>5. Rank(h[i], results) = Cardinality(first) BY DEF Rank
  <2> HIDE DEF first
  <2>6. QED BY <2>2, <2>4, <2>5
<1>9. ASSUME NEW r \in results PROVE Columns(<<>>, in[Rank(r, results)]) = r.has
  <2>1. PICK i \in 1..N : r = h[i] BY <1>3
  <2>2. QED BY <1>4, <1>8, <2>1
<1>10. QED BY <1>7, <1>9 DEF N

-----------------------------------------------------------------------------
(* A whole query: what a pass hands out, and what was asked for.                   *)

RowsTyped == rows \in [Names -> [Keys -> Row \cup {None}]]
PredicatesTyped == DOMAIN predicate = Predicates /\ \A p \in Predicates : IsPredicate(predicate[p])

LEMMA StepIs ==
  ASSUME NEW step, IsStep(step)
  PROVE  \/ step.op = "where" /\ step.by \in Predicates
         \/ step.op = "select" /\ step.columns \in SUBSET Column
         \/ step.op = "join" /\ step.other \in Names /\ step.left \in Column /\ step.right \in Column
BY DEF IsStep

LEMMA QueryIs ==
  ASSUME NEW q \in Asked
  PROVE  /\ q.from \in Names /\ q.from \in Column
         /\ Len(q.steps) \in Nat
         /\ DOMAIN q.steps = 1..Len(q.steps)
         /\ \A i \in 1..Len(q.steps) : IsStep(q.steps[i])
<1>1. /\ q.from \in Names
      /\ q.steps \in Seq({q.steps[i] : i \in DOMAIN q.steps})
      /\ \A i \in DOMAIN q.steps : IsStep(q.steps[i])
  BY AskedAssumption
<1>2. Names \subseteq Column BY RowsAssumption
<1>3. Len(q.steps) \in Nat /\ DOMAIN q.steps = 1..Len(q.steps) BY <1>1, LenProperties
<1>4. QED BY <1>1, <1>2, <1>3

LEMMA StepType ==
  ASSUME RowsTyped, NEW name \in Names, NEW in \in Seq(Row), NEW step, IsStep(step)
  PROVE  Step(name, in, step) \in Seq(Row)
<1>0. Names \subseteq Column BY RowsAssumption
<1>1. Len(in) \in Nat /\ DOMAIN in = 1..Len(in) /\ \A i \in DOMAIN in : in[i] \in Row
  BY LenProperties, ElementOfSeq
<1>2. CASE step.op = "where"
  <2> DEFINE chosen == {i \in DOMAIN in : Fits(in[i], predicate[step.by])}
  <2>1. Step(name, in, step) = Filter(in, chosen) BY <1>2 DEF Step
  <2>2. chosen \in SUBSET (1..Len(in)) BY <1>1
  <2> HIDE DEF chosen
  <2>3. QED BY <2>1, <2>2, FilterLists
<1>3. CASE step.op = "select"
  <2>1. step.columns \in SUBSET Column BY <1>3, StepIs
  <2>2. Step(name, in, step) = [i \in 1..Len(in) |-> Project(in[i], step.columns)]
    BY <1>1, <1>3 DEF Step
  <2>3. \A i \in 1..Len(in) : Project(in[i], step.columns) \in Row BY <1>1, <2>1, ProjectIs
  <2>4. QED BY <1>1, <2>2, <2>3
<1>4. CASE step.op = "join"
  <2>1. step.other \in Names BY <1>4, StepIs
  <2>2. Step(name, in, step) = JoinRows(name, in, step.other, step.left, step.right)
    BY <1>4 DEF Step
  <2>3. rows[step.other] \in [Keys -> Row \cup {None}] BY <2>1 DEF RowsTyped
  <2>4. name \in Column /\ step.other \in Column BY <1>0, <2>1
  <2>5. PICK f : JoinRuns(name, in, step.other, step.left, step.right, f) BY <2>3, <2>4, JoinRowsIs
  <2>6. QED BY <1>1, <2>2, <2>5 DEF JoinRuns
<1>5. QED BY <1>2, <1>3, <1>4, StepIs

AnswerRuns(q, f) ==
  /\ f \in [0..Len(q.steps) -> Seq(Row)]
  /\ Answer(q) = f[Len(q.steps)]
  /\ f[0] = All(q.from)
  /\ \A i \in 1..Len(q.steps) : f[i] = Step(q.from, f[i - 1], q.steps[i])

Answers(q, f) ==
  f = [i \in 0..Len(q.steps) |->
         IF i = 0 THEN All(q.from) ELSE Step(q.from, f[i - 1], q.steps[i])]

LEMMA AnswerIs ==
  ASSUME RowsTyped, NEW q \in Asked
  PROVE  \E f : AnswerRuns(q, f)
<1> DEFINE N == Len(q.steps)
           X == Seq(Row)
           step(i, s) == Step(q.from, s, q.steps[i])
           next == [p \in (1..N) \X X |-> step(p[1], p[2])]
           base == All(q.from)
           Chosen == CHOOSE f : Answers(q, f)
<1>0. N \in Nat /\ base \in X
  <2>1. rows[q.from] \in [Keys -> Row \cup {None}] BY QueryIs DEF RowsTyped
  <2>2. QED BY <2>1, QueryIs, AllLists
<1>1. ASSUME NEW i \in 1..N, NEW s \in X
      PROVE  next[<<i, s>>] = step(i, s) /\ next[<<i, s>>] \in X
  <2>1. step(i, s) \in X BY QueryIs, StepType
  <2>2. next[<<i, s>>] = step(i, s) OBVIOUS
  <2>3. QED BY <2>1, <2>2
<1> HIDE DEF X, step, base
<1>2. next \in [(1..N) \X X -> X]
  <2>1. next = [p \in (1..N) \X X |-> next[p]] OBVIOUS
  <2>2. \A p \in (1..N) \X X : next[p] \in X
    <3> HIDE DEF next
    <3>1. QED BY <1>1
  <2> HIDE DEF next
  <2>3. QED BY <2>1, <2>2
<1> HIDE DEF next, N, Chosen
<1>3. PICK g : Prefixes(N, X, base, next, g) BY <1>0, <1>2, PrefixRecursion
<1>4. ASSUME NEW i \in 1..N PROVE g[i] = step(i, g[i - 1])
  <2>1. i - 1 \in 0..N BY <1>0
  <2>2. g[i - 1] \in X /\ g[i] = next[<<i, g[i - 1]>>] BY <1>3, <2>1 DEF Prefixes
  <2>3. QED BY <1>1, <2>2
<1>5. Answers(q, g)
  <2>1. \A i \in 0..N : i = 0 \/ i \in 1..N BY <1>0
  <2>2. g = [i \in 0..N |-> g[i]] /\ g[0] = base BY <1>3 DEF Prefixes
  <2>3. \A i \in 0..N : g[i] = IF i = 0 THEN base ELSE step(i, g[i - 1]) BY <1>4, <2>1, <2>2
  <2>4. QED BY <2>2, <2>3 DEF Answers, N, base, step
<1>6. Answers(q, Chosen) BY <1>5 DEF Chosen
<1>7. Answer(q) = Chosen[N] BY DEF Answer, Answers, N, Chosen
<1>8. Chosen = [i \in 0..N |-> IF i = 0 THEN base ELSE step(i, Chosen[i - 1])]
  BY <1>6 DEF Answers, N, base, step
<1>9. Chosen = [i \in 0..N |-> Chosen[i]] /\ Chosen[0] = base BY <1>0, <1>8
<1>10. ASSUME NEW i \in 1..N PROVE Chosen[i] = step(i, Chosen[i - 1])
  <2>1. i \in 0..N /\ i # 0 BY <1>0
  <2>2. QED BY <1>8, <2>1
<1>11. \A i \in 0..N : Chosen[i] \in X
  <2>1. ASSUME NEW i \in 1..N, Chosen[i - 1] \in X PROVE Chosen[i] \in X
    BY <1>1, <1>10, <2>1
  <2>2. Chosen[0] \in X BY <1>0, <1>9
  <2>3. QED BY <1>0, <2>1, <2>2, PrefixTyped
<1>12. Chosen \in [0..N -> X] BY <1>9, <1>11
<1>13. AnswerRuns(q, Chosen) BY <1>7, <1>9, <1>10, <1>12 DEF AnswerRuns, N, X, base, step
<1>14. QED BY <1>13

(* The results are of their type whatever the sets they are taken from.             *)
Results == [src : Seq(Keys), has : SUBSET (Column \X Value)]

LEMMA BaseType ==
  ASSUME RowsTyped, NEW name \in Names
  PROVE  Base(name, rows) \in SUBSET Results
<1>1. ASSUME NEW k \in Keys, rows[name][k] # None
      PROVE  [src |-> <<k>>, has |-> Columns(<<>>, rows[name][k])] \in Results
  <2>1. rows[name][k] \in Row BY <1>1 DEF RowsTyped
  <2>2. Columns(<<>>, rows[name][k]) \in SUBSET (Column \X Value)
    BY <2>1, ColumnsArePairs, RowColumns
  <2>3. <<k>> \in Seq(Keys) OBVIOUS
  <2>4. QED BY <2>2, <2>3 DEF Results
<1>2. QED BY <1>1 DEF Base

LEMMA BothType ==
  ASSUME NEW name \in Column, NEW r \in Results, NEW other \in Column, NEW right \in Row
  PROVE  Both(name, r, other, right) \in SUBSET (Column \X Value)
<1>1. ASSUME NEW c \in DOMAIN right PROVE <<other \o c, right[c]>> \in Column \X Value
  <2>1. c \in Column /\ right[c] \in Value BY RowColumns
  <2>2. other \o c \in Column BY <2>1, ConcatProperties DEF Column
  <2>3. QED BY <2>1, <2>2
<1>2. ASSUME NEW col \in r.has PROVE <<name \o col[1], col[2]>> \in Column \X Value
  <2>1. col \in Column \X Value BY DEF Results
  <2>2. col[1] \in Column /\ col[2] \in Value BY <2>1
  <2>3. name \o col[1] \in Column BY <2>2, ConcatProperties DEF Column
  <2>4. QED BY <2>2, <2>3
<1>3. Columns(other, right) \in SUBSET (Column \X Value) BY <1>1 DEF Columns
<1>4. QED BY <1>2, <1>3 DEF Both

LEMMA RelatedType ==
  ASSUME RowsTyped, NEW name \in Names, NEW results \in SUBSET Results, NEW step, IsStep(step)
  PROVE  Related(name, rows, predicate, results, step) \in SUBSET Results
<1>0. Names \subseteq Column BY RowsAssumption
<1>1. CASE step.op = "where" BY <1>1 DEF Related
<1>2. CASE step.op = "select"
  <2>1. ASSUME NEW r \in results
        PROVE  [r EXCEPT !.has = {col \in @ : col[1] \in step.columns}] \in Results
    <3>1. r \in Results OBVIOUS
    <3>2. {col \in r.has : col[1] \in step.columns} \in SUBSET (Column \X Value) BY <3>1 DEF Results
    <3>3. QED BY <3>1, <3>2 DEF Results
  <2>2. Related(name, rows, predicate, results, step)
          = {[r EXCEPT !.has = {col \in @ : col[1] \in step.columns}] : r \in results}
    BY <1>2 DEF Related
  <2>3. QED BY <2>1, <2>2
<1>3. CASE step.op = "join"
  <2> DEFINE pairs == {rk \in results \X Keys :
                         Joins(rk[1], rk[2], step.other, step.left, step.right)}
             as(p) == [src |-> p[1].src \o <<p[2]>>,
                       has |-> Both(name, p[1], step.other, rows[step.other][p[2]])]
  <2>1. Related(name, rows, predicate, results, step) = {as(p) : p \in pairs}
    BY <1>3 DEF Related, Joins
  <2>2. ASSUME NEW p \in pairs PROVE as(p) \in Results
    <3>1. /\ p[1] \in Results /\ p[2] \in Keys
          /\ rows[step.other][p[2]] # None
      BY DEF Joins
    <3>2. step.other \in Names /\ step.other \in Column /\ name \in Column BY <1>0, <1>3, StepIs
    <3>3. rows[step.other][p[2]] \in Row BY <3>1, <3>2 DEF RowsTyped
    <3>4. Both(name, p[1], step.other, rows[step.other][p[2]]) \in SUBSET (Column \X Value)
      BY <3>1, <3>2, <3>3, BothType
    <3>5. p[1].src \in Seq(Keys) /\ <<p[2]>> \in Seq(Keys) BY <3>1 DEF Results
    <3>6. p[1].src \o <<p[2]>> \in Seq(Keys) BY <3>5, ConcatProperties
    <3>7. QED BY <3>4, <3>6 DEF Results
  <2> HIDE DEF pairs, as
  <2>3. QED BY <2>1, <2>2
<1>4. QED BY <1>1, <1>2, <1>3, StepIs

MeantRuns(q, g) ==
  /\ g \in [0..Len(q.steps) -> SUBSET Results]
  /\ Meant(q, rows, predicate) = g[Len(q.steps)]
  /\ g[0] = Base(q.from, rows)
  /\ \A i \in 1..Len(q.steps) : g[i] = Related(q.from, rows, predicate, g[i - 1], q.steps[i])

Means(q, g) ==
  g = [i \in 0..Len(q.steps) |->
         IF i = 0 THEN Base(q.from, rows)
         ELSE Related(q.from, rows, predicate, g[i - 1], q.steps[i])]

LEMMA MeantIs ==
  ASSUME RowsTyped, NEW q \in Asked
  PROVE  \E g : MeantRuns(q, g)
<1> DEFINE N == Len(q.steps)
           X == SUBSET Results
           step(i, s) == Related(q.from, rows, predicate, s, q.steps[i])
           next == [p \in (1..N) \X X |-> step(p[1], p[2])]
           base == Base(q.from, rows)
           Chosen == CHOOSE g : Means(q, g)
<1>0. N \in Nat /\ base \in X BY QueryIs, BaseType
<1>1. ASSUME NEW i \in 1..N, NEW s \in X
      PROVE  next[<<i, s>>] = step(i, s) /\ next[<<i, s>>] \in X
  <2>1. step(i, s) \in X BY QueryIs, RelatedType
  <2>2. next[<<i, s>>] = step(i, s) OBVIOUS
  <2>3. QED BY <2>1, <2>2
<1> HIDE DEF X, step, base
<1>2. next \in [(1..N) \X X -> X]
  <2>1. next = [p \in (1..N) \X X |-> next[p]] OBVIOUS
  <2>2. \A p \in (1..N) \X X : next[p] \in X
    <3> HIDE DEF next
    <3>1. QED BY <1>1
  <2> HIDE DEF next
  <2>3. QED BY <2>1, <2>2
<1> HIDE DEF next, N, Chosen
<1>3. PICK g : Prefixes(N, X, base, next, g) BY <1>0, <1>2, PrefixRecursion
<1>4. ASSUME NEW i \in 1..N PROVE g[i] = step(i, g[i - 1])
  <2>1. i - 1 \in 0..N BY <1>0
  <2>2. g[i - 1] \in X /\ g[i] = next[<<i, g[i - 1]>>] BY <1>3, <2>1 DEF Prefixes
  <2>3. QED BY <1>1, <2>2
<1>5. Means(q, g)
  <2>1. \A i \in 0..N : i = 0 \/ i \in 1..N BY <1>0
  <2>2. g = [i \in 0..N |-> g[i]] /\ g[0] = base BY <1>3 DEF Prefixes
  <2>3. \A i \in 0..N : g[i] = IF i = 0 THEN base ELSE step(i, g[i - 1]) BY <1>4, <2>1, <2>2
  <2>4. QED BY <2>2, <2>3 DEF Means, N, base, step
<1>6. Means(q, Chosen) BY <1>5 DEF Chosen
<1>7. Meant(q, rows, predicate) = Chosen[N] BY DEF Meant, Means, N, Chosen
<1>8. Chosen = [i \in 0..N |-> IF i = 0 THEN base ELSE step(i, Chosen[i - 1])]
  BY <1>6 DEF Means, N, base, step
<1>9. Chosen = [i \in 0..N |-> Chosen[i]] /\ Chosen[0] = base BY <1>0, <1>8
<1>10. ASSUME NEW i \in 1..N PROVE Chosen[i] = step(i, Chosen[i - 1])
  <2>1. i \in 0..N /\ i # 0 BY <1>0
  <2>2. QED BY <1>8, <2>1
<1>11. \A i \in 0..N : Chosen[i] \in X
  <2>1. ASSUME NEW i \in 1..N, Chosen[i - 1] \in X PROVE Chosen[i] \in X
    BY <1>1, <1>10, <2>1
  <2>2. Chosen[0] \in X BY <1>0, <1>9
  <2>3. QED BY <1>0, <2>1, <2>2, PrefixTyped
<1>12. Chosen \in [0..N -> X] BY <1>9, <1>11
<1>13. MeantRuns(q, Chosen) BY <1>7, <1>9, <1>10, <1>12 DEF MeantRuns, N, X, base, step
<1>14. QED BY <1>13

(* One step of a query, of the code and of the relation.                         *)
LEMMA StepRanked ==
  ASSUME RowsTyped, PredicatesTyped, NEW q \in Asked, Clear(q, predicate),
         NEW i \in 1..Len(q.steps), NEW in, NEW results, NEW n \in Nat, Ranked(in, results, n)
  PROVE  \E m \in Nat : Ranked(Step(q.from, in, q.steps[i]),
                               Related(q.from, rows, predicate, results, q.steps[i]), m)
<1> DEFINE step == q.steps[i]
           new == Related(q.from, rows, predicate, results, step)
           out == Step(q.from, in, step)
<1>0. Names \subseteq Column BY RowsAssumption
<1>1. IsStep(step) /\ q.from \in Column /\ i \in DOMAIN q.steps BY QueryIs
<1>2. /\ step.op = "where" => ClearPredicate(predicate[step.by])
      /\ step.op = "select" => step.columns \cap DOMAIN Inherited = {}
      /\ step.op = "join" => /\ step.left \notin DOMAIN Inherited /\ step.right \notin DOMAIN Inherited
                             /\ Apart(q.from, step.other)
  BY <1>1 DEF Clear, ClearPredicate
<1>3. /\ step.op = "where" => step.by \in Predicates
      /\ step.op = "select" => step.columns \in SUBSET Column
      /\ step.op = "join" => step.other \in Names
  BY <1>1, StepIs
<1>4. step.op = "where" \/ step.op = "select" \/ step.op = "join" BY <1>1, StepIs
<1> HIDE DEF step
<1>5. CASE step.op = "where"
  <2> DEFINE p == predicate[step.by]
  <2>1. out = Filter(in, {j \in DOMAIN in : Fits(in[j], p)}) BY <1>5 DEF Step
  <2>2. new = {r \in results : Satisfies(r, p)} BY <1>5 DEF Related
  <2>3. IsPredicate(p) /\ ClearPredicate(p) BY <1>2, <1>3, <1>5 DEF PredicatesTyped
  <2> HIDE DEF p
  <2>4. Ranked(out, new, n) BY <2>1, <2>2, <2>3, WhereRanked
  <2>5. QED BY <2>4 DEF step
<1>6. CASE step.op = "select"
  <2> DEFINE columns == step.columns
  <2>1. out = [j \in DOMAIN in |-> Project(in[j], columns)] BY <1>6 DEF Step
  <2>2. new = Selected(results, columns) BY <1>6 DEF Related, Selected
  <2>3. columns \in SUBSET Column /\ columns \cap DOMAIN Inherited = {} BY <1>2, <1>3, <1>6
  <2> HIDE DEF columns
  <2>4. Ranked(out, new, n) BY <2>1, <2>2, <2>3, SelectRanked
  <2>5. QED BY <2>4 DEF step
<1>7. CASE step.op = "join"
  <2>1. out = JoinRows(q.from, in, step.other, step.left, step.right) BY <1>7 DEF Step
  <2>2. new = JoinedTo(q.from, results, step.other, step.left, step.right)
    BY <1>7 DEF Related, Joins, JoinedTo
  <2>3. /\ step.other \in Names /\ step.other \in Column
        /\ step.left \notin DOMAIN Inherited /\ step.right \notin DOMAIN Inherited
        /\ Apart(q.from, step.other)
    BY <1>0, <1>2, <1>3, <1>7
  <2>4. rows[step.other] \in [Keys -> Row \cup {None}] BY <2>3 DEF RowsTyped
  <2>5. Ranked(JoinRows(q.from, in, step.other, step.left, step.right),
               JoinedTo(q.from, results, step.other, step.left, step.right), n + 1)
    BY <1>1, <2>3, <2>4, JoinRanked
  <2> HIDE DEF out, new
  <2>6. n + 1 \in Nat /\ Ranked(out, new, n + 1) BY <2>1, <2>2, <2>5
  <2>7. QED BY <2>6 DEF step, out, new
<1>8. QED BY <1>4, <1>5, <1>6, <1>7

LEMMA AnswerRanked ==
  ASSUME RowsTyped, PredicatesTyped, NEW q \in Asked, Clear(q, predicate)
  PROVE  \E n \in Nat : Ranked(Answer(q), Meant(q, rows, predicate), n)
<1> DEFINE N == Len(q.steps)
<1>1. PICK f : AnswerRuns(q, f) BY AnswerIs
<1>2. PICK g : MeantRuns(q, g) BY MeantIs
<1>3. N \in Nat BY QueryIs
<1> DEFINE T == {i \in 0..N : \E n \in Nat : Ranked(f[i], g[i], n)}
<1>4. 0 \in T
  <2>1. rows[q.from] \in [Keys -> Row \cup {None}] BY QueryIs DEF RowsTyped
  <2>2. Ranked(f[0], g[0], 1) BY <1>1, <1>2, <2>1, BaseRanked DEF AnswerRuns, MeantRuns
  <2>3. QED BY <1>3, <2>2
<1>5. ASSUME NEW i \in 1..N, i - 1 \in T PROVE i \in T
  <2>1. PICK n \in Nat : Ranked(f[i - 1], g[i - 1], n) BY <1>5
  <2>2. /\ f[i] = Step(q.from, f[i - 1], q.steps[i])
        /\ g[i] = Related(q.from, rows, predicate, g[i - 1], q.steps[i])
    BY <1>1, <1>2 DEF AnswerRuns, MeantRuns
  <2>3. \E m \in Nat : Ranked(f[i], g[i], m) BY <2>1, <2>2, StepRanked
  <2>4. QED BY <1>3, <2>3
<1>6. N \in T
  <2> HIDE DEF T, N
  <2>1. N \in 0..N BY <1>3
  <2>2. QED BY <1>3, <1>4, <1>5, <2>1, UpTo
<1>7. QED BY <1>1, <1>2, <1>6 DEF AnswerRuns, MeantRuns

-----------------------------------------------------------------------------
(* The passes.  What is left of a pass is the rest of what it began with, so that the   *)
(* writes and the other queries made meanwhile have nothing to say about it.          *)

IsTheRelation(answer, due) ==
  /\ answer \in Seq(Row)
  /\ Len(answer) = Cardinality(due)
  /\ \A r \in due : Columns(<<>>, answer[Rank(r, due)]) = r.has

PassKept ==
  pass # None =>
    /\ pass = [taken |-> pass.taken, left |-> pass.left, due |-> pass.due, clear |-> pass.clear]
    /\ pass.taken \in Seq(Row)
    /\ pass.left \in Seq(Row)
    /\ pass.clear => IsTheRelation(pass.taken \o pass.left, pass.due)

QueriesInv ==
  /\ RowsTyped
  /\ PredicatesTyped
  /\ query # None => query \in Asked
  /\ PassKept

(* The queries hold no rows: the written ones are rows, the altered predicates are     *)
(* predicates, a query was asked, and a pass has the relation before it and behind it. *)
THEOREM QueriesInvHolds == Spec => []QueriesInv
<1>1. Init => QueriesInv
  <2> SUFFICES ASSUME Init PROVE QueriesInv OBVIOUS
  <2>1. RowsTyped BY DEF Init, RowsTyped
  <2>2. PredicatesTyped BY ContentsAssumption DEF Init, PredicatesTyped
  <2>3. QED BY <2>1, <2>2 DEF Init, QueriesInv, PassKept
<1>2. QueriesInv /\ [Next]_vars => QueriesInv'
  <2> SUFFICES ASSUME QueriesInv, [Next]_vars PROVE QueriesInv' OBVIOUS
  <2> USE DEF QueriesInv
  <2>1. ASSUME NEW n \in Names, NEW k \in Keys, NEW row \in Rows[n][k] \cup {None}, Write(n, k, row)
        PROVE  QueriesInv'
    <3>1. row \in Row \cup {None} BY RowsAssumption, RowIs
    <3>2. RowsTyped' BY <2>1, <3>1 DEF Write, RowsTyped
    <3>3. UNCHANGED <<predicate, query, pass>> BY <2>1 DEF Write
    <3>4. QED BY <3>2, <3>3 DEF PredicatesTyped, PassKept
  <2>2. ASSUME NEW p \in Predicates, NEW contents \in Contents[p], Alter(p, contents)
        PROVE  QueriesInv'
    <3>1. PredicatesTyped' BY <2>2, ContentsAssumption DEF Alter, PredicatesTyped
    <3>2. UNCHANGED <<rows, query, pass>> BY <2>2 DEF Alter
    <3>3. QED BY <3>1, <3>2 DEF RowsTyped, PassKept
  <2>3. ASSUME NEW q \in Asked, Ask(q) PROVE QueriesInv'
    <3>1. UNCHANGED <<rows, predicate, pass>> /\ (query' = q \/ query' = None) BY <2>3 DEF Ask
    <3>2. QED BY <3>1 DEF RowsTyped, PredicatesTyped, PassKept
  <2>4. CASE Begin
    <3> DEFINE answer == Answer(query)
               due == Meant(query, rows, predicate)
    <3>1. query \in Asked /\ UNCHANGED <<rows, predicate, query>> BY <2>4 DEF Begin
    <3>2. pass' = [taken |-> <<>>, left |-> answer, due |-> due, clear |-> Clear(query, predicate)]
      BY <2>4 DEF Begin
    <3>3. answer \in Seq(Row)
      <4>1. PICK f : AnswerRuns(query, f) BY <3>1, AnswerIs
      <4>2. Len(query.steps) \in Nat BY <3>1, QueryIs
      <4>3. QED BY <4>1, <4>2 DEF AnswerRuns
    <3>4. Clear(query, predicate) => IsTheRelation(answer, due)
      <4> SUFFICES ASSUME Clear(query, predicate) PROVE IsTheRelation(answer, due) OBVIOUS
      <4>1. PICK n \in Nat : Ranked(answer, due, n) BY <3>1, AnswerRanked
      <4> HIDE DEF answer, due
      <4>2. QED BY <3>3, <4>1, RankedCounts DEF IsTheRelation
    <3> HIDE DEF answer, due
    <3>5. <<>> \in Seq(Row) /\ <<>> \o answer = answer BY <3>3, EmptySeq, ConcatEmptySeq
    <3>6. PassKept' BY <3>2, <3>3, <3>4, <3>5 DEF PassKept, IsTheRelation
    <3>7. QED BY <3>1, <3>6 DEF RowsTyped, PredicatesTyped
  <2>5. CASE Take
    <3> DEFINE a == pass.taken
               b == pass.left
    <3>1. pass # None /\ b # <<>> /\ UNCHANGED <<rows, predicate, query>> BY <2>5 DEF Take
    <3>2. /\ pass = [taken |-> a, left |-> b, due |-> pass.due, clear |-> pass.clear]
          /\ a \in Seq(Row) /\ b \in Seq(Row)
          /\ pass.clear => IsTheRelation(a \o b, pass.due)
      BY <3>1 DEF PassKept
    <3>3. pass' = [taken |-> Append(a, Head(b)), left |-> Tail(b), due |-> pass.due, clear |-> pass.clear]
      BY <2>5, <3>2 DEF Take
    <3> HIDE DEF a, b
    <3>4. /\ Head(b) \in Row /\ Tail(b) \in Seq(Row) /\ <<Head(b)>> \in Seq(Row)
          /\ Append(a, Head(b)) \in Seq(Row) /\ Append(a, Head(b)) = a \o <<Head(b)>>
          /\ <<Head(b)>> \o Tail(b) = b
      <4>1. Head(b) \in Row /\ Tail(b) \in Seq(Row) BY <3>1, <3>2, HeadTailProperties
      <4>2. Append(a, Head(b)) \in Seq(Row) /\ Append(a, Head(b)) = a \o <<Head(b)>>
        BY <3>2, <4>1, AppendProperties, AppendIsConcat
      <4>3. <<Head(b)>> \o Tail(b) = b BY <3>1, <3>2
      <4>4. QED BY <4>1, <4>2, <4>3
    <3>5. Append(a, Head(b)) \o Tail(b) = a \o b
      <4>1. (a \o <<Head(b)>>) \o Tail(b) = a \o (<<Head(b)>> \o Tail(b))
        BY <3>2, <3>4, ConcatAssociative
      <4>2. QED BY <3>4, <4>1
    <3>6. PassKept' BY <3>2, <3>3, <3>4, <3>5 DEF PassKept, IsTheRelation
    <3>7. QED BY <3>1, <3>6 DEF RowsTyped, PredicatesTyped
  <2>6. CASE Leave BY <2>6 DEF Leave, RowsTyped, PredicatesTyped, PassKept
  <2>7. CASE UNCHANGED vars BY <2>7 DEF vars, RowsTyped, PredicatesTyped, PassKept, IsTheRelation
  <2>8. QED BY <2>1, <2>2, <2>3, <2>4, <2>5, <2>6, <2>7 DEF Next
<1>3. QED BY <1>1, <1>2, PTL DEF Spec

(* Whatever is stored and whatever is asked, the rows that a pass hands out are, one     *)
(* for one and in order, the results that the query asked for when it began.          *)
THEOREM PassesAreTheRelation == Spec => []PassIsTheRelation
<1>1. QueriesInv => PassIsTheRelation
  BY DEF QueriesInv, PassKept, IsTheRelation, PassIsTheRelation
<1>2. QED BY <1>1, QueriesInvHolds, PTL
=============================================================================
