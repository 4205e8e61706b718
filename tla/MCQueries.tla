------------------------------- MODULE MCQueries -------------------------------
(* An instance of Queries for TLC.                                          *)
EXTENDS Queries, TLC

A == <<"a">>
B == <<"b">>
D == <<"d">>

id == <<"id">>
v == <<"v">>
missing == <<"w">>
toString == <<"toString">>
proto == <<"__proto__">>

Text(k) == Primitive("string", k)
one == Primitive("number", 1)
list == Array(<<one>>)
empty == Object(<<>>, <<>>)
x1 == Object(<<"x">>, <<one>>)
xy == Object(<<"x", "y">>, <<one, list>>)
yx == Object(<<"y", "x">>, <<list, one>>)
function == Primitive("function", 0)

MCValue == {Undefined, function, empty, Text(1), Text(2), one, list, x1, xy, yx}

MCNames == {A, B, D}
MCInherited == toString :> function @@ proto :> empty
MCRows == [n \in {A, B, D} |-> [k \in Keys |->
  CASE n = A -> {id :> Text(k) @@ v :> value : value \in {x1, xy}}
    [] n = B -> {id :> Text(k) @@ v :> value : value \in {x1, yx}}
    [] n = D -> IF k = 1 THEN {v :> one, v :> Text(1), id :> one} ELSE {}]]

MCContents == [p \in {"bare", "joined"} |->
  IF p = "bare" THEN {v :> one, v :> xy, v :> Undefined, toString :> one}
  ELSE {(A \o v) :> x1}]

MCAsked ==
  {[from |-> D, steps |-> <<Where("bare")>>],
   [from |-> A, steps |-> <<Where("bare"), Select({id})>>],
   [from |-> A, steps |-> <<Join(B, v, v), Where("joined"), Select({A \o id, B \o v})>>],
   [from |-> A, steps |-> <<Join(B, v, v), Join(B, A \o id, id)>>],
   [from |-> A, steps |-> <<Select({id}), Join(B, v, missing)>>],
   [from |-> A, steps |-> <<Join(A, v, v)>>],
   [from |-> A, steps |-> <<Join(B, toString, toString)>>]}

(* A table joined to itself.                                                *)
MCSelfJoin == {[from |-> A, steps |-> <<Join(A, v, v)>>]}
=============================================================================
