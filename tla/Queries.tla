-------------------------------- MODULE Queries --------------------------------
(***************************************************************************)
(* Queries over the rows of tables and the documents of collections: find() of  *)
(* src/lens/document.ts and where(), select() and join() of                    *)
(* src/lens/relational.ts.  A query is a chain of steps over a source that runs  *)
(* anew on every pass; what happens to the rows, and to the predicates the       *)
(* caller still holds, happens between the calls.                           *)
(*                                                                         *)
(* The name of a column, and of a table, is the sequence of the parts the dots in  *)
(* it separate, so that a qualified name is a concatenation.                  *)
(***************************************************************************)
EXTENDS Naturals, Sequences, FiniteSets

CONSTANTS
  Part,        \* what stands between the dots of a name
  Names,       \* of tables and collections
  MaxKey,      \* primary keys and ids are 1..MaxKey, in the order of their bytes
  Value,       \* the values of rows and predicates, and the values within those
  Rows,        \* Rows[name][key]: what may be stored there
  Predicates,  \* the predicate objects of the caller
  Contents,    \* what each of them may hold at a time
  Asked,       \* the queries that are built
  Inherited,   \* what every JavaScript object has besides, by its names: the functions
               \* toString and constructor, the object __proto__
  None

ASSUME MaxKeyAssumption == MaxKey \in Nat

Keys == 1..MaxKey

VARIABLES
  rows,       \* [Names -> [Keys -> row or None]]
  predicate,  \* what each predicate object holds
  query,      \* the query at hand, None if none was built
  pass        \* the pass over a query that is going on, or None

vars == <<rows, predicate, query, pass>>

-----------------------------------------------------------------------------
(* Values.  A primitive is one of its type, an array has items, and an object has   *)
(* items and, in the same order, their keys.                                *)

Primitive(type, is) == [type |-> type, is |-> is, keys |-> <<>>, items |-> <<>>]
Array(items) == [type |-> "array", is |-> 0, keys |-> <<>>, items |-> items]
Object(keys, items) == [type |-> "object", is |-> 0, keys |-> keys, items |-> items]

Undefined == Primitive("undefined", 0)

(* Parsed JSON, and what a caller writes down, is finite and has no cycles: every     *)
(* set of values has one with no item in the set.                             *)
ASSUME ValueAssumption ==
  /\ Undefined \in Value
  /\ \A v \in Value :
       /\ v.items \in Seq(Value)
       /\ v.type \in {"array", "object"} => v.is = 0
       /\ v.type = "object" => /\ DOMAIN v.keys = DOMAIN v.items
                              /\ \A i, j \in DOMAIN v.keys : v.keys[i] = v.keys[j] => i = j
       /\ v.type \notin {"array", "object"} => v = Primitive(v.type, v.is)
  /\ \A S \in SUBSET Value : S # {} => \E v \in S : \A i \in DOMAIN v.items : v.items[i] \notin S

Column == Seq(Part)

(* A predicate, and a row: that is stored JSON, and has no undefined.           *)
IsPredicate(p) ==
  /\ p = [c \in DOMAIN p |-> p[c]]
  /\ DOMAIN p \subseteq Column
  /\ \A c \in DOMAIN p : p[c] \in Value

IsRow(row) == IsPredicate(row) /\ \A c \in DOMAIN row : row[c] # Undefined

ASSUME RowsAssumption ==
  /\ Names \subseteq Column
  /\ \A n \in Names, k \in Keys : None \notin Rows[n][k] /\ \A row \in Rows[n][k] : IsRow(row)
ASSUME ContentsAssumption == \A p \in Predicates : \A contents \in Contents[p] : IsPredicate(contents)
ASSUME InheritedAssumption == IsRow(Inherited)

(* deepEqual(): what it takes to be the value a.                              *)
equal[a \in Value] ==
  {b \in Value :
     \/ a = b
     \/ /\ a.type = "array" /\ b.type = "array"
        /\ Len(a.items) = Len(b.items)
        /\ \A i \in DOMAIN a.items : b.items[i] \in equal[a.items[i]]
     \/ /\ a.type = "object" /\ b.type = "object"
        /\ Len(a.items) = Len(b.items)
        /\ \A i \in DOMAIN a.items : \E j \in DOMAIN b.items :
             a.keys[i] = b.keys[j] /\ b.items[j] \in equal[a.items[i]]}

DeepEqual(a, b) == b \in equal[a]

(* row[column]: a column that is not there is undefined, unless Object.prototype    *)
(* has it.                                                                 *)
Read(row, column) ==
  IF column \in DOMAIN row THEN row[column]
  ELSE IF column \in DOMAIN Inherited THEN Inherited[column] ELSE Undefined

(* matches().                                                              *)
Fits(row, wanted) == \A c \in DOMAIN wanted : DeepEqual(Read(row, c), wanted[c])

-----------------------------------------------------------------------------
(* The steps of a query.                                                    *)

(* filter(), and a loop that pushes what it keeps.                             *)
Filter(in, chosen) ==
  LET kept[i \in 0..Len(in)] ==
        IF i = 0 THEN <<>>
        ELSE IF i \in chosen THEN Append(kept[i - 1], in[i]) ELSE kept[i - 1]
  IN kept[Len(in)]

(* The scan of a table or a collection: in the order of the keys.              *)
All(name) == Filter(rows[name], {k \in Keys : rows[name][k] # None})

Project(row, columns) ==
  [c \in {d \in columns : Read(row, d) # Undefined} |-> Read(row, c)]

(* Mutant: two rows that both lack the column have the same in it.             *)
JoinKeyEqual_Lacking(left, leftField, right, rightField) ==
  DeepEqual(Read(left, leftField), Read(right, rightField))

JoinKeyEqual(left, leftField, right, rightField) ==
  /\ Read(left, leftField) # Undefined
  /\ Read(right, rightField) # Undefined
  /\ DeepEqual(Read(left, leftField), Read(right, rightField))

Prefixed(name, row) == [c \in {name \o d : d \in DOMAIN row} |->
                          row[SubSeq(c, Len(name) + 1, Len(c))]]

(* qualify(): the right side is written last.                                *)
Qualify(leftName, left, rightName, right) ==
  LET l == Prefixed(leftName, left)
      r == Prefixed(rightName, right)
  IN [c \in DOMAIN l \cup DOMAIN r |-> IF c \in DOMAIN r THEN r[c] ELSE l[c]]

(* joinRows(): the nested loop.                                             *)
JoinRows(leftName, leftRows, other, leftField, rightField) ==
  LET rightRows == All(other)
      Partners(left) == Filter(rightRows, {j \in DOMAIN rightRows :
                                 JoinKeyEqual(left, leftField, rightRows[j], rightField)})
      out[i \in 0..Len(leftRows)] ==
        IF i = 0 THEN <<>>
        ELSE LET left == leftRows[i] IN
             out[i - 1] \o [j \in DOMAIN Partners(left) |->
                              Qualify(leftName, left, other, Partners(left)[j])]
  IN out[Len(leftRows)]

Where(p) == [op |-> "where", by |-> p]
Select(columns) == [op |-> "select", columns |-> columns]
Join(other, leftField, rightField) ==
  [op |-> "join", other |-> other, left |-> leftField, right |-> rightField]

IsStep(step) ==
  CASE step.op = "where" -> step.by \in Predicates
    [] step.op = "select" -> step.columns \subseteq Column
    [] step.op = "join" -> step.other \in Names /\ {step.left, step.right} \subseteq Column
    [] OTHER -> FALSE

ASSUME AskedAssumption ==
  \A q \in Asked :
    /\ q.from \in Names
    /\ q.steps \in Seq({q.steps[i] : i \in DOMAIN q.steps})
    /\ \A i \in DOMAIN q.steps : IsStep(q.steps[i])

Step(name, in, step) ==
  CASE step.op = "where" -> Filter(in, {i \in DOMAIN in : Fits(in[i], predicate[step.by])})
    [] step.op = "select" -> [i \in DOMAIN in |-> Project(in[i], step.columns)]
    [] step.op = "join" -> JoinRows(name, in, step.other, step.left, step.right)

(* The rows of a pass over q that begins now.  The name stays the first table's.  *)
Answer(q) ==
  LET after[i \in 0..Len(q.steps)] ==
        IF i = 0 THEN All(q.from) ELSE Step(q.from, after[i - 1], q.steps[i])
  IN after[Len(q.steps)]

-----------------------------------------------------------------------------
(* What a query asks for, in terms of relations: a result is a choice of one row   *)
(* from each table, by their keys, and a set of names with values.              *)

(* The same JSON value: the same primitives, and empty containers, on the same     *)
(* paths.                                                                  *)
Label(v, i) == IF v.type = "array" THEN i ELSE v.keys[i]

Behind(label, below) == {<<<<label>> \o leaf[1], leaf[2], leaf[3]>> : leaf \in below}

leaves[v \in Value] ==
  {<<<<>>, v.type, v.is>>}
    \cup UNION {Behind(Label(v, i), leaves[v.items[i]]) : i \in DOMAIN v.items}

Same(v, w) == leaves[v] = leaves[w]

Columns(prefix, row) == {<<prefix \o c, row[c]>> : c \in DOMAIN row}
Base(name, at) == {[src |-> <<k>>, has |-> Columns(<<>>, at[name][k])] :
                     k \in {j \in Keys : at[name][j] # None}}

(* A name and undefined ask that there is no such column.                      *)
Satisfies(result, wanted) ==
  \A c \in DOMAIN wanted :
    IF wanted[c] = Undefined THEN \A col \in result.has : col[1] # c
    ELSE \E col \in result.has : col[1] = c /\ Same(col[2], wanted[c])

(* Every column of both sides.                                              *)
Both(name, result, other, right) ==
  {<<name \o col[1], col[2]>> : col \in result.has} \cup Columns(other, right)

Related(name, at, holds, results, step) ==
  CASE step.op = "where" -> {r \in results : Satisfies(r, holds[step.by])}
    [] step.op = "select" -> {[r EXCEPT !.has = {col \in @ : col[1] \in step.columns}] : r \in results}
    [] step.op = "join" ->
         {[src |-> p[1].src \o <<p[2]>>, has |-> Both(name, p[1], step.other, at[step.other][p[2]])] :
            p \in {rk \in results \X Keys :
                     LET right == at[step.other][rk[2]] IN
                       /\ right # None
                       /\ step.right \in DOMAIN right
                       /\ \E col \in rk[1].has : col[1] = step.left /\ Same(col[2], right[step.right])}}

Meant(q, at, holds) ==
  LET after[i \in 0..Len(q.steps)] ==
        IF i = 0 THEN Base(q.from, at) ELSE Related(q.from, at, holds, after[i - 1], q.steps[i])
  IN after[Len(q.steps)]

(* Neither name begins with the other, so that no column of the one is qualified    *)
(* like a column of the other.                                              *)
Apart(n, m) == \E i \in DOMAIN n \cap DOMAIN m : n[i] # m[i]

(* What a query must keep clear of.  A name that every object has is there in a row  *)
(* that lacks it: select() and join() take it for a column, and where() compares   *)
(* what is inherited.  And a table that is joined to itself, or to one whose name   *)
(* begins with its own, may lose columns.                                   *)
Clear(q, holds) ==
  \A i \in DOMAIN q.steps :
    LET step == q.steps[i] IN
      /\ step.op = "where" =>
           \A c \in DOMAIN Inherited \cap DOMAIN holds[step.by] :
             holds[step.by][c] # Undefined /\ ~DeepEqual(Inherited[c], holds[step.by][c])
      /\ step.op = "select" => step.columns \cap DOMAIN Inherited = {}
      /\ step.op = "join" => /\ {step.left, step.right} \cap DOMAIN Inherited = {}
                             /\ Apart(q.from, step.other)

-----------------------------------------------------------------------------

Init ==
  /\ rows = [n \in Names |-> [k \in Keys |-> None]]
  /\ predicate \in [Predicates -> UNION {Contents[p] : p \in Predicates}]
  /\ \A p \in Predicates : predicate[p] \in Contents[p]
  /\ query = None
  /\ pass = None

(* put(), insert() and delete(), from anywhere: from within a loop over a query's   *)
(* rows too.                                                               *)
Write(name, k, row) ==
  /\ rows' = [rows EXCEPT ![name][k] = row]
  /\ UNCHANGED <<predicate, query, pass>>

(* The caller changes an object it has handed over as a predicate, or will.       *)
Alter(p, contents) ==
  /\ predicate' = [predicate EXCEPT ![p] = contents]
  /\ UNCHANGED <<rows, query, pass>>

(* assertDefinedPredicate().                                                *)
Defined(wanted) == \A c \in DOMAIN wanted : wanted[c] # Undefined

(* The calls that build a query: nothing runs, but a predicate that is not defined   *)
(* is refused.  A query that is built during a pass has nothing to do with it.    *)
Ask(q) ==
  /\ pass = None
  /\ query' = IF \A i \in DOMAIN q.steps : q.steps[i].op = "where" => Defined(predicate[q.steps[i].by])
              THEN q ELSE None
  /\ UNCHANGED <<rows, predicate, pass>>

(* toArray(), or a loop: all of its rows are there before the first is handed out.   *)
(* due remembers what was asked for at that moment, and clear whether nothing was    *)
(* in the way: no name of Object.prototype, no join of a table with itself.      *)
Begin ==
  /\ query # None
  /\ pass = None
  /\ pass' = [taken |-> <<>>, left |-> Answer(query),
              due |-> Meant(query, rows, predicate), clear |-> Clear(query, predicate)]
  /\ UNCHANGED <<rows, predicate, query>>

Take ==
  /\ pass # None
  /\ pass.left # <<>>
  /\ pass' = [pass EXCEPT !.taken = Append(@, Head(pass.left)), !.left = Tail(@)]
  /\ UNCHANGED <<rows, predicate, query>>

(* The loop is over, or left.                                               *)
Leave ==
  /\ pass # None
  /\ pass' = None
  /\ UNCHANGED <<rows, predicate, query>>

Next ==
  \/ \E n \in Names, k \in Keys : \E row \in Rows[n][k] \cup {None} : Write(n, k, row)
  \/ \E p \in Predicates : \E contents \in Contents[p] : Alter(p, contents)
  \/ \E q \in Asked : Ask(q)
  \/ Begin
  \/ Take
  \/ Leave

Spec == Init /\ [][Next]_vars

-----------------------------------------------------------------------------

Before(s, t) == \E i \in DOMAIN s : s[i] < t[i] /\ \A j \in 1..(i - 1) : s[j] = t[j]

Rank(r, results) == Cardinality({s \in results : s = r \/ Before(s.src, r.src)})

(* The rows a pass hands out are, one for one and in the order of the keys they     *)
(* come from, the results the query asked for when the pass began, with the values  *)
(* the predicates had then: whatever is written meanwhile, whatever columns a row     *)
(* lacks, and in whatever order the keys of two equal objects are (query(),        *)
(* joinRows(), find()).  Queries that are not Clear are left out.               *)
PassIsTheRelation ==
  pass # None /\ pass.clear =>
    LET answer == pass.taken \o pass.left IN
      /\ Len(answer) = Cardinality(pass.due)
      /\ \A r \in pass.due : Columns(<<>>, answer[Rank(r, pass.due)]) = r.has

(* src/lens/relational.ts:131-133 of join(): "Each result row carries every column   *)
(* of both sides, qualified as table.column [...], so the two sides never collide". *)
(* For each result there is a row with all of its columns.                      *)
EveryColumnOfBothSides ==
  pass # None =>
    \A r \in pass.due : \E row \in {(pass.taken \o pass.left)[i] :
                                  i \in DOMAIN (pass.taken \o pass.left)} :
      r.has \subseteq Columns(<<>>, row)
=============================================================================
