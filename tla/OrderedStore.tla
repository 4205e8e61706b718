----------------------------- MODULE OrderedStore -----------------------------
(***************************************************************************)
(* The ordered store of src/core.ts, a sorted array of entries, and the calls *)
(* on it: get, set, delete and getRange of a transaction, and the prefix scan *)
(* of the lenses.  Every call begins with the binary search of locate(), here *)
(* one comparison to a step.  Indexes are the code's, from 0.                *)
(*                                                                         *)
(*   ready -> search ... -> act -> ready                                     *)
(*                       -> walk ... -> ready                                *)
(***************************************************************************)
EXTENDS ByteKeys

CONSTANTS
  Keys,       \* bound: the keys in use
  Values,
  None,       \* no value; no call
  MaxEntries  \* bound: how many entries a set may leave

ASSUME KeysAssumption == Keys \subseteq Key

Entry == [key : Keys, val : Values]

(* What may be asked for.                                                  *)
Calls ==
  [name : {"get", "delete"}, key : Keys]
    \cup [name : {"set"}, key : Keys, val : Values]
    \cup [name : {"range"}, start : Keys, end : Keys]
    \cup [name : {"prefix"}, prefix : Keys]

ASSUME NoneAssumption == None \notin Values \cup Calls

VARIABLES
  entries,    \* the sorted array
  call,       \* the call that runs, or None
  low, high,  \* locate()'s
  found,      \* did locate() find the key?
  index,      \* the index it returned; then getRange's i
  snapshot,   \* the entries getRange has collected
  answer,     \* what the last call returned
  pc

vars == <<entries, call, low, high, found, index, snapshot, answer, pc>>

-----------------------------------------------------------------------------

(* The entry at the code's index i.                                         *)
At(i) == entries[i + 1]

Sorted(s) == \A i, j \in DOMAIN s : i < j => Before(s[i].key, s[j].key)

(* The range a scan asks for.                                               *)
Bounds(c) ==
  CASE c.name = "range" -> [start |-> c.start, end |-> c.end]
    [] c.name = "prefix" -> PrefixRange(c.prefix)

IsScan(c) == c.name \in {"range", "prefix"}

(* The key locate() is called with.                                         *)
Target(c) == IF IsScan(c) THEN Bounds(c).start ELSE c.key

Init ==
  /\ entries = << >>
  /\ call = None
  /\ low = 0 /\ high = 0 /\ found = FALSE /\ index = 0 /\ snapshot = << >>
  /\ answer = None
  /\ pc = "ready"

(* A prefix without an upper bound is refused.                              *)
Begin ==
  /\ pc = "ready"
  /\ \E c \in Calls :
       IF c.name = "prefix" /\ ~HasUpperBound(c.prefix)
       THEN answer' = "no bound" /\ UNCHANGED <<call, low, high, pc>>
       ELSE /\ c.name = "set" => Len(entries) < MaxEntries
            /\ call' = c
            /\ low' = 0 /\ high' = Len(entries)
            /\ answer' = None
            /\ pc' = "search"
  /\ UNCHANGED <<entries, found, index, snapshot>>

Mid == (low + high) \div 2

(* Mutants: the search keeps what it has compared; it drops one entry more.  *)
Right_KeepsMid == low' = Mid
Left_DropsMore == high' = IF Mid > low THEN Mid - 1 ELSE Mid

Right == low' = Mid + 1
Left == high' = Mid

(* One turn of locate()'s loop.                                            *)
Search ==
  /\ pc = "search"
  /\ low < high
  /\ LET order == CompareKeys(At(Mid).key, Target(call))
     IN \/ order = 0 /\ found' = TRUE /\ index' = Mid /\ pc' = "act" /\ UNCHANGED <<low, high>>
        \/ order < 0 /\ Right /\ UNCHANGED <<high, found, index, pc>>
        \/ order > 0 /\ Left /\ UNCHANGED <<low, found, index, pc>>
  /\ UNCHANGED <<entries, call, snapshot, answer>>

(* The loop ends: the key is absent and belongs at low.                      *)
Absent ==
  /\ pc = "search"
  /\ low >= high
  /\ found' = FALSE
  /\ index' = low
  /\ pc' = "act"
  /\ UNCHANGED <<entries, call, low, high, snapshot, answer>>

(* The locals of a call go with it.                                         *)
Return(a) ==
  /\ answer' = a
  /\ call' = None
  /\ pc' = "ready"
  /\ low' = 0 /\ high' = 0 /\ found' = FALSE /\ index' = 0 /\ snapshot' = << >>

Get ==
  /\ pc = "act" /\ call.name = "get"
  /\ Return(IF found THEN At(index).val ELSE None)
  /\ UNCHANGED entries

(* Mutants: a key that is there already is inserted again; the call is kept   *)
(* and not its entry.                                                      *)
Placed_Twice(e) == InsertAt(entries, index + 1, e)
Placed_Call(e) == IF found THEN ReplaceAt(entries, index + 1, call) ELSE InsertAt(entries, index + 1, call)

Placed(e) ==
  IF found THEN ReplaceAt(entries, index + 1, e) ELSE InsertAt(entries, index + 1, e)

(* applySet(), applyDelete().                                              *)
Set ==
  /\ pc = "act" /\ call.name = "set"
  /\ entries' = Placed([key |-> call.key, val |-> call.val])
  /\ Return(None)

Delete ==
  /\ pc = "act" /\ call.name = "delete"
  /\ entries' = IF found THEN RemoveAt(entries, index + 1) ELSE entries
  /\ Return(None)

(* getRange(): from the index of start on ...                               *)
Scan ==
  /\ pc = "act" /\ IsScan(call)
  /\ snapshot' = << >>
  /\ pc' = "walk"
  /\ UNCHANGED <<entries, call, low, high, found, index, answer>>

(* ... entry by entry, to the first that is not before end.                  *)
Within == index < Len(entries) /\ CompareKeys(At(index).key, Bounds(call).end) < 0

Walk ==
  /\ pc = "walk"
  /\ Within
  /\ snapshot' = Append(snapshot, At(index))
  /\ index' = index + 1
  /\ UNCHANGED <<entries, call, low, high, found, answer, pc>>

WalkEnds ==
  /\ pc = "walk"
  /\ ~Within
  /\ Return(snapshot)
  /\ UNCHANGED entries

Work == Search \/ Absent \/ Get \/ Set \/ Delete \/ Scan \/ Walk \/ WalkEnds

Next == Begin \/ Work

Spec == Init /\ [][Next]_vars /\ WF_vars(Work)

-----------------------------------------------------------------------------

(* Types; the array holds entries, and there is a call unless it is ready.    *)
TypeOK ==
  /\ entries \in Seq(Entry)
  /\ call \in Calls \cup {None}
  /\ low \in Nat /\ high \in Nat /\ index \in Nat
  /\ found \in BOOLEAN
  /\ snapshot \in Seq(Entry)
  /\ pc \in {"ready", "search", "act", "walk"}
  /\ pc = "ready" <=> call = None

(* The array is always sorted and has every key once: what locate() relies   *)
(* on, and what every insertion at the index it returns has to keep.          *)
StaysSorted == Sorted(entries)

(* Why the search is right: what is before low is before the key, what is at  *)
(* high or behind it is not; and the index it ends with is the key's own, or  *)
(* the one place where the key can go.                                      *)
SearchInv ==
  /\ pc = "search" =>
       /\ low =< high /\ high =< Len(entries)
       /\ \A i \in 1 .. low : Before(entries[i].key, Target(call))
       /\ \A i \in high + 1 .. Len(entries) : Before(Target(call), entries[i].key)
  /\ pc = "act" /\ found => index < Len(entries) /\ At(index).key = Target(call)
  /\ pc = "act" /\ ~found =>
       /\ index =< Len(entries)
       /\ \A i \in 1 .. index : Before(entries[i].key, Target(call))
       /\ \A i \in index + 1 .. Len(entries) : Before(Target(call), entries[i].key)

(* The map an array stands for.                                            *)
MapOf(s) ==
  [k \in Keys |-> IF \E i \in DOMAIN s : s[i].key = k
                  THEN (CHOOSE e \in {s[i] : i \in DOMAIN s} : e.key = k).val
                  ELSE None]
Contents == MapOf(entries)

(* Every get, set, delete and scan does and returns what it would on a map   *)
(* from keys to values: a scan all entries of its range in order, a prefix    *)
(* scan the entries whose key has the prefix.                               *)
Map == INSTANCE OrderedMap WITH map <- Contents
ImplementsOrderedMap == Map!Spec

(* Every call returns: the search and the walk end.                          *)
CallsReturn == call # None ~> call = None
=============================================================================
