------------------------------ MODULE OrderedMap ------------------------------
(***************************************************************************)
(* What the calls of a transaction promise (src/core.ts, Transaction): those *)
(* of a map whose keys are in byte order.                                   *)
(***************************************************************************)
EXTENDS ByteKeys

CONSTANTS Keys, Values, None

VARIABLES
  map,    \* the value of every key, None where it is absent
  call,   \* the call in progress
  answer  \* what the last one returned

vars == <<map, call, answer>>

(* entries are those of the map with these keys, each once and in order.      *)
Lists(entries, keys) ==
  /\ entries \in Seq([key : Keys, val : Values])
  /\ {entries[i].key : i \in DOMAIN entries} = keys
  /\ \A i \in DOMAIN entries : entries[i].val = map[entries[i].key]
  /\ \A i, j \in DOMAIN entries : i < j => Before(entries[i].key, entries[j].key)

Present == {k \in Keys : map[k] # None}

Init == map = [k \in Keys |-> None] /\ call = None /\ answer = None

Begin ==
  /\ call = None
  /\ \/ /\ call' \in [name : {"get", "delete"}, key : Keys]
                       \cup [name : {"set"}, key : Keys, val : Values]
                       \cup [name : {"range"}, start : Keys, end : Keys]
                       \cup [name : {"prefix"}, prefix : Keys]
        /\ answer' = None
     \/ /\ call' = None
        /\ answer' = "no bound"
  /\ UNCHANGED map

Get ==
  /\ call # None /\ call.name = "get"
  /\ answer' = map[call.key]
  /\ UNCHANGED map

Set ==
  /\ call # None /\ call.name = "set"
  /\ map' = [map EXCEPT ![call.key] = call.val]
  /\ UNCHANGED answer

Delete ==
  /\ call # None /\ call.name = "delete"
  /\ map' = [map EXCEPT ![call.key] = None]
  /\ UNCHANGED answer

RangeScan ==
  /\ call # None /\ call.name = "range"
  /\ Lists(answer', {k \in Present : ~Before(k, call.start) /\ Before(k, call.end)})
  /\ UNCHANGED map

PrefixScan ==
  /\ call # None /\ call.name = "prefix"
  /\ Lists(answer', {k \in Present : IsPrefix(call.prefix, k)})
  /\ UNCHANGED map

Next ==
  \/ Begin
  \/ (Get \/ Set \/ Delete \/ RangeScan \/ PrefixScan) /\ call' = None

Spec == Init /\ [][Next]_vars
=============================================================================
