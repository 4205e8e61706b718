----------------------------- MODULE Transactions -----------------------------
(***************************************************************************)
(* transact() and close() of an open database (src/core.ts), with the arrays  *)
(* by reference: a transaction works on a copy of the committed array, and a  *)
(* commit makes the copy the committed array.  A handle, or an iterator of    *)
(* one, works on its array as long as somebody holds it, whatever became of   *)
(* the transaction.                                                        *)
(*                                                                         *)
(* One thread runs it all; the bodies are the caller's.  The file is what a   *)
(* replay of the log would give.                                           *)
(***************************************************************************)
EXTENDS WalFormat, FiniteSets, SequencesExt

CONSTANTS
  KeyOrder,        \* the keys in byte order
  MaxArrays,       \* bound: arrays besides the first, one per transaction and open
  MaxOps,          \* bound: writes of a transaction
  MaxLate,         \* bound: writes through the handles of ended transactions
  LateInCommitted  \* may one of them belong to the last that committed?

ASSUME NoStoreAssumption == None \notin Store
ASSUME KeyOrderAssumption == KeyOrder \in Seq(Keys)
ASSUME BoundsAssumption == {MaxArrays, MaxOps, MaxLate} \subseteq Nat
ASSUME LateAssumption == LateInCommitted \in BOOLEAN

VARIABLES
  heap,           \* what is in every array
  arrays,         \* the last that was made
  handles,        \* the arrays of the transactions, ended ones too
  committed,      \* the committed array
  durable,        \* is there a file?
  disk,           \* the store its log rebuilds
  lock,           \* is its writer lock held?
  closes,         \* how often this instance closed it
  closed, failed, inTransaction,
  bodies,         \* the running bodies, the innermost first
  scan,           \* an iteration of getRange, or None
  late,           \* writes after the end, so far
  answer          \* what the last call returned or threw

vars == <<heap, arrays, handles, committed, durable, disk, lock, closes, closed,
          failed, inTransaction, bodies, scan, late, answer>>

files == <<durable, disk, lock, closes>>
flags == <<closed, failed, inTransaction>>

-----------------------------------------------------------------------------

Running == Head(bodies).array
Journal == Head(bodies).journal

(* The array of open() on a new file; it is nobody's handle.                 *)
FirstArray == 0

Init ==
  /\ heap = [a \in 0 .. MaxArrays |-> EmptyStore]
  /\ arrays = FirstArray
  /\ handles = {}
  /\ committed = FirstArray
  /\ durable \in BOOLEAN
  /\ disk = EmptyStore
  /\ lock = durable
  /\ closes = 0
  /\ closed = FALSE /\ failed = FALSE /\ inTransaction = FALSE
  /\ bodies = << >>
  /\ scan = None
  /\ late = 0
  /\ answer = None

(* A new array with these contents.                                        *)
Make(contents) ==
  /\ arrays < MaxArrays
  /\ arrays' = arrays + 1
  /\ heap' = [heap EXCEPT ![arrays + 1] = contents]

-----------------------------------------------------------------------------
(* transact().                                                             *)

(* Mutant: no check for a transaction that runs already.                    *)
Refusal_NestingAllowed == IF closed THEN "CLOSED" ELSE IF failed THEN "FAILED" ELSE "none"

(* Why it refuses, or "none".                                              *)
Refusal ==
  CASE closed -> "CLOSED"
    [] ~closed /\ failed -> "FAILED"
    [] ~closed /\ ~failed /\ inTransaction -> "NESTED_TRANSACTION"
    [] OTHER -> "none"

Refused ==
  /\ Refusal # "none"
  /\ answer' = Refusal
  /\ UNCHANGED <<heap, arrays, handles, committed, files, flags, bodies, scan, late>>

Enter ==
  /\ Refusal = "none"
  /\ Make(heap[committed])
  /\ handles' = handles \cup {arrays'}
  /\ bodies' = <<[array |-> arrays', journal |-> << >>]>> \o bodies
  /\ inTransaction' = TRUE
  /\ answer' = None
  /\ UNCHANGED <<committed, files, closed, failed, scan, late>>

Get ==
  /\ bodies # << >>
  /\ \E k \in Keys : answer' = heap[Running][k]
  /\ UNCHANGED <<heap, arrays, handles, committed, files, flags, bodies, scan, late>>

(* Mutants: deletes are not journaled; the value alone is.                   *)
Journaled_SetsOnly(op) == IF op.val = None THEN Journal ELSE Append(Journal, op)
Journaled_Value(op) == Append(Journal, op.val)

Journaled(op) == Append(Journal, op)

(* tx.set(), tx.delete() in the body.                                       *)
Write ==
  /\ bodies # << >>
  /\ Len(Journal) < MaxOps
  /\ \E op \in Op :
       /\ heap' = [heap EXCEPT ![Running] = ApplyOp(@, op)]
       /\ bodies' = [bodies EXCEPT ![1].journal = Journaled(op)]
  /\ answer' = None
  /\ UNCHANGED <<arrays, handles, committed, files, flags, scan, late>>

(* The body's end, whatever it is, clears the guard.                         *)
EndBody ==
  /\ bodies # << >>
  /\ bodies' = Tail(bodies)
  /\ inTransaction' = FALSE

(* The body throws, or what it returns has a then().                        *)
Abort ==
  /\ EndBody
  /\ answer' \in {"thrown", "ASYNC_TRANSACTION"}
  /\ UNCHANGED <<heap, arrays, handles, committed, files, closed, failed, scan, late>>

Logs == durable /\ Journal # << >>

Commit ==
  /\ EndBody
  /\ disk' = IF Logs THEN ApplyOps(disk, Journal) ELSE disk
  /\ committed' = Running
  /\ answer' = "committed"
  /\ UNCHANGED <<heap, arrays, handles, durable, lock, closes, closed, failed, scan, late>>

(* The append or its fsync throws: the record may be in the log or not.      *)
CommitFails ==
  /\ EndBody
  /\ Logs
  /\ disk' \in {disk, ApplyOps(disk, Journal)}
  /\ failed' = TRUE
  /\ answer' = "FAILED"
  /\ UNCHANGED <<heap, arrays, handles, committed, durable, lock, closes, closed, scan, late>>

-----------------------------------------------------------------------------
(* What is used after its transaction.                                      *)

(* tx.set(), tx.delete() of a handle whose transaction ended; its journal is  *)
(* nobody's any more.                                                      *)
LateWrite ==
  /\ late < MaxLate
  /\ \E h \in handles, op \in Op :
       /\ \A i \in DOMAIN bodies : bodies[i].array # h
       /\ h = committed => LateInCommitted
       /\ heap' = [heap EXCEPT ![h] = ApplyOp(@, op)]
  /\ late' = late + 1
  /\ UNCHANGED <<arrays, handles, committed, files, flags, bodies, scan, answer>>

(* The entries of an array in order: the n-th is the one whose key has n keys  *)
(* with a value up to itself.                                              *)
InOrder(store) ==
  LET present == {i \in DOMAIN KeyOrder : store[KeyOrder[i]] # None}
      key(n)  == KeyOrder[CHOOSE i \in present : Cardinality({j \in present : j =< i}) = n]
  IN  [n \in 1 .. Cardinality(present) |-> [key |-> key(n), val |-> store[key(n)]]]

(* The first next() of an iterator over all keys, of the running transaction  *)
(* or an ended one.  begun is history.  At most one is followed at a time.   *)
StartScan ==
  /\ \E h \in handles :
       scan' = [array |-> h, snapshot |-> InOrder(heap[h]), seen |-> << >>, begun |-> heap[h]]
  /\ UNCHANGED <<heap, arrays, handles, committed, files, flags, bodies, late, answer>>

(* Mutant: the loop walks the array.                                        *)
Source_Live == InOrder(heap[scan.array])

(* What its loop walks.                                                    *)
Source == scan.snapshot

Exhausted == Len(scan.seen) >= Len(Source)

ScanNext ==
  /\ scan # None
  /\ ~Exhausted
  /\ scan' = [scan EXCEPT !.seen = Append(@, Source[Len(@) + 1])]
  /\ UNCHANGED <<heap, arrays, handles, committed, files, flags, bodies, late, answer>>

-----------------------------------------------------------------------------
(* close(), and the next open.                                              *)

(* Mutant: a close that throws keeps the lock.                              *)
Released_OnSuccess(a) == a = "thrown" /\ lock

CloseRefusal == IF closed THEN "again" ELSE IF inTransaction THEN "inside" ELSE "none"

CloseRefused ==
  /\ \/ CloseRefusal = "again" /\ answer' = None
     \/ CloseRefusal = "inside" /\ answer' = "CLOSE_IN_TRANSACTION"
  /\ UNCHANGED <<heap, arrays, handles, committed, files, flags, bodies, scan, late>>

(* Is the lock still held after a close that returned a?                     *)
Released(a) == FALSE

Close ==
  /\ CloseRefusal = "none"
  /\ closed' = TRUE
  /\ answer' \in IF durable THEN {None, "thrown"} ELSE {None}
  /\ closes' = IF durable THEN closes + 1 ELSE closes
  /\ lock' = Released(answer')
  /\ committed' = FirstArray
  /\ UNCHANGED <<heap, arrays, handles, durable, disk, failed, inTransaction, bodies, scan, late>>

(* A new instance on the same file, or on none.                             *)
Open ==
  /\ closed
  /\ ~lock
  /\ Make(disk)
  /\ committed' = arrays'
  /\ lock' = durable
  /\ closes' = 0
  /\ closed' = FALSE /\ failed' = FALSE /\ inTransaction' = FALSE
  /\ answer' = None
  /\ UNCHANGED <<handles, durable, disk, bodies, scan, late>>

Next ==
  \/ Refused \/ Enter \/ Get \/ Write \/ Abort \/ Commit \/ CommitFails
  \/ LateWrite \/ StartScan \/ ScanNext
  \/ CloseRefused \/ Close \/ Open

Spec == Init /\ [][Next]_vars

-----------------------------------------------------------------------------

Array == 0 .. MaxArrays

(* Types; a journal holds operations.                                       *)
TypeOK ==
  /\ heap \in [Array -> Store]
  /\ arrays \in Array /\ committed \in Array
  /\ handles \subseteq Array \ {FirstArray}
  /\ {durable, lock, closed, failed, inTransaction} \subseteq BOOLEAN
  /\ disk \in Store
  /\ bodies \in Seq([array : Array \ {FirstArray}, journal : Seq(Op)])
  /\ {closes, late} \subseteq Nat

(* Memory and disk never part: the committed array is what the log rebuilds,  *)
(* whatever bodies, handles and iterators did, as long as no commit failed.  *)
MemoryIsDisk == durable /\ ~closed /\ ~failed => heap[committed] = disk

(* getRange hands out what was there when its iteration began, every entry    *)
(* once, whatever is written to the array meanwhile.                         *)
ScansSeeTheirStart ==
  scan # None =>
    /\ IsPrefix(scan.seen, InOrder(scan.begun))
    /\ Exhausted => scan.seen = InOrder(scan.begun)

(* The file is closed once, and its lock goes with the instance even if that  *)
(* throws, so that the next open is not refused.                            *)
ReleasedOnce ==
  /\ lock <=> durable /\ ~closed
  /\ closes = IF closed /\ durable THEN 1 ELSE 0

(* What SerialStore knows of it all.                                        *)
Visible == IF closed THEN disk ELSE heap[committed]
Pending == IF bodies = << >> THEN None ELSE heap[Running]
InDoubt == IF failed /\ ~closed THEN disk ELSE None

(* Every transaction reads and writes as if alone and is committed whole or   *)
(* not at all, every refusal has its reason, and a failed commit decides at   *)
(* the next open.                                                          *)
Serial == INSTANCE SerialStore WITH store <- Visible, pending <- Pending, inDoubt <- InDoubt
ImplementsSerialStore == Serial!Spec
=============================================================================
