-------------------------- MODULE TransactionsProofs --------------------------
(***************************************************************************)
(* If the handle of a committed transaction is used no more, transactions     *)
(* are serial and memory is what the log rebuilds, for all keys, values and   *)
(* any number of transactions, writes and handles.                          *)
(***************************************************************************)
EXTENDS Transactions, FiniteSetTheorems, WalFormatProofs

Body == [array : Array \ {FirstArray}, journal : Seq(Op)]

(* A body works on an array of its own; its journal takes the committed       *)
(* store to what it sees.                                                   *)
BodyInv ==
  bodies # << >> =>
    /\ Tail(bodies) = << >> /\ DOMAIN bodies = {1}
    /\ Running \in 1 .. arrays /\ Running # committed
    /\ ~closed /\ ~failed
    /\ heap[Running] = ApplyOps(heap[committed], Journal)

IInv ==
  /\ TypeOK
  /\ committed =< arrays /\ handles \subseteq 1 .. arrays
  /\ heap[FirstArray] = EmptyStore
  /\ inTransaction <=> bodies # << >>
  /\ BodyInv
  /\ ~durable => disk = EmptyStore /\ ~failed
  /\ MemoryIsDisk

-----------------------------------------------------------------------------

LEMMA EmptyStoreIsStore == EmptyStore \in Store
BY DEF EmptyStore, Store

(* The innermost body, of one.                                              *)
LEMMA OneBody ==
  ASSUME NEW b \in Body
  PROVE  /\ <<b>> \in Seq(Body) /\ <<b>> # << >>
         /\ Head(<<b>>) = b /\ Tail(<<b>>) = << >> /\ DOMAIN <<b>> = {1}
OBVIOUS

LEMMA TheBody ==
  ASSUME IInv, bodies # << >>
  PROVE  /\ Head(bodies) \in Body /\ Running \in Array \ {FirstArray} /\ Journal \in Seq(Op)
         /\ Head(bodies) = bodies[1] /\ bodies = <<bodies[1]>>
<1>1. bodies \in Seq(Body) /\ Tail(bodies) = << >> /\ DOMAIN bodies = {1}
  BY DEF IInv, TypeOK, BodyInv, Body
<1>2. Head(bodies) \in Body /\ Head(bodies) = bodies[1]
  BY <1>1
<1>3. bodies = <<bodies[1]>>
  BY <1>1
<1> QED
  BY <1>2, <1>3 DEF Running, Journal, Body

LEMMA InitInv == Init => IInv
<1> SUFFICES ASSUME Init PROVE IInv
  OBVIOUS
<1>1. TypeOK
  BY EmptyStoreIsStore, BoundsAssumption DEF Init, TypeOK, Array, FirstArray
<1>2. bodies = << >> /\ arrays = 0 /\ committed = 0 /\ handles = {} /\ inTransaction = FALSE
      /\ disk = EmptyStore /\ failed = FALSE /\ closed = FALSE
  BY DEF Init, FirstArray
<1>3. heap[0] = EmptyStore
  BY BoundsAssumption DEF Init
<1>4. BodyInv /\ MemoryIsDisk
  BY <1>2, <1>3 DEF BodyInv, MemoryIsDisk
<1> QED
  BY <1>1, <1>2, <1>3, <1>4 DEF IInv, FirstArray

-----------------------------------------------------------------------------
(* One step.                                                               *)

(* What reads, refuses and iterates changes nothing.                         *)
LEMMA ReadingKeeps ==
  ASSUME IInv, UNCHANGED <<heap, arrays, handles, committed, files, flags, bodies>>, late' \in Nat
  PROVE  IInv'
<1>1. TypeOK'
  BY DEF IInv, TypeOK, files, flags
<1> QED
  BY <1>1 DEF IInv, BodyInv, MemoryIsDisk, files, flags, Running, Journal

(* A new array is nobody else's.                                            *)
LEMMA MakeAdds ==
  ASSUME IInv, NEW contents \in Store, Make(contents)
  PROVE  /\ arrays' = arrays + 1 /\ arrays' \in Array \ {FirstArray}
         /\ heap' \in [Array -> Store] /\ heap'[arrays'] = contents
         /\ \A a \in 0 .. arrays : heap'[a] = heap[a]
BY BoundsAssumption DEF Make, IInv, TypeOK, Array, FirstArray

LEMMA EnterKeeps ==
  ASSUME IInv, Enter
  PROVE  IInv'
<1>1. Make(heap[committed]) /\ heap[committed] \in Store /\ committed \in 0 .. arrays
  BY DEF Enter, IInv, TypeOK, Array
<1>2. /\ arrays' = arrays + 1 /\ arrays' \in Array \ {FirstArray} /\ arrays \in Nat
      /\ heap' \in [Array -> Store] /\ heap'[arrays'] = heap[committed]
      /\ heap'[committed] = heap[committed] /\ heap'[FirstArray] = heap[FirstArray]
  <2>1. arrays \in Nat /\ FirstArray \in 0 .. arrays
    BY DEF IInv, TypeOK, Array, FirstArray
  <2> QED
    BY <1>1, <2>1, MakeAdds
<1>3. ~closed /\ ~failed /\ ~inTransaction /\ bodies = << >>
  BY DEF Enter, Refusal, IInv
<1> DEFINE b == [array |-> arrays', journal |-> << >>]
<1>4. bodies' = <<b>>
  BY <1>3 DEF Enter
<1>5. b \in Body
  BY <1>2 DEF Body
<1>6. /\ bodies' \in Seq(Body) /\ bodies' # << >> /\ Head(bodies') = b
      /\ Tail(bodies') = << >> /\ DOMAIN bodies' = {1}
  BY <1>4, <1>5, OneBody
<1>7. UNCHANGED <<committed, durable, disk, lock, closes, closed, failed, late>>
      /\ inTransaction' = TRUE /\ handles' = handles \cup {arrays'}
  BY DEF Enter, files
<1>8. TypeOK'
  BY <1>2, <1>6, <1>7 DEF IInv, TypeOK, Body
<1>9. Running' = arrays' /\ Journal' = << >>
  BY <1>6 DEF Running, Journal
<1>10. BodyInv'
  BY <1>1, <1>2, <1>3, <1>6, <1>7, <1>9, ApplyNoOps DEF BodyInv
<1>11. handles' \subseteq 1 .. arrays' /\ committed' =< arrays'
  BY <1>1, <1>2, <1>7 DEF IInv
<1> QED
  BY <1>2, <1>3, <1>6, <1>7, <1>8, <1>10, <1>11 DEF IInv, MemoryIsDisk

LEMMA WriteKeeps ==
  ASSUME IInv, Write
  PROVE  IInv'
<1>1. PICK op \in Op :
        /\ heap' = [heap EXCEPT ![Running] = ApplyOp(@, op)]
        /\ bodies' = [bodies EXCEPT ![1].journal = Journaled(op)]
  BY DEF Write
<1>2. /\ bodies # << >> /\ Running \in Array \ {FirstArray} /\ Journal \in Seq(Op)
      /\ Head(bodies) \in Body /\ bodies = <<Head(bodies)>>
  BY TheBody DEF Write
<1> DEFINE b == [array |-> Running, journal |-> Append(Journal, op)]
<1>3. bodies' = <<b>>
  <2>1. Head(bodies) = [array |-> Running, journal |-> Journal]
    BY <1>2 DEF Body, Running, Journal
  <2>2. [<<Head(bodies)>> EXCEPT ![1].journal = Append(Journal, op)]
          = <<[Head(bodies) EXCEPT !.journal = Append(Journal, op)]>>
    OBVIOUS
  <2>3. [Head(bodies) EXCEPT !.journal = Append(Journal, op)] = b
    BY <2>1
  <2>4. bodies' = [<<Head(bodies)>> EXCEPT ![1].journal = Append(Journal, op)]
    BY <1>1, <1>2 DEF Journaled
  <2> QED
    BY <2>2, <2>3, <2>4
<1>4. b \in Body
  BY <1>2 DEF Body
<1>5. /\ bodies' \in Seq(Body) /\ bodies' # << >> /\ Head(bodies') = b
      /\ Tail(bodies') = << >> /\ DOMAIN bodies' = {1}
  BY <1>3, <1>4, OneBody
<1>6. heap \in [Array -> Store] /\ committed \in Array /\ Running # committed
  BY <1>2 DEF IInv, TypeOK, BodyInv
<1>7. ApplyOp(heap[Running], op) \in Store
  BY <1>2, <1>6 DEF ApplyOp, Store, Op
<1>8. /\ heap' \in [Array -> Store] /\ heap'[committed] = heap[committed]
      /\ heap'[FirstArray] = heap[FirstArray]
      /\ heap'[Running] = ApplyOp(heap[Running], op)
  <2>1. FirstArray \in Array /\ FirstArray # Running
    BY <1>2, BoundsAssumption DEF Array, FirstArray
  <2> QED
    BY <1>1, <1>2, <1>6, <1>7, <2>1
<1>9. UNCHANGED <<arrays, handles, committed, durable, disk, lock, closes, closed, failed, inTransaction, late>>
  BY DEF Write, files, flags
<1>10. Running' = Running /\ Journal' = Append(Journal, op)
  BY <1>5 DEF Running, Journal
<1>11. TypeOK'
  BY <1>5, <1>8, <1>9 DEF IInv, TypeOK, Body
<1>12. heap[Running] = ApplyOps(heap[committed], Journal)
  BY <1>2 DEF IInv, BodyInv
<1>13. heap'[Running] = ApplyOps(heap[committed], Append(Journal, op))
  <2>1. heap[committed] \in Store
    BY <1>6
  <2> QED
    BY <1>2, <1>8, <1>12, <2>1, ApplyOpsAppend
<1>14. BodyInv'
  BY <1>2, <1>5, <1>8, <1>9, <1>10, <1>13 DEF IInv, BodyInv
<1> QED
  BY <1>2, <1>5, <1>8, <1>9, <1>11, <1>14 DEF IInv, MemoryIsDisk

(* A body that ends leaves none.                                            *)
LEMMA EndBodyEnds ==
  ASSUME IInv, EndBody
  PROVE  /\ bodies # << >> /\ bodies' = << >> /\ inTransaction' = FALSE
         /\ Running \in Array /\ Running =< arrays /\ Journal \in Seq(Op)
         /\ heap[committed] \in Store /\ heap[Running] \in Store
         /\ heap[Running] = ApplyOps(heap[committed], Journal)
         /\ ~closed /\ ~failed
<1>1. bodies # << >> /\ bodies' = << >> /\ inTransaction' = FALSE
  BY DEF EndBody, IInv, BodyInv
<1>2. Running \in Array /\ Journal \in Seq(Op)
  BY <1>1, TheBody
<1> QED
  BY <1>1, <1>2 DEF IInv, BodyInv, TypeOK

LEMMA EndingKeeps ==
  ASSUME IInv, Abort \/ Commit \/ CommitFails
  PROVE  IInv'
<1>1. EndBody /\ UNCHANGED <<heap, arrays, handles, durable, lock, closes, closed, late>>
  BY DEF Abort, Commit, CommitFails, files
<1>2. << >> \in Seq(Body)
  OBVIOUS
<1>3. /\ bodies # << >> /\ bodies' = << >> /\ inTransaction' = FALSE
      /\ Running \in Array /\ Running =< arrays /\ Journal \in Seq(Op)
      /\ heap[committed] \in Store /\ heap[Running] \in Store
      /\ heap[Running] = ApplyOps(heap[committed], Journal)
      /\ ~closed /\ ~failed
  BY <1>1, EndBodyEnds
<1>4. BodyInv'
  BY <1>3 DEF BodyInv
<1>5. SUFFICES /\ disk' \in Store /\ failed' \in BOOLEAN
               /\ committed' \in Array /\ committed' =< arrays
               /\ ~durable => disk' = EmptyStore /\ ~failed'
               /\ durable /\ ~failed' => heap[committed'] = disk'
  <2>1. TypeOK'
    BY <1>1, <1>2, <1>3, <1>5 DEF IInv, TypeOK, Body
  <2> QED
    BY <1>1, <1>3, <1>4, <1>5, <2>1 DEF IInv, MemoryIsDisk
<1>6. /\ disk \in Store /\ committed \in Array /\ committed =< arrays /\ failed \in BOOLEAN
      /\ ~durable => disk = EmptyStore
      /\ durable => heap[committed] = disk
  BY <1>3 DEF IInv, TypeOK, MemoryIsDisk
<1>7. ApplyOps(disk, Journal) \in Store
  BY <1>3, <1>6, ApplyOpsType
<1>8. CASE Abort
  <2>1. UNCHANGED <<disk, committed, failed>>
    BY <1>8 DEF Abort, files
  <2> QED
    BY <1>3, <1>6, <2>1
<1>9. CASE Commit
  <2>1. disk' = IF Logs THEN ApplyOps(disk, Journal) ELSE disk
    BY <1>9 DEF Commit
  <2>2. committed' = Running /\ failed' = failed
    BY <1>9 DEF Commit
  <2>3. durable => heap[Running] = disk'
    <3>1. CASE Logs
      BY <1>3, <1>6, <2>1, <3>1
    <3>2. CASE durable /\ Journal = << >>
      BY <1>3, <1>6, <2>1, <3>2, ApplyNoOps DEF Logs
    <3> QED
      BY <3>1, <3>2 DEF Logs
  <2>4. disk' \in Store
    BY <1>6, <1>7, <2>1
  <2>5. ~durable => disk' = EmptyStore
    BY <1>6, <2>1 DEF Logs
  <2>6. committed' \in Array /\ committed' =< arrays
    BY <1>3, <2>2
  <2>7. failed' \in BOOLEAN /\ ~failed'
    BY <1>3, <1>6, <2>2
  <2>8. durable => heap[committed'] = disk'
    BY <2>2, <2>3
  <2> QED
    BY <2>4, <2>5, <2>6, <2>7, <2>8
<1>10. CASE CommitFails
  BY <1>3, <1>6, <1>7, <1>10 DEF CommitFails, Logs
<1> QED
  BY <1>8, <1>9, <1>10
LEMMA LateWriteKeeps ==
  ASSUME IInv, LateWrite, ~LateInCommitted
  PROVE  /\ IInv'
         /\ heap'[committed] = heap[committed]
         /\ bodies # << >> => heap'[Running] = heap[Running]
<1>1. PICK h \in handles, op \in Op :
        /\ \A i \in DOMAIN bodies : bodies[i].array # h
        /\ h # committed
        /\ heap' = [heap EXCEPT ![h] = ApplyOp(@, op)]
  BY DEF LateWrite
<1>2. heap \in [Array -> Store] /\ h \in Array \ {FirstArray} /\ committed \in Array
  BY <1>1 DEF IInv, TypeOK
<1>3. ApplyOp(heap[h], op) \in Store
  BY <1>1, <1>2 DEF ApplyOp, Store, Op
<1>4. bodies # << >> => Running # h /\ Running \in Array
  <2>1. SUFFICES ASSUME bodies # << >> PROVE Running # h /\ Running \in Array
    OBVIOUS
  <2>2. Head(bodies) = bodies[1] /\ Running \in Array
    BY <2>1, TheBody
  <2>3. 1 \in DOMAIN bodies
    BY <2>1 DEF IInv, BodyInv
  <2> QED
    BY <1>1, <2>2, <2>3 DEF Running
<1>5. /\ heap' \in [Array -> Store] /\ heap'[committed] = heap[committed]
      /\ heap'[FirstArray] = heap[FirstArray]
      /\ bodies # << >> => heap'[Running] = heap[Running]
  <2>1. FirstArray \in Array
    BY BoundsAssumption DEF Array, FirstArray
  <2> QED
    BY <1>1, <1>2, <1>3, <1>4, <2>1
<1>6. UNCHANGED <<arrays, handles, committed, files, flags, bodies>> /\ late' \in Nat
  BY DEF LateWrite, IInv, TypeOK
<1>7. TypeOK'
  BY <1>5, <1>6 DEF IInv, TypeOK, files, flags
<1>8. Running' = Running /\ Journal' = Journal
  BY <1>6 DEF Running, Journal
<1> QED
  BY <1>5, <1>6, <1>7, <1>8 DEF IInv, BodyInv, MemoryIsDisk, files, flags

LEMMA CloseKeeps ==
  ASSUME IInv, Close
  PROVE  IInv' /\ bodies = << >> /\ bodies' = << >> /\ ~closed /\ closed' = TRUE
<1>1. ~closed /\ ~inTransaction /\ closed' = TRUE
  BY DEF Close, CloseRefusal
<1>2. bodies = << >> /\ bodies' = << >>
  BY <1>1 DEF Close, IInv
<1>3. /\ UNCHANGED <<heap, arrays, handles, durable, disk, failed, inTransaction, late>>
      /\ committed' = FirstArray /\ lock' = FALSE /\ closes' \in Nat
  BY DEF Close, Released, IInv, TypeOK
<1>4. FirstArray \in Array /\ FirstArray =< arrays
  BY BoundsAssumption DEF Array, FirstArray, IInv, TypeOK
<1>5. TypeOK'
  BY <1>1, <1>2, <1>3, <1>4 DEF IInv, TypeOK
<1> QED
  BY <1>1, <1>2, <1>3, <1>4, <1>5 DEF IInv, BodyInv, MemoryIsDisk

LEMMA OpenKeeps ==
  ASSUME IInv, Open
  PROVE  /\ IInv' /\ bodies = << >> /\ bodies' = << >>
         /\ closed /\ closed' = FALSE /\ failed' = FALSE
         /\ heap'[committed'] = disk
<1>1. /\ closed /\ Make(disk) /\ committed' = arrays'
      /\ lock' = durable /\ closes' = 0
      /\ closed' = FALSE /\ failed' = FALSE /\ inTransaction' = FALSE
      /\ UNCHANGED <<handles, durable, disk, bodies, late>>
  BY DEF Open
<1>2. bodies = << >> /\ disk \in Store /\ arrays \in Nat /\ FirstArray \in 0 .. arrays
  BY <1>1 DEF IInv, BodyInv, TypeOK, Array, FirstArray
<1>3. /\ arrays' = arrays + 1 /\ arrays' \in Array
      /\ heap' \in [Array -> Store] /\ heap'[arrays'] = disk
      /\ heap'[FirstArray] = heap[FirstArray]
  BY <1>1, <1>2, MakeAdds
<1>4. TypeOK'
  <2>1. {durable', lock', closed', failed', inTransaction'} \subseteq BOOLEAN
    BY <1>1 DEF IInv, TypeOK
  <2>2. {closes', late'} \subseteq Nat
    BY <1>1 DEF IInv, TypeOK
  <2>3. committed' \in Array /\ handles' \subseteq Array \ {FirstArray} /\ disk' \in Store
    BY <1>1, <1>3 DEF IInv, TypeOK
  <2> QED
    BY <1>1, <1>3, <2>1, <2>2, <2>3 DEF IInv, TypeOK
<1>5. committed' =< arrays' /\ handles' \subseteq 1 .. arrays'
  BY <1>1, <1>2, <1>3 DEF IInv
<1> QED
  BY <1>1, <1>2, <1>3, <1>4, <1>5 DEF IInv, BodyInv, MemoryIsDisk

LEMMA StepInv ==
  ASSUME ~LateInCommitted, IInv, [Next]_vars
  PROVE  IInv'
<1>1. CASE Refused \/ Get \/ StartScan \/ ScanNext \/ CloseRefused
  BY <1>1, ReadingKeeps DEF Refused, Get, StartScan, ScanNext, CloseRefused, IInv, TypeOK
<1>2. CASE Enter
  BY <1>2, EnterKeeps
<1>3. CASE Write
  BY <1>3, WriteKeeps
<1>4. CASE Abort \/ Commit \/ CommitFails
  BY <1>4, EndingKeeps
<1>5. CASE LateWrite
  BY <1>5, LateWriteKeeps
<1>6. CASE Close
  BY <1>6, CloseKeeps
<1>7. CASE Open
  BY <1>7, OpenKeeps
<1>8. CASE UNCHANGED vars
  BY <1>8, ReadingKeeps DEF vars, files, flags, IInv, TypeOK
<1> QED
  BY <1>1, <1>2, <1>3, <1>4, <1>5, <1>6, <1>7, <1>8 DEF Next

(* Memory is what the log rebuilds, as long as no commit failed.             *)
THEOREM MemoryNeverParts ==
  ASSUME ~LateInCommitted
  PROVE  Spec => []MemoryIsDisk
<1>1. IInv /\ [Next]_vars => IInv'
  BY StepInv
<1>2. IInv => MemoryIsDisk
  BY DEF IInv
<1> QED
  BY <1>1, <1>2, InitInv, PTL DEF Spec

-----------------------------------------------------------------------------
(* The refinement.                                                         *)

(* A store is not None: a transaction that runs is pending.                  *)
LEMMA PendingStore ==
  ASSUME IInv, bodies # << >>
  PROVE  /\ Pending = heap[Running] /\ Pending # None /\ Pending \in Store
         /\ ~closed /\ Visible = heap[committed] /\ InDoubt = None
<1>1. ~closed /\ ~failed
  BY DEF IInv, BodyInv
<1>2. heap[Running] \in Store
  BY TheBody DEF IInv, TypeOK
<1> QED
  BY <1>1, <1>2, NoStoreAssumption DEF Pending, Visible, InDoubt

LEMMA SameState ==
  ASSUME UNCHANGED <<heap, committed, files, flags, bodies>>
  PROVE  UNCHANGED <<durable, closed, Visible, Pending, InDoubt>>
BY DEF files, flags, Visible, Pending, InDoubt, Running

LEMMA SerialRefuses ==
  ASSUME IInv, Refused \/ CloseRefused
  PROVE  Serial!Refuse
<1>1. UNCHANGED <<durable, closed, Visible, Pending, InDoubt>>
  BY SameState DEF Refused, CloseRefused
<1>2. \/ closed /\ answer' \in {"CLOSED", None}
      \/ ~closed /\ failed /\ answer' = "FAILED"
      \/ inTransaction /\ answer' \in {"NESTED_TRANSACTION", "CLOSE_IN_TRANSACTION"}
  <2>1. CASE Refused
    BY <2>1 DEF Refused, Refusal
  <2>2. CASE CloseRefused
    BY <2>2 DEF CloseRefused, CloseRefusal
  <2> QED
    BY <2>1, <2>2
<1>3. ~closed /\ failed => InDoubt # None
  BY NoStoreAssumption DEF InDoubt, IInv, TypeOK
<1>4. inTransaction => Pending # None
  BY PendingStore DEF IInv
<1> QED
  BY <1>1, <1>2, <1>3, <1>4 DEF Serial!Refuse

LEMMA SerialBegins ==
  ASSUME IInv, Enter
  PROVE  Serial!Begin
<1>1. /\ ~closed /\ ~failed /\ ~inTransaction /\ bodies = << >> /\ answer' = None
      /\ UNCHANGED <<committed, durable, disk, closed, failed>>
  BY DEF Enter, Refusal, IInv, files
<1>2. IInv'
  BY EnterKeeps
<1>3. arrays \in Nat /\ committed \in 0 .. arrays /\ heap[committed] \in Store /\ Make(heap[committed])
  BY DEF Enter, IInv, TypeOK, Array
<1>4. heap'[committed] = heap[committed] /\ heap'[arrays'] = heap[committed]
  BY <1>3, MakeAdds
<1>5. bodies' = <<[array |-> arrays', journal |-> << >>]>>
  BY <1>1 DEF Enter
<1>6. Running' = arrays' /\ bodies' # << >>
  BY <1>5 DEF Running
<1> QED
  BY <1>1, <1>4, <1>6 DEF Serial!Begin, Serial!Idle, Visible, Pending, InDoubt

LEMMA SerialReads ==
  ASSUME IInv, Get
  PROVE  Serial!Get
<1>1. UNCHANGED <<durable, closed, Visible, Pending, InDoubt>>
  BY SameState DEF Get
<1>2. bodies # << >> /\ \E k \in Keys : answer' = heap[Running][k]
  BY DEF Get
<1> QED
  BY <1>1, <1>2, PendingStore DEF Serial!Get
LEMMA SerialWrites ==
  ASSUME IInv, Write
  PROVE  Serial!Write
<1>1. PICK op \in Op :
        /\ heap' = [heap EXCEPT ![Running] = ApplyOp(@, op)]
        /\ bodies' = [bodies EXCEPT ![1].journal = Journaled(op)]
  BY DEF Write
<1>2. bodies # << >> /\ Running \in Array /\ Head(bodies) = bodies[1] /\ DOMAIN bodies = {1}
  BY TheBody DEF Write, IInv, BodyInv
<1>3. /\ UNCHANGED <<committed, durable, disk, closed, failed>> /\ answer' = None
  BY DEF Write, files, flags
<1>4. /\ heap \in [Array -> Store] /\ Running # committed /\ committed \in Array
  BY <1>2 DEF IInv, BodyInv, TypeOK
<1>5. heap'[Running] = ApplyOp(heap[Running], op) /\ heap'[committed] = heap[committed]
  BY <1>1, <1>2, <1>4
<1>6. Running' = Running /\ bodies' # << >>
  <2>1. /\ bodies \in Seq(Body) /\ bodies[1] \in Body /\ bodies = <<bodies[1]>>
    BY <1>2, TheBody DEF IInv, TypeOK, Body
  <2>2. bodies' = <<[bodies[1] EXCEPT !.journal = Journaled(op)]>>
    <3>1. [<<bodies[1]>> EXCEPT ![1].journal = Journaled(op)]
            = <<[bodies[1] EXCEPT !.journal = Journaled(op)]>>
      OBVIOUS
    <3> QED
      BY <1>1, <2>1, <3>1
  <2>3. Head(bodies') = [bodies[1] EXCEPT !.journal = Journaled(op)] /\ bodies' # << >>
    BY <2>2
  <2> QED
    BY <1>2, <2>1, <2>3 DEF Running, Body
<1> QED
  <2>1. /\ Pending # None /\ Pending' = ApplyOp(Pending, op)
        /\ UNCHANGED <<Visible, InDoubt>>
    BY <1>2, <1>3, <1>5, <1>6, PendingStore DEF Visible, Pending, InDoubt
  <2>2. op \in Serial!Op /\ Pending' = Serial!ApplyOp(Pending, op)
    BY <2>1 DEF Serial!Op, Op, Serial!ApplyOp, ApplyOp
  <2> QED
    BY <1>3, <2>1, <2>2 DEF Serial!Write

LEMMA SerialEnds ==
  ASSUME IInv
  PROVE  /\ Abort => Serial!Abort
         /\ Commit => Serial!Commit
         /\ CommitFails => Serial!CommitFails
<1>1. ASSUME EndBody, UNCHANGED <<heap, durable, closed>>
      PROVE  /\ Pending = heap[Running] /\ Pending # None /\ Pending' = None
             /\ Visible = heap[committed] /\ Visible' = heap[committed']
             /\ InDoubt = None /\ InDoubt' = IF failed' THEN disk' ELSE None
             /\ ~failed
             /\ durable => /\ disk = Visible
                           /\ ApplyOps(disk, Journal) = Pending
  <2>1. /\ bodies # << >> /\ bodies' = << >> /\ ~closed /\ ~failed
        /\ heap[Running] = ApplyOps(heap[committed], Journal)
    BY <1>1, EndBodyEnds
  <2>2. durable => disk = heap[committed]
    BY <2>1 DEF IInv, MemoryIsDisk
  <2> QED
    BY <1>1, <2>1, <2>2, PendingStore DEF Pending, Visible, InDoubt
<1>2. ASSUME Abort PROVE Serial!Abort
  <2>1. EndBody /\ UNCHANGED <<heap, committed, durable, disk, closed, failed>>
    BY <1>2 DEF Abort, files
  <2> QED
    BY <1>1, <1>2, <2>1 DEF Abort, Serial!Abort
<1>3. ASSUME Commit PROVE Serial!Commit
  <2>1. /\ EndBody /\ UNCHANGED <<heap, durable, closed, failed>>
        /\ committed' = Running /\ answer' = "committed"
    BY <1>3 DEF Commit
  <2> QED
    BY <1>1, <2>1 DEF Serial!Commit
<1>4. ASSUME CommitFails PROVE Serial!CommitFails
  <2>1. /\ EndBody /\ UNCHANGED <<heap, committed, durable, closed>> /\ durable
        /\ disk' \in {disk, ApplyOps(disk, Journal)} /\ failed' = TRUE /\ answer' = "FAILED"
    BY <1>4 DEF CommitFails, Logs
  <2> QED
    BY <1>1, <2>1 DEF Serial!CommitFails
<1> QED
  BY <1>2, <1>3, <1>4

LEMMA SerialCloses ==
  ASSUME IInv, Close
  PROVE  Serial!Close
<1>1. bodies = << >> /\ bodies' = << >> /\ ~closed /\ closed' = TRUE
  BY CloseKeeps
<1>2. UNCHANGED <<durable, disk, failed>> /\ answer' \in {None, "thrown"} /\ durable \in BOOLEAN
  BY DEF Close, IInv, TypeOK
<1>3. Pending = None /\ Pending' = None
  BY <1>1 DEF Pending
<1>4. InDoubt' = None /\ Visible' = disk
  BY <1>1, <1>2 DEF InDoubt, Visible
<1>5. CASE ~durable
  <2>1. disk = Serial!EmptyStore
    BY <1>5 DEF IInv, EmptyStore, Serial!EmptyStore
  <2> QED
    BY <1>1, <1>2, <1>3, <1>4, <1>5, <2>1 DEF Serial!Close
<1>6. CASE durable /\ failed
  <2>1. InDoubt = disk /\ disk # None
    BY <1>1, <1>6, NoStoreAssumption DEF InDoubt, IInv, TypeOK
  <2> QED
    BY <1>1, <1>2, <1>3, <1>4, <1>6, <2>1 DEF Serial!Close
<1>7. CASE durable /\ ~failed
  <2>1. InDoubt = None /\ disk = Visible
    BY <1>1, <1>7 DEF InDoubt, Visible, IInv, MemoryIsDisk
  <2> QED
    BY <1>1, <1>2, <1>3, <1>4, <1>7, <2>1 DEF Serial!Close
<1> QED
  BY <1>5, <1>6, <1>7

LEMMA SerialOpens ==
  ASSUME IInv, Open
  PROVE  Serial!Open
<1>1. /\ bodies = << >> /\ bodies' = << >> /\ closed /\ closed' = FALSE /\ failed' = FALSE
      /\ heap'[committed'] = disk
  BY OpenKeeps
<1>2. UNCHANGED <<durable, disk>> /\ answer' = None
  BY DEF Open
<1> QED
  BY <1>1, <1>2 DEF Serial!Open, Visible, Pending, InDoubt

LEMMA SerialStep ==
  ASSUME ~LateInCommitted, IInv, [Next]_vars
  PROVE  [Serial!Next]_Serial!vars
<1>1. CASE Refused \/ CloseRefused
  BY <1>1, SerialRefuses DEF Serial!Next
<1>2. CASE Enter
  BY <1>2, SerialBegins DEF Serial!Next
<1>3. CASE Get
  BY <1>3, SerialReads DEF Serial!Next
<1>4. CASE Write
  BY <1>4, SerialWrites DEF Serial!Next
<1>5. CASE Abort \/ Commit \/ CommitFails
  BY <1>5, SerialEnds DEF Serial!Next
<1>6. CASE Close
  BY <1>6, SerialCloses DEF Serial!Next
<1>7. CASE Open
  BY <1>7, SerialOpens DEF Serial!Next
<1>8. CASE LateWrite
  <2>1. /\ heap'[committed] = heap[committed]
        /\ bodies # << >> => heap'[Running] = heap[Running]
    BY <1>8, LateWriteKeeps
  <2>2. UNCHANGED <<committed, files, flags, bodies, answer>>
    BY <1>8 DEF LateWrite
  <2>3. UNCHANGED <<durable, closed, Visible, Pending, InDoubt, answer>>
    BY <2>1, <2>2 DEF files, flags, Visible, Pending, InDoubt, Running
  <2> QED
    BY <2>3 DEF Serial!vars
<1>9. CASE StartScan \/ ScanNext \/ UNCHANGED vars
  <2>1. UNCHANGED <<heap, committed, files, flags, bodies, answer>>
    BY <1>9 DEF StartScan, ScanNext, vars, files, flags
  <2> QED
    BY <2>1, SameState DEF Serial!vars
<1> QED
  BY <1>1, <1>2, <1>3, <1>4, <1>5, <1>6, <1>7, <1>8, <1>9 DEF Next

LEMMA SerialInit == Init => Serial!Init
<1> SUFFICES ASSUME Init PROVE Serial!Init
  OBVIOUS
<1>1. heap[FirstArray] = EmptyStore
  BY BoundsAssumption DEF Init, FirstArray
<1>2. Visible = EmptyStore /\ Pending = None /\ InDoubt = None
  BY <1>1 DEF Init, Visible, Pending, InDoubt
<1> QED
  BY <1>2 DEF Init, Serial!Init, EmptyStore, Serial!EmptyStore

(* Arrays, journals and handles keep their types: a journal is one that replays. *)
THEOREM TransactionsTypeCorrect ==
  ASSUME ~LateInCommitted
  PROVE  Spec => []TypeOK
<1>1. IInv => TypeOK
  BY DEF IInv
<1>2. IInv /\ [Next]_vars => IInv'
  BY StepInv
<1> QED
  BY <1>1, <1>2, InitInv, PTL DEF Spec

(* Transactions are serial and atomic, and every refusal has its reason.      *)
THEOREM TransactionsAreSerial ==
  ASSUME ~LateInCommitted
  PROVE  Spec => ImplementsSerialStore
<1>1. IInv /\ [Next]_vars => IInv'
  BY StepInv
<1>2. IInv /\ [Next]_vars => [Serial!Next]_Serial!vars
  BY SerialStep
<1> QED
  BY <1>1, <1>2, InitInv, SerialInit, PTL DEF Spec, ImplementsSerialStore, Serial!Spec

(* The lock goes with the instance, and its file is closed once.             *)
THEOREM ResourcesAreReleased == Spec => []ReleasedOnce
<1> DEFINE Inv == ReleasedOnce /\ closed \in BOOLEAN /\ durable \in BOOLEAN
<1>1. Init => Inv
  <2> SUFFICES ASSUME Init PROVE Inv
    OBVIOUS
  <2>1. closed = FALSE /\ lock = durable /\ closes = 0 /\ durable \in BOOLEAN
    BY DEF Init
  <2> QED
    BY <2>1 DEF ReleasedOnce
<1>2. Inv /\ [Next]_vars => Inv'
  <2> SUFFICES ASSUME Inv, [Next]_vars PROVE Inv'
    OBVIOUS
  <2>1. CASE Close
    <3>1. ~closed /\ closed' = TRUE /\ lock' = FALSE /\ durable' = durable
          /\ closes' = IF durable THEN closes + 1 ELSE closes
      BY <2>1 DEF Close, CloseRefusal, Released
    <3>2. closes = 0
      BY <3>1 DEF ReleasedOnce
    <3>3. closes' = IF durable THEN 1 ELSE 0
      BY <3>1, <3>2
    <3> QED
      BY <3>1, <3>3 DEF ReleasedOnce
  <2>2. CASE Open
    BY <2>2 DEF Open, ReleasedOnce
  <2>3. CASE UNCHANGED <<lock, durable, closed, closes>>
    BY <2>3 DEF ReleasedOnce
  <2> QED
    BY <2>1, <2>2, <2>3
       DEF Next, vars, files, flags, Refused, Enter, Get, Write, Abort, Commit, CommitFails,
           LateWrite, StartScan, ScanNext, CloseRefused
<1> QED
  BY <1>1, <1>2, PTL DEF Spec

(* What an iterator has handed out is what its snapshot begins with, and the   *)
(* snapshot is the array as it was, whatever became of it.                    *)
ScanInv ==
  scan # None =>
    LET all == InOrder(scan.begun) IN
      /\ DOMAIN scan = {"array", "snapshot", "seen", "begun"}
      /\ scan.snapshot = all
      /\ scan.seen \in Seq(Range(all)) /\ Len(scan.seen) =< Len(all)
      /\ \A i \in 1 .. Len(scan.seen) : scan.seen[i] = all[i]

LEMMA InOrderIsSequence ==
  ASSUME NEW store
  PROVE  /\ InOrder(store) \in Seq(Range(InOrder(store)))
         /\ Len(InOrder(store)) \in Nat /\ DOMAIN InOrder(store) = 1 .. Len(InOrder(store))
<1> DEFINE present == {i \in DOMAIN KeyOrder : store[KeyOrder[i]] # None}
           key(n) == KeyOrder[CHOOSE i \in present : Cardinality({j \in present : j =< i}) = n]
           entry(n) == [key |-> key(n), val |-> store[key(n)]]
           all == InOrder(store)
<1>1. Cardinality(present) \in Nat
  <2>1. KeyOrder \in Seq(Keys) /\ Len(KeyOrder) \in Nat /\ DOMAIN KeyOrder = 1 .. Len(KeyOrder)
    BY KeyOrderAssumption
  <2>2. IsFiniteSet(1 .. Len(KeyOrder))
    BY <2>1, FS_Interval
  <2>3. IsFiniteSet(present)
    BY <2>1, <2>2, FS_Subset
  <2> QED
    BY <2>3, FS_CardinalityType
<1>2. all = [n \in 1 .. Cardinality(present) |-> entry(n)]
  BY DEF InOrder
<1> HIDE DEF present, all, entry
<1>3. DOMAIN all = 1 .. Cardinality(present)
  BY <1>2
<1>4. all \in [1 .. Cardinality(present) -> Range(all)]
  BY <1>2, <1>3 DEF Range
<1>5. all \in Seq(Range(all)) /\ Len(all) = Cardinality(present)
  BY <1>1, <1>4
<1> QED
  BY <1>1, <1>3, <1>5 DEF all

LEMMA ScanStep ==
  ASSUME ScanInv, [Next]_vars
  PROVE  ScanInv'
<1>1. CASE StartScan
  <2>1. PICK h \in handles :
          scan' = [array |-> h, snapshot |-> InOrder(heap[h]), seen |-> << >>, begun |-> heap[h]]
    BY <1>1 DEF StartScan
  <2>2. /\ scan'.begun = heap[h] /\ scan'.snapshot = InOrder(heap[h]) /\ scan'.seen = << >>
        /\ DOMAIN scan' = {"array", "snapshot", "seen", "begun"}
    BY <2>1
  <2>3. /\ Len(InOrder(heap[h])) \in Nat /\ << >> \in Seq(Range(InOrder(heap[h])))
        /\ Len(<< >>) = 0
    BY InOrderIsSequence
  <2> QED
    BY <2>2, <2>3 DEF ScanInv
<1>2. CASE ScanNext
  <2> DEFINE all == InOrder(scan.begun)
             n == Len(scan.seen)
  <2>1. /\ scan # None /\ scan.snapshot = all
        /\ scan' = [scan EXCEPT !.seen = Append(scan.seen, all[n + 1])]
        /\ ~(n >= Len(all))
    BY <1>2 DEF ScanNext, ScanInv, Exhausted, Source
  <2>2. /\ scan.seen \in Seq(Range(all)) /\ n \in Nat
        /\ \A i \in 1 .. n : scan.seen[i] = all[i]
    BY <2>1 DEF ScanInv
  <2>3. all \in Seq(Range(all)) /\ Len(all) \in Nat /\ DOMAIN all = 1 .. Len(all)
    BY InOrderIsSequence
  <2> HIDE DEF all
  <2>4. n + 1 \in DOMAIN all /\ all[n + 1] \in Range(all) /\ n + 1 =< Len(all)
    <3>1. n + 1 \in 1 .. Len(all)
      BY <2>1, <2>2, <2>3
    <3> QED
      BY <2>3, <3>1 DEF Range
  <2> DEFINE more == Append(scan.seen, all[n + 1])
  <2>5. /\ more \in Seq(Range(all)) /\ Len(more) = n + 1
        /\ \A i \in 1 .. n + 1 : more[i] = all[i]
    BY <2>2, <2>4
  <2>6. /\ scan'.seen = more /\ scan'.begun = scan.begun /\ scan'.snapshot = all
        /\ DOMAIN scan' = DOMAIN scan
    <3>1. DOMAIN scan = {"array", "snapshot", "seen", "begun"}
      BY <2>1 DEF ScanInv
    <3>2. scan'.seen = more /\ scan'.begun = scan.begun /\ scan'.snapshot = all
      BY <2>1, <3>1
    <3> QED
      BY <2>1, <3>2
  <2> QED
    BY <2>1, <2>2, <2>3, <2>4, <2>5, <2>6 DEF ScanInv, all
<1>3. CASE UNCHANGED scan
  BY <1>3 DEF ScanInv
<1> QED
  BY <1>1, <1>2, <1>3
     DEF Next, vars, Refused, Enter, Get, Write, Abort, Commit, CommitFails, LateWrite,
         CloseRefused, Close, Open

(* However long an iterator is followed, in its transaction or after it, it    *)
(* hands out what was there when it began, once each and in order, and at its  *)
(* end has handed out all: core.ts, getRange, which copies before it yields.   *)
THEOREM ScansAreOfTheirStart == Spec => []ScansSeeTheirStart
<1>1. Init => ScanInv
  BY DEF Init, ScanInv
<1>2. ScanInv => ScansSeeTheirStart
  <2> SUFFICES ASSUME ScanInv, scan # None
               PROVE  /\ IsPrefix(scan.seen, InOrder(scan.begun))
                      /\ Exhausted => scan.seen = InOrder(scan.begun)
    BY DEF ScansSeeTheirStart
  <2> DEFINE all == InOrder(scan.begun)
             n == Len(scan.seen)
  <2>1. /\ scan.snapshot = all /\ scan.seen \in Seq(Range(all)) /\ n =< Len(all)
        /\ \A i \in 1 .. n : scan.seen[i] = all[i]
    BY DEF ScanInv
  <2>2. all \in Seq(Range(all)) /\ Len(all) \in Nat /\ n \in Nat
    BY <2>1, InOrderIsSequence
  <2> HIDE DEF all, n
  <2>3. SubSeq(scan.seen, 1, n) = SubSeq(all, 1, n)
    BY <2>1, <2>2 DEF n
  <2>4. n >= Len(all) => scan.seen = all
    BY <2>1, <2>2, SeqEqual DEF n
  <2> QED
    BY <2>1, <2>3, <2>4 DEF IsPrefix, Exhausted, Source, all, n
<1> QED
  BY <1>1, <1>2, ScanStep, PTL DEF Spec
=============================================================================
