----------------------------- MODULE KernelProofs -----------------------------
(***************************************************************************)
(* Theorems about Kernel, for every set of keys and values, every bound,    *)
(* and files of any length: first the types of its state, what an open      *)
(* leaves alone and what it holds; then the safety of its data: acknowledged  *)
(* commits survive every kill, power loss and IO failure, damage costs no     *)
(* more of them than it must, and an open database shows what its file holds.  *)
(*                                                                         *)
(* The invariant of the second part is IInv of KernelInv.  Its proof has a    *)
(* lemma for each action that changes the file or the records, about LogInv,   *)
(* and one for each action about the rest.                                   *)
(***************************************************************************)
EXTENDS KernelInv, WalFormatProofs

LEMMA EmptyStoreType == EmptyStore \in Store
BY DEF EmptyStore, Store

LEMMA ApplyOpType ==
  ASSUME NEW store \in Store, NEW op \in Op
  PROVE  ApplyOp(store, op) \in Store
BY DEF ApplyOp, Store, Op

LEMMA FileHeaderType ==
  /\ EncodeFileHeader \in Seq(Cell) /\ Len(EncodeFileHeader) = 2
  /\ EncodeFileHeader[1] = Magic /\ EncodeFileHeader[2] = Version(FORMAT_VERSION)
<1>1. Magic \in Cell /\ Version(FORMAT_VERSION) \in Cell
  BY DEF Magic, Version, FORMAT_VERSION, Cell, DataCell
<1>2. QED
  BY <1>1 DEF EncodeFileHeader

(* A record the loop replays holds operations, and ends further on, inside of  *)
(* the file.                                                               *)
LEMMA ReplayType ==
  ASSUME NEW bytes \in Seq(Cell), NEW offset \in Nat, NEW isLegacy \in BOOLEAN,
         Verdict(bytes, offset, isLegacy) = "replay"
  PROVE  /\ OpsOf(RecordPayload(bytes, offset, isLegacy)) \in Seq(Op)
         /\ RecordEnd(bytes, offset, isLegacy) \in Nat
         /\ RecordEnd(bytes, offset, isLegacy) > offset
         /\ RecordEnd(bytes, offset, isLegacy) =< Len(bytes)
<1> DEFINE start == RecordStart(offset, isLegacy)
           n == ReadU32(bytes, offset + 1)
           pay == RecordPayload(bytes, offset, isLegacy)
<1>1. /\ HeaderPresent(bytes, offset, isLegacy) /\ PayloadPresent(bytes, offset, isLegacy)
      /\ WellFormed(pay)
  BY DEF Verdict
<1>2. RecordHeader(isLegacy) \in {2, 3}
  BY DEF RecordHeader
<1>3. start \in Nat /\ start > offset /\ start =< Len(bytes) /\ offset + 1 \in 1 .. Len(bytes)
  BY <1>1, <1>2 DEF HeaderPresent, RecordStart
<1>4. n \in Nat
  <2>1. bytes[offset + 1] \in Cell
    BY <1>3
  <2>2. bytes[offset + 1].tag = "u32" => bytes[offset + 1].num \in Nat
    BY <2>1 DEF Cell, DataCell, Magic, Junk
  <2>3. QED
    BY <2>2 DEF ReadU32
<1>5. RecordEnd(bytes, offset, isLegacy) = start + n /\ start + n =< Len(bytes)
  BY <1>1 DEF RecordEnd, PayloadPresent
<1>6. pay \in Seq(Cell)
  <2>1. pay = SubSeq(bytes, start + 1, start + n)
    BY <1>5 DEF RecordPayload
  <2> HIDE DEF pay, start, n
  <2>2. QED
    BY <2>1, <1>3, <1>4, <1>5, SliceElements
<1>7. \A i \in DOMAIN pay : pay[i].op \in Op
  <2>1. \A cell \in Cell : cell.tag = "op" => cell.op \in Op
    BY DEF Cell, DataCell, Magic, Junk
  <2>2. QED
    BY <2>1, <1>1, <1>6 DEF WellFormed
<1>8. OpsOf(pay) \in Seq(Op)
  <2> HIDE DEF pay
  <2>1. OpsOf(pay) = [i \in 1 .. Len(pay) |-> pay[i].op] /\ DOMAIN pay = 1 .. Len(pay) /\ Len(pay) \in Nat
    BY <1>6 DEF OpsOf
  <2>2. QED
    BY <1>7, <2>1
<1>9. QED
  BY <1>3, <1>4, <1>5, <1>8

(* The first n elements of a sequence.                                     *)
LEMMA PrefixElements ==
  ASSUME NEW S, NEW s \in Seq(S), NEW n \in Nat, n =< Len(s)
  PROVE  /\ SubSeq(s, 1, n) \in Seq(S)
         /\ Len(SubSeq(s, 1, n)) = n
         /\ \A j \in 1 .. n : SubSeq(s, 1, n)[j] = s[j]
<1>1. 0 \in Nat /\ 0 + n =< Len(s) /\ 0 + 1 = 1 /\ 0 + n = n /\ \A j \in 1 .. n : 0 + j = j
  OBVIOUS
<1>2. /\ SubSeq(s, 0 + 1, 0 + n) \in Seq(S)
      /\ Len(SubSeq(s, 0 + 1, 0 + n)) = n
      /\ \A j \in 1 .. n : SubSeq(s, 0 + 1, 0 + n)[j] = s[0 + j]
  BY <1>1, SliceElements
<1>3. QED
  BY <1>1, <1>2

-----------------------------------------------------------------------------

LEMMA InitTypeInv == Init => TypeInv
<1> SUFFICES ASSUME Init PROVE TypeInv
  OBVIOUS
<1>1. EmptyStore \in Store /\ << >> \in Seq(Op) /\ << >> \in Seq(Cell) /\ << >> \in Seq(Record)
  BY EmptyStoreType
<1>2. /\ file \in [data : Seq(Cell), synced : Seq(Cell), low : Nat]
      /\ recs \in Seq(Record)
      /\ Len(recs) \in Nat
  <2>1. \A cells \in Seq(Cell) : AtRest(cells) \in [data : Seq(Cell), synced : Seq(Cell), low : Nat]
    BY DEF AtRest
  <2>2. CASE origin \in {"new", "foreign"}
    <3>1. recs = << >> /\ \E cells \in Seq(Cell) : file = AtRest(cells)
      BY <2>2, <1>1, ForeignAssumption DEF Init
    <3>2. QED
      BY <3>1, <2>1
  <2>3. CASE origin = "legacy"
    <3>1. PICK ops \in LegacyJournals :
            /\ file = AtRest(EncodeRecord(ops, TRUE))
            /\ recs = <<[ops |-> ops, state |-> ApplyOps(EmptyStore, ops),
                        end |-> Len(EncodeRecord(ops, TRUE))]>>
      BY <2>3 DEF Init
    <3>2. ops \in Seq(Op)
      BY LegacyAssumption
    <3>3. /\ EncodeRecord(ops, TRUE) \in Seq(Cell)
          /\ Len(EncodeRecord(ops, TRUE)) \in Nat
          /\ ApplyOps(EmptyStore, ops) \in Store
      <4>1. \A isLegacy \in BOOLEAN : EncodeRecord(ops, isLegacy) \in Seq(Cell)
        BY <3>2, RecordCells
      <4>2. EncodeRecord(ops, TRUE) \in Seq(Cell)
        BY <4>1, Zenon
      <4>3. Len(EncodeRecord(ops, TRUE)) \in Nat
        BY <4>2, LenProperties, Zenon
      <4>4. QED
        BY <4>2, <4>3, <3>2, <1>1, ApplyOpsType
    <3>4. [ops |-> ops, state |-> ApplyOps(EmptyStore, ops),
           end |-> Len(EncodeRecord(ops, TRUE))] \in Record
      BY <3>2, <3>3 DEF Record
    <3>5. recs \in Seq(Record) /\ Len(recs) \in Nat
      BY <3>1, <3>4
    <3>6. QED
      BY <3>1, <3>3, <3>5, <2>1
  <2>4. QED
    BY <2>2, <2>3, OriginsAssumption DEF Init
<1>3. TypeOK
  BY <1>1, <1>2, OriginsAssumption DEF Init, TypeOK
<1>4. QED
  BY <1>3 DEF TypeInv, Init

(* The variables of an instance that is gone.                              *)
LEMMA NoInstanceType ==
  ASSUME NoInstance
  PROVE  /\ pc' = "down" /\ handle' \in BOOLEAN
         /\ pos' \in Nat /\ entries' \in Store /\ replayed' \in Nat
         /\ legacy' \in BOOLEAN /\ needsHeader' \in BOOLEAN
         /\ committed' \in Store /\ failed' \in BOOLEAN
         /\ working' \in Store /\ journal' \in Seq(Op) /\ out' \in Seq(Cell)
<1>1. << >> \in Seq(Op) /\ << >> \in Seq(Cell)
  OBVIOUS
<1>2. QED
  BY <1>1, EmptyStoreType DEF NoInstance

(* The variables of an instance whose open has just returned.              *)
LEMMA OpenedType ==
  ASSUME TypeOK, NEW store \in Store, NEW isNew \in BOOLEAN, NEW isLegacy \in BOOLEAN,
         Opened(store, isNew, isLegacy)
  PROVE  /\ pc' = "idle" /\ committed' \in Store
         /\ needsHeader' \in BOOLEAN /\ legacy' \in BOOLEAN /\ failed' \in BOOLEAN
         /\ log' \in Seq(Cell) /\ pos' \in Nat /\ entries' \in Store /\ replayed' \in Nat
         /\ UNCHANGED <<refusal, lock, handle, working, journal, out>>
<1>1. << >> \in Seq(Cell)
  OBVIOUS
<1>2. QED
  BY <1>1, EmptyStoreType DEF Opened, lockVars, txVars

LEMMA NextTypeInv == TypeInv /\ [Next]_vars => TypeInv'
<1> SUFFICES ASSUME TypeInv, [Next]_vars PROVE TypeInv'
  OBVIOUS
<1> USE EmptyStoreType DEF TypeInv, TypeOK, recoveryVars, instanceVars, txVars, lockVars,
        historyVars
<1>1. CASE OpenFile
  BY <1>1 DEF OpenFile
<1>26. CASE OpenFails
  <2>1. handle' \in BOOLEAN /\ lock' = "free" /\ refusal' = "IO" /\ pc' = "down"
    BY <1>26 DEF OpenFails
  <2>2. log' = << >> /\ log' \in Seq(Cell)
    BY <1>26 DEF OpenFails
  <2>3. UNCHANGED <<file, pos, entries, replayed, legacy, needsHeader, committed, failed,
                    working, journal, out, origin, recs, acked, lost, rot>>
    BY <1>26 DEF OpenFails
  <2>4. QED
    BY <2>1, <2>2, <2>3
<1>2. CASE ReadLog
  <2>1. CASE Opened(EmptyStore, TRUE, FALSE)
    BY <1>2, <2>1, OpenedType DEF ReadLog
  <2>2. CASE pc' = "replay"
    <3>1. legacy' \in BOOLEAN /\ pos' \in Nat /\ log' = file.data
      BY <1>2, <2>2 DEF ReadLog, Opened, Refuse, NoInstance, FILE_HEADER
    <3>2. UNCHANGED <<file, refusal, lock, handle, entries, replayed, needsHeader,
                      committed, failed, working, journal, out, origin, recs, acked, lost, rot>>
      BY <1>2, <2>2 DEF ReadLog, Opened, Refuse, NoInstance
    <3>3. QED
      BY <2>2, <3>1, <3>2
  <2>3. ASSUME NEW kind \in {"NOT_A_DATABASE", "UNSUPPORTED_VERSION"},
               Refuse(kind), log' = file.data
        PROVE  TypeInv'
    <3>1. UNCHANGED <<file, origin, recs, acked, lost, rot>>
      BY <1>2 DEF ReadLog
    <3>2. NoInstance /\ refusal' = kind /\ lock' = "free"
      BY <2>3 DEF Refuse
    <3>3. QED
      BY <2>3, <3>1, <3>2, NoInstanceType
  <2>4. QED
    BY <1>2, <2>1, <2>2, <2>3 DEF ReadLog
<1>3. CASE ReadShort
  <2>1. log' \in Seq(Cell)
    <3>1. PICK n \in 0 .. Len(file.data) - 1 : log' = SubSeq(file.data, 1, n)
      BY <1>3 DEF ReadShort
    <3>2. n \in Nat /\ n =< Len(file.data) /\ file.data \in Seq(Cell)
      OBVIOUS
    <3>3. QED
      BY <3>1, <3>2, PrefixElements
  <2>2. QED
    BY <2>1, <1>3, NoInstanceType DEF ReadShort, Refuse
<1>4. CASE ReplayRecord
  <2>1. /\ OpsOf(RecordPayload(log, pos, legacy)) \in Seq(Op)
        /\ RecordEnd(log, pos, legacy) \in Nat
    BY <1>4, ReplayType DEF ReplayRecord
  <2>2. entries' \in Store
    BY <1>4, <2>1, ApplyOpsType DEF ReplayRecord
  <2>3. QED
    BY <1>4, <2>1, <2>2 DEF ReplayRecord
<1>5. CASE ReplayCorrupt
  BY <1>5, NoInstanceType DEF ReplayCorrupt, Refuse
<1>6. CASE ReplayEnd
  <2>1. CASE pos < Len(log)
    BY <1>6, <2>1 DEF ReplayEnd
  <2>2. CASE ~(pos < Len(log))
    BY <1>6, <2>2, OpenedType DEF ReplayEnd
  <2>3. QED
    BY <2>1, <2>2
<1>7. CASE Truncate
  <2>1. file' \in [data : Seq(Cell), synced : Seq(Cell), low : Nat]
    <3>1. SubSeq(file.data, 1, pos) \in Seq(Cell)
      BY <1>7, PrefixElements DEF Truncate
    <3>2. QED
      BY <1>7, <3>1 DEF Truncate, Truncated
  <2>2. recs' \in Seq(Record)
    <3>1. CASE replayed < Len(recs)
      BY <1>7, <3>1, PrefixElements DEF Truncate
    <3>2. CASE ~(replayed < Len(recs))
      BY <1>7, <3>2 DEF Truncate
    <3>3. QED
      BY <3>1, <3>2
  <2>3. acked' \in Nat /\ lost' \in Nat
    BY <1>7 DEF Truncate
  <2>4. QED
    BY <1>7, <2>1, <2>2, <2>3 DEF Truncate
<1>8. CASE SyncTruncation
  BY <1>8 DEF SyncTruncation, Fsynced, AtRest
<1>9. CASE Notify
  BY <1>9, OpenedType DEF Notify
<1>10. CASE RecoveryThrows
  BY <1>10, NoInstanceType DEF RecoveryThrows, Refuse
<1>11. CASE Begin
  BY <1>11 DEF Begin
<1>12. ASSUME NEW op \in Op, Mutate(op) PROVE TypeInv'
  <2>1. working' \in Store
    BY <1>12, ApplyOpType DEF Mutate
  <2>2. QED
    BY <1>12, <2>1 DEF Mutate
<1>13. CASE Abort
  BY <1>13 DEF Abort, EndTransaction
<1>14. CASE CommitEmpty
  BY <1>14 DEF CommitEmpty, EndTransaction
<1>15. CASE StartAppend
  <2> DEFINE rec == EncodeRecord(journal, legacy)
             hdr == IF needsHeader THEN EncodeFileHeader ELSE << >>
  <2>1. rec \in Seq(Cell) /\ Len(rec) > 0
    <3>1. rec \in Seq(Cell) /\ Len(rec) = RecordSize(journal, legacy)
      BY RecordCells
    <3>2. RecordSize(journal, legacy) > 0
      BY DEF RecordSize, RecordHeader
    <3>3. QED
      BY <3>1, <3>2
  <2>2. hdr \in Seq(Cell)
    BY FileHeaderType
  <2>3. out' = hdr \o rec
    BY <1>15 DEF StartAppend
  <2> HIDE DEF rec, hdr
  <2>4. hdr \o rec \in Seq(Cell) /\ Len(hdr \o rec) = Len(hdr) + Len(rec)
    BY <2>1, <2>2, ConcatElements
  <2>5. out' \in Seq(Cell) /\ out' # << >>
    BY <2>1, <2>2, <2>3, <2>4
  <2>6. QED
    BY <1>15, <2>5 DEF StartAppend
<1>16. CASE WriteCell
  <2>1. Head(out) \in Cell /\ Tail(out) \in Seq(Cell) /\ (Len(out) # 1 => Tail(out) # << >>)
    <3>1. out \in Seq(Cell) /\ out # << >>
      BY <1>16 DEF WriteCell
    <3>2. Head(out) \in Cell /\ Tail(out) \in Seq(Cell) /\ Len(Tail(out)) = Len(out) - 1
      BY <3>1, HeadTailProperties
    <3>3. Len(out) # 1 => Len(Tail(out)) # 0
      BY <3>1, <3>2
    <3>4. Len(<< >>) = 0
      OBVIOUS
    <3>5. QED
      BY <3>2, <3>3, <3>4, Zenon
  <2>2. file.data \o <<Head(out)>> \in Seq(Cell)
    BY <2>1
  <2>3. file' \in [data : Seq(Cell), synced : Seq(Cell), low : Nat]
    BY <1>16, <2>2 DEF WriteCell, Appended
  <2>4. recs' \in Seq(Record)
    <3>1. [ops |-> journal, state |-> working, end |-> Len(file.data) + 1] \in Record
      BY DEF Record
    <3>2. Append(recs, [ops |-> journal, state |-> working, end |-> Len(file.data) + 1]) \in Seq(Record)
      BY <3>1
    <3>3. CASE Len(out) = 1
      BY <1>16, <3>2, <3>3 DEF WriteCell
    <3>4. CASE Len(out) # 1
      BY <1>16, <3>4 DEF WriteCell
    <3>5. QED
      BY <3>3, <3>4
  <2>5. CASE Len(out) = 1
    BY <1>16, <2>1, <2>3, <2>4, <2>5 DEF WriteCell
  <2>6. CASE Len(out) # 1
    BY <1>16, <2>1, <2>3, <2>4, <2>6 DEF WriteCell
  <2>7. QED
    BY <2>5, <2>6
<1>17. CASE FsyncCommit
  BY <1>17 DEF FsyncCommit, Fsynced, AtRest
<1>18. CASE CommitFails
  BY <1>18 DEF CommitFails, EndTransaction
<1>19. CASE Install
  BY <1>19 DEF Install, EndTransaction
<1>20. CASE Close
  BY <1>20, NoInstanceType DEF Close
<1>21. CASE Kill
  BY <1>21, NoInstanceType DEF Kill
<1>22. CASE PowerLoss
  <2>1. file' \in [data : Seq(Cell), synced : Seq(Cell), low : Nat]
    <3>1. ASSUME NEW n \in file.low .. Len(file.data), file' = TornAt(file, n)
          PROVE  file' \in [data : Seq(Cell), synced : Seq(Cell), low : Nat]
      <4>1. SubSeq(file.data, 1, n) \in Seq(Cell)
        BY PrefixElements
      <4>2. QED
        BY <3>1, <4>1 DEF TornAt, AtRest
    <3>2. ASSUME NEW n \in file.low .. Len(file.synced), file' = RevertedTo(file, n)
          PROVE  file' \in [data : Seq(Cell), synced : Seq(Cell), low : Nat]
      <4>1. SubSeq(file.synced, 1, n) \in Seq(Cell)
        BY PrefixElements
      <4>2. QED
        BY <3>2, <4>1 DEF RevertedTo, AtRest
    <3>3. QED
      BY <1>22, <3>1, <3>2 DEF PowerLoss
  <2>2. recs' \in Seq(Record)
    <3>1. PICK k \in 0 .. Len(recs) : recs' = SubSeq(recs, 1, k)
      BY <1>22 DEF PowerLoss, RecordsUpTo
    <3>2. QED
      BY <3>1, PrefixElements
  <2>3. QED
    BY <1>22, <2>1, <2>2, NoInstanceType DEF PowerLoss
<1>23. CASE BitRot
  <2>1. file' \in [data : Seq(Cell), synced : Seq(Cell), low : Nat]
    <3>1. PICK i \in 1 .. file.low,
               cell \in {Junk} \cup {U32(n) : n \in 0 .. MaxLength} : file' = Rotted(file, i, cell)
      BY <1>23 DEF BitRot
    <3>2. cell \in Cell
      BY DEF Cell, DataCell, U32
    <3>3. ASSUME NEW cells \in Seq(Cell)
          PROVE  [cells EXCEPT ![i] = cell] \in Seq(Cell)
      <4> DEFINE n == Len(cells)
      <4>1. n \in Nat /\ cells \in [1 .. n -> Cell]
        OBVIOUS
      <4>2. [cells EXCEPT ![i] = cell] \in [1 .. n -> Cell]
        BY <4>1, <3>2
      <4> HIDE DEF n
      <4>3. \A g \in [1 .. n -> Cell] : g \in Seq(Cell)
        BY <4>1
      <4>4. QED
        BY <4>2, <4>3
    <3>4. QED
      BY <3>1, <3>3 DEF Rotted
  <2>2. QED
    BY <1>23, <2>1 DEF BitRot
<1>24. CASE UNCHANGED vars
  BY <1>24 DEF vars
<1>25. QED
  BY <1>1, <1>26, <1>2, <1>3, <1>4, <1>5, <1>6, <1>7, <1>8, <1>9, <1>10, <1>11, <1>12, <1>13, <1>14,
     <1>15, <1>16, <1>17, <1>18, <1>19, <1>20, <1>21, <1>22, <1>23, <1>24
     DEF Next, Recovering, Committing, Faults

(* Every variable keeps to its type, whatever fails and however often the    *)
(* database is reopened.                                                   *)
THEOREM TypeCorrect == Spec => []TypeOK
<1>1. TypeInv => TypeOK
  BY DEF TypeInv
<1>2. QED
  BY <1>1, InitTypeInv, NextTypeInv, PTL DEF Spec

(* Nothing but the body changes the snapshot, and that with the journal.      *)
LEMMA JournalStep == TypeInv /\ JournalRedoesWorking /\ [Next]_vars => JournalRedoesWorking'
<1> SUFFICES ASSUME TypeInv, JournalRedoesWorking, [Next]_vars,
                    pc' \in {"body", "write", "fsync", "install"}
             PROVE  working' = ApplyOps(committed', journal')
  BY DEF JournalRedoesWorking
<1>1. CASE Begin
  <2>1. committed \in Store
    BY DEF TypeInv, TypeOK
  <2>2. QED
    BY <1>1, <2>1, ApplyNoOps DEF Begin, instanceVars
<1>2. ASSUME NEW op \in Op, Mutate(op) PROVE working' = ApplyOps(committed', journal')
  <2>1. committed \in Store /\ journal \in Seq(Op)
    BY DEF TypeInv, TypeOK
  <2>2. working = ApplyOps(committed, journal)
    BY <1>2 DEF Mutate, JournalRedoesWorking
  <2>3. ApplyOps(committed, Append(journal, op)) = ApplyOp(working, op)
    BY <2>1, <2>2, ApplyOpsAppend
  <2>4. QED
    BY <1>2, <2>3 DEF Mutate, instanceVars
<1>3. CASE StartAppend
  BY <1>3 DEF StartAppend, JournalRedoesWorking, instanceVars
<1>4. CASE WriteCell
  BY <1>4 DEF WriteCell, JournalRedoesWorking
<1>5. CASE FsyncCommit
  BY <1>5 DEF FsyncCommit, JournalRedoesWorking, instanceVars, txVars
<1>6. CASE UNCHANGED vars
  BY <1>6 DEF vars, JournalRedoesWorking, instanceVars, txVars
<1>7. QED
  BY <1>1, <1>2, <1>3, <1>4, <1>5, <1>6
     DEF Next, Recovering, Committing, Faults, OpenFile, OpenFails, ReadLog, ReadShort, ReplayRecord,
         ReplayCorrupt, ReplayEnd, Truncate, SyncTruncation, Notify, RecoveryThrows, Abort,
         CommitEmpty, CommitFails, Install, Close, Kill, PowerLoss, BitRot, EndTransaction,
         NoInstance, Refuse, Opened

(* The journal replays to the snapshot, whatever the transaction wrote.     *)
THEOREM JournalIsRedo == Spec => []JournalRedoesWorking
<1>1. Init => JournalRedoesWorking
  BY DEF Init, JournalRedoesWorking
<1>2. QED
  BY <1>1, JournalStep, InitTypeInv, NextTypeInv, PTL DEF Spec

-----------------------------------------------------------------------------
(* What becomes of an open that is refused, for any file.                   *)

(* Nothing is refused while an instance is there, and the bytes a refusal    *)
(* was about are those of the file.                                        *)
RefusedInv == (pc # "down" => refusal = "none") /\ RefusedUntouched

LEMMA InstanceOrRefusal ==
  TypeInv /\ RefusedInv /\ [Next]_vars => RefusedInv'
<1> SUFFICES ASSUME TypeInv, RefusedInv, [Next]_vars PROVE RefusedInv'
  OBVIOUS
<1> USE DEF RefusedInv, RefusedUntouched, lockVars, recoveryVars, instanceVars, txVars
<1>1. CASE OpenFile \/ OpenFails
  BY <1>1 DEF OpenFile, OpenFails
<1>2. CASE ReadLog
  <2>1. file' = file /\ refusal = "none"
    BY <1>2 DEF ReadLog
  <2>2. CASE pc' = "down"
    <3>1. log' = file.data
      BY <1>2, <2>2 DEF ReadLog, Opened
    <3>2. QED
      BY <2>1, <2>2, <3>1
  <2>3. CASE pc' # "down"
    <3>1. refusal' = refusal
      BY <1>2, <2>3 DEF ReadLog, Opened, Refuse, NoInstance
    <3>2. QED
      BY <2>1, <2>3, <3>1
  <2>4. QED
    BY <2>2, <2>3
<1>3. CASE ReadShort
  BY <1>3 DEF ReadShort, Refuse, NoInstance
<1>4. CASE ReplayCorrupt
  <2>1. log = file.data
    BY <1>4 DEF ReplayCorrupt, TypeInv
  <2>2. QED
    BY <1>4, <2>1 DEF ReplayCorrupt, Refuse, NoInstance
<1>5. CASE RecoveryThrows
  BY <1>5 DEF RecoveryThrows, Refuse, NoInstance
<1>6. CASE Close \/ Kill \/ PowerLoss \/ BitRot
  BY <1>6 DEF Close, Kill, PowerLoss, BitRot, NoInstance
<1>7. CASE ReplayRecord \/ ReplayEnd \/ Truncate \/ SyncTruncation \/ Notify
  BY <1>7 DEF ReplayRecord, ReplayEnd, Truncate, SyncTruncation, Notify, Opened
<1>8. CASE Begin \/ (\E op \in Op : Mutate(op)) \/ Abort \/ CommitEmpty \/ StartAppend
  BY <1>8 DEF Begin, Mutate, Abort, CommitEmpty, StartAppend, EndTransaction
<1>9. CASE WriteCell
  <2>1. refusal' = refusal /\ pc' # "down"
    BY <1>9 DEF WriteCell
  <2>2. QED
    BY <1>9, <2>1 DEF WriteCell
<1>10. CASE FsyncCommit \/ Install \/ CommitFails
  BY <1>10 DEF FsyncCommit, Install, CommitFails, EndTransaction
<1>11. CASE UNCHANGED vars
  BY <1>11 DEF vars
<1>12. QED
  BY <1>1, <1>2, <1>3, <1>4, <1>5, <1>6, <1>7, <1>8, <1>9, <1>10, <1>11
     DEF Next, Recovering, Committing, Faults

(* A file that open() refuses for what it holds, ours or not, damaged or not, *)
(* is left as it was read.                                                 *)
THEOREM RefusedFilesAreUntouched == Spec => []RefusedUntouched
<1>1. Init => RefusedInv
  BY DEF Init, RefusedInv, RefusedUntouched
<1>2. RefusedInv => RefusedUntouched
  BY DEF RefusedInv
<1>3. QED
  BY <1>1, <1>2, InitTypeInv, NextTypeInv, InstanceOrRefusal, PTL DEF Spec

(* The durable part of the file is a part of it.                           *)
LowInv == file.low =< Len(file.data)

LEMMA LowStep == TypeInv /\ LowInv /\ [Next]_vars => LowInv'
<1> SUFFICES ASSUME TypeInv, LowInv, [Next]_vars PROVE LowInv'
  OBVIOUS
<1>0. file \in [data : Seq(Cell), synced : Seq(Cell), low : Nat]
  BY DEF TypeInv, TypeOK
<1>1. CASE file' = file
  BY <1>1 DEF LowInv
<1>2. CASE Truncate
  <2>1. log = file.data /\ pos \in Nat /\ pos < Len(log)
    BY <1>2 DEF TypeInv, TypeOK, Truncate
  <2>2. Len(SubSeq(file.data, 1, pos)) = pos
    BY <1>0, <2>1
  <2>3. QED
    BY <1>0, <1>2, <2>1, <2>2 DEF Truncate, Truncated, LowInv
<1>3. CASE SyncTruncation \/ FsyncCommit
  BY <1>0, <1>3 DEF SyncTruncation, FsyncCommit, Fsynced, AtRest, LowInv
<1>4. CASE WriteCell
  BY <1>0, <1>4 DEF WriteCell, Appended, LowInv
<1>5. CASE PowerLoss
  <2>1. \E cells : file' = AtRest(cells)
    BY <1>5 DEF PowerLoss, TornAt, RevertedTo
  <2>2. file' \in [data : Seq(Cell), synced : Seq(Cell), low : Nat]
    BY NextTypeInv DEF TypeInv, TypeOK
  <2>3. QED
    BY <2>1, <2>2 DEF AtRest, LowInv
<1>6. CASE BitRot
  BY <1>0, <1>6 DEF BitRot, Rotted, LowInv
<1>7. QED
  BY <1>1, <1>2, <1>3, <1>4, <1>5, <1>6
     DEF vars, Next, Recovering, Committing, Faults, OpenFile, OpenFails, ReadLog, ReadShort,
         ReplayRecord, ReplayCorrupt, ReplayEnd, Notify, RecoveryThrows, Begin, Mutate, Abort,
         CommitEmpty, StartAppend, CommitFails, Install, Close, Kill

LEMMA LeakStart == Init => NoLeak /\ LowInv
<1> SUFFICES ASSUME Init PROVE NoLeak /\ LowInv
  OBVIOUS
<1>1. file \in [data : Seq(Cell), synced : Seq(Cell), low : Nat]
  BY InitTypeInv DEF TypeInv, TypeOK
<1>2. \E cells : file = AtRest(cells)
  BY DEF Init
<1>3. QED
  BY <1>1, <1>2 DEF Init, NoLeak, LowInv, AtRest

LEMMA LeakStep == TypeInv /\ LowInv /\ NoLeak /\ [Next]_vars => NoLeak'
<1> SUFFICES ASSUME TypeInv, LowInv, NoLeak, [Next]_vars, pc' = "down" PROVE NoLeak'
  BY DEF NoLeak
<1>1. ASSUME NEW code, Refuse(code) PROVE NoLeak'
  BY <1>1 DEF Refuse, NoInstance, NoLeak
<1>2. CASE ReadLog \/ ReadShort \/ ReplayCorrupt \/ RecoveryThrows
  BY <1>1, <1>2 DEF ReadLog, ReadShort, ReplayCorrupt, RecoveryThrows, Opened
<1>3. CASE Close \/ Kill \/ PowerLoss
  BY <1>3 DEF Close, Kill, PowerLoss, NoInstance, NoLeak
<1>4. CASE OpenFails \/ UNCHANGED vars
  BY <1>4 DEF OpenFails, vars, lockVars, NoLeak
<1>5. CASE BitRot
  BY <1>5 DEF BitRot, lockVars, NoLeak, LowInv, TypeInv, TypeOK
<1>6. QED
  BY <1>2, <1>3, <1>4, <1>5
     DEF Next, Recovering, Committing, Faults, OpenFile, ReplayRecord, ReplayEnd, Truncate,
         SyncTruncation, Notify, Begin, Mutate, Abort, CommitEmpty, StartAppend, WriteCell,
         FsyncCommit, CommitFails, Install, EndTransaction, Opened

(* However an open fails or an instance ends, the lock is not held any more,   *)
(* and the descriptor is closed unless fs.open() itself failed, at the fsync    *)
(* of the directory in which it had just made the file.                      *)
THEOREM NothingLeaks == Spec => []NoLeak
BY LeakStart, InitTypeInv, NextTypeInv, LowStep, LeakStep, PTL DEF Spec

-----------------------------------------------------------------------------
(* The safety of the data.                                                  *)

Journals == Seq(Op)

(* Two files that agree on the first n cells hold the same record, if it     *)
(* ends within them or the second file does.                               *)
LEMMA HoldsAgree ==
  ASSUME NEW a \in Seq(Cell), NEW b \in Seq(Cell), NEW n \in Nat, NEW offset \in Nat,
         NEW ops \in Seq(Op), NEW isLegacy \in BOOLEAN,
         n =< Len(a), \A j \in 1 .. n : a[j] = b[j],
         offset + RecordSize(ops, isLegacy) =< n \/ Len(b) =< n,
         HoldsRecord(a, offset, ops, isLegacy)
  PROVE  HoldsRecord(b, offset, ops, isLegacy)
<1> DEFINE size == RecordSize(ops, isLegacy)
<1>1. size \in Nat
  BY DEF RecordSize, RecordHeader
<1>2. SUFFICES ASSUME NEW j \in 1 .. size, offset + j =< Len(b)
               PROVE  b[offset + j] = EncodeRecord(ops, isLegacy)[j]
  BY DEF HoldsRecord
<1>3. offset + j \in 1 .. n /\ offset + j =< Len(a)
  BY <1>1, <1>2
<1>4. a[offset + j] = EncodeRecord(ops, isLegacy)[j]
  BY <1>2, <1>3 DEF HoldsRecord
<1>5. QED
  BY <1>3, <1>4

(* The same, up to damage.                                                 *)
LEMMA KeepsAgree ==
  ASSUME NEW a \in Seq(Cell), NEW b \in Seq(Cell), NEW n \in Nat, NEW offset \in Nat,
         NEW ops \in Seq(Op), NEW isLegacy \in BOOLEAN, NEW worn,
         n =< Len(a), \A j \in 1 .. n : a[j] = b[j],
         offset + RecordSize(ops, isLegacy) =< n \/ Len(b) =< n,
         KeepsRecord(a, offset, ops, isLegacy, worn)
  PROVE  KeepsRecord(b, offset, ops, isLegacy, worn)
<1> DEFINE size == RecordSize(ops, isLegacy)
<1>1. size \in Nat
  BY DEF RecordSize, RecordHeader
<1>2. SUFFICES ASSUME NEW j \in 1 .. size, offset + j =< Len(b)
               PROVE  Kept(b[offset + j], EncodeRecord(ops, isLegacy)[j], worn)
  BY DEF KeepsRecord
<1>3. offset + j \in 1 .. n /\ offset + j =< Len(a)
  BY <1>1, <1>2
<1>4. Kept(a[offset + j], EncodeRecord(ops, isLegacy)[j], worn)
  BY <1>2, <1>3 DEF KeepsRecord
<1>5. QED
  BY <1>3, <1>4

(* What is written is kept, and without damage what is kept is held.         *)
LEMMA HeldIsKept ==
  ASSUME NEW cells, NEW offset, NEW ops, NEW isLegacy, NEW worn,
         HoldsRecord(cells, offset, ops, isLegacy)
  PROVE  KeepsRecord(cells, offset, ops, isLegacy, worn)
BY DEF HoldsRecord, KeepsRecord, Kept

LEMMA UnwornIsHeld ==
  ASSUME NEW cells, NEW offset, NEW ops, NEW isLegacy, NEW worn, ~worn,
         KeepsRecord(cells, offset, ops, isLegacy, worn)
  PROVE  HoldsRecord(cells, offset, ops, isLegacy)
BY DEF HoldsRecord, KeepsRecord, Kept

(* So does a torn one.                                                     *)
LEMMA TornAgree ==
  ASSUME NEW a \in Seq(Cell), NEW b \in Seq(Cell), NEW offset \in Nat,
         Len(b) =< Len(a), \A j \in 1 .. Len(b) : a[j] = b[j],
         Torn(Journals, a, offset)
  PROVE  Torn(Journals, b, offset)
<1>1. SUFFICES ASSUME Len(b) > offset
               PROVE  \E ops \in Journals :
                        /\ KeepsRecord(b, offset, ops, IsLegacy, IsWorn)
                        /\ \/ Len(b) < offset + RecordSize(ops, IsLegacy)
                           \/ Broken(b, offset, ops)
  BY DEF Torn
<1>2. PICK ops \in Journals : /\ KeepsRecord(a, offset, ops, IsLegacy, IsWorn)
                              /\ \/ Len(a) < offset + RecordSize(ops, IsLegacy)
                                 \/ Broken(a, offset, ops)
  BY <1>1 DEF Torn
<1>3. Len(a) \in Nat /\ Len(b) \in Nat /\ IsLegacy \in BOOLEAN /\ IsWorn \in BOOLEAN
      /\ ops \in Seq(Op)
  BY DEF Journals, IsLegacy, IsWorn
<1>4. KeepsRecord(b, offset, ops, IsLegacy, IsWorn)
  BY <1>2, <1>3, KeepsAgree
<1>5. RecordSize(ops, IsLegacy) \in Nat
  BY <1>3 DEF RecordSize, RecordHeader
<1>6. CASE Len(a) < offset + RecordSize(ops, IsLegacy)
  BY <1>3, <1>4, <1>5, <1>6
<1>7. CASE Broken(a, offset, ops)
  <2>1. PICK j \in 3 .. RecordSize(ops, IsLegacy) : offset + j =< Len(a) /\ a[offset + j] = Junk
    BY <1>7 DEF Broken
  <2>2. CASE offset + j =< Len(b)
    <3>1. b[offset + j] = Junk
      BY <1>3, <1>5, <2>1, <2>2
    <3>2. Broken(b, offset, ops)
      BY <1>7, <2>2, <3>1 DEF Broken
    <3>3. QED
      BY <1>4, <3>2
  <2>3. CASE Len(b) < offset + j
    BY <1>3, <1>4, <1>5, <2>1, <2>3
  <2>4. QED
    BY <1>3, <2>2, <2>3
<1>8. QED
  BY <1>2, <1>6, <1>7

(* No cell of a record is written as junk.                                  *)
LEMMA NeverJunk ==
  ASSUME NEW ops \in Seq(Op), NEW isLegacy \in BOOLEAN, NEW j \in 1 .. RecordSize(ops, isLegacy)
  PROVE  EncodeRecord(ops, isLegacy)[j] # Junk
<1> DEFINE rec == EncodeRecord(ops, isLegacy)
           h == RecordHeader(isLegacy)
<1>1. /\ rec[1] = U32(Len(ops)) /\ (~isLegacy => rec[2] = Sum(<<U32(Len(ops))>>))
      /\ rec[h] = Sum(Payload(ops)) /\ \A i \in 1 .. Len(ops) : rec[h + i] = OpCell(ops[i])
      /\ Len(ops) \in Nat
  BY RecordCells
<1>2. \A cells : Sum(cells) # Junk
  BY DEF Sum, Junk, U32
<1>3. h = IF isLegacy THEN 2 ELSE 3
  BY DEF RecordHeader
<1>4. j \in 1 .. h + Len(ops)
  BY DEF RecordSize
<1>5. \A n, op : U32(n) # Junk /\ OpCell(op) # Junk
  BY DEF U32, OpCell, Junk
<1> HIDE DEF rec, h
<1>6. CASE j =< h
  <2>1. j = 1 \/ j = h \/ (j = 2 /\ ~isLegacy)
    BY <1>3, <1>4, <1>6
  <2>2. QED
    BY <1>1, <1>2, <1>5, <2>1 DEF rec
<1>7. CASE j > h
  <2>1. PICK i \in 1 .. Len(ops) : j = h + i
    <3>1. j - h \in 1 .. Len(ops) /\ j = h + (j - h)
      BY <1>1, <1>3, <1>4, <1>7
    <3>2. QED
      BY <3>1
  <2>2. QED
    BY <1>1, <1>5, <2>1 DEF rec
<1>8. QED
  BY <1>3, <1>4, <1>6, <1>7

LEMMA RecordSizeType ==
  ASSUME NEW ops \in Seq(Op), NEW isLegacy \in BOOLEAN
  PROVE  RecordSize(ops, isLegacy) \in Nat /\ RecordSize(ops, isLegacy) > 1
BY DEF RecordSize, RecordHeader

LEMMA RecordType ==
  ASSUME TypeOK, NEW i \in 1 .. Len(recs)
  PROVE  recs[i].ops \in Seq(Op) /\ recs[i].state \in Store /\ recs[i].end \in Nat
<1>1. recs[i] \in Record
  BY DEF TypeOK
<1>2. QED
  BY <1>1 DEF Record

LEMMA FileType ==
  ASSUME TypeOK
  PROVE  /\ file.data \in Seq(Cell) /\ file.synced \in Seq(Cell) /\ file.low \in Nat
         /\ Len(file.data) \in Nat /\ Len(file.synced) \in Nat
BY DEF TypeOK

(* The offsets records end at.                                             *)
LEMMA EndOfType ==
  ASSUME TypeOK
  PROVE  /\ Base \in Nat /\ Len(recs) \in Nat
         /\ \A n \in 0 .. Len(recs) : EndOf(n) \in Nat
         /\ LogEnd \in Nat
<1>1. Base \in Nat
  BY DEF Base, FILE_HEADER
<1>2. \A n \in 1 .. Len(recs) : recs[n].end \in Nat
  BY RecordType
<1>3. QED
  BY <1>1, <1>2 DEF EndOf, LogEnd, TypeOK

(* The records up to the k-th, and what LogInv says of them, in a file that  *)
(* agrees with this one up to the end of the k-th record.                  *)
LEMMA RecordsPrefix ==
  ASSUME TypeOK, RecordsInv, NEW k \in 0 .. Len(recs), origin' = origin,
         rot' = rot, recs' = SubSeq(recs, 1, k), file'.data \in Seq(Cell),
         k > 0 => /\ EndOf(k) =< Len(file'.data)
                  /\ \A j \in 1 .. EndOf(k) : file'.data[j] = file.data[j]
  PROVE  /\ RecordsInv'
         /\ Len(recs') = k /\ LogEnd' = EndOf(k)
         /\ \A i \in 0 .. k : EndOf(i)' = EndOf(i) /\ StateAt(i)' = StateAt(i)
         /\ \A i \in 1 .. k : Intact(i) => Intact(i)'
<1>1. Len(recs') = k /\ \A i \in 1 .. k : recs'[i] = recs[i]
  BY PrefixElements DEF TypeOK
<1>2. \A i \in 0 .. k : EndOf(i)' = EndOf(i) /\ StateAt(i)' = StateAt(i)
  BY <1>1 DEF EndOf, StateAt, Base
<1>3. LogEnd' = EndOf(k)
  BY <1>1, <1>2 DEF LogEnd
<1>4. \A i, j \in 0 .. k : i < j => EndOf(i)' < EndOf(j)'
  BY <1>2 DEF RecordsInv
<1>5. ASSUME NEW i \in 1 .. k PROVE RecordInv(i)' /\ (Intact(i) => Intact(i)')
  <2>1. RecordInv(i) /\ i \in 1 .. Len(recs) /\ i - 1 \in 0 .. k /\ i \in 0 .. k /\ i # 0 /\ k > 0
    BY <1>5 DEF RecordsInv, TypeOK
  <2>2. recs'[i] = recs[i] /\ StateAt(i - 1)' = StateAt(i - 1) /\ EndOf(i - 1)' = EndOf(i - 1)
    BY <2>1, <1>1, <1>2
  <2>3. EndOf(i) = recs[i].end
    BY <2>1 DEF EndOf
  <2>4. EndOf(k) \in Nat /\ EndOf(i) \in Nat /\ EndOf(i - 1) \in Nat
    BY <2>1, EndOfType
  <2>5. EndOf(i) =< EndOf(k)
    BY <2>1, <2>4 DEF RecordsInv
  <2>6. IsLegacy' = IsLegacy /\ IsLegacy \in BOOLEAN /\ IsWorn' = IsWorn /\ IsWorn \in BOOLEAN
    BY DEF IsLegacy, IsWorn
  <2>7. recs[i].ops \in Seq(Op)
    BY <2>1, RecordType
  <2>8. EndOf(i) =< Len(file'.data) /\ Len(file'.data) \in Nat
    BY <2>1, <2>4, <2>5
  <2>9. /\ KeepsRecord(file'.data, EndOf(i - 1), recs[i].ops, IsLegacy, IsWorn)
        /\ Intact(i) => HoldsRecord(file'.data, EndOf(i - 1), recs[i].ops, IsLegacy)
    <3>1. \A j \in 1 .. EndOf(i) : file.data[j] = file'.data[j]
      BY <2>4, <2>5, <2>8
    <3>2. /\ EndOf(i - 1) + RecordSize(recs[i].ops, IsLegacy) = EndOf(i)
          /\ KeepsRecord(file.data, EndOf(i - 1), recs[i].ops, IsLegacy, IsWorn)
          /\ Intact(i) => HoldsRecord(file.data, EndOf(i - 1), recs[i].ops, IsLegacy)
          /\ EndOf(i) =< Len(file.data)
      BY <2>1, <2>3 DEF RecordInv, Intact
    <3>3. EndOf(i - 1) + RecordSize(recs[i].ops, IsLegacy) =< EndOf(i)
      BY <2>4, <3>2
    <3> DEFINE n == EndOf(i)
               offset == EndOf(i - 1)
               ops == recs[i].ops
    <3>4. /\ n \in Nat /\ offset \in Nat /\ ops \in Seq(Op) /\ file.data \in Seq(Cell)
          /\ \A j \in 1 .. n : file.data[j] = file'.data[j]
          /\ n =< Len(file.data) /\ offset + RecordSize(ops, IsLegacy) =< n
          /\ KeepsRecord(file.data, offset, ops, IsLegacy, IsWorn)
          /\ Intact(i) => HoldsRecord(file.data, offset, ops, IsLegacy)
      BY <2>4, <2>7, <3>1, <3>2, <3>3, FileType
    <3> HIDE DEF n, offset, ops
    <3>5. KeepsRecord(file'.data, offset, ops, IsLegacy, IsWorn)
      BY <2>6, <3>4, KeepsAgree
    <3>6. Intact(i) => HoldsRecord(file'.data, offset, ops, IsLegacy)
      BY <2>6, <3>4, HoldsAgree
    <3>7. QED
      BY <3>5, <3>6 DEF offset, ops
  <2>10. recs[i].end =< Len(file'.data)
    BY <2>3, <2>8
  <2>11. QED
    BY <2>1, <2>2, <2>6, <2>9, <2>10 DEF RecordInv, Intact
<1>6. RecordsInv'
  BY <1>1, <1>4, <1>5 DEF RecordsInv
<1>7. QED
  BY <1>1, <1>2, <1>3, <1>5, <1>6

-----------------------------------------------------------------------------
(* LogInv, action by action.                                               *)

(* fsync makes all of the file durable.                                    *)
LEMMA LogFsynced ==
  ASSUME TypeOK, LogInv(Journals), file' = Fsynced(file),
         UNCHANGED <<recs, acked, lost, origin, rot>>
  PROVE  LogInv(Journals)'
<1> DEFINE data == file.data
<1>1. file'.data = data /\ file'.synced = data /\ file'.low = Len(data)
      /\ data \in Seq(Cell) /\ Len(data) \in Nat /\ acked \in Nat
  BY DEF Fsynced, AtRest, TypeOK
<1>2. RecordsInv'
  BY <1>1 DEF LogInv, RecordsInv, RecordInv, EndOf, StateAt, Base, IsLegacy, IsWorn
<1>3. HasHeader(file'.data)
  BY <1>1 DEF LogInv
<1>4. DurableInv'
  <2>1. acked > 0 => recs[acked].end =< Len(data)
    <3>1. acked > 0 => recs[acked].end \in Nat /\ file.low \in Nat
      BY <1>1, RecordType, FileType DEF LogInv, DurableInv, TypeOK
    <3>2. QED
      BY <1>1, <3>1 DEF LogInv, DurableInv
  <2>2. QED
    BY <1>1, <2>1 DEF LogInv, DurableInv, IsLegacy
<1>5. TailInv(Journals)'
  BY <1>1 DEF LogInv, TailInv, Torn, Broken, LogEnd, EndOf, Base, IsLegacy, IsWorn
<1>6. QED
  BY <1>2, <1>3, <1>4, <1>5 DEF LogInv, HasHeader, IsLegacy, IsWorn

(* Nothing LogInv speaks of changes.                                       *)
LEMMA LogUnchanged ==
  ASSUME LogInv(Journals), UNCHANGED <<file, recs, acked, lost, origin, rot>>
  PROVE  LogInv(Journals)'
BY DEF LogInv, RecordsInv, RecordInv, HasHeader, DurableInv, TailInv, Torn, Broken, LogEnd, EndOf,
       StateAt, Base, IsLegacy, IsWorn

(* The end of the records only grows from record to record.                *)
LEMMA EndsMonotone ==
  ASSUME TypeOK, RecordsInv, NEW i \in 0 .. Len(recs), NEW j \in 0 .. Len(recs), i =< j
  PROVE  EndOf(i) \in Nat /\ EndOf(j) \in Nat /\ EndOf(i) =< EndOf(j)
<1>1. EndOf(i) \in Nat /\ EndOf(j) \in Nat /\ Len(recs) \in Nat
  BY EndOfType
<1>2. i = j \/ EndOf(i) < EndOf(j)
  BY <1>1 DEF RecordsInv
<1>3. QED
  BY <1>1, <1>2

(* Recovery cuts off what follows the records it replayed: the complete ones, *)
(* but for the last one if that is broken.                                  *)
LEMMA LogTruncated ==
  ASSUME TypeInv, Known, LogInv(Journals), RecoveryInv, Truncate
  PROVE  /\ LogInv(Journals)' /\ AllIntact'
         /\ Len(file'.data) = pos /\ Len(recs') = replayed
         /\ EndOf(replayed)' = pos /\ StateAt(replayed)' = entries
         /\ IF replayed = Len(recs) THEN UNCHANGED <<recs, acked, lost>>
            ELSE /\ replayed + 1 = Len(recs) /\ ~AllIntact
                 /\ lost' =< lost + 1
<1> DEFINE data == file.data
           synced == file.synced
           low == file.low
<1>1. TypeOK
  BY DEF TypeInv
<1>2. /\ data \in Seq(Cell) /\ synced \in Seq(Cell) /\ low \in Nat
      /\ Len(data) \in Nat /\ Len(synced) \in Nat /\ acked \in Nat /\ Len(recs) \in Nat
      /\ replayed \in Nat /\ IsLegacy \in BOOLEAN /\ IsWorn \in BOOLEAN
  BY <1>1 DEF TypeOK, IsLegacy, IsWorn
<1>3. /\ replayed =< Len(recs) /\ replayed \in 0 .. Len(recs) /\ pos = EndOf(replayed)
      /\ pos < Len(data) /\ pos \in Nat /\ entries = StateAt(replayed)
      /\ \A i \in 1 .. replayed : Intact(i)
      /\ replayed # Len(recs) => /\ replayed + 1 = Len(recs)
                                 /\ Broken(data, pos, recs[Len(recs)].ops)
  BY <1>1, <1>2, EndOfType DEF Truncate, RecoveryInv, TypeInv
<1>4. /\ recs' = SubSeq(recs, 1, replayed) /\ UNCHANGED <<origin, rot, replayed>>
      /\ acked' = IF acked > replayed THEN replayed ELSE acked
      /\ lost' = lost + (acked - acked')
  BY <1>1, <1>2, <1>3, SubSeqFull DEF Truncate, TypeOK, recoveryVars
<1>5. acked =< Len(recs) /\ acked' \in Nat /\ acked' =< acked /\ acked' =< replayed
  BY <1>2, <1>3, <1>4 DEF LogInv, DurableInv
<1>6. /\ file'.data = SubSeq(data, 1, pos) /\ file'.synced = synced
      /\ file'.low = IF pos < low THEN pos ELSE low
  BY <1>1, <1>3 DEF Truncate, Truncated, TypeOK
<1>7. /\ file'.data \in Seq(Cell) /\ Len(file'.data) = pos
      /\ \A j \in 1 .. pos : file'.data[j] = data[j]
  BY <1>2, <1>3, <1>6, PrefixElements
<1>8. /\ RecordsInv' /\ Len(recs') = replayed /\ LogEnd' = pos
      /\ \A i \in 0 .. replayed : EndOf(i)' = EndOf(i) /\ StateAt(i)' = StateAt(i)
      /\ AllIntact'
  <2>1. RecordsInv
    BY DEF LogInv
  <2>2. replayed > 0 => /\ EndOf(replayed) =< Len(file'.data)
                        /\ \A j \in 1 .. EndOf(replayed) : file'.data[j] = file.data[j]
    BY <1>3, <1>7
  <2>3. /\ RecordsInv' /\ Len(recs') = replayed /\ LogEnd' = EndOf(replayed)
        /\ \A i \in 0 .. replayed : EndOf(i)' = EndOf(i) /\ StateAt(i)' = StateAt(i)
        /\ \A i \in 1 .. replayed : Intact(i) => Intact(i)'
    BY <1>1, <1>3, <1>4, <1>7, <2>1, <2>2, RecordsPrefix
  <2>4. QED
    BY <1>3, <2>3 DEF AllIntact
<1>9. HasHeader(file.data)'
  BY <1>3, <1>4, <1>7 DEF LogInv, HasHeader, IsLegacy, IsWorn, FILE_HEADER
<1>10. DurableInv'
  <2>1. file'.low =< pos /\ file'.low =< low /\ file'.low \in Nat
    BY <1>2, <1>3, <1>6
  <2>2. acked' > 0 => recs'[acked'].end =< file'.low
    <3>1. SUFFICES ASSUME acked' > 0 PROVE recs'[acked'].end =< file'.low
      OBVIOUS
    <3>2. acked' \in 0 .. Len(recs) /\ acked' \in 0 .. replayed /\ acked \in 0 .. Len(recs)
          /\ acked' # 0 /\ acked # 0
      BY <1>2, <1>3, <1>5, <3>1
    <3>3. recs[acked].end =< low /\ RecordsInv
      BY <1>2, <3>2 DEF LogInv, DurableInv
    <3>4. /\ EndOf(acked') \in Nat /\ EndOf(acked) \in Nat
          /\ EndOf(acked') =< EndOf(acked) /\ EndOf(acked') =< EndOf(replayed)
      BY <1>1, <1>3, <1>5, <3>2, <3>3, EndsMonotone
    <3>5. EndOf(acked) = recs[acked].end
      BY <3>2 DEF EndOf
    <3>6. recs'[acked'].end = EndOf(acked')
      <4>1. acked' \in 1 .. replayed
        BY <1>5, <3>2
      <4>2. recs'[acked'] = recs[acked']
        BY <1>1, <1>3, <1>4, <4>1, PrefixElements DEF TypeOK
      <4>3. QED
        BY <3>2, <4>2 DEF EndOf
    <3>7. QED
      BY <1>2, <1>3, <1>6, <3>3, <3>4, <3>5, <3>6
  <2>3. \A j \in 1 .. file'.low : file'.synced[j] = file'.data[j]
    BY <1>2, <1>3, <1>6, <1>7, <2>1 DEF LogInv, DurableInv
  <2>4. file'.low =< Len(synced)
    BY <1>2, <2>1 DEF LogInv, DurableInv
  <2>5. IsLegacy' => acked' > 0
    <3>1. IsLegacy => acked > 0 /\ replayed = Len(recs)
      BY <1>3 DEF LogInv, DurableInv, Known, Broken, IsLegacy
    <3>2. QED
      BY <1>2, <1>4, <1>5, <3>1 DEF IsLegacy
  <2>6. QED
    BY <1>5, <1>6, <1>7, <1>8, <2>1, <2>2, <2>3, <2>4, <2>5 DEF DurableInv
<1>11. Torn(Journals, data, pos)
  <2>1. CASE replayed = Len(recs)
    BY <1>3, <2>1 DEF LogInv, TailInv, LogEnd
  <2>2. CASE replayed # Len(recs)
    <3>1. Len(recs) \in 1 .. Len(recs) /\ Len(recs) - 1 = replayed
      BY <1>2, <1>3, <2>2
    <3>2. KeepsRecord(data, pos, recs[Len(recs)].ops, IsLegacy, IsWorn)
      BY <1>3, <3>1 DEF LogInv, RecordsInv, RecordInv
    <3>3. recs[Len(recs)].ops \in Journals
      BY <1>1, <3>1, RecordType DEF Journals
    <3>4. QED
      BY <1>3, <2>2, <3>2, <3>3 DEF Torn
  <2>3. QED
    BY <2>1, <2>2
<1>12. TailInv(Journals)'
  <2>0. IsLegacy' = IsLegacy /\ IsWorn' = IsWorn
    BY <1>4 DEF IsLegacy, IsWorn
  <2>1. Torn(Journals, file.data, LogEnd)'
    BY <1>3, <1>7, <1>8 DEF Torn
  <2>2. SUFFICES ASSUME Len(synced) > file'.low
                 PROVE  /\ \E k \in 0 .. replayed : EndOf(k) = file'.low
                        /\ Torn(Journals, synced, file'.low)
    BY <1>6, <1>8, <2>0, <2>1 DEF TailInv, Torn, Broken
  <2>3. \A k \in 0 .. Len(recs) :
          EndOf(k) \in Nat /\ (k > replayed => EndOf(k) > pos)
    BY <1>1, <1>2, <1>3, EndOfType DEF LogInv, RecordsInv
  <2>4. CASE low =< pos
    <3>1. file'.low = low
      BY <1>2, <1>3, <1>6, <2>4
    <3>2. PICK k \in 0 .. Len(recs) : EndOf(k) = low
      BY <2>2, <3>1 DEF LogInv, TailInv
    <3>3. k \in 0 .. replayed
      BY <1>2, <1>3, <2>3, <2>4, <3>2
    <3>4. Torn(Journals, synced, low)
      BY <2>2, <3>1 DEF LogInv, TailInv
    <3>5. QED
      BY <3>1, <3>2, <3>3, <3>4
  <2>5. CASE low > pos
    <3>1. file'.low = pos /\ low =< Len(data) /\ low =< Len(synced)
          /\ \A j \in 1 .. low : data[j] = synced[j]
      BY <1>2, <1>3, <1>6, <2>5 DEF LogInv, DurableInv
    <3>2. CASE Len(synced) = low
      <4>1. Torn(Journals, synced, pos)
        BY <1>2, <1>3, <1>11, <3>1, <3>2, TornAgree
      <4>2. QED
        BY <1>3, <3>1, <4>1
    <3>3. CASE Len(synced) # low
      <4>1. Len(synced) > low
        BY <1>2, <3>1, <3>3
      <4>2. PICK k \in 0 .. Len(recs) : EndOf(k) = low
        BY <4>1 DEF LogInv, TailInv
      <4>3. k > replayed
        <5>1. CASE k =< replayed
          <6>1. EndOf(k) =< EndOf(replayed)
            BY <1>1, <1>3, <4>2, <5>1, EndsMonotone DEF LogInv
          <6>2. QED
            BY <1>2, <1>3, <2>5, <4>2, <6>1
        <5>2. QED
          BY <1>2, <5>1
      <4>4. k = Len(recs) /\ Len(recs) \in 1 .. Len(recs) /\ Len(recs) - 1 = replayed
            /\ Len(recs) # 0
        BY <1>2, <1>3, <4>3
      <4> DEFINE ops == recs[Len(recs)].ops
      <4>5. /\ KeepsRecord(data, pos, ops, IsLegacy, IsWorn) /\ Broken(data, pos, ops)
            /\ pos + RecordSize(ops, IsLegacy) = low
            /\ ops \in Seq(Op)
        <5>1. RecordInv(Len(recs)) /\ EndOf(Len(recs)) = recs[Len(recs)].end
          BY <4>4 DEF LogInv, RecordsInv, EndOf
        <5>2. ops \in Seq(Op)
          BY <1>1, <4>4, RecordType
        <5>3. QED
          BY <1>3, <4>2, <4>4, <5>1, <5>2 DEF RecordInv
      <4> HIDE DEF ops
      <4>6. RecordSize(ops, IsLegacy) \in Nat
        BY <1>2, <4>5, RecordSizeType
      <4>7. KeepsRecord(synced, pos, ops, IsLegacy, IsWorn)
        <5>1. pos + RecordSize(ops, IsLegacy) =< low
          BY <1>2, <1>3, <4>5, <4>6
        <5> HIDE DEF data, synced, low
        <5>2. QED
          BY <1>2, <1>3, <3>1, <4>5, <5>1, KeepsAgree
      <4>8. Broken(synced, pos, ops)
        <5>1. PICK j \in 3 .. RecordSize(ops, IsLegacy) : data[pos + j] = Junk
          BY <4>5 DEF Broken
        <5>2. pos + j \in 1 .. low /\ pos + j =< Len(synced)
          BY <1>2, <1>3, <3>1, <4>5, <4>6
        <5>3. synced[pos + j] = Junk
          BY <3>1, <5>1, <5>2
        <5>4. QED
          BY <4>5, <5>2, <5>3 DEF Broken
      <4>9. Torn(Journals, synced, pos)
        BY <4>5, <4>7, <4>8 DEF Torn, Journals
      <4>10. QED
        BY <1>3, <3>1, <4>9
    <3>4. QED
      BY <3>2, <3>3
  <2>6. QED
    BY <1>2, <1>3, <2>4, <2>5
<1>13. IF replayed = Len(recs) THEN UNCHANGED <<recs, acked, lost>>
       ELSE replayed + 1 = Len(recs) /\ ~AllIntact /\ lost' =< lost + 1
  <2>1. lost \in Nat
    BY <1>1 DEF TypeOK
  <2>2. CASE replayed = Len(recs)
    <3>1. recs' = recs
      BY <2>2 DEF Truncate
    <3>2. acked' = acked
      BY <1>2, <1>4, <1>5, <2>2
    <3>3. lost' = lost
      BY <1>2, <1>4, <2>1, <3>2
    <3>4. QED
      BY <2>2, <3>1, <3>2, <3>3
  <2>3. CASE replayed # Len(recs)
    <3>1. lost' =< lost + 1
      BY <1>2, <1>3, <1>4, <1>5, <2>1, <2>3
    <3>2. ~AllIntact
      <4>1. PICK j \in 3 .. RecordSize(recs[Len(recs)].ops, IsLegacy) :
              pos + j =< Len(data) /\ data[pos + j] = Junk
        BY <1>3, <2>3 DEF Broken
      <4>2. Len(recs) \in 1 .. Len(recs) /\ Len(recs) - 1 = replayed
        BY <1>2, <1>3, <2>3
      <4>3. recs[Len(recs)].ops \in Seq(Op)
        BY <1>1, <4>2, RecordType
      <4>4. j \in 1 .. RecordSize(recs[Len(recs)].ops, IsLegacy)
        BY <1>2, <4>3, RecordSizeType
      <4>5. EncodeRecord(recs[Len(recs)].ops, IsLegacy)[j] # Junk
        BY <1>2, <4>3, <4>4, NeverJunk
      <4>6. ~Intact(Len(recs))
        BY <1>3, <4>1, <4>2, <4>4, <4>5 DEF Intact, HoldsRecord
      <4>7. QED
        BY <4>2, <4>6 DEF AllIntact
    <3>3. QED
      BY <1>3, <2>3, <3>1, <3>2
  <2>4. QED
    BY <2>2, <2>3
<1>14. EndOf(replayed)' = pos /\ StateAt(replayed)' = entries
  <2>1. PICK n \in 0 .. replayed : n = replayed
    BY <1>2
  <2>2. EndOf(n)' = pos /\ StateAt(n)' = entries
    BY <1>3, <1>8, <2>1
  <2>3. replayed' = n
    BY <1>4, <2>1
  <2>4. QED
    BY <2>2, <2>3 DEF EndOf, StateAt, Base
<1>15. LogInv(Journals)'
  BY <1>8, <1>9, <1>10, <1>12 DEF LogInv
<1>16. QED
  BY <1>7, <1>8, <1>13, <1>14, <1>15

(* A further record, right behind the others, in a file that grew.          *)
LEMMA RecordsAppend ==
  ASSUME TypeOK, RecordsInv, origin' = origin, rot' = rot,
         NEW r \in Record, recs' = Append(recs, r),
         r.ops # << >>, r.state = ApplyOps(StateAt(Len(recs)), r.ops),
         r.end = LogEnd + RecordSize(r.ops, IsLegacy),
         file'.data \in Seq(Cell), r.end =< Len(file'.data),
         Len(file.data) =< Len(file'.data),
         \A j \in 1 .. Len(file.data) : file'.data[j] = file.data[j],
         HoldsRecord(file'.data, LogEnd, r.ops, IsLegacy)
  PROVE  /\ RecordsInv'
         /\ Len(recs') = Len(recs) + 1 /\ LogEnd' = r.end
         /\ \A i \in 0 .. Len(recs) : EndOf(i)' = EndOf(i) /\ StateAt(i)' = StateAt(i)
         /\ AllIntact => AllIntact'
<1> PICK n \in Nat : n = Len(recs)
  BY EndOfType
<1>0. LogEnd \in Nat /\ r.ops \in Seq(Op) /\ r.end \in Nat
      /\ IsLegacy \in BOOLEAN /\ IsLegacy' = IsLegacy /\ RecordSize(r.ops, IsLegacy) \in Nat
      /\ IsWorn \in BOOLEAN /\ IsWorn' = IsWorn
      /\ RecordSize(r.ops, IsLegacy) > 0
  BY EndOfType DEF Record, IsLegacy, IsWorn, RecordSize, RecordHeader
<1>1. Len(recs') = n + 1 /\ recs'[n + 1] = r /\ \A i \in 1 .. n : recs'[i] = recs[i]
  BY DEF TypeOK
<1>2. \A i \in 0 .. n : EndOf(i)' = EndOf(i) /\ StateAt(i)' = StateAt(i)
  BY <1>0, <1>1 DEF EndOf, StateAt, Base
<1>3. EndOf(n + 1)' = r.end /\ LogEnd' = r.end /\ StateAt(n + 1)' = r.state
  BY <1>0, <1>1 DEF EndOf, StateAt, LogEnd
<1>4. ASSUME NEW i \in 0 .. n + 1, NEW j \in 0 .. n + 1, i < j
      PROVE  EndOf(i)' < EndOf(j)'
  <2>1. EndOf(n) = LogEnd /\ i \in 0 .. n /\ EndOf(i) \in Nat
    BY <1>0, <1>4, EndOfType DEF LogEnd
  <2>2. EndOf(i) =< LogEnd
    BY <1>0, <2>1 DEF RecordsInv
  <2>3. CASE j = n + 1
    <3>1. EndOf(i)' = EndOf(i) /\ EndOf(j)' = LogEnd + RecordSize(r.ops, IsLegacy)
      BY <1>2, <1>3, <2>1, <2>3
    <3>2. QED
      BY <1>0, <2>1, <2>2, <3>1
  <2>4. CASE j # n + 1
    <3>1. j \in 0 .. n
      BY <1>0, <2>4
    <3>2. QED
      BY <1>2, <1>4, <2>1, <3>1 DEF RecordsInv
  <2>5. QED
    BY <2>3, <2>4
<1>5. ASSUME NEW i \in 1 .. n PROVE RecordInv(i)' /\ (Intact(i) => Intact(i)')
  <2>1. /\ RecordInv(i) /\ i - 1 \in 0 .. n /\ i \in 0 .. n /\ i # 0 /\ i \in 1 .. Len(recs)
        /\ recs'[i] = recs[i] /\ StateAt(i - 1)' = StateAt(i - 1) /\ EndOf(i - 1)' = EndOf(i - 1)
    BY <1>0, <1>1, <1>2, <1>5 DEF RecordsInv
  <2>2. /\ recs[i].ops \in Seq(Op) /\ EndOf(i - 1) \in Nat /\ recs[i].end \in Nat
        /\ file.data \in Seq(Cell) /\ Len(file.data) \in Nat /\ Len(file'.data) \in Nat
    <3>1. recs[i].ops \in Seq(Op) /\ recs[i].end \in Nat
      BY <2>1, RecordType
    <3>2. EndOf(i - 1) \in Nat
      BY <2>1, EndOfType
    <3>3. file.data \in Seq(Cell) /\ Len(file.data) \in Nat
      BY FileType
    <3>4. Len(file'.data) \in Nat
      OBVIOUS
    <3>5. QED
      BY <3>1, <3>2, <3>3, <3>4
  <2>3. /\ recs[i].end = EndOf(i - 1) + RecordSize(recs[i].ops, IsLegacy)
        /\ recs[i].end =< Len(file.data)
        /\ KeepsRecord(file.data, EndOf(i - 1), recs[i].ops, IsLegacy, IsWorn)
        /\ Intact(i) => HoldsRecord(file.data, EndOf(i - 1), recs[i].ops, IsLegacy)
    BY <2>1 DEF RecordInv, Intact
  <2>4. RecordSize(recs[i].ops, IsLegacy) \in Nat
    BY <1>0, <2>2, RecordSizeType
  <2> DEFINE m == Len(file.data)
             offset == EndOf(i - 1)
             ops == recs[i].ops
  <2>5. /\ offset + RecordSize(ops, IsLegacy) =< m /\ m =< Len(file.data)
        /\ \A j \in 1 .. m : file.data[j] = file'.data[j]
    BY <2>2, <2>3, <2>4
  <2>6. /\ offset + RecordSize(ops, IsLegacy) =< m /\ m =< Len(file.data)
        /\ \A j \in 1 .. m : file.data[j] = file'.data[j]
        /\ m \in Nat /\ offset \in Nat /\ ops \in Seq(Op)
        /\ file.data \in Seq(Cell) /\ file'.data \in Seq(Cell) /\ IsLegacy \in BOOLEAN
        /\ IsWorn \in BOOLEAN
        /\ KeepsRecord(file.data, offset, ops, IsLegacy, IsWorn)
        /\ Intact(i) => HoldsRecord(file.data, offset, ops, IsLegacy)
    BY <1>0, <2>2, <2>3, <2>5
  <2> HIDE DEF m, offset, ops
  <2>7. KeepsRecord(file'.data, offset, ops, IsLegacy, IsWorn)
    BY <2>6, KeepsAgree
  <2>10. Intact(i) => HoldsRecord(file'.data, offset, ops, IsLegacy)
    BY <2>5, <2>6, HoldsAgree DEF m, offset, ops
  <2>8. recs[i].end =< Len(file'.data)
    BY <2>2, <2>3
  <2>9. QED
    BY <1>0, <2>1, <2>7, <2>10, <2>8 DEF RecordInv, Intact, offset, ops
<1>6. RecordInv(n + 1)' /\ Intact(n + 1)'
  <2>1. n + 1 - 1 = n /\ n \in 0 .. n /\ LogEnd = EndOf(n)
    BY <1>0 DEF LogEnd
  <2>2. EndOf(n + 1 - 1)' = LogEnd /\ StateAt(n + 1 - 1)' = StateAt(n) /\ recs'[n + 1] = r
    BY <1>1, <1>2, <2>1
  <2>3. QED
    BY <1>0, <2>2, HeldIsKept DEF RecordInv, Intact
<1>7. RecordsInv' /\ (AllIntact => AllIntact')
  <2>1. \A i \in 1 .. Len(recs') : i \in 1 .. n \/ i = n + 1
    BY <1>0, <1>1
  <2>2. 0 .. Len(recs') = 0 .. n + 1
    BY <1>1
  <2>3. \A i \in 1 .. Len(recs') : RecordInv(i)'
    BY <1>5, <1>6, <2>1
  <2>4. QED
    BY <1>4, <1>5, <1>6, <2>1, <2>2, <2>3 DEF RecordsInv, AllIntact
<1>8. QED
  BY <1>1, <1>2, <1>3, <1>7

(* One cell of an append reaches the file; with the last one the record is  *)
(* complete.                                                               *)
LEMMA LogWrite ==
  ASSUME TypeInv, LogInv(Journals), InstanceInv, StoreIsLogged, JournalRedoesWorking, WriteCell
  PROVE  /\ LogInv(Journals)'
         /\ Len(out) = 1 => /\ Len(recs') = Len(recs) + 1 /\ recs'[Len(recs')].state = working
                            /\ StateAt(Len(recs) - 1)' = StateAt(Len(recs))
                            /\ Len(file'.data) = LogEnd'
         /\ file'.data \o out' = file.data \o out
         /\ AllIntact => AllIntact'
<1> DEFINE data == file.data
           new == file'.data
           all == data \o out
<1>1. TypeOK /\ pc = "write" /\ out # << >> /\ ~failed
  BY DEF TypeInv, WriteCell, InstanceInv
<1>2. /\ data \in Seq(Cell) /\ out \in Seq(Cell) /\ file.synced \in Seq(Cell) /\ file.low \in Nat
      /\ Len(data) \in Nat /\ Len(out) \in Nat /\ Len(out) > 0 /\ Len(file.synced) \in Nat
      /\ journal \in Seq(Op) /\ acked \in Nat /\ IsLegacy \in BOOLEAN /\ Len(recs) \in Nat
  BY <1>1 DEF TypeOK, IsLegacy
<1>3. /\ journal # << >> /\ Len(all) = LogEnd + RecordSize(journal, IsLegacy)
      /\ HasHeader(all) /\ HoldsRecord(all, LogEnd, journal, IsLegacy)
  BY <1>1 DEF InstanceInv
<1>4. LogEnd \in Nat /\ RecordSize(journal, IsLegacy) \in Nat
  BY <1>1, <1>2, EndOfType, RecordSizeType
<1>5. /\ all \in Seq(Cell) /\ Len(all) = Len(data) + Len(out)
      /\ \A j \in 1 .. Len(data) : all[j] = data[j]
      /\ \A j \in 1 .. Len(out) : all[Len(data) + j] = out[j]
  BY <1>2, ConcatElements
<1>6. /\ new = data \o <<Head(out)>> /\ file'.synced = file.synced /\ file'.low = file.low
      /\ UNCHANGED <<acked, lost, origin, rot, working>> /\ out' = Tail(out)
  BY <1>1 DEF WriteCell, Appended, TypeOK
<1>7. /\ new \in Seq(Cell) /\ Len(new) = Len(data) + 1
      /\ \A j \in 1 .. Len(data) : new[j] = data[j]
      /\ new[Len(data) + 1] = out[1]
  <2>1. <<Head(out)>> \in Seq(Cell) /\ Len(<<Head(out)>>) = 1 /\ <<Head(out)>>[1] = out[1]
    BY <1>2
  <2> HIDE DEF data
  <2>2. QED
    BY <1>2, <1>6, <2>1, ConcatElements
<1>8. \A j \in 1 .. Len(new) : new[j] = all[j]
  <2>1. all[Len(data) + 1] = out[1]
    BY <1>2, <1>5
  <2>2. QED
    BY <1>2, <1>5, <1>7, <2>1
<1>9. new \o out' = all
  <2>1. out = <<Head(out)>> \o Tail(out)
    BY <1>2
  <2>2. Tail(out) \in Seq(Cell) /\ <<Head(out)>> \in Seq(Cell)
    BY <1>2
  <2>3. (data \o <<Head(out)>>) \o Tail(out) = data \o (<<Head(out)>> \o Tail(out))
    <3> DEFINE h == <<Head(out)>>
               t == Tail(out)
    <3> HIDE DEF data, h, t
    <3>1. h \in Seq(Cell) /\ t \in Seq(Cell) /\ data \in Seq(Cell)
      BY <1>2, <2>2 DEF h, t
    <3>2. (data \o h) \o t = data \o (h \o t)
      BY <3>1, ConcatAssociative
    <3>3. QED
      BY <3>2 DEF h, t
  <2>4. QED
    BY <1>6, <2>1, <2>3
<1>10. HasHeader(file.data)'
  <2>1. ASSUME ~IsLegacy, NEW j \in 1 .. FILE_HEADER, j =< Len(new)
        PROVE  Kept(new[j], EncodeFileHeader[j], IsWorn)
    <3>1. j \in 1 .. Len(new) /\ j =< Len(all)
      BY <1>2, <1>5, <1>7, <2>1 DEF FILE_HEADER
    <3>2. QED
      BY <1>3, <1>8, <2>1, <3>1 DEF HasHeader
  <2>2. QED
    BY <1>6, <2>1 DEF HasHeader, IsLegacy, IsWorn
<1>11. IsLegacy' = IsLegacy /\ IsWorn' = IsWorn
  BY <1>6 DEF IsLegacy, IsWorn
<1>12. HoldsRecord(new, LogEnd, journal, IsLegacy)
  <2> DEFINE n == Len(new)
             offset == LogEnd
             ops == journal
  <2>1. n \in Nat /\ n =< Len(all) /\ Len(new) =< n /\ offset \in Nat
        /\ \A j \in 1 .. n : all[j] = new[j]
    BY <1>2, <1>4, <1>5, <1>7, <1>8
  <2>2. /\ all \in Seq(Cell) /\ new \in Seq(Cell) /\ ops \in Seq(Op) /\ IsLegacy \in BOOLEAN
        /\ HoldsRecord(all, offset, ops, IsLegacy)
    BY <1>2, <1>3, <1>5, <1>7
  <2> HIDE DEF n, offset, ops, all, new
  <2>3. HoldsRecord(new, offset, ops, IsLegacy)
    BY <2>1, <2>2, HoldsAgree
  <2>4. QED
    BY <2>3 DEF offset, ops
<1>13. \A i \in 1 .. Len(recs) : recs[i].end \in Nat /\ recs[i].end =< Len(data)
  BY <1>1, RecordType DEF LogInv, RecordsInv, RecordInv
<1>14. /\ file.low =< Len(data) /\ file.low =< Len(file.synced)
       /\ \A j \in 1 .. file.low : file.synced[j] = data[j]
       /\ acked =< Len(recs)
       /\ acked > 0 => recs[acked].end =< file.low
       /\ IsLegacy => acked > 0
  BY DEF LogInv, DurableInv
<1>15. SUFFICES /\ RecordsInv' /\ Torn(Journals, file.data, LogEnd)'
                /\ Len(recs') >= Len(recs) /\ Len(recs') \in Nat
                /\ \A i \in 1 .. Len(recs) : recs'[i] = recs[i]
                /\ \A i \in 0 .. Len(recs) : EndOf(i)' = EndOf(i)
                /\ AllIntact => AllIntact'
                /\ Len(out) = 1 => /\ Len(recs') = Len(recs) + 1
                                   /\ recs'[Len(recs')].state = working
                                   /\ StateAt(Len(recs) - 1)' = StateAt(Len(recs))
                                   /\ Len(new) = LogEnd'
  <2>1. DurableInv'
    <3>1. file'.low =< Len(new) /\ \A j \in 1 .. file'.low : file'.synced[j] = new[j]
      <4> HIDE DEF new, all
      <4>1. file.low =< Len(new) /\ \A j \in 1 .. file.low : j \in 1 .. Len(data)
        BY <1>2, <1>7, <1>14
      <4>2. QED
        BY <1>6, <1>7, <1>14, <4>1
    <3>2. acked > 0 => recs'[acked] = recs[acked]
      BY <1>2, <1>14, <1>15
    <3>3. acked =< Len(recs')
      BY <1>2, <1>14, <1>15
    <3>4. QED
      BY <1>6, <1>11, <1>14, <3>1, <3>2, <3>3 DEF DurableInv
  <2>2. TailInv(Journals)'
    <3>1. Len(file.synced) > file.low =>
            \E k \in 0 .. Len(recs') : EndOf(k)' = file.low
      BY <1>2, <1>15 DEF LogInv, TailInv
    <3>2. Len(file.synced) > file.low => Torn(Journals, file.synced, file.low)
      BY DEF LogInv, TailInv
    <3>3. Torn(Journals, file.synced, file.low)' = Torn(Journals, file.synced, file.low)
      BY <1>6, <1>11 DEF Torn, Broken
    <3>4. QED
      BY <1>6, <1>15, <3>1, <3>2, <3>3 DEF TailInv
  <2>3. QED
    BY <1>9, <1>10, <1>15, <2>1, <2>2 DEF LogInv
<1>16. CASE Len(out) = 1
  <2> DEFINE r == [ops |-> journal, state |-> working, end |-> Len(data) + 1]
  <2>1. r \in Record /\ recs' = Append(recs, r)
        /\ r.ops = journal /\ r.state = working /\ r.end = Len(data) + 1
    BY <1>1, <1>2, <1>16 DEF WriteCell, Record, TypeOK
  <2>2. r.ops # << >> /\ r.state = ApplyOps(StateAt(Len(recs)), r.ops)
    BY <1>1, <1>3, <2>1 DEF StoreIsLogged, JournalRedoesWorking
  <2>3. r.end = LogEnd + RecordSize(r.ops, IsLegacy) /\ r.end = Len(new)
    BY <1>2, <1>3, <1>5, <1>7, <1>16, <2>1
  <2>4. HoldsRecord(new, LogEnd, r.ops, IsLegacy)
    BY <1>12, <2>1
  <2>5. r.end =< Len(new) /\ Len(data) =< Len(new) /\ RecordsInv /\ UNCHANGED <<origin, rot>>
    BY <1>2, <1>6, <1>7, <2>3 DEF LogInv
  <2>6. /\ RecordsInv' /\ Len(recs') = Len(recs) + 1 /\ LogEnd' = r.end
        /\ \A i \in 0 .. Len(recs) : EndOf(i)' = EndOf(i) /\ StateAt(i)' = StateAt(i)
        /\ AllIntact => AllIntact'
    <3> HIDE DEF r
    <3>1. QED
      BY <1>1, <1>7, <2>1, <2>2, <2>3, <2>4, <2>5, RecordsAppend
  <2>7. /\ \A i \in 1 .. Len(recs) : recs'[i] = recs[i]
        /\ recs'[Len(recs) + 1] = r
    BY <1>1, <1>2, <2>1 DEF TypeOK
  <2>8. StateAt(Len(recs) - 1)' = StateAt(Len(recs))
    <3> PICK n \in Nat : n = Len(recs)
      BY <1>2
    <3>1. n \in 0 .. Len(recs) /\ Len(recs') - 1 = n
      BY <2>6
    <3>2. StateAt(n)' = StateAt(n)
      BY <2>6, <3>1
    <3>3. StateAt(Len(recs) - 1)' = StateAt(n)'
      BY <3>1 DEF StateAt
    <3>4. QED
      BY <3>2, <3>3
  <2>9. Torn(Journals, file.data, LogEnd)'
    BY <2>3, <2>6, <1>7, <1>2 DEF Torn
  <2>10. QED
    BY <1>2, <2>1, <2>3, <2>6, <2>7, <2>8, <2>9
<1>17. CASE Len(out) # 1
  <2>1. recs' = recs
    BY <1>17 DEF WriteCell
  <2>2. /\ \A i \in 0 .. Len(recs) : EndOf(i)' = EndOf(i)
        /\ LogEnd' = LogEnd
    BY <1>6, <2>1 DEF EndOf, Base, LogEnd
  <2>3. RecordsInv' /\ (AllIntact => AllIntact')
    <3>1. recs' = SubSeq(recs, 1, Len(recs)) /\ Len(recs) \in 0 .. Len(recs)
      BY <1>1, <1>2, <2>1, SubSeqFull DEF TypeOK
    <3>2. RecordsInv /\ UNCHANGED <<origin, rot>>
      BY <1>6 DEF LogInv
    <3>3. Len(recs) > 0 => /\ EndOf(Len(recs)) =< Len(new)
                           /\ \A j \in 1 .. EndOf(Len(recs)) : new[j] = file.data[j]
      <4>1. SUFFICES ASSUME Len(recs) > 0
                     PROVE  /\ EndOf(Len(recs)) =< Len(new)
                            /\ \A j \in 1 .. EndOf(Len(recs)) : new[j] = file.data[j]
        OBVIOUS
      <4>2. EndOf(Len(recs)) \in Nat /\ EndOf(Len(recs)) =< Len(data)
        BY <1>2, <1>13, <4>1 DEF EndOf
      <4>3. QED
        BY <1>2, <1>7, <4>2
    <3>4. QED
      <4>1. /\ RecordsInv' /\ Len(recs') = Len(recs)
            /\ \A i \in 1 .. Len(recs) : Intact(i) => Intact(i)'
        BY <1>1, <1>7, <3>1, <3>2, <3>3, RecordsPrefix
      <4>2. QED
        BY <4>1 DEF AllIntact
  <2>4. Torn(Journals, file.data, LogEnd)'
    <3>1. Len(new) < LogEnd + RecordSize(journal, IsLegacy) /\ journal \in Journals
      <4>1. Len(new) < Len(all)
        <5> HIDE DEF new, all
        <5> PICK n \in Nat : n = Len(out)
          BY <1>2
        <5>1. n # 1 /\ n > 0
          BY <1>2, <1>17
        <5>2. n > 1
          BY <5>1
        <5>3. QED
          BY <1>2, <1>5, <1>7, <5>2
      <4>2. QED
        BY <1>2, <1>3, <4>1 DEF Journals
    <3>2. KeepsRecord(new, LogEnd, journal, IsLegacy, IsWorn)
      BY <1>12, HeldIsKept
    <3>3. QED
      BY <1>11, <2>2, <3>1, <3>2 DEF Torn, Journals
  <2>5. QED
    BY <1>2, <1>17, <2>1, <2>2, <2>3, <2>4
<1>18. QED
  BY <1>16, <1>17

(* A commit is acknowledged once its record is durable.                    *)
LEMMA LogInstall ==
  ASSUME TypeOK, LogInv(Journals), InstanceInv, Install
  PROVE  LogInv(Journals)' /\ recs # << >> /\ working = StateAt(Len(recs))
<1>1. /\ recs # << >> /\ recs[Len(recs)].state = working /\ Len(file.data) = LogEnd
      /\ file.low = Len(file.data) /\ Len(recs) \in Nat /\ Len(recs) # 0
  BY DEF InstanceInv, Install, TypeOK
<1>2. recs[Len(recs)].end =< file.low
  BY <1>1 DEF LogInv, RecordsInv, RecordInv
<1>3. UNCHANGED <<file, recs, lost, origin, rot>> /\ acked' = Len(recs)
  BY DEF Install
<1>4. working = StateAt(Len(recs))
  BY <1>1 DEF StateAt
<1>5. DurableInv'
  BY <1>1, <1>2, <1>3 DEF LogInv, DurableInv, IsLegacy
<1>6. RecordsInv' /\ HasHeader(file.data)' /\ TailInv(Journals)'
  BY <1>3 DEF LogInv, RecordsInv, RecordInv, HasHeader, TailInv, Torn, Broken, LogEnd, EndOf,
              StateAt, Base, IsLegacy, IsWorn
<1>7. QED
  BY <1>1, <1>4, <1>5, <1>6 DEF LogInv

(* A crash leaves a file that agrees with this one up to the end of the      *)
(* k-th record, and in which the k + 1-st is not complete.                  *)
LEMMA LogCrash ==
  ASSUME TypeOK, LogInv(Journals), NEW k \in 0 .. Len(recs), NEW cells \in Seq(Cell),
         file' = AtRest(cells), recs' = SubSeq(recs, 1, k),
         UNCHANGED <<origin, acked, lost, rot>>,
         k > 0 => EndOf(k) =< Len(cells) /\ \A j \in 1 .. EndOf(k) : cells[j] = file.data[j],
         file.low =< Len(cells), k < Len(recs) => EndOf(k + 1) > file.low,
         HasHeader(cells), Torn(Journals, cells, EndOf(k))
  PROVE  LogInv(Journals)' /\ (AllIntact => AllIntact')
<1>1. /\ file'.data = cells /\ file'.synced = cells /\ file'.low = Len(cells)
      /\ file.low \in Nat /\ Len(cells) \in Nat /\ acked \in Nat /\ Len(recs) \in Nat
      /\ IsLegacy' = IsLegacy /\ IsWorn' = IsWorn
  BY DEF AtRest, TypeOK, IsLegacy, IsWorn
<1>2. /\ RecordsInv' /\ Len(recs') = k /\ LogEnd' = EndOf(k)
      /\ \A i \in 0 .. k : EndOf(i)' = EndOf(i) /\ StateAt(i)' = StateAt(i)
      /\ \A i \in 1 .. k : Intact(i) => Intact(i)'
  BY <1>1, RecordsPrefix DEF LogInv
<1>3. acked =< k
  <2>1. SUFFICES ASSUME acked > k PROVE FALSE
    BY <1>1
  <2>2. acked \in 0 .. Len(recs) /\ acked # 0 /\ recs[acked].end =< file.low
        /\ k + 1 \in 0 .. Len(recs) /\ k + 1 =< acked /\ k < Len(recs)
    BY <1>1, <2>1 DEF LogInv, DurableInv
  <2>3. EndOf(k + 1) =< EndOf(acked) /\ EndOf(k + 1) \in Nat /\ EndOf(acked) \in Nat
    BY <2>2, EndsMonotone DEF LogInv
  <2>4. EndOf(acked) = recs[acked].end
    BY <2>2 DEF EndOf
  <2>5. QED
    BY <1>1, <2>2, <2>3, <2>4
<1>4. DurableInv'
  <2>1. acked > 0 => recs'[acked].end =< Len(cells)
    <3>1. SUFFICES ASSUME acked > 0 PROVE recs'[acked].end =< Len(cells)
      OBVIOUS
    <3>2. acked \in 1 .. Len(recs) /\ recs[acked].end =< file.low
      BY <1>1, <1>3, <3>1 DEF LogInv, DurableInv
    <3>3. recs'[acked] = recs[acked]
      BY <1>1, <1>3, <3>1, <3>2, PrefixElements DEF TypeOK
    <3>4. recs'[acked].end = recs[acked].end /\ recs[acked].end \in Nat
      BY <3>2, <3>3, RecordType
    <3>5. recs[acked].end =< Len(cells)
      <4>1. recs[acked].end \in Nat
        BY <3>2, RecordType
      <4>2. QED
        BY <1>1, <3>2, <4>1
    <3>6. QED
      BY <3>4, <3>5, Zenon
  <2>2. QED
    BY <1>1, <1>2, <1>3, <2>1 DEF LogInv, DurableInv
<1>5. TailInv(Journals)'
  <2>1. Torn(Journals, file.data, LogEnd)'
    BY <1>1, <1>2 DEF Torn, Broken
  <2>2. QED
    BY <1>1, <2>1 DEF TailInv
<1>6. HasHeader(file.data)'
  BY <1>1 DEF HasHeader
<1>7. AllIntact => AllIntact'
  BY <1>1, <1>2 DEF AllIntact
<1>8. QED
  BY <1>2, <1>4, <1>5, <1>6, <1>7 DEF LogInv

(* Whatever a power loss leaves, the log is whole.                          *)
LEMMA LogPowerLoss ==
  ASSUME TypeOK, LogInv(Journals), PowerLoss
  PROVE  LogInv(Journals)' /\ (AllIntact => AllIntact')
<1> DEFINE data == file.data
           synced == file.synced
           low == file.low
<1>1. /\ data \in Seq(Cell) /\ synced \in Seq(Cell) /\ low \in Nat /\ Len(recs) \in Nat
      /\ Len(data) \in Nat /\ Len(synced) \in Nat /\ IsLegacy \in BOOLEAN
      /\ UNCHANGED <<origin, acked, lost, rot>>
  BY DEF PowerLoss, TypeOK, IsLegacy
<1>2. /\ low =< Len(data) /\ low =< Len(synced) /\ \A j \in 1 .. low : synced[j] = data[j]
  BY DEF LogInv, DurableInv
<1>3. ASSUME NEW n \in Nat, RecordsUpTo(n)
      PROVE  \E k \in 0 .. Len(recs) :
               /\ recs' = SubSeq(recs, 1, k)
               /\ k > 0 => EndOf(k) =< n
               /\ k < Len(recs) => EndOf(k + 1) > n
  BY <1>1, <1>3 DEF RecordsUpTo, EndOf
<1>4. ASSUME NEW n \in low .. Len(data), file' = TornAt(file, n), RecordsUpTo(n)
      PROVE  LogInv(Journals)' /\ (AllIntact => AllIntact')
  <2> DEFINE cells == SubSeq(data, 1, n)
  <2>0. n \in Nat /\ n =< Len(data)
    BY <1>1
  <2>1. /\ cells \in Seq(Cell) /\ Len(cells) = n /\ \A j \in 1 .. n : cells[j] = data[j]
    BY <1>1, <2>0, PrefixElements
  <2>2. PICK k \in 0 .. Len(recs) : /\ recs' = SubSeq(recs, 1, k)
                                    /\ k > 0 => EndOf(k) =< n
                                    /\ k < Len(recs) => EndOf(k + 1) > n
    BY <1>3, <1>4, <2>0
  <2>3. file' = AtRest(cells)
    BY <1>4 DEF TornAt
  <2>4. HasHeader(cells)
    <3>1. SUFFICES ASSUME ~IsLegacy, NEW j \in 1 .. FILE_HEADER, j =< Len(cells)
                   PROVE  Kept(cells[j], EncodeFileHeader[j], IsWorn)
      BY DEF HasHeader
    <3>2. j \in 1 .. n /\ j =< Len(data)
      BY <1>1, <2>0, <2>1, <3>1 DEF FILE_HEADER
    <3>3. QED
      BY <2>1, <3>1, <3>2 DEF LogInv, HasHeader
  <2>5. Torn(Journals, cells, EndOf(k))
    <3> HIDE DEF cells
    <3>1. EndOf(k) \in Nat
      BY EndOfType
    <3>2. CASE k = Len(recs)
      <4>1. Torn(Journals, data, EndOf(k))
        BY <3>2 DEF LogInv, TailInv, LogEnd
      <4>2. Len(cells) =< Len(data) /\ \A j \in 1 .. Len(cells) : data[j] = cells[j]
        BY <2>0, <2>1
      <4>3. QED
        BY <1>1, <2>1, <3>1, <4>1, <4>2, TornAgree
    <3>3. CASE k # Len(recs)
      <4>1. k + 1 \in 1 .. Len(recs) /\ k + 1 - 1 = k /\ k + 1 # 0 /\ k < Len(recs)
        BY <1>1, <3>3
      <4>2. /\ EndOf(k + 1) = EndOf(k) + RecordSize(recs[k + 1].ops, IsLegacy)
            /\ KeepsRecord(data, EndOf(k), recs[k + 1].ops, IsLegacy, IsWorn)
        BY <4>1 DEF LogInv, RecordsInv, RecordInv, EndOf
      <4>3. recs[k + 1].ops \in Seq(Op)
        BY <4>1, RecordType
      <4> DEFINE ops == recs[k + 1].ops
                 offset == EndOf(k)
      <4>4. /\ ops \in Seq(Op) /\ offset \in Nat /\ KeepsRecord(data, offset, ops, IsLegacy, IsWorn)
            /\ n =< Len(data) /\ Len(cells) =< n /\ \A j \in 1 .. n : data[j] = cells[j]
        BY <2>0, <2>1, <3>1, <4>2, <4>3
      <4> HIDE DEF ops, offset, data
      <4>5. KeepsRecord(cells, offset, ops, IsLegacy, IsWorn)
        BY <1>1, <2>0, <2>1, <4>4, KeepsAgree
      <4>6. Len(cells) < offset + RecordSize(ops, IsLegacy)
        BY <2>0, <2>1, <2>2, <4>1, <4>2 DEF ops, offset
      <4>7. QED
        BY <4>4, <4>5, <4>6 DEF Torn, Journals, offset
    <3>4. QED
      BY <3>2, <3>3
  <2>6. k < Len(recs) => EndOf(k + 1) > low
    <3>1. SUFFICES ASSUME k < Len(recs) PROVE EndOf(k + 1) > low
      OBVIOUS
    <3>2. EndOf(k + 1) \in Nat
      BY <1>1, <3>1, EndOfType
    <3>3. low =< n
      BY <1>1
    <3>4. QED
      BY <1>1, <2>0, <2>2, <3>1, <3>2, <3>3
  <2>7. /\ k > 0 => EndOf(k) =< Len(cells) /\ \A j \in 1 .. EndOf(k) : cells[j] = data[j]
        /\ low =< Len(cells)
    <3> HIDE DEF cells
    <3>1. EndOf(k) \in Nat
      BY EndOfType
    <3>2. QED
      BY <1>1, <2>0, <2>1, <2>2, <3>1
  <2> HIDE DEF cells
  <2>8. QED
    BY <1>1, <2>1, <2>2, <2>3, <2>4, <2>5, <2>6, <2>7, LogCrash
<1>5. ASSUME NEW n \in low .. Len(synced), file' = RevertedTo(file, n), RecordsUpTo(low)
      PROVE  LogInv(Journals)' /\ (AllIntact => AllIntact')
  <2> DEFINE cells == SubSeq(synced, 1, n)
  <2>0. n \in Nat /\ n =< Len(synced) /\ low =< n
    BY <1>1
  <2>1. /\ cells \in Seq(Cell) /\ Len(cells) = n /\ \A j \in 1 .. n : cells[j] = synced[j]
    BY <1>1, <2>0, PrefixElements
  <2>2. CASE n = low
    <3>1. cells = SubSeq(data, 1, low)
      <4>1. /\ SubSeq(data, 1, low) \in Seq(Cell) /\ Len(SubSeq(data, 1, low)) = low
            /\ \A j \in 1 .. low : SubSeq(data, 1, low)[j] = data[j]
        BY <1>1, <1>2, PrefixElements
      <4> HIDE DEF cells, data
      <4> DEFINE other == SubSeq(data, 1, low)
      <4>2. /\ other \in Seq(Cell) /\ Len(cells) = Len(other)
            /\ \A j \in 1 .. Len(cells) : cells[j] = other[j]
        BY <1>1, <1>2, <2>1, <2>2, <4>1
      <4> HIDE DEF other
      <4>3. cells = other
        BY <2>1, <4>2, SeqEqual
      <4>4. QED
        BY <4>3 DEF other
    <3>2. file' = TornAt(file, low)
      BY <1>5, <3>1 DEF TornAt, RevertedTo
    <3>3. low \in low .. Len(data)
      BY <1>1, <1>2
    <3>4. QED
      BY <1>4, <1>5, <3>2, <3>3
  <2>3. CASE n > low
    <3>1. PICK k \in 0 .. Len(recs) : EndOf(k) = low
      BY <1>1, <2>0, <2>3 DEF LogInv, TailInv
    <3>2. PICK m \in 0 .. Len(recs) : /\ recs' = SubSeq(recs, 1, m)
                                      /\ m > 0 => EndOf(m) =< low
                                      /\ m < Len(recs) => EndOf(m + 1) > low
      BY <1>1, <1>3, <1>5
    <3>3. m = k
      <4>1. CASE k < m
        <5>1. EndOf(k) < EndOf(m) /\ EndOf(k) \in Nat /\ EndOf(m) \in Nat /\ m > 0
          BY <1>1, <4>1, EndOfType DEF LogInv, RecordsInv
        <5>2. QED
          BY <1>1, <3>1, <3>2, <5>1
      <4>2. CASE m < k
        <5>1. m + 1 \in 0 .. Len(recs) /\ m + 1 =< k /\ m < Len(recs)
          BY <1>1, <4>2
        <5>2. EndOf(m + 1) =< EndOf(k) /\ EndOf(m + 1) \in Nat /\ EndOf(k) \in Nat
          BY <5>1, EndsMonotone DEF LogInv
        <5>3. QED
          BY <1>1, <3>1, <3>2, <5>1, <5>2
      <4>3. QED
        BY <1>1, <4>1, <4>2
    <3>4. file' = AtRest(cells)
      BY <1>5 DEF RevertedTo
    <3>5. Torn(Journals, cells, EndOf(k))
      <4>1. Torn(Journals, synced, EndOf(k))
        BY <1>1, <2>0, <2>3, <3>1 DEF LogInv, TailInv
      <4>2. EndOf(k) \in Nat
        BY EndOfType
      <4> HIDE DEF cells
      <4>3. Len(cells) =< Len(synced) /\ \A j \in 1 .. Len(cells) : synced[j] = cells[j]
        BY <2>0, <2>1
      <4>4. QED
        BY <1>1, <2>1, <4>1, <4>2, <4>3, TornAgree
    <3>6. \A j \in 1 .. low : cells[j] = data[j]
      BY <1>1, <1>2, <2>0, <2>1
    <3>7. HasHeader(cells)
      <4>1. SUFFICES ASSUME ~IsLegacy, NEW j \in 1 .. FILE_HEADER
                     PROVE  Kept(cells[j], EncodeFileHeader[j], IsWorn)
        BY DEF HasHeader
      <4>2. EndOf(0) =< EndOf(k) /\ EndOf(0) = FILE_HEADER
        BY <1>1, <4>1, EndsMonotone DEF LogInv, EndOf, Base, IsLegacy
      <4>3. j \in 1 .. low /\ j =< Len(data)
        BY <1>1, <1>2, <3>1, <4>2 DEF FILE_HEADER
      <4>4. QED
        BY <3>6, <4>1, <4>3 DEF LogInv, HasHeader
    <3>8. /\ k > 0 => EndOf(k) =< Len(cells) /\ \A j \in 1 .. EndOf(k) : cells[j] = data[j]
          /\ low =< Len(cells)
          /\ k < Len(recs) => EndOf(k + 1) > low
          /\ recs' = SubSeq(recs, 1, k)
      BY <1>1, <2>0, <2>1, <3>1, <3>2, <3>3, <3>6
    <3> HIDE DEF cells
    <3>9. QED
      BY <1>1, <2>1, <3>4, <3>5, <3>7, <3>8, LogCrash
  <2>4. QED
    BY <1>1, <2>0, <2>2, <2>3
<1>6. QED
  BY <1>4, <1>5 DEF PowerLoss

-----------------------------------------------------------------------------
(* What recovery makes of such a file.                                     *)

LEMMA Verdicts ==
  ASSUME NEW bytes, NEW offset, NEW isLegacy
  PROVE  Verdict(bytes, offset, isLegacy) \in {"replay", "end", "corrupt"}
BY DEF Verdict

(* A v1 header whose length matches its checksum is as it was written: what   *)
(* damage leaves of one of the two does not go with the other.              *)
LEMMA SoundHeaderIsWritten ==
  ASSUME NEW bytes \in Seq(Cell), NEW offset \in Nat, NEW ops \in Seq(Op), NEW worn,
         NEW isLegacy \in BOOLEAN, isLegacy = FALSE,
         KeepsRecord(bytes, offset, ops, isLegacy, worn),
         HeaderPresent(bytes, offset, isLegacy), HeaderSound(bytes, offset, isLegacy)
  PROVE  /\ offset + 3 =< Len(bytes)
         /\ bytes[offset + 1] = EncodeRecord(ops, isLegacy)[1]
         /\ bytes[offset + 2] = EncodeRecord(ops, isLegacy)[2]
         /\ RecordEnd(bytes, offset, isLegacy) = offset + RecordSize(ops, isLegacy)
<1> DEFINE n == Len(ops)
           size == U32(n)
           c1 == bytes[offset + 1]
           c2 == bytes[offset + 2]
<1>1. /\ n \in Nat /\ Len(bytes) \in Nat /\ RecordSize(ops, isLegacy) = 3 + n
      /\ RecordStart(offset, isLegacy) = offset + 3
  BY DEF RecordSize, RecordHeader, RecordStart
<1>2. offset + 3 =< Len(bytes)
  BY <1>1 DEF HeaderPresent
<1>3. EncodeRecord(ops, isLegacy)[1] = size /\ EncodeRecord(ops, isLegacy)[2] = Sum(<<size>>)
  BY RecordCells
<1>4. c1 \in Cell /\ size \in Cell
  <2>1. offset + 1 \in 1 .. Len(bytes)
    BY <1>1, <1>2
  <2>2. c1 \in Cell
    BY <2>1
  <2>3. size \in Cell
    BY <1>1 DEF U32, Cell, DataCell
  <2>4. QED
    BY <2>2, <2>3
<1>5. c2 = Sum(<<c1>>)
  BY DEF HeaderSound
<1>6. Kept(c2, Sum(<<size>>), worn)
  <2>1. 2 \in 1 .. RecordSize(ops, isLegacy) /\ offset + 2 =< Len(bytes)
    BY <1>1, <1>2
  <2>2. QED
    BY <1>3, <2>1 DEF KeepsRecord
<1>7. \A cell : Sum(<<cell>>) # Junk /\ Sum(<<cell>>).tag = "crc"
  <2>1. \A cell : <<cell>> # << >>
    OBVIOUS
  <2>2. QED
    BY <2>1 DEF Sum, Junk
<1>8. c2 = Sum(<<size>>)
  <2> HIDE DEF size, c1, c2
  <2>1. QED
    BY <1>5, <1>6, <1>7 DEF Kept, Worn
<1>9. c1 = size
  <2> HIDE DEF size, c1, c2
  <2>1. <<c1>> \in Seq(Cell) /\ <<size>> \in Seq(Cell) /\ <<c1>> # << >>
    BY <1>4
  <2>2. <<c1>> = <<size>>
    BY <1>5, <1>8, <2>1, SumInjective
  <2>3. QED
    BY <2>2
<1>10. RecordEnd(bytes, offset, isLegacy) = offset + RecordSize(ops, isLegacy)
  <2>1. ReadU32(bytes, offset + 1) = n
    BY <1>9 DEF ReadU32, U32
  <2>2. QED
    BY <1>1, <2>1 DEF RecordEnd
<1>11. QED
  BY <1>2, <1>3, <1>8, <1>9, <1>10

(* A v1 record is replayed only if it is as it was written.                  *)
LEMMA ReplayedIsWritten ==
  ASSUME NEW bytes \in Seq(Cell), NEW offset \in Nat, NEW ops \in Seq(Op), NEW worn,
         NEW isLegacy \in BOOLEAN, isLegacy = FALSE,
         KeepsRecord(bytes, offset, ops, isLegacy, worn),
         Verdict(bytes, offset, isLegacy) = "replay"
  PROVE  /\ offset + RecordSize(ops, isLegacy) =< Len(bytes)
         /\ HoldsRecord(bytes, offset, ops, isLegacy)
<1> DEFINE n == Len(ops)
           m == offset + 3
           rec == EncodeRecord(ops, isLegacy)
           pay == RecordPayload(bytes, offset, isLegacy)
<1>1. /\ HeaderPresent(bytes, offset, isLegacy) /\ HeaderSound(bytes, offset, isLegacy)
      /\ PayloadPresent(bytes, offset, isLegacy) /\ PayloadSound(bytes, offset, isLegacy)
      /\ WellFormed(pay)
  BY DEF Verdict
<1>2. /\ n \in Nat /\ Len(bytes) \in Nat /\ RecordSize(ops, isLegacy) = 3 + n /\ m \in Nat
      /\ RecordStart(offset, isLegacy) = m /\ RecordHeader(isLegacy) = 3
  BY DEF RecordSize, RecordHeader, RecordStart
<1>3. /\ bytes[offset + 1] = rec[1] /\ bytes[offset + 2] = rec[2]
      /\ RecordEnd(bytes, offset, isLegacy) = offset + RecordSize(ops, isLegacy)
  BY <1>1, SoundHeaderIsWritten
<1>4. offset + RecordSize(ops, isLegacy) =< Len(bytes) /\ m + n =< Len(bytes)
  BY <1>1, <1>2, <1>3 DEF PayloadPresent
<1>5. pay \in Seq(Cell) /\ Len(pay) = n /\ \A j \in 1 .. n : pay[j] = bytes[m + j]
  <2>1. /\ m \in Nat /\ n \in Nat /\ m + n =< Len(bytes)
        /\ pay = SubSeq(bytes, m + 1, m + n)
    BY <1>2, <1>3, <1>4 DEF RecordPayload
  <2> HIDE DEF pay, m, n
  <2>2. QED
    BY <2>1, SliceElements
<1>6. rec[3] = Sum(Payload(ops)) /\ \A j \in 1 .. n : rec[3 + j] = OpCell(ops[j])
  BY <1>2, RecordCells
<1>7. ASSUME NEW j \in 1 .. n PROVE pay[j] = OpCell(ops[j])
  <2>1. 3 + j \in 1 .. RecordSize(ops, isLegacy) /\ offset + (3 + j) =< Len(bytes)
        /\ offset + (3 + j) = m + j
    BY <1>2, <1>4
  <2>2. Kept(bytes[offset + (3 + j)], rec[3 + j], worn)
    BY <2>1 DEF KeepsRecord
  <2>3. Kept(pay[j], OpCell(ops[j]), worn)
    BY <1>5, <1>6, <2>1, <2>2
  <2>4. pay[j].tag = "op"
    BY <1>1, <1>5 DEF WellFormed
  <2>5. QED
    BY <2>3, <2>4 DEF Kept, Worn, OpCell, Junk
<1>8. pay = Payload(ops)
  <2>1. Payload(ops) \in Seq(Cell) /\ Len(Payload(ops)) = n
        /\ \A j \in 1 .. n : Payload(ops)[j] = OpCell(ops[j])
    BY PayloadCells
  <2> HIDE DEF pay
  <2>2. QED
    BY <1>5, <1>7, <2>1, SeqEqual
<1>9. bytes[m] = rec[3]
  BY <1>1, <1>2, <1>6, <1>8 DEF PayloadSound
<1>10. ASSUME NEW j \in 1 .. RecordSize(ops, isLegacy) PROVE bytes[offset + j] = rec[j]
  <2>1. CASE j \in {1, 2, 3}
    BY <1>3, <1>9, <2>1
  <2>2. CASE j \notin {1, 2, 3}
    <3>1. PICK i \in 1 .. n : j = 3 + i
      <4>1. j - 3 \in 1 .. n /\ j = 3 + (j - 3)
        BY <1>2, <2>2
      <4>2. QED
        BY <4>1
    <3>2. pay[i] = bytes[m + i] /\ pay[i] = OpCell(ops[i])
      BY <1>5, <1>7
    <3>3. rec[j] = OpCell(ops[i]) /\ m + i = offset + j
      BY <1>2, <1>6, <3>1
    <3>4. QED
      BY <3>2, <3>3
  <2>3. QED
    BY <2>1, <2>2
<1>11. QED
  BY <1>4, <1>10 DEF HoldsRecord

(* The loop ends at a complete v1 record only if it is the last thing in the  *)
(* file and its payload or the checksum of that is damaged.                 *)
LEMMA EndedIsBroken ==
  ASSUME NEW bytes \in Seq(Cell), NEW offset \in Nat, NEW ops \in Seq(Op), NEW worn,
         NEW isLegacy \in BOOLEAN, isLegacy = FALSE, ops # << >>,
         KeepsRecord(bytes, offset, ops, isLegacy, worn),
         offset + RecordSize(ops, isLegacy) =< Len(bytes),
         Verdict(bytes, offset, isLegacy) = "end"
  PROVE  /\ offset + RecordSize(ops, isLegacy) = Len(bytes)
         /\ worn /\ \E j \in 3 .. RecordSize(ops, isLegacy) : bytes[offset + j] = Junk
<1> DEFINE n == Len(ops)
           rec == EncodeRecord(ops, isLegacy)
<1>1. /\ n \in Nat /\ n # 0 /\ Len(bytes) \in Nat /\ RecordSize(ops, isLegacy) = 3 + n
      /\ RecordStart(offset, isLegacy) = offset + 3 /\ RecordHeader(isLegacy) = 3
  BY DEF RecordSize, RecordHeader, RecordStart
<1>2. HeaderPresent(bytes, offset, isLegacy)
  BY <1>1 DEF HeaderPresent
<1>3. HeaderSound(bytes, offset, isLegacy)
  BY <1>2 DEF Verdict
<1>4. /\ bytes[offset + 1] = rec[1] /\ bytes[offset + 2] = rec[2]
      /\ RecordEnd(bytes, offset, isLegacy) = offset + RecordSize(ops, isLegacy)
  BY <1>2, <1>3, SoundHeaderIsWritten
<1>5. PayloadPresent(bytes, offset, isLegacy)
  BY <1>4 DEF PayloadPresent
<1>6. ~PayloadSound(bytes, offset, isLegacy) /\ ~(RecordEnd(bytes, offset, isLegacy) < Len(bytes))
  BY <1>2, <1>3, <1>5 DEF Verdict
<1>7. offset + RecordSize(ops, isLegacy) = Len(bytes)
  BY <1>1, <1>4, <1>6
<1>8. ~HoldsRecord(bytes, offset, ops, isLegacy)
  BY CompleteRecordReplays
<1>9. PICK j \in 1 .. RecordSize(ops, isLegacy) : offset + j =< Len(bytes)
                                                 /\ bytes[offset + j] # rec[j]
  BY <1>8 DEF HoldsRecord
<1>10. j \in 3 .. RecordSize(ops, isLegacy)
  BY <1>1, <1>4, <1>9
<1>11. worn /\ Worn(bytes[offset + j], rec[j])
  BY <1>9 DEF KeepsRecord, Kept
<1>12. rec[j].tag # "u32"
  <2>1. rec[3] = Sum(Payload(ops)) /\ \A i \in 1 .. n : rec[3 + i] = OpCell(ops[i])
    BY <1>1, RecordCells
  <2>2. CASE j = 3
    <3>1. Payload(ops) # << >>
      <4>1. Len(Payload(ops)) = n
        BY PayloadCells
      <4>2. QED
        BY <1>1, <4>1
    <3>2. QED
      BY <2>1, <2>2, <3>1 DEF Sum
  <2>3. CASE j # 3
    <3>1. PICK i \in 1 .. n : j = 3 + i
      <4>1. j - 3 \in 1 .. n /\ j = 3 + (j - 3)
        BY <1>1, <1>10, <2>3
      <4>2. QED
        BY <4>1
    <3>2. rec[j] = OpCell(ops[i])
      BY <2>1, <3>1
    <3> HIDE DEF rec
    <3>3. QED
      BY <3>2 DEF OpCell
  <2>4. QED
    BY <2>2, <2>3
<1>13. QED
  BY <1>7, <1>10, <1>11, <1>12 DEF Worn

(* recover() recognises a file for what it is; unless the header is damaged,   *)
(* it refuses only one whose header was cut off, and that holds no record.   *)
LEMMA Recognised ==
  ASSUME TypeOK, LogInv(Journals), Known
  PROVE  \/ Recognise(file.data) = "new" /\ file.data = << >> /\ recs = << >> /\ ~IsLegacy
         \/ Recognise(file.data) = "v1" /\ ~IsLegacy /\ FILE_HEADER =< Len(file.data)
         \/ Recognise(file.data) = "legacy" /\ IsLegacy
         \/ /\ Recognise(file.data) = "NOT_A_DATABASE"
            /\ ~IsLegacy /\ recs = << >> /\ Len(file.data) < FILE_HEADER
         \/ IsWorn /\ Recognise(file.data) \in {"NOT_A_DATABASE", "UNSUPPORTED_VERSION"}
<1> DEFINE data == file.data
<1>1. data \in Seq(Cell) /\ Len(data) \in Nat /\ Len(recs) \in Nat /\ acked \in Nat
  BY DEF TypeOK
<1>2. ASSUME recs # << >>
      PROVE  /\ recs[1].ops \in Seq(Op) /\ recs[1].ops # << >>
             /\ RecordSize(recs[1].ops, IsLegacy) \in Nat
             /\ RecordSize(recs[1].ops, IsLegacy) > 1
             /\ Base + RecordSize(recs[1].ops, IsLegacy) =< Len(data)
             /\ KeepsRecord(data, Base, recs[1].ops, IsLegacy, IsWorn)
  <2>1. 1 \in 1 .. Len(recs) /\ 1 - 1 = 0
    BY <1>1, <1>2 DEF TypeOK
  <2>2. EndOf(1 - 1) = Base /\ RecordInv(1) /\ recs[1].ops \in Seq(Op)
    BY <2>1, RecordType DEF LogInv, RecordsInv, EndOf
  <2>3. IsLegacy \in BOOLEAN
    BY DEF IsLegacy
  <2>4. QED
    BY <2>2, <2>3, RecordSizeType DEF RecordInv
<1>3. CASE IsLegacy
  <2>1. recs # << >> /\ Base = 0 /\ ~IsWorn
    BY <1>1, <1>3 DEF LogInv, DurableInv, IsLegacy, IsWorn, Base, Known
  <2> DEFINE ops == recs[1].ops
  <2>2. /\ ops \in Seq(Op) /\ ops # << >> /\ IsLegacy \in BOOLEAN /\ IsLegacy = TRUE
        /\ RecordSize(ops, IsLegacy) =< Len(data) /\ KeepsRecord(data, 0, ops, IsLegacy, IsWorn)
    BY <1>2, <1>3, <2>1 DEF IsLegacy
  <2> HIDE DEF ops, data
  <2>3. HoldsRecord(data, 0, ops, IsLegacy)
    <3>1. KeepsRecord(data, 0, ops, IsLegacy, IsWorn)
      BY <2>2
    <3>2. QED
      BY <2>1, <3>1 DEF KeepsRecord, HoldsRecord, Kept
  <2>4. Recognise(data) = "legacy"
    BY <1>1, <2>2, <2>3, LegacyFileRecognised
  <2>5. QED
    BY <1>3, <2>4 DEF data
<1>4. CASE ~IsLegacy
  <2>1. \A j \in 1 .. FILE_HEADER : j =< Len(data) => Kept(data[j], EncodeFileHeader[j], IsWorn)
    BY <1>4 DEF LogInv, HasHeader
  <2>2. CASE data = << >>
    <3>1. recs = << >>
      BY <1>1, <1>2, <1>4, <2>2 DEF Base, FILE_HEADER, IsLegacy
    <3>2. QED
      BY <1>4, <2>2, <3>1 DEF Recognise
  <2>3. CASE data # << >> /\ Len(data) < FILE_HEADER
    <3>1. recs = << >>
      <4>1. SUFFICES ASSUME recs # << >> PROVE FALSE
        OBVIOUS
      <4>2. Base = FILE_HEADER
        BY <1>4 DEF Base, IsLegacy
      <4>3. QED
        BY <1>1, <1>2, <2>3, <4>1, <4>2 DEF FILE_HEADER
    <3>2. QED
      BY <1>4, <2>3, <3>1 DEF Recognise
  <2>4. CASE data # << >> /\ FILE_HEADER =< Len(data)
    <3>1. Kept(data[1], Magic, IsWorn) /\ Kept(data[2], Version(FORMAT_VERSION), IsWorn)
      BY <1>1, <2>1, <2>4, FileHeaderType DEF FILE_HEADER
    <3>2. ~(Len(data) < FILE_HEADER)
      BY <1>1, <2>4 DEF FILE_HEADER
    <3>3. CASE data[1] = Magic
      <4>1. CASE data[2] = Version(FORMAT_VERSION)
        BY <1>4, <2>4, <3>2, <3>3, <4>1 DEF Recognise
      <4>2. CASE data[2] # Version(FORMAT_VERSION)
        <5>1. IsWorn
          BY <3>1, <4>2 DEF Kept
        <5>2. Recognise(data) = "UNSUPPORTED_VERSION"
          BY <2>4, <3>2, <3>3, <4>2 DEF Recognise
        <5>3. QED
          BY <5>1, <5>2
      <4>3. QED
        BY <4>1, <4>2
    <3>4. CASE data[1] # Magic
      <4>1. IsWorn /\ data[1] = Junk
        BY <3>1, <3>4 DEF Kept, Worn, Magic
      <4>2. ReadU32(data, 1) = Len(data)
        BY <4>1 DEF ReadU32, Junk
      <4>3. ~PayloadPresent(data, 0, TRUE)
        <5>1. RecordEnd(data, 0, TRUE) = 2 + Len(data)
          BY <1>1, <4>2 DEF RecordEnd, RecordStart, RecordHeader
        <5>2. ~(2 + Len(data) =< Len(data))
          BY <1>1
        <5>3. QED
          BY <5>1, <5>2, Zenon DEF PayloadPresent
      <4>4. ~IsLegacyLog(data)
        BY <4>3 DEF IsLegacyLog
      <4>5. Recognise(data) = "NOT_A_DATABASE"
        BY <2>4, <3>2, <3>4, <4>4 DEF Recognise
      <4>6. QED
        BY <4>1, <4>5
    <3>5. QED
      BY <3>3, <3>4
  <2>5. QED
    BY <1>1, <2>2, <2>3, <2>4 DEF FILE_HEADER
<1>5. QED
  BY <1>3, <1>4

(* The loop replays the records that are as they were written, and ends       *)
(* behind the last one, or at it if it is broken.  Damage it meets before     *)
(* that, and no other file, it takes for a corrupt one.                      *)
LEMMA Replays ==
  ASSUME TypeInv, LogInv(Journals), RecoveryInv, Known, pc = "replay"
  PROVE  \/ /\ replayed < Len(recs)
            /\ Verdict(log, pos, legacy) = "replay"
            /\ OpsOf(RecordPayload(log, pos, legacy)) = recs[replayed + 1].ops
            /\ RecordEnd(log, pos, legacy) = EndOf(replayed + 1)
            /\ Intact(replayed + 1)
         \/ replayed = Len(recs) /\ Verdict(log, pos, legacy) = "end"
         \/ /\ Verdict(log, pos, legacy) = "end"
            /\ replayed + 1 = Len(recs) /\ pos < Len(file.data)
            /\ Broken(file.data, pos, recs[Len(recs)].ops)
         \/ Verdict(log, pos, legacy) = "corrupt" /\ IsWorn
<1>1. /\ TypeOK /\ log = file.data /\ legacy = IsLegacy /\ replayed =< Len(recs)
      /\ pos = EndOf(replayed) /\ pos =< Len(file.data)
  BY DEF TypeInv, RecoveryInv
<1>2. /\ log \in Seq(Cell) /\ pos \in Nat /\ legacy \in BOOLEAN /\ replayed \in Nat
      /\ Len(recs) \in Nat /\ Len(log) \in Nat
  BY <1>1 DEF TypeOK
<1>3. Verdict(log, pos, legacy) \in {"replay", "end", "corrupt"}
  BY Verdicts
<1>4. IsWorn => legacy = FALSE
  BY <1>1 DEF Known, IsLegacy
<1>5. CASE replayed < Len(recs)
  <2>1. replayed + 1 \in 1 .. Len(recs) /\ replayed + 1 - 1 = replayed /\ replayed + 1 # 0
    BY <1>2, <1>5
  <2> DEFINE ops == recs[replayed + 1].ops
  <2>2. /\ EndOf(replayed + 1) = pos + RecordSize(ops, legacy)
        /\ EndOf(replayed + 1) =< Len(log)
        /\ KeepsRecord(log, pos, ops, legacy, IsWorn)
        /\ HoldsRecord(log, pos, ops, legacy) => Intact(replayed + 1)
        /\ ops # << >>
    <3>1. EndOf(replayed + 1) = recs[replayed + 1].end /\ RecordInv(replayed + 1)
      BY <2>1 DEF LogInv, RecordsInv, EndOf
    <3>2. EndOf(replayed + 1 - 1) = pos
      BY <1>1, <2>1
    <3>3. QED
      BY <1>1, <1>2, <3>1, <3>2 DEF RecordInv, Intact
  <2>3. ops \in Seq(Op) /\ pos + RecordSize(ops, legacy) =< Len(log)
    BY <1>1, <2>1, <2>2, RecordType
  <2> HIDE DEF ops
  <2>4. ASSUME HoldsRecord(log, pos, ops, legacy)
        PROVE  /\ Verdict(log, pos, legacy) = "replay"
               /\ RecordEnd(log, pos, legacy) = pos + RecordSize(ops, legacy)
               /\ OpsOf(RecordPayload(log, pos, legacy)) = ops
    BY <1>2, <2>3, <2>4, CompleteRecordReplays
  <2>5. ~HoldsRecord(log, pos, ops, legacy) => IsWorn
    <3>1. SUFFICES ASSUME ~IsWorn PROVE HoldsRecord(log, pos, ops, legacy)
      OBVIOUS
    <3>2. QED
      BY <2>2, <3>1, UnwornIsHeld
  <2>6. CASE HoldsRecord(log, pos, ops, legacy)
    BY <1>5, <2>2, <2>4, <2>6 DEF ops
  <2>7. CASE ~HoldsRecord(log, pos, ops, legacy)
    <3>1. IsWorn /\ legacy = FALSE
      BY <1>4, <2>5, <2>7
    <3>2. Verdict(log, pos, legacy) # "replay"
      BY <1>2, <2>2, <2>3, <2>7, <3>1, ReplayedIsWritten
    <3>3. CASE Verdict(log, pos, legacy) = "end"
      <4>1. /\ pos + RecordSize(ops, legacy) = Len(log)
            /\ \E j \in 3 .. RecordSize(ops, legacy) : log[pos + j] = Junk
        BY <1>2, <2>2, <2>3, <3>1, <3>3, EndedIsBroken
      <4>2. replayed + 1 = Len(recs)
        <5>1. SUFFICES ASSUME replayed + 1 < Len(recs) PROVE FALSE
          BY <1>2, <1>5
        <5>2. Len(recs) \in 1 .. Len(recs) /\ Len(recs) # 0
          BY <1>2, <5>1
        <5>3. EndOf(replayed + 1) < EndOf(Len(recs)) /\ EndOf(Len(recs)) =< Len(log)
              /\ EndOf(Len(recs)) \in Nat
          <6>1. EndOf(replayed + 1) < EndOf(Len(recs))
            BY <1>2, <5>1 DEF LogInv, RecordsInv
          <6>2. RecordInv(Len(recs)) /\ EndOf(Len(recs)) = recs[Len(recs)].end
            BY <5>2 DEF LogInv, RecordsInv, EndOf
          <6>3. EndOf(Len(recs)) \in Nat
            BY <1>1, <5>2, <6>2, RecordType
          <6>4. QED
            BY <1>1, <6>1, <6>2, <6>3 DEF RecordInv
        <5>4. QED
          BY <1>2, <2>2, <4>1, <5>3
      <4>3. RecordSize(ops, legacy) > 1 /\ RecordSize(ops, legacy) \in Nat
        BY <1>2, <2>3, RecordSizeType
      <4>4. pos < Len(log)
        BY <1>2, <4>1, <4>3
      <4>5. Broken(file.data, pos, ops)
        <5>1. PICK j \in 3 .. RecordSize(ops, legacy) : log[pos + j] = Junk
          BY <4>1
        <5>2. pos + j =< Len(log)
          BY <1>2, <4>1, <4>3
        <5>3. QED
          BY <1>1, <3>1, <5>1, <5>2 DEF Broken
      <4>6. QED
        BY <1>1, <3>3, <4>2, <4>4, <4>5 DEF ops
    <3>4. QED
      BY <1>3, <3>1, <3>2, <3>3
  <2>8. QED
    BY <2>6, <2>7
<1>6. CASE replayed = Len(recs)
  <2>1. Torn(Journals, log, pos)
    BY <1>1, <1>6 DEF LogInv, TailInv, LogEnd
  <2>2. CASE Len(log) > pos
    <3>1. PICK ops \in Journals : /\ KeepsRecord(log, pos, ops, legacy, IsWorn)
                                  /\ \/ Len(log) < pos + RecordSize(ops, legacy)
                                     \/ Broken(log, pos, ops)
      BY <1>1, <2>1, <2>2 DEF Torn
    <3>2. ops \in Seq(Op) /\ RecordSize(ops, legacy) \in Nat /\ RecordSize(ops, legacy) > 1
      BY <1>2, RecordSizeType DEF Journals
    <3>3. CASE IsWorn
      <4>1. Verdict(log, pos, legacy) # "replay"
        <5>1. SUFFICES ASSUME Verdict(log, pos, legacy) = "replay" PROVE FALSE
          OBVIOUS
        <5>2. /\ pos + RecordSize(ops, legacy) =< Len(log)
              /\ HoldsRecord(log, pos, ops, legacy)
          BY <1>2, <1>4, <3>1, <3>2, <3>3, <5>1, ReplayedIsWritten
        <5>3. Broken(log, pos, ops)
          BY <1>2, <3>1, <3>2, <5>2
        <5>4. PICK j \in 3 .. RecordSize(ops, legacy) : pos + j =< Len(log) /\ log[pos + j] = Junk
          BY <1>1, <5>3 DEF Broken
        <5>5. j \in 1 .. RecordSize(ops, legacy)
          BY <3>2
        <5>6. EncodeRecord(ops, legacy)[j] # Junk
          BY <1>2, <3>2, <5>5, NeverJunk
        <5>7. QED
          BY <5>2, <5>4, <5>5, <5>6 DEF HoldsRecord
      <4>2. QED
        BY <1>3, <1>6, <3>3, <4>1
    <3>4. CASE ~IsWorn
      <4>2. HoldsRecord(log, pos, ops, legacy)
        BY <3>1, <3>4, UnwornIsHeld
      <4>3. Len(log) < pos + RecordSize(ops, legacy)
        BY <3>1, <3>4 DEF Broken
      <4>4. QED
        BY <1>2, <1>6, <3>2, <4>2, <4>3, TornRecordEnds
    <3>5. QED
      BY <3>3, <3>4
  <2>3. CASE Len(log) =< pos
    <3>1. ~HeaderPresent(log, pos, legacy)
      BY <1>2, <2>3 DEF HeaderPresent, RecordStart, RecordHeader
    <3>2. QED
      BY <1>6, <3>1 DEF Verdict
  <2>4. QED
    BY <1>2, <2>2, <2>3
<1>7. QED
  BY <1>1, <1>2, <1>5, <1>6

-----------------------------------------------------------------------------
(* The invariant.                                                          *)

LEMMA InitIInv == Init => IInv(Journals)
<1> SUFFICES ASSUME Init PROVE Sound(Journals) /\ CostInv
  BY DEF IInv
<1>0. CostInv
  <2>1. lost = 0 /\ rot = 0 /\ 0 =< 0
    BY DEF Init
  <2>2. origin = "new" => recs = << >> /\ Len(recs) = 0
    BY DEF Init
  <2>3. origin = "new" => AllIntact
    BY <2>2 DEF AllIntact
  <2>4. QED
    BY <2>1, <2>3 DEF CostInv
<1>4. SUFFICES ASSUME Known PROVE Sound(Journals)
  BY <1>0 DEF Sound
<1>1. TypeOK /\ origin \in {"new", "legacy"} /\ ~failed /\ pc = "down" /\ refusal = "none"
      /\ lost = 0 /\ acked = Len(recs) /\ ~needsHeader /\ replayed = 0 /\ entries = EmptyStore
  <2>1. TypeOK
    BY InitTypeInv DEF TypeInv
  <2>2. origin \in {"new", "legacy"}
    BY <1>4, <2>1 DEF TypeOK, Known
  <2>3. QED
    BY <2>1, <2>2 DEF Init
<1>2. LogInv(Journals)
  <2>1. CASE origin = "new"
    <3>1. recs = << >> /\ file.data = << >> /\ file.synced = << >> /\ file.low = 0 /\ Len(recs) = 0
      BY <1>1, <2>1 DEF Init, AtRest
    <3>2. ~IsLegacy /\ LogEnd = 2
      BY <2>1, <3>1 DEF IsLegacy, LogEnd, EndOf, Base, FILE_HEADER
    <3>3. QED
      BY <1>1, <3>1, <3>2 DEF LogInv, RecordsInv, HasHeader, DurableInv, TailInv, Torn
  <2>2. CASE origin = "legacy"
    <3>1. PICK ops \in LegacyJournals :
            /\ file = AtRest(EncodeRecord(ops, TRUE))
            /\ recs = <<[ops |-> ops, state |-> ApplyOps(EmptyStore, ops),
                         end |-> Len(EncodeRecord(ops, TRUE))]>>
      BY <2>2 DEF Init
    <3> DEFINE rec == EncodeRecord(ops, TRUE)
               size == RecordSize(ops, IsLegacy)
    <3>2. ops \in Seq(Op) /\ ops # << >> /\ IsLegacy = TRUE /\ IsLegacy \in BOOLEAN
      BY <2>2, <3>1, LegacyAssumption DEF IsLegacy
    <3>3. rec = EncodeRecord(ops, IsLegacy)
      BY <3>2
    <3>4. /\ rec \in Seq(Cell) /\ Len(rec) = size /\ size \in Nat /\ size > 1
      BY <3>2, <3>3, RecordCells, RecordSizeType
    <3> HIDE DEF rec, size
    <3>5. /\ file.data = rec /\ file.synced = rec /\ file.low = size
          /\ recs[1].ops = ops /\ recs[1].state = ApplyOps(EmptyStore, ops) /\ recs[1].end = size
          /\ Len(recs) = 1
      BY <3>1, <3>4 DEF AtRest, rec
    <3>6. EndOf(0) = 0 /\ EndOf(1) = size /\ LogEnd = size /\ StateAt(0) = EmptyStore
      BY <2>2, <3>5 DEF EndOf, StateAt, LogEnd, Base
    <3>7. HoldsRecord(file.data, 0, ops, IsLegacy)
      <4>1. \A j \in 1 .. size : 0 + j = j
        BY <3>4
      <4>2. QED
        BY <3>3, <3>5, <4>1 DEF HoldsRecord, size
    <3>8. RecordInv(1)
      <4>1. 1 - 1 = 0
        OBVIOUS
      <4>2. recs[1].end = 0 + RecordSize(ops, IsLegacy)
        BY <3>4, <3>5 DEF size
      <4>3. ops # << >> /\ size =< size
        BY <3>2, <3>4
      <4>4. QED
        BY <3>4, <3>5, <3>6, <3>7, <4>1, <4>2, <4>3, HeldIsKept DEF RecordInv
    <3>9. RecordsInv
      <4>1. \A i \in 1 .. Len(recs) : i = 1
        BY <3>5
      <4>2. \A i, j \in 0 .. Len(recs) : i < j => i = 0 /\ j = 1
        BY <3>5
      <4>3. QED
        BY <3>4, <3>6, <3>8, <4>1, <4>2 DEF RecordsInv
    <3>10. DurableInv
      BY <1>1, <3>4, <3>5 DEF DurableInv
    <3>11. HasHeader(file.data) /\ TailInv(Journals)
      <4>1. IsLegacy
        BY <2>2 DEF IsLegacy
      <4>2. ~(Len(file.data) > LogEnd) /\ ~(Len(file.synced) > file.low)
        BY <3>4, <3>5, <3>6
      <4>3. HasHeader(file.data)
        BY <4>1, Zenon DEF HasHeader
      <4>4. QED
        BY <4>2, <4>3, Zenon DEF TailInv, Torn
    <3>12. QED
      BY <3>9, <3>10, <3>11 DEF LogInv
  <2>3. QED
    BY <1>1, <2>1, <2>2
<1>3. QED
  BY <1>1, <1>2 DEF Sound, RecoveryInv, InstanceInv, InstanceIsOpen, RefusalInv, StoreIsLogged,
     RefusalLosesNothing

(* What IInv says apart from the log itself.                               *)
StateInv == RecoveryInv /\ InstanceInv /\ RefusalInv /\ StoreIsLogged

(* Nothing is left of an instance that is gone.                            *)
LEMMA NoInstanceInv ==
  ASSUME NoInstance
  PROVE  StateInv'
BY DEF NoInstance, StateInv, RecoveryInv, InstanceInv, InstanceIsOpen, RefusalInv, StoreIsLogged

(* An open that returns shows the store of all records.                     *)
LEMMA OpenedInv ==
  ASSUME TypeOK, NEW store, NEW isNew \in BOOLEAN, NEW isLegacy \in BOOLEAN,
         Opened(store, isNew, isLegacy), UNCHANGED <<file, recs, origin>>, refusal = "none",
         store = StateAt(Len(recs)), isLegacy = IsLegacy,
         isNew => ~IsLegacy /\ recs = << >> /\ Len(file.data) = 0,
         ~isNew => Len(file.data) = LogEnd
  PROVE  StateInv'
<1>1. /\ pc' = "idle" /\ committed' = store /\ needsHeader' = isNew /\ legacy' = isLegacy
      /\ failed' = FALSE /\ refusal' = "none"
  BY DEF Opened
<1>2. IsLegacy' = IsLegacy /\ LogEnd' = LogEnd /\ StateAt(Len(recs))' = StateAt(Len(recs))
  BY DEF IsLegacy, LogEnd, EndOf, Base, StateAt
<1>3. RecoveryInv' /\ RefusalInv' /\ StoreIsLogged'
  BY <1>1, <1>2 DEF RecoveryInv, RefusalInv, StoreIsLogged
<1>4. InstanceInv'
  BY <1>1, <1>2 DEF InstanceInv
<1>5. QED
  BY <1>3, <1>4 DEF StateInv

(* The conjuncts of Sound, for a file it is about.                          *)
Safe ==
  /\ Known
  /\ LogInv(Journals) /\ StateInv /\ RefusalLosesNothing

(* Opening and recovering.                                                 *)
LEMMA OpeningSafe ==
  ASSUME TypeInv, TypeOK', Safe,
         OpenFile \/ Recovering \/ OpenFails \/ ReadShort \/ RecoveryThrows
  PROVE  Safe'
<1>1. TypeOK /\ (pc # "down" => refusal = "none") /\ (failed => pc = "idle")
  BY DEF TypeInv, Safe, StateInv, RefusalInv, InstanceInv
<1>0. UNCHANGED <<origin, rot>> /\ Known' /\ IsLegacy' = IsLegacy /\ IsWorn' = IsWorn
  <2>1. UNCHANGED <<origin, rot>>
    BY DEF OpenFile, OpenFails, Recovering, ReadShort, RecoveryThrows, ReadLog, ReplayRecord, ReplayCorrupt,
           ReplayEnd, Truncate, SyncTruncation, Notify, historyVars
  <2>2. QED
    BY <2>1 DEF Safe, Known, IsLegacy, IsWorn
<1>2. CASE OpenFile \/ OpenFails
  <2>1. UNCHANGED <<file, recs, acked, lost, origin, rot>>
    BY <1>2 DEF OpenFile, OpenFails, historyVars
  <2>2. LogInv(Journals)'
    BY <2>1, LogUnchanged DEF Safe
  <2>3. StateInv' /\ RefusalLosesNothing'
    BY <1>1, <1>2 DEF OpenFile, OpenFails, instanceVars, Safe, StateInv, RecoveryInv, InstanceInv,
                      InstanceIsOpen, RefusalInv, StoreIsLogged, RefusalLosesNothing
  <2>4. QED
    BY <1>0, <2>2, <2>3 DEF Safe
<1>3. CASE ReadLog
  <2>1. UNCHANGED <<file, recs, acked, lost, origin, rot>> /\ pc = "read" /\ refusal = "none"
    BY <1>1, <1>3 DEF ReadLog, historyVars
  <2>2. LogInv(Journals)'
    BY <2>1, LogUnchanged DEF Safe
  <2>3. replayed = 0 /\ entries = EmptyStore /\ ~needsHeader /\ ~failed
    BY <1>1, <2>1 DEF Safe, StateInv, RecoveryInv
  <2>4. CASE Recognise(file.data) = "new"
    <3>1. Opened(EmptyStore, TRUE, FALSE)
      BY <1>3, <2>4 DEF ReadLog
    <3>2. file.data = << >> /\ recs = << >> /\ ~IsLegacy
      BY <1>1, <2>4, Recognised DEF Safe
    <3>3. EmptyStore = StateAt(Len(recs)) /\ Len(file.data) = 0 /\ FALSE = IsLegacy
      BY <3>2 DEF StateAt, IsLegacy
    <3>4. PICK isNew \in BOOLEAN, isLegacy \in BOOLEAN : isNew = TRUE /\ isLegacy = FALSE
      OBVIOUS
    <3>5. StateInv'
      BY <1>1, <2>1, <3>1, <3>2, <3>3, <3>4, OpenedInv
    <3>6. RefusalLosesNothing'
      BY <2>1, <3>1 DEF Opened, RefusalLosesNothing
    <3>7. QED
      BY <1>0, <2>2, <3>5, <3>6 DEF Safe
  <2>5. CASE Recognise(file.data) \in {"v1", "legacy"}
    <3>1. /\ pc' = "replay" /\ legacy' = (Recognise(file.data) = "legacy")
          /\ pos' = IF Recognise(file.data) = "legacy" THEN 0 ELSE FILE_HEADER
          /\ UNCHANGED <<refusal, entries, replayed, needsHeader, committed, failed>>
      BY <1>3, <2>5 DEF ReadLog
    <3>2. legacy' = IsLegacy /\ pos' = Base /\ Base =< Len(file.data)
      <4>1. Len(file.data) \in Nat
        BY <1>1, FileType
      <4>2. CASE Recognise(file.data) = "v1"
        <5>1. ~IsLegacy /\ FILE_HEADER =< Len(file.data)
          BY <1>1, <4>2, Recognised DEF Safe
        <5>2. QED
          BY <3>1, <4>2, <5>1 DEF IsLegacy, Base
      <4>3. CASE Recognise(file.data) = "legacy"
        <5>1. IsLegacy
          BY <1>1, <4>3, Recognised DEF Safe
        <5>2. QED
          BY <3>1, <4>1, <4>3, <5>1 DEF IsLegacy, Base
      <4>4. QED
        BY <2>5, <4>2, <4>3
    <3>3. EndOf(0)' = Base /\ StateAt(0)' = EmptyStore /\ Len(recs) \in Nat
      BY <1>1, <2>1 DEF EndOf, StateAt, Base, TypeOK
    <3>4. RecoveryInv'
      BY <2>1, <2>3, <3>1, <3>2, <3>3 DEF RecoveryInv, IsLegacy
    <3>5. InstanceInv' /\ RefusalInv' /\ StoreIsLogged' /\ RefusalLosesNothing'
      BY <2>1, <2>3, <3>1 DEF InstanceInv, InstanceIsOpen, RefusalInv, StoreIsLogged,
                              RefusalLosesNothing
    <3>6. QED
      BY <1>0, <2>2, <3>4, <3>5 DEF Safe, StateInv
  <2>6. CASE Recognise(file.data) \in {"NOT_A_DATABASE", "UNSUPPORTED_VERSION"}
    <3>1. Refuse(Recognise(file.data))
      BY <1>3, <2>6 DEF ReadLog
    <3>2. \/ /\ Recognise(file.data) = "NOT_A_DATABASE"
             /\ ~IsLegacy /\ recs = << >> /\ Len(file.data) < FILE_HEADER
          \/ IsWorn
      BY <1>1, <2>6, Recognised DEF Safe
    <3>3. recs = << >> => acked = 0
      BY <1>1 DEF Safe, LogInv, DurableInv, TypeOK
    <3>4. StateInv'
      BY <3>1, NoInstanceInv DEF Refuse
    <3>5. RefusalLosesNothing'
      BY <2>1, <3>1, <3>2, <3>3 DEF Refuse, RefusalLosesNothing, Undamaged, IsWorn
    <3>6. QED
      BY <1>0, <2>2, <3>4, <3>5 DEF Safe
  <2>7. QED
    BY <1>3, <2>4, <2>5, <2>6 DEF ReadLog
<1>4. CASE ReplayRecord
  <2>1. UNCHANGED <<file, recs, acked, lost, origin, rot, pc, refusal, legacy, needsHeader,
                    committed, failed>>
        /\ pc = "replay" /\ refusal = "none" /\ ~failed
    BY <1>1, <1>4 DEF ReplayRecord, historyVars, instanceVars
  <2>2. LogInv(Journals)'
    BY <2>1, LogUnchanged DEF Safe
  <2>3. /\ replayed < Len(recs)
        /\ OpsOf(RecordPayload(log, pos, legacy)) = recs[replayed + 1].ops
        /\ RecordEnd(log, pos, legacy) = EndOf(replayed + 1)
        /\ Intact(replayed + 1)
    BY <1>4, <2>1, Replays DEF Safe, StateInv, ReplayRecord
  <2>4. PICK n \in Nat : n = replayed + 1
    BY <1>1 DEF TypeOK
  <2>5. n \in 1 .. Len(recs) /\ n - 1 = replayed /\ n # 0 /\ n \in 0 .. Len(recs)
    <3>1. replayed \in Nat /\ Len(recs) \in Nat
      BY <1>1 DEF TypeOK
    <3>2. QED
      BY <2>3, <2>4, <3>1
  <2>6. pos' = EndOf(n) /\ replayed' = n /\ EndOf(n) =< Len(file.data)
    BY <1>4, <2>3, <2>4, <2>5 DEF ReplayRecord, Safe, LogInv, RecordsInv, RecordInv, EndOf
  <2>7. entries' = StateAt(n)
    <3>1. recs[n].state = ApplyOps(StateAt(n - 1), recs[n].ops)
      BY <2>5 DEF Safe, LogInv, RecordsInv, RecordInv
    <3>2. entries = StateAt(n - 1)
      BY <2>1, <2>5 DEF Safe, StateInv, RecoveryInv
    <3>3. entries' = ApplyOps(entries, recs[n].ops)
      BY <1>4, <2>3, <2>4 DEF ReplayRecord
    <3>4. QED
      BY <2>5, <3>1, <3>2, <3>3 DEF StateAt
  <2>8. EndOf(n)' = EndOf(n) /\ StateAt(n)' = StateAt(n)
    BY <2>1 DEF EndOf, StateAt, Base
  <2>12. \A i \in 1 .. n : Intact(i)'
    <3>1. SUFFICES ASSUME NEW i \in 1 .. n PROVE Intact(i)
      BY <2>1 DEF Intact, EndOf, Base, IsLegacy
    <3>2. \A m \in 1 .. replayed : Intact(m)
      BY <2>1 DEF Safe, StateInv, RecoveryInv
    <3>3. i \in 1 .. replayed \/ i = replayed + 1
      BY <2>4, <2>5
    <3>4. QED
      BY <2>3, <3>2, <3>3
  <2>9. RecoveryInv'
    BY <2>1, <2>5, <2>6, <2>7, <2>8, <2>12 DEF RecoveryInv, Safe, StateInv, IsLegacy
  <2>10. InstanceInv' /\ RefusalInv' /\ StoreIsLogged' /\ RefusalLosesNothing'
    BY <2>1 DEF InstanceInv, InstanceIsOpen, RefusalInv, StoreIsLogged, RefusalLosesNothing
  <2>11. QED
    BY <1>0, <2>2, <2>9, <2>10 DEF Safe, StateInv
<1>5. CASE ReplayCorrupt
  <2>1. UNCHANGED <<file, recs, acked, lost, origin, rot>> /\ NoInstance /\ pc = "replay"
    BY <1>5 DEF ReplayCorrupt, Refuse, historyVars
  <2>2. IsWorn
    BY <1>5, <2>1, Replays DEF ReplayCorrupt, Safe, StateInv
  <2>3. LogInv(Journals)'
    BY <2>1, LogUnchanged DEF Safe
  <2>4. StateInv'
    BY <2>1, NoInstanceInv
  <2>5. RefusalLosesNothing'
    BY <2>1, <2>2 DEF RefusalLosesNothing, Undamaged, IsWorn
  <2>6. QED
    BY <1>0, <2>3, <2>4, <2>5 DEF Safe
<1>6. CASE ReplayEnd
  <2>1. UNCHANGED <<file, recs, acked, lost, origin, rot>> /\ pc = "replay" /\ refusal = "none"
        /\ ~failed
    BY <1>1, <1>6 DEF ReplayEnd, historyVars
  <2>2. LogInv(Journals)'
    BY <2>1, LogUnchanged DEF Safe
  <2>3. /\ \/ replayed = Len(recs)
           \/ /\ replayed + 1 = Len(recs) /\ pos < Len(file.data)
              /\ Broken(file.data, pos, recs[Len(recs)].ops)
        /\ legacy = IsLegacy /\ ~needsHeader /\ pos = EndOf(replayed) /\ pos =< Len(file.data)
        /\ entries = StateAt(replayed) /\ log = file.data /\ replayed =< Len(recs)
        /\ \A i \in 1 .. replayed : Intact(i)
    BY <1>6, <2>1, Replays DEF ReplayEnd, Safe, StateInv, RecoveryInv, TypeInv
  <2>4. CASE pos < Len(log)
    <3>1. pc' = "truncate" /\ UNCHANGED <<refusal, legacy, needsHeader, pos, entries, replayed,
                                          committed, failed>>
      BY <1>6, <2>4 DEF ReplayEnd, recoveryVars, instanceVars
    <3>5. /\ EndOf(replayed)' = EndOf(replayed) /\ StateAt(replayed)' = StateAt(replayed)
          /\ \A i \in 1 .. replayed : Intact(i)'
          /\ Broken(file.data, pos, recs[Len(recs)].ops) =>
               Broken(file.data, pos, recs[Len(recs)].ops)'
      BY <1>0, <2>1, <2>3, <3>1 DEF EndOf, StateAt, Base, Intact, Broken
    <3>2. RecoveryInv'
      BY <1>0, <2>1, <2>3, <3>1, <3>5 DEF RecoveryInv
    <3>3. InstanceInv' /\ RefusalInv' /\ StoreIsLogged' /\ RefusalLosesNothing'
      BY <2>1, <3>1 DEF InstanceInv, InstanceIsOpen, RefusalInv, StoreIsLogged,
                        RefusalLosesNothing
    <3>4. QED
      BY <1>0, <2>2, <3>2, <3>3 DEF Safe, StateInv
  <2>5. CASE ~(pos < Len(log))
    <3>1. Opened(entries, FALSE, legacy)
      BY <1>6, <2>5 DEF ReplayEnd
    <3>2. Len(file.data) = LogEnd /\ entries = StateAt(Len(recs)) /\ legacy \in BOOLEAN
      BY <1>1, <2>3, <2>5 DEF LogEnd, TypeOK
    <3>3. StateInv'
      <4>1. PICK isNew \in BOOLEAN : isNew = FALSE
        OBVIOUS
      <4>2. QED
        BY <1>1, <2>1, <2>3, <3>1, <3>2, <4>1, OpenedInv
    <3>4. RefusalLosesNothing'
      BY <2>1, <3>1 DEF Opened, RefusalLosesNothing
    <3>5. QED
      BY <1>0, <2>2, <3>3, <3>4 DEF Safe
  <2>6. QED
    BY <2>4, <2>5
<1>7. CASE Truncate
  <2>1. pc = "truncate" /\ pc' = "sync" /\ refusal = "none" /\ ~failed
        /\ UNCHANGED <<refusal, legacy, needsHeader, pos, entries, replayed, committed, failed>>
    BY <1>1, <1>7 DEF Truncate, recoveryVars, instanceVars
  <2>2. /\ LogInv(Journals)' /\ AllIntact' /\ Len(file'.data) = pos /\ Len(recs') = replayed
        /\ EndOf(replayed)' = pos /\ StateAt(replayed)' = entries
    BY <1>7, LogTruncated DEF Safe, StateInv
  <2>3. legacy = IsLegacy /\ ~needsHeader /\ pos \in Nat /\ replayed \in Nat
    BY <1>1, <2>1 DEF Safe, StateInv, RecoveryInv, TypeOK
  <2>4. RecoveryInv'
    BY <1>0, <2>1, <2>2, <2>3 DEF RecoveryInv, AllIntact
  <2>5. InstanceInv' /\ RefusalInv' /\ StoreIsLogged' /\ RefusalLosesNothing'
    BY <2>1 DEF InstanceInv, InstanceIsOpen, RefusalInv, StoreIsLogged, RefusalLosesNothing
  <2>6. QED
    BY <1>0, <2>2, <2>4, <2>5 DEF Safe, StateInv
<1>8. CASE SyncTruncation
  <2>1. pc = "sync" /\ pc' = "notify" /\ refusal = "none" /\ ~failed /\ file' = Fsynced(file)
        /\ UNCHANGED <<refusal, legacy, needsHeader, pos, entries, replayed, committed, failed,
                       origin, recs, acked, lost, rot>>
    BY <1>1, <1>8 DEF SyncTruncation, recoveryVars, instanceVars, historyVars
  <2>2. LogInv(Journals)' /\ file'.data = file.data
    BY <1>1, <2>1, LogFsynced DEF Safe, Fsynced, AtRest
  <2>3. RecoveryInv'
    BY <2>1, <2>2 DEF Safe, StateInv, RecoveryInv, Intact, IsLegacy, EndOf, StateAt, Base
  <2>4. InstanceInv' /\ RefusalInv' /\ StoreIsLogged' /\ RefusalLosesNothing'
    BY <2>1 DEF InstanceInv, InstanceIsOpen, RefusalInv, StoreIsLogged, RefusalLosesNothing
  <2>5. QED
    BY <1>0, <2>2, <2>3, <2>4 DEF Safe, StateInv
<1>9. CASE Notify
  <2>1. UNCHANGED <<file, recs, acked, lost, origin, rot>> /\ pc = "notify" /\ refusal = "none"
        /\ Opened(entries, FALSE, legacy)
    BY <1>1, <1>9 DEF Notify, historyVars
  <2>2. LogInv(Journals)'
    BY <2>1, LogUnchanged DEF Safe
  <2>3. Len(file.data) = LogEnd /\ entries = StateAt(Len(recs)) /\ legacy \in BOOLEAN
        /\ legacy = IsLegacy
    BY <1>1, <2>1 DEF Safe, StateInv, RecoveryInv, LogEnd, TypeOK
  <2>4. StateInv'
    <3>1. PICK isNew \in BOOLEAN : isNew = FALSE
      OBVIOUS
    <3>2. QED
      BY <1>1, <2>1, <2>3, <3>1, OpenedInv
  <2>5. RefusalLosesNothing'
    BY <2>1 DEF Opened, RefusalLosesNothing
  <2>6. QED
    BY <1>0, <2>2, <2>4, <2>5 DEF Safe
<1>10. CASE ReadShort \/ RecoveryThrows
  <2>1. UNCHANGED <<file, recs, acked, lost, origin, rot>> /\ NoInstance
        /\ refusal' \in {"INCOMPLETE_READ", "IO", "CALLBACK"}
    BY <1>10 DEF ReadShort, RecoveryThrows, Refuse, historyVars
  <2>2. LogInv(Journals)'
    BY <2>1, LogUnchanged DEF Safe
  <2>3. StateInv' /\ RefusalLosesNothing'
    BY <2>1, NoInstanceInv DEF RefusalLosesNothing
  <2>4. QED
    BY <1>0, <2>2, <2>3 DEF Safe
<1>11. QED
  BY <1>2, <1>3, <1>4, <1>5, <1>6, <1>7, <1>8, <1>9, <1>10 DEF Recovering

(* Transactions and their commits.                                         *)
LEMMA TransactSafe ==
  ASSUME TypeInv, TypeOK', JournalRedoesWorking, Safe,
         \/ Begin \/ (\E op \in Op : Mutate(op)) \/ Abort \/ CommitEmpty \/ StartAppend
         \/ Committing \/ CommitFails
  PROVE  Safe'
<1>1. TypeOK /\ InstanceIsOpen /\ refusal = "none"
  <2>1. InstanceIsOpen /\ pc # "down"
    BY DEF InstanceIsOpen, Begin, Mutate, Abort, CommitEmpty, StartAppend, Committing,
           WriteCell, FsyncCommit, Install, CommitFails
  <2>2. QED
    BY <2>1 DEF TypeInv, Safe, StateInv, RefusalInv
<1>2. legacy = IsLegacy /\ (failed => pc = "idle")
      /\ (needsHeader /\ ~failed => ~IsLegacy /\ recs = << >>)
  BY <1>1 DEF Safe, StateInv, InstanceInv
<1>3. refusal' = "none" /\ UNCHANGED <<origin, rot>> /\ InstanceIsOpen' /\ legacy' = IsLegacy'
  BY <1>1, <1>2 DEF InstanceIsOpen, Begin, Mutate, Abort, CommitEmpty, StartAppend, Committing,
        WriteCell, FsyncCommit, Install, CommitFails, EndTransaction, historyVars, instanceVars,
        IsLegacy
<1>4. RecoveryInv' /\ RefusalInv' /\ RefusalLosesNothing'
  BY <1>3 DEF RecoveryInv, RefusalInv, RefusalLosesNothing, InstanceIsOpen
<1>5. SUFFICES LogInv(Journals)' /\ InstanceInv' /\ StoreIsLogged'
  BY <1>3, <1>4 DEF Safe, StateInv, Known, IsWorn
<1>6. ASSUME UNCHANGED <<file, recs, acked, lost>>
      PROVE  /\ LogInv(Journals)' /\ IsLegacy' = IsLegacy /\ LogEnd' = LogEnd
             /\ StateAt(Len(recs))' = StateAt(Len(recs))
             /\ StateAt(Len(recs) - 1)' = StateAt(Len(recs) - 1)
  BY <1>3, <1>6, LogUnchanged DEF Safe, IsLegacy, LogEnd, EndOf, Base, StateAt
<1>7. CASE Begin
  <2>1. UNCHANGED <<file, recs, acked, lost, committed, failed, needsHeader>> /\ ~failed
        /\ pc = "idle" /\ pc' = "body"
    BY <1>7 DEF Begin, historyVars, instanceVars
  <2>2. InstanceInv'
    BY <1>2, <1>3, <1>6, <2>1 DEF InstanceInv, Safe, StateInv
  <2>3. StoreIsLogged'
    BY <1>6, <2>1 DEF StoreIsLogged, Safe, StateInv
  <2>4. QED
    BY <1>6, <2>1, <2>2, <2>3
<1>8. CASE \E op \in Op : Mutate(op)
  <2>1. UNCHANGED <<file, recs, acked, lost, committed, failed, needsHeader>> /\ ~failed
        /\ pc = "body" /\ pc' = "body"
    BY <1>2, <1>8 DEF Mutate, historyVars, instanceVars
  <2>2. InstanceInv'
    BY <1>2, <1>3, <1>6, <2>1 DEF InstanceInv, Safe, StateInv
  <2>3. StoreIsLogged'
    BY <1>6, <2>1 DEF StoreIsLogged, Safe, StateInv
  <2>4. QED
    BY <1>6, <2>1, <2>2, <2>3
<1>9. CASE Abort \/ CommitEmpty
  <2>1. UNCHANGED <<file, recs, acked, lost, failed, needsHeader>> /\ ~failed
        /\ pc = "body" /\ pc' = "idle"
    BY <1>2, <1>9 DEF Abort, CommitEmpty, EndTransaction, historyVars, instanceVars
  <2>2. committed' = committed
    <3>1. CASE Abort
      BY <3>1 DEF Abort, instanceVars
    <3>2. CASE CommitEmpty
      BY <1>1, <3>2, ApplyNoOps DEF CommitEmpty, JournalRedoesWorking, TypeOK
    <3>3. QED
      BY <1>9, <3>1, <3>2
  <2>3. InstanceInv'
    BY <1>2, <1>3, <1>6, <2>1 DEF InstanceInv, Safe, StateInv
  <2>4. StoreIsLogged'
    BY <1>6, <2>1, <2>2 DEF StoreIsLogged, Safe, StateInv
  <2>5. QED
    BY <1>6, <2>1, <2>3, <2>4
<1>10. CASE StartAppend
  <2>1. /\ UNCHANGED <<file, recs, acked, lost, committed, failed, needsHeader, journal>> /\ ~failed
        /\ pc = "body" /\ pc' = "write" /\ journal # << >>
        /\ out' = (IF needsHeader THEN EncodeFileHeader ELSE << >>) \o EncodeRecord(journal, IsLegacy)
    BY <1>2, <1>10 DEF StartAppend, historyVars, instanceVars
  <2> DEFINE data == file.data
             rec == EncodeRecord(journal, IsLegacy)
             head == IF needsHeader THEN EncodeFileHeader ELSE << >>
             front == data \o head
             all == data \o out'
  <2>2. /\ data \in Seq(Cell) /\ journal \in Seq(Op) /\ IsLegacy \in BOOLEAN
        /\ Len(data) \in Nat /\ LogEnd \in Nat /\ RecordSize(journal, IsLegacy) \in Nat
    <3>1. data \in Seq(Cell) /\ journal \in Seq(Op) /\ IsLegacy \in BOOLEAN
      BY <1>1 DEF TypeOK, IsLegacy
    <3>2. RecordSize(journal, IsLegacy) \in Nat
      BY <3>1, RecordSizeType
    <3>3. QED
      BY <1>1, <3>1, <3>2, EndOfType
  <2>3. rec \in Seq(Cell) /\ Len(rec) = RecordSize(journal, IsLegacy)
    BY <2>2, RecordCells
  <2>4. Len(data) = IF needsHeader THEN 0 ELSE LogEnd
    BY <2>1 DEF Safe, StateInv, InstanceInv
  <2>5. front \in Seq(Cell) /\ Len(front) = LogEnd /\ HasHeader(front)
    <3>1. CASE needsHeader
      <4>1. data = << >> /\ ~IsLegacy /\ recs = << >>
        BY <1>2, <2>1, <2>2, <2>4, <3>1
      <4>2. LogEnd = 2
        BY <4>1 DEF LogEnd, EndOf, Base, IsLegacy, FILE_HEADER
      <4>3. front = EncodeFileHeader
        BY <3>1, <4>1, FileHeaderType
      <4>4. QED
        BY <4>2, <4>3, FileHeaderType DEF HasHeader, Kept
    <3>2. CASE ~needsHeader
      <4>1. head = << >>
        BY <3>2
      <4> HIDE DEF head
      <4>2. front = data
        BY <2>2, <4>1
      <4>3. Len(data) = LogEnd /\ HasHeader(data)
        BY <2>4, <3>2 DEF Safe, LogInv
      <4>4. QED
        BY <2>2, <4>2, <4>3
    <3>3. QED
      BY <3>1, <3>2
  <2>6. all = front \o rec
    <3>1. head \in Seq(Cell)
      BY FileHeaderType
    <3>2. out' = head \o rec
      BY <2>1
    <3> HIDE DEF head, rec, data
    <3>3. (data \o head) \o rec = data \o (head \o rec)
      BY <2>2, <2>3, <3>1, ConcatAssociative
    <3>4. QED
      BY <3>2, <3>3
  <2>7. /\ Len(all) = LogEnd + RecordSize(journal, IsLegacy)
        /\ \A j \in 1 .. LogEnd : all[j] = front[j]
        /\ \A j \in 1 .. RecordSize(journal, IsLegacy) : all[LogEnd + j] = rec[j]
    <3> HIDE DEF front, rec
    <3>1. /\ Len(front \o rec) = Len(front) + Len(rec)
          /\ \A j \in 1 .. Len(front) : (front \o rec)[j] = front[j]
          /\ \A j \in 1 .. Len(rec) : (front \o rec)[Len(front) + j] = rec[j]
      <4>1. front \in Seq(Cell) /\ rec \in Seq(Cell)
        BY <2>3, <2>5
      <4>2. QED
        BY <4>1, ConcatElements
    <3> HIDE DEF all
    <3>2. QED
      BY <2>3, <2>5, <2>6, <3>1, Zenon
  <2>8. HoldsRecord(all, LogEnd, journal, IsLegacy)
    BY <2>7 DEF HoldsRecord
  <2>9. HasHeader(all)
    <3>1. SUFFICES ASSUME ~IsLegacy, NEW j \in 1 .. FILE_HEADER
                   PROVE  Kept(all[j], EncodeFileHeader[j], IsWorn)
      BY DEF HasHeader
    <3>2. EndOf(0) =< LogEnd /\ EndOf(0) = FILE_HEADER
      <4>1. EndOf(0) = FILE_HEADER
        BY <3>1 DEF EndOf, Base, IsLegacy
      <4>2. 0 \in 0 .. Len(recs) /\ Len(recs) \in 0 .. Len(recs) /\ 0 =< Len(recs)
        BY <1>1 DEF TypeOK
      <4>3. QED
        BY <1>1, <4>1, <4>2, EndsMonotone DEF LogEnd, Safe, LogInv
    <3>3. j \in 1 .. LogEnd /\ j =< Len(front)
      <4>1. 2 =< LogEnd /\ j \in 1 .. 2
        BY <3>2 DEF FILE_HEADER
      <4> HIDE DEF front
      <4>2. j \in 1 .. LogEnd
        BY <2>2, <4>1
      <4>3. j =< Len(front)
        BY <2>2, <2>5, <4>2
      <4>4. QED
        BY <4>2, <4>3
    <3>4. QED
      BY <2>5, <2>7, <3>1, <3>3 DEF HasHeader
  <2>10. InstanceInv'
    <3>1. /\ (file.data \o out)' = all /\ journal' = journal
          /\ IsLegacy' = IsLegacy /\ LogEnd' = LogEnd /\ IsWorn' = IsWorn
      BY <1>3, <1>6, <2>1 DEF IsWorn
    <3> HIDE DEF all
    <3>2. HasHeader(file.data \o out)'
      BY <2>9, <3>1 DEF HasHeader
    <3>3. HoldsRecord(file.data \o out, LogEnd, journal, IsLegacy)'
      BY <2>8, <3>1 DEF HoldsRecord, RecordSize, RecordHeader, EncodeRecord
    <3>4. Len(file.data \o out)' = LogEnd' + RecordSize(journal, IsLegacy)'
      BY <2>7, <3>1 DEF RecordSize, RecordHeader
    <3>5. QED
      <4>1. journal' # << >> /\ ~failed' /\ pc' = "write"
        BY <2>1
      <4>2. InstanceIsOpen' => legacy' = IsLegacy'
        BY <1>3
      <4>3. needsHeader' => ~IsLegacy' /\ recs' = << >>
        BY <1>2, <1>3, <2>1 DEF IsLegacy
      <4>4. QED
        BY <3>2, <3>3, <3>4, <4>1, <4>2, <4>3 DEF InstanceInv
  <2>11. StoreIsLogged'
    BY <1>6, <2>1 DEF StoreIsLogged, Safe, StateInv
  <2>12. QED
    BY <1>6, <2>1, <2>10, <2>11
<1>11. CASE WriteCell
  <2>1. ~failed /\ pc = "write" /\ UNCHANGED <<committed, failed, working, journal>>
    BY <1>2, <1>11 DEF WriteCell
  <2>2. /\ LogInv(Journals)'
        /\ Len(out) = 1 => /\ Len(recs') = Len(recs) + 1 /\ recs'[Len(recs')].state = working
                           /\ StateAt(Len(recs) - 1)' = StateAt(Len(recs))
                           /\ Len(file'.data) = LogEnd'
        /\ file'.data \o out' = file.data \o out
    BY <1>11, LogWrite DEF Safe, StateInv
  <2>3. Len(recs) \in Nat /\ Len(out) \in Nat /\ out # << >> /\ IsLegacy' = IsLegacy
        /\ IsWorn' = IsWorn
    <3>1. Len(recs) \in Nat /\ Len(out) \in Nat
      <4>1. out \in Seq(Cell) /\ recs \in Seq(Record)
        BY <1>1 DEF TypeOK
      <4>2. QED
        BY <4>1
    <3>2. out # << >>
      BY <2>1 DEF TypeInv
    <3>3. QED
      BY <1>3, <3>1, <3>2 DEF IsLegacy, IsWorn
  <2>4. CASE Len(out) = 1
    <3>1. pc' = "fsync" /\ ~needsHeader'
      BY <1>11, <2>4 DEF WriteCell
    <3>2. recs' # << >>
      BY <2>2, <2>3, <2>4
    <3>3. committed' = StateAt(Len(recs) - 1)'
      BY <2>1, <2>2, <2>4 DEF StoreIsLogged, Safe, StateInv
    <3>4. InstanceInv' /\ StoreIsLogged'
      BY <1>3, <2>1, <2>2, <2>4, <3>1, <3>2, <3>3 DEF InstanceInv, StoreIsLogged
    <3>5. QED
      BY <2>2, <3>4
  <2>5. CASE Len(out) # 1
    <3>1. UNCHANGED <<pc, needsHeader, recs>>
      BY <1>11, <2>5 DEF WriteCell
    <3>2. LogEnd' = LogEnd /\ StateAt(Len(recs))' = StateAt(Len(recs))
      BY <1>3, <3>1 DEF LogEnd, EndOf, Base, StateAt
    <3>3. /\ (file.data \o out)' = file.data \o out /\ journal' = journal
      BY <2>1, <2>2
    <3>4. LET all == file.data \o out IN
            /\ journal # << >>
            /\ Len(all) = LogEnd + RecordSize(journal, IsLegacy)
            /\ HasHeader(all)
            /\ HoldsRecord(all, LogEnd, journal, IsLegacy)
      BY <2>1 DEF Safe, StateInv, InstanceInv
    <3>5. HasHeader(file.data \o out)'
      BY <2>3, <3>3, <3>4 DEF HasHeader
    <3>6. HoldsRecord(file.data \o out, LogEnd, journal, IsLegacy)'
      BY <2>3, <3>2, <3>3, <3>4 DEF HoldsRecord, RecordSize, RecordHeader, EncodeRecord
    <3>7. Len(file.data \o out)' = LogEnd' + RecordSize(journal, IsLegacy)'
      BY <2>3, <3>2, <3>3, <3>4 DEF RecordSize, RecordHeader
    <3>8. InstanceInv'
      BY <1>2, <1>3, <2>1, <2>3, <3>1, <3>4, <3>3, <3>5, <3>6, <3>7 DEF InstanceInv
    <3>9. StoreIsLogged'
      BY <2>1, <3>1, <3>2 DEF StoreIsLogged, Safe, StateInv
    <3>10. QED
      BY <2>2, <3>8, <3>9
  <2>6. QED
    BY <2>4, <2>5
<1>12. CASE FsyncCommit
  <2>1. /\ UNCHANGED <<recs, acked, lost, committed, failed, needsHeader, working>> /\ ~failed
        /\ pc = "fsync" /\ pc' = "install" /\ file' = Fsynced(file)
    BY <1>2, <1>12 DEF FsyncCommit, historyVars, instanceVars, txVars
  <2>2. LogInv(Journals)'
    BY <1>1, <1>3, <2>1, LogFsynced DEF Safe
  <2>3. file'.data = file.data /\ file'.low = Len(file'.data)
    BY <2>1 DEF Fsynced, AtRest
  <2>4. LogEnd' = LogEnd /\ StateAt(Len(recs) - 1)' = StateAt(Len(recs) - 1)
    BY <1>3, <2>1 DEF LogEnd, EndOf, Base, StateAt
  <2>5. InstanceInv'
    BY <1>3, <2>1, <2>3, <2>4 DEF InstanceInv, Safe, StateInv
  <2>6. StoreIsLogged'
    BY <2>1, <2>4 DEF StoreIsLogged, Safe, StateInv
  <2>7. QED
    BY <2>2, <2>5, <2>6
<1>13. CASE CommitFails
  <2>1. UNCHANGED <<file, recs, acked, lost, committed>> /\ failed' = TRUE /\ ~failed
        /\ pc \in {"write", "fsync"} /\ pc' = "idle"
    BY <1>2, <1>13 DEF CommitFails, EndTransaction, historyVars
  <2>2. InstanceInv'
    BY <1>3, <2>1 DEF InstanceInv
  <2>3. StoreIsLogged'
    BY <1>6, <2>1 DEF StoreIsLogged, Safe, StateInv
  <2>4. QED
    BY <1>6, <2>1, <2>2, <2>3
<1>14. CASE Install
  <2>1. UNCHANGED <<file, recs, lost, failed, needsHeader>> /\ ~failed /\ committed' = working
        /\ pc = "install" /\ pc' = "idle"
    BY <1>2, <1>14 DEF Install, EndTransaction
  <2>2. LogInv(Journals)' /\ working = StateAt(Len(recs))
    BY <1>1, <1>14, LogInstall DEF Safe, StateInv
  <2>3. LogEnd' = LogEnd /\ StateAt(Len(recs))' = StateAt(Len(recs))
    BY <1>3, <2>1 DEF LogEnd, EndOf, Base, StateAt
  <2>4. InstanceInv'
    BY <1>3, <2>1, <2>3 DEF InstanceInv, Safe, StateInv
  <2>5. StoreIsLogged'
    BY <2>1, <2>2, <2>3 DEF StoreIsLogged
  <2>6. QED
    BY <2>2, <2>4, <2>5
<1>15. QED
  BY <1>7, <1>8, <1>9, <1>10, <1>11, <1>12, <1>13, <1>14 DEF Committing

(* Closing, and the process or the power going away.                       *)
LEMMA EndingSafe ==
  ASSUME TypeInv, Safe, Close \/ Kill \/ PowerLoss
  PROVE  Safe'
<1>1. TypeOK /\ NoInstance /\ UNCHANGED <<origin, rot>>
  BY DEF TypeInv, Close, Kill, PowerLoss, historyVars
<1>2. StateInv'
  BY <1>1, NoInstanceInv
<1>3. LogInv(Journals)'
  <2>1. CASE Close \/ Kill
    BY <2>1, LogUnchanged DEF Safe, Close, Kill, historyVars
  <2>2. CASE PowerLoss
    BY <1>1, <2>2, LogPowerLoss DEF Safe
  <2>3. QED
    BY <2>1, <2>2
<1>4. RefusalLosesNothing'
  <2>1. refusal' = "none"
    BY DEF Close, Kill, PowerLoss, Safe, StateInv, RefusalInv
  <2>2. QED
    BY <2>1 DEF RefusalLosesNothing
<1>5. QED
  BY <1>1, <1>2, <1>3, <1>4 DEF Safe, Known, IsWorn

(* What is written at offset, up to damage.                                 *)
WornRecord(cells, offset, ops, isLegacy) ==
  \A j \in 1 .. RecordSize(ops, isLegacy) :
    offset + j =< Len(cells) =>
      \/ cells[offset + j] = EncodeRecord(ops, isLegacy)[j]
      \/ Worn(cells[offset + j], EncodeRecord(ops, isLegacy)[j])

(* A cell of cells turned into another: what cells kept, it keeps, and what is  *)
(* broken stays so.                                                        *)
LEMMA KeepsRots ==
  ASSUME NEW a \in Seq(Cell), NEW i \in 1 .. Len(a), NEW cell \in Cell,
         cell = Junk \/ (cell.tag = "u32" /\ a[i].tag = "u32"),
         NEW offset \in Nat, NEW ops \in Seq(Op), NEW isLegacy \in BOOLEAN,
         WornRecord(a, offset, ops, isLegacy)
  PROVE  WornRecord([a EXCEPT ![i] = cell], offset, ops, isLegacy)
<1> DEFINE b == [a EXCEPT ![i] = cell]
<1>1. DOMAIN a = 1 .. Len(a) /\ Len(a) \in Nat /\ RecordSize(ops, isLegacy) \in Nat
  BY RecordSizeType
<1>2. Len(b) = Len(a) /\ b[i] = cell /\ \A k \in 1 .. Len(a) : k # i => b[k] = a[k]
  BY <1>1
<1>3. SUFFICES ASSUME NEW j \in 1 .. RecordSize(ops, isLegacy), offset + j =< Len(b)
               PROVE  LET original == EncodeRecord(ops, isLegacy)[j] IN
                        b[offset + j] = original \/ Worn(b[offset + j], original)
  BY DEF WornRecord
<1> DEFINE original == EncodeRecord(ops, isLegacy)[j]
<1> HIDE DEF b
<1>4. offset + j \in 1 .. Len(a) /\ (a[offset + j] = original \/ Worn(a[offset + j], original))
  <2>1. offset + j =< Len(a)
    BY <1>2, <1>3
  <2>2. offset + j \in 1 .. Len(a)
    BY <1>1, <1>3, <2>1
  <2>3. QED
    BY <1>3, <2>1, <2>2 DEF WornRecord
<1> HIDE DEF original
<1>5. CASE offset + j = i
  BY <1>2, <1>4, <1>5 DEF Worn, Junk, original
<1>6. CASE offset + j # i
  BY <1>2, <1>4, <1>6 DEF original
<1>7. QED
  BY <1>5, <1>6

LEMMA TornRots ==
  ASSUME NEW a \in Seq(Cell), NEW i \in 1 .. Len(a), NEW cell \in Cell,
         cell = Junk \/ (cell.tag = "u32" /\ a[i].tag = "u32"),
         NEW offset \in Nat,
         Torn(Journals, a, offset), Len(a) > offset
  PROVE  LET b == [a EXCEPT ![i] = cell] IN
           \E ops \in Journals :
             /\ WornRecord(b, offset, ops, IsLegacy)
             /\ \/ Len(b) < offset + RecordSize(ops, IsLegacy)
                \/ \E j \in 3 .. RecordSize(ops, IsLegacy) :
                     offset + j =< Len(b) /\ b[offset + j] = Junk
<1> DEFINE b == [a EXCEPT ![i] = cell]
<1>1. DOMAIN a = 1 .. Len(a) /\ Len(a) \in Nat /\ IsLegacy \in BOOLEAN
  BY DEF IsLegacy
<1>2. Len(b) = Len(a) /\ b[i] = cell /\ \A k \in 1 .. Len(a) : k # i => b[k] = a[k]
  BY <1>1
<1>3. PICK ops \in Journals : /\ KeepsRecord(a, offset, ops, IsLegacy, IsWorn)
                              /\ \/ Len(a) < offset + RecordSize(ops, IsLegacy)
                                 \/ Broken(a, offset, ops)
  BY DEF Torn
<1>4. ops \in Seq(Op) /\ RecordSize(ops, IsLegacy) \in Nat
  BY <1>1, RecordSizeType DEF Journals
<1>5. WornRecord(b, offset, ops, IsLegacy)
  <2>1. WornRecord(a, offset, ops, IsLegacy)
    BY <1>3 DEF WornRecord, KeepsRecord, Kept
  <2>2. QED
    BY <1>1, <1>4, <2>1, KeepsRots
<1> HIDE DEF b
<1>6. CASE Len(a) < offset + RecordSize(ops, IsLegacy)
  BY <1>2, <1>5, <1>6 DEF b
<1>7. CASE Broken(a, offset, ops)
  <2>1. PICK j \in 3 .. RecordSize(ops, IsLegacy) : offset + j =< Len(a) /\ a[offset + j] = Junk
    BY <1>7 DEF Broken
  <2>2. offset + j \in 1 .. Len(a)
    BY <1>1, <1>4, <2>1
  <2>3. b[offset + j] = Junk
    <3>1. CASE offset + j = i
      BY <1>2, <2>1, <3>1 DEF Junk
    <3>2. CASE offset + j # i
      BY <1>2, <2>1, <2>2, <3>2
    <3>3. QED
      BY <3>1, <3>2
  <2>4. QED
    BY <1>2, <1>5, <2>1, <2>3 DEF b
<1>8. QED
  BY <1>3, <1>6, <1>7

(* Damage to a v1 database at rest.                                        *)
LEMMA BitRotSafe ==
  ASSUME TypeInv, Safe, BitRot, Known'
  PROVE  Safe'
<1> DEFINE data == file.data
           synced == file.synced
           low == file.low
<1>1. /\ TypeOK /\ pc = "down" /\ rot' = rot + 1 /\ rot \in Nat /\ refusal' = "none"
      /\ UNCHANGED <<pc, pos, entries, replayed, legacy, needsHeader, committed, failed, working,
                     journal, out, origin, recs, acked, lost>>
  BY DEF TypeInv, TypeOK, BitRot, instanceVars, txVars
<1>2. IsWorn' /\ origin = "new" /\ ~IsLegacy /\ ~IsLegacy' /\ IsLegacy \in BOOLEAN
      /\ IsLegacy' = IsLegacy
  BY <1>1 DEF IsWorn, Known, IsLegacy
<1>3. /\ data \in Seq(Cell) /\ synced \in Seq(Cell) /\ low \in Nat /\ Len(recs) \in Nat
      /\ Len(data) \in Nat /\ Len(synced) \in Nat
      /\ low =< Len(data) /\ low =< Len(synced) /\ \A j \in 1 .. low : synced[j] = data[j]
  BY <1>1 DEF TypeOK, Safe, LogInv, DurableInv
<1>4. PICK i \in 1 .. low, cell \in {Junk} \cup {U32(n) : n \in 0 .. MaxLength} :
        /\ cell = Junk \/ data[i].tag = "u32"
        /\ file' = Rotted(file, i, cell)
  BY DEF BitRot
<1>5. /\ cell \in Cell /\ i \in 1 .. Len(data) /\ i \in 1 .. Len(synced) /\ synced[i] = data[i]
      /\ cell = Junk \/ (cell.tag = "u32" /\ data[i].tag = "u32")
  BY <1>3, <1>4, BoundsAssumption DEF Cell, DataCell, U32
<1> DEFINE data2 == [data EXCEPT ![i] = cell]
           synced2 == [synced EXCEPT ![i] = cell]
<1>6. file'.data = data2 /\ file'.synced = synced2 /\ file'.low = low
  BY <1>1, <1>4 DEF Rotted, TypeOK
<1>7. /\ Len(data2) = Len(data) /\ data2[i] = cell
      /\ \A k \in 1 .. Len(data) : k # i => data2[k] = data[k]
      /\ Len(synced2) = Len(synced) /\ synced2[i] = cell
      /\ \A k \in 1 .. Len(synced) : k # i => synced2[k] = synced[k]
  BY <1>3, <1>5
<1>8. \A k \in 0 .. Len(recs) : EndOf(k)' = EndOf(k) /\ StateAt(k)' = StateAt(k)
  BY <1>1 DEF EndOf, StateAt, Base
<1>9. LogEnd' = LogEnd /\ LogEnd \in Nat
  BY <1>1, EndOfType DEF LogEnd, EndOf, Base
<1>10. RecordsInv'
  <2>1. ASSUME NEW k \in 1 .. Len(recs) PROVE RecordInv(k)'
    <3>1. RecordInv(k) /\ k - 1 \in 0 .. Len(recs)
      BY <1>3 DEF Safe, LogInv, RecordsInv
    <3>2. recs[k].ops \in Seq(Op) /\ EndOf(k - 1) \in Nat
      BY <1>1, <3>1, RecordType, EndOfType
    <3>3. WornRecord(data, EndOf(k - 1), recs[k].ops, IsLegacy)
      BY <3>1 DEF RecordInv, KeepsRecord, WornRecord, Kept
    <3>4. WornRecord(data2, EndOf(k - 1), recs[k].ops, IsLegacy)
      <4> HIDE DEF data
      <4>1. /\ data \in Seq(Cell) /\ i \in 1 .. Len(data) /\ cell \in Cell
            /\ cell = Junk \/ (cell.tag = "u32" /\ data[i].tag = "u32")
            /\ EndOf(k - 1) \in Nat /\ recs[k].ops \in Seq(Op) /\ IsLegacy \in BOOLEAN
            /\ WornRecord(data, EndOf(k - 1), recs[k].ops, IsLegacy)
        BY <1>2, <1>3, <1>5, <3>2, <3>3
      <4>2. QED
        BY <4>1, KeepsRots
    <3>5. EndOf(k - 1)' = EndOf(k - 1) /\ StateAt(k - 1)' = StateAt(k - 1)
      BY <1>8, <3>1
    <3> HIDE DEF data, data2
    <3>6. KeepsRecord(data2, EndOf(k - 1), recs[k].ops, IsLegacy, IsWorn')
      BY <1>2, <3>4 DEF KeepsRecord, WornRecord, Kept
    <3>7. Len(file'.data) = Len(file.data)
      BY <1>6, <1>7 DEF data
    <3>8. QED
      BY <1>1, <1>2, <1>6, <3>1, <3>5, <3>6, <3>7 DEF RecordInv
  <2>2. \A j, k \in 0 .. Len(recs) : j < k => EndOf(j)' < EndOf(k)'
    BY <1>8 DEF Safe, LogInv, RecordsInv
  <2>3. QED
    BY <1>1, <2>1, <2>2 DEF RecordsInv
<1>11. HasHeader(file.data)'
  <2>1. SUFFICES ASSUME NEW j \in 1 .. FILE_HEADER, j =< Len(data2)
                 PROVE  Worn(data2[j], EncodeFileHeader[j]) \/ data2[j] = EncodeFileHeader[j]
    BY <1>2, <1>6 DEF HasHeader, Kept
  <2>2. j =< Len(data) /\ j \in 1 .. Len(data)
    BY <1>3, <1>7, <2>1 DEF FILE_HEADER
  <2>3. Kept(data[j], EncodeFileHeader[j], IsWorn)
    BY <1>2, <2>2 DEF Safe, LogInv, HasHeader
  <2>4. EncodeFileHeader[j].tag # "u32"
    <3>1. j = 1 \/ j = 2
      BY DEF FILE_HEADER
    <3>2. EncodeFileHeader[1].tag = "magic" /\ EncodeFileHeader[2].tag = "version"
      BY FileHeaderType DEF Magic, Version
    <3>3. QED
      BY <3>1, <3>2
  <2> HIDE DEF data, data2
  <2>5. CASE j = i
    BY <1>5, <1>7, <2>3, <2>4, <2>5 DEF Kept, Worn, Junk
  <2>6. CASE j # i
    BY <1>7, <2>2, <2>3, <2>6 DEF Kept
  <2>7. QED
    BY <2>5, <2>6
<1>12. DurableInv'
  <2>1. \A j \in 1 .. low : synced2[j] = data2[j]
    BY <1>3, <1>7
  <2> HIDE DEF data2, synced2
  <2>2. QED
    BY <1>1, <1>2, <1>3, <1>6, <1>7, <2>1 DEF DurableInv, Safe, LogInv
<1>13. TailInv(Journals)'
  <2>1. Torn(Journals, file.data, LogEnd)'
    <3>1. CASE Len(data) > LogEnd
      <4>1. Torn(Journals, data, LogEnd)
        BY DEF Safe, LogInv, TailInv
      <4>2. \E ops \in Journals :
              /\ WornRecord(data2, LogEnd, ops, IsLegacy)
              /\ \/ Len(data2) < LogEnd + RecordSize(ops, IsLegacy)
                 \/ \E j \in 3 .. RecordSize(ops, IsLegacy) :
                      LogEnd + j =< Len(data2) /\ data2[LogEnd + j] = Junk
        <5> HIDE DEF data
        <5>1. /\ data \in Seq(Cell) /\ i \in 1 .. Len(data) /\ cell \in Cell /\ LogEnd \in Nat
              /\ cell = Junk \/ (cell.tag = "u32" /\ data[i].tag = "u32")
              /\ Torn(Journals, data, LogEnd) /\ Len(data) > LogEnd
          BY <1>3, <1>5, <1>9, <3>1, <4>1
        <5>2. QED
          BY <5>1, TornRots
      <4> HIDE DEF data2
      <4>3. QED
        BY <1>2, <1>6, <1>9, <4>2 DEF Torn, Broken, KeepsRecord, WornRecord, Kept
    <3>2. CASE ~(Len(data) > LogEnd)
      <4> HIDE DEF data2
      <4>1. QED
        BY <1>6, <1>7, <1>9, <3>2 DEF Torn
    <3>3. QED
      BY <3>1, <3>2
  <2>2. CASE Len(synced) > low
    <3>1. PICK k \in 0 .. Len(recs) : EndOf(k) = low
      BY <2>2 DEF Safe, LogInv, TailInv
    <3>2. Torn(Journals, synced, low)
      BY <2>2 DEF Safe, LogInv, TailInv
    <3>3. \E ops \in Journals :
            /\ WornRecord(synced2, low, ops, IsLegacy)
            /\ \/ Len(synced2) < low + RecordSize(ops, IsLegacy)
               \/ \E j \in 3 .. RecordSize(ops, IsLegacy) :
                    low + j =< Len(synced2) /\ synced2[low + j] = Junk
      <4> HIDE DEF synced, low
      <4>1. /\ synced \in Seq(Cell) /\ i \in 1 .. Len(synced) /\ cell \in Cell /\ low \in Nat
            /\ cell = Junk \/ (cell.tag = "u32" /\ synced[i].tag = "u32")
            /\ Torn(Journals, synced, low) /\ Len(synced) > low
        BY <1>3, <1>5, <2>2, <3>2
      <4>2. QED
        BY <4>1, TornRots
    <3> HIDE DEF synced2
    <3>4. Torn(Journals, file.synced, file.low)'
      BY <1>2, <1>6, <3>3 DEF Torn, Broken, KeepsRecord, WornRecord, Kept
    <3>5. EndOf(k)' = file'.low
      BY <1>6, <1>8, <3>1
    <3>6. QED
      BY <1>1, <2>1, <3>4, <3>5 DEF TailInv
  <2>3. CASE ~(Len(synced) > low)
    <3> HIDE DEF synced2
    <3>1. QED
      BY <1>6, <1>7, <2>1, <2>3 DEF TailInv
  <2>4. QED
    BY <2>2, <2>3
<1>14. StateInv'
  BY <1>1 DEF Safe, StateInv, RecoveryInv, InstanceInv, InstanceIsOpen, RefusalInv, StoreIsLogged
<1>15. RefusalLosesNothing'
  BY <1>1 DEF RefusalLosesNothing
<1>16. QED
  BY <1>10, <1>11, <1>12, <1>13, <1>14, <1>15 DEF Safe, LogInv

(* Damage aside, a step leaves the kind of the file and the damage alone.     *)
LEMMA HistoryStep ==
  ASSUME [Next]_vars
  PROVE  UNCHANGED <<origin, rot>> \/ BitRot
BY DEF vars, historyVars, Next, Recovering, Committing, Faults, OpenFile, OpenFails, ReadLog, ReadShort,
       ReplayRecord, ReplayCorrupt, ReplayEnd, Truncate, SyncTruncation, Notify, RecoveryThrows,
       Begin, Mutate, Abort, CommitEmpty, StartAppend, WriteCell, FsyncCommit, CommitFails,
       Install, Close, Kill, PowerLoss

(* Every step preserves the invariant.                                     *)
LEMMA NextSound ==
  ASSUME TypeInv, JournalRedoesWorking, Sound(Journals), [Next]_vars
  PROVE  Sound(Journals)'
<1>1. TypeInv'
  BY NextTypeInv
<1>2. TypeOK /\ TypeOK'
  BY <1>1 DEF TypeInv
<1>3. SUFFICES ASSUME Known' PROVE Safe'
  BY DEF Sound, Safe, StateInv
<1>4. Known
  <2>1. CASE UNCHANGED <<origin, rot>>
    BY <1>3, <2>1 DEF Known, IsWorn
  <2>2. CASE BitRot
    BY <1>2, <1>3, <2>2 DEF BitRot, Known, IsWorn, TypeOK
  <2>3. QED
    BY <2>1, <2>2, HistoryStep
<1>5. Safe
  BY <1>4 DEF Sound, Safe, StateInv
<1>6. CASE OpenFile \/ Recovering \/ OpenFails \/ ReadShort \/ RecoveryThrows
  BY <1>2, <1>5, <1>6, OpeningSafe
<1>7. CASE \/ Begin \/ (\E op \in Op : Mutate(op)) \/ Abort \/ CommitEmpty \/ StartAppend
           \/ Committing \/ CommitFails
  BY <1>2, <1>5, <1>7, TransactSafe
<1>8. CASE Close \/ Kill \/ PowerLoss
  BY <1>5, <1>8, EndingSafe
<1>9. CASE BitRot
  BY <1>3, <1>5, <1>9, BitRotSafe
<1>10. CASE UNCHANGED vars
  <2>1. UNCHANGED <<file, pc, refusal, lockVars, recoveryVars, instanceVars, txVars, historyVars>>
    BY <1>10 DEF vars
  <2>2. LogInv(Journals)'
    BY <1>5, <2>1, LogUnchanged DEF Safe, historyVars
  <2>3. UNCHANGED <<file, pc, refusal, pos, entries, replayed, legacy, needsHeader, committed,
                    failed, working, journal, out, origin, recs, acked, rot>>
    BY <2>1 DEF recoveryVars, instanceVars, txVars, historyVars
  <2>4. RecoveryInv' /\ RefusalInv' /\ StoreIsLogged' /\ RefusalLosesNothing'
    BY <1>5, <2>3 DEF Safe, StateInv, RecoveryInv, RefusalInv, StoreIsLogged,
       RefusalLosesNothing, Undamaged, EndOf, StateAt, Base, IsLegacy, IsWorn, Intact, Broken
  <2>5. InstanceInv'
    BY <1>5, <2>3 DEF Safe, StateInv, InstanceInv, InstanceIsOpen, HasHeader, HoldsRecord,
       LogEnd, EndOf, Base, IsLegacy, IsWorn
  <2>6. QED
    BY <1>3, <2>2, <2>4, <2>5 DEF Safe, StateInv
<1>11. QED
  BY <1>6, <1>7, <1>8, <1>9, <1>10 DEF Next, Faults

(* Recovery cuts off a whole record only if that is damaged.                 *)
LEMMA UndamagedIsReplayed ==
  ASSUME Sound(Journals), Undamaged, Truncate
  PROVE  replayed = Len(recs)
BY DEF Sound, Known, Undamaged, IsWorn, Truncate, RecoveryInv, Broken

(* Only a truncation costs a record, and only one damaged cell ...            *)
LEMMA NothingIsLost ==
  ASSUME TypeInv, Sound(Journals), Undamaged, [Next]_vars
  PROVE  lost' = lost
<1>1. CASE Truncate
  <2>1. Known /\ LogInv(Journals) /\ RecoveryInv
    BY DEF Sound, Known, Undamaged, IsWorn
  <2>2. QED
    BY <1>1, <2>1, UndamagedIsReplayed, LogTruncated
<1>2. CASE [Next /\ ~Truncate]_vars
  BY <1>2 DEF vars, historyVars, Next, Recovering, Committing, Faults, OpenFile, OpenFails, ReadLog,
              ReadShort, ReplayRecord, ReplayCorrupt, ReplayEnd, SyncTruncation, Notify,
              RecoveryThrows, Begin, Mutate, Abort, CommitEmpty, StartAppend, WriteCell,
              FsyncCommit, CommitFails, Install, Close, Kill, PowerLoss, BitRot
<1>3. QED
  BY <1>1, <1>2

(* ... and what a step other than damage makes of an intact file is intact.    *)
LEMMA StaysIntact ==
  ASSUME TypeInv, JournalRedoesWorking, Safe, AllIntact, [Next]_vars, ~BitRot
  PROVE  AllIntact'
<1>1. TypeOK /\ LogInv(Journals) /\ RecoveryInv /\ InstanceInv /\ StoreIsLogged /\ Known
  BY DEF TypeInv, Safe, StateInv
<1>2. CASE Truncate
  BY <1>1, <1>2, LogTruncated
<1>3. CASE WriteCell
  BY <1>1, <1>3, LogWrite
<1>4. CASE PowerLoss
  BY <1>1, <1>4, LogPowerLoss
<1>5. CASE [Next /\ ~Truncate /\ ~WriteCell /\ ~PowerLoss /\ ~BitRot]_vars
  <2>1. UNCHANGED <<recs, origin>> /\ file'.data = file.data
    <3>1. CASE SyncTruncation \/ FsyncCommit
      BY <3>1 DEF SyncTruncation, FsyncCommit, Fsynced, AtRest, historyVars
    <3>2. CASE UNCHANGED <<file, historyVars>>
      BY <3>2 DEF historyVars
    <3>3. CASE OpenFile \/ OpenFails \/ ReadShort \/ RecoveryThrows \/ Close \/ Kill \/ UNCHANGED vars
      BY <3>2, <3>3 DEF vars, OpenFile, OpenFails, ReadShort, RecoveryThrows, Close, Kill
    <3>4. CASE ReadLog \/ ReplayRecord \/ ReplayCorrupt \/ ReplayEnd \/ Notify
      BY <3>2, <3>4 DEF ReadLog, ReplayRecord, ReplayCorrupt, ReplayEnd, Notify
    <3>5. CASE Begin \/ (\E op \in Op : Mutate(op)) \/ Abort \/ CommitEmpty \/ StartAppend
      BY <3>2, <3>5 DEF Begin, Mutate, Abort, CommitEmpty, StartAppend
    <3>6. CASE CommitFails \/ Install
      BY <3>2, <3>6 DEF CommitFails, Install
    <3>7. QED
      BY <1>5, <3>1, <3>3, <3>4, <3>5, <3>6 DEF Next, Recovering, Committing, Faults
  <2>2. QED
    BY <2>1 DEF AllIntact, Intact, EndOf, Base, IsLegacy
<1>6. QED
  BY <1>2, <1>3, <1>4, <1>5

LEMMA NextCost ==
  ASSUME TypeInv, JournalRedoesWorking, Sound(Journals), CostInv, [Next]_vars
  PROVE  CostInv'
<1>1. TypeOK /\ lost \in Nat /\ rot \in Nat
  BY DEF TypeInv, TypeOK
<1>2. CASE BitRot
  <2>1. rot' = rot + 1 /\ lost' = lost /\ origin' = origin
    BY <1>2 DEF BitRot
  <2>2. QED
    BY <1>1, <2>1 DEF CostInv, Undamaged
<1>3. CASE ~BitRot
  <2>1. UNCHANGED <<origin, rot>>
    BY <1>3, HistoryStep
  <2>2. Undamaged' => lost' = 0
    BY <2>1, NothingIsLost DEF CostInv, Undamaged
  <2>3. SUFFICES ASSUME origin = "new"
                 PROVE  lost' =< rot /\ (lost' = rot => AllIntact')
    BY <2>1, <2>2 DEF CostInv
  <2>4. Safe
    BY <2>3 DEF Sound, Known, Safe, StateInv
  <2>5. lost =< rot /\ (lost = rot => AllIntact)
    BY <2>3 DEF CostInv
  <2>6. CASE Truncate
    <3>1. /\ AllIntact'
          /\ lost' = lost \/ (~AllIntact /\ lost' =< lost + 1)
      BY <2>4, <2>6, LogTruncated DEF Safe, StateInv
    <3>2. lost' \in Nat
      BY NextTypeInv DEF TypeInv, TypeOK
    <3>3. QED
      BY <1>1, <2>5, <3>1, <3>2
  <2>7. CASE ~Truncate
    <3>1. lost' = lost
      BY <2>7 DEF vars, historyVars, Next, Recovering, Committing, Faults, OpenFile, OpenFails, ReadLog,
                  ReadShort, ReplayRecord, ReplayCorrupt, ReplayEnd, SyncTruncation, Notify,
                  RecoveryThrows, Begin, Mutate, Abort, CommitEmpty, StartAppend, WriteCell,
                  FsyncCommit, CommitFails, Install, Close, Kill, PowerLoss, BitRot
    <3>2. QED
      BY <1>3, <2>4, <2>5, <3>1, StaysIntact
  <2>8. QED
    BY <2>6, <2>7
<1>4. QED
  BY <1>2, <1>3

LEMMA NextIInv ==
  ASSUME TypeInv, JournalRedoesWorking, IInv(Journals), [Next]_vars
  PROVE  IInv(Journals)'
BY NextSound, NextCost DEF IInv

-----------------------------------------------------------------------------
(* The theorems.                                                           *)

(* IInv holds throughout.                                                  *)
LEMMA Invariant == Spec => []IInv(Journals)
<1>1. TypeInv /\ JournalRedoesWorking /\ IInv(Journals) /\ [Next]_vars => IInv(Journals)'
  BY NextIInv
<1>2. QED
  BY <1>1, InitIInv, InitTypeInv, NextTypeInv, JournalIsRedo, PTL DEF Spec

(* A commit transact() reported is never lost, whatever append and fsync      *)
(* failures, kills, power losses, refused opens and reopens came before:      *)
(* core.ts's failure latch, its recovery, and the fsync before the install.   *)
THEOREM AckedCommitsAreDurable == Spec => []AckedDurable
<1>1. IInv(Journals) => AckedDurable
  BY DEF IInv, Sound, CostInv, Known, Undamaged, IsWorn, AckedDurable, LogInv, DurableInv
<1>2. QED
  BY <1>1, Invariant, PTL

(* What an open database shows is what the complete records of its file       *)
(* rebuild, whatever damage it opened over if it is a v1 file (core.ts,       *)
(* transact() and recover()).                                              *)
THEOREM MemoryIsLog == Spec => []CommittedIsLog
<1>1. IInv(Journals) => CommittedIsLog
  BY DEF IInv, Sound, Known, Undamaged, IsWorn, CommittedIsLog
<1>2. QED
  BY <1>1, Invariant, PTL

(* An undamaged database is refused only if nothing was ever committed to it  *)
(* (core.ts, the classification in recover() and replayLog()).               *)
THEOREM RefusalsLoseNothing == Spec => []RefusalLosesNothing
<1>1. IInv(Journals) => RefusalLosesNothing
  BY DEF IInv, Sound, Known, Undamaged, IsWorn, RefusalLosesNothing
<1>2. QED
  BY <1>1, Invariant, PTL

(* A v1 file loses no more commits than cells of it were damaged, however     *)
(* many those are and whatever crashes, failures, refused opens and new       *)
(* commits come between: damage before the last record is refused, never cut  *)
(* off (core.ts, the classification in replayLog() and the checksum of the    *)
(* length).                                                                *)
THEOREM DamageCostsCommits == Spec => []DamageCostsLastCommit
<1>1. IInv(Journals) => DamageCostsLastCommit
  BY DEF IInv, CostInv, DamageCostsLastCommit
<1>2. QED
  BY <1>1, Invariant, PTL

-----------------------------------------------------------------------------
(* The refinement: what callers see of an undamaged database is DurableStore. *)

View == IF InstanceIsOpen THEN <<committed>> ELSE << >>
Chain == [i \in DOMAIN recs |-> recs[i].state]

LEMMA SeqIsFunction ==
  ASSUME NEW S, NEW s \in Seq(S)
  PROVE  s = [i \in 1 .. Len(s) |-> s[i]]
OBVIOUS

LEMMA ChainType ==
  ASSUME TypeOK
  PROVE  /\ Chain \in Seq(Store) /\ Len(Chain) = Len(recs) /\ Len(recs) \in Nat
         /\ \A i \in 1 .. Len(recs) : Chain[i] = recs[i].state
         /\ Promise!Current = StateAt(Len(recs))
<1>1. Len(recs) \in Nat /\ DOMAIN recs = 1 .. Len(recs)
  BY DEF TypeOK
<1>2. Chain = [i \in 1 .. Len(recs) |-> recs[i].state]
  BY <1>1 DEF Chain
<1>3. \A i \in 1 .. Len(recs) : recs[i].state \in Store
  BY RecordType
<1>4. Chain \in Seq(Store) /\ Len(Chain) = Len(recs)
  BY <1>1, <1>2, <1>3
<1>5. Promise!Current = IF Chain = << >> THEN EmptyStore ELSE Chain[Len(Chain)]
  BY DEF Promise!Current, Chain
<1>6. Promise!Current = StateAt(Len(recs))
  <2>1. CASE Len(recs) = 0
    BY <2>1, <1>4, <1>5 DEF StateAt
  <2>2. CASE Len(recs) # 0
    <3>1. Chain # << >> /\ Chain[Len(Chain)] = recs[Len(recs)].state
      BY <2>2, <1>1, <1>2, <1>4
    <3>2. QED
      BY <2>2, <3>1, <1>5 DEF StateAt
  <2>3. QED
    BY <2>1, <2>2
<1>7. QED
  BY <1>1, <1>2, <1>4, <1>6

LEMMA PromiseInit == Init => Promise!Init
<1> SUFFICES ASSUME Init PROVE Promise!Init
  OBVIOUS
<1>1. TypeOK /\ ~InstanceIsOpen /\ acked = Len(recs)
  BY InitTypeInv DEF Init, TypeInv, InstanceIsOpen
<1>2. Chain \in Seq(Store) /\ Len(Chain) = Len(recs)
  BY <1>1, ChainType
<1>3. Len(recs) \in {0, 1}
  <2>1. recs = << >> \/ \E r : recs = <<r>>
    BY DEF Init
  <2>2. QED
    BY <2>1
<1>4. Chain = << >> \/ \E s \in Store : Chain = <<s>>
  <2>1. CASE Len(recs) = 0
    BY <2>1, <1>2
  <2>2. CASE Len(recs) = 1
    <3>1. Chain[1] \in Store /\ Chain = <<Chain[1]>>
      BY <2>2, <1>2
    <3>2. QED
      BY <3>1
  <2>3. QED
    BY <1>3, <2>1, <2>2
<1>5. QED
  BY <1>1, <1>2, <1>4 DEF Promise!Init, Chain

(* A step that changes nothing callers see.                                 *)
LEMMA Unseen ==
  ASSUME UNCHANGED <<recs, acked>>, View' = View
  PROVE  UNCHANGED Promise!vars
BY DEF Promise!vars, View, Chain

(* An open that returns shows the last state of the chain.                   *)
LEMMA PromiseOpens ==
  ASSUME TypeOK, StoreIsLogged', ~InstanceIsOpen, pc' = "idle", ~failed', UNCHANGED <<recs, acked>>
  PROVE  Promise!Open
<1>1. committed' = StateAt(Len(recs))
  <2>1. committed' = StateAt(Len(recs))'
    BY DEF StoreIsLogged
  <2>2. QED
    BY <2>1 DEF StateAt
<1>2. View = << >> /\ View' = <<Promise!Current>>
  BY <1>1, ChainType DEF View, InstanceIsOpen
<1>3. QED
  BY <1>2 DEF Promise!Open, View, Chain

(* open(): nothing is seen of it until it returns.                          *)
LEMMA PromiseRecovers ==
  ASSUME TypeInv, Undamaged, Safe, Safe',
         OpenFile \/ Recovering \/ OpenFails \/ ReadShort \/ RecoveryThrows
  PROVE  [Promise!Next]_Promise!vars
<1> USE DEF historyVars
<1>1. TypeOK /\ StoreIsLogged' /\ ~InstanceIsOpen
  <2>1. ~InstanceIsOpen
    BY DEF InstanceIsOpen, OpenFile, OpenFails, Recovering, ReadShort, RecoveryThrows, ReadLog, ReplayRecord,
           ReplayCorrupt, ReplayEnd, Truncate, SyncTruncation, Notify
  <2>2. QED
    BY <2>1 DEF TypeInv, Safe, StateInv
<1>2. UNCHANGED <<recs, acked>>
  <2>1. CASE Truncate
    <3>1. Sound(Journals)
      BY DEF Safe, StateInv, Sound
    <3>2. QED
      BY <2>1, <3>1, UndamagedIsReplayed, LogTruncated DEF Safe, StateInv
  <2>2. QED
    BY <2>1 DEF OpenFile, OpenFails, Recovering, ReadShort, RecoveryThrows, ReadLog, ReplayRecord,
                ReplayCorrupt, ReplayEnd, SyncTruncation, Notify
<1>3. \/ ~InstanceIsOpen'
      \/ pc' = "idle" /\ ~failed'
  BY DEF InstanceIsOpen, OpenFile, OpenFails, Recovering, ReadShort, RecoveryThrows, ReadLog, ReplayRecord,
         ReplayCorrupt, ReplayEnd, Truncate, SyncTruncation, Notify, Opened, Refuse, NoInstance
<1>4. CASE ~InstanceIsOpen'
  <2>1. View' = View
    BY <1>1, <1>4 DEF View
  <2>2. QED
    BY <1>2, <2>1, Unseen
<1>5. CASE pc' = "idle" /\ ~failed'
  BY <1>1, <1>2, <1>5, PromiseOpens DEF Promise!Next
<1>6. QED
  BY <1>3, <1>4, <1>5

(* transact(): a record enters the chain when it is complete, and is         *)
(* acknowledged by the install.                                            *)
LEMMA PromiseCommits ==
  ASSUME TypeInv, TypeOK', JournalRedoesWorking, Safe,
         \/ Begin \/ (\E op \in Op : Mutate(op)) \/ Abort \/ CommitEmpty \/ StartAppend
         \/ Committing \/ CommitFails
  PROVE  [Promise!Next]_Promise!vars
<1> USE DEF historyVars, instanceVars
<1>1. TypeOK /\ LogInv(Journals) /\ InstanceInv /\ StoreIsLogged
  BY DEF TypeInv, Safe, StateInv
<1>2. InstanceIsOpen /\ InstanceIsOpen'
  BY DEF InstanceIsOpen, Begin, Mutate, Abort, CommitEmpty, StartAppend, Committing, WriteCell,
         FsyncCommit, Install, CommitFails, EndTransaction
<1>3. View = <<committed>> /\ View' = <<committed'>>
  BY <1>2 DEF View
<1>4. ASSUME UNCHANGED <<recs, acked, committed>> PROVE [Promise!Next]_Promise!vars
  BY <1>3, <1>4, Unseen
<1>5. CASE Begin \/ (\E op \in Op : Mutate(op)) \/ Abort \/ StartAppend \/ FsyncCommit \/ CommitFails
  BY <1>4, <1>5 DEF Begin, Mutate, Abort, StartAppend, FsyncCommit, CommitFails
<1>6. CASE CommitEmpty
  <2>1. working = committed /\ committed \in Store
    BY <1>1, <1>6, ApplyNoOps DEF CommitEmpty, JournalRedoesWorking, TypeOK
  <2>2. QED
    BY <1>4, <1>6, <2>1 DEF CommitEmpty
<1>7. CASE WriteCell /\ Len(out) # 1
  BY <1>4, <1>7 DEF WriteCell
<1>8. CASE WriteCell /\ Len(out) = 1
  <2> DEFINE r == [ops |-> journal, state |-> working, end |-> Len(file.data) + 1]
  <2>1. committed = StateAt(Len(recs))
    BY <1>1, <1>8 DEF WriteCell, StoreIsLogged, InstanceInv
  <2>2. recs' = Append(recs, r) /\ UNCHANGED <<committed, acked>>
    BY <1>8 DEF WriteCell
  <2>3. working \in Store /\ recs \in Seq(Record) /\ recs' \in Seq(Record) /\ Len(recs) \in Nat
    BY <1>1 DEF TypeOK
  <2>4. Chain' = Append(Chain, working)
    <3>1. /\ DOMAIN recs' = 1 .. Len(recs) + 1 /\ recs'[Len(recs) + 1].state = working
          /\ \A i \in 1 .. Len(recs) : recs'[i] = recs[i]
      BY <2>2, <2>3
    <3>2. /\ Chain \in Seq(Store) /\ Len(Chain) = Len(recs)
          /\ \A i \in 1 .. Len(recs) : Chain[i] = recs[i].state
      BY <1>1, ChainType
    <3>3. Chain' = [i \in 1 .. Len(recs) + 1 |-> recs'[i].state]
      BY <3>1 DEF Chain
    <3>4. /\ Append(Chain, working) \in Seq(Store) /\ Len(Append(Chain, working)) = Len(recs) + 1
          /\ \A i \in 1 .. Len(recs) + 1 :
               Append(Chain, working)[i] = IF i =< Len(recs) THEN Chain[i] ELSE working
      BY <2>3, <3>2
    <3>5. Append(Chain, working) = [i \in 1 .. Len(recs) + 1 |-> Append(Chain, working)[i]]
      BY <3>4, SeqIsFunction
    <3>6. \A i \in 1 .. Len(recs) + 1 : recs'[i].state = Append(Chain, working)[i]
      BY <2>3, <3>1, <3>2, <3>4
    <3>7. QED
      BY <3>3, <3>5, <3>6
  <2>5. View = <<Promise!Current>> /\ View' = View
    BY <1>1, <1>3, <2>1, <2>2, ChainType
  <2>6. PICK s \in Store : s = working
    BY <2>3
  <2>7. Promise!Log(s)
    BY <2>2, <2>4, <2>5, <2>6, Zenon DEF Promise!Log, View, Chain
  <2>8. Promise!Next
    BY <2>6, <2>7 DEF Promise!Next
  <2>9. QED
    BY <2>8, Zenon
<1>9. CASE Install
  <2>1. recs # << >> /\ working = StateAt(Len(recs))
    BY <1>1, <1>9, LogInstall
  <2>2. committed' = working /\ acked' = Len(recs) /\ recs' = recs
    BY <1>9 DEF Install
  <2>3. View # << >> /\ View' = <<Promise!Current>> /\ Chain' = Chain
    BY <1>1, <1>3, <2>1, <2>2, ChainType DEF Chain
  <2>4. Chain # << >> /\ acked' = Len(Chain)
    <3>1. Chain \in Seq(Store) /\ Len(Chain) = Len(recs) /\ Len(recs) # 0
      BY <1>1, <2>1, ChainType DEF TypeOK
    <3>2. QED
      BY <2>2, <3>1
  <2>5. Promise!Acknowledge
    BY <2>3, <2>4 DEF Promise!Acknowledge, View, Chain
  <2>6. QED
    BY <2>5 DEF Promise!Next
<1>10. QED
  BY <1>5, <1>6, <1>7, <1>8, <1>9 DEF Committing

(* A power loss drops records behind the acknowledged ones only.             *)
LEMMA PromiseEnds ==
  ASSUME TypeInv, Safe', Close \/ Kill \/ PowerLoss
  PROVE  Promise!Next
<1>1. TypeOK /\ View' = << >>
  BY DEF TypeInv, Close, Kill, PowerLoss, NoInstance, View, InstanceIsOpen
<1>2. CASE Close \/ Kill
  <2>1. UNCHANGED <<recs, acked>>
    BY <1>2 DEF Close, Kill, historyVars
  <2>2. Promise!Close
    BY <1>1, <2>1 DEF Promise!Close, View, Chain
  <2>3. QED
    BY <2>2 DEF Promise!Next
<1>3. CASE PowerLoss
  <2>1. PICK k \in 0 .. Len(recs) : recs' = SubSeq(recs, 1, k)
    BY <1>3 DEF PowerLoss, RecordsUpTo
  <2>2. acked' = acked /\ acked \in Nat /\ k \in Nat /\ k =< Len(recs) /\ Len(recs) \in Nat
        /\ recs \in Seq(Record)
    BY <1>1, <1>3 DEF PowerLoss, TypeOK
  <2>3. Len(recs') = k /\ \A i \in 1 .. k : recs'[i] = recs[i]
    BY <2>1, <2>2, PrefixElements
  <2>4. recs' \in Seq(Record)
    BY <2>1, <2>2, PrefixElements
  <2>5. acked =< k
    BY <2>2, <2>3 DEF Safe, LogInv, DurableInv
  <2>6. Chain' = SubSeq(Chain, 1, k)
    <3>1. /\ Chain \in Seq(Store) /\ Len(Chain) = Len(recs)
          /\ \A i \in 1 .. Len(recs) : Chain[i] = recs[i].state
      BY <1>1, ChainType
    <3>2. Chain' = [i \in 1 .. k |-> recs'[i].state]
      BY <2>3, <2>4 DEF Chain
    <3>3. /\ SubSeq(Chain, 1, k) \in Seq(Store) /\ Len(SubSeq(Chain, 1, k)) = k
          /\ \A i \in 1 .. k : SubSeq(Chain, 1, k)[i] = Chain[i]
      BY <2>2, <3>1, PrefixElements
    <3>4. SubSeq(Chain, 1, k) = [i \in 1 .. k |-> SubSeq(Chain, 1, k)[i]]
      BY <3>3, SeqIsFunction
    <3>5. \A i \in 1 .. k : recs'[i].state = SubSeq(Chain, 1, k)[i]
      BY <2>2, <2>3, <3>1, <3>3
    <3>6. QED
      BY <3>2, <3>4, <3>5
  <2>7. k \in acked .. Len(Chain)
    BY <1>1, <2>2, <2>5, ChainType
  <2>8. Promise!PowerLoss
    BY <1>1, <2>2, <2>6, <2>7 DEF Promise!PowerLoss, View, Chain
  <2>9. QED
    BY <2>8 DEF Promise!Next
<1>4. QED
  BY <1>2, <1>3

LEMMA PromiseStep ==
  ASSUME TypeInv, JournalRedoesWorking, IInv(Journals), IInv(Journals)', Undamaged, Undamaged',
         [Next]_vars
  PROVE  [Promise!Next]_Promise!vars
<1>1. TypeInv' /\ TypeOK'
  BY NextTypeInv DEF TypeInv
<1>2. Safe /\ Safe'
  BY DEF IInv, Sound, Undamaged, Known, IsWorn, StateInv, Safe
<1>3. CASE OpenFile \/ Recovering \/ OpenFails \/ ReadShort \/ RecoveryThrows
  BY <1>2, <1>3, PromiseRecovers
<1>4. CASE \/ Begin \/ (\E op \in Op : Mutate(op)) \/ Abort \/ CommitEmpty \/ StartAppend
           \/ Committing \/ CommitFails
  BY <1>1, <1>2, <1>4, PromiseCommits
<1>5. CASE Close \/ Kill \/ PowerLoss
  BY <1>2, <1>5, PromiseEnds
<1>6. CASE BitRot
  BY <1>6 DEF BitRot, Undamaged, TypeInv, TypeOK
<1>7. CASE UNCHANGED vars
  <2>1. UNCHANGED <<recs, acked, pc, committed>>
    BY <1>7 DEF vars, historyVars, instanceVars
  <2>2. View' = View
    BY <2>1 DEF View, InstanceIsOpen
  <2>3. QED
    BY <2>1, <2>2, Unseen
<1>8. QED
  BY <1>3, <1>4, <1>5, <1>6, <1>7 DEF Next, Faults

(* A foreign file stays as it was found, and nothing is ever open on it.     *)
ForeignInv ==
  origin = "foreign" =>
    /\ \E cells \in ForeignFiles : file = AtRest(cells)
    /\ pc \in {"down", "read"}
    /\ recs = << >> /\ acked = 0

(* What does not begin like a file of ours is not recognised as one.          *)
LEMMA ForeignIsRefused ==
  ASSUME NEW cells \in ForeignFiles
  PROVE  Recognise(cells) \in {"NOT_A_DATABASE", "UNSUPPORTED_VERSION"}
<1>1. cells \in Seq(Cell) /\ Len(cells) \in Nat /\ cells # << >>
  BY ForeignAssumption, NotOursAssumption
<1>2. ~(/\ ~(Len(cells) < FILE_HEADER)
        /\ cells[1] = Magic /\ cells[2] = Version(FORMAT_VERSION))
  <2>1. PICK i \in 1 .. FILE_HEADER : Len(cells) < i \/ cells[i] # EncodeFileHeader[i]
    BY NotOursAssumption
  <2>2. EncodeFileHeader[1] = Magic /\ EncodeFileHeader[2] = Version(FORMAT_VERSION)
    BY FileHeaderType
  <2>3. i = 1 \/ i = 2
    BY DEF FILE_HEADER
  <2>4. QED
    BY <1>1, <2>1, <2>2, <2>3 DEF FILE_HEADER
<1>3. ASSUME ~(Len(cells) < FILE_HEADER), IsLegacyLog(cells)
      PROVE  FALSE
  <2> DEFINE n == cells[1].num
             ops == SubSeq(cells, 3, n + 2)
  <2>1. Len(cells) >= 2 /\ cells[1] \in Cell
    BY <1>1, <1>3 DEF FILE_HEADER
  <2>2. RecordEnd(cells, 0, TRUE) = 2 + ReadU32(cells, 1) /\ RecordStart(0, TRUE) = 2
    BY DEF RecordEnd, RecordStart, RecordHeader
  <2>3. cells[1].tag = "u32"
    <3>1. 2 + ReadU32(cells, 1) =< Len(cells)
      BY <1>3, <2>2 DEF IsLegacyLog, PayloadPresent
    <3>2. cells[1].tag # "u32" => ReadU32(cells, 1) = Len(cells)
      BY DEF ReadU32
    <3>3. QED
      BY <1>1, <3>1, <3>2
  <2>4. cells[1] = U32(n) /\ n \in Nat
    BY <2>1, <2>3 DEF Cell, DataCell, U32, Magic, Junk
  <2>5. ReadU32(cells, 1) = n
    BY <2>3 DEF ReadU32
  <2>6. n # 0 /\ 2 + n =< Len(cells)
    BY <1>3, <2>2, <2>5 DEF IsLegacyLog, PayloadPresent
  <2>7. n \in 1 .. Len(cells) - 2
    <3> HIDE DEF n
    <3>1. QED
      BY <1>1, <2>4, <2>6
  <2>8. RecordPayload(cells, 0, TRUE) = ops
    <3> HIDE DEF n
    <3>1. 2 + 1 = 3 /\ 2 + n = n + 2
      BY <2>4
    <3>2. QED
      BY <2>2, <2>5, <3>1 DEF RecordPayload
  <2>9. cells[2] = Sum(ops) /\ WellFormed(ops)
    BY <1>3, <2>2, <2>8 DEF IsLegacyLog, PayloadSound
  <2> HIDE DEF n
  <2>10. QED
    BY <2>4, <2>7, <2>9, NotOursAssumption
<1>4. QED
  BY <1>1, <1>2, <1>3 DEF Recognise

LEMMA ForeignStep ==
  ASSUME TypeInv, ForeignInv, [Next]_vars
  PROVE  /\ ForeignInv'
         /\ origin = "foreign" =>
              file' = file /\ pc' \in {"down", "read"} /\ UNCHANGED <<origin, recs, acked>>
<1> USE DEF historyVars
<1>1. origin' = origin
  BY DEF vars, Next, Recovering, Committing, Faults, OpenFile, OpenFails, ReadLog, ReadShort, ReplayRecord,
         ReplayCorrupt, ReplayEnd, Truncate, SyncTruncation, Notify, RecoveryThrows, Begin, Mutate,
         Abort, CommitEmpty, StartAppend, WriteCell, FsyncCommit, CommitFails, Install, Close,
         Kill, PowerLoss, BitRot
<1>2. SUFFICES ASSUME origin = "foreign"
               PROVE  file' = file /\ pc' \in {"down", "read"} /\ UNCHANGED <<recs, acked>>
  BY <1>1 DEF ForeignInv
<1>3. PICK cells \in ForeignFiles : file = AtRest(cells)
  BY <1>2 DEF ForeignInv
<1>4. pc \in {"down", "read"} /\ recs = << >>
  BY <1>2 DEF ForeignInv
<1>5. cells \in Seq(Cell) /\ Len(cells) \in Nat /\ SubSeq(cells, 1, Len(cells)) = cells
  BY ForeignAssumption
<1>6. CASE OpenFile \/ OpenFails \/ UNCHANGED vars
  BY <1>4, <1>6 DEF OpenFile, OpenFails, vars
<1>7. CASE ReadLog
  <2>1. Recognise(file.data) \in {"NOT_A_DATABASE", "UNSUPPORTED_VERSION"}
    BY <1>3, ForeignIsRefused DEF AtRest
  <2>2. QED
    BY <1>7, <2>1 DEF ReadLog, Refuse, NoInstance
<1>8. CASE ReadShort \/ RecoveryThrows \/ Kill
  BY <1>4, <1>8 DEF ReadShort, RecoveryThrows, Refuse, Kill, NoInstance
<1>9. CASE PowerLoss
  <2>1. file.low = Len(cells) /\ file.data = cells /\ file.synced = cells
    BY <1>3 DEF AtRest
  <2>2. \A n \in file.low .. Len(cells) : n = Len(cells)
    <3>1. \A m \in Nat : \A n \in m .. m : n = m
      OBVIOUS
    <3>2. QED
      BY <1>5, <2>1, <3>1, Zenon
  <2>3. \A n \in file.low .. Len(cells) : TornAt(file, n) = file /\ RevertedTo(file, n) = file
    BY <1>3, <1>5, <2>1, <2>2 DEF TornAt, RevertedTo
  <2>4. file' = file
    BY <1>9, <2>1, <2>3 DEF PowerLoss
  <2>5. PICK k \in 0 .. Len(recs) : recs' = SubSeq(recs, 1, k)
    BY <1>9 DEF PowerLoss, RecordsUpTo
  <2>6. recs' = recs
    BY <1>4, <2>5
  <2>7. QED
    BY <1>9, <2>4, <2>6 DEF PowerLoss, NoInstance
<1>10. CASE BitRot
  BY <1>2, <1>10 DEF BitRot
<1>11. QED
  BY <1>4, <1>6, <1>7, <1>8, <1>9, <1>10
     DEF Next, Recovering, Committing, Faults, ReplayRecord, ReplayCorrupt, ReplayEnd, Truncate,
         SyncTruncation, Notify, RecoveryThrows, Begin, Mutate, Abort, CommitEmpty, StartAppend,
         WriteCell, FsyncCommit, CommitFails, Install, Close

LEMMA AlwaysForeign == Spec => []ForeignInv
<1>1. Init => ForeignInv
  BY DEF Init, ForeignInv
<1>2. TypeInv /\ ForeignInv /\ [Next]_vars => ForeignInv'
  BY ForeignStep
<1>3. QED
  BY <1>1, <1>2, InitTypeInv, NextTypeInv, PTL DEF Spec

(* Whatever is done with a file that is not ours, open() never writes it and   *)
(* never returns, however it fails and is repeated (core.ts, recover(), which  *)
(* recognises a file before it touches it).                                 *)
THEOREM ForeignFilesAreUntouched == Spec => ForeignUntouched
<1>1. TypeInv /\ ForeignInv /\ [Next]_vars =>
        [origin = "foreign" => file' = file /\ pc' \in {"down", "read"}]_vars
  BY ForeignStep
<1>2. QED
  BY <1>1, AlwaysForeign, InitTypeInv, NextTypeInv, PTL DEF Spec, ForeignUntouched

(* Until something damages it a file, ours or not, is a durable store: a chain *)
(* of commits that become visible, once acknowledged survive everything, and   *)
(* are dropped only from the end, however appends, fsyncs, truncations and     *)
(* opens fail or are cut off by kills and power losses.                      *)
THEOREM KernelIsDurable == Spec => ImplementsDurableStore
<1>1. /\ TypeInv /\ JournalRedoesWorking /\ IInv(Journals) /\ IInv(Journals)' /\ ForeignInv
      /\ [Next]_vars
      => [rot' = 0 => Promise!Next]_(Promise!vars)
  <2> SUFFICES ASSUME TypeInv, JournalRedoesWorking, IInv(Journals), IInv(Journals)', ForeignInv,
                      [Next]_vars, (rot = 0)'
               PROVE  [Promise!Next]_Promise!vars
    OBVIOUS
  <2>0. rot = 0
    <3>1. CASE UNCHANGED rot
      BY <3>1
    <3>2. CASE BitRot
      BY <3>2 DEF BitRot, TypeInv, TypeOK
    <3>3. QED
      BY <3>1, <3>2, HistoryStep
  <2>1. CASE origin = "foreign"
    <3>1. ~InstanceIsOpen /\ ~InstanceIsOpen' /\ UNCHANGED <<recs, acked>>
      BY <2>1, ForeignStep DEF ForeignInv, InstanceIsOpen
    <3>2. View' = View
      BY <3>1 DEF View
    <3>3. QED
      BY <3>1, <3>2, Unseen
  <2>2. CASE origin # "foreign"
    <3>1. origin' = origin
      BY DEF vars, historyVars, Next, Recovering, Committing, Faults, OpenFile, OpenFails, ReadLog, ReadShort,
             ReplayRecord, ReplayCorrupt, ReplayEnd, Truncate, SyncTruncation, Notify,
             RecoveryThrows, Begin, Mutate, Abort, CommitEmpty, StartAppend, WriteCell,
             FsyncCommit, CommitFails, Install, Close, Kill, PowerLoss, BitRot
    <3>2. Undamaged /\ Undamaged'
      BY <2>0, <2>2, <3>1 DEF Undamaged
    <3>3. QED
      BY <3>2, PromiseStep
  <2>3. QED
    BY <2>1, <2>2
<1>2. Spec => []TypeInv
  BY InitTypeInv, NextTypeInv, PTL DEF Spec
<1>3. QED
  BY <1>1, <1>2, PromiseInit, Invariant, JournalIsRedo, AlwaysForeign, PTL
     DEF Spec, ImplementsDurableStore
=============================================================================
