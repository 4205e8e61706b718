------------------------------ MODULE WalFormat ------------------------------
(***************************************************************************)
(* The write-ahead log's on-disk format (src/core.ts, "Durability: a        *)
(* write-ahead log") and what replaying it means for the store.             *)
(*                                                                         *)
(* A file is a sequence of cells.  A cell is the smallest unit the recovery *)
(* code tells apart: the magic, the version half of the file header, a u32, *)
(* a checksum, one encoded operation, or bytes that are none of these.      *)
(* Cutting a file between two cells leaves every state that cutting it      *)
(* between two bytes leaves, as far as recovery can tell: too short for a    *)
(* file header, too short for a record header, a payload shorter than       *)
(* promised, or whole records.                                             *)
(*                                                                         *)
(*   file header     Magic, Version(1)                        (8 bytes)     *)
(*   v1 record       Length, Sum(<<Length>>), Sum(ops), ops   (12 bytes +)  *)
(*   v0.1.x record   Length, Sum(ops), ops                    (8 bytes +)   *)
(*                                                                         *)
(* CRC-32 is taken to be collision-free: a checksum cell names exactly the  *)
(* cells it was computed from.                                             *)
(***************************************************************************)
EXTENDS Integers, Sequences

CONSTANTS Keys, Values, None

ASSUME NoneAssumption == None \notin Values

-----------------------------------------------------------------------------
(* Operations and the store they rebuild.                                  *)

(* One journaled mutation: val = None is a delete.                         *)
Op == [key : Keys, val : Values \cup {None}]

(* A committed store: the value of every key, None where it is absent.      *)
Store == [Keys -> Values \cup {None}]

EmptyStore == [k \in Keys |-> None]

(* Mutant: the store keeps the journal entry, not the value in it.          *)
ApplyOp_Entry(store, op) == [store EXCEPT ![op.key] = <<op.key, op.val>>]

ApplyOp(store, op) == [store EXCEPT ![op.key] = op.val]

(* The operation of ops that is last to write k, if any does.              *)
LastWrites(ops, k) ==
  {i \in DOMAIN ops : ops[i].key = k /\ \A j \in DOMAIN ops : j > i => ops[j].key # k}

(* Replaying ops in order: the last write of each key wins.                *)
ApplyOps(store, ops) ==
  [k \in Keys |-> IF LastWrites(ops, k) = {} THEN store[k]
                  ELSE ops[CHOOSE i \in LastWrites(ops, k) : TRUE].val]

-----------------------------------------------------------------------------
(* Cells.                                                                  *)

Magic == [tag |-> "magic"]
Version(v) == [tag |-> "version", version |-> v]
U32(n) == [tag |-> "u32", num |-> n]
OpCell(op) == [tag |-> "op", op |-> op]
Junk == [tag |-> "junk"]

DataCell == {Magic, Junk} \cup [tag : {"version"}, version : Nat]
              \cup [tag : {"u32"}, num : Nat] \cup [tag : {"op"}, op : Op]

(* crc32 of a run of cells.  crc32("") is 0, so the checksum of nothing is  *)
(* the same four bytes as the number 0.                                    *)
Sum(cells) == IF cells = << >> THEN U32(0) ELSE [tag |-> "crc", of |-> cells]

Cell == DataCell \cup [tag : {"crc"}, of : Seq(DataCell)]

FORMAT_VERSION == 1
FILE_HEADER == 2

(* Cells in a record header under either framing.                          *)
RecordHeader(legacy) == IF legacy THEN 2 ELSE 3

EncodeFileHeader == <<Magic, Version(FORMAT_VERSION)>>

Payload(ops) == [i \in DOMAIN ops |-> OpCell(ops[i])]

EncodeRecord(ops, legacy) ==
  LET size == U32(Len(ops))
      sum  == Sum(Payload(ops))
  IN  (IF legacy THEN <<size, sum>> ELSE <<size, Sum(<<size>>), sum>>) \o Payload(ops)

-----------------------------------------------------------------------------
(* Reading a log back.                                                     *)

(* readU32 of a cell.  Bytes that were not written as a length read as an   *)
(* arbitrary number, here always one that points past the end of the file.  *)
ReadU32(log, i) == IF log[i].tag = "u32" THEN log[i].num ELSE Len(log)

(* The cells of the record at offset (0-based, as in the code).             *)
RecordStart(offset, legacy) == offset + RecordHeader(legacy)
RecordEnd(log, offset, legacy) == RecordStart(offset, legacy) + ReadU32(log, offset + 1)
RecordPayload(log, offset, legacy) ==
  SubSeq(log, RecordStart(offset, legacy) + 1, RecordEnd(log, offset, legacy))

HeaderPresent(log, offset, legacy) == RecordStart(offset, legacy) =< Len(log)

(* Mutant: the length field's checksum is not verified.                    *)
HeaderSound_Unchecked(log, offset, legacy) == TRUE

(* A v1 record header carries a checksum of its own length field.          *)
HeaderSound(log, offset, legacy) ==
  legacy \/ log[offset + 2] = Sum(<<log[offset + 1]>>)

PayloadPresent(log, offset, legacy) == RecordEnd(log, offset, legacy) =< Len(log)

PayloadSound(log, offset, legacy) ==
  Sum(RecordPayload(log, offset, legacy)) = log[RecordStart(offset, legacy)]

(* replayPayload accepts a payload only if it is operations and nothing     *)
(* else.                                                                   *)
WellFormed(payload) == \A i \in DOMAIN payload : payload[i].tag = "op"

OpsOf(payload) == [i \in DOMAIN payload |-> payload[i].op]

(* Mutant: a payload that was cut off is taken for damage.                 *)
Verdict_TornIsCorrupt(log, offset, legacy) ==
  IF ~HeaderPresent(log, offset, legacy) THEN "end"
  ELSE IF /\ HeaderSound(log, offset, legacy)
          /\ PayloadPresent(log, offset, legacy)
          /\ PayloadSound(log, offset, legacy)
       THEN "replay" ELSE "corrupt"

(* What replayLog's loop body decides about the record at offset.           *)
Verdict(log, offset, legacy) ==
  CASE ~HeaderPresent(log, offset, legacy) -> "end"
    [] HeaderPresent(log, offset, legacy) /\ ~HeaderSound(log, offset, legacy) -> "corrupt"
    [] OTHER ->
         IF ~PayloadPresent(log, offset, legacy) THEN "end"
         ELSE IF ~PayloadSound(log, offset, legacy)
              THEN IF RecordEnd(log, offset, legacy) < Len(log) THEN "corrupt" ELSE "end"
              ELSE IF WellFormed(RecordPayload(log, offset, legacy)) THEN "replay"
                   ELSE "corrupt"

(* Mutant: a record of nothing counts as a v0.1.x record.                  *)
IsLegacyLog_Empty(log) ==
  /\ HeaderPresent(log, 0, TRUE)
  /\ PayloadPresent(log, 0, TRUE)
  /\ PayloadSound(log, 0, TRUE)
  /\ WellFormed(RecordPayload(log, 0, TRUE))

(* Does the log begin with one complete, sound, non-empty v0.1.x record?    *)
IsLegacyLog(log) ==
  /\ HeaderPresent(log, 0, TRUE)
  /\ ReadU32(log, 1) # 0
  /\ PayloadPresent(log, 0, TRUE)
  /\ PayloadSound(log, 0, TRUE)
  /\ WellFormed(RecordPayload(log, 0, TRUE))

(* How recover() recognises a file it has read in full, before any replay.  *)
Recognise(log) ==
  IF log = << >> THEN "new"
  ELSE IF Len(log) < FILE_HEADER THEN "NOT_A_DATABASE"
  ELSE IF log[1] = Magic
       THEN IF log[2] = Version(FORMAT_VERSION) THEN "v1" ELSE "UNSUPPORTED_VERSION"
  ELSE IF IsLegacyLog(log) THEN "legacy" ELSE "NOT_A_DATABASE"

-----------------------------------------------------------------------------
(* What a log holds, for stating invariants.                               *)

(* Cells an encoded record takes.                                          *)
RecordSize(ops, legacy) == RecordHeader(legacy) + Len(ops)

(* From offset on the log holds as much of the record of ops as fits.       *)
HoldsRecord(log, offset, ops, legacy) ==
  \A j \in 1 .. RecordSize(ops, legacy) :
    offset + j =< Len(log) => log[offset + j] = EncodeRecord(ops, legacy)[j]
=============================================================================
