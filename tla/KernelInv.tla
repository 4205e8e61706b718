------------------------------- MODULE KernelInv -------------------------------
(***************************************************************************)
(* The inductive invariant behind the safety properties of Kernel.          *)
(*                                                                         *)
(* The file is: a file header (in a v1 file), the complete records of recs  *)
(* back to back, and perhaps a part of one more.  What the last fsync left  *)
(* is the same up to file.low.  Everything the process holds is a function  *)
(* of where in that file it is.  In a v1 file all of this holds up to the   *)
(* cells that were damaged.                                                *)
(***************************************************************************)
EXTENDS Kernel

(* Types, and one fact about the bytes replayLog works on that they need.   *)
TypeInv ==
  /\ TypeOK
  /\ pc \in {"replay", "truncate"} => log = file.data
  /\ pc = "truncate" => pos < Len(log)
  /\ pc = "write" => out # << >>

IsLegacy == origin = "legacy"
IsWorn == rot > 0

LogEnd == EndOf(Len(recs))

(* What damage makes of a cell, and what is written down as original.        *)
Worn(cell, original) == cell = Junk \/ (cell.tag = "u32" /\ original.tag = "u32")
Kept(cell, original, worn) == cell = original \/ (worn /\ Worn(cell, original))

(* HoldsRecord, up to damage.                                               *)
KeepsRecord(cells, offset, ops, isLegacy, worn) ==
  \A j \in 1 .. RecordSize(ops, isLegacy) :
    offset + j =< Len(cells) => Kept(cells[offset + j], EncodeRecord(ops, isLegacy)[j], worn)

(* The payload of the v1 record of ops, or its checksum, is damaged: as no    *)
(* length reads there, nothing repairs it.                                  *)
Broken(cells, offset, ops) ==
  IsWorn /\ \E j \in 3 .. RecordSize(ops, IsLegacy) :
              offset + j =< Len(cells) /\ cells[offset + j] = Junk

(* cells go on after offset with less than the whole record of a journal, or  *)
(* with a broken one.                                                      *)
Torn(journals, cells, offset) ==
  Len(cells) > offset =>
    \E ops \in journals :
      /\ KeepsRecord(cells, offset, ops, IsLegacy, IsWorn)
      /\ \/ Len(cells) < offset + RecordSize(ops, IsLegacy)
         \/ Broken(cells, offset, ops)

HasHeader(cells) ==
  ~IsLegacy =>
    \A j \in 1 .. FILE_HEADER :
      j =< Len(cells) => Kept(cells[j], EncodeFileHeader[j], IsWorn)

(* The i-th record is in cells, right behind the one before it, and takes   *)
(* the store that one left to the store of its own.                        *)
RecordInv(i) ==
  /\ recs[i].ops # << >>
  /\ recs[i].state = ApplyOps(StateAt(i - 1), recs[i].ops)
  /\ recs[i].end = EndOf(i - 1) + RecordSize(recs[i].ops, IsLegacy)
  /\ recs[i].end =< Len(file.data)
  /\ KeepsRecord(file.data, EndOf(i - 1), recs[i].ops, IsLegacy, IsWorn)

(* Its cells are as they were written.                                     *)
Intact(i) == HoldsRecord(file.data, EndOf(i - 1), recs[i].ops, IsLegacy)
AllIntact == \A i \in 1 .. Len(recs) : Intact(i)

RecordsInv ==
  /\ \A i \in 1 .. Len(recs) : RecordInv(i)
  /\ \A i, j \in 0 .. Len(recs) : i < j => EndOf(i) < EndOf(j)

(* What is durable: the first low cells, and in them every acknowledged      *)
(* record.  A v0.1.x file has at least the one it was recognised by.        *)
DurableInv ==
  /\ file.low =< Len(file.data) /\ file.low =< Len(file.synced)
  /\ \A j \in 1 .. file.low : file.synced[j] = file.data[j]
  /\ acked =< Len(recs)
  /\ acked > 0 => recs[acked].end =< file.low
  /\ IsLegacy => acked > 0

(* Behind the complete records, and behind the durable part of what the      *)
(* last fsync left, there is at most one record, cut off.                   *)
TailInv(journals) ==
  /\ Torn(journals, file.data, LogEnd)
  /\ Len(file.synced) > file.low =>
       /\ \E k \in 0 .. Len(recs) : EndOf(k) = file.low
       /\ Torn(journals, file.synced, file.low)

LogInv(journals) ==
  RecordsInv /\ HasHeader(file.data) /\ DurableInv /\ TailInv(journals)

(* Where recovery is: it has rebuilt the store of the records before pos,    *)
(* which are all there are, but for the last one if that is broken.         *)
RecoveryInv ==
  /\ pc \in {"down", "read"} => replayed = 0 /\ entries = EmptyStore /\ ~needsHeader
  /\ pc \in {"replay", "truncate", "sync", "notify"} =>
       /\ legacy = IsLegacy /\ ~needsHeader
       /\ replayed =< Len(recs) /\ pos = EndOf(replayed) /\ pos =< Len(file.data)
       /\ entries = StateAt(replayed)
       /\ \A i \in 1 .. replayed : Intact(i)
  /\ pc = "truncate" /\ replayed # Len(recs) =>
       replayed + 1 = Len(recs) /\ Broken(file.data, pos, recs[Len(recs)].ops)
  /\ pc \in {"sync", "notify"} => replayed = Len(recs) /\ Len(file.data) = pos

(* An open instance that has not latched appends right behind the records;  *)
(* what is left of an append in flight completes the journal's record.      *)
InstanceInv ==
  /\ InstanceIsOpen => legacy = IsLegacy
  /\ failed => pc = "idle"
  /\ needsHeader /\ InstanceIsOpen /\ ~failed => ~IsLegacy /\ recs = << >>
  /\ pc \in {"idle", "body"} /\ ~failed =>
       Len(file.data) = IF needsHeader THEN 0 ELSE LogEnd
  /\ pc = "write" =>
       LET all == file.data \o out IN
         /\ journal # << >>
         /\ Len(all) = LogEnd + RecordSize(journal, IsLegacy)
         /\ HasHeader(all)
         /\ HoldsRecord(all, LogEnd, journal, IsLegacy)
  /\ pc \in {"fsync", "install"} =>
       /\ ~needsHeader
       /\ recs # << >> /\ recs[Len(recs)].state = working
       /\ Len(file.data) = LogEnd
  /\ pc = "install" => file.low = Len(file.data)

RefusalInv == pc # "down" => refusal = "none"

(* The files all of this is about: every one of ours but a damaged v0.1.x     *)
(* file, whose framing lets a damaged length pass for a torn tail.           *)
Known == origin # "foreign" /\ (IsWorn => origin = "new")

Sound(journals) ==
  Known =>
    /\ LogInv(journals)
    /\ RecoveryInv
    /\ InstanceInv
    /\ RefusalInv
    /\ StoreIsLogged
    /\ RefusalLosesNothing

(* A commit is lost to damage of its own: after as many as cells damaged, no   *)
(* record is damaged that could be next.                                   *)
CostInv ==
  /\ Undamaged => lost = 0
  /\ origin = "new" => lost =< rot /\ (lost = rot => AllIntact)

IInv(journals) == Sound(journals) /\ CostInv
=============================================================================
