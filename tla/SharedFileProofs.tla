--------------------------- MODULE SharedFileProofs ---------------------------
(***************************************************************************)
(* The file among others: every acknowledged commit keeps its name, and a    *)
(* reader beside the writer is shown a state between two commits or refused   *)
(* for a cause.  For all keys, values, transactions and lengths of the log.  *)
(*                                                                         *)
(* The invariant has three parts: what Kernel's own says of the log and of    *)
(* the instance (Sound), where the file's name is while it is not durable     *)
(* (EntryInv), and what a reader has copied (ReaderInv).  What a recovery     *)
(* makes of a whole copy then follows from the log the copy is a part of.     *)
(***************************************************************************)
EXTENDS SharedFile, KernelProofs, FiniteSetTheorems, WellFoundedInduction

-----------------------------------------------------------------------------
(* The invariant.                                                          *)

LEMMA UndamagedIsKnown == Undamaged => Known /\ ~IsWorn
BY DEF Undamaged, Known, IsWorn

(* A name that is not durable is that of a new file; until the first open is  *)
(* over nothing was committed to it, nor written, and afterwards it is owed an  *)
(* fsync.                                                                   *)
EntryInv ==
  /\ entry \in {"absent", "fresh", "volatile", "durable"}
  /\ unsynced \in BOOLEAN
  /\ entry # "durable" => origin = "new"
  /\ entry = "absent" => pc = "down" /\ acked = 0
  /\ entry = "fresh" => pc = "read" /\ acked = 0
  /\ entry = "volatile" => unsynced
  /\ entry \in {"absent", "fresh"} => file = AtRest(<< >>)

Reading == [size : Nat, copy : Seq(Cell), acked : Nat, cut : BOOLEAN]

(* While the file is not cut, what was copied is the beginning of what it      *)
(* holds; the records acknowledged when the reader asked for the size are      *)
(* within that size.                                                       *)
ReaderInv ==
  reading # None =>
    /\ reading \in Reading
    /\ Undamaged /\ ~reading.cut =>
         /\ reading.size =< Len(file.data)
         /\ Len(reading.copy) =< reading.size
         /\ \A j \in 1 .. Len(reading.copy) : reading.copy[j] = file.data[j]
         /\ reading.acked =< Len(recs)
         /\ reading.acked > 0 => recs[reading.acked].end =< reading.size
         /\ IsLegacy => reading.acked > 0

(* Only a file whose name may not be durable has lost a commit.               *)
SharedInv ==
  /\ TypeInv /\ JournalRedoesWorking /\ Sound(Journals)
  /\ EntryInv /\ ReaderInv
  /\ Undamaged /\ ~unsynced => lost = 0

-----------------------------------------------------------------------------
(* The writer.                                                             *)

(* What the open of the adapter does beside, Kernel does not see.             *)
LEMMA WriterIsKernel ==
  ASSUME OpenOrCreate \/ SyncDirectory \/ Work \/ KillWriter
  PROVE  [Next]_vars
<1>1. OpenOrCreate \/ KillWriter => Next
  BY DEF OpenOrCreate, KillWriter, Next, Faults
<1>2. SyncDirectory => UNCHANGED vars
  BY DEF SyncDirectory
<1>3. Work => Next
  BY DEF Work, Next, Faults
<1>4. QED
  BY <1>1, <1>2, <1>3

(* What no step of a shared file touches.                                    *)
LEMMA SameFile ==
  ASSUME [SharedNext]_sharedVars
  PROVE  UNCHANGED <<origin, rot>>
<1> USE DEF vars, historyVars
<1>1. OpenFile \/ Kill \/ PowerLoss => UNCHANGED <<origin, rot>>
  BY DEF OpenFile, Kill, PowerLoss
<1>2. Work => UNCHANGED <<origin, rot>>
  BY DEF Work, Recovering, Committing, ReadLog, ReadShort, ReplayRecord, ReplayCorrupt, ReplayEnd,
         Truncate, SyncTruncation, Notify, RecoveryThrows, OpenFails, Begin, Mutate, Abort, CommitEmpty,
         StartAppend, WriteCell, FsyncCommit, CommitFails, Install, Close
<1>3. WriterStep => UNCHANGED <<origin, rot>>
  BY <1>1, <1>2 DEF WriterStep, OpenOrCreate, SyncDirectory, SyncDirectoryFails, KillWriter
<1>4. Blackout => UNCHANGED <<origin, rot>>
  BY <1>1 DEF Blackout, Survives, Vanishes
<1>5. ReaderStep => UNCHANGED <<origin, rot>>
  BY DEF ReaderStep, ReadStart, ReadCell, ReadDone
<1>6. QED
  BY <1>3, <1>4, <1>5 DEF SharedNext, sharedVars

(* The fsync of the directory that throws leaves no instance.                 *)
LEMMA DirectoryFails ==
  ASSUME TypeInv, Sound(Journals), SyncDirectoryFails
  PROVE  TypeInv' /\ JournalRedoesWorking' /\ Sound(Journals)'
<1>1. /\ pc = "read" /\ pc' = "down" /\ lock' = "free" /\ refusal' = "IO"
      /\ UNCHANGED <<file, handle, log, pos, entries, replayed, legacy, needsHeader, committed,
                     failed, working, journal, out, origin, recs, acked, lost, rot>>
  BY DEF SyncDirectoryFails, recoveryVars, instanceVars, txVars, historyVars
<1>2. TypeInv'
  BY <1>1 DEF TypeInv, TypeOK
<1>3. JournalRedoesWorking'
  BY <1>1 DEF JournalRedoesWorking
<1>4. ASSUME Known PROVE LogInv(Journals)'
  BY <1>1, <1>4, LogUnchanged DEF Sound
<1>5. ASSUME Known PROVE RecoveryInv' /\ InstanceInv' /\ RefusalInv' /\ StoreIsLogged'
  <2>1. ~failed /\ replayed = 0 /\ entries = EmptyStore /\ ~needsHeader
    BY <1>1, <1>5 DEF Sound, RecoveryInv, InstanceInv
  <2>2. QED
    BY <1>1, <2>1 DEF RecoveryInv, InstanceInv, InstanceIsOpen, RefusalInv, StoreIsLogged
<1>6. RefusalLosesNothing'
  BY <1>1 DEF RefusalLosesNothing
<1>7. Known' => Known
  BY <1>1 DEF Known, IsWorn
<1>8. QED
  BY <1>2, <1>3, <1>4, <1>5, <1>6, <1>7 DEF Sound

(* A file that vanishes is as good as one that was never there.               *)
LEMMA VanishedFile ==
  ASSUME TypeInv, Vanishes, origin = "new"
  PROVE  TypeInv' /\ JournalRedoesWorking' /\ Sound(Journals)'
<1>1. /\ NoInstance /\ pc' = "down" /\ file' = AtRest(<< >>) /\ recs' = << >> /\ acked' = 0
      /\ refusal' = "none" /\ log' = << >> /\ UNCHANGED <<origin, rot>>
  BY DEF Vanishes, NoInstance
<1>2. /\ file'.data = << >> /\ file'.synced = << >> /\ file'.low = 0
      /\ Len(file'.data) = 0 /\ Len(file'.synced) = 0 /\ Len(recs') = 0
  BY <1>1 DEF AtRest
<1>3. TypeInv'
  <2>1. file' \in [data : Seq(Cell), synced : Seq(Cell), low : Nat]
    <3>1. << >> \in Seq(Cell)
      OBVIOUS
    <3>2. QED
      BY <1>1, <3>1 DEF AtRest
  <2>2. lock' \in {"free", "held", "stale"} /\ lost' \in Nat
    BY DEF Vanishes, TypeInv, TypeOK
  <2>3. recs' \in Seq(Record) /\ log' \in Seq(Cell)
    BY <1>1
  <2>4. QED
    BY <1>1, <2>1, <2>2, <2>3, NoInstanceType DEF TypeInv, TypeOK
<1>4. JournalRedoesWorking'
  BY <1>1 DEF JournalRedoesWorking
<1>5. ~IsLegacy' /\ EndOf(0)' = 2 /\ LogEnd' = 2
  BY <1>1, <1>2 DEF IsLegacy, EndOf, LogEnd, Base, FILE_HEADER
<1>6. LogInv(Journals)'
  BY <1>1, <1>2, <1>5 DEF LogInv, RecordsInv, HasHeader, DurableInv, TailInv, Torn
<1>7. StateInv'
  BY <1>1, NoInstanceInv
<1>8. RefusalLosesNothing'
  BY <1>1 DEF RefusalLosesNothing
<1>9. QED
  BY <1>3, <1>4, <1>6, <1>7, <1>8 DEF Sound, StateInv

(* Kernel's part, whoever else uses the file.                                *)
LEMMA LogStep ==
  ASSUME SharedInv, [SharedNext]_sharedVars
  PROVE  TypeInv' /\ JournalRedoesWorking' /\ Sound(Journals)'
<1>1. CASE OpenOrCreate \/ SyncDirectory \/ Work \/ KillWriter
  BY <1>1, WriterIsKernel, NextTypeInv, JournalStep, NextSound DEF SharedInv
<1>2. CASE SyncDirectoryFails
  BY <1>2, DirectoryFails DEF SharedInv
<1>3. CASE Survives
  <2>1. [Next]_vars
    BY <1>3 DEF Survives, Next, Faults
  <2>2. QED
    BY <2>1, NextTypeInv, JournalStep, NextSound DEF SharedInv
<1>4. CASE Vanishes
  BY <1>4, VanishedFile DEF SharedInv, EntryInv, Vanishes
<1>5. CASE UNCHANGED vars
  BY <1>5, NextTypeInv, JournalStep, NextSound DEF SharedInv
<1>6. ReaderStep \/ UNCHANGED sharedVars => UNCHANGED vars
  BY DEF ReaderStep, ReadStart, ReadCell, ReadDone, sharedVars
<1>7. QED
  BY <1>1, <1>2, <1>3, <1>4, <1>5, <1>6 DEF SharedNext, WriterStep, Blackout

-----------------------------------------------------------------------------
(* The name.                                                               *)

LEMMA EntryStep ==
  ASSUME SharedInv, [SharedNext]_sharedVars
  PROVE  EntryInv'
<1>0. origin' = origin
  BY SameFile
<1>1. EntryInv
  BY DEF SharedInv
<1>2. CASE OpenOrCreate
  <2>1. pc = "down" /\ pc' = "read" /\ acked' = acked /\ file' = file
    BY <1>2 DEF OpenOrCreate, OpenFile, historyVars
  <2>2. entry' = (IF entry = "absent" THEN "fresh" ELSE entry) /\ unsynced' = unsynced
    BY <1>2 DEF OpenOrCreate
  <2>3. QED
    BY <1>0, <1>1, <2>1, <2>2 DEF EntryInv
<1>3. CASE SyncDirectory \/ SyncDirectoryFails
  BY <1>0, <1>1, <1>3 DEF SyncDirectory, SyncDirectoryFails, EntryInv
<1>4. CASE Work
  <2>1. CASE OpenFails
    <3>1. pc = "down" /\ UNCHANGED <<pc, acked, file, entry, unsynced>>
      BY <1>4, <2>1 DEF Work, OpenFails, historyVars
    <3>2. QED
      BY <1>0, <1>1, <3>1 DEF EntryInv
  <2>2. ASSUME ~OpenFails PROVE entry # "absent" /\ entry # "fresh"
    BY <1>1, <1>4, <2>2
       DEF EntryInv, Work, Recovering, Committing, ReadLog, ReadShort, ReplayRecord, ReplayCorrupt,
           ReplayEnd, Truncate, SyncTruncation, Notify, RecoveryThrows, OpenFails, Begin, Mutate, Abort,
           CommitEmpty, StartAppend, WriteCell, FsyncCommit, CommitFails, Install, Close
  <2>3. UNCHANGED <<entry, unsynced>>
    BY <1>4 DEF Work
  <2>4. QED
    BY <1>0, <1>1, <2>1, <2>2, <2>3 DEF EntryInv
<1>5. CASE KillWriter
  <2>1. pc # "down" /\ acked' = acked
    BY <1>5 DEF KillWriter, Kill, historyVars
  <2>2. /\ entry' = (IF entry = "fresh" THEN "volatile" ELSE entry)
        /\ unsynced' = (unsynced \/ entry = "fresh")
    BY <1>5 DEF KillWriter
  <2>3. QED
    BY <1>0, <1>1, <2>1, <2>2 DEF EntryInv
<1>6. CASE Blackout
  <2>1. pc' = "down" /\ unsynced' = unsynced
    BY <1>6 DEF Blackout, Survives, Vanishes, PowerLoss, NoInstance
  <2>2. CASE Survives
    <3>1. acked' = acked /\ entry' = (IF entry = "absent" THEN "absent" ELSE "durable")
      BY <2>2 DEF Survives, PowerLoss
    <3>2. ASSUME entry = "absent" PROVE file' = AtRest(<< >>)
      <4>1. file = [data |-> << >>, synced |-> << >>, low |-> 0]
        BY <1>1, <3>2 DEF EntryInv, AtRest
      <4>2. \A n \in 0 .. 0 : SubSeq(<< >>, 1, n) = << >>
        OBVIOUS
      <4>3. QED
        BY <2>2, <4>1, <4>2 DEF Survives, PowerLoss, TornAt, RevertedTo
    <3>3. QED
      BY <1>0, <1>1, <2>1, <3>1, <3>2 DEF EntryInv
  <2>3. CASE Vanishes
    BY <1>0, <1>1, <2>1, <2>3 DEF Vanishes, EntryInv
  <2>4. QED
    BY <1>6, <2>2, <2>3 DEF Blackout
<1>7. CASE ReaderStep \/ UNCHANGED sharedVars
  <2>1. UNCHANGED <<entry, unsynced, pc, acked, origin, file>>
    BY <1>7 DEF ReaderStep, ReadStart, ReadCell, ReadDone, sharedVars, vars, historyVars
  <2>2. QED
    BY <1>1, <2>1 DEF EntryInv
<1>8. QED
  BY <1>2, <1>3, <1>4, <1>5, <1>6, <1>7 DEF SharedNext, WriterStep

(* What an unnamed file costs is a commit only if an fsync is owed.           *)
LEMMA LostStep ==
  ASSUME SharedInv, [SharedNext]_sharedVars, Undamaged', ~unsynced'
  PROVE  lost' = 0
<1>1. Undamaged
  BY SameFile DEF Undamaged
<1>2. ~unsynced
  BY DEF SharedInv, EntryInv, SharedNext, sharedVars, WriterStep, OpenOrCreate, SyncDirectory,
         SyncDirectoryFails, Work, KillWriter, Blackout, ReaderStep, ReadStart, ReadCell, ReadDone
<1>3. lost = 0
  BY <1>1, <1>2 DEF SharedInv
<1>4. CASE [Next]_vars
  BY <1>1, <1>3, <1>4, NothingIsLost DEF SharedInv
<1>5. CASE SyncDirectoryFails
  BY <1>5 DEF SyncDirectoryFails
<1>6. CASE Vanishes
  <2>1. entry = "fresh" /\ acked = 0
    BY <1>2, <1>6 DEF Vanishes, SharedInv, EntryInv
  <2>2. QED
    BY <1>3, <1>6, <2>1 DEF Vanishes
<1>7. Survives => Next
  BY DEF Survives, Next, Faults
<1>8. ReaderStep \/ UNCHANGED sharedVars => UNCHANGED vars
  BY DEF ReaderStep, ReadStart, ReadCell, ReadDone, sharedVars
<1>9. QED
  BY <1>4, <1>5, <1>6, <1>7, <1>8, WriterIsKernel DEF SharedNext, WriterStep, Blackout

-----------------------------------------------------------------------------
(* The reader.                                                             *)

(* The writer adds to the complete records and takes none away.              *)
LEMMA RecordsStay ==
  ASSUME SharedInv, Undamaged, WriterStep
  PROVE  Len(recs') >= Len(recs) /\ \A i \in 1 .. Len(recs) : recs'[i] = recs[i]
<1>0. recs \in Seq(Record) /\ Len(recs) \in Nat
  BY DEF SharedInv, TypeInv, TypeOK
<1>1. CASE Truncate
  BY <1>0, <1>1, UndamagedIsKnown, UndamagedIsReplayed, LogTruncated DEF SharedInv, Sound
<1>2. CASE WriteCell
  <2>1. CASE recs' = recs
    BY <1>0, <2>1
  <2>2. CASE Len(out) = 1
    <3>1. /\ journal \in Seq(Op) /\ working \in Store /\ file.data \in Seq(Cell)
          /\ Len(file.data) + 1 \in Nat
      BY DEF SharedInv, TypeInv, TypeOK
    <3> DEFINE r == [ops |-> journal, state |-> working, end |-> Len(file.data) + 1]
    <3>2. r \in Record /\ recs' = Append(recs, r)
      BY <1>2, <2>2, <3>1 DEF WriteCell, Record
    <3> HIDE DEF r
    <3>3. QED
      BY <1>0, <3>2
  <2>3. QED
    BY <1>2, <2>1, <2>2 DEF WriteCell
<1>3. CASE UNCHANGED recs
  BY <1>0, <1>3
<1>4. WriterStep /\ ~Truncate /\ ~WriteCell => UNCHANGED recs
  BY DEF WriterStep, OpenOrCreate, SyncDirectory, SyncDirectoryFails, Work, KillWriter, vars,
         historyVars, Recovering, Committing, OpenFile, ReadLog, ReadShort, ReplayRecord,
         ReplayCorrupt, ReplayEnd, SyncTruncation, Notify, RecoveryThrows, OpenFails, Begin, Mutate, Abort,
         CommitEmpty, StartAppend, FsyncCommit, CommitFails, Install, Close, Kill
<1>5. QED
  BY <1>1, <1>2, <1>3, <1>4

(* What it copies stays the beginning of a file that only grows.              *)
LEMMA BesideWriter ==
  ASSUME SharedInv, WriterStep
  PROVE  ReaderInv'
<1> SUFFICES ASSUME reading # None PROVE ReaderInv'
  BY DEF WriterStep, ReaderInv
<1>1. reading \in Reading /\ reading' = [reading EXCEPT !.cut = @ \/ ~Grows]
  BY DEF SharedInv, ReaderInv, WriterStep
<1>2. /\ reading' \in Reading
      /\ reading'.size = reading.size /\ reading'.copy = reading.copy
      /\ reading'.acked = reading.acked
      /\ ~reading'.cut => ~reading.cut /\ Grows
  BY <1>1 DEF Reading
<1>3. SUFFICES ASSUME Undamaged', ~reading'.cut
               PROVE  /\ reading.size =< Len(file'.data)
                      /\ Len(reading.copy) =< reading.size
                      /\ \A j \in 1 .. Len(reading.copy) : reading.copy[j] = file'.data[j]
                      /\ reading.acked =< Len(recs')
                      /\ reading.acked > 0 => recs'[reading.acked].end =< reading.size
                      /\ IsLegacy' => reading.acked > 0
  BY <1>2 DEF ReaderInv
<1>4. Undamaged /\ IsLegacy' = IsLegacy
  <2>1. [SharedNext]_sharedVars
    BY DEF SharedNext
  <2>2. QED
    BY <1>3, <2>1, SameFile DEF Undamaged, IsLegacy
<1>5. /\ reading.size =< Len(file.data) /\ Len(reading.copy) =< reading.size
      /\ \A j \in 1 .. Len(reading.copy) : reading.copy[j] = file.data[j]
      /\ reading.acked =< Len(recs)
      /\ reading.acked > 0 => recs[reading.acked].end =< reading.size
      /\ IsLegacy => reading.acked > 0
  BY <1>2, <1>3, <1>4 DEF SharedInv, ReaderInv
<1>6. TypeOK /\ TypeOK'
  <2>1. [SharedNext]_sharedVars
    BY DEF SharedNext
  <2>2. QED
    BY <2>1, LogStep DEF SharedInv, TypeInv
<1>7. /\ file.data \in Seq(Cell) /\ file'.data \in Seq(Cell)
      /\ Len(file.data) \in Nat /\ Len(file'.data) \in Nat
      /\ Len(recs) \in Nat /\ Len(recs') \in Nat
  <2>1. file' \in [data : Seq(Cell), synced : Seq(Cell), low : Nat] /\ recs' \in Seq(Record)
    BY <1>6 DEF TypeOK
  <2>2. file.data \in Seq(Cell) /\ Len(file.data) \in Nat /\ Len(recs) \in Nat
    BY <1>6, FileType, EndOfType
  <2>3. file'.data \in Seq(Cell)
    BY <2>1
  <2>4. Len(file'.data) \in Nat /\ Len(recs') \in Nat
    BY <2>1, <2>3
  <2>5. QED
    BY <2>2, <2>3, <2>4
<1>8. /\ Len(file'.data) >= Len(file.data)
      /\ SubSeq(file'.data, 1, Len(file.data)) = file.data
  BY <1>2, <1>3 DEF Grows
<1>9. \A j \in 1 .. Len(file.data) : file'.data[j] = file.data[j]
  <2>1. \A j \in 1 .. Len(file.data) : SubSeq(file'.data, 1, Len(file.data))[j] = file'.data[j]
    BY <1>7, <1>8, PrefixElements
  <2>2. QED
    BY <1>8, <2>1
<1>10. /\ reading.size \in Nat /\ reading.acked \in Nat /\ Len(reading.copy) \in Nat
  BY <1>1 DEF Reading
<1>11. Len(recs') >= Len(recs) /\ \A i \in 1 .. Len(recs) : recs'[i] = recs[i]
  BY <1>4, RecordsStay
<1>12. reading.acked > 0 => recs'[reading.acked] = recs[reading.acked]
  BY <1>5, <1>7, <1>10, <1>11
<1>13. \A j \in 1 .. Len(reading.copy) : reading.copy[j] = file'.data[j]
  BY <1>5, <1>7, <1>9, <1>10
<1>14. QED
  BY <1>4, <1>5, <1>7, <1>8, <1>10, <1>11, <1>12, <1>13

LEMMA ReaderStarts ==
  ASSUME SharedInv, ReadStart
  PROVE  ReaderInv'
<1>1. /\ reading' = [size |-> Len(file.data), copy |-> << >>, acked |-> acked, cut |-> FALSE]
      /\ UNCHANGED <<file, recs, acked, origin, rot>>
  BY DEF ReadStart, vars, historyVars
<1>2. /\ TypeOK /\ Len(file.data) \in Nat /\ acked \in Nat /\ << >> \in Seq(Cell)
      /\ Len(recs) \in Nat
  BY DEF SharedInv, TypeInv, TypeOK
<1>3. reading' \in Reading
  BY <1>1, <1>2 DEF Reading
<1>4. ASSUME Undamaged
      PROVE  /\ acked =< Len(recs)
             /\ acked > 0 => recs[acked].end =< Len(file.data)
             /\ IsLegacy => acked > 0
  <2>1. LogInv(Journals)
    BY <1>4, UndamagedIsKnown DEF SharedInv, Sound
  <2>2. acked =< Len(recs) /\ (IsLegacy => acked > 0)
    BY <2>1 DEF LogInv, DurableInv
  <2>3. \A i \in 1 .. Len(recs) : recs[i].end =< Len(file.data)
    BY <2>1 DEF LogInv, RecordsInv, RecordInv
  <2>4. QED
    BY <1>2, <2>2, <2>3
<1>5. QED
  BY <1>1, <1>2, <1>3, <1>4 DEF ReaderInv, Undamaged, IsLegacy

LEMMA ReaderCopies ==
  ASSUME SharedInv, ReadCell
  PROVE  ReaderInv'
<1>1. /\ reading # None /\ ~AtEnd
      /\ reading' = [reading EXCEPT !.copy = Append(@, file.data[Len(@) + 1])]
      /\ UNCHANGED <<file, recs, origin, rot>>
  BY DEF ReadCell, vars, historyVars
<1>2. reading \in Reading
  BY <1>1 DEF SharedInv, ReaderInv
<1>3. /\ reading.copy \in Seq(Cell) /\ Len(reading.copy) \in Nat /\ reading.size \in Nat
      /\ file.data \in Seq(Cell) /\ Len(file.data) \in Nat
  BY <1>2 DEF Reading, SharedInv, TypeInv, TypeOK
<1>4. Len(reading.copy) < reading.size /\ Len(reading.copy) < Len(file.data)
  BY <1>1, <1>3 DEF AtEnd, Wanted
<1> DEFINE n == Len(reading.copy) + 1
           cell == file.data[n]
<1>5. n \in 1 .. Len(file.data) /\ cell \in Cell
  BY <1>3, <1>4
<1> HIDE DEF cell
<1>6. /\ Append(reading.copy, cell) \in Seq(Cell)
      /\ Len(Append(reading.copy, cell)) = n
      /\ \A j \in 1 .. n : Append(reading.copy, cell)[j] = IF j = n THEN cell ELSE reading.copy[j]
  BY <1>3, <1>5
<1>7. /\ reading' \in Reading
      /\ reading'.copy = Append(reading.copy, cell)
      /\ reading'.size = reading.size /\ reading'.acked = reading.acked
      /\ reading'.cut = reading.cut
  BY <1>1, <1>2, <1>6 DEF Reading, cell
<1>8. ASSUME Undamaged, ~reading.cut
      PROVE  \A j \in 1 .. n : reading'.copy[j] = file.data[j]
  <2>1. \A j \in 1 .. Len(reading.copy) : reading.copy[j] = file.data[j]
    BY <1>1, <1>8 DEF SharedInv, ReaderInv
  <2>2. QED
    BY <1>3, <1>6, <1>7, <2>1 DEF cell
<1>9. Len(reading'.copy) = n /\ n =< reading.size
  BY <1>3, <1>4, <1>6, <1>7
<1>10. QED
  BY <1>1, <1>7, <1>8, <1>9 DEF SharedInv, ReaderInv, Undamaged, IsLegacy

LEMMA SharedStep == SharedInv /\ [SharedNext]_sharedVars => SharedInv'
<1> SUFFICES ASSUME SharedInv, [SharedNext]_sharedVars PROVE SharedInv'
  OBVIOUS
<1>1. CASE WriterStep
  BY <1>1, BesideWriter, LogStep, EntryStep, LostStep DEF SharedInv
<1>2. CASE Blackout \/ ReadDone
  <2>1. ReaderInv'
    BY <1>2 DEF Blackout, ReadDone, ReaderInv
  <2>2. QED
    BY <2>1, LogStep, EntryStep, LostStep DEF SharedInv
<1>3. CASE ReadStart
  BY <1>3, ReaderStarts, LogStep, EntryStep, LostStep DEF SharedInv
<1>4. CASE ReadCell
  BY <1>4, ReaderCopies, LogStep, EntryStep, LostStep DEF SharedInv
<1>5. CASE UNCHANGED sharedVars
  <2>1. UNCHANGED <<reading, file, recs, origin, rot>>
    BY <1>5 DEF sharedVars, vars, historyVars
  <2>2. ReaderInv'
    BY <2>1 DEF SharedInv, ReaderInv, Undamaged, IsLegacy
  <2>3. QED
    BY <2>2, LogStep, EntryStep, LostStep DEF SharedInv
<1>6. QED
  BY <1>1, <1>2, <1>3, <1>4, <1>5 DEF SharedNext, ReaderStep

LEMMA SharedStart == SharedInit => SharedInv
<1> SUFFICES ASSUME SharedInit PROVE SharedInv
  OBVIOUS
<1>1. TypeInv /\ IInv(Journals)
  BY InitTypeInv, InitIInv DEF SharedInit
<1>2. JournalRedoesWorking
  BY DEF SharedInit, Init, JournalRedoesWorking
<1>3. EntryInv
  <2>1. origin = "new" => acked = 0
    <3>1. origin = "new" => recs = << >>
      BY DEF SharedInit, Init
    <3>2. QED
      BY <3>1 DEF SharedInit, Init
  <2>2. QED
    BY <2>1 DEF SharedInit, Init, EntryInv
<1>4. ReaderInv
  BY DEF SharedInit, ReaderInv
<1>5. QED
  BY <1>1, <1>2, <1>3, <1>4 DEF SharedInv, IInv, CostInv

LEMMA AlwaysShared == SharedSpec => []SharedInv
BY SharedStart, SharedStep, PTL DEF SharedSpec

(* Every acknowledged commit outlives a power loss with the name of its file,  *)
(* unless the open that made the name was cut short before its directory was   *)
(* fsync'd (node-fs.ts, open() and fsyncDirectoryOf).                        *)
THEOREM NamesAreDurable == SharedSpec => []NamedAndDurable
<1>1. SharedInv => NamedAndDurable
  BY UndamagedIsKnown
     DEF SharedInv, EntryInv, Sound, NamedAndDurable, AckedDurable, LogInv, DurableInv, TypeInv,
         TypeOK
<1>2. QED
  BY <1>1, AlwaysShared, PTL

(* Beside a reader, and with the directory's fsync as a step of its own, an open *)
(* that fails leaves no lock behind, nor a descriptor but for the case in which *)
(* that fsync threw (node-fs.ts, open(); core.ts, openLog).                   *)
THEOREM SharedFilesLeakNoLock == SharedSpec => []NoLeak
<1>1. SharedInit => NoLeak /\ LowInv
  BY LeakStart DEF SharedInit
<1>2. SharedInv /\ LowInv /\ NoLeak /\ [SharedNext]_sharedVars => LowInv' /\ NoLeak'
  <2> SUFFICES ASSUME SharedInv, LowInv, NoLeak, [SharedNext]_sharedVars
               PROVE  LowInv' /\ NoLeak'
    OBVIOUS
  <2>1. CASE [Next]_vars
    BY <2>1, LowStep, LeakStep DEF SharedInv
  <2>2. CASE SyncDirectoryFails
    <3>1. file = AtRest(<< >>) /\ file' = file /\ lock' = "free" /\ refusal' = "IO"
      BY <2>2 DEF SharedInv, EntryInv, SyncDirectoryFails
    <3>2. QED
      BY <3>1 DEF AtRest, LowInv, NoLeak
  <2>3. CASE Vanishes
    <3>1. lock \in {"free", "held", "stale"}
      BY DEF SharedInv, TypeInv, TypeOK
    <3>2. QED
      BY <2>3, <3>1 DEF Vanishes, NoInstance, AtRest, LowInv, NoLeak
  <2>4. Survives => Next
    BY DEF Survives, Next, Faults
  <2>5. ReaderStep \/ UNCHANGED sharedVars => UNCHANGED vars
    BY DEF ReaderStep, ReadStart, ReadCell, ReadDone, sharedVars
  <2>6. QED
    BY <2>1, <2>2, <2>3, <2>4, <2>5, WriterIsKernel DEF SharedNext, WriterStep, Blackout
<1>3. QED
  BY <1>1, <1>2, AlwaysShared, PTL DEF SharedSpec

-----------------------------------------------------------------------------
(* The replay of a copy.                                                    *)

(* What the records from offset on come to, when those behind the first do    *)
(* to rest.                                                                *)
Continue(copy, isLegacy, offset, rest) ==
  IF Verdict(copy, offset, isLegacy) = "replay"
  THEN Replay(OpsOf(RecordPayload(copy, offset, isLegacy)), rest)
  ELSE [corrupt |-> Verdict(copy, offset, isLegacy) = "corrupt", ops |-> << >>]

(* f is what they come to from every offset that is first or later.           *)
Unfolds(copy, isLegacy, first, f) ==
  f = [offset \in first .. Len(copy) |->
         Continue(copy, isLegacy, offset, f[RecordEnd(copy, offset, isLegacy)])]

LEMMA ReplayIsChosen ==
  ASSUME NEW copy, NEW isLegacy
  PROVE  ReplayFrom(copy, isLegacy) = CHOOSE f : Unfolds(copy, isLegacy, 0, f)
BY DEF ReplayFrom, Unfolds, Continue

(* The recursion goes forward: what it comes to is determined from the end.    *)
LEMMA ReplayExtends ==
  ASSUME NEW copy \in Seq(Cell), NEW isLegacy \in BOOLEAN, NEW first \in 0 .. Len(copy),
         NEW f, Unfolds(copy, isLegacy, first + 1, f)
  PROVE  \E g : Unfolds(copy, isLegacy, first, g)
<1> DEFINE N == Len(copy)
           next(offset) == RecordEnd(copy, offset, isLegacy)
           g == [offset \in first .. N |->
                   IF offset = first THEN Continue(copy, isLegacy, first, f[next(first)])
                   ELSE f[offset]]
<1>1. N \in Nat /\ first \in Nat /\ first .. N = {first} \cup (first + 1) .. N
  OBVIOUS
<1>2. ASSUME NEW offset \in first .. N
      PROVE  Continue(copy, isLegacy, offset, g[next(offset)])
               = Continue(copy, isLegacy, offset, f[next(offset)])
  <2>1. CASE Verdict(copy, offset, isLegacy) = "replay"
    <3>1. next(offset) \in (first + 1) .. N
      <4>1. next(offset) \in Nat /\ next(offset) > offset /\ next(offset) =< N /\ offset \in Nat
        BY <1>1, <2>1, ReplayType
      <4> HIDE DEF next
      <4>2. QED
        BY <1>1, <4>1
    <3> HIDE DEF next
    <3>2. g[next(offset)] = f[next(offset)]
      BY <1>1, <3>1
    <3>3. QED
      BY <3>2
  <2>2. CASE Verdict(copy, offset, isLegacy) # "replay"
    BY <2>2 DEF Continue
  <2>3. QED
    BY <2>1, <2>2
<1>3. ASSUME NEW offset \in first .. N
      PROVE  g[offset] = Continue(copy, isLegacy, offset, f[next(offset)])
  <2>1. CASE offset = first
    BY <2>1
  <2>2. CASE offset # first
    <3>1. offset \in (first + 1) .. N /\ g[offset] = f[offset]
      BY <1>1, <2>2
    <3>2. f[offset] = Continue(copy, isLegacy, offset, f[next(offset)])
      BY <3>1 DEF Unfolds
    <3>3. QED
      BY <3>1, <3>2
  <2>3. QED
    BY <2>1, <2>2
<1>4. g = [offset \in first .. N |-> Continue(copy, isLegacy, offset, g[next(offset)])]
  <2>1. \A offset \in first .. N : g[offset] = Continue(copy, isLegacy, offset, g[next(offset)])
    BY <1>2, <1>3
  <2>2. g = [offset \in first .. N |-> g[offset]]
    OBVIOUS
  <2> HIDE DEF g, next
  <2>3. QED
    BY <2>1, <2>2
<1>5. QED
  BY <1>4, Zenon DEF Unfolds

(* What a replay comes to from an offset, in terms of what it does from the    *)
(* end of the record there.                                                *)
LEMMA ReplayUnfolds ==
  ASSUME NEW copy \in Seq(Cell), NEW isLegacy \in BOOLEAN, NEW offset \in 0 .. Len(copy)
  PROVE  ReplayFrom(copy, isLegacy)[offset]
           = Continue(copy, isLegacy, offset,
                      ReplayFrom(copy, isLegacy)[RecordEnd(copy, offset, isLegacy)])
<1> DEFINE N == Len(copy)
           Defined(first) == \E f : Unfolds(copy, isLegacy, first, f)
           Bad == {d \in 0 .. N + 1 : ~Defined(N + 1 - d)}
<1>1. N \in Nat
  OBVIOUS
<1>2. Bad = {}
  <2> SUFFICES ASSUME Bad # {} PROVE FALSE
    OBVIOUS
  <2>1. Bad \in SUBSET Nat
    BY <1>1
  <2>2. PICK d \in Bad : \A n \in Bad : d =< n
    <3> HIDE DEF Bad
    <3>1. QED
      BY <2>1, LeastMember
  <2>3. d \in 0 .. N + 1 /\ ~Defined(N + 1 - d)
    OBVIOUS
  <2>4. Defined(N + 1)
    <3>1. (N + 1) .. N = {}
      BY <1>1
    <3>2. Unfolds(copy, isLegacy, N + 1, [x \in {} |-> x])
      <4> HIDE DEF N
      <4>1. \A f : [x \in {} |-> x] = [x \in {} |-> Continue(copy, isLegacy, x, f)]
        OBVIOUS
      <4>2. QED
        BY <3>1 DEF Unfolds, N
    <3>3. QED
      BY <3>2
  <2>5. d # 0
    <3> HIDE DEF Defined
    <3>1. d = 0 => N + 1 - d = N + 1
      BY <1>1, <2>3
    <3>2. QED
      BY <2>3, <2>4, <3>1
  <2>6. d - 1 \in 0 .. N + 1 /\ ~(d =< d - 1) /\ N + 1 - (d - 1) = (N + 1 - d) + 1
        /\ N + 1 - d \in 0 .. N
    BY <1>1, <2>3, <2>5
  <2>7. Defined((N + 1 - d) + 1)
    <3> HIDE DEF Defined
    <3>1. d - 1 \notin Bad
      BY <2>2, <2>6
    <3>2. QED
      BY <2>6, <3>1
  <2>8. Defined(N + 1 - d)
    BY <2>6, <2>7, ReplayExtends
  <2>9. QED
    BY <2>3, <2>8
<1>3. Defined(0)
  <2> HIDE DEF Defined
  <2>1. N + 1 \in 0 .. N + 1 /\ N + 1 - (N + 1) = 0
    BY <1>1
  <2>2. QED
    BY <1>2, <2>1
<1>4. Unfolds(copy, isLegacy, 0, ReplayFrom(copy, isLegacy))
  BY <1>3, ReplayIsChosen, Zenon
<1> DEFINE all == ReplayFrom(copy, isLegacy)
<1> HIDE DEF all
<1>5. all = [x \in 0 .. N |-> Continue(copy, isLegacy, x, all[RecordEnd(copy, x, isLegacy)])]
  BY <1>4 DEF Unfolds, all
<1>6. all[offset] = Continue(copy, isLegacy, offset, all[RecordEnd(copy, offset, isLegacy)])
  BY <1>5
<1>7. QED
  BY <1>6 DEF all

-----------------------------------------------------------------------------
(* A copy of the log.                                                       *)

(* cells hold the first n records, and less than one behind them.             *)
LogOf(cells, n) ==
  /\ \A i \in 1 .. n : /\ EndOf(i) =< Len(cells)
                      /\ HoldsRecord(cells, EndOf(i - 1), recs[i].ops, IsLegacy)
  /\ Torn(Journals, cells, EndOf(n))

(* The beginning of the file does, for some n, and for every record that ends  *)
(* inside of it.                                                           *)
LEMMA CopyIsLog ==
  ASSUME TypeInv, LogInv(Journals), Undamaged, NEW copy \in Seq(Cell),
         Base =< Len(copy), Len(copy) =< Len(file.data),
         \A j \in 1 .. Len(copy) : copy[j] = file.data[j]
  PROVE  \E n \in 0 .. Len(recs) :
           /\ LogOf(copy, n)
           /\ \A i \in 0 .. Len(recs) : EndOf(i) =< Len(copy) => i =< n
<1> DEFINE Within == {k \in 0 .. Len(recs) : EndOf(k) =< Len(copy)}
<1>1. /\ Len(recs) \in Nat /\ Len(copy) \in Nat /\ file.data \in Seq(Cell)
      /\ IsLegacy \in BOOLEAN /\ \A k \in 0 .. Len(recs) : EndOf(k) \in Nat
  BY FileType, EndOfType DEF TypeInv, IsLegacy
<1>2. PICK n \in Within : \A k \in Within : k =< n
  <2>1. 0 \in Within
    BY <1>1 DEF EndOf
  <2>2. Within \in SUBSET Nat /\ Within # {} /\ \A k \in Within : k =< Len(recs)
    BY <1>1, <2>1
  <2> HIDE DEF Within
  <2>3. QED
    BY <1>1, <2>2, GreatestMember
<1>3. n \in 0 .. Len(recs) /\ EndOf(n) =< Len(copy)
  OBVIOUS
<1>4. ASSUME NEW i \in 1 .. Len(recs)
      PROVE  /\ recs[i].ops \in Seq(Op) /\ recs[i].ops \in Journals
             /\ EndOf(i - 1) \in Nat
             /\ EndOf(i) = EndOf(i - 1) + RecordSize(recs[i].ops, IsLegacy)
             /\ HoldsRecord(copy, EndOf(i - 1), recs[i].ops, IsLegacy)
  <2>1. recs[i].ops \in Seq(Op) /\ i - 1 \in 0 .. Len(recs) /\ RecordInv(i)
    BY <1>1, RecordType DEF TypeInv, LogInv, RecordsInv
  <2>2. EndOf(i) = EndOf(i - 1) + RecordSize(recs[i].ops, IsLegacy)
    BY <1>1, <2>1 DEF RecordInv, EndOf
  <2>3. HoldsRecord(file.data, EndOf(i - 1), recs[i].ops, IsLegacy)
    BY <2>1, UndamagedIsKnown DEF RecordInv, KeepsRecord, HoldsRecord, Kept
  <2>4. HoldsRecord(copy, EndOf(i - 1), recs[i].ops, IsLegacy)
    <3>1. EndOf(i - 1) \in Nat /\ Len(copy) =< Len(copy)
      BY <1>1, <2>1
    <3>2. \A j \in 1 .. Len(copy) : file.data[j] = copy[j]
      OBVIOUS
    <3>3. QED
      BY <1>1, <2>1, <2>3, <3>1, <3>2, HoldsAgree
  <2>5. QED
    BY <1>1, <2>1, <2>2, <2>4 DEF Journals
<1>5. ASSUME NEW i \in 1 .. n PROVE EndOf(i) =< Len(copy)
  <2>1. i \in 0 .. Len(recs) /\ EndOf(i) =< EndOf(n)
    <3>1. i \in 0 .. Len(recs) /\ (i < n \/ i = n)
      BY <1>1, <1>3
    <3>2. i < n => EndOf(i) < EndOf(n)
      BY <1>3, <3>1 DEF LogInv, RecordsInv
    <3>3. QED
      BY <1>1, <1>3, <3>1, <3>2
  <2>2. QED
    BY <1>1, <1>3, <2>1
<1>6. Torn(Journals, copy, EndOf(n))
  <2>1. CASE n = Len(recs)
    <3>1. Torn(Journals, file.data, EndOf(n)) /\ EndOf(n) \in Nat
      BY <1>1, <1>3, <2>1 DEF LogInv, TailInv, LogEnd
    <3>2. \A j \in 1 .. Len(copy) : file.data[j] = copy[j]
      OBVIOUS
    <3>3. QED
      BY <1>1, <3>1, <3>2, TornAgree
  <2>2. CASE n # Len(recs)
    <3>1. n + 1 \in 1 .. Len(recs) /\ n + 1 \in 0 .. Len(recs) /\ n + 1 - 1 = n /\ ~(n + 1 =< n)
      BY <1>1, <1>3, <2>2
    <3>2. ~(EndOf(n + 1) =< Len(copy))
      BY <1>2, <3>1
    <3>3. /\ recs[n + 1].ops \in Journals
          /\ EndOf(n + 1) = EndOf(n) + RecordSize(recs[n + 1].ops, IsLegacy)
          /\ HoldsRecord(copy, EndOf(n), recs[n + 1].ops, IsLegacy)
      BY <1>4, <3>1
    <3>4. EndOf(n + 1) \in Nat
      BY <1>1, <3>1
    <3>5. Len(copy) < EndOf(n) + RecordSize(recs[n + 1].ops, IsLegacy)
      BY <1>1, <3>2, <3>3, <3>4
    <3>6. KeepsRecord(copy, EndOf(n), recs[n + 1].ops, IsLegacy, IsWorn)
      BY <3>3, HeldIsKept
    <3>7. QED
      BY <3>3, <3>5, <3>6 DEF Torn
  <2>3. QED
    BY <2>1, <2>2
<1>7. \A i \in 1 .. n : i \in 1 .. Len(recs)
  BY <1>1, <1>3
<1>8. LogOf(copy, n)
  BY <1>4, <1>5, <1>6, <1>7 DEF LogOf
<1>9. QED
  BY <1>2, <1>3, <1>8

(* The replay ends, without an error, behind the last record of a copy.        *)
LEMMA CopyEnds ==
  ASSUME Undamaged, NEW copy \in Seq(Cell), NEW offset \in 0 .. Len(copy),
         Torn(Journals, copy, offset)
  PROVE  Verdict(copy, offset, IsLegacy) = "end"
<1>1. offset \in Nat /\ Len(copy) \in Nat /\ IsLegacy \in BOOLEAN
  BY DEF IsLegacy
<1>2. CASE Len(copy) > offset
  <2>1. PICK ops \in Journals : /\ Len(copy) < offset + RecordSize(ops, IsLegacy)
                                /\ HoldsRecord(copy, offset, ops, IsLegacy)
    BY <1>2, UndamagedIsKnown DEF Torn, Broken, KeepsRecord, HoldsRecord, Kept
  <2>2. ops \in Seq(Op)
    BY DEF Journals
  <2>3. QED
    BY <1>1, <2>1, <2>2, TornRecordEnds
<1>3. CASE ~(Len(copy) > offset)
  <2>1. ~HeaderPresent(copy, offset, IsLegacy)
    BY <1>1, <1>3 DEF HeaderPresent, RecordStart, RecordHeader
  <2>2. QED
    BY <2>1 DEF Verdict
<1>4. QED
  BY <1>2, <1>3

(* What comes of the records behind the k-th of n: a journal that takes the    *)
(* store of the k-th to that of the n-th.                                   *)
Redoes(copy, k, n) ==
  \E ops \in Seq(Op) :
    /\ ReplayFrom(copy, IsLegacy)[EndOf(k)] = [corrupt |-> FALSE, ops |-> ops]
    /\ ApplyOps(StateAt(k), ops) = StateAt(n)

LEMMA ReplayJoins ==
  ASSUME NEW a \in Seq(Op), NEW b \in Seq(Op)
  PROVE  Replay(a, [corrupt |-> FALSE, ops |-> b]) = [corrupt |-> FALSE, ops |-> a \o b]
<1> DEFINE rest == [corrupt |-> FALSE, ops |-> b]
           R == [corrupt : BOOLEAN, ops : Seq(Op)]
           joined == [rest EXCEPT !.ops = a \o b]
<1>1. a \o b \in Seq(Op) /\ rest \in R /\ rest.ops = b /\ rest.corrupt = FALSE
  OBVIOUS
<1>2. Replay(a, rest) = joined
  BY <1>1 DEF Replay
<1> HIDE DEF rest
<1>3. joined \in R /\ joined.ops = a \o b /\ joined.corrupt = FALSE
  BY <1>1
<1> HIDE DEF joined
<1>4. joined = [corrupt |-> FALSE, ops |-> a \o b]
  BY <1>3
<1>5. QED
  BY <1>2, <1>4 DEF rest

(* One record further from the end.                                         *)
LEMMA RedoesOneMore ==
  ASSUME TypeInv, LogInv(Journals), NEW copy \in Seq(Cell), NEW n \in 0 .. Len(recs),
         LogOf(copy, n), NEW k \in 1 .. n, Redoes(copy, k, n)
  PROVE  Redoes(copy, k - 1, n)
<1> DEFINE first == recs[k].ops
           all == ReplayFrom(copy, IsLegacy)
<1>1. /\ k \in 1 .. Len(recs) /\ k # 0 /\ k - 1 \in 0 .. Len(recs) /\ IsLegacy \in BOOLEAN
      /\ EndOf(k - 1) \in Nat /\ Len(copy) \in Nat
  BY EndOfType DEF TypeInv, IsLegacy
<1>2. /\ first \in Seq(Op) /\ StateAt(k) = ApplyOps(StateAt(k - 1), first)
      /\ EndOf(k) = EndOf(k - 1) + RecordSize(first, IsLegacy)
  BY <1>1, RecordType DEF TypeInv, LogInv, RecordsInv, RecordInv, StateAt, EndOf
<1>3. EndOf(k) =< Len(copy) /\ HoldsRecord(copy, EndOf(k - 1), first, IsLegacy)
  BY DEF LogOf
<1>4. StateAt(k - 1) \in Store
  BY <1>1, RecordType, EmptyStoreType DEF TypeInv, StateAt
<1> HIDE DEF first
<1>5. /\ Verdict(copy, EndOf(k - 1), IsLegacy) = "replay"
      /\ RecordEnd(copy, EndOf(k - 1), IsLegacy) = EndOf(k)
      /\ OpsOf(RecordPayload(copy, EndOf(k - 1), IsLegacy)) = first
  BY <1>1, <1>2, <1>3, CompleteRecordReplays
<1>6. EndOf(k - 1) \in 0 .. Len(copy)
  BY <1>1, <1>2, <1>3, RecordSizeType
<1>7. all[EndOf(k - 1)] = Replay(first, all[EndOf(k)])
  <2>1. all[EndOf(k - 1)] = Continue(copy, IsLegacy, EndOf(k - 1), all[EndOf(k)])
    BY <1>1, <1>5, <1>6, ReplayUnfolds
  <2> HIDE DEF all
  <2>2. QED
    BY <1>5, <2>1 DEF Continue
<1>8. PICK ops \in Seq(Op) : all[EndOf(k)] = [corrupt |-> FALSE, ops |-> ops]
                             /\ ApplyOps(StateAt(k), ops) = StateAt(n)
  BY DEF Redoes
<1> HIDE DEF all
<1>9. all[EndOf(k - 1)] = [corrupt |-> FALSE, ops |-> first \o ops]
  BY <1>2, <1>7, <1>8, ReplayJoins
<1>10. first \o ops \in Seq(Op)
  BY <1>2
<1>11. ApplyOps(StateAt(k - 1), first \o ops) = StateAt(n)
  BY <1>2, <1>4, <1>8, ApplyOpsConcat
<1>12. QED
  BY <1>9, <1>10, <1>11 DEF Redoes, all

(* A replay of a copy rebuilds the store of the last record in it.             *)
LEMMA CopyReplays ==
  ASSUME TypeInv, LogInv(Journals), Undamaged, NEW copy \in Seq(Cell),
         NEW n \in 0 .. Len(recs), LogOf(copy, n), EndOf(n) =< Len(copy)
  PROVE  Redoes(copy, 0, n)
<1> DEFINE Bad == {k \in 0 .. n : ~Redoes(copy, k, n)}
<1>1. n \in Nat /\ Len(recs) \in Nat /\ EndOf(n) \in Nat /\ Len(copy) \in Nat
      /\ IsLegacy \in BOOLEAN
  BY EndOfType DEF TypeInv, IsLegacy
<1>2. Redoes(copy, n, n)
  <2>1. Torn(Journals, copy, EndOf(n)) /\ EndOf(n) \in 0 .. Len(copy)
    BY <1>1 DEF LogOf
  <2>2. Verdict(copy, EndOf(n), IsLegacy) = "end"
    BY <2>1, CopyEnds
  <2>3. ReplayFrom(copy, IsLegacy)[EndOf(n)] = [corrupt |-> FALSE, ops |-> << >>]
    <3>1. ReplayFrom(copy, IsLegacy)[EndOf(n)]
            = Continue(copy, IsLegacy, EndOf(n),
                       ReplayFrom(copy, IsLegacy)[RecordEnd(copy, EndOf(n), IsLegacy)])
      BY <1>1, <2>1, ReplayUnfolds
    <3>2. QED
      BY <2>2, <3>1 DEF Continue
  <2>4. StateAt(n) \in Store
    BY <1>1, RecordType, EmptyStoreType DEF TypeInv, StateAt
  <2>5. << >> \in Seq(Op) /\ ApplyOps(StateAt(n), << >>) = StateAt(n)
    BY <2>4, ApplyNoOps
  <2>6. QED
    BY <2>3, <2>5 DEF Redoes
<1>3. Bad = {}
  <2> SUFFICES ASSUME Bad # {} PROVE FALSE
    OBVIOUS
  <2>1. Bad \in SUBSET Nat /\ \A k \in Bad : k =< n
    BY <1>1
  <2>2. PICK m \in Bad : \A k \in Bad : k =< m
    <3> HIDE DEF Bad
    <3>1. QED
      BY <1>1, <2>1, GreatestMember
  <2>3. m \in 0 .. n /\ ~Redoes(copy, m, n)
    OBVIOUS
  <2>4. m # n
    BY <1>2, <2>3
  <2>5. m + 1 \in 1 .. n /\ m + 1 \in 0 .. n /\ ~(m + 1 =< m) /\ (m + 1) - 1 = m
    BY <1>1, <2>3, <2>4
  <2>6. Redoes(copy, m + 1, n)
    BY <2>2, <2>5
  <2>7. Redoes(copy, (m + 1) - 1, n)
    BY <2>5, <2>6, RedoesOneMore
  <2>8. QED
    BY <2>3, <2>5, <2>7
<1>4. QED
  BY <1>1, <1>3

(* What a recovery makes of a copy that holds what the file began with and     *)
(* every acknowledged record: a store the database had.                      *)
LEMMA CopyIsRecovered ==
  ASSUME TypeInv, LogInv(Journals), Undamaged, NEW copy \in Seq(Cell),
         Base =< Len(copy), Len(copy) =< Len(file.data),
         \A j \in 1 .. Len(copy) : copy[j] = file.data[j],
         reading.size =< Len(copy), reading.size \in Nat,
         NEW known \in 0 .. Len(recs), EndOf(known) =< Len(copy), IsLegacy => known > 0
  PROVE  \E n \in known .. Len(recs) : Seen(copy) = Shown(StateAt(n))
<1>1. /\ Len(recs) \in Nat /\ Len(copy) \in Nat /\ file.data \in Seq(Cell)
      /\ IsLegacy \in BOOLEAN /\ Base \in Nat
      /\ \A k \in 0 .. Len(recs) : EndOf(k) \in Nat
  BY FileType, EndOfType DEF TypeInv, IsLegacy
<1>2. PICK n \in 0 .. Len(recs) :
        /\ LogOf(copy, n)
        /\ \A i \in 0 .. Len(recs) : EndOf(i) =< Len(copy) => i =< n
  BY CopyIsLog
<1>3. n \in known .. Len(recs)
  <2>1. known =< n
    BY <1>2
  <2>2. QED
    BY <1>1, <2>1
<1>4. EndOf(n) =< Len(copy)
  <2>1. CASE n = 0
    BY <2>1 DEF EndOf
  <2>2. CASE n # 0
    <3>1. n \in 1 .. n
      BY <2>2
    <3>2. QED
      BY <1>2, <3>1 DEF LogOf
  <2>3. QED
    BY <2>1, <2>2
<1>5. PICK ops \in Seq(Op) :
        /\ ReplayFrom(copy, IsLegacy)[Base] = [corrupt |-> FALSE, ops |-> ops]
        /\ ApplyOps(EmptyStore, ops) = StateAt(n)
  <2>1. Redoes(copy, 0, n)
    BY <1>2, <1>4, CopyReplays
  <2>2. EndOf(0) = Base /\ StateAt(0) = EmptyStore
    BY DEF EndOf, StateAt
  <2>3. QED
    BY <2>1, <2>2 DEF Redoes
<1>6. CASE IsLegacy
  <2>1. IsLegacy = TRUE /\ Base = 0
    BY <1>6 DEF IsLegacy, Base
  <2>2. 1 \in 1 .. n /\ 1 \in 1 .. Len(recs) /\ 1 - 1 = 0
    BY <1>1, <1>3, <1>6
  <2>3. /\ recs[1].ops \in Seq(Op) /\ recs[1].ops # << >>
        /\ RecordSize(recs[1].ops, IsLegacy) =< Len(copy)
        /\ HoldsRecord(copy, 0, recs[1].ops, IsLegacy)
    <3>1. RecordInv(1) /\ recs[1].ops \in Seq(Op)
      BY <2>2, RecordType DEF TypeInv, LogInv, RecordsInv
    <3>2. EndOf(1 - 1) = 0 /\ EndOf(1) = recs[1].end
      BY <2>1, <2>2 DEF EndOf
    <3>3. EndOf(1) =< Len(copy) /\ HoldsRecord(copy, EndOf(1 - 1), recs[1].ops, IsLegacy)
      BY <1>2, <2>2 DEF LogOf
    <3>4. RecordSize(recs[1].ops, IsLegacy) \in Nat
      BY <1>1, <3>1, RecordSizeType
    <3>5. recs[1].ops # << >> /\ recs[1].end = RecordSize(recs[1].ops, IsLegacy)
      BY <3>1, <3>2, <3>4 DEF RecordInv
    <3>6. QED
      BY <3>1, <3>2, <3>3, <3>5
  <2>4. Recognise(copy) = "legacy"
    BY <1>1, <2>1, <2>3, LegacyFileRecognised
  <2>5. ReplayFrom(copy, TRUE)[0] = [corrupt |-> FALSE, ops |-> ops]
    BY <1>5, <2>1
  <2>6. Seen(copy) = Shown(StateAt(n))
    <3> DEFINE all == ReplayFrom(copy, TRUE)[0]
    <3>1. Seen(copy) = IF all.corrupt THEN Refused("CORRUPT_WAL")
                       ELSE Shown(ApplyOps(EmptyStore, all.ops))
      <4>1. ~(Len(copy) < reading.size)
        BY <1>1
      <4>2. QED
        BY <2>4, <4>1 DEF Seen
    <3>2. all = [corrupt |-> FALSE, ops |-> ops]
      BY <2>5
    <3> HIDE DEF all
    <3>3. ~all.corrupt /\ all.ops = ops
      BY <3>2
    <3>4. QED
      BY <1>5, <3>1, <3>3
  <2>7. QED
    BY <1>3, <2>6
<1>7. CASE ~IsLegacy
  <2>1. IsLegacy = FALSE /\ Base = FILE_HEADER
    BY <1>7 DEF IsLegacy, Base
  <2>2. copy[1] = Magic /\ copy[2] = Version(FORMAT_VERSION)
    <3>1. FILE_HEADER = 2 /\ 1 \in 1 .. Len(copy) /\ 2 \in 1 .. Len(copy)
          /\ 1 =< Len(file.data) /\ 2 =< Len(file.data)
      BY <1>1, <2>1 DEF FILE_HEADER
    <3>2. file.data[1] = EncodeFileHeader[1] /\ file.data[2] = EncodeFileHeader[2]
      BY <1>7, <3>1, UndamagedIsKnown DEF LogInv, HasHeader, Kept
    <3>3. QED
      BY <3>1, <3>2, FileHeaderType
  <2>3. copy # << >> /\ ~(Len(copy) < FILE_HEADER)
    BY <1>1, <2>1 DEF FILE_HEADER
  <2>4. Recognise(copy) = "v1"
    BY <2>2, <2>3 DEF Recognise
  <2>5. ReplayFrom(copy, FALSE)[FILE_HEADER] = [corrupt |-> FALSE, ops |-> ops]
    BY <1>5, <2>1
  <2>6. Seen(copy) = Shown(StateAt(n))
    <3> DEFINE all == ReplayFrom(copy, FALSE)[FILE_HEADER]
    <3>1. Seen(copy) = IF all.corrupt THEN Refused("CORRUPT_WAL")
                       ELSE Shown(ApplyOps(EmptyStore, all.ops))
      <4>1. ~(Len(copy) < reading.size)
        BY <1>1
      <4>2. QED
        BY <2>4, <4>1 DEF Seen
    <3>2. all = [corrupt |-> FALSE, ops |-> ops]
      BY <2>5
    <3> HIDE DEF all
    <3>3. ~all.corrupt /\ all.ops = ops
      BY <3>2
    <3>4. QED
      BY <1>5, <3>1, <3>3
  <2>7. QED
    BY <1>3, <2>6
<1>8. QED
  BY <1>6, <1>7

(* What a reader that is through is shown, if the file was not cut: a state     *)
(* between two commits, or none of a file nothing was committed to.           *)
LEMMA WhatIsSeen ==
  ASSUME SharedInv, Complete, ~reading.cut
  PROVE  \/ \E n \in reading.acked .. Len(recs) : Seen(reading.copy) = Shown(StateAt(n))
         \/ Seen(reading.copy) = Refused("NOT_A_DATABASE") /\ reading.acked = 0
<1> DEFINE copy == reading.copy
           known == reading.acked
<1>1. /\ TypeInv /\ TypeOK /\ LogInv(Journals) /\ Undamaged
      /\ reading.size \in Nat /\ copy \in Seq(Cell) /\ known \in Nat
  BY UndamagedIsKnown DEF SharedInv, Complete, Sound, TypeInv, ReaderInv, Reading
<1>2. /\ Len(copy) \in Nat /\ Len(file.data) \in Nat /\ Len(recs) \in Nat /\ Base \in Nat
      /\ IsLegacy \in BOOLEAN /\ \A k \in 0 .. Len(recs) : EndOf(k) \in Nat
  BY <1>1, FileType, EndOfType DEF IsLegacy
<1>3. /\ reading.size =< Len(file.data) /\ Len(copy) =< reading.size
      /\ \A j \in 1 .. Len(copy) : copy[j] = file.data[j]
      /\ known =< Len(recs)
      /\ known > 0 => recs[known].end =< reading.size
      /\ IsLegacy => known > 0
  BY <1>1 DEF SharedInv, ReaderInv, Complete
<1>4. Len(copy) = reading.size
  BY <1>1, <1>2, <1>3 DEF Complete, AtEnd, Wanted
<1>5. known \in 0 .. Len(recs) /\ (known > 0 => EndOf(known) =< Len(copy))
      /\ (known > 0 => Base < EndOf(known))
  <2>1. known \in 0 .. Len(recs) /\ 0 \in 0 .. Len(recs)
    BY <1>1, <1>2, <1>3
  <2>2. known > 0 => EndOf(0) < EndOf(known)
    BY <1>1, <2>1 DEF LogInv, RecordsInv
  <2>3. EndOf(0) = Base /\ (known > 0 => EndOf(known) = recs[known].end)
    BY <1>1 DEF EndOf
  <2>4. QED
    BY <1>3, <1>4, <2>1, <2>2, <2>3
<1> HIDE DEF known
<1>6. CASE Base =< Len(copy)
  <2>1. EndOf(known) =< Len(copy)
    BY <1>1, <1>5, <1>6 DEF EndOf
  <2> HIDE DEF copy
  <2>2. \E n \in known .. Len(recs) : Seen(copy) = Shown(StateAt(n))
    BY <1>1, <1>2, <1>3, <1>4, <1>5, <1>6, <2>1, CopyIsRecovered
  <2>3. QED
    BY <2>2 DEF copy, known
<1>7. CASE ~(Base =< Len(copy))
  <2>1. Base = FILE_HEADER /\ Len(copy) < FILE_HEADER
    BY <1>2, <1>7 DEF Base
  <2>2. known = 0
    BY <1>1, <1>2, <1>5, <1>7
  <2>3. CASE copy = << >>
    <3>1. Seen(copy) = Shown(EmptyStore)
      BY <1>4, <2>3 DEF Seen, Recognise
    <3>2. 0 \in known .. Len(recs) /\ StateAt(0) = EmptyStore
      BY <1>2, <2>2 DEF StateAt
    <3>3. QED
      BY <3>1, <3>2 DEF known
  <2>4. CASE copy # << >>
    <3>1. Recognise(copy) = "NOT_A_DATABASE"
      BY <2>1, <2>4 DEF Recognise
    <3>2. Seen(copy) = Refused("NOT_A_DATABASE")
      BY <1>2, <1>4, <3>1 DEF Seen
    <3>3. QED
      BY <2>2, <3>2 DEF known
  <2>5. QED
    BY <2>3, <2>4
<1>8. QED
  BY <1>6, <1>7

(* A reader beside a live writer is shown a state between two commits, none     *)
(* older than what had been acknowledged when it began, unless the file was     *)
(* cut beneath it (readonly-fs.ts; recover() and replayLog() of core.ts).      *)
THEOREM ReadersSeeCommits == SharedSpec => []ReaderSeesCommits
<1>1. SharedInv => ReaderSeesCommits
  <2> SUFFICES ASSUME SharedInv, Complete, Seen(reading.copy).error = "none", ~reading.cut
               PROVE  \E n \in reading.acked .. Len(recs) : Seen(reading.copy).store = StateAt(n)
    BY DEF ReaderSeesCommits
  <2>1. Refused("NOT_A_DATABASE").error # "none" /\ \A store : Shown(store).store = store
    BY DEF Refused, Shown
  <2>2. QED
    BY <2>1, WhatIsSeen
<1>2. QED
  BY <1>1, AlwaysShared, PTL

(* It is refused only a file that was cut beneath it, or one that nothing was   *)
(* committed to when it began.                                              *)
THEOREM ReadersAreRefusedForCause == SharedSpec => []ReaderRefusedForCause
<1>1. SharedInv => ReaderRefusedForCause
  <2> SUFFICES ASSUME SharedInv, Complete, Seen(reading.copy).error # "none", ~reading.cut
               PROVE  Seen(reading.copy).error = "NOT_A_DATABASE" /\ reading.acked = 0
    BY DEF ReaderRefusedForCause
  <2>1. Refused("NOT_A_DATABASE").error = "NOT_A_DATABASE"
        /\ \A store : Shown(store).error = "none"
    BY DEF Refused, Shown
  <2>2. QED
    BY <2>1, WhatIsSeen
<1>2. QED
  BY <1>1, AlwaysShared, PTL
=============================================================================
