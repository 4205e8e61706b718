------------------------------ MODULE SharedFile ------------------------------
(***************************************************************************)
(* The file of Kernel among others: its entry in the directory, which is     *)
(* durable only when the directory was fsync'd (src/adapter/node-fs.ts,       *)
(* open), and a process that reads it beside the writer, through             *)
(* src/cli/readonly-fs.ts and without the lock.                             *)
(*                                                                         *)
(* A reader is in another process: it outlives a writer that is killed, but   *)
(* no power loss.  Its recovery is core.ts's own, over what it copied.        *)
(***************************************************************************)
EXTENDS Kernel

CONSTANT DirectoryFsync  \* how the fsync of a directory may end: see SyncDirectory

ASSUME DirectoryAssumption == DirectoryFsync \subseteq {"done", "unsupported", "failed"}

VARIABLES
  entry,    \* the file's name: "absent", "fresh" (made by the running open), "volatile", "durable"
  unsynced, \* history: a name was made and the fsync of its directory did not happen
  reading   \* the reader: None, or the size it was told, what it copied so far,
            \* and, as history, the commits acknowledged when it began and if the
            \* file was cut since

sharedVars == <<vars, entry, unsynced, reading>>

SharedInit ==
  /\ Init
  /\ entry = IF origin = "new" THEN "absent" ELSE "durable"
  /\ unsynced = FALSE
  /\ reading = None

-----------------------------------------------------------------------------
(* The writer.                                                             *)

(* open() of the adapter: it makes the file if there is none.               *)
OpenOrCreate ==
  /\ OpenFile
  /\ entry' = IF entry = "absent" THEN "fresh" ELSE entry
  /\ UNCHANGED unsynced

(* Mutant: the name is not made durable.                                   *)
SyncDirectory_Skipped ==
  /\ pc = "read" /\ entry = "fresh"
  /\ entry' = "volatile"
  /\ UNCHANGED <<vars, unsynced>>

(* fsyncDirectoryOf(): done, or not supported and tolerated.                 *)
SyncDirectory ==
  /\ pc = "read" /\ entry = "fresh"
  /\ \/ "done" \in DirectoryFsync /\ entry' = "durable" /\ UNCHANGED unsynced
     \/ "unsupported" \in DirectoryFsync /\ entry' = "volatile" /\ unsynced' = TRUE
  /\ UNCHANGED vars

(* It throws (OpenFails): the lock is released, the descriptor is not         *)
(* closed, and the next open finds a file that is there.                     *)
SyncDirectoryFails ==
  /\ pc = "read" /\ entry = "fresh"
  /\ "failed" \in DirectoryFsync
  /\ entry' = "volatile" /\ unsynced' = TRUE
  /\ pc' = "down" /\ lock' = "free" /\ refusal' = "IO"
  /\ UNCHANGED <<file, handle, recoveryVars, instanceVars, txVars, historyVars>>

(* Everything else of Kernel, once the adapter's open is over.               *)
Work ==
  /\ ~(pc = "read" /\ entry = "fresh")
  /\ \/ OpenFails /\ ~handle'
     \/ Recovering \/ ReadShort \/ RecoveryThrows
     \/ Begin \/ (\E op \in Op : Mutate(op)) \/ Abort \/ CommitEmpty \/ StartAppend
     \/ Committing \/ CommitFails
     \/ Close
  /\ UNCHANGED <<entry, unsynced>>

KillWriter ==
  /\ Kill
  /\ entry' = IF entry = "fresh" THEN "volatile" ELSE entry
  /\ unsynced' = (unsynced \/ entry = "fresh")

(* Does the file change by an append, if at all?                            *)
Grows == /\ Len(file'.data) >= Len(file.data)
         /\ SubSeq(file'.data, 1, Len(file.data)) = file.data

WriterStep ==
  /\ OpenOrCreate \/ SyncDirectory \/ SyncDirectoryFails \/ Work \/ KillWriter
  /\ reading' = IF reading = None THEN None ELSE [reading EXCEPT !.cut = @ \/ ~Grows]

(* A power loss may take a name that is not durable, and the file with it.    *)
Survives == PowerLoss /\ entry' = (IF entry = "absent" THEN "absent" ELSE "durable")

Vanishes ==
  /\ entry \in {"fresh", "volatile"}
  /\ entry' = "absent"
  /\ file' = AtRest(<< >>)
  /\ recs' = << >> /\ acked' = 0
  /\ lost' = IF acked > 0 THEN 1 ELSE lost  \* bound: that, not how often
  /\ NoInstance
  /\ refusal' = "none" /\ log' = << >>
  /\ lock' = IF lock = "held" THEN "stale" ELSE lock
  /\ UNCHANGED <<origin, rot>>

Blackout == (Survives \/ Vanishes) /\ reading' = None /\ UNCHANGED unsynced

-----------------------------------------------------------------------------
(* The reader.                                                             *)

(* It opens the file, which must be there, and asks for its size.            *)
ReadStart ==
  /\ reading = None
  /\ entry # "absent"
  /\ reading' = [size |-> Len(file.data), copy |-> << >>, acked |-> acked, cut |-> FALSE]
  /\ UNCHANGED <<vars, entry, unsynced>>

(* How much of the file's contents it keeps.                               *)
Wanted == reading.size

AtEnd == Len(reading.copy) >= Wanted \/ Len(reading.copy) >= Len(file.data)

(* readFileSync() goes through the file while that changes.                  *)
ReadCell ==
  /\ reading # None
  /\ ~AtEnd
  /\ reading' = [reading EXCEPT !.copy = Append(@, file.data[Len(@) + 1])]
  /\ UNCHANGED <<vars, entry, unsynced>>

(* Mutant: the latest record is replayed first.                             *)
Replay_LatestFirst(ops, rest) == [rest EXCEPT !.ops = @ \o ops]

(* A record's operations are replayed before those of the rest.              *)
Replay(ops, rest) == [rest EXCEPT !.ops = ops \o @]

(* replayLog() over a copy: the operations of the records from every offset,  *)
(* or that it throws.                                                      *)
ReplayFrom(copy, isLegacy) ==
  LET from[offset \in 0 .. Len(copy)] ==
        IF Verdict(copy, offset, isLegacy) = "replay"
        THEN Replay(OpsOf(RecordPayload(copy, offset, isLegacy)),
                    from[RecordEnd(copy, offset, isLegacy)])
        ELSE [corrupt |-> Verdict(copy, offset, isLegacy) = "corrupt", ops |-> << >>]
  IN  from

(* What its open() makes of the copy: a store, or an error.  Truncation and     *)
(* fsync do nothing.                                                        *)
Shown(store) == [error |-> "none", store |-> store]
Refused(code) == [error |-> code, store |-> EmptyStore]

Seen(copy) ==
  LET kind == Recognise(copy)
      all  == IF kind = "legacy" THEN ReplayFrom(copy, TRUE)[0]
              ELSE ReplayFrom(copy, FALSE)[FILE_HEADER]
  IN  IF Len(copy) < reading.size THEN Refused("INCOMPLETE_READ")
      ELSE IF kind = "new" THEN Shown(EmptyStore)
      ELSE IF kind \notin {"v1", "legacy"} THEN Refused(kind)
      ELSE IF all.corrupt THEN Refused("CORRUPT_WAL") ELSE Shown(ApplyOps(EmptyStore, all.ops))

ReadDone ==
  /\ reading # None
  /\ AtEnd
  /\ reading' = None
  /\ UNCHANGED <<vars, entry, unsynced>>

ReaderStep == ReadStart \/ ReadCell \/ ReadDone

-----------------------------------------------------------------------------

SharedNext == WriterStep \/ Blackout \/ ReaderStep

SharedSpec == SharedInit /\ [][SharedNext]_sharedVars

-----------------------------------------------------------------------------

Complete == reading # None /\ AtEnd /\ Undamaged

(* A reader beside a live writer is shown a state between two commits, and    *)
(* none that is older than what had been acknowledged when it began: no half   *)
(* of a record, although it takes size and contents at different times and     *)
(* the writer appends, fails, dies and is replaced meanwhile (readonly-fs.ts,  *)
(* "recovered correctly IN MEMORY").  Not so if the file is cut beneath it:    *)
(* the header of a record that failed and the payload of the next, if it       *)
(* begins with the same operations, make a record that never was.             *)
ReaderSeesCommits ==
  Complete /\ Seen(reading.copy).error = "none" /\ ~reading.cut =>
    \E n \in reading.acked .. Len(recs) : Seen(reading.copy).store = StateAt(n)

(* It is refused without cause only while the file is cut beneath it, or where *)
(* nothing was committed yet.                                               *)
ReaderRefusedForCause ==
  Complete /\ Seen(reading.copy).error # "none" =>
    \/ reading.cut
    \/ Seen(reading.copy).error = "NOT_A_DATABASE" /\ reading.acked = 0

(* Every acknowledged commit outlives a power loss, the file's name included,  *)
(* if no open that made the name was cut short before its directory was        *)
(* fsync'd (node-fs.ts, fsyncDirectoryOf).                                  *)
NamedAndDurable ==
  Undamaged /\ ~unsynced =>
    /\ AckedDurable
    /\ acked > 0 => entry = "durable"
=============================================================================
