-------------------------------- MODULE Kernel --------------------------------
(***************************************************************************)
(* The durable kernel of src/core.ts: open(path) with crash recovery,       *)
(* transact() with its write-ahead commit, and close(), over one file and   *)
(* one database instance at a time.                                        *)
(*                                                                         *)
(* The code is synchronous, so an action is what happens between two points *)
(* where the process can die or the file system can fail: one read of the   *)
(* file, one replayed record, one truncation, one fsync, one cell of an     *)
(* append.  pc says where the instance is:                                 *)
(*                                                                         *)
(*   down -> read -> replay -> [truncate -> sync -> notify] -> idle         *)
(*   idle -> body -> write -> fsync -> install -> idle                      *)
(***************************************************************************)
EXTENDS WalFormat, WalFile

CONSTANTS
  Origins,        \* which kinds of file may be at the path: "new", "legacy", "foreign"
  ForeignFiles,   \* contents of files that are not LibreDB databases
  LegacyJournals, \* what a v0.1.x database may hold before the first open
  MaxRecords,     \* bound: records in the log
  MaxOps,         \* bound: operations in one transaction
  MaxRot,         \* bound: damaged cells
  MaxLength       \* bound: what a damaged length field may read as

Journal == Seq(Op) \ {<< >>}

ASSUME OriginsAssumption == Origins \subseteq {"new", "legacy", "foreign"}
ASSUME ForeignAssumption == ForeignFiles \subseteq Seq(Cell)
(* They hold something, but begin neither with the header of a v1 file nor     *)
(* with a v0.1.x record of one or more operations.                          *)
ASSUME NotOursAssumption ==
  \A cells \in ForeignFiles :
    /\ cells # << >>
    /\ \E i \in 1 .. FILE_HEADER : Len(cells) < i \/ cells[i] # EncodeFileHeader[i]
    /\ ~\E n \in 1 .. Len(cells) - 2 :
         LET ops == SubSeq(cells, 3, n + 2) IN
           cells[1] = U32(n) /\ cells[2] = Sum(ops) /\ WellFormed(ops)

ASSUME LegacyAssumption == \A ops \in LegacyJournals : ops \in Seq(Op) /\ ops # << >>
ASSUME BoundsAssumption == {MaxRecords, MaxOps, MaxRot, MaxLength} \subseteq Nat

VARIABLES
  file,         \* the file's contents: see WalFile
  lock,         \* its writer lock: "free", "held", or "stale" (the holder died)
  handle,       \* does the process hold open what its last open() opened?
  pc,           \* where the instance is
  refusal,      \* error code of the last open, if it was refused
  log,          \* recover(): the bytes it read
  pos,          \* replayLog(): offset
  entries,      \* replayLog(): the store rebuilt so far
  replayed,     \* replayLog(): records replayed so far
  legacy,       \* Recovery.legacy
  needsHeader,  \* openLog(): does the next append write the file header?
  committed,    \* open(): the committed store
  failed,       \* open(): the latch set by a commit that failed to reach the disk
  working,      \* transact(): the transaction's snapshot
  journal,      \* transact(): its redo record
  out           \* the cells of the append in flight not yet written

(* History variables: they never influence what the code does.             *)
VARIABLES
  origin,       \* what was at the path before the first open
  recs,         \* the transactions whose records are complete in file.data,
                \* with the store each produced and the offset its record ends at
  acked,        \* the first acked of them were reported committed to a caller
  lost,         \* acknowledged commits that recovery discarded
  rot           \* cells damaged so far

recoveryVars == <<log, pos, entries, replayed>>
instanceVars == <<legacy, needsHeader, committed, failed>>
txVars == <<working, journal, out>>
lockVars == <<lock, handle>>
historyVars == <<origin, recs, acked, lost, rot>>
vars == <<file, pc, refusal, lockVars, recoveryVars, instanceVars, txVars, historyVars>>

Record == [ops : Seq(Op), state : Store, end : Nat]

(* Where the records of this file begin.                                   *)
Base == IF origin = "legacy" THEN 0 ELSE FILE_HEADER

(* The store after the first n records, and the offset they end at.         *)
StateAt(n) == IF n = 0 THEN EmptyStore ELSE recs[n].state
EndOf(n) == IF n = 0 THEN Base ELSE recs[n].end

-----------------------------------------------------------------------------

(* Everything the process keeps in memory is gone.                         *)
NoInstance ==
  /\ pc' = "down"
  /\ handle' = FALSE
  /\ pos' = 0 /\ entries' = EmptyStore /\ replayed' = 0
  /\ legacy' = FALSE /\ needsHeader' = FALSE
  /\ committed' = EmptyStore /\ failed' = FALSE
  /\ working' = EmptyStore /\ journal' = << >> /\ out' = << >>

Init ==
  /\ origin \in Origins
  /\ \/ origin = "new" /\ file = AtRest(<< >>) /\ recs = << >>
     \/ origin = "foreign" /\ recs = << >> /\ \E cells \in ForeignFiles : file = AtRest(cells)
     \/ /\ origin = "legacy"
        /\ \E ops \in LegacyJournals :
             /\ file = AtRest(EncodeRecord(ops, TRUE))
             /\ recs = <<[ops |-> ops, state |-> ApplyOps(EmptyStore, ops),
                          end |-> Len(EncodeRecord(ops, TRUE))]>>
  /\ acked = Len(recs)
  /\ lost = 0 /\ rot = 0
  /\ lock = "free" /\ handle = FALSE
  /\ pc = "down" /\ refusal = "none"
  /\ log = << >> /\ pos = 0 /\ entries = EmptyStore /\ replayed = 0
  /\ legacy = FALSE /\ needsHeader = FALSE
  /\ committed = EmptyStore /\ failed = FALSE
  /\ working = EmptyStore /\ journal = << >> /\ out = << >>

-----------------------------------------------------------------------------
(* open(path): take the lock, open the file, recover.                      *)

OpenFile ==
  /\ pc = "down"
  /\ lock # "held"            \* else LOCKED, and nothing changes
  /\ pc' = "read"
  /\ lock' = "held"
  /\ handle' = TRUE
  /\ refusal' = "none"
  /\ log' = << >>
  /\ UNCHANGED <<file, pos, entries, replayed, instanceVars, txVars, historyVars>>

(* fs.open() throws: the lock is released.  If it was the fsync of the        *)
(* directory that threw, just after the file was made, nothing closes the      *)
(* descriptor of that file.                                                 *)
OpenFails ==
  /\ pc = "down"
  /\ lock # "held"
  /\ lock' = "free"
  /\ handle' \in BOOLEAN /\ (handle' => file.data = << >>)
  /\ refusal' = "IO"
  /\ log' = << >>
  /\ UNCHANGED <<file, pc, pos, entries, replayed, instanceVars, txVars, historyVars>>

(* Mutant: a refused open leaves its lock behind.                          *)
Refuse_KeepsLock(code) ==
  /\ NoInstance
  /\ refusal' = code
  /\ UNCHANGED lock

(* A refused open closes the handle, releases the lock and reports code.    *)
Refuse(code) ==
  /\ NoInstance
  /\ refusal' = code
  /\ lock' = "free"

(* The open returns: the recovered store is visible.                       *)
Opened(store, isNew, isLegacy) ==
  /\ pc' = "idle"
  /\ committed' = store
  /\ needsHeader' = isNew
  /\ legacy' = isLegacy
  /\ failed' = FALSE
  /\ log' = << >> /\ pos' = 0 /\ entries' = EmptyStore /\ replayed' = 0
  /\ UNCHANGED <<refusal, lockVars, txVars>>

(* Mutant: a file that is not recognised is emptied.                       *)
ReadLog_Empties ==
  /\ pc = "read"
  /\ Recognise(file.data) \in {"NOT_A_DATABASE", "UNSUPPORTED_VERSION"}
  /\ Refuse(Recognise(file.data))
  /\ log' = file.data
  /\ file' = Truncated(file, 0)
  /\ UNCHANGED historyVars

(* recover() reads the whole file and recognises it before touching it.     *)
ReadLog ==
  /\ pc = "read"
  /\ LET kind == Recognise(file.data) IN
       \/ /\ kind = "new"
          /\ Opened(EmptyStore, TRUE, FALSE)
       \/ /\ kind \in {"v1", "legacy"}
          /\ pc' = "replay"
          /\ log' = file.data
          /\ legacy' = (kind = "legacy")
          /\ pos' = IF kind = "legacy" THEN 0 ELSE FILE_HEADER
          /\ UNCHANGED <<refusal, lockVars, entries, replayed, needsHeader,
                         committed, failed, txVars>>
       \/ /\ kind \in {"NOT_A_DATABASE", "UNSUPPORTED_VERSION"}
          /\ Refuse(kind)
          /\ log' = file.data
  /\ UNCHANGED <<file, historyVars>>

(* The read returned fewer bytes than the file holds.                      *)
ReadShort ==
  /\ pc = "read"
  /\ \E n \in 0 .. Len(file.data) - 1 : log' = SubSeq(file.data, 1, n)
  /\ Refuse("INCOMPLETE_READ")
  /\ UNCHANGED <<file, historyVars>>

(* Mutant: the offset does not advance.                                    *)
ReplayRecord_Stuck ==
  /\ pc = "replay"
  /\ Verdict(log, pos, legacy) = "replay"
  /\ entries' = ApplyOps(entries, OpsOf(RecordPayload(log, pos, legacy)))
  /\ UNCHANGED <<file, pc, refusal, lockVars, log, pos, replayed, instanceVars, txVars,
                 historyVars>>

ReplayRecord ==
  /\ pc = "replay"
  /\ Verdict(log, pos, legacy) = "replay"
  /\ entries' = ApplyOps(entries, OpsOf(RecordPayload(log, pos, legacy)))
  /\ pos' = RecordEnd(log, pos, legacy)
  /\ replayed' = replayed + 1
  /\ UNCHANGED <<file, pc, refusal, lockVars, log, instanceVars, txVars, historyVars>>

ReplayCorrupt ==
  /\ pc = "replay"
  /\ Verdict(log, pos, legacy) = "corrupt"
  /\ Refuse("CORRUPT_WAL")
  /\ UNCHANGED <<file, log, historyVars>>

(* The loop is over: a tail that is left must be cut off first.             *)
ReplayEnd ==
  /\ pc = "replay"
  /\ Verdict(log, pos, legacy) = "end"
  /\ IF pos < Len(log)
     THEN /\ pc' = "truncate"
          /\ UNCHANGED <<refusal, lockVars, recoveryVars, instanceVars, txVars>>
     ELSE Opened(entries, FALSE, legacy)
  /\ UNCHANGED <<file, historyVars>>

Truncate ==
  /\ pc = "truncate"
  /\ file' = Truncated(file, pos)
  /\ pc' = "sync"
  /\ recs' = IF replayed < Len(recs) THEN SubSeq(recs, 1, replayed) ELSE recs
  /\ acked' = IF acked > replayed THEN replayed ELSE acked
  /\ lost' = lost + (acked - acked')
  /\ UNCHANGED <<refusal, lockVars, recoveryVars, instanceVars, txVars, origin, rot>>

SyncTruncation ==
  /\ pc = "sync"
  /\ file' = Fsynced(file)
  /\ pc' = "notify"
  /\ UNCHANGED <<refusal, lockVars, recoveryVars, instanceVars, txVars, historyVars>>

(* The user's onRecovery callback returns.                                 *)
Notify ==
  /\ pc = "notify"
  /\ Opened(entries, FALSE, legacy)
  /\ UNCHANGED <<file, historyVars>>

(* The read, the truncation, its fsync, or the callback throws.             *)
RecoveryThrows ==
  /\ pc \in {"read", "truncate", "sync", "notify"}
  /\ Refuse(IF pc = "notify" THEN "CALLBACK" ELSE "IO")
  /\ UNCHANGED <<file, log, historyVars>>

-----------------------------------------------------------------------------
(* transact(run).                                                          *)

(* Mutant: the latch is not consulted.                                     *)
Begin_Unlatched ==
  /\ pc = "idle"
  /\ Len(recs) < MaxRecords
  /\ pc' = "body"
  /\ working' = committed
  /\ journal' = << >>
  /\ UNCHANGED <<file, refusal, lockVars, recoveryVars, instanceVars, out, historyVars>>

Begin ==
  /\ pc = "idle"
  /\ ~failed
  /\ Len(recs) < MaxRecords
  /\ pc' = "body"
  /\ working' = committed
  /\ journal' = << >>
  /\ UNCHANGED <<file, refusal, lockVars, recoveryVars, instanceVars, out, historyVars>>

(* Mutant: a delete is not journaled.                                      *)
Mutate_SetsOnly(op) ==
  /\ pc = "body"
  /\ Len(journal) < MaxOps
  /\ working' = ApplyOp(working, op)
  /\ journal' = IF op.val = None THEN journal ELSE Append(journal, op)
  /\ UNCHANGED <<file, pc, refusal, lockVars, recoveryVars, instanceVars, out, historyVars>>

(* tx.set and tx.delete.                                                   *)
Mutate(op) ==
  /\ pc = "body"
  /\ Len(journal) < MaxOps
  /\ working' = ApplyOp(working, op)
  /\ journal' = Append(journal, op)
  /\ UNCHANGED <<file, pc, refusal, lockVars, recoveryVars, instanceVars, out, historyVars>>

(* transact() is done with its snapshot, one way or another.               *)
EndTransaction ==
  /\ pc' = "idle"
  /\ working' = EmptyStore /\ journal' = << >> /\ out' = << >>

(* run() threw, or returned a promise.                                     *)
Abort ==
  /\ pc = "body"
  /\ EndTransaction
  /\ UNCHANGED <<file, refusal, lockVars, recoveryVars, instanceVars, historyVars>>

(* run() returned and there is nothing to log.                             *)
CommitEmpty ==
  /\ pc = "body"
  /\ journal = << >>
  /\ committed' = working
  /\ EndTransaction
  /\ UNCHANGED <<file, refusal, lockVars, recoveryVars, legacy, needsHeader, failed, historyVars>>

(* run() returned: encode the record and start the append.  The first       *)
(* append of a new file carries the file header with it.                   *)
StartAppend ==
  /\ pc = "body"
  /\ journal # << >>
  /\ out' = (IF needsHeader THEN EncodeFileHeader ELSE << >>) \o EncodeRecord(journal, legacy)
  /\ pc' = "write"
  /\ UNCHANGED <<file, refusal, lockVars, recoveryVars, instanceVars, working, journal, historyVars>>

(* Mutant: a write that accepts nothing is retried for ever.               *)
WriteCell_NoProgress ==
  /\ pc = "write"
  /\ UNCHANGED vars

(* The append's write loop, a cell at a time: the process can die between   *)
(* any two.  With the last cell the record is complete.                    *)
WriteCell ==
  /\ pc = "write"
  /\ file' = Appended(file, <<Head(out)>>)
  /\ out' = Tail(out)
  /\ IF Len(out) = 1
     THEN /\ pc' = "fsync"
          /\ needsHeader' = FALSE
          /\ recs' = Append(recs, [ops |-> journal, state |-> working,
                                   end |-> Len(file.data) + 1])
     ELSE UNCHANGED <<pc, needsHeader, recs>>
  /\ UNCHANGED <<refusal, lockVars, recoveryVars, legacy, committed, failed,
                 working, journal, origin, acked, lost, rot>>

(* Mutant: the record is appended but not fsync'd.                         *)
FsyncCommit_Skipped ==
  /\ pc = "fsync"
  /\ pc' = "install"
  /\ UNCHANGED <<file, refusal, lockVars, recoveryVars, instanceVars, txVars, historyVars>>

FsyncCommit ==
  /\ pc = "fsync"
  /\ file' = Fsynced(file)
  /\ pc' = "install"
  /\ UNCHANGED <<refusal, lockVars, recoveryVars, instanceVars, txVars, historyVars>>

(* Mutant: a failed commit does not latch.                                 *)
CommitFails_NoLatch ==
  /\ pc \in {"write", "fsync"}
  /\ EndTransaction
  /\ UNCHANGED <<file, refusal, lockVars, recoveryVars, legacy, needsHeader, failed,
                 committed, historyVars>>

(* The append (after any strict prefix of the record) or the fsync throws:  *)
(* the instance latches and memory keeps the prior state.                  *)
CommitFails ==
  /\ pc \in {"write", "fsync"}
  /\ failed' = TRUE
  /\ EndTransaction
  /\ UNCHANGED <<file, refusal, lockVars, recoveryVars, legacy, needsHeader,
                 committed, historyVars>>

(* The durable commit becomes visible and transact() returns.              *)
Install ==
  /\ pc = "install"
  /\ committed' = working
  /\ acked' = Len(recs)
  /\ EndTransaction
  /\ UNCHANGED <<file, refusal, lockVars, recoveryVars, legacy, needsHeader, failed,
                 origin, recs, lost, rot>>

-----------------------------------------------------------------------------

Close ==
  /\ pc = "idle"
  /\ NoInstance
  /\ lock' = "free"
  /\ UNCHANGED <<file, refusal, log, historyVars>>

(* The process dies; what it wrote stays in the file.                      *)
Kill ==
  /\ pc # "down"
  /\ NoInstance
  /\ lock' = "stale"
  /\ log' = << >>
  /\ UNCHANGED <<file, refusal, historyVars>>

(* Only the records that end at or before offset n are still complete.      *)
RecordsUpTo(n) ==
  \E k \in 0 .. Len(recs) :
    /\ k > 0 => recs[k].end =< n
    /\ k < Len(recs) => recs[k + 1].end > n
    /\ recs' = SubSeq(recs, 1, k)

PowerLoss ==
  /\ \/ \E n \in file.low .. Len(file.data) :
          file' = TornAt(file, n) /\ RecordsUpTo(n)
     \/ \E n \in file.low .. Len(file.synced) :
          file' = RevertedTo(file, n) /\ RecordsUpTo(file.low)
  /\ NoInstance
  /\ refusal' = "none"
  /\ log' = << >>
  /\ lock' = IF lock = "held" THEN "stale" ELSE lock
  /\ UNCHANGED <<origin, acked, lost, rot>>

(* One cell of a database at rest is damaged.                              *)
BitRot ==
  /\ pc = "down"
  /\ origin # "foreign"
  /\ rot < MaxRot
  /\ \E i \in 1 .. file.low :
     \E cell \in {Junk} \cup {U32(n) : n \in 0 .. MaxLength} :
       /\ cell # file.data[i]
       /\ cell = Junk \/ file.data[i].tag = "u32"
       /\ file' = Rotted(file, i, cell)
  /\ rot' = rot + 1
  /\ refusal' = "none"
  /\ log' = << >>
  /\ UNCHANGED <<pc, lockVars, pos, entries, replayed, instanceVars, txVars,
                 origin, recs, acked, lost>>

-----------------------------------------------------------------------------

(* Steps the synchronous code takes by itself once open() is called, and    *)
(* once a transaction's body has returned.                                 *)
Recovering == ReadLog \/ ReplayRecord \/ ReplayCorrupt \/ ReplayEnd
                \/ Truncate \/ SyncTruncation \/ Notify
Committing == WriteCell \/ FsyncCommit \/ Install

Faults == OpenFails \/ ReadShort \/ RecoveryThrows \/ CommitFails \/ Kill \/ PowerLoss \/ BitRot

Next ==
  \/ OpenFile \/ Recovering
  \/ Begin \/ (\E op \in Op : Mutate(op)) \/ Abort \/ CommitEmpty \/ StartAppend
  \/ Committing
  \/ Close
  \/ Faults

Fairness == WF_vars(Recovering) /\ WF_vars(Committing)

Spec == Init /\ [][Next]_vars /\ Fairness

-----------------------------------------------------------------------------
(* Invariants.                                                             *)

TypeOK ==
  /\ file \in [data : Seq(Cell), synced : Seq(Cell), low : Nat]
  /\ lock \in {"free", "held", "stale"}
  /\ handle \in BOOLEAN
  /\ pc \in {"down", "read", "replay", "truncate", "sync", "notify",
             "idle", "body", "write", "fsync", "install"}
  /\ refusal \in {"none", "NOT_A_DATABASE", "UNSUPPORTED_VERSION", "CORRUPT_WAL",
                  "INCOMPLETE_READ", "IO", "CALLBACK"}
  /\ log \in Seq(Cell)
  /\ pos \in Nat
  /\ entries \in Store
  /\ replayed \in Nat
  /\ legacy \in BOOLEAN
  /\ needsHeader \in BOOLEAN
  /\ committed \in Store
  /\ failed \in BOOLEAN
  /\ working \in Store
  /\ journal \in Seq(Op)
  /\ out \in Seq(Cell)
  /\ origin \in {"new", "legacy", "foreign"}
  /\ recs \in Seq(Record)
  /\ acked \in Nat
  /\ lost \in Nat
  /\ rot \in Nat

(* The file is ours, and no cell of it was damaged.                        *)
Undamaged == rot = 0 /\ origin # "foreign"

(* A commit transact() reported is never lost: while nothing was damaged,   *)
(* every acknowledged record is in the part of the file no crash can take,  *)
(* whatever append and fsync failures, kills, power losses, refused opens   *)
(* and reopens came before (core.ts, the failure latch and recovery).       *)
AckedDurable ==
  Undamaged =>
    /\ lost = 0
    /\ acked =< Len(recs)
    /\ acked > 0 => recs[acked].end =< file.low

(* The store a transaction sees is the one the complete records in the file *)
(* rebuild.  It is behind them by exactly one while a commit waits for its   *)
(* fsync or its installation, and by at most one once the instance latched.  *)
StoreIsLogged ==
  /\ pc \in {"idle", "body", "write"} /\ ~failed => committed = StateAt(Len(recs))
  /\ pc \in {"fsync", "install"} => recs # << >> /\ committed = StateAt(Len(recs) - 1)
  /\ failed => \/ committed = StateAt(Len(recs))
               \/ recs # << >> /\ committed = StateAt(Len(recs) - 1)

(* No damage to a v1 file changes this; a v0.1.x length field has no checksum,  *)
(* and a damaged one may pass for a torn tail with records behind it.          *)
CommittedIsLog == Undamaged \/ origin = "new" => StoreIsLogged

(* The redo record says what the transaction did: replaying the journal on   *)
(* the committed store gives the snapshot the body worked on, so recovery    *)
(* rebuilds what install makes visible.                                    *)
JournalRedoesWorking ==
  pc \in {"body", "write", "fsync", "install"} =>
    working = ApplyOps(committed, journal)

(* An undamaged database is refused only where nothing was ever committed:  *)
(* its first append was cut off inside the file header (core.ts, the        *)
(* comment above the length check in recover()).                           *)
RefusalLosesNothing ==
  Undamaged /\ refusal \in {"NOT_A_DATABASE", "UNSUPPORTED_VERSION", "CORRUPT_WAL"} =>
    /\ refusal = "NOT_A_DATABASE"
    /\ acked = 0 /\ recs = << >>
    /\ Len(file.data) < FILE_HEADER

(* In a v1 file a damaged cell costs at most the last commit: damage before  *)
(* it is refused, never taken for a torn tail (replayLog's classification). *)
DamageCostsLastCommit == origin = "new" => lost =< rot

(* An open refused because of what the file holds leaves it as it was read. *)
RefusedUntouched ==
  refusal \in {"NOT_A_DATABASE", "UNSUPPORTED_VERSION", "CORRUPT_WAL"} /\ pc = "down" =>
    file.data = log

(* Neither an open that fails nor a close leaks the lock, which would wedge   *)
(* every later open, nor the handle, but for one case: the fsync of the        *)
(* directory of a file just made (node-fs.ts, open; core.ts, openLog, whose    *)
(* guard begins behind fs.open).                                            *)
NoLeak ==
  pc = "down" =>
    /\ lock # "held"
    /\ handle => refusal = "IO" /\ file.data = << >>

-----------------------------------------------------------------------------
(* Action and liveness properties.                                         *)

(* A file that is not a database is never written, and never opens.         *)
ForeignUntouched == [][origin = "foreign" => file' = file /\ pc' \in {"down", "read"}]_vars

(* A call of open() that is not killed returns or is refused, however many   *)
(* records there are and whatever they hold.                               *)
OpenEnds == pc = "read" ~> pc \in {"idle", "down"}

(* So does the commit of a transaction whose body has returned.             *)
CommitEnds == pc = "write" ~> pc \in {"idle", "down"}

-----------------------------------------------------------------------------
(* What the kernel promises: DurableStore, with the complete records as the  *)
(* chain of logged states.                                                 *)

InstanceIsOpen == pc \in {"idle", "body", "write", "fsync", "install"}

Promise == INSTANCE DurableStore WITH
  States <- Store,
  Empty <- EmptyStore,
  view <- IF InstanceIsOpen THEN <<committed>> ELSE << >>,
  chain <- [i \in DOMAIN recs |-> recs[i].state],
  acked <- acked

(* Until something is damaged, the kernel implements it.                    *)
ImplementsDurableStore == Promise!Init /\ [][rot' = 0 => Promise!Next]_(Promise!vars)
=============================================================================
