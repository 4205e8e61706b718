# LibreDB in TLA+

A verification project for the embedded database in `src/src`: models of its
code, the TLC runs that check them and the TLAPS proofs about them. Paths are
those of this tree: `src/src/core.ts` is the repository's `src/core.ts`.

## The system

LibreDB is a synchronous, single-file, embedded key-value store with three
lenses on top. Everything durable is in `core.ts`.

| part | state it keeps | operations | what makes it correct |
|---|---|---|---|
| kernel (`core.ts`) | the committed store, the `failed`, `closed` and `inTransaction` flags, the log's `legacy` and `needsHeader` | `open`, `transact`, `close` | a commit that was reported survives every crash; memory is what the log says; a file that is not ours is never touched |
| transaction handle (`core.ts`) | a snapshot and a journal | `get`, `set`, `delete`, `getRange` | read-your-writes; the journal redoes the snapshot; nothing reaches the committed store but by a commit |
| node-fs adapter (`adapter/node-fs.ts`) | a file descriptor, the lock file | `size`, `read`, `append`, `fsync`, `truncate`, `close`, `lock`, `forceUnlock` | loops until all bytes are through; at most one writer |
| opfs adapter (`adapter/opfs.ts`) | a sync access handle | the same, without a lock | as above |
| read-only adapter (`cli/readonly-fs.ts`) | a descriptor, a copy of the file | `size` and `read`; the rest does nothing | a reader never changes the file, and is shown a state between two commits |
| lenses (`lens/*.ts`) | a memo of the catalog check in a collection handle | kv, document and table operations, one transaction each; `find`, `where`, `select`, `join` | a table's rows satisfy its schema; names are isolated; a query is what relational algebra says |
| prefix ranges (`query/range.ts`) | none | `prefixRange` | exactly the keys with the prefix |
| command line (`cli/run.ts`) | none; the file export writes | `inspect`, `stats`, `get`, `scan`, `set`, `delete`, `export`, `import`, `--force` | writes only alone and whole; a dump can go back; the exit code tells what happened |
| simulation (`sim/*.ts`) | bytes durable and pending | crash, corrupt, injected faults | the crash model the kernel is tested against |

**How they interact.** Calls only: a lens calls `transact`, the kernel calls the
file system it was given, the file system calls the operating system. There is
one thread per process; nothing in the kernel awaits. User code runs in two
places, the transaction body and `onRecovery`.

**What is hard.** Not threads, but the file: a process can die between any two
system calls and inside an append, any system call can fail, a power loss takes
back what was not fsync'd, the file's name included, and the next `open` has to tell the remains of its
own unfinished work from damage and from somebody else's file. Between
processes the lock file is a protocol of renames, and readers take no lock at all. Within a process the hazards
are handles and iterators that outlive the state they were made for.
`PROJECT.json` lists the hazards by line.

## Modules

| module | models | abstraction |
|---|---|---|
| `WalFormat` | the log's format: encoding, the verdict of the replay loop on a record, recognition of a file, what replaying operations does | cells for bytes |
| `WalFile` | a file and what a crash, a truncation or bit rot does to it | contents now, contents at the last fsync |
| `Kernel` | `open` with recovery, `transact`, `close`, and every fault, over one file | one action per system call or replayed record |
| `DurableStore` | what `Kernel` promises, with no file | a chain of states, of which some were acknowledged |
| `KernelInv` | the inductive invariant of `Kernel` | |
| `Transactions` | the guards of `transact` and `close`, handles and iterators in and after their transaction | arrays by reference; the log is the store it rebuilds |
| `SerialStore` | what `Transactions` promises | one store, one running body |
| `OrderedStore` | the sorted array: binary search, `get`, `set`, `delete`, ranges | one comparison to a step |
| `OrderedMap` | what `OrderedStore` promises | a function from keys to values |
| `ByteKeys` | the byte order, prefix ranges, the keys of documents and of the catalog | small bytes |
| `LockFile` | the lock-file protocol of several processes | one system call to a step |
| `SharedFile` | `Kernel`'s file beside others: its name in the directory, and a reader without the lock | a cell to a read; the reader's recovery is one function |
| `Lenses` | document and table handles, the catalog | atomic transactions; values by what type checks and JSON make of them |
| `CommandLine` | the commands as processes, beside an application with the lenses and kv | a transaction to a step |
| `Queries` | `find`, `where`, `select`, `join`, a pass at a time, and relational algebra | small tables; names by their dotted parts |
| `MC*` | the instances TLC checks, and the claims of the documents | |
| `*Proofs` | theorems and proofs | |

**How they compose.** `Kernel` and `Transactions` share `WalFormat`'s
operations. `Kernel` has the file and its faults in detail and a transaction's
body in little; `Transactions` has bodies, handles and iterators in detail and
takes the append to be atomic, with the two outcomes of a failed one, as
`Kernel` shows. `OrderedStore` is what a `Transactions` array is made of: each
keeps the other's part abstract, `OrderedMap` is what they agree on. `Lenses`
sits on transactions as `SerialStore` describes them, with `ByteKeys` for why
names and ids do not collide. `LockFile` is why one process at a time
is in `Kernel`.

Two modules extend another with the processes around it. `SharedFile` takes every
action of `Kernel` as the writer's and adds a reader and a directory.
`CommandLine` takes every operation of `Lenses` as the application's
and adds commands, which need the lock (`LockFile`) for their writes. `Queries`
stands on what both lenses store and has writes between any two of its steps.

### Kernel: state and actions

`file` is the file (`data`: what a read returns; `synced`: what the last fsync
made durable; `low`: how much of both is the same and safe). `lock` is the
writer lock of the one path, `handle` whether the descriptor is open. `log`,
`pos`, `entries`, `replayed` are the locals of `recover` and `replayLog`;
`legacy`, `needsHeader`, `committed`, `failed` the closure of an open instance;
`working`, `journal` a transaction's; `out` is what an append has not written
yet. `origin`, `recs`, `acked`, `lost`, `rot` are history: no guard of the
code's own actions reads them, except where a bound is named.

| action | code |
|---|---|
| `OpenFile`, `OpenFails` | `open`: the lock, `fs.open` (core.ts:843-862); `fs.open` throws, with or without a file and a descriptor left behind (node-fs.ts:217-237) |
| `ReadLog`, `ReadShort` | `recover` (675-723) |
| `ReplayRecord`, `ReplayCorrupt`, `ReplayEnd` | one turn of the loop of `replayLog` (636-657), its throws, its end |
| `Truncate`, `SyncTruncation`, `Notify`, `RecoveryThrows` | `finishReplay` (756-764), `onRecovery` (789), what the two throw |
| `Begin`, `Mutate`, `Abort`, `CommitEmpty` | `transact` and its body (891-934, 373-385) |
| `StartAppend`, `WriteCell`, `FsyncCommit`, `CommitFails`, `Install` | `log.append` (805-820), the adapter's write loop (node-fs.ts:256-260), the latch (917-932), the swap (933) |
| `Close` | `close` (941-957) |
| `Kill`, `PowerLoss`, `BitRot` | the process dies; simfs.ts:112-125; simfs.ts:127-140 |

**Cells.** A file is a sequence of cells: the magic, the version half of the
header, a u32, a checksum, an operation, or junk. Recovery compares lengths with
four things only, the file header, a record header, a record's promised end and
the end of the file, so cutting a file between cells reaches every verdict that
cutting it between bytes does. CRC-32 is taken to be collision-free, except that
the checksum of nothing is 0, as in the code: recognition of v0.1.x files
depends on it. A damaged length field reads as any number up to `MaxLength`, or
as one beyond the file (`ReadU32` of junk).

**The disk.** `sim/simfs.ts` makes a truncation durable at once. A real disk does
not, and `finishReplay` fsyncs after truncating for that reason, so here a power
loss may bring back what a truncation removed until the next fsync. A kill
without a power loss keeps everything written. A failing fsync leaves the data
in the file, not durable.

**Opens that fail.** The making of the file is one step here; with the fsync of its
directory as a step of its own it is in `SharedFile`. If that fsync throws, the file was
just made and is empty, and its descriptor stays open: core.ts's own guard begins
behind `fs.open`. `NoLeak` allows this one case and no other.

**Instances in sequence.** One process at a time is open on the file; a second
opener finds the lock held and changes nothing. A killed holder leaves the lock
stale and the next open reclaims it.

### Transactions

`heap` holds the contents of every array ever made, by reference: `committed` is
the closure's variable of that name, `bodies` the running bodies with the arrays
and journals their handles close over (more than one only if the guard against
nesting fails), `handles` the arrays whose handles somebody may still hold,
`scan` an iterator of `getRange` between two calls of `next`.

| action | code |
|---|---|
| `Refused`, `Enter` | the three guards and the snapshot (core.ts:891-903) |
| `Get`, `Write` | the handle in its transaction (369-385) |
| `Abort` | the body throws or returns a promise (903-912) |
| `Commit`, `CommitFails` | 914-939, one step each |
| `LateWrite` | a handle whose transaction ended |
| `StartScan`, `ScanNext` | the generator of `getRange` (386-408), of a running or an ended transaction |
| `CloseRefused`, `Close`, `Open` | 941-957, a throwing close included; a new instance |

### OrderedStore

`entries` is the array, `low` and `high` the variables of `locate`, `index` what
it returned and then the position of the range loop, `call` the call that runs.
`Search` is one turn of the binary search (core.ts:311-318), `Walk` one of the
range loop (401-405); `Get`, `Set` and `Delete` are the rest of those calls.

### LockFile

`lock` is the file now named `<path>.lock`, `content` how each file parses,
`claim` what a process has renamed aside, `pc` where it is between two system
calls. `Create` and `Write` are the exclusive create and the write of the owner
(node-fs.ts:113-133, two steps: the file is empty in between), `Check` is
`isStaleLock`, `Claim`/`Judge`/`Remove`/`PutBack` are `claimAndRemoveLock` with the
three verdicts it is called with (`StillStale`, `StillOurs`, `MayForce`),
`Release` the function `lock` returns, `ForceUnlock` the command line's
`--force`. `WriteFails` and `Crash` are the faults. A call takes a nonce that no lock file
still there has (`FreshNonces`), and its variables are gone when it ends (`Ends`), so a process
calls `lock` any number of times in finitely many states. `stray` remembers that a process
renamed aside a lock it was not entitled to: neither its own nor a dead holder's.
That happens when the lock it checked is gone and another is at the path by the
time it renames, or by `--force`; it is the code's one gap, and the invariants say what
holds short of it. Reading the owner and probing its pid are one step; a pid is not
used twice; a failing rename or read is left out.

### SharedFile

`entry` is the file's name in its directory, `reading` a reader: the size it was
told and what it has copied so far. `unsynced` and the rest of `reading` are history.

| action | code |
|---|---|
| `OpenOrCreate`, `SyncDirectory`, `SyncDirectoryFails` | the adapter's `open` and `fsyncDirectoryOf` (node-fs.ts:217-237): done, unsupported and tolerated, or throwing |
| `Work`, `KillWriter` | every other action of `Kernel` |
| `Survives`, `Vanishes` | a power loss that spares or takes a name which is not durable |
| `ReadStart`, `ReadCell`, `ReadDone` | `readonly-fs.ts`: the size first, then the contents, while the writer goes on |

`Seen` is `core.ts`'s recovery over the reader's copy: an error or a store.
`ReplayFrom` is `replayLog` as a function of the offset, not a step at a time.

### Lenses

`catalog` and `docs` are the two parts of the keyspace in memory, `disk` both as
the next open finds them, `checked` the memo in a `doc()` handle, `tables` the
handles `table()` returned, with the schemas they were given. Every action is
one operation of a handle, which is one transaction; its refusals are actions of
their own (`DocRefused`, `TableRefused`, `InsertRefused`, `TableDeleteRefused`).
Documents are functions from columns to values, and `EncodeDoc` does to them
what `JSON.stringify` and `JSON.parse` do: `undefined` goes, `NaN` becomes
`null`, and each of `Instances` (dates, boxed primitives, whatever has a `toJSON`) what
`ToJSON` says, which may be any JSON value or nothing. A document that holds a cycle or a
bigint is not `Encodable`: `Put` throws in the middle of its transaction, behind the registration.
`DocRead` is `get` and each pass over `all` or `find`. A document written by something
other than a lens is `Raw`: nothing is known of it, and reading it may throw.

### CommandLine

`running` is whether the application holds the database, `plain` and `plainDisk`
the entries outside collections and tables in memory and on disk, `dump` the
file `export` writes, `exit` the exit code of the command that just ran.
`UseLenses` is any operation of `Lenses`; `KvWrite` the kv lens's `set` and
`delete`, or a kernel `set` of a key that is no text; `KvWriteBeneath` a `set` or `delete` of the
key of a document or row (`Beneath`); `Start` and `Quit` are the
application's open and its close or death. A command is one step, since nobody
else writes while it holds the lock: `SetOrDelete`, `SetOrDeleteBeneath` a document's key, `SetOrDeleteReserved`,
`Get` (and `scan`), `Inspect` (and `stats`), `Export`, `Import` of a dump,
`ImportFile` of anything else. `WriteDb` is
`withWriteDb`: refused while the application runs, else one commit that succeeds,
throws, or is cut off by a kill, and in the last two cases may be on disk or not.
The next open loads what a command left.

### Queries

`rows` are the tables, `predicate` what the caller's predicate objects hold at the
moment, `query` the query built, `pass` the pass over it. `Ask` builds, `Begin`
is `toArray` or the start of a loop, which makes all rows at once
(they are collected inside the transaction, document.ts:243-258), `Take` hands
one out, `Leave` ends it. `Write` and `Alter` happen anywhere between.
`Answer` computes rows as the code does: a chain of filters over a scan, a nested
loop for `join`, `deepEqual` on values (`equal`), the right side written last in `qualify`.
`Meant` says what is asked for in other terms: a result is a choice of a
row from each table and a set of named values, and two values are the same when they
have the same leaves on the same paths (`leaves`). Values are finite and have no cycles: every set of
them has one with no item in the set. `Inherited` is what every JavaScript object has
besides its own columns. A result of a join has every column of both sides (`Both`), two of one name
too. `due` and `clear` in a pass are history: what was asked for when it began, and
whether the query was `Clear`: it names nothing that is inherited, and joins no two tables of which one
name begins the other (`Apart`).

## Runs

| run | instance | checks |
|---|---|---|
| `faults` | `Kernel`, new, v0.1.x and seven kinds of foreign file, 1 key, 1 value, 2 records of 1 operation, 2 damaged cells | `TypeOK`, `AckedDurable`, `CommittedIsLog`, `RefusalLosesNothing`, `RefusedUntouched`, `NoLeak`, `JournalRedoesWorking`, `DamageCostsLastCommit`, `ForeignUntouched`, `OpenEnds`, `CommitEnds`, and that `Kernel` implements `DurableStore` |
| `reader` | `SharedFile`, new and v0.1.x file, 2 records of 1 operation, the directory's fsync done, unsupported or failing | `ReaderSeesCommits`, `ReaderRefusedForCause`, `NamedAndDurable` |
| `locks` | `LockFile`, 2 processes on one host, any number of calls, two lock files of the one and one of the other at a time, every leftover, with and without force, deaths anywhere | `TypeOK`, `DeletesNoLiveLock`, `StaleLockYields`, `ExclusionUnlessStray`, `NoOrphan`, `CallsEnd` |
| `transactions` | 2 keys, 1 value, 3 arrays, 2 operations, 2 late writes; with a file and in memory | `TypeOK`, `MemoryIsDisk`, `ScansSeeTheirStart`, `ReleasedOnce`, and that `Transactions` implements `SerialStore` |
| `store` | 7 keys over the bytes 0 to 2, 2 values, up to 4 entries | `TypeOK`, `StaysSorted`, `SearchInv`, `CallsReturn`, and that `OrderedStore` implements `OrderedMap` |
| `lenses` | `CommandLine`, 1 name, 2 document handles, 3 schemas, 3 ids, 8 documents, 1 plain and 1 opaque key, 4 other files for import | `TypeOK`, `RowsFitSchema`, `MemoIsTrue`, `RegisteredWithDocument`, `OnlyItsOwn`, `KindIsForever`, `NobodyBeneath`, `DumpFits` |
| `queries` | 2 tables and a collection, 2 keys, 7 queries of up to 3 steps, 2 predicate objects that change | `PassIsTheRelation` |
| `claim_visible`, `claim_handle`, `claim_race`, `claim_entry`, `claim_join` | the smallest instances | one claim of the documents each; a violation is expected |

**Kernel.** `MaxRecords`, `MaxOps`, `MaxRot` are guards of `Begin`, `Mutate`,
`BitRot`. Two records are one that is durable and one behind it that is torn, or
complete but not durable; the first of them brings the file header. There is no bound on
the number of crashes, failed commits, refusals and reopens: those cycle. With one key the second
record overwrites or deletes what the first wrote. A commit of this run has one operation; records of two
are read from the v0.1.x files, journals of two are written in `transactions`, and for any number of
operations the properties are proved. The foreign
files are the ones the code treats differently, each named in `MCKernel`.
Two damaged cells reach a length and its checksum. A damaged
length of 0, 1 or 2 falls short of, at and beyond the next record's start, and
junk beyond the file. For the properties proved below the bounds do not matter.

**SharedFile.** Two records let a reader take its size before a commit, be overtaken
by it, and meet the truncation of a record that failed. One reader at a time is
enough: readers change nothing. `ReaderSeesCommits` and `ReaderRefusedForCause` are about files
not cut beneath the reader (`cut`); what a cut does is below.

**Transactions.** Three arrays are two transactions and an open, or three
transactions: a handle of the one before last is written to while the last one
runs. At most one iterator is followed at a time, in any array. In this run no
late write goes to the handle of the last committed transaction
(`LateInCommitted`): that is the finding of `claim_handle`, and the theorems
state it as their assumption.

**OrderedStore.** Every array of up to four entries is reached, so the search
runs with 0 to 4 entries, for keys before, between, at and after them; the keys
include prefixes of one another and one of highest bytes only, whose range
has no end.

**LockFile.** Two processes and the file of a dead one are a holder, or a reclaimer that
dies half way, and one that comes in between. `MaxCalls` bounds the lock files of one process that
are there at a time, not its calls: with two, a process may have lost one to a stray claim and made
another; the other process has one (`Once`), for the size of the instance. A process whose
nonces are all in use waits until one is gone. `--force` is given or not at each
call. As calls cycle, `CallsEnd` is about a caller that another process obstructs over and over.
What needs three living processes is `claim_race`; what holds of any number is
proved. Deadlock is not checked, as processes die.

**Lenses and CommandLine.** Keys of different names are distinct (`KeysAreDistinct` in
`OrderedStoreProofs`), so one name is enough; two handles have memos that differ.
The schemas are one with a number column, one with an object column and one
whose key is no string; the documents are rows of these, one of each
value that is not what it seems (`NaN`, `undefined`, a cycle, a date, an invalid date, an object whose
`toJSON` returns nothing), and one with an id that is not well formed. The files for import are
sound (with a key beneath the name, too), ill-formed in a value or a key, and no object of strings; a dump is any that `export` wrote,
at any time, or the torn one of a killed export. The `VIEW` leaves out `answer` and
`exit`: no guard reads them, and the only properties about them are action properties
on their new values, which TLC evaluates on every step it computes.

**Queries.** The seven queries are: `find` on a collection; `where` and `select`;
`join`, `where` on a qualified column and `select`; two joins in a chain; a join on a
column that no row has; a table joined with itself; a join on a name every object
inherits. Of the last two `PassIsTheRelation` says nothing; the first of them is `claim_join`. Values include objects with their keys in two orders and nested arrays; the predicates
include one with `undefined`, which is refused, and one on `toString`. Two rows
to a table let a join have none, one or several partners; the collection has one.

**Deadlock** is checked in every run but those of `LockFile`: a database can
always be opened or closed, a query always be asked. Symmetry is used in `lenses` only: its two
document handles are alike, and it states no liveness.

**Fairness.** `Recovering` and `Committing` of `Kernel` are weakly fair: they are
the statements a synchronous call executes by itself once it has been entered.
Opening, beginning a transaction, ending its body and closing are the user's
choice, and no fault is fair. `WF(Committing)` includes that a write which does
not throw makes progress: the adapter's loop has no other exit, so a `writeSync`
that kept returning 0 would hang a commit. `OpenEnds` and `CommitEnds` are then
about the loops: the replay advances whatever the file holds, recovery cannot go
round, an append ends. `OrderedStore` is fair to the steps of a call that was made,
`LockFile` to those of each process that is inside `lock` or a release, one by
one: `CallsEnd`, from anywhere in a call of `lock`, a forced retry or a release to its end, holds
against any interference because an attempt is made twice
and no more. The other modules state no liveness: the calls of `Transactions`, `Lenses`,
`CommandLine` are single steps, a pass of `Queries` may be left at any time,
and `SharedFile`'s writer is `Kernel`.

### What the documents say and the code does not do

Five runs expect a violation; each trace is a few steps long.

- `claim_visible`: core.ts:416-418 has every commit fsync'd *before* it becomes
  visible. A commit whose fsync fails leaves its whole record in the file; after
  close and open, `finishReplay` replays it, fsyncs nothing as there is no tail to
  cut, and the commit is visible while a power loss can still take it. Later
  commits are not at risk: their own fsync covers it (`AckedDurable`).
- `claim_handle`: core.ts:103-104 has every write inside a transaction, and
  core.ts:364-365 no caller able to make memory and disk differ. `committed =
  working` keeps the array the transaction's handle writes to, and a handle kept
  after its commit changes the committed store without a journal.
- `claim_race`: a lock judged on its path and renamed aside may be another, live
  process's; it is put back, but in between the path is free and a third process
  takes it: two writers.
- `claim_entry`: ARCHITECTURE.md:745-747 has the adapter fsync the directory when it creates
  the file, so that a power loss can no longer lose its entry. If the process
  dies before it (the trace), or it throws, the file is there, no later `open` counts it as created
  (node-fs.ts:235-237), and commits are acknowledged in a file whose name is volatile.
  `NamedAndDurable` is what holds otherwise.
- `claim_join`: relational.ts:131-133 has each row of a join carry every column of both sides, which
  never collide. A table joined with itself has one name for both sides: `qualify` writes the right
  side last, and its columns replace the left side's. (Names with dots in them can do the same.)

Seen in the models but not a run of their own:

- RELIABILITY.md:109-110 has memory *and disk* stay on the prior state when an
  append or fsync throws, while the record may be complete on disk (`CommitFails`).
- RELIABILITY.md:18-19 has reopening repair the tail, while a first append torn inside
  the eight-byte file header is refused at every later open (core.ts:690-692 says so).
- `validateRow` (relational.ts:87-88) promises no silent coercion or dropping, while any object passes
  for an object column: a `Date` is stored as a string, an invalid one as `null`, and of an object whose
  `toJSON` returns nothing the column is dropped. `RowsFitSchema` states what such a column
  may be read back as (`ReadAs`, `RowFits`).
- core.ts:791-796 closes the file when an open fails, so that no descriptor leaks; an fsync of the
  directory that throws does so inside the adapter's `open` (node-fs.ts:235-237), before there is a
  handle to close. `NoLeak` states the exception.
- A `lock` whose write of the owner fails throws and leaves what it created (node-fs.ts:123-132):
  a lock of a live process that has none. `NoOrphan` states the exception.
- A holder that releases while another process has its lock renamed aside finds nothing to
  release; the lock is put back afterwards and outlives the instance (core.ts:952-953).
  `NoOrphan` holds only short of that (`~stray`).
- `select` and `join` take a name every object inherits, such as `toString`, for a column the row
  has (relational.ts:138-139, 177), and `where` and `find` compare what is inherited
  (document.ts:109-111): `__proto__: {}` matches rows without such a column.
  `PassIsTheRelation` is about passes in which no such name decides (`Clear`).
- docs/CLI.md:39 has `export` dump every key, and run.ts refuses a key that is no text; but
  it scans below 0xF5 (run.ts:187) and silently leaves out the keys from there on.
- A dump leaves out the catalog: put into a fresh file, its rows are beneath no
  entry, and `table()` accepts any schema for them. `DumpFits` is about the same database.
- A reader whose file is cut beneath it may be shown a record that never was: the header of one that
  failed with the payload of its successor. `reader` excludes it by `~reading.cut`.
- A predicate object altered after the call that checked it is matched as it is then:
  `Alter`, and `Satisfies` for what a column that is `undefined` then means.

## Proofs

`WalFormatProofs` has the lemmas about the format. The two that carry the rest:
`CompleteRecordReplays` (an encoded record that is wholly in the file gets the
verdict `replay`, ends where it should and yields its operations, under both
framings) and `TornRecordEnds` (a proper prefix of a record at the end of the
file gets `end`, never `corrupt`). `ApplyOpsAppend` and `ApplyOpsConcat` say what one more
operation, and a second journal, do to a replay; `LeastMember` and `GreatestMember` are
the form of induction the other modules use.

`KernelProofs` proves `TypeCorrect` (`Spec => []TypeOK`) and `JournalIsRedo`
(`Spec => []JournalRedoesWorking`), and, for any file, damaged or foreign
included, `RefusedFilesAreUntouched` (`RefusedUntouched`, with the lemma that
nothing is refused while there is an instance) and `NothingLeaks` (`NoLeak`, with the one
descriptor it allows).

It also proves, for all keys, values, files, journals and bounds:

- `AckedCommitsAreDurable`: `Spec => []AckedDurable`;
- `MemoryIsLog`: `Spec => [](Undamaged \/ origin = "new" => CommittedIsLog)`, damaged v1 files included;
- `RefusalsLoseNothing`: `Spec => []RefusalLosesNothing`;
- `DamageCostsCommits`: `Spec => []DamageCostsLastCommit`, for any number of damaged cells;
- `ForeignFilesAreUntouched`: `Spec => ForeignUntouched`, whatever is done with the file;
- `KernelIsDurable`: `Spec /\ [](rot = 0) => ImplementsDurableStore`, for foreign files too. A record enters the
  chain with its last cell (`PromiseCommits`), is acknowledged by the install, and a power
  loss cuts the chain behind what was acknowledged (`PromiseEnds`, from `DurableInv`);
  an open that returns shows the chain's last state (`PromiseOpens`, from
  `CommittedIsLog`), and nothing else is seen.

**The argument.** None of the first four is inductive: which records are durable says
nothing unless one knows that the bytes behind them are a torn record and not
more. `Sound` (`KernelInv`) says what our files look like, but for a damaged v0.1.x
one (`Known`): file header,
complete records back to back (`RecordsInv`), and less than one record, or one with a broken
payload, behind them (`TailInv`), now and in what the last fsync left; `DurableInv` relates the
two; `RecoveryInv` and `InstanceInv` say what the process knows at each point of
recovery and commit. The invariant takes the set of journals a torn record may
come from: all sequences of operations.
The proof has a lemma for every way the file changes (`LogWrite`, `LogFsynced`,
`LogTruncated`, `LogPowerLoss`), and per action a step that applies it.

Damage is part of it: a record is in the file up to cells that became junk or lengths that
became other lengths (`Kept`). Recovery does not know which, yet a v1 length that matches its
checksum is the one written (`SoundHeaderIsWritten`), and a record it replays is undamaged
(`ReplayedIsWritten`); so it ends before a complete record only if that is broken and the last
one (`EndedIsBroken`), and everything it showed was committed. `CostInv` counts: once as many commits were lost as
cells damaged, every record left is intact (`AllIntact`), and no other can go. v0.1.x framing has no
such checksum, and neither the invariant nor the property speaks of its damaged files.

`TransactionsProofs` proves that memory never parts from disk
(`MemoryNeverParts`), that `Transactions` implements `SerialStore`
(`TransactionsAreSerial`), `TransactionsTypeCorrect`, `ResourcesAreReleased` and
`ScansAreOfTheirStart`, for any keys,
values, number of arrays and writes. All but the last two assume `~LateInCommitted`. The invariant says what a
running body and the arrays have to do with each other: at most one body runs,
exactly while `inTransaction`; its array is nobody else's and is the committed
array with its journal applied (`BodyInv`). Commit is then: the replay of the
journal over what the log rebuilds is the array that becomes committed. For an iterator
(`ScanInv`): what it walks is the copy it made, and what it has yielded is the copy's beginning.

`OrderedStoreProofs` proves, besides types (`StoreTypeCorrect`), that the array stays strictly
sorted (`ArrayStaysSorted`) and that the search is right (`LocateIsRight`): every entry
below `low` is before the key, every one from `high` on is not, so that the
index it returns is the key's or its place. The two need each other: a set puts an entry
where the search ended. `StoreIsOrderedMap` is the refinement: a search that ends tells
whether the map has the key, a set or delete at its index changes that key only, and
`WalkInv` says of the range loop that it has collected the entries from the first one that is not
before its start up to `index`, all of them before its end; as the array is sorted, those at
the loop's end are all the map has in the range, in order.
All of it rests on the byte order: it is a strict
total order, `prefixRange` is exact (`PrefixRangeIsExact`), a collection's range
holds its own documents only, whatever the names without a colon
(`CollectionScansItsOwn`), different documents have different keys
(`KeysAreDistinct`), and the catalog lies outside all of them and wholly in its own range
(`CatalogIsApart`).

`LockFileProofs` proves, for any number
of processes and calls, with force or without, whoever dies where, `LockTypeCorrect`
and `DeletionsAreSafe` (a file that
is deleted for being stale is a dead process's; only the verdict on the claimed
file makes it so, the judgement on the path does not count). And two theorems say what is
left of mutual exclusion: `ExclusionIsLostOnlyByStrays` and `NoOrphanUnlessStray`. Short of a stray
claim, a lock is at the path from its exclusive create to the claim of its release and not after
that, and nothing that was renamed aside is put back (`Orderly`); the path has one file, there is one holder. `DeadLocksYield` (`StaleLockYields`) follows the one call nobody interferes with
(`CalmInv`): what is at the path is nothing or a dead process's lock until it has claimed it,
and nothing from then on, so neither of its two attempts is turned away.

`SharedFileProofs` proves for any number of transactions, faults and readers one after the
other: `NamesAreDurable` (`NamedAndDurable`), and, while the file is not cut beneath the reader,
`ReadersSeeCommits` (`ReaderSeesCommits`) and
`ReadersAreRefusedForCause` (`ReaderRefusedForCause`); and `SharedFilesLeakNoLock`, `NoLeak`
with the fsync of the directory as a step of its own. The writer's steps are `Kernel`'s, so
`Sound` holds here too (`LogStep`), and so do two more parts: until the name is durable
nothing was committed or an fsync of the directory is owed (`EntryInv`), and while the file is not cut
the copy is its beginning and holds every record acknowledged at the start (`ReaderInv`). Then
the reader's recovery over a prefix of the log replays the records that lie in it and ends behind the
last of them (`CopyReplays`). `ReplayFrom` is a recursive function whose domain is offsets: that it
exists, and therefore unfolds, is proved from the least offset at which it would not
(`ReplayIsChosen`, `ReplayUnfolds`).

`LensesProofs` proves the properties of the run `lenses` for any names,
schemas, rows and handles, alone (`Spec`) and beside commands (`CliSpec`). `RowsFitSchema` is not
inductive: the same must hold on
disk, which must have every entry memory has; a table handle's schema must be the
cataloged one; and a name without an entry has no documents, so that declaring
a table finds none to violate it. Beside commands (`CliInv`) memory is what is on disk until a
commit fails (`NobodyIsBeneath`), as only a command that finds no application
writes; and entries are never lost on disk, so that documents fit for the
catalog at the time of an export fit for the one at an import (`DumpsAlwaysFit`). What kv and the commands
write beneath a collection is `Raw`, and exempt. `NamesComeWithDocuments` (`RegisteredWithDocument`): a name is
registered on disk only together with a document, whatever cannot be encoded, fails or is cut short.

`QueriesProofs` proves `PassesAreTheRelation` (`Spec => []PassIsTheRelation`) for any tables, rows,
predicates, values and chains of steps, as far as a query is `Clear`. That the code's recursions exist, and therefore unfold, is proved:
over the steps of a list from the least number at which it would not (`PrefixRecursion`), over
values from their having no cycles (`ValueRecursion`). The argument then has three parts.
- Values: `deepEqual` holds just where the leaves are the same (`SameIsEqual`). For objects it
  only asks for `a`'s keys in `b`, with as many keys in both; that `b` has no other key then is
  a matter of counting (`AllTaken`).
- Rows: what `matches`, `project` and `qualify` do is what the algebra does to sets of named values
  (`FitsIsSatisfies`, `ProjectIs`, `QualifyIs`), where no inherited name decides and the names of joined
  tables are apart (`ApartNames`).
- Order: a list has a relation's rows in order if results can be put beside its places, all different,
  each before the next (`Ranks`); a filter, a projection and the nested loop keep that (`WhereRanked`,
  `SelectRanked`, `JoinRanked`, then `AnswerRanked`), and `RankedCounts` turns it into lengths and ranks.

The invariant (`QueriesInvHolds`) is about the state: the rows and predicates are such, the query is
one that was asked, and what a pass has handed out followed by what it has left is what it began with
(`PassKept`).

**Assumptions.** The named ones of each module (`None` is no value; the kinds of
file; foreign files are not empty and begin neither with a v1 header nor
with a v0.1.x record of operations (`NotOursAssumption`); a v0.1.x file holds at
least one operation; bounds are natural numbers; strings are not the names of other
values; in `Queries`, values are finite and without cycles, a stored row has no `undefined`, and a query is a chain
of the three steps over named tables); the cell granularity; no
checksum collisions. `RefusalLosesNothing` and `AckedDurable` are about undamaged databases
by their statement, `CommittedIsLog` as proved about those and damaged v1 ones.

**Only model-checked.** The liveness properties `OpenEnds`, `CommitEnds`, `CallsEnd` and `CallsReturn`:
temporal proofs under fairness are beyond the provers used. Every other property of a passing run is proved.

## Not modelled

- Byte layout of operations and lengths near 2^32: a journal is limited by memory.
- The locks and handles of the opfs adapter: its lock is the browser's exclusive access
  handle; its append loop is node-fs's, which `Kernel` models.
- Writes of the kv lens or a raw transaction to a key of the catalog
  (document.ts:208 relies on nobody doing so; DESIGN.md section 6.3 allows it): no lens promises
  anything then. The commands refuse such keys.
- A row or document that is itself an instance of a class with a `toJSON`: here only its values may be.
- How a value nested in an object column, or in a document, fares: a column is text, a number, ... or an object.
- What a read of a lens returns, beyond that it may be refused: no property is about it but in `Queries`.
- A schema object that its owner alters after `table()`.
- In `LockFile`, failing renames and reads, and a pid that is used again.
- The browser entry and the package's entries (re-exports), the store seam (an
  interface), argument parsing, printing, the seeded workload and its PRNG.

## Plan

What is left, in order:

1. `LockFile`: a pid that is used again; renames that fail.
2. `SharedFile`: what a reader may be shown when the file is cut beneath it, as a property.
