----------------------------- MODULE CommandLine -----------------------------
(***************************************************************************)
(* The command line (src/cli/run.ts) beside an application that works on the  *)
(* same database through the lenses (Lenses) and the kv lens                 *)
(* (src/lens/kv.ts).                                                       *)
(*                                                                         *)
(* A command is a process that opens, works and closes: its writes need the   *)
(* lock and wait for nobody, its reads take no lock and see what is on disk.   *)
(* The file of another run, and --force, are LockFile's; a reader beside a     *)
(* commit is SharedFile's.                                                 *)
(*                                                                         *)
(* The kv lens, set, delete and import may write any key but the catalog's,    *)
(* those of a collection or a table included: what they write there is Raw, and *)
(* the lenses promise nothing of it.                                        *)
(***************************************************************************)
EXTENDS Lenses

CONSTANTS
  Plain,    \* text keys that are in no collection and no table
  Opaque,   \* keys that are no text, such as the kernel takes, in the range of
            \* export: it ends before 0xF5 and sees none above
  Texts,    \* values of such entries
  Files,    \* what a file given to import, other than a dump, may hold: entries of
            \* Plain and names and ids of documents, or Malformed
  Malformed \* no object of strings, or one with a reserved key

ASSUME KeysAssumption == Plain \cap Opaque = {}
ASSUME TextsAssumption == Texts \subseteq Ids /\ None \notin Ids

(* The exit code a shell reports of a process that was killed.               *)
Killed == 137

VARIABLES
  running,    \* does the application hold the database open?
  plain,      \* the entries of Plain and Opaque, None where there is none
  plainDisk,  \* ... as the next open finds them
  dump,       \* the file export writes, if there is one: see Dump
  exit        \* the exit code of the last command, None after any other step

cliVars == <<running, plain, plainDisk, dump, exit>>
allVars == <<vars, cliVars>>

CliInit ==
  /\ Init
  /\ running = FALSE
  /\ plain = [k \in Plain \cup Opaque |-> None]
  /\ plainDisk = plain
  /\ dump = None
  /\ exit = None

-----------------------------------------------------------------------------
(* The application.                                                        *)

Start ==
  /\ ~running
  /\ running' = TRUE
  /\ exit' = None
  /\ UNCHANGED <<vars, plain, plainDisk, dump>>

(* It closes the database, or dies.                                        *)
Quit ==
  /\ running
  /\ Reopen
  /\ running' = FALSE
  /\ plain' = plainDisk
  /\ exit' = None
  /\ UNCHANGED <<plainDisk, dump>>

UseLenses ==
  /\ running
  /\ Operate
  /\ exit' = None
  /\ UNCHANGED <<running, plain, plainDisk, dump>>

(* The documents, with one of them written, or deleted, by its key.          *)
Beneath(ds, n, id, text) == [ds EXCEPT ![n][KeyOf(id)] = IF text = None THEN None ELSE Raw]

(* kv's set and delete of a document's key.                                 *)
KvWriteBeneath(n, id, text) ==
  /\ running
  /\ ~latched
  /\ IF WellFormed(id) /\ (text \in Ids => WellFormed(text))
     THEN Commits(catalog, Beneath(docs, n, id, text), n, id)
     ELSE Return(n, id, TRUE)
  /\ exit' = None
  /\ UNCHANGED <<checked, tables, running, plain, plainDisk, dump>>

(* kv's set and delete, or a set of the kernel's: a transaction of its own.   *)
(* A text that is not well formed is refused before anything is written.      *)
KvWrite(k, text) ==
  /\ running
  /\ ~latched
  /\ LET after == [plain EXCEPT ![k] = text] IN
       \/ text \in Ids /\ ~WellFormed(text) /\ UNCHANGED <<plain, plainDisk, latched>>
       \/ /\ text \in Ids => WellFormed(text)
          /\ \/ plain' = after /\ plainDisk' = after /\ UNCHANGED latched
             \/ UNCHANGED plain /\ plainDisk' \in {plainDisk, after} /\ latched' = TRUE
  /\ answer' = None /\ exit' = None
  /\ UNCHANGED <<store, disk, checked, tables, running, dump>>

-----------------------------------------------------------------------------
(* Commands.                                                               *)

(* The next open loads what a command left.                                *)
Loaded ==
  /\ catalog' = disk'[1] /\ docs' = disk'[2] /\ plain' = plainDisk'
  /\ answer' = None

(* A command that changes nothing in the database.                          *)
Says(code) ==
  /\ exit' = code
  /\ answer' = None
  /\ UNCHANGED <<store, disk, latched, checked, tables, running, plain, plainDisk>>

(* ... and, as most, no dump either.                                        *)
Ends(code) == Says(code) /\ UNCHANGED dump

(* Mutant: a command does not need the lock.                                *)
WriteDb_Unlocked(newDocs, newPlain) ==
  /\ disk' = <<disk[1], newDocs>> /\ plainDisk' = newPlain
  /\ exit' = 0
  /\ IF running THEN answer' = None /\ UNCHANGED <<store, plain>> ELSE Loaded
  /\ UNCHANGED <<latched, checked, tables, running, dump>>

(* withWriteDb(): one transaction.  A commit that throws, or that the command  *)
(* dies in, may be on disk.                                                 *)
WriteDb(newDocs, newPlain) ==
  \/ running /\ Ends(1)  \* LOCKED
  \/ /\ ~running
     /\ \E lands \in BOOLEAN, code \in {0, 1, Killed} :
          /\ code = 0 => lands
          /\ disk' = IF lands THEN <<disk[1], newDocs>> ELSE disk
          /\ plainDisk' = IF lands THEN newPlain ELSE plainDisk
          /\ exit' = code
     /\ Loaded
     /\ UNCHANGED <<latched, checked, tables, running, dump>>

(* set <key> <value> and delete <key>; a lone surrogate in the value is        *)
(* refused by the kv lens, after the open.                                  *)
SetOrDelete(k, text) ==
  IF text \in Ids /\ ~WellFormed(text) THEN Ends(1)
  ELSE WriteDb(disk[2], [plainDisk EXCEPT ![k] = text])

(* ... of a document's key.                                                *)
SetOrDeleteBeneath(n, id, text) ==
  IF WellFormed(id) /\ (text \in Ids => WellFormed(text))
  THEN WriteDb(Beneath(disk[2], n, id, text), plainDisk)
  ELSE Ends(1)

(* Mutant: a reserved key is deleted like any other.                        *)
SetOrDeleteReserved_Allowed(n) ==
  /\ ~running
  /\ disk' = <<[disk[1] EXCEPT ![n] = None], disk[2]>> /\ plainDisk' = plainDisk
  /\ exit' = 0
  /\ Loaded
  /\ UNCHANGED <<latched, checked, tables, running, dump>>

(* ... of a key of the catalog: refused before the open.                     *)
SetOrDeleteReserved(n) == Ends(2)

(* get, and scan of the keys it begins: a missing key is exit code 1.         *)
Get(k) == Ends(IF plainDisk[k] = None THEN 1 ELSE 0)

(* inspect and stats, which list catalog().                                 *)
Registry == [n \in {m \in Names : disk[1][m] # None} |-> disk[1][n].kind]
Inspect == Ends(0)

(* export reads its range in one transaction; a key that is no text makes it    *)
(* fail, and the catalog is left out.                                       *)
Readable == \A k \in Opaque : plainDisk[k] = None

Dump == [whole |-> TRUE, docs |-> disk[2], plain |-> [k \in Plain |-> plainDisk[k]]]
Torn == [whole |-> FALSE]
HasDump == dump # None /\ dump.whole

Export ==
  \/ ~Readable /\ Ends(1)
  \/ /\ Readable
     /\ \/ /\ Says(0)
           /\ dump' = Dump
        \/ /\ \E code \in {1, Killed} : Says(code)
           /\ dump' \in {dump, Torn, Dump}  \* before, in or after writeFileSync()

(* Entries of a over those of b.                                           *)
Over(a, b) == [k \in DOMAIN b |-> IF k \in DOMAIN a /\ a[k] # None THEN a[k] ELSE b[k]]

DocsOver(a, b) == [n \in Names |-> Over(a[n], b[n])]

(* import of a dump: every pair of it in one transaction.  What was cut off     *)
(* is no JSON, and a missing file cannot be read.                           *)
Import ==
  \/ dump = None /\ Ends(1)
  \/ dump = Torn /\ Ends(2)
  \/ /\ HasDump
     /\ WriteDb(DocsOver(dump.docs, disk[2]), Over(dump.plain, plainDisk))

(* ... and of any other file: all of it is checked before the open.           *)
Loadable(file) ==
  /\ file # Malformed
  /\ \A k \in DOMAIN file.plain : WellFormed(file.plain[k])
  /\ \A d \in file.beneath : WellFormed(d[2])

WithRaw(beneath, ds) ==
  [n \in Names |-> [k \in StoredIds |-> IF <<n, k>> \in beneath THEN Raw ELSE ds[n][k]]]

ImportFile(file) ==
  IF Loadable(file) THEN WriteDb(WithRaw(file.beneath, disk[2]), Over(file.plain, plainDisk))
  ELSE Ends(2)

-----------------------------------------------------------------------------

Command ==
  \/ \E k \in Plain, text \in Texts \cup {None} : SetOrDelete(k, text)
  \/ \E n \in Names, id \in Ids, text \in Texts \cup {None} : SetOrDeleteBeneath(n, id, text)
  \/ \E n \in Names : SetOrDeleteReserved(n)
  \/ \E k \in Plain : Get(k)
  \/ Inspect
  \/ Export
  \/ Import
  \/ \E file \in Files : ImportFile(file)

CliNext ==
  \/ Start \/ Quit \/ UseLenses
  \/ \E k \in Plain \cup Opaque, text \in Texts \cup {None} : KvWrite(k, text)
  \/ \E n \in Names, id \in Ids, text \in Texts \cup {None} : KvWriteBeneath(n, id, text)
  \/ Command

CliSpec == CliInit /\ [][CliNext]_allVars

-----------------------------------------------------------------------------

(* What a running application holds in memory is what is on disk, or what it   *)
(* was before the commit that latched it: no command has been at the file       *)
(* beneath it (withWriteDb).                                               *)
NobodyBeneath == ~latched => store = disk /\ plain = plainDisk

(* A dump can go back at any later time: every document in it that a lens wrote *)
(* is still of a name in the catalog, and fits the schema the catalog has for    *)
(* that name now.                                                          *)
DumpFits ==
  HasDump =>
    \A n \in Names, k \in StoredIds : dump.docs[n][k] \notin {None, Raw} =>
      /\ n \in DOMAIN Registry
      /\ Registry[n] = "relational" => RowFits(disk[1][n].schema, dump.docs[n][k], k)
=============================================================================
