-------------------------------- MODULE Lenses --------------------------------
(***************************************************************************)
(* The document and relational lenses and the catalog (src/lens), over a      *)
(* store whose transactions are atomic (Transactions).  Every operation of a  *)
(* handle is one transaction; only a commit can fail, and then the database   *)
(* refuses everything until it is opened again.                             *)
(*                                                                         *)
(* A document, or row, is a plain object: a function from the columns it has  *)
(* to values, and of a value only matters what matchesType() and JSON make of  *)
(* it.  The kv lens and the command line, which may write beneath a           *)
(* collection's keys, are in CommandLine.                                   *)
(***************************************************************************)
CONSTANTS
  Names,        \* of collections and tables
  Ids,          \* strings, as they are in memory
  IllFormed,    \* those that hold a lone surrogate
  Replacement,  \* what UTF-8 makes of any of those
  Instances,    \* objects that JSON turns into something else: dates, boxed
                \* primitives, whatever has a toJSON()
  ToJSON,       \* what it makes of each; "undefined" if nothing
  Raw,          \* what something other than a lens wrote where a document would be
  DocHandles,   \* what doc() returned
  NameOf,       \* the collection of each
  Schemas,      \* what table() is given
  Docs,         \* what put() and insert() are given
  None

(* The values JavaScript hands over: NaN is a number to typeof, an instance or   *)
(* a cycle an object; undefined, or a function, is there and is not; JSON      *)
(* throws on a cycle and on a bigint.                                       *)
Unencodable == {"bigint", "cyclic"}
OnlyJavaScript == Unencodable \cup {"nan", "undefined"} \cup Instances
OtherThanText == {"number", "boolean", "object", "array", "null"}
Value == Ids \cup OtherThanText \cup OnlyJavaScript

(* The values JSON has.                                                    *)
Stored == Ids \cup OtherThanText

(* Catalog entries.                                                        *)
Document == [kind |-> "document"]
Relational(schema) == [kind |-> "relational", schema |-> schema]
Entries == {Document} \cup {Relational(s) : s \in Schemas}

ASSUME IdsAssumption ==
  /\ IllFormed \subseteq Ids
  /\ Replacement \in Ids \ IllFormed
  /\ Ids \cap (OtherThanText \cup OnlyJavaScript) = {}
ASSUME InstancesAssumption ==
  /\ Instances \cap (OtherThanText \cup Unencodable \cup {"nan", "undefined"}) = {}
  /\ ToJSON \in [Instances -> Stored \cup {"undefined"}]
ASSUME HandlesAssumption == NameOf \in [DocHandles -> Names]
ASSUME NoneAssumption == None \notin Entries /\ Raw # None
ASSUME DocsAssumption == \A d \in Docs : \A c \in DOMAIN d : d[c] \in Value

VARIABLES
  catalog,  \* what kind of thing a name is
  docs,     \* the documents, by collection and key
  disk,     \* both, as the next open finds them
  latched,  \* did a commit fail?
  checked,  \* the memo of each document handle
  tables,   \* the table handles: a name and a schema
  answer    \* of the last operation: where it went and if it was refused

store == <<catalog, docs>>
vars == <<catalog, docs, disk, latched, checked, tables, answer>>

-----------------------------------------------------------------------------
(* Text and JSON.                                                          *)

(* Mutant: any text is well formed.                                        *)
WellFormed_Any(id) == TRUE

(* assertWellFormedText().                                                 *)
WellFormed(id) == id \notin IllFormed

(* What an id is in a key: UTF-8 has no lone surrogates.                     *)
KeyOf(id) == IF id \in IllFormed THEN Replacement ELSE id
StoredIds == Ids \ IllFormed

(* JSON.stringify() of a value in a document.                               *)
Json(value) ==
  CASE value = "nan" -> "null"
    [] value \in Instances -> ToJSON[value]
    [] OTHER -> value

(* Does encodeDoc() return?                                                *)
Encodable(doc) == \A c \in DOMAIN doc : doc[c] \notin Unencodable

(* Mutant: what is stored is what was given.                                *)
EncodeDoc_AsIs(doc) == doc

(* What decodeDoc() makes of what encodeDoc() writes.                        *)
EncodeDoc(doc) == [c \in {d \in DOMAIN doc : Json(doc[d]) # "undefined"} |-> Json(doc[c])]

ASSUME RawAssumption == \A d \in Docs : EncodeDoc(d) \notin {None, Raw}

-----------------------------------------------------------------------------
(* Schemas.                                                                *)

(* Mutant: what typeof calls a number is one.                               *)
MatchesType_Typeof(value, type) ==
  \/ type = "string" /\ value \in Ids
  \/ type = "number" /\ value \in {"number", "nan"}
  \/ type = "boolean" /\ value = "boolean"
  \/ type = "object" /\ value \in {"object", "cyclic"} \cup Instances

MatchesType(value, type) ==
  \/ type = "string" /\ value \in Ids
  \/ type = "number" /\ value = "number"
  \/ type = "boolean" /\ value = "boolean"
  \/ type = "object" /\ value \in {"object", "cyclic"} \cup Instances

ValidateRow(schema, row) ==
  /\ DOMAIN row = DOMAIN schema.columns
  /\ \A c \in DOMAIN row : MatchesType(row[c], schema.columns[c])

(* table() takes a schema whose key is a column of strings.                 *)
Declarable(schema) ==
  /\ schema.primaryKey \in DOMAIN schema.columns
  /\ schema.columns[schema.primaryKey] = "string"

-----------------------------------------------------------------------------
(* Transactions.                                                           *)

Init ==
  /\ catalog = [n \in Names |-> None]
  /\ docs = [n \in Names |-> [k \in StoredIds |-> None]]
  /\ disk = store
  /\ latched = FALSE
  /\ checked = [h \in DocHandles |-> FALSE]
  /\ tables = {}
  /\ answer = None

Answer(name, id, refused) == answer' = [name |-> name, id |-> id, refused |-> refused]

(* The commit of a new catalog and new documents.                           *)
Commit(newCatalog, newDocs, name, id) ==
  /\ catalog' = newCatalog
  /\ docs' = newDocs
  /\ disk' = <<newCatalog, newDocs>>
  /\ Answer(name, id, FALSE)
  /\ UNCHANGED latched

(* A commit that throws may be on disk; memory stays.                        *)
CommitFails(newCatalog, newDocs, name, id) ==
  /\ disk' \in {store, <<newCatalog, newDocs>>}
  /\ latched' = TRUE
  /\ Answer(name, id, TRUE)
  /\ UNCHANGED store

Commits(newCatalog, newDocs, name, id) ==
  Commit(newCatalog, newDocs, name, id) \/ CommitFails(newCatalog, newDocs, name, id)

(* A transaction that writes nothing, or a call that throws.                 *)
Return(name, id, refused) == Answer(name, id, refused) /\ UNCHANGED <<store, disk, latched>>

(* Mutant: the entry is written whether there is one or not.                 *)
RecordDocument_Always(name) == [catalog EXCEPT ![name] = Document]

(* recordDocument(): the catalog with the collection in it.                  *)
RecordDocument(name) ==
  IF catalog[name] = None THEN [catalog EXCEPT ![name] = Document] ELSE catalog

(* Mutant: the registration is a transaction of its own.                    *)
Put_RegistersFirst(name, id, doc) ==
  IF Encodable(doc)
  THEN Commits(RecordDocument(name), [docs EXCEPT ![name][KeyOf(id)] = EncodeDoc(doc)], name, id)
  ELSE Commits(RecordDocument(name), docs, name, id)

(* put() and delete(), of either lens, after their checks.  A document that     *)
(* cannot be encoded aborts the transaction, registration included.            *)
Put(name, id, doc) ==
  IF Encodable(doc)
  THEN Commits(RecordDocument(name), [docs EXCEPT ![name][KeyOf(id)] = EncodeDoc(doc)], name, id)
  ELSE Return(name, id, TRUE)

Remove(name, id) == Commits(catalog, [docs EXCEPT ![name][KeyOf(id)] = None], name, id)

-----------------------------------------------------------------------------
(* doc().                                                                  *)

IsTable(name) == catalog[name] \notin {None, Document}

(* Mutant: a name that is no table is settled.                              *)
Settled_NoTable(name) == ~IsTable(name)

(* What ensure() finds worth remembering.                                   *)
Settled(name) == catalog[name] = Document

(* ensure(), at the start of an operation's transaction.                     *)
Passes(h) == checked[h] \/ ~IsTable(NameOf[h])
Ensure(h) == Passes(h) /\ checked' = [checked EXCEPT ![h] = @ \/ Settled(NameOf[h])]

DocPut(h, id, doc) ==
  /\ ~latched
  /\ WellFormed(id)
  /\ Ensure(h)
  /\ Put(NameOf[h], id, doc)
  /\ UNCHANGED tables

DocDelete(h, id) ==
  /\ ~latched
  /\ WellFormed(id)
  /\ Ensure(h)
  /\ Remove(NameOf[h], id)
  /\ UNCHANGED tables

(* get(), and every pass over all() or find(): the scan runs again, in a       *)
(* transaction of its own.  What no lens wrote may be no JSON.               *)
DocRead(h) ==
  /\ ~latched
  /\ Ensure(h)
  /\ \E refused \in BOOLEAN :
       /\ refused => \E k \in StoredIds : docs[NameOf[h]][k] = Raw
       /\ Return(NameOf[h], None, refused)
  /\ UNCHANGED tables

DocRefused(h, id) ==
  /\ ~latched
  /\ ~WellFormed(id) \/ ~Passes(h)
  /\ Return(NameOf[h], id, TRUE)
  /\ UNCHANGED <<checked, tables>>

-----------------------------------------------------------------------------
(* table().                                                                *)

(* recordRelational() on a name nobody has: it must be recorded.             *)
Record(n, schema) ==
  /\ ~latched
  /\ Declarable(schema)
  /\ catalog[n] = None
  /\ Commits([catalog EXCEPT ![n] = Relational(schema)], docs, n, None)
  /\ tables' = IF latched' THEN tables ELSE tables \cup {<<n, schema>>}
  /\ UNCHANGED checked

(* ... and on one it knows with the same schema.                             *)
Reuse(n, schema) ==
  /\ ~latched
  /\ Declarable(schema)
  /\ catalog[n] = Relational(schema)
  /\ Return(n, None, FALSE)
  /\ tables' = tables \cup {<<n, schema>>}
  /\ UNCHANGED checked

TableRefused(n, schema) ==
  /\ ~latched
  /\ ~Declarable(schema) \/ catalog[n] \notin {None, Relational(schema)}
  /\ Return(n, None, TRUE)
  /\ UNCHANGED <<checked, tables>>

Insert(t, row) ==
  /\ ~latched
  /\ ValidateRow(t[2], row)
  /\ WellFormed(row[t[2].primaryKey])
  /\ Put(t[1], row[t[2].primaryKey], row)
  /\ UNCHANGED <<checked, tables>>

InsertRefused(t, row) ==
  /\ ~latched
  /\ ValidateRow(t[2], row) => ~WellFormed(row[t[2].primaryKey])
  /\ Return(t[1], None, TRUE)
  /\ UNCHANGED <<checked, tables>>

TableDelete(t, id) ==
  /\ ~latched
  /\ WellFormed(id)
  /\ Remove(t[1], id)
  /\ UNCHANGED <<checked, tables>>

TableDeleteRefused(t, id) ==
  /\ ~latched
  /\ ~WellFormed(id)
  /\ Return(t[1], id, TRUE)
  /\ UNCHANGED <<checked, tables>>

(* Close, or die, and open: handles are made anew.                          *)
Reopen ==
  /\ catalog' = disk[1]
  /\ docs' = disk[2]
  /\ latched' = FALSE
  /\ checked' = [h \in DocHandles |-> FALSE]
  /\ tables' = {}
  /\ answer' = None
  /\ UNCHANGED disk

Operate ==
  \/ \E h \in DocHandles, id \in Ids, doc \in Docs : DocPut(h, id, doc)
  \/ \E h \in DocHandles, id \in Ids : DocDelete(h, id)
  \/ \E h \in DocHandles : DocRead(h)
  \/ \E h \in DocHandles, id \in Ids : DocRefused(h, id)
  \/ \E n \in Names, schema \in Schemas : Record(n, schema)
  \/ \E n \in Names, schema \in Schemas : Reuse(n, schema)
  \/ \E n \in Names, schema \in Schemas : TableRefused(n, schema)
  \/ \E t \in tables, row \in Docs : Insert(t, row)
  \/ \E t \in tables, row \in Docs : InsertRefused(t, row)
  \/ \E t \in tables, id \in Ids : TableDelete(t, id)
  \/ \E t \in tables, id \in Ids : TableDeleteRefused(t, id)

Next == Operate \/ Reopen

Spec == Init /\ [][Next]_vars

-----------------------------------------------------------------------------

(* Types.  A document holds what JSON can hold, whatever was put.            *)
TypeOK ==
  /\ catalog \in [Names -> Entries \cup {None}]
  /\ DOMAIN docs = Names
  /\ \A n \in Names : DOMAIN docs[n] = StoredIds
  /\ \A n \in Names, k \in StoredIds :
       docs[n][k] \notin {None, Raw} => \A c \in DOMAIN docs[n][k] : docs[n][k][c] \in Stored
  /\ latched \in BOOLEAN
  /\ checked \in [DocHandles -> BOOLEAN]
  /\ tables \subseteq Names \X Schemas

(* What a column of this type may be read back as.  JSON decides what becomes   *)
(* of an instance that was accepted as an object: a date is read back as text,  *)
(* an invalid date as null, and a toJSON() that returns nothing drops the       *)
(* column.                                                                 *)
ReadAs(type) ==
  CASE type = "string" -> Ids
    [] type = "number" -> {"number"}
    [] type = "boolean" -> {"boolean"}
    [] type = "object" -> {"object"} \cup {ToJSON[i] : i \in Instances}

RowFits(schema, row, k) ==
  /\ DOMAIN row \subseteq DOMAIN schema.columns
  /\ \A c \in DOMAIN schema.columns :
       (IF c \in DOMAIN row THEN row[c] ELSE "undefined") \in ReadAs(schema.columns[c])
  /\ row[schema.primaryKey] = k

(* A table's rows fit the schema in the catalog, whichever handles wrote them  *)
(* and in whatever order names were claimed, commits failed, the database was  *)
(* reopened and old dumps came back: columns of the schema and no other, each   *)
(* string, number and boolean there and of its type, each object there unless   *)
(* JSON made it something else, and the primary key the key the row is stored    *)
(* under (validateRow(), the kind checks of doc() and table(), registration     *)
(* with the first write).  What no lens wrote is exempt.                      *)
RowsFitSchema ==
  \A n \in Names : IsTable(n) =>
    \A k \in StoredIds : docs[n][k] \notin {None, Raw} => RowFits(catalog[n].schema, docs[n][k], k)

(* A handle that stopped looking is right to (the memo of doc()), and a name   *)
(* that a lens stored documents under is in the catalog.                      *)
MemoIsTrue ==
  /\ \A h \in DocHandles : checked[h] => catalog[NameOf[h]] = Document
  /\ \A n \in Names : (\E k \in StoredIds : docs[n][k] \notin {None, Raw}) => catalog[n] # None

(* ... and it gets there as a collection with its first document, never alone:  *)
(* put() registers and writes in one transaction, so that neither a document    *)
(* that cannot be encoded nor a commit that fails or is cut short leaves the    *)
(* name taken with nothing in it.                                           *)
RegisteredWithDocument ==
  [][\A n \in Names : disk[1][n] # Document /\ disk'[1][n] = Document =>
       \E k \in StoredIds : disk'[2][n][k] \notin {None, Raw}]_vars

(* A document changes only by an operation that was given its very name and    *)
(* id, and returned: no other string is the same key (assertWellFormedText()).  *)
OnlyItsOwn ==
  [][answer' # None =>
       \A n \in Names, k \in StoredIds : docs'[n][k] # docs[n][k] =>
         answer' = [name |-> n, id |-> k, refused |-> FALSE]]_vars

(* What a name is cataloged as it remains, for good: not a failed commit, a     *)
(* reopening, an insert's registration or the other lens changes it.          *)
KindIsForever ==
  [][\A n \in Names : catalog[n] # None => catalog'[n] = catalog[n]]_vars
=============================================================================
