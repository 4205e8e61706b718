----------------------------- MODULE LensesProofs -----------------------------
(***************************************************************************)
(* For any names, ids, schemas, documents and handles: a table's rows fit its  *)
(* schema, a handle's memo is true, a document changes only by its own id, a   *)
(* name is registered with its first document and its kind is for good.       *)
(*                                                                         *)
(* RowsFitSchema is not inductive: a reopening takes what is on disk, so the    *)
(* same must hold there, and disk must have every entry memory has; an insert  *)
(* checks a row against its handle's schema, so that must be the cataloged     *)
(* one; and a name that is recorded as a table must have had no documents.     *)
(***************************************************************************)
EXTENDS CommandLine, TLAPS

(* What memory and disk both are.                                          *)
Shape(ds) == DOMAIN ds = Names /\ \A n \in Names : DOMAIN ds[n] = StoredIds

(* A lens wrote a document there.                                          *)
Present(ds, n, k) == ds[n][k] \notin {None, Raw}

Good(cat, ds) ==
  /\ cat \in [Names -> Entries \cup {None}]
  /\ Shape(ds)
  /\ \A n \in Names, k \in StoredIds : Present(ds, n, k) =>
       \A c \in DOMAIN ds[n][k] : ds[n][k][c] \in Stored
  /\ \A n \in Names : cat[n] \notin {None, Document} =>
       /\ Declarable(cat[n].schema)
       /\ \A k \in StoredIds : Present(ds, n, k) => RowFits(cat[n].schema, ds[n][k], k)
  /\ \A n \in Names, k \in StoredIds : Present(ds, n, k) => cat[n] # None

Keeps(old, new) == \A n \in Names : old[n] # None => new[n] = old[n]

(* The handles.                                                            *)
HandlesInv ==
  /\ checked \in [DocHandles -> BOOLEAN]
  /\ \A h \in DocHandles : checked[h] => catalog[NameOf[h]] = Document
  /\ tables \subseteq Names \X Schemas
  /\ \A t \in tables : catalog[t[1]] = Relational(t[2])

IInv ==
  /\ Good(catalog, docs)
  /\ Good(disk[1], disk[2])
  /\ Keeps(catalog, disk[1])
  /\ HandlesInv
  /\ latched \in BOOLEAN

-----------------------------------------------------------------------------
(* Entries.                                                                *)

LEMMA EntriesDiffer ==
  /\ \A s : Relational(s) # Document /\ Relational(s).schema = s
  /\ \A s \in Schemas : Relational(s) \in Entries /\ Relational(s) # None
  /\ Document \in Entries /\ Document # None
  /\ \A e \in Entries : e # Document => e.schema \in Schemas /\ e = Relational(e.schema)
<1>1. \A s : Relational(s) # Document /\ Relational(s).schema = s
  <2>1. \A s : Relational(s).kind = "relational" /\ Document.kind = "document"
    BY DEF Relational, Document
  <2>2. QED BY <2>1 DEF Relational
<1>2. \A s \in Schemas : Relational(s) \in Entries BY DEF Entries
<1>3. Document \in Entries BY DEF Entries
<1>4. \A e \in Entries : e # Document => \E s \in Schemas : e = Relational(s) BY DEF Entries
<1>5. QED BY <1>1, <1>2, <1>3, <1>4, NoneAssumption

(* What is stored is JSON, and a row that was let in is read back as one.    *)
LEMMA StoredIsJson ==
  ASSUME NEW doc \in Docs, Encodable(doc)
  PROVE  \A c \in DOMAIN EncodeDoc(doc) : EncodeDoc(doc)[c] \in Stored
<1> SUFFICES ASSUME NEW c \in DOMAIN EncodeDoc(doc) PROVE EncodeDoc(doc)[c] \in Stored
  OBVIOUS
<1>1. /\ c \in DOMAIN doc /\ EncodeDoc(doc)[c] = Json(doc[c]) /\ Json(doc[c]) # "undefined"
  BY DEF EncodeDoc
<1>2. doc[c] \in Value \ Unencodable BY <1>1, DocsAssumption DEF Encodable
<1>3. CASE doc[c] \in Instances
  <2>1. doc[c] # "nan" BY <1>3, InstancesAssumption
  <2>2. QED BY <1>1, <1>3, <2>1, InstancesAssumption DEF Json
<1>4. CASE doc[c] \notin Instances
  BY <1>1, <1>2, <1>4 DEF Json, Value, Stored, OnlyJavaScript, OtherThanText
<1>5. QED BY <1>3, <1>4

LEMMA JsonFits ==
  ASSUME NEW v, NEW t, MatchesType(v, t), v \notin Unencodable
  PROVE  Json(v) \in ReadAs(t) /\ (t = "string" => v \in Ids /\ Json(v) = v)
<1>1. CASE t = "string"
  <2>1. v \in Ids BY <1>1 DEF MatchesType
  <2>2. v # "nan" /\ v \notin Instances BY <2>1, IdsAssumption DEF OnlyJavaScript
  <2>3. QED BY <1>1, <2>1, <2>2 DEF Json, ReadAs
<1>2. CASE t = "number"
  BY <1>2, InstancesAssumption DEF MatchesType, Json, ReadAs, OtherThanText
<1>3. CASE t = "boolean"
  BY <1>3, InstancesAssumption DEF MatchesType, Json, ReadAs, OtherThanText
<1>4. CASE t = "object"
  <2>1. CASE v \in Instances
    <3>1. v # "nan" BY <2>1, InstancesAssumption
    <3>2. QED BY <1>4, <2>1, <3>1 DEF Json, ReadAs
  <2>2. CASE v \notin Instances
    BY <1>4, <2>2 DEF MatchesType, Json, ReadAs, Unencodable
  <2>3. QED BY <2>1, <2>2
<1>5. QED BY <1>1, <1>2, <1>3, <1>4 DEF MatchesType

LEMMA ValidRowFits ==
  ASSUME NEW schema, NEW row, Declarable(schema), ValidateRow(schema, row)
  PROVE  /\ row[schema.primaryKey] \in Ids
         /\ Encodable(row) => RowFits(schema, EncodeDoc(row), row[schema.primaryKey])
<1> DEFINE pk == schema.primaryKey
<1>1. \A c \in DOMAIN row : MatchesType(row[c], schema.columns[c]) BY DEF ValidateRow
<1>2. pk \in DOMAIN row /\ schema.columns[pk] = "string" BY DEF ValidateRow, Declarable
<1>3. row[pk] \in Ids BY <1>1, <1>2 DEF MatchesType
<1>4. ASSUME Encodable(row) PROVE RowFits(schema, EncodeDoc(row), row[pk])
  <2>1. \A c \in DOMAIN row : Json(row[c]) \in ReadAs(schema.columns[c])
    BY <1>1, <1>4, JsonFits DEF Encodable
  <2>2. Json(row[pk]) = row[pk] /\ row[pk] # "undefined"
    BY <1>2, <1>3, IdsAssumption DEF Json, OnlyJavaScript
  <2>3. DOMAIN EncodeDoc(row) = {c \in DOMAIN row : Json(row[c]) # "undefined"}
        /\ \A c \in DOMAIN EncodeDoc(row) : EncodeDoc(row)[c] = Json(row[c])
    BY DEF EncodeDoc
  <2>4. DOMAIN row = DOMAIN schema.columns BY DEF ValidateRow
  <2>5. \A c \in DOMAIN schema.columns :
          (IF c \in DOMAIN EncodeDoc(row) THEN EncodeDoc(row)[c] ELSE "undefined")
            = Json(row[c])
    BY <2>3, <2>4
  <2>6. EncodeDoc(row)[pk] = row[pk] BY <1>2, <2>2, <2>3
  <2>7. QED BY <2>1, <2>3, <2>4, <2>5, <2>6 DEF RowFits
<1>5. QED BY <1>3, <1>4

-----------------------------------------------------------------------------
(* What the operations write.                                              *)

LEMMA KeyIsId ==
  ASSUME NEW id \in Ids, WellFormed(id)
  PROVE  KeyOf(id) = id /\ id \in StoredIds
BY DEF WellFormed, KeyOf, StoredIds

LEMMA RecordGood ==
  ASSUME catalog \in [Names -> Entries \cup {None}], NEW n \in Names
  PROVE  /\ RecordDocument(n) \in [Names -> Entries \cup {None}]
         /\ Keeps(catalog, RecordDocument(n))
         /\ RecordDocument(n)[n] # None
         /\ catalog[n] = None => RecordDocument(n)[n] = Document
         /\ \A m \in Names : m # n => RecordDocument(n)[m] = catalog[m]
<1>1. CASE catalog[n] = None
  BY <1>1, EntriesDiffer DEF RecordDocument, Keeps
<1>2. CASE catalog[n] # None
  BY <1>2 DEF RecordDocument, Keeps
<1>3. QED BY <1>1, <1>2

(* A put: of any document where there is no table, else of a row that fits.   *)
LEMMA PutGood ==
  ASSUME Good(catalog, docs), NEW n \in Names, NEW id \in Ids, WellFormed(id), NEW doc \in Docs,
         Encodable(doc), IsTable(n) => RowFits(catalog[n].schema, EncodeDoc(doc), id)
  PROVE  /\ Good(RecordDocument(n), [docs EXCEPT ![n][KeyOf(id)] = EncodeDoc(doc)])
         /\ Keeps(catalog, RecordDocument(n))
<1> DEFINE cat == RecordDocument(n)
           new == [docs EXCEPT ![n][KeyOf(id)] = EncodeDoc(doc)]
<1>1. KeyOf(id) = id /\ id \in StoredIds BY KeyIsId
<1>2. /\ Shape(new)
      /\ \A m \in Names, j \in StoredIds :
           new[m][j] = IF m = n /\ j = id THEN EncodeDoc(doc) ELSE docs[m][j]
  <2>1. new = [docs EXCEPT ![n][id] = EncodeDoc(doc)] BY <1>1
  <2>2. Shape(docs) BY DEF Good
  <2> HIDE DEF new
  <2>3. QED BY <1>1, <2>1, <2>2 DEF Shape
<1>3. /\ cat \in [Names -> Entries \cup {None}]
      /\ Keeps(catalog, cat)
      /\ cat[n] # None
      /\ catalog[n] = None => cat[n] = Document
      /\ \A m \in Names : m # n => cat[m] = catalog[m]
  BY RecordGood DEF Good
<1> HIDE DEF cat, new
<1>4. ASSUME NEW m \in Names, NEW k \in StoredIds, Present(new, m, k)
      PROVE  cat[m] # None /\ \A c \in DOMAIN new[m][k] : new[m][k][c] \in Stored
  <2>1. CASE m = n /\ k = id BY <2>1, <1>2, <1>3, StoredIsJson
  <2>2. CASE ~(m = n /\ k = id)
    <3>1. new[m][k] = docs[m][k] BY <2>2, <1>2
    <3>2. Present(docs, m, k) BY <3>1, <1>4 DEF Present
    <3>3. catalog[m] # None BY <3>2 DEF Good
    <3>4. QED BY <3>1, <3>2, <3>3, <1>3 DEF Good, Keeps
  <2>3. QED BY <2>1, <2>2
<1>5. ASSUME NEW m \in Names, cat[m] \notin {None, Document}
      PROVE  /\ Declarable(cat[m].schema)
             /\ \A k \in StoredIds : Present(new, m, k) => RowFits(cat[m].schema, new[m][k], k)
  <2>1. catalog[m] # None
    <3>1. CASE m = n BY <3>1, <1>5, <1>3
    <3>2. CASE m # n BY <3>2, <1>5, <1>3
    <3>3. QED BY <3>1, <3>2
  <2>2. cat[m] = catalog[m] BY <2>1, <1>3 DEF Keeps
  <2>3. Declarable(cat[m].schema) BY <2>2, <1>5 DEF Good
  <2>4. ASSUME NEW k \in StoredIds, Present(new, m, k)
        PROVE  RowFits(cat[m].schema, new[m][k], k)
    <3>1. CASE m = n /\ k = id
      <4>1. IsTable(n) BY <3>1, <2>2, <1>5 DEF IsTable
      <4>2. QED BY <4>1, <3>1, <2>2, <1>2
    <3>2. CASE ~(m = n /\ k = id)
      <4>1. new[m][k] = docs[m][k] BY <3>2, <1>2
      <4>2. Present(docs, m, k) BY <4>1, <2>4 DEF Present
      <4>3. QED BY <4>1, <4>2, <2>2, <1>5 DEF Good
    <3>3. QED BY <3>1, <3>2
  <2>5. QED BY <2>3, <2>4
<1>6. Good(cat, new) BY <1>2, <1>3, <1>4, <1>5 DEF Good
<1>7. QED BY <1>3, <1>6 DEF cat, new

LEMMA RemoveGood ==
  ASSUME Good(catalog, docs), NEW n \in Names, NEW id \in Ids, WellFormed(id)
  PROVE  Good(catalog, [docs EXCEPT ![n][KeyOf(id)] = None])
<1> DEFINE new == [docs EXCEPT ![n][KeyOf(id)] = None]
<1>1. KeyOf(id) = id /\ id \in StoredIds BY KeyIsId
<1>2. /\ Shape(new)
      /\ \A m \in Names, j \in StoredIds :
           new[m][j] = IF m = n /\ j = id THEN None ELSE docs[m][j]
  <2>1. new = [docs EXCEPT ![n][id] = None] BY <1>1
  <2>2. Shape(docs) BY DEF Good
  <2> HIDE DEF new
  <2>3. QED BY <1>1, <2>1, <2>2 DEF Shape
<1> HIDE DEF new
<1>3. \A m \in Names, k \in StoredIds :
        Present(new, m, k) => Present(docs, m, k) /\ new[m][k] = docs[m][k]
  BY <1>2 DEF Present
<1>4. Good(catalog, new) BY <1>2, <1>3 DEF Good
<1>5. QED BY <1>4 DEF new

(* A name nobody has becomes a table: it has no documents.                   *)
LEMMA TableGood ==
  ASSUME Good(catalog, docs), NEW n \in Names, NEW schema \in Schemas,
         Declarable(schema), catalog[n] = None
  PROVE  /\ Good([catalog EXCEPT ![n] = Relational(schema)], docs)
         /\ Keeps(catalog, [catalog EXCEPT ![n] = Relational(schema)])
<1> DEFINE cat == [catalog EXCEPT ![n] = Relational(schema)]
<1>1. /\ cat \in [Names -> Entries \cup {None}]
      /\ cat[n] = Relational(schema)
      /\ \A m \in Names : m # n => cat[m] = catalog[m]
  BY EntriesDiffer DEF Good
<1> HIDE DEF cat
<1>2. Keeps(catalog, cat) BY <1>1 DEF Keeps
<1>3. \A k \in StoredIds : ~Present(docs, n, k) BY DEF Good
<1>4. ASSUME NEW m \in Names, cat[m] \notin {None, Document}
      PROVE  /\ Declarable(cat[m].schema)
             /\ \A k \in StoredIds : Present(docs, m, k) => RowFits(cat[m].schema, docs[m][k], k)
  <2>1. CASE m = n BY <2>1, <1>1, <1>3, EntriesDiffer
  <2>2. CASE m # n BY <2>2, <1>1, <1>4 DEF Good
  <2>3. QED BY <2>1, <2>2
<1>5. \A m \in Names, k \in StoredIds : Present(docs, m, k) => cat[m] # None
  BY <1>1, <1>3 DEF Good
<1>6. Good(cat, docs) BY <1>1, <1>4, <1>5 DEF Good
<1>7. QED BY <1>2, <1>6 DEF cat

-----------------------------------------------------------------------------
(* The steps.                                                              *)

LEMMA InitHolds == Init => IInv
<1> SUFFICES ASSUME Init PROVE IInv OBVIOUS
<1>1. disk[1] = catalog /\ disk[2] = docs BY DEF Init, store
<1>2. Good(catalog, docs)
  <2>1. Shape(docs) /\ \A n \in Names, k \in StoredIds : ~Present(docs, n, k)
    BY DEF Init, Shape, Present
  <2>2. catalog \in [Names -> Entries \cup {None}] /\ \A n \in Names : catalog[n] = None
    BY DEF Init
  <2>3. QED BY <2>1, <2>2 DEF Good
<1>3. HandlesInv BY DEF Init, HandlesInv
<1>4. QED BY <1>1, <1>2, <1>3 DEF Init, IInv, Keeps

(* Commits: if what is written is good and forgets no entry, so is the result, *)
(* on either outcome.                                                       *)
LEMMA CommitsGood ==
  ASSUME IInv, NEW cat, NEW ds, Good(cat, ds), Keeps(catalog, cat),
         NEW n, NEW id, Commits(cat, ds, n, id)
  PROVE  /\ Good(catalog, docs)' /\ Good(disk[1], disk[2])' /\ Keeps(catalog, disk[1])'
         /\ Keeps(catalog, catalog') /\ latched' \in BOOLEAN
<1>1. CASE Commit(cat, ds, n, id)
  <2>1. catalog' = cat /\ docs' = ds /\ disk'[1] = cat /\ disk'[2] = ds BY <1>1 DEF Commit
  <2>2. latched' \in BOOLEAN BY <1>1 DEF Commit, IInv
  <2>3. Good(catalog', docs') /\ Good(disk'[1], disk'[2]) BY <2>1
  <2>4. QED BY <2>1, <2>2, <2>3 DEF Keeps
<1>2. CASE CommitFails(cat, ds, n, id)
  <2>1. catalog' = catalog /\ docs' = docs /\ latched' = TRUE BY <1>2 DEF CommitFails, store
  <2>2. \/ disk'[1] = catalog /\ disk'[2] = docs
        \/ disk'[1] = cat /\ disk'[2] = ds
    BY <1>2 DEF CommitFails, store
  <2>3. Good(catalog', docs') BY <2>1 DEF IInv
  <2>4. Good(disk'[1], disk'[2]) BY <2>2 DEF IInv
  <2>5. QED BY <2>1, <2>2, <2>3, <2>4 DEF Keeps
<1>3. QED BY <1>1, <1>2 DEF Commits

(* Handles stay right as long as entries stay.                              *)
LEMMA HandlesStay ==
  ASSUME IInv, Keeps(catalog, catalog'), UNCHANGED tables,
         \/ UNCHANGED checked
         \/ \E h \in DocHandles : Ensure(h)
  PROVE  HandlesInv'
<1>1. \A h \in DocHandles : checked'[h] => catalog[NameOf[h]] = Document
  BY DEF IInv, HandlesInv, Ensure, Settled
<1>2. checked' \in [DocHandles -> BOOLEAN]
  BY DEF IInv, HandlesInv, Ensure, Settled
<1>3. \A h \in DocHandles : NameOf[h] \in Names BY HandlesAssumption
<1>4. \A h \in DocHandles : checked'[h] => catalog'[NameOf[h]] = Document
  BY <1>1, <1>3, EntriesDiffer DEF Keeps
<1>5. \A t \in tables : catalog'[t[1]] = Relational(t[2])
  <2> SUFFICES ASSUME NEW t \in tables PROVE catalog'[t[1]] = Relational(t[2]) OBVIOUS
  <2>1. t[1] \in Names /\ t[2] \in Schemas /\ catalog[t[1]] = Relational(t[2])
    BY DEF IInv, HandlesInv
  <2>2. QED BY <2>1, EntriesDiffer DEF Keeps
<1>6. QED BY <1>2, <1>4, <1>5 DEF IInv, HandlesInv

(* A step that changes nothing but handles and the answer.                   *)
LEMMA SameStore ==
  ASSUME IInv, UNCHANGED <<store, disk, latched>>
  PROVE  /\ Good(catalog, docs)' /\ Good(disk[1], disk[2])' /\ Keeps(catalog, disk[1])'
         /\ Keeps(catalog, catalog') /\ latched' \in BOOLEAN
BY DEF IInv, Keeps, store

(* What every step does: the invariant goes on, and no entry is lost.         *)
LEMMA StepHolds == IInv /\ [Next]_vars => IInv' /\ Keeps(catalog, catalog')
<1> SUFFICES ASSUME IInv, [Next]_vars PROVE IInv' /\ Keeps(catalog, catalog') OBVIOUS
<1> DEFINE StoreGood == /\ Good(catalog, docs)' /\ Good(disk[1], disk[2])'
                        /\ Keeps(catalog, disk[1])'
                        /\ Keeps(catalog, catalog') /\ latched' \in BOOLEAN
<1>1. ASSUME NEW h \in DocHandles, NEW id \in Ids, NEW doc \in Docs, DocPut(h, id, doc)
      PROVE  StoreGood /\ HandlesInv'
  <2>1. NameOf[h] \in Names /\ Good(catalog, docs) /\ WellFormed(id)
    BY <1>1, HandlesAssumption DEF DocPut, IInv
  <2>2. ~IsTable(NameOf[h])
    BY <1>1, EntriesDiffer DEF DocPut, Ensure, Passes, IInv, HandlesInv, IsTable
  <2>3. StoreGood
    <3>1. CASE Encodable(doc) BY <1>1, <3>1, <2>1, <2>2, PutGood, CommitsGood DEF DocPut, Put
    <3>2. CASE ~Encodable(doc) BY <1>1, <3>2, SameStore DEF DocPut, Put, Return
    <3>3. QED BY <3>1, <3>2
  <2>4. HandlesInv' BY <1>1, <2>3, HandlesStay DEF DocPut
  <2>5. QED BY <2>3, <2>4
<1>2. ASSUME NEW h \in DocHandles, NEW id \in Ids, DocDelete(h, id)
      PROVE  StoreGood /\ HandlesInv'
  <2>1. NameOf[h] \in Names /\ Good(catalog, docs) /\ WellFormed(id)
    BY <1>2, HandlesAssumption DEF DocDelete, IInv
  <2>2. StoreGood BY <1>2, <2>1, RemoveGood, CommitsGood DEF DocDelete, Remove, Keeps
  <2>3. HandlesInv' BY <1>2, <2>2, HandlesStay DEF DocDelete
  <2>4. QED BY <2>2, <2>3
<1>3. ASSUME NEW h \in DocHandles, DocRead(h)
      PROVE  StoreGood /\ HandlesInv'
  <2>1. StoreGood BY <1>3, SameStore DEF DocRead, Return
  <2>2. HandlesInv' BY <1>3, <2>1, HandlesStay DEF DocRead
  <2>3. QED BY <2>1, <2>2
<1>4. ASSUME NEW h \in DocHandles, NEW id \in Ids, DocRefused(h, id)
      PROVE  StoreGood /\ HandlesInv'
  <2>1. StoreGood BY <1>4, SameStore DEF DocRefused, Return
  <2>2. HandlesInv' BY <1>4, <2>1, HandlesStay DEF DocRefused
  <2>3. QED BY <2>1, <2>2
<1>5. ASSUME NEW n \in Names, NEW schema \in Schemas, Record(n, schema)
      PROVE  StoreGood /\ HandlesInv'
  <2> DEFINE cat == [catalog EXCEPT ![n] = Relational(schema)]
  <2>1. Good(cat, docs) /\ Keeps(catalog, cat) BY <1>5, TableGood DEF Record, IInv
  <2>2. Commits(cat, docs, n, None) BY <1>5 DEF Record
  <2>3. cat[n] = Relational(schema) BY DEF IInv, Good
  <2> HIDE DEF cat
  <2>4. StoreGood BY <2>1, <2>2, CommitsGood
  <2>5. checked' \in [DocHandles -> BOOLEAN]
    BY <1>5 DEF Record, IInv, HandlesInv
  <2>6. \A h \in DocHandles : checked'[h] => catalog'[NameOf[h]] = Document
    BY <1>5, <2>4, HandlesAssumption, EntriesDiffer DEF Record, IInv, HandlesInv, Keeps
  <2>7. tables' \subseteq Names \X Schemas
    BY <1>5 DEF Record, IInv, HandlesInv
  <2>8. \A t \in tables : catalog'[t[1]] = Relational(t[2])
    <3> SUFFICES ASSUME NEW t \in tables PROVE catalog'[t[1]] = Relational(t[2]) OBVIOUS
    <3>1. t[1] \in Names /\ t[2] \in Schemas /\ catalog[t[1]] = Relational(t[2])
      BY DEF IInv, HandlesInv
    <3>2. QED BY <3>1, <2>4, EntriesDiffer DEF Keeps
  <2>9. \/ tables' = tables
        \/ tables' = tables \cup {<<n, schema>>} /\ catalog'[n] = Relational(schema)
    BY <1>5, <2>2, <2>3 DEF Record, Commits, Commit, CommitFails
  <2>10. QED BY <2>4, <2>5, <2>6, <2>7, <2>8, <2>9 DEF HandlesInv
<1>6. ASSUME NEW n \in Names, NEW schema \in Schemas, Reuse(n, schema)
      PROVE  StoreGood /\ HandlesInv'
  <2>1. StoreGood BY <1>6, SameStore DEF Reuse, Return
  <2>2. HandlesInv' BY <1>6 DEF Reuse, Return, store, IInv, HandlesInv
  <2>3. QED BY <2>1, <2>2
<1>7. ASSUME NEW n \in Names, NEW schema \in Schemas, TableRefused(n, schema)
      PROVE  StoreGood /\ HandlesInv'
  <2>1. StoreGood BY <1>7, SameStore DEF TableRefused, Return
  <2>2. HandlesInv' BY <1>7, <2>1, HandlesStay DEF TableRefused
  <2>3. QED BY <2>1, <2>2
<1>8. ASSUME NEW t \in tables, NEW row \in Docs, Insert(t, row)
      PROVE  StoreGood /\ HandlesInv'
  <2> DEFINE id == row[t[2].primaryKey]
  <2>1. /\ t[1] \in Names /\ t[2] \in Schemas
        /\ catalog[t[1]] = Relational(t[2])
    BY DEF IInv, HandlesInv
  <2>2. catalog[t[1]] \notin {None, Document} /\ catalog[t[1]].schema = t[2]
    BY <2>1, EntriesDiffer
  <2>3. Declarable(t[2]) BY <2>1, <2>2 DEF IInv, Good
  <2>4. id \in Ids /\ (Encodable(row) => RowFits(t[2], EncodeDoc(row), id))
    BY <1>8, <2>3, ValidRowFits DEF Insert
  <2>5. WellFormed(id) /\ Put(t[1], id, row) BY <1>8 DEF Insert
  <2> HIDE DEF id
  <2>6. StoreGood
    <3>1. CASE Encodable(row)
      BY <3>1, <2>1, <2>2, <2>4, <2>5, PutGood, CommitsGood DEF Put, IInv
    <3>2. CASE ~Encodable(row) BY <3>2, <2>5, SameStore DEF Put, Return
    <3>3. QED BY <3>1, <3>2
  <2>7. HandlesInv' BY <1>8, <2>6, HandlesStay DEF Insert
  <2>8. QED BY <2>6, <2>7
<1>9. ASSUME NEW t \in tables, NEW row \in Docs, InsertRefused(t, row)
      PROVE  StoreGood /\ HandlesInv'
  <2>1. StoreGood BY <1>9, SameStore DEF InsertRefused, Return
  <2>2. HandlesInv' BY <1>9, <2>1, HandlesStay DEF InsertRefused
  <2>3. QED BY <2>1, <2>2
<1>10. ASSUME NEW t \in tables, NEW id \in Ids, TableDelete(t, id)
       PROVE  StoreGood /\ HandlesInv'
  <2>1. t[1] \in Names /\ Good(catalog, docs) /\ WellFormed(id)
    BY <1>10 DEF TableDelete, IInv, HandlesInv
  <2>2. StoreGood BY <1>10, <2>1, RemoveGood, CommitsGood DEF TableDelete, Remove, Keeps
  <2>3. HandlesInv' BY <1>10, <2>2, HandlesStay DEF TableDelete
  <2>4. QED BY <2>2, <2>3
<1>11. ASSUME NEW t \in tables, NEW id \in Ids, TableDeleteRefused(t, id)
       PROVE  StoreGood /\ HandlesInv'
  <2>1. StoreGood BY <1>11, SameStore DEF TableDeleteRefused, Return
  <2>2. HandlesInv' BY <1>11, <2>1, HandlesStay DEF TableDeleteRefused
  <2>3. QED BY <2>1, <2>2
<1>12. CASE Reopen
  <2>1. StoreGood BY <1>12 DEF Reopen, IInv, Keeps
  <2>2. HandlesInv' BY <1>12 DEF Reopen, HandlesInv
  <2>3. QED BY <2>1, <2>2 DEF IInv
<1>13. CASE UNCHANGED vars
  <2>1. StoreGood BY <1>13, SameStore DEF vars, store
  <2>2. HandlesInv' BY <1>13, <2>1, HandlesStay DEF vars
  <2>3. QED BY <2>1, <2>2 DEF IInv
<1>14. QED
  BY <1>1, <1>2, <1>3, <1>4, <1>5, <1>6, <1>7, <1>8, <1>9, <1>10, <1>11, <1>12, <1>13
  DEF Next, Operate, IInv

LEMMA AlwaysHolds == Spec => []IInv
<1>1. Init => IInv BY InitHolds
<1>2. IInv /\ [Next]_vars => IInv' BY StepHolds
<1>3. QED BY <1>1, <1>2, PTL DEF Spec

(* A write changes the document of the name and id it is answered with.       *)
Own == \A n \in Names, k \in StoredIds : docs'[n][k] # docs[n][k] =>
         answer' = [name |-> n, id |-> k, refused |-> FALSE]

LEMMA WriteIsOwn ==
  ASSUME IInv, NEW n \in Names, NEW id \in Ids, WellFormed(id), NEW cat, NEW v,
         Commits(cat, [docs EXCEPT ![n][KeyOf(id)] = v], n, id)
  PROVE  Own
<1>1. KeyOf(id) = id /\ id \in StoredIds BY KeyIsId
<1>2. Shape(docs) BY DEF IInv, Good
<1>3. CASE Commit(cat, [docs EXCEPT ![n][KeyOf(id)] = v], n, id)
  <2>1. docs' = [docs EXCEPT ![n][id] = v] BY <1>1, <1>3 DEF Commit
  <2>2. answer' = [name |-> n, id |-> id, refused |-> FALSE] BY <1>3 DEF Commit, Answer
  <2>3. \A m \in Names, k \in StoredIds : ~(m = n /\ k = id) => docs'[m][k] = docs[m][k]
    BY <2>1, <1>1, <1>2 DEF Shape
  <2>4. QED BY <2>2, <2>3 DEF Own
<1>4. CASE CommitFails(cat, [docs EXCEPT ![n][KeyOf(id)] = v], n, id)
  BY <1>4 DEF CommitFails, store, Own
<1>5. QED BY <1>3, <1>4 DEF Commits

LEMMA PutIsOwn ==
  ASSUME IInv, NEW n \in Names, NEW id \in Ids, WellFormed(id), NEW doc, Put(n, id, doc)
  PROVE  Own
<1>1. CASE Encodable(doc) BY <1>1, WriteIsOwn DEF Put
<1>2. CASE ~Encodable(doc) BY <1>2 DEF Put, Return, store, Own
<1>3. QED BY <1>1, <1>2

LEMMA StepIsOwn == IInv /\ [Next]_vars => Own \/ answer' = None
<1> SUFFICES ASSUME IInv, [Next]_vars PROVE Own \/ answer' = None OBVIOUS
<1>1. ASSUME NEW h \in DocHandles, NEW id \in Ids, NEW doc \in Docs, DocPut(h, id, doc)
      PROVE  Own
  BY <1>1, HandlesAssumption, PutIsOwn DEF DocPut
<1>2. ASSUME NEW h \in DocHandles, NEW id \in Ids, DocDelete(h, id) PROVE Own
  BY <1>2, HandlesAssumption, WriteIsOwn DEF DocDelete, Remove
<1>3. ASSUME NEW t \in tables, NEW row \in Docs, Insert(t, row) PROVE Own
  <2> DEFINE id == row[t[2].primaryKey]
  <2>1. /\ t[1] \in Names /\ t[2] \in Schemas
        /\ catalog[t[1]] = Relational(t[2])
    BY DEF IInv, HandlesInv
  <2>2. Declarable(t[2]) BY <2>1, EntriesDiffer DEF IInv, Good
  <2>3. id \in Ids BY <1>3, <2>2, ValidRowFits DEF Insert
  <2>4. WellFormed(id) /\ Put(t[1], id, row) BY <1>3 DEF Insert
  <2> HIDE DEF id
  <2>5. QED BY <2>1, <2>3, <2>4, PutIsOwn
<1>4. ASSUME NEW t \in tables, NEW id \in Ids, TableDelete(t, id) PROVE Own
  <2>1. t[1] \in Names BY DEF IInv, HandlesInv
  <2>2. QED BY <1>4, <2>1, WriteIsOwn DEF TableDelete, Remove
<1>5. ASSUME UNCHANGED docs PROVE Own BY <1>5 DEF Own
<1>6. ASSUME NEW n \in Names, NEW schema \in Schemas, Record(n, schema) PROVE UNCHANGED docs
  BY <1>6 DEF Record, Commits, Commit, CommitFails, store
<1>7. QED
  BY <1>1, <1>2, <1>3, <1>4, <1>5, <1>6
  DEF Next, Operate, DocRead, DocRefused, Reuse, TableRefused, InsertRefused, TableDeleteRefused,
      Reopen, Return, store, vars

-----------------------------------------------------------------------------
(* The theorems.                                                           *)

(* Types, and that what is stored is JSON whatever is put.                   *)
THEOREM TypeCorrect == Spec => []TypeOK
<1>1. IInv => TypeOK
  BY HandlesAssumption DEF IInv, Good, Shape, Present, HandlesInv, TypeOK
<1>2. QED BY <1>1, AlwaysHolds, PTL

(* For any schemas and rows, every row of a table fits the table's schema.    *)
THEOREM RowsAlwaysFit == Spec => []RowsFitSchema
<1>1. IInv => RowsFitSchema
  BY DEF IInv, Good, Present, IsTable, RowsFitSchema
<1>2. QED BY <1>1, AlwaysHolds, PTL

(* A handle that stopped looking at the catalog is right to.                 *)
THEOREM MemosAreTrue == Spec => []MemoIsTrue
<1>1. IInv => MemoIsTrue BY DEF IInv, Good, Present, HandlesInv, MemoIsTrue
<1>2. QED BY <1>1, AlwaysHolds, PTL

(* Nothing changes what a name is.                                         *)
THEOREM KindsAreForever == Spec => KindIsForever
<1>1. IInv /\ [Next]_vars => [\A n \in Names : catalog[n] # None => catalog'[n] = catalog[n]]_vars
  BY StepHolds DEF Keeps
<1>2. QED BY <1>1, AlwaysHolds, PTL DEF Spec, KindIsForever

(* Until a reopening, a document changes only by its own name and id.         *)
THEOREM DocumentsAreOwn == Spec => OnlyItsOwn
<1>1. IInv /\ [Next]_vars =>
        [answer' # None =>
           \A n \in Names, k \in StoredIds : docs'[n][k] # docs[n][k] =>
             answer' = [name |-> n, id |-> k, refused |-> FALSE]]_vars
  BY StepIsOwn DEF Own
<1>2. QED BY <1>1, AlwaysHolds, PTL DEF Spec, OnlyItsOwn

-----------------------------------------------------------------------------
(* Beside commands.  Three facts more are needed: what memory holds is what is on  *)
(* disk until a commit fails, so that an operation builds on what a command left;  *)
(* what is on disk loses no entry; and a dump has only what was fit for those.     *)

DumpGood ==
  HasDump =>
    /\ Shape(dump.docs)
    /\ \A n \in Names, k \in StoredIds : Present(dump.docs, n, k) =>
         /\ disk[1][n] # None
         /\ \A c \in DOMAIN dump.docs[n][k] : dump.docs[n][k][c] \in Stored
         /\ disk[1][n] # Document => RowFits(disk[1][n].schema, dump.docs[n][k], k)

CliInv ==
  /\ IInv
  /\ disk = <<disk[1], disk[2]>>
  /\ NobodyBeneath
  /\ DumpGood

(* An operation of a handle goes on from what is on disk, and ends there unless   *)
(* it failed.                                                              *)
LEMMA OperateOnDisk ==
  ASSUME Operate
  PROVE  ~latched /\ (~latched' => store' = disk' \/ UNCHANGED <<store, disk>>)
         /\ (disk' = disk \/ disk' = store \/ \E cat, ds : disk' = <<cat, ds>>)
<1> DEFINE Lands == /\ ~latched' => store' = disk' \/ UNCHANGED <<store, disk>>
                    /\ disk' = disk \/ disk' = store \/ \E cat, ds : disk' = <<cat, ds>>
<1>1. ASSUME NEW cat, NEW ds, NEW n, NEW id, Commits(cat, ds, n, id) PROVE Lands
  BY <1>1 DEF Commits, Commit, CommitFails, store
<1>2. ASSUME NEW n, NEW id, NEW refused, Return(n, id, refused) PROVE Lands
  BY <1>2 DEF Return
<1>3. ASSUME NEW n, NEW id, NEW doc, Put(n, id, doc) PROVE Lands BY <1>3, <1>1, <1>2 DEF Put
<1>4. ASSUME NEW n, NEW id, Remove(n, id) PROVE Lands BY <1>4, <1>1 DEF Remove
<1> HIDE DEF Lands
<1>5. ~latched
  BY DEF Operate, DocPut, DocDelete, DocRead, DocRefused, Record, Reuse, TableRefused,
         Insert, InsertRefused, TableDelete, TableDeleteRefused
<1>6. Lands
  BY <1>1, <1>2, <1>3, <1>4
  DEF Operate, DocPut, DocDelete, DocRead, DocRefused, Record, Reuse, TableRefused,
      Insert, InsertRefused, TableDelete, TableDeleteRefused
<1>7. QED BY <1>5, <1>6 DEF Lands

(* A dump stays good while entries stay.                                    *)
LEMMA DumpStays ==
  ASSUME DumpGood, UNCHANGED dump, Keeps(disk[1], disk'[1])
  PROVE  DumpGood'
<1> SUFFICES ASSUME HasDump' PROVE
      /\ Shape(dump.docs)
      /\ \A n \in Names, k \in StoredIds : Present(dump.docs, n, k) =>
           /\ disk'[1][n] # None
           /\ \A c \in DOMAIN dump.docs[n][k] : dump.docs[n][k][c] \in Stored
           /\ disk'[1][n] # Document => RowFits(disk'[1][n].schema, dump.docs[n][k], k)
  BY DEF DumpGood
<1>1. HasDump BY DEF HasDump
<1>2. QED BY <1>1 DEF DumpGood, Keeps

(* What goes in from a dump over what is on disk is as fit as both.            *)
LEMMA ImportGood ==
  ASSUME CliInv, HasDump
  PROVE  Good(disk[1], DocsOver(dump.docs, disk[2]))
<1> DEFINE new == DocsOver(dump.docs, disk[2])
<1>1. Shape(disk[2]) /\ Shape(dump.docs) BY DEF CliInv, IInv, Good, DumpGood
<1>2. /\ Shape(new)
      /\ \A n \in Names, k \in StoredIds :
           new[n][k] = IF dump.docs[n][k] # None THEN dump.docs[n][k] ELSE disk[2][n][k]
  BY <1>1 DEF Shape, DocsOver, Over
<1> HIDE DEF new
<1>3. ASSUME NEW n \in Names, NEW k \in StoredIds, Present(new, n, k)
      PROVE  /\ disk[1][n] # None
             /\ \A c \in DOMAIN new[n][k] : new[n][k][c] \in Stored
             /\ disk[1][n] # Document => RowFits(disk[1][n].schema, new[n][k], k)
  <2>1. CASE Present(dump.docs, n, k)
    <3>1. new[n][k] = dump.docs[n][k] BY <2>1, <1>2 DEF Present
    <3>2. QED BY <2>1, <3>1 DEF CliInv, DumpGood
  <2>2. CASE ~Present(dump.docs, n, k)
    <3>1. new[n][k] = disk[2][n][k] /\ Present(disk[2], n, k) BY <2>2, <1>2, <1>3 DEF Present
    <3>2. QED BY <3>1 DEF CliInv, IInv, Good
  <2>3. QED BY <2>1, <2>2
<1>4. Good(disk[1], new) BY <1>2, <1>3 DEF CliInv, IInv, Good
<1>5. QED BY <1>4 DEF new

(* What else goes in by its key is not a lens's, and takes nothing away that has    *)
(* to stay.                                                                *)
LEMMA LessIsGood ==
  ASSUME NEW cat, NEW old, NEW new, Good(cat, old), Shape(new),
         \A n \in Names, k \in StoredIds : new[n][k] \in {None, Raw, old[n][k]}
  PROVE  Good(cat, new)
<1>1. \A n \in Names, k \in StoredIds :
        Present(new, n, k) => Present(old, n, k) /\ new[n][k] = old[n][k]
  BY DEF Present
<1>2. QED BY <1>1 DEF Good

LEMMA BeneathGood ==
  ASSUME NEW cat, NEW ds, Good(cat, ds), NEW n \in Names, NEW id \in Ids, WellFormed(id), NEW text
  PROVE  Good(cat, Beneath(ds, n, id, text))
<1> DEFINE v == IF text = None THEN None ELSE Raw
           new == [ds EXCEPT ![n][id] = v]
<1>1. KeyOf(id) = id /\ id \in StoredIds BY KeyIsId
<1>2. Beneath(ds, n, id, text) = new BY <1>1 DEF Beneath
<1>3. Shape(ds) BY DEF Good
<1>4. v \in {None, Raw} OBVIOUS
<1> HIDE DEF v
<1>5. Shape(new) BY <1>1, <1>3 DEF Shape
<1>6. \A m \in Names, k \in StoredIds : new[m][k] \in {None, Raw, ds[m][k]}
  BY <1>1, <1>3, <1>4 DEF Shape
<1> HIDE DEF new
<1>7. QED BY <1>2, <1>5, <1>6, LessIsGood

LEMMA WithRawGood ==
  ASSUME NEW cat, NEW ds, Good(cat, ds), NEW beneath
  PROVE  Good(cat, WithRaw(beneath, ds))
<1>1. Shape(WithRaw(beneath, ds)) BY DEF WithRaw, Shape
<1>2. \A n \in Names, k \in StoredIds : WithRaw(beneath, ds)[n][k] \in {None, Raw, ds[n][k]}
  BY DEF WithRaw
<1>3. QED BY <1>1, <1>2, LessIsGood

(* A command that says something and writes nothing.                          *)
LEMMA SaysHolds ==
  ASSUME CliInv, NEW code, Says(code)
  PROVE  IInv' /\ (disk = <<disk[1], disk[2]>>)' /\ NobodyBeneath' /\ Keeps(catalog, catalog')
         /\ disk' = disk
<1>1. UNCHANGED <<store, disk, latched, checked, tables, plain, plainDisk>> BY DEF Says
<1>2. IInv' /\ Keeps(catalog, catalog')
  <2>1. HandlesInv' BY <1>1 DEF CliInv, IInv, HandlesInv, store
  <2>2. QED BY <1>1, <2>1, SameStore DEF CliInv, IInv
<1>3. QED BY <1>1, <1>2 DEF CliInv, NobodyBeneath, store

LEMMA EndsHolds ==
  ASSUME CliInv, NEW code, Ends(code)
  PROVE  CliInv' /\ Keeps(catalog, catalog')
<1>1. Says(code) /\ UNCHANGED dump BY DEF Ends
<1>2. /\ IInv' /\ (disk = <<disk[1], disk[2]>>)' /\ NobodyBeneath'
      /\ Keeps(catalog, catalog') /\ disk' = disk
  BY <1>1, SaysHolds
<1>3. DumpGood' BY <1>1, <1>2, DumpStays DEF CliInv, Keeps
<1>4. QED BY <1>2, <1>3 DEF CliInv

LEMMA WriteDbHolds ==
  ASSUME CliInv, NEW ds, NEW newPlain, Good(disk[1], ds), WriteDb(ds, newPlain)
  PROVE  CliInv' /\ Keeps(catalog, catalog')
<1>1. CASE running /\ Ends(1) BY <1>1, EndsHolds
<1>2. CASE ~(running /\ Ends(1))
  <2>1. /\ disk' = <<disk[1], ds>> \/ disk' = disk
        /\ Loaded
        /\ UNCHANGED <<latched, checked, tables, running, dump>>
    BY <1>2 DEF WriteDb
  <2>2. /\ disk'[1] = disk[1]
        /\ disk'[2] = ds \/ disk'[2] = disk[2]
        /\ disk' = <<disk'[1], disk'[2]>>
    BY <2>1 DEF CliInv
  <2>3. catalog' = disk[1] /\ docs' = disk'[2] /\ plain' = plainDisk' BY <2>1, <2>2 DEF Loaded
  <2>4. Good(disk'[1], disk'[2]) BY <2>2 DEF CliInv, IInv
  <2>5. Good(catalog', docs') BY <2>2, <2>3, <2>4
  <2>6. Keeps(catalog, catalog') BY <2>3 DEF CliInv, IInv
  <2>7. HandlesInv' BY <2>1, <2>6, HandlesStay DEF CliInv
  <2>8. IInv' BY <2>1, <2>2, <2>3, <2>4, <2>5, <2>7 DEF IInv, CliInv, Keeps
  <2>9. NobodyBeneath' BY <2>2, <2>3 DEF NobodyBeneath, store
  <2>10. DumpGood' BY <2>1, <2>2, DumpStays DEF CliInv, Keeps
  <2>11. QED BY <2>2, <2>6, <2>8, <2>9, <2>10 DEF CliInv
<1>3. QED BY <1>1, <1>2

LEMMA ExportHolds ==
  ASSUME CliInv, Export
  PROVE  CliInv' /\ Keeps(catalog, catalog')
<1>1. CASE Ends(1) BY <1>1, EndsHolds
<1>2. ASSUME NEW code, Says(code), dump' \in {Dump, dump, Torn}
      PROVE  CliInv' /\ Keeps(catalog, catalog')
  <2>1. /\ IInv' /\ (disk = <<disk[1], disk[2]>>)' /\ NobodyBeneath'
        /\ Keeps(catalog, catalog') /\ disk' = disk
    BY <1>2, SaysHolds
  <2>2. DumpGood'
    <3>1. CASE dump' = dump BY <3>1, <2>1, DumpStays DEF CliInv, Keeps
    <3>2. CASE dump' = Torn BY <3>2 DEF DumpGood, HasDump, Torn
    <3>3. CASE dump' = Dump
      <4>1. dump'.docs = disk[2] BY <3>3 DEF Dump
      <4>2. QED BY <4>1, <2>1 DEF DumpGood, CliInv, IInv, Good
    <3>4. QED BY <1>2, <3>1, <3>2, <3>3
  <2>3. QED BY <2>1, <2>2 DEF CliInv
<1>3. QED BY <1>1, <1>2 DEF Export

LEMMA CommandHolds ==
  ASSUME CliInv, Command
  PROVE  CliInv' /\ Keeps(catalog, catalog')
<1> DEFINE Holds == CliInv' /\ Keeps(catalog, catalog')
<1>1. Good(disk[1], disk[2]) BY DEF CliInv, IInv
<1>2. ASSUME NEW k \in Plain, NEW text \in Texts \cup {None}, SetOrDelete(k, text) PROVE Holds
  BY <1>1, <1>2, EndsHolds, WriteDbHolds DEF SetOrDelete
<1>10. ASSUME NEW n \in Names, NEW id \in Ids, NEW text, SetOrDeleteBeneath(n, id, text) PROVE Holds
  BY <1>1, <1>10, EndsHolds, BeneathGood, WriteDbHolds DEF SetOrDeleteBeneath
<1>3. ASSUME NEW n \in Names, SetOrDeleteReserved(n) PROVE Holds
  BY <1>3, EndsHolds DEF SetOrDeleteReserved
<1>4. ASSUME NEW k \in Plain, Get(k) PROVE Holds BY <1>4, EndsHolds DEF Get
<1>5. CASE Inspect BY <1>5, EndsHolds DEF Inspect
<1>6. CASE Export BY <1>6, ExportHolds
<1>7. CASE Import BY <1>7, EndsHolds, ImportGood, WriteDbHolds DEF Import
<1>8. ASSUME NEW file \in Files, ImportFile(file) PROVE Holds
  BY <1>1, <1>8, EndsHolds, WithRawGood, WriteDbHolds DEF ImportFile
<1>9. QED BY <1>2, <1>3, <1>4, <1>5, <1>6, <1>7, <1>8, <1>10 DEF Command

LEMMA CliInitHolds == CliInit => CliInv
<1> SUFFICES ASSUME CliInit PROVE CliInv OBVIOUS
<1>1. IInv BY InitHolds DEF CliInit
<1>2. disk = store BY DEF CliInit, Init
<1>3. disk = <<disk[1], disk[2]>> BY <1>2 DEF store
<1>4. NobodyBeneath BY <1>2 DEF CliInit, NobodyBeneath
<1>5. DumpGood BY DEF CliInit, DumpGood, HasDump
<1>6. QED BY <1>1, <1>3, <1>4, <1>5 DEF CliInv

(* What a commit leaves on disk.                                            *)
LEMMA CommitsDisk ==
  ASSUME NEW cat, NEW ds, NEW n, NEW id, Commits(cat, ds, n, id)
  PROVE  disk' = store \/ disk' = <<cat, ds>>
BY DEF Commits, Commit, CommitFails

LEMMA CliStepHolds == CliInv /\ [CliNext]_allVars => CliInv' /\ Keeps(catalog, catalog')
<1> SUFFICES ASSUME CliInv, [CliNext]_allVars PROVE CliInv' /\ Keeps(catalog, catalog') OBVIOUS
<1>1. IInv /\ DumpGood BY DEF CliInv
<1>2. ASSUME UNCHANGED <<vars, plain, plainDisk, dump>> PROVE CliInv' /\ Keeps(catalog, catalog')
  <2>1. IInv' /\ Keeps(catalog, catalog') BY <1>1, <1>2, StepHolds
  <2>2. disk' = disk /\ store' = store /\ latched' = latched BY <1>2 DEF vars, store
  <2>3. DumpGood' BY <1>1, <1>2, <2>2, DumpStays DEF Keeps
  <2>4. QED BY <1>2, <2>1, <2>2, <2>3 DEF CliInv, NobodyBeneath
<1>3. CASE Start BY <1>2, <1>3 DEF Start
<1>4. CASE Quit
  <2>1. IInv' /\ Keeps(catalog, catalog') BY <1>1, <1>4, StepHolds DEF Quit, Next
  <2>2. /\ catalog' = disk[1] /\ docs' = disk[2] /\ disk' = disk
        /\ plain' = plainDisk' /\ UNCHANGED dump
    BY <1>4 DEF Quit, Reopen
  <2>3. NobodyBeneath' BY <2>2 DEF NobodyBeneath, store, CliInv
  <2>4. DumpGood' BY <1>1, <2>2, DumpStays DEF Keeps
  <2>5. QED BY <2>1, <2>2, <2>3, <2>4 DEF CliInv
<1>5. CASE UseLenses
  <2>1. Operate /\ UNCHANGED <<plain, plainDisk, dump>> BY <1>5 DEF UseLenses
  <2>2. IInv' /\ Keeps(catalog, catalog') BY <1>1, <2>1, StepHolds DEF Next
  <2>3. /\ ~latched /\ (~latched' => store' = disk' \/ UNCHANGED <<store, disk>>)
        /\ disk' = disk \/ disk' = store \/ \E cat, ds : disk' = <<cat, ds>>
    BY <2>1, OperateOnDisk
  <2>4. store = disk /\ plain = plainDisk BY <2>3 DEF CliInv, NobodyBeneath
  <2>5. disk' = <<disk'[1], disk'[2]>> BY <2>3, <2>4 DEF CliInv
  <2>6. NobodyBeneath' BY <2>1, <2>3, <2>4 DEF NobodyBeneath
  <2>7. Keeps(disk[1], disk'[1])
    <3>1. disk[1] = catalog BY <2>4 DEF store
    <3>2. QED BY <3>1, <2>2 DEF IInv, Keeps
  <2>8. DumpGood' BY <1>1, <2>1, <2>7, DumpStays
  <2>9. QED BY <2>2, <2>5, <2>6, <2>8 DEF CliInv
<1>6. ASSUME NEW k \in Plain \cup Opaque, NEW text \in Texts \cup {None}, KvWrite(k, text)
      PROVE  CliInv' /\ Keeps(catalog, catalog')
  <2>1. /\ UNCHANGED <<store, disk, checked, tables, dump>>
        /\ ~latched
        /\ latched' = TRUE \/ (latched' = latched /\ (plain' = plainDisk' \/ UNCHANGED <<plain, plainDisk>>))
    BY <1>6 DEF KvWrite
  <2>2. HandlesInv' /\ Keeps(catalog, catalog') BY <2>1 DEF CliInv, IInv, HandlesInv, store, Keeps
  <2>3. latched' \in BOOLEAN BY <2>1 DEF CliInv, IInv
  <2>4. IInv' BY <2>1, <2>2, <2>3 DEF CliInv, IInv, store
  <2>5. NobodyBeneath' BY <2>1 DEF CliInv, NobodyBeneath
  <2>6. DumpGood' BY <1>1, <2>1, DumpStays DEF Keeps
  <2>7. QED BY <2>1, <2>2, <2>4, <2>5, <2>6 DEF CliInv
<1>7. CASE Command BY <1>7, CommandHolds
<1>8. CASE UNCHANGED allVars BY <1>2, <1>8 DEF allVars, cliVars
<1>10. ASSUME NEW n \in Names, NEW id \in Ids, NEW text, KvWriteBeneath(n, id, text)
       PROVE  CliInv' /\ Keeps(catalog, catalog')
  <2>1. UNCHANGED <<checked, tables, running, plain, plainDisk, dump>> /\ ~latched
    BY <1>10 DEF KvWriteBeneath
  <2>2. store = disk /\ plain = plainDisk /\ Good(catalog, docs)
    BY <2>1 DEF CliInv, NobodyBeneath, IInv
  <2>3. CASE Return(n, id, TRUE)
    <3>1. UNCHANGED <<store, disk, latched>> BY <2>3 DEF Return
    <3>2. /\ Good(catalog, docs)' /\ Good(disk[1], disk[2])' /\ Keeps(catalog, disk[1])'
          /\ Keeps(catalog, catalog') /\ latched' \in BOOLEAN
      BY <1>1, <3>1, SameStore
    <3>3. HandlesInv' BY <1>1, <2>1, <3>2, HandlesStay
    <3>4. DumpGood' BY <1>1, <2>1, <3>1, DumpStays DEF Keeps
    <3>5. QED BY <2>1, <3>1, <3>2, <3>3, <3>4 DEF CliInv, IInv, NobodyBeneath
  <2>4. CASE WellFormed(id) /\ Commits(catalog, Beneath(docs, n, id, text), n, id)
    <3>1. Good(catalog, Beneath(docs, n, id, text)) BY <2>2, <2>4, BeneathGood
    <3>2. /\ Good(catalog, docs)' /\ Good(disk[1], disk[2])' /\ Keeps(catalog, disk[1])'
          /\ Keeps(catalog, catalog') /\ latched' \in BOOLEAN
      BY <1>1, <2>4, <3>1, CommitsGood DEF Keeps
    <3>3. HandlesInv' BY <1>1, <2>1, <3>2, HandlesStay
    <3>4. /\ disk' = <<disk'[1], disk'[2]>> /\ disk'[1] = disk[1]
          /\ ~latched' => store' = disk'
      <4> DEFINE ds == Beneath(docs, n, id, text)
      <4>1. Commits(catalog, ds, n, id) BY <2>4
      <4> HIDE DEF ds
      <4>2. disk' = store \/ disk' = <<catalog, ds>> BY <4>1, CommitsDisk
      <4>3. disk'[1] = catalog /\ disk' = <<disk'[1], disk'[2]>> BY <4>2 DEF store
      <4>4. disk[1] = catalog BY <2>2 DEF store
      <4>5. ~latched' => store' = disk' BY <4>1 DEF Commits, Commit, CommitFails, store
      <4>6. QED BY <4>3, <4>4, <4>5
    <3>5. DumpGood' BY <1>1, <2>1, <3>4, DumpStays DEF Keeps
    <3>6. QED BY <2>1, <2>2, <3>2, <3>3, <3>4, <3>5 DEF CliInv, IInv, NobodyBeneath
  <2>5. QED BY <1>10, <2>3, <2>4 DEF KvWriteBeneath
<1>9. QED BY <1>3, <1>4, <1>5, <1>6, <1>7, <1>8, <1>10 DEF CliNext

LEMMA CliAlwaysHolds == CliSpec => []CliInv
<1>1. CliInit => CliInv BY CliInitHolds
<1>2. CliInv /\ [CliNext]_allVars => CliInv' BY CliStepHolds
<1>3. QED BY <1>1, <1>2, PTL DEF CliSpec

(* What the lenses promise they keep beside any commands, loads of old dumps      *)
(* among them: rows fit their schema, and memos are true.                       *)
THEOREM LensesKeepBesideCommands == CliSpec => [](TypeOK /\ RowsFitSchema /\ MemoIsTrue)
<1>1. IInv => TypeOK
  BY HandlesAssumption DEF IInv, Good, Shape, Present, HandlesInv, TypeOK
<1>2. IInv => RowsFitSchema BY DEF IInv, Good, Present, IsTable, RowsFitSchema
<1>3. IInv => MemoIsTrue BY DEF IInv, Good, Present, HandlesInv, MemoIsTrue
<1>4. CliInv => TypeOK /\ RowsFitSchema /\ MemoIsTrue BY <1>1, <1>2, <1>3 DEF CliInv
<1>5. QED BY <1>4, CliAlwaysHolds, PTL

(* No command is at the file beneath an application that has it open.           *)
THEOREM NobodyIsBeneath == CliSpec => []NobodyBeneath
<1>1. CliInv => NobodyBeneath BY DEF CliInv
<1>2. QED BY <1>1, CliAlwaysHolds, PTL

(* A dump fits what the catalog says whenever it goes back.                    *)
THEOREM DumpsAlwaysFit == CliSpec => []DumpFits
<1>1. CliInv => DumpFits
  <2> SUFFICES ASSUME CliInv, HasDump, NEW n \in Names, NEW k \in StoredIds,
                      dump.docs[n][k] \notin {None, Raw}
               PROVE  /\ n \in DOMAIN Registry
                      /\ Registry[n] = "relational" => RowFits(disk[1][n].schema, dump.docs[n][k], k)
    BY DEF DumpFits
  <2>1. /\ disk[1][n] # None
        /\ disk[1][n] # Document => RowFits(disk[1][n].schema, dump.docs[n][k], k)
    BY DEF CliInv, DumpGood, Present
  <2>2. n \in DOMAIN Registry /\ Registry[n] = disk[1][n].kind BY <2>1 DEF Registry
  <2>3. Document.kind = "document" BY DEF Document
  <2>4. QED BY <2>1, <2>2, <2>3
<1>2. QED BY <1>1, CliAlwaysHolds, PTL

(* No command changes what a name is.                                       *)
THEOREM KindsAreForeverBesideCommands == CliSpec => KindIsForever
<1>1. CliInv /\ [CliNext]_allVars => [\A n \in Names : catalog[n] # None => catalog'[n] = catalog[n]]_vars
  BY CliStepHolds DEF Keeps
<1>2. QED BY <1>1, CliAlwaysHolds, PTL DEF CliSpec, KindIsForever

(* No command and no opening changes a document in a way an operation would have   *)
(* to answer for.                                                          *)
THEOREM DocumentsAreOwnBesideCommands == CliSpec => OnlyItsOwn
<1> DEFINE A == answer' # None =>
                  \A n \in Names, k \in StoredIds : docs'[n][k] # docs[n][k] =>
                    answer' = [name |-> n, id |-> k, refused |-> FALSE]
<1>1. CliInv /\ [CliNext]_allVars => [A]_vars
  <2> SUFFICES ASSUME CliInv, [CliNext]_allVars PROVE [A]_vars OBVIOUS
  <2>1. ASSUME answer' = None PROVE A BY <2>1
  <2>2. CASE UseLenses
    <3>1. IInv /\ [Next]_vars BY <2>2 DEF UseLenses, Next, CliInv
    <3>2. Own \/ answer' = None BY <3>1, StepIsOwn
    <3>3. QED BY <3>2 DEF Own
  <2>3. CASE Command
    <3>1. ASSUME NEW code, Ends(code) PROVE answer' = None BY <3>1 DEF Ends, Says
    <3>2. ASSUME NEW ds, NEW newPlain, WriteDb(ds, newPlain) PROVE answer' = None
      BY <3>1, <3>2 DEF WriteDb, Loaded
    <3>3. Export => answer' = None BY <3>1 DEF Export, Says
    <3>4. answer' = None
      BY <2>3, <3>1, <3>2, <3>3
      DEF Command, SetOrDelete, SetOrDeleteBeneath, SetOrDeleteReserved, Get, Inspect, Import,
          ImportFile
    <3>5. QED BY <3>4, <2>1
  <2>4. CASE Start \/ UNCHANGED allVars BY <2>4 DEF Start, allVars
  <2>5. CASE Quit BY <2>5, <2>1 DEF Quit, Reopen
  <2>6. ASSUME NEW k, NEW text, KvWrite(k, text) PROVE A BY <2>6, <2>1 DEF KvWrite
  <2>8. ASSUME NEW n \in Names, NEW id \in Ids, NEW text, KvWriteBeneath(n, id, text) PROVE A
    <3>1. CASE Return(n, id, TRUE) BY <3>1 DEF Return, store
    <3>2. CASE WellFormed(id) /\ Commits(catalog, Beneath(docs, n, id, text), n, id)
      <4>1. Own BY <3>2, WriteIsOwn DEF Beneath, CliInv
      <4>2. QED BY <4>1 DEF Own
    <3>3. QED BY <2>8, <3>1, <3>2 DEF KvWriteBeneath
  <2>7. QED BY <2>2, <2>3, <2>4, <2>5, <2>6, <2>8 DEF CliNext
<1>2. QED BY <1>1, CliAlwaysHolds, PTL DEF CliSpec, OnlyItsOwn

(* A name becomes a collection on disk with a document in it.                *)
Registers == \A n \in Names : disk[1][n] # Document /\ disk'[1][n] = Document =>
               \E k \in StoredIds : Present(disk'[2], n, k)

LEMMA PutRegisters ==
  ASSUME CliInv, store = disk, NEW n \in Names, NEW id \in Ids, WellFormed(id),
         NEW doc \in Docs, Put(n, id, doc)
  PROVE  Registers
<1> DEFINE new == [docs EXCEPT ![n][KeyOf(id)] = EncodeDoc(doc)]
<1>1. disk[1] = catalog BY DEF store
<1>2. CASE Encodable(doc)
  <2>1. disk' = store \/ disk' = <<RecordDocument(n), new>> BY <1>2, CommitsDisk DEF Put
  <2>2. CASE disk' = store BY <2>2 DEF Registers
  <2>3. CASE disk' = <<RecordDocument(n), new>>
    <3>1. KeyOf(id) = id /\ id \in StoredIds BY KeyIsId
    <3>2. Shape(docs) BY DEF CliInv, IInv, Good
    <3>3. new[n][id] = EncodeDoc(doc) BY <3>1, <3>2 DEF Shape
    <3>4. Present(disk'[2], n, id) BY <2>3, <3>3, RawAssumption DEF Present
    <3>5. \A m \in Names : m # n => RecordDocument(n)[m] = catalog[m]
      BY RecordGood DEF CliInv, IInv, Good
    <3>6. \A m \in Names : m # n => disk'[1][m] = disk[1][m] BY <1>1, <2>3, <3>5
    <3>7. QED BY <3>1, <3>4, <3>6 DEF Registers
  <2>4. QED BY <2>1, <2>2, <2>3
<1>3. CASE ~Encodable(doc) BY <1>3 DEF Put, Return, Registers
<1>4. QED BY <1>2, <1>3

LEMMA OperateRegisters ==
  ASSUME CliInv, Operate
  PROVE  Registers
<1>1. store = disk BY OperateOnDisk DEF CliInv, NobodyBeneath
<1>2. disk[1] = catalog BY <1>1 DEF store
<1>3. ASSUME disk'[1] = disk[1] PROVE Registers BY <1>3 DEF Registers
<1>4. ASSUME NEW n, NEW id, NEW refused, Return(n, id, refused) PROVE Registers
  BY <1>3, <1>4 DEF Return
<1>5. ASSUME NEW n, NEW id, Remove(n, id) PROVE Registers
  <2>1. disk' = store \/ disk'[1] = catalog BY <1>5, CommitsDisk DEF Remove
  <2>2. QED BY <1>1, <1>2, <1>3, <2>1
<1>6. ASSUME NEW h \in DocHandles, NEW id \in Ids, NEW doc \in Docs, DocPut(h, id, doc)
      PROVE  Registers
  BY <1>1, <1>6, PutRegisters, HandlesAssumption DEF DocPut
<1>7. ASSUME NEW t \in tables, NEW row \in Docs, Insert(t, row) PROVE Registers
  <2> DEFINE id == row[t[2].primaryKey]
  <2>1. /\ t[1] \in Names /\ t[2] \in Schemas
        /\ catalog[t[1]] = Relational(t[2])
    BY DEF CliInv, IInv, HandlesInv
  <2>2. Declarable(t[2]) BY <2>1, EntriesDiffer DEF CliInv, IInv, Good
  <2>3. id \in Ids BY <1>7, <2>2, ValidRowFits DEF Insert
  <2>4. WellFormed(id) /\ Put(t[1], id, row) BY <1>7 DEF Insert
  <2> HIDE DEF id
  <2>5. QED BY <1>1, <2>1, <2>3, <2>4, PutRegisters
<1>8. ASSUME NEW n \in Names, NEW schema \in Schemas, Record(n, schema) PROVE Registers
  <2> DEFINE cat == [catalog EXCEPT ![n] = Relational(schema)]
  <2>1. disk' = store \/ disk' = <<cat, docs>> BY <1>8, CommitsDisk DEF Record
  <2>2. \A m \in Names : cat[m] = catalog[m] \/ cat[m] = Relational(schema)
    BY DEF CliInv, IInv, Good
  <2>3. CASE disk' = <<cat, docs>> BY <1>2, <2>2, <2>3, EntriesDiffer DEF Registers
  <2>4. QED BY <1>1, <1>3, <2>1, <2>3
<1>9. QED
  BY <1>4, <1>5, <1>6, <1>7, <1>8
  DEF Operate, DocDelete, DocRead, DocRefused, Reuse, TableRefused, InsertRefused, TableDelete,
      TableDeleteRefused

LEMMA StepRegisters == CliInv /\ [CliNext]_allVars => Registers
<1> SUFFICES ASSUME CliInv, [CliNext]_allVars PROVE Registers OBVIOUS
<1>1. ASSUME disk'[1] = disk[1] PROVE Registers BY <1>1 DEF Registers
<1>2. CASE UseLenses BY <1>2, OperateRegisters DEF UseLenses
<1>3. ASSUME NEW code, Ends(code) PROVE disk' = disk BY <1>3 DEF Ends, Says
<1>4. ASSUME NEW ds, NEW newPlain, WriteDb(ds, newPlain) PROVE disk'[1] = disk[1]
  BY <1>3, <1>4 DEF WriteDb
<1>5. CASE Command
  <2>1. Export => disk' = disk BY <1>3 DEF Export, Says
  <2>2. disk'[1] = disk[1]
    BY <1>3, <1>4, <1>5, <2>1
    DEF Command, SetOrDelete, SetOrDeleteBeneath, SetOrDeleteReserved, Get, Inspect, Import, ImportFile
  <2>3. QED BY <1>1, <2>2
<1>6. ASSUME NEW n, NEW id, NEW text, KvWriteBeneath(n, id, text) PROVE Registers
  <2>1. store = disk BY <1>6 DEF KvWriteBeneath, CliInv, NobodyBeneath
  <2>2. disk' = disk \/ disk' = store \/ disk'[1] = catalog
    <3> DEFINE ds == Beneath(docs, n, id, text)
    <3>1. Commits(catalog, ds, n, id) \/ Return(n, id, TRUE) BY <1>6 DEF KvWriteBeneath
    <3> HIDE DEF ds
    <3>2. ASSUME Commits(catalog, ds, n, id) PROVE disk' = store \/ disk' = <<catalog, ds>>
      BY <3>2, CommitsDisk
    <3>3. Return(n, id, TRUE) => disk' = disk BY DEF Return
    <3>4. disk' = <<catalog, ds>> => disk'[1] = catalog OBVIOUS
    <3>5. QED BY <3>1, <3>2, <3>3, <3>4
  <2>3. QED BY <1>1, <2>1, <2>2 DEF store
<1>7. CASE Start \/ Quit \/ UNCHANGED allVars BY <1>1, <1>7 DEF Start, Quit, Reopen, allVars, vars
<1>8. ASSUME NEW k, NEW text, KvWrite(k, text) PROVE Registers BY <1>1, <1>8 DEF KvWrite
<1>9. QED BY <1>2, <1>5, <1>6, <1>7, <1>8 DEF CliNext

(* Whatever commits fail or are cut short, whatever cannot be encoded and whatever   *)
(* commands do, a name is registered as a collection only with its first document. *)
THEOREM NamesComeWithDocuments == CliSpec => RegisteredWithDocument
<1>1. CliInv /\ [CliNext]_allVars =>
        [\A n \in Names : disk[1][n] # Document /\ disk'[1][n] = Document =>
           \E k \in StoredIds : disk'[2][n][k] \notin {None, Raw}]_vars
  BY StepRegisters DEF Registers, Present
<1>2. QED BY <1>1, CliAlwaysHolds, PTL DEF CliSpec, RegisteredWithDocument
=============================================================================
