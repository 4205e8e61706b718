---------------------------- MODULE MCCommandLine ----------------------------
(* An instance of CommandLine for TLC.                                      *)
EXTENDS CommandLine, TLC

CONSTANTS name, h1, h2, fine, lone, fffd, date, invalid, mute, key, low, malformed

MCNames == {name}
MCIds == {fine, lone, fffd}
MCNameOf == [h \in {h1, h2} |-> name]

Schema(pk, type) == [primaryKey |-> pk, columns |-> [id |-> "string", data |-> type]]

(* The last one's key is not a string.                                      *)
MCSchemas == {Schema("id", "number"), Schema("id", "object"), Schema("data", "number")}

(* Rows of either schema, and others that miss a column or hold a value that is  *)
(* none; under an id that is no text too.                                   *)
MCDocs ==
  {[id |-> i, data |-> "number"] : i \in {fine, lone}}
    \cup {[id |-> fine, data |-> v] : v \in {"nan", "undefined", "cyclic", date, invalid, mute}}

(* A date, an invalid one, and an object whose toJSON() returns nothing.       *)
MCToJSON ==
  [i \in {date, invalid, mute} |->
     CASE i = date -> fine [] i = invalid -> "null" [] i = mute -> "undefined"]

(* Files for import: sound, ill-formed, and no object of strings.             *)
File(text, ids) == [plain |-> [k \in {key} |-> text], beneath |-> {<<name, i>> : i \in ids}]
MCFiles == {File(fine, {fffd}), File(lone, {}), File(fine, {lone}), malformed}

(* The handles are alike.                                                 *)
Alike == Permutations({h1, h2})

(* No step depends on answer or exit, and a property on their new values only.  *)
Situation == <<store, disk, latched, checked, tables, running, plain, plainDisk, dump>>
=============================================================================
