------------------------------- MODULE WalFile -------------------------------
(***************************************************************************)
(* The file behind a WalFile handle and what a crash may do to it.          *)
(*                                                                         *)
(* The durability model is the one src/sim/simfs.ts spells out: fsync'd     *)
(* bytes survive a crash, of the bytes appended since then a crash keeps a  *)
(* prefix.  simfs makes a truncation durable at once; here, as on a real    *)
(* disk, it is durable only after the next fsync, so until then a crash may *)
(* also leave the file as it was before the truncation.                    *)
(*                                                                         *)
(*   data    what a read returns now                                       *)
(*   synced  what the file held at the last fsync                          *)
(*   low     the shortest the file has been since then: the first low cells *)
(*           of data and of synced agree and survive every crash           *)
(***************************************************************************)
EXTENDS Integers, Sequences

AtRest(cells) == [data |-> cells, synced |-> cells, low |-> Len(cells)]

Appended(f, cells) == [f EXCEPT !.data = @ \o cells]

Fsynced(f) == AtRest(f.data)

Truncated(f, length) ==
  [f EXCEPT !.data = SubSeq(@, 1, length), !.low = IF length < @ THEN length ELSE @]

(* The first n cells of the current contents, or of the contents as of the  *)
(* last fsync, can be what a power loss leaves.                             *)
TornAt(f, n) == AtRest(SubSeq(f.data, 1, n))
RevertedTo(f, n) == AtRest(SubSeq(f.synced, 1, n))

(* Bit rot: the i-th cell of the durable contents turned into cell.         *)
Rotted(f, i, cell) == [f EXCEPT !.data[i] = cell, !.synced[i] = cell]
=============================================================================
