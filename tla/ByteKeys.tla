------------------------------- MODULE ByteKeys -------------------------------
(***************************************************************************)
(* The keys of the kernel and how the lenses divide them: the byte order     *)
(* (src/core.ts, compareKeys), the range of a prefix (src/query/range.ts)    *)
(* and the namespaces (src/lens/document.ts, keyOf; src/lens/catalog.ts).    *)
(*                                                                         *)
(* A key is a sequence of bytes.  Names and ids are taken after their UTF-8   *)
(* encoding, which writes a colon and U+0000, and nothing else, as the bytes  *)
(* Colon and Marker.                                                       *)
(***************************************************************************)
EXTENDS Integers, SequencesExt

CONSTANTS
  MaxByte,     \* the greatest byte: 0xFF
  Colon,       \* ":"
  CatalogTail  \* "libredb:catalog:"

ASSUME MaxByteAssumption == MaxByte \in Nat \ {0}

Byte == 0 .. MaxByte
Key == Seq(Byte)

Marker == 0

ASSUME ColonAssumption == Colon \in Byte \ {Marker, MaxByte}
ASSUME CatalogAssumption == CatalogTail \in Key

-----------------------------------------------------------------------------
(* Order.                                                                  *)

(* The first byte that differs decides, and the length if there is none.     *)
Differences(a, b) == {i \in DOMAIN a \cap DOMAIN b : a[i] # b[i]}

CompareKeys(a, b) ==
  IF Differences(a, b) = {}
  THEN Len(a) - Len(b)
  ELSE a[Min(Differences(a, b))] - b[Min(Differences(a, b))]

Before(a, b) == CompareKeys(a, b) < 0

-----------------------------------------------------------------------------
(* Ranges.                                                                 *)

(* A range is half open.                                                   *)
InRange(k, range) == CompareKeys(k, range.start) >= 0 /\ CompareKeys(k, range.end) < 0

(* Mutant: the bound keeps the greatest bytes and counts the last one up,     *)
(* as a Uint8Array does, from 0xFF to 0.                                   *)
UpperBound_KeepsMaxBytes(p) == [p EXCEPT ![Len(p)] = (@ + 1) % (MaxByte + 1)]

(* upperBound(): without the greatest bytes it ends in, its last counted up. *)
Kept(p) == SelectLastInSeq(p, LAMBDA byte : byte # MaxByte)
UpperBound(p) == [SubSeq(p, 1, Kept(p)) EXCEPT ![Kept(p)] = @ + 1]

HasUpperBound(p) == Kept(p) > 0
PrefixRange(p) == [start |-> p, end |-> UpperBound(p)]

-----------------------------------------------------------------------------
(* Namespaces.                                                             *)

(* assertUserName(): the names it lets pass.                               *)
UserName(name) ==
  /\ name # << >>
  /\ name[1] # Marker
  /\ \A i \in DOMAIN name : name[i] # Colon

(* The document or row of that id; all of a collection's.                  *)
CollectionPrefix(name) == name \o <<Colon>>
KeyOf(name, id) == CollectionPrefix(name) \o id
CollectionRange(name) == PrefixRange(CollectionPrefix(name))

CatalogPrefix == <<Marker>> \o CatalogTail
CatalogKey(name) == CatalogPrefix \o name
CatalogRange == PrefixRange(CatalogPrefix)
=============================================================================
