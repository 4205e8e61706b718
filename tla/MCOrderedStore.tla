---------------------------- MODULE MCOrderedStore ----------------------------
(* Instances of OrderedStore for TLC.                                       *)
EXTENDS OrderedStore

CONSTANTS v1, v2

(* Bytes 0, 1, and 2 for 0xFF; keys of at most two bytes.                    *)
MCKeys == { <<0>>, <<0, 2>>, <<1>>, <<1, 0>>, <<1, 2>>, <<2>>, <<2, 2>> }
MCValues == {v1, v2}
MCCatalogTail == << >>
=============================================================================
