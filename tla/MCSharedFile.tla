----------------------------- MODULE MCSharedFile -----------------------------
(* Instances of SharedFile for TLC.                                         *)
EXTENDS SharedFile, TLC

CONSTANTS k1, v1

MCKeys == {k1}
MCValues == {v1}
SetOp(k, v) == [key |-> k, val |-> v]
MCLegacyJournals == {<<SetOp(k1, v1)>>}
NoFiles == {}
NoJournals == {}

-----------------------------------------------------------------------------
(* What the documents say that the model refutes.                          *)

(* ARCHITECTURE.md:745-747: the adapter "fsyncs the parent directory when it  *)
(* creates the database file, so a power loss can no longer lose the directory *)
(* entry of a freshly created database".                                    *)
EntryIsDurable == Undamaged /\ acked > 0 => entry = "durable"
=============================================================================
