------------------------------- MODULE MCKernel -------------------------------
(* Instances of Kernel for TLC.                                            *)
EXTENDS Kernel, TLC

CONSTANTS k1, k2, v1, v2

MCKeys1 == {k1}
MCValues1 == {v1}
MCValues2 == {v1, v2}

SetOp(k, v) == [key |-> k, val |-> v]

(* What a v0.1.x file may hold: one record of one or two operations.        *)
MCLegacyJournals == {<<SetOp(k1, v1)>>, <<SetOp(k1, v1), SetOp(k1, None)>>}
NoJournals == {}

(* Files that are not databases.  In order: zero-filled (whose first bytes   *)
(* parse as an empty v0.1.x record), text, a tiny file that begins like one  *)
(* of ours, a newer format version, text behind our magic, a v0.1.x record   *)
(* whose payload is sound but is no operation, and one that promises more    *)
(* than there is.                                                          *)
MCForeignFiles ==
  { <<U32(0), U32(0), U32(0)>>,
    <<Junk, Junk, Junk>>,
    <<Magic>>,
    <<Magic, Version(2), Junk>>,
    <<Magic, Junk, Junk>>,
    <<U32(1), Sum(<<Junk>>), Junk>>,
    <<U32(4), Sum(<<Junk>>), Junk>> }
NoFiles == {}

-----------------------------------------------------------------------------
(* What the code says that the model refutes.                              *)

(* core.ts:416-418: a transaction is "fsync'd BEFORE the commit becomes     *)
(* visible".  Whatever an open database shows is out of a crash's reach.    *)
VisibleIsDurable == pc = "idle" /\ ~failed => recs = << >> \/ EndOf(Len(recs)) =< file.low
=============================================================================
