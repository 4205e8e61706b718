------------------------------ MODULE MCLockFile ------------------------------
(* Instances of LockFile for TLC.                                          *)
EXTENDS LockFile

CONSTANTS p1, p2, p3

TwoProcs == {p1, p2}
ThreeProcs == {p1, p2, p3}

Nowhere == {}
Anywhere == {"create", "write", "check", "claim", "judge", "remove", "putback", "force", "holding"}
=============================================================================
