---------------------------- MODULE MCTransactions ----------------------------
(* Instances of Transactions for TLC.                                       *)
EXTENDS Transactions

CONSTANTS k1, k2, v1

MCKeys == {k1, k2}
MCValues == {v1}
MCKeyOrder == <<k1, k2>>

(* Claim of core.ts:103-104: "Every read and write happens inside a           *)
(* transaction", and of core.ts:364-365: "no caller mutation can ever reach   *)
(* the committed store or desynchronize memory from disk."                   *)
OnlyTransactionsWrite == durable /\ ~closed /\ ~failed => heap[committed] = disk
=============================================================================
