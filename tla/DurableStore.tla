----------------------------- MODULE DurableStore -----------------------------
(***************************************************************************)
(* What a durable database promises its callers, with no file in sight: a   *)
(* chain of store states, one per transaction that reached the log, of      *)
(* which the first acked were reported committed.                          *)
(*                                                                         *)
(* A commit enters the chain before it is visible; it becomes visible when   *)
(* it is acknowledged, or by a reopen.  A power loss drops a suffix of the   *)
(* chain that was never acknowledged, even one a reopen had made visible.    *)
(***************************************************************************)
EXTENDS Integers, Sequences

CONSTANTS States, Empty

VARIABLES
  view,   \* << >> while closed, else the one-element sequence of the visible state
  chain,  \* the states the log holds, oldest first
  acked   \* how many of them were acknowledged

vars == <<view, chain, acked>>

Current == IF chain = << >> THEN Empty ELSE chain[Len(chain)]

Init ==
  /\ view = << >>
  /\ \/ chain = << >>
     \/ \E s \in States : chain = <<s>>
  /\ acked = Len(chain)

Open ==
  /\ view = << >>
  /\ view' = <<Current>>
  /\ UNCHANGED <<chain, acked>>

(* A transaction's record reaches the log.  Only an instance whose visible  *)
(* state is the log's latest may do this.                                  *)
Log(s) ==
  /\ view = <<Current>>
  /\ chain' = Append(chain, s)
  /\ UNCHANGED <<view, acked>>

Acknowledge ==
  /\ view # << >>
  /\ chain # << >>
  /\ view' = <<Current>>
  /\ acked' = Len(chain)
  /\ UNCHANGED chain

Close ==
  /\ view' = << >>
  /\ UNCHANGED <<chain, acked>>

PowerLoss ==
  /\ view' = << >>
  /\ \E n \in acked .. Len(chain) : chain' = SubSeq(chain, 1, n)
  /\ UNCHANGED acked

Next == Open \/ (\E s \in States : Log(s)) \/ Acknowledge \/ Close \/ PowerLoss

Spec == Init /\ [][Next]_vars
=============================================================================
