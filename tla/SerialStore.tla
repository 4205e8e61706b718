----------------------------- MODULE SerialStore -----------------------------
(***************************************************************************)
(* What an open database promises the bodies of its transactions (src/core.ts, *)
(* Transaction and Database): they run one after another, each on the whole  *)
(* store, all or nothing.                                                  *)
(***************************************************************************)
EXTENDS WalFormat

VARIABLES
  durable,  \* is there a file?
  closed,
  store,    \* the committed store
  pending,  \* the store as the running body sees it, or None
  inDoubt,  \* after a failed commit, what the next open will find, or None
  answer    \* what the last call returned or threw

vars == <<durable, closed, store, pending, inDoubt, answer>>

Idle == ~closed /\ pending = None /\ inDoubt = None

Init ==
  /\ durable \in BOOLEAN
  /\ closed = FALSE
  /\ store = EmptyStore
  /\ pending = None
  /\ inDoubt = None
  /\ answer = None

(* Every error has its reason.                                             *)
Refuse ==
  /\ \/ closed /\ answer' = "CLOSED"
     \/ inDoubt # None /\ answer' = "FAILED"
     \/ pending # None /\ answer' \in {"NESTED_TRANSACTION", "CLOSE_IN_TRANSACTION"}
     \/ closed /\ answer' = None
  /\ UNCHANGED <<durable, closed, store, pending, inDoubt>>

Begin ==
  /\ Idle
  /\ pending' = store
  /\ answer' = None
  /\ UNCHANGED <<durable, closed, store, inDoubt>>

Get ==
  /\ pending # None
  /\ \E k \in Keys : answer' = pending[k]
  /\ UNCHANGED <<durable, closed, store, pending, inDoubt>>

Write ==
  /\ pending # None
  /\ \E op \in Op : pending' = ApplyOp(pending, op)
  /\ answer' = None
  /\ UNCHANGED <<durable, closed, store, inDoubt>>

Abort ==
  /\ pending # None
  /\ pending' = None
  /\ answer' \in {"thrown", "ASYNC_TRANSACTION"}
  /\ UNCHANGED <<durable, closed, store, inDoubt>>

Commit ==
  /\ pending # None
  /\ store' = pending
  /\ pending' = None
  /\ answer' = "committed"
  /\ UNCHANGED <<durable, closed, inDoubt>>

CommitFails ==
  /\ durable
  /\ pending # None
  /\ inDoubt' \in {store, pending}
  /\ pending' = None
  /\ answer' = "FAILED"
  /\ UNCHANGED <<durable, closed, store>>

Close ==
  /\ ~closed
  /\ pending = None
  /\ closed' = TRUE
  /\ store' = IF ~durable THEN EmptyStore ELSE IF inDoubt # None THEN inDoubt ELSE store
  /\ inDoubt' = None
  /\ answer' \in {None, "thrown"}
  /\ UNCHANGED <<durable, pending>>

Open ==
  /\ closed
  /\ closed' = FALSE
  /\ answer' = None
  /\ UNCHANGED <<durable, store, pending, inDoubt>>

Next ==
  Refuse \/ Begin \/ Get \/ Write \/ Abort \/ Commit \/ CommitFails \/ Close \/ Open

Spec == Init /\ [][Next]_vars
=============================================================================
