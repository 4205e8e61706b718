---------------------------- MODULE LockFileProofs ----------------------------
(* Proofs about LockFile, for any number of processes.                      *)
EXTENDS LockFile, TLAPS

(* A process past its first call of lock() has a nonce to its name.         *)
TypeInv ==
  /\ TypeOK
  /\ \A p \in Procs : pc[p] \notin {"idle", "dead"} \/ result[p] = "acquired" =>
                       nonce[p] \in 1 .. MaxCalls
  /\ \A p \in Procs : pc[p] \in {"judge", "remove", "putback"} => claim[p] \in File

LEMMA MineType ==
  ASSUME TypeInv, NEW p \in Procs, pc[p] \notin {"idle", "dead"} \/ result[p] = "acquired"
  PROVE  Mine(p) \in File
  BY DEF TypeInv, Mine, File

LEMMA InitTypeInv == Init => TypeInv
  <1> SUFFICES ASSUME Init PROVE TypeInv
    OBVIOUS
  <1>1. lock \in File \cup {NoFile} /\ content \in [File -> {"owner", "anonymous", "foreign"}]
    BY LeftoversAssumption DEF Init, File
  <1>2. stray \in BOOLEAN
    BY DEF Init
  <1> QED
    BY <1>1, <1>2, CallsAssumption DEF Init, TypeInv, TypeOK

LEMMA NoFileApart ==
  ASSUME TypeInv
  PROVE  NoFile \notin File /\ \A p \in Procs : Mine(p) # NoFile
  BY FileAssumption, ProcsAssumption, CallsAssumption DEF TypeInv, TypeOK, Mine, File, Leftover

LEMMA NonceType ==
  ASSUME NEW p \in Procs, FreshNonces(p) # {}
  PROVE  NewNonce(p) \in 1 .. MaxCalls /\ lock # [proc |-> p, nonce |-> NewNonce(p)]
  <1>1. NewNonce(p) \in FreshNonces(p)
    BY DEF NewNonce
  <1> QED
    BY <1>1 DEF FreshNonces

LEMMA EndsType ==
  ASSUME TypeInv, NEW p \in Procs, Ends(p)
  PROVE  /\ purpose' \in [Procs -> {"reclaim", "release", "force"}] /\ purpose'[p] = "reclaim"
         /\ attempt' \in [Procs -> 0 .. 2]
         /\ force' \in [Procs -> BOOLEAN] /\ force'[p] = FALSE
         /\ nonce' = nonce
         /\ \A q \in Procs \ {p} : purpose'[q] = purpose[q] /\ force'[q] = force[q]
  BY DEF Ends, TypeInv, TypeOK

(* What a failure leads to: the end of the call, or the one --force.          *)
LEMMA FailType ==
  ASSUME TypeInv, NEW p \in Procs, NEW code \in {"LOCKED", "IO"}, Fail(p, code)
  PROVE  /\ \/ pc' = [pc EXCEPT ![p] = "idle"] /\ purpose'[p] = "reclaim"
            \/ /\ code = "LOCKED" /\ force[p]
               /\ pc' = [pc EXCEPT ![p] = "force"] /\ UNCHANGED callVars
         /\ result' = [result EXCEPT ![p] = code]
         /\ purpose' \in [Procs -> {"reclaim", "release", "force"}]
         /\ attempt' \in [Procs -> 0 .. 2]
         /\ force' \in [Procs -> BOOLEAN]
         /\ nonce' = nonce
         /\ \A q \in Procs \ {p} : purpose'[q] = purpose[q] /\ force'[q] = force[q]
  <1>1. CASE Ends(p)
    BY <1>1, EndsType DEF Fail, Refused, Goto
  <1>2. CASE ~Ends(p)
    BY <1>2 DEF Fail, Refused, Goto, callVars, TypeInv, TypeOK
  <1> QED
    BY <1>1, <1>2

(* What a claim, successful or not, leads to.                              *)
LEMMA ClaimedType ==
  ASSUME TypeInv, NEW p \in Procs, Claimed(p)
  PROVE  /\ \E label \in {"idle", "create", "force"} : pc' = [pc EXCEPT ![p] = label]
         /\ purpose' \in [Procs -> {"reclaim", "release", "force"}]
         /\ attempt' \in [Procs -> 0 .. 2]
         /\ result' \in [Procs -> {"none", "acquired", "LOCKED", "IO"}]
         /\ nonce' = nonce /\ force' \in [Procs -> BOOLEAN]
         /\ \A q \in Procs : result'[q] = "acquired" => result[q] = "acquired"
  <1> USE DEF TypeInv, TypeOK, Claimed, Goto
  <1>1. CASE purpose[p] = "reclaim" /\ attempt[p] = 1
    BY <1>1
  <1>2. CASE purpose[p] = "reclaim" /\ attempt[p] # 1
    <2>1. Fail(p, "LOCKED")
      BY <1>2
    <2> QED
      BY <2>1, FailType DEF callVars
  <1>3. CASE purpose[p] = "release"
    BY <1>3, EndsType
  <1>4. CASE purpose[p] = "force"
    BY <1>4
  <1> QED
    BY <1>1, <1>2, <1>3, <1>4

LEMMA StepTypeInv ==
  ASSUME TypeInv, NEW p \in Procs, Step(p), Watch(p)
  PROVE  TypeInv'
  <1> USE DEF TypeInv, TypeOK, Goto, callVars
  <1>1. calm' \in [Procs -> BOOLEAN] /\ stray' \in BOOLEAN
    BY DEF Watch, Quiet, VerifiablyDead
  <1>2. CASE Lock(p)
    <2>1. NewNonce(p) \in 1 .. MaxCalls
      BY <1>2, NonceType DEF Lock
    <2> QED
      BY <1>1, <1>2, <2>1, CallsAssumption, ForcesAssumption DEF Lock
  <1>3. CASE Create(p)
    <2>1. Mine(p) \in File
      BY <1>3, MineType DEF Create
    <2> QED
      BY <1>1, <1>3, <2>1 DEF Create
  <1>4. CASE Write(p)
    <2>1. content' \in [File -> {"owner", "anonymous", "foreign"}]
      BY <1>4 DEF Write
    <2>2. result' = [result EXCEPT ![p] = "acquired"] /\ pc' = [pc EXCEPT ![p] = "holding"]
      BY <1>4 DEF Write
    <2>3. lock' = lock /\ claim' = claim /\ Ends(p) /\ pc[p] = "write"
      BY <1>4 DEF Write
    <2>4. /\ purpose' \in [Procs -> {"reclaim", "release", "force"}]
          /\ attempt' \in [Procs -> 0 .. 2] /\ force' \in [Procs -> BOOLEAN] /\ nonce' = nonce
      BY <2>3, EndsType
    <2>5. nonce[p] \in 1 .. MaxCalls
      BY <2>3
    <2>6. TypeOK'
      BY <1>1, <2>1, <2>2, <2>3, <2>4
    <2> QED
      BY <2>2, <2>3, <2>4, <2>5, <2>6
  <1>5. CASE WriteFails(p)
    <2>1. content' \in [File -> {"owner", "anonymous", "foreign"}]
      BY <1>5 DEF WriteFails
    <2>2. lock' = lock /\ claim' = claim /\ Fail(p, "IO") /\ pc[p] = "write"
      BY <1>5 DEF WriteFails
    <2>3. pc' = [pc EXCEPT ![p] = "idle"] /\ result' = [result EXCEPT ![p] = "IO"]
      BY <2>2, FailType
    <2>4. /\ purpose' \in [Procs -> {"reclaim", "release", "force"}]
          /\ attempt' \in [Procs -> 0 .. 2] /\ force' \in [Procs -> BOOLEAN] /\ nonce' = nonce
      BY <2>2, FailType
    <2> QED
      BY <1>1, <2>1, <2>2, <2>3, <2>4
  <1>6. CASE Check(p)
    <2>1. CASE Fail(p, "LOCKED")
      BY <1>1, <1>6, <2>1, FailType DEF Check
    <2>2. CASE ~Fail(p, "LOCKED")
      BY <1>1, <1>6, <2>2 DEF Check
    <2> QED
      BY <2>1, <2>2
  <1>7. CASE Claim(p)
    <2>1. CASE lock = NoFile
      BY <1>1, <1>7, <2>1, ClaimedType DEF Claim
    <2>2. CASE lock # NoFile
      BY <1>1, <1>7, <2>2 DEF Claim
    <2> QED
      BY <2>1, <2>2
  <1>8. CASE Judge(p)
    BY <1>1, <1>8 DEF Judge
  <1>9. CASE Remove(p)
    BY <1>1, <1>9, ClaimedType DEF Remove
  <1>10. CASE PutBack(p)
    <2>1. CASE Fail(p, "LOCKED")
      BY <1>1, <1>10, <2>1, FailType DEF PutBack
    <2>2. CASE ~Fail(p, "LOCKED")
      <3>1. /\ pc' = [pc EXCEPT ![p] = "idle"] /\ result' = result /\ Ends(p)
            /\ lock' = claim[p] /\ claim' = [claim EXCEPT ![p] = NoFile]
            /\ content' = content /\ pc[p] = "putback"
        BY <1>10, <2>2 DEF PutBack
      <3>2. /\ purpose' \in [Procs -> {"reclaim", "release", "force"}]
            /\ attempt' \in [Procs -> 0 .. 2] /\ force' \in [Procs -> BOOLEAN] /\ nonce' = nonce
        BY <3>1, EndsType
      <3>3. TypeOK'
        BY <1>1, <3>1, <3>2
      <3> QED
        BY <3>1, <3>2, <3>3
    <2> QED
      BY <2>1, <2>2
  <1>11. CASE Release(p)
    BY <1>1, <1>11 DEF Release
  <1>12. CASE ForceUnlock(p)
    BY <1>1, <1>12 DEF ForceUnlock
  <1>13. CASE Crash(p)
    BY <1>1, <1>13, CallsAssumption DEF Crash
  <1> QED
    BY <1>2, <1>3, <1>4, <1>5, <1>6, <1>7, <1>8, <1>9, <1>10, <1>11, <1>12, <1>13
    DEF Step, Work

LEMMA NextTypeInv == TypeInv /\ [Next]_vars => TypeInv'
  <1>1. TypeInv /\ UNCHANGED vars => TypeInv'
    BY DEF TypeInv, TypeOK, vars
  <1> QED
    BY <1>1, StepTypeInv DEF Next

(* Every reachable state of the lock protocol has its type.                 *)
THEOREM LockTypeCorrect == Spec => []TypeOK
  <1>1. TypeInv => TypeOK
    BY DEF TypeInv
  <1> QED
    BY <1>1, InitTypeInv, NextTypeInv, PTL DEF Spec

-----------------------------------------------------------------------------

(* A step of p moves p and nobody else, and only a crash ends p.            *)
LEMMA StepMoves ==
  ASSUME TypeInv, NEW p \in Procs, Step(p)
  PROVE  /\ \E label : pc' = [pc EXCEPT ![p] = label]
         /\ pc[p] # "dead" \/ pc'[p] = "dead"
  <1> USE DEF TypeInv, TypeOK, Goto
  <1>1. CASE Lock(p) \/ Create(p) \/ Write(p) \/ Judge(p) \/ Release(p) \/ ForceUnlock(p)
    BY <1>1 DEF Lock, Create, Write, Judge, Release, ForceUnlock
  <1>2. CASE WriteFails(p) \/ Check(p) \/ PutBack(p)
    BY <1>2 DEF WriteFails, Check, PutBack, Fail, Refused
  <1>3. CASE Claim(p) \/ Remove(p)
    <2>1. CASE Claimed(p)
      BY <1>3, <2>1, ClaimedType DEF Claim, Remove
    <2>2. CASE ~Claimed(p)
      BY <1>3, <2>2 DEF Claim, Remove
    <2> QED
      BY <2>1, <2>2
  <1>4. CASE Crash(p)
    BY <1>4 DEF Crash
  <1> QED
    BY <1>1, <1>2, <1>3, <1>4 DEF Step, Work

(* Death is for ever: a pid is not used twice.                             *)
LEMMA DeadStaysDead ==
  ASSUME TypeInv, NEW p \in Procs, Step(p), NEW q, ~Alive(q)
  PROVE  ~Alive(q)'
  <1>1. CASE q \in Procs
    BY <1>1, StepMoves DEF Alive, TypeInv, TypeOK
  <1>2. CASE q \notin Procs
    BY <1>2 DEF Alive
  <1> QED
    BY <1>1, <1>2

(* A step of p writes no file but the one p created last, and only if p lives. *)
LEMMA StepContents ==
  ASSUME TypeInv, NEW p \in Procs, Step(p), NEW f \in File, f # Mine(p) \/ ~Alive(f.proc)
  PROVE  content'[f] = content[f]
  <1> USE DEF TypeInv, TypeOK
  <1>1. CASE Create(p) \/ Write(p) \/ WriteFails(p)
    <2>1. pc[p] # "dead" /\ Mine(p).proc = p
      BY <1>1 DEF Create, Write, WriteFails, Mine
    <2>2. f # Mine(p)
      BY <2>1 DEF Alive
    <2> QED
      BY <1>1, <2>2 DEF Create, Write, WriteFails, Mine
  <1>2. CASE ~(Create(p) \/ Write(p) \/ WriteFails(p))
    BY <1>2 DEF Step, Work, Lock, Check, Claim, Judge, Remove, PutBack, Release,
                ForceUnlock, Crash
  <1> QED
    BY <1>1, <1>2

(* What a process is about to delete, without force, belongs to a dead       *)
(* process, or to the process itself; what is foreign, to nobody.            *)
Deletable(p) ==
  pc[p] = "remove" =>
    /\ \/ purpose[p] = "force"
       \/ purpose[p] = "release" /\ claim[p] = Mine(p)
       \/ ~Alive(claim[p].proc)
    /\ claim[p] = Leftover => content[Leftover] # "foreign"

DeleteInv == \A p \in Procs : Deletable(p)

LEMMA StepDeleteInv ==
  ASSUME TypeInv, DeleteInv, NEW p \in Procs, Step(p)
  PROVE  DeleteInv'
  <1> SUFFICES ASSUME NEW q \in Procs
               PROVE  Deletable(q)'
    BY DEF DeleteInv
  <1>1. \A r : ~Alive(r) => ~Alive(r)'
    BY DeadStaysDead
  <1>4. content'[Leftover] = content[Leftover]
    BY StepContents, ProcsAssumption DEF File, Leftover, Alive
  <1>2. CASE q # p
    <2>1. /\ pc'[q] = pc[q] /\ purpose'[q] = purpose[q]
          /\ claim'[q] = claim[q] /\ nonce'[q] = nonce[q]
      <3> USE DEF TypeInv, TypeOK, callVars
      <3>1. pc'[q] = pc[q]
        BY <1>2, StepMoves
      <3>2. CASE Claim(p) \/ Remove(p)
        <4>1. CASE Claimed(p)
          BY <1>2, <3>1, <3>2, <4>1 DEF Claim, Remove, Claimed, Fail, Refused, Ends
        <4>2. CASE ~Claimed(p)
          BY <1>2, <3>1, <3>2, <4>2 DEF Claim, Remove
        <4> QED
          BY <4>1, <4>2
      <3>3. CASE ~(Claim(p) \/ Remove(p))
        BY <1>2, <3>1, <3>3 DEF Step, Work, Lock, Create, Write, Check, Judge, PutBack,
                                ForceUnlock, WriteFails, Release, Crash, Fail, Refused, Ends
      <3> QED
        BY <3>2, <3>3
    <2>2. Deletable(q)
      BY DEF DeleteInv
    <2> QED
      BY <1>1, <1>4, <2>1, <2>2 DEF Deletable, Mine
  <1>3. CASE q = p
    <2>1. CASE Judge(p)
      BY <1>1, <1>3, <1>4, <2>1 DEF Deletable, Judge, Verdict, StillStale, StillOurs, MayForce, VerifiablyDead,
                              Liveness, Mine,
                              callVars, Goto, TypeInv, TypeOK
    <2>2. CASE ~Judge(p)
      <3>1. pc'[p] # "remove"
        <4> USE DEF TypeInv, TypeOK, Goto
        <4>1. CASE Claim(p) \/ Remove(p)
          <5>1. CASE Claimed(p)
            BY <4>1, <5>1, ClaimedType
          <5>2. CASE ~Claimed(p)
            BY <4>1, <5>2 DEF Claim, Remove
          <5> QED
            BY <5>1, <5>2
        <4>2. CASE WriteFails(p) \/ Check(p) \/ PutBack(p)
          BY <4>2 DEF WriteFails, Check, PutBack, Fail, Refused
        <4>3. CASE Lock(p) \/ Create(p) \/ Write(p) \/ Release(p) \/ ForceUnlock(p) \/ Crash(p)
          BY <4>3 DEF Lock, Create, Write, Release, ForceUnlock, Crash
        <4> QED
          BY <2>2, <4>1, <4>2, <4>3 DEF Step, Work
      <3> QED
        BY <1>3, <3>1 DEF Deletable
    <2> QED
      BY <2>1, <2>2
  <1> QED
    BY <1>2, <1>3

(* Whatever N processes race a reclaim, and wherever they die, no step but a  *)
(* forced one deletes the lock of a live process.                           *)
THEOREM DeletionsAreSafe == Spec => []DeletesNoLiveLock
  <1>1. Init => DeleteInv
    BY DEF Init, DeleteInv, Deletable
  <1>2. TypeInv /\ DeleteInv /\ [Next]_vars => DeleteInv'
    <2>1. DeleteInv /\ UNCHANGED vars => DeleteInv'
      BY DEF DeleteInv, Deletable, Mine, Alive, vars
    <2> QED
      BY <2>1, StepDeleteInv DEF Next
  <1>3. DeleteInv => DeletesNoLiveLock
    BY DEF DeleteInv, Deletable, DeletesNoLiveLock
  <1> QED
    BY <1>1, <1>2, <1>3, InitTypeInv, NextTypeInv, PTL DEF Spec

-----------------------------------------------------------------------------

(* Who locks in order to write, and has not claimed anything yet, claims to   *)
(* reclaim if at all; --force is used once.                                *)
Purposeful ==
  \A p \in Procs :
    /\ pc[p] \in {"create", "write", "check", "holding", "force"} => purpose[p] = "reclaim"
    /\ purpose[p] = "force" => ~force[p]

(* A process has the lock from its create to the claim of its release.      *)
HasLock(p) == \/ pc[p] \in {"write", "holding"}
              \/ pc[p] = "claim" /\ purpose[p] = "release"

(* What p may remove of what it renamed aside.                             *)
Spoils(p) == \/ purpose[p] = "reclaim" /\ VerifiablyDead(p, claim[p])
             \/ purpose[p] = "release" /\ claim[p] = Mine(p) /\ content[Mine(p)] = "owner"

(* p lives and has no lock, nor left one whose write failed.                 *)
HasNone(p) == ~HasLock(p) /\ pc[p] # "dead" /\ (pc[p] = "idle" => result[p] # "IO")

(* As long as no claim strayed: a lock is at the path from its create to the  *)
(* claim of its release and at no other time, and what is renamed aside is not  *)
(* put back.                                                               *)
Orderly(p) ==
  /\ HasLock(p) => lock = Mine(p)
  /\ HasLock(p) /\ pc[p] # "write" => content[Mine(p)] = "owner"
  /\ pc[p] = "judge" => Spoils(p)
  /\ pc[p] # "putback"
  /\ HasNone(p) => lock # Mine(p)

ExclInv == Purposeful /\ (~stray => \A p \in Procs : Orderly(p))

LEMMA InitExclInv == Init => ExclInv
  <1> SUFFICES ASSUME Init PROVE ExclInv
    OBVIOUS
  <1>1. \A p \in Procs : Mine(p) # NoFile /\ Mine(p) # Leftover
    BY InitTypeInv, NoFileApart, ProcsAssumption DEF Mine, Leftover
  <1> QED
    BY <1>1 DEF Init, ExclInv, Purposeful, Orderly, HasLock, HasNone

(* A step of p leaves every other process where it is.                      *)
LEMMA StepOthers ==
  ASSUME TypeInv, NEW p \in Procs, Step(p), NEW q \in Procs, q # p
  PROVE  /\ pc'[q] = pc[q] /\ purpose'[q] = purpose[q] /\ claim'[q] = claim[q]
         /\ nonce'[q] = nonce[q] /\ result'[q] = result[q] /\ force'[q] = force[q]
  <1> USE DEF TypeInv, TypeOK, callVars
  <1>1. pc'[q] = pc[q]
    BY StepMoves
  <1>2. CASE Claim(p) \/ Remove(p)
    <2>1. CASE Claimed(p)
      BY <1>1, <1>2, <2>1 DEF Claim, Remove, Claimed, Fail, Refused, Ends
    <2>2. CASE ~Claimed(p)
      BY <1>1, <1>2, <2>2 DEF Claim, Remove
    <2> QED
      BY <2>1, <2>2
  <1>3. CASE ~(Claim(p) \/ Remove(p))
    BY <1>1, <1>3 DEF Step, Work, Lock, Create, Write, Check, Judge, PutBack,
                      ForceUnlock, WriteFails, Release, Crash, Fail, Refused, Ends
  <1> QED
    BY <1>2, <1>3

(* The lock of a verifiably dead holder stays one.                          *)
LEMMA StaysVerifiablyDead ==
  ASSUME TypeInv, NEW p \in Procs, Step(p), NEW q \in Procs, NEW f \in File,
         VerifiablyDead(q, f)
  PROVE  VerifiablyDead(q, f)'
  <1>1. ~Alive(f.proc) /\ Host(q) = Host(f.proc) /\ content[f] = "owner"
    BY DEF VerifiablyDead, Liveness
  <1>2. ~Alive(f.proc)'
    BY <1>1, DeadStaysDead
  <1>3. content'[f] = content[f]
    BY <1>1, StepContents
  <1> QED
    BY <1>1, <1>2, <1>3 DEF VerifiablyDead, Liveness, Host

(* What a step of p does to the name of the lock.                           *)
LEMMA StepLock ==
  ASSUME TypeInv, NEW p \in Procs, Step(p)
  PROVE  \/ lock' = lock
         \/ pc[p] = "create" /\ lock = NoFile /\ lock' = Mine(p)
         \/ pc[p] = "claim" /\ pc'[p] = "judge" /\ lock' = NoFile
         \/ pc[p] = "putback"
  <1> USE DEF TypeInv, TypeOK, Goto
  <1>1. CASE Claim(p)
    BY <1>1 DEF Claim
  <1>2. CASE Create(p) \/ PutBack(p)
    BY <1>2 DEF Create, PutBack
  <1>3. CASE ~(Claim(p) \/ Create(p) \/ PutBack(p))
    BY <1>3 DEF Step, Work, Lock, Write, Check, Judge, Remove, WriteFails, Release,
                ForceUnlock, Crash
  <1> QED
    BY <1>1, <1>2, <1>3

LEMMA StepPurposeful ==
  ASSUME TypeInv, ExclInv, NEW p \in Procs, Step(p)
  PROVE  Purposeful'
  <1> SUFFICES ASSUME NEW q \in Procs
               PROVE  /\ pc'[q] \in {"create", "write", "check", "holding", "force"} =>
                           purpose'[q] = "reclaim"
                      /\ purpose'[q] = "force" => ~force'[q]
    BY DEF Purposeful
  <1>1. CASE q # p
    BY <1>1, StepOthers DEF ExclInv, Purposeful
  <1>2. CASE q = p
    <2> USE <1>2 DEF TypeInv, TypeOK, Goto, callVars, ExclInv, Purposeful
    <2>1. CASE Lock(p)
      BY <2>1, ForcesAssumption DEF Lock
    <2>2. CASE Create(p) \/ Write(p) \/ Judge(p) \/ Release(p) \/ Crash(p)
      BY <2>2 DEF Create, Write, Judge, Release, Crash, Ends
    <2>3. CASE WriteFails(p) \/ Check(p)
      BY <2>3 DEF WriteFails, Check, Fail, Refused, Ends
    <2>4. CASE PutBack(p)
      BY <2>4 DEF PutBack, Fail, Refused, Ends
    <2>5. CASE ForceUnlock(p)
      BY <2>5 DEF ForceUnlock
    <2>6. CASE Claim(p) \/ Remove(p)
      <3>1. CASE Claimed(p)
        <4>1. CASE purpose[p] = "reclaim"
          BY <2>6, <3>1, <4>1, ClaimedType DEF Claimed, Fail, Refused, Ends
        <4>2. CASE purpose[p] = "release"
          BY <2>6, <3>1, <4>2, ClaimedType DEF Claimed, Ends
        <4>3. CASE purpose[p] = "force"
          BY <2>6, <3>1, <4>3, ClaimedType DEF Claimed
        <4> QED
          BY <4>1, <4>2, <4>3
      <3>2. CASE ~Claimed(p)
        BY <2>6, <3>2 DEF Claim, Remove
      <3> QED
        BY <3>1, <3>2
    <2> QED
      BY <2>1, <2>2, <2>3, <2>4, <2>5, <2>6 DEF Step, Work
  <1> QED
    BY <1>1, <1>2

(* A step of p that does not stray keeps every other process's lock in order. *)
LEMMA OthersOrderly ==
  ASSUME TypeInv, ExclInv, NEW p \in Procs, Step(p), Watch(p), ~stray',
         NEW q \in Procs, q # p
  PROVE  Orderly(q)'
  <1>1. /\ pc'[q] = pc[q] /\ purpose'[q] = purpose[q] /\ claim'[q] = claim[q]
        /\ nonce'[q] = nonce[q] /\ result'[q] = result[q]
    BY StepOthers
  <1>2. Orderly(p) /\ Orderly(q) /\ (pc[p] = "claim" /\ pc'[p] = "judge" => Entitled(p))
    BY DEF Watch, ExclInv
  <1>3. Mine(q)' = Mine(q) /\ Mine(q) # Mine(p)
    BY <1>1 DEF Mine
  <1>4. (HasLock(q)' <=> HasLock(q)) /\ (HasNone(q)' <=> HasNone(q))
    BY <1>1 DEF HasLock, HasNone
  <1>5. HasLock(q) => pc[q] # "dead" /\ Mine(q) \in File /\ Mine(q) # NoFile
    BY MineType, NoFileApart DEF HasLock
  <1>6. HasLock(q) => lock' = lock
    <2> SUFFICES ASSUME HasLock(q) PROVE lock' = lock
      OBVIOUS
    <2>1. lock = Mine(q) /\ Alive(lock.proc)
      BY <1>2, <1>5 DEF Orderly, Mine, Alive
    <2>2. ~Entitled(p)
      BY <1>3, <2>1 DEF Entitled, VerifiablyDead, Liveness
    <2> QED
      BY <1>2, <1>5, <2>1, <2>2, StepLock DEF Orderly
  <1>7. HasNone(q) => lock' # Mine(q)
    BY <1>2, <1>3, NoFileApart, StepLock DEF Orderly
  <1>8. HasLock(q) => content'[Mine(q)] = content[Mine(q)]
    BY <1>3, <1>5, StepContents
  <1>9. pc[q] = "judge" => Spoils(q)'
    <2> SUFFICES ASSUME pc[q] = "judge" PROVE Spoils(q)'
      OBVIOUS
    <2>1. claim[q] \in File /\ Mine(q) \in File /\ Spoils(q)
      BY <1>2, MineType DEF TypeInv, Orderly
    <2>2. CASE purpose[q] = "reclaim"
      BY <1>1, <2>1, <2>2, StaysVerifiablyDead DEF Spoils, VerifiablyDead, Liveness
    <2>3. CASE purpose[q] # "reclaim"
      BY <1>1, <1>3, <2>1, <2>3, StepContents DEF Spoils
    <2> QED
      BY <2>2, <2>3
  <1> QED
    BY <1>1, <1>2, <1>3, <1>4, <1>6, <1>7, <1>8, <1>9 DEF Orderly, HasLock

(* A step of p that does not stray keeps p's own lock in order.              *)
LEMMA SelfOrderly ==
  ASSUME TypeInv, ExclInv, NEW p \in Procs, Step(p), Watch(p), ~stray'
  PROVE  Orderly(p)'
  <1>1. Orderly(p) /\ (pc[p] = "claim" /\ pc'[p] = "judge" => Entitled(p))
    BY DEF Watch, ExclInv
  <1>2. NoFile \notin File /\ Mine(p) # NoFile
    BY NoFileApart
  <1> USE DEF TypeInv, TypeOK, Goto, callVars, Orderly, HasLock, HasNone, Purposeful, Mine
  <1>3. CASE Lock(p)
    <2>1. NewNonce(p) \in 1 .. MaxCalls /\ lock # [proc |-> p, nonce |-> NewNonce(p)]
      BY <1>3, NonceType DEF Lock
    <2> QED
      BY <1>1, <1>3, <2>1 DEF Lock
  <1>4. CASE Create(p)
    BY <1>1, <1>4 DEF Create, ExclInv
  <1>5. CASE Write(p)
    <2>1. Mine(p) \in File
      BY <1>5, MineType DEF Write
    <2> QED
      <3>1. content'[Mine(p)] = "owner" /\ lock' = lock /\ nonce' = nonce
        BY <1>5, <2>1, EndsType DEF Write
      <3>2. pc' = [pc EXCEPT ![p] = "holding"] /\ pc[p] = "write"
        BY <1>5 DEF Write
      <3> QED
        BY <1>1, <3>1, <3>2
  <1>6. CASE WriteFails(p)
    BY <1>1, <1>6, FailType DEF WriteFails
  <1>7. CASE Check(p)
    <2>1. CASE Fail(p, "LOCKED")
      BY <1>1, <1>7, <2>1, FailType DEF Check, ExclInv
    <2>2. CASE ~Fail(p, "LOCKED")
      BY <1>1, <1>7, <2>2 DEF Check, ExclInv
    <2> QED
      BY <2>1, <2>2
  <1>8. CASE Claim(p)
    <2>1. CASE lock = NoFile
      <3>1. purpose[p] # "release"
        BY <1>1, <1>2, <1>8, <2>1, MineType DEF Claim
      <3> QED
        BY <1>1, <1>8, <2>1, <3>1, ClaimedType DEF Claim, Claimed
    <2>2. CASE lock # NoFile
      <3>1. Entitled(p)
        BY <1>1, <1>8, <2>2 DEF Claim
      <3>2. Spoils(p)'
        <4>1. CASE purpose[p] = "reclaim"
          <5>1. PICK f \in File : f = lock /\ VerifiablyDead(p, f)
            BY <2>2, <3>1, <4>1 DEF Entitled
          <5>2. VerifiablyDead(p, f)'
            BY <5>1, StaysVerifiablyDead
          <5>3. claim'[p] = f /\ purpose'[p] = "reclaim"
            BY <1>8, <2>2, <4>1, <5>1 DEF Claim
          <5> QED
            BY <5>2, <5>3 DEF Spoils, VerifiablyDead
        <4>2. CASE purpose[p] # "reclaim"
          BY <1>1, <1>8, <2>2, <3>1, <4>2 DEF Claim, Entitled, Spoils
        <4> QED
          BY <4>1, <4>2
      <3>3. Mine(p) # NoFile
        BY <1>2, <1>8, MineType DEF Claim
      <3> QED
        BY <1>8, <2>2, <3>2, <3>3 DEF Claim
    <2> QED
      BY <2>1, <2>2
  <1>9. CASE Judge(p)
    BY <1>1, <1>9 DEF Judge, Verdict, StillStale, StillOurs, Spoils
  <1>10. CASE Remove(p)
    BY <1>1, <1>10, ClaimedType DEF Remove
  <1>11. CASE PutBack(p)
    BY <1>1, <1>11 DEF PutBack
  <1>12. CASE Release(p)
    BY <1>1, <1>12 DEF Release
  <1>13. CASE ForceUnlock(p)
    BY <1>1, <1>13 DEF ForceUnlock, ExclInv
  <1>14. CASE Crash(p)
    BY <1>1, <1>14 DEF Crash
  <1> QED
    BY <1>3, <1>4, <1>5, <1>6, <1>7, <1>8, <1>9, <1>10, <1>11, <1>12, <1>13, <1>14
    DEF Step, Work

LEMMA StepExclInv ==
  ASSUME TypeInv, ExclInv, NEW p \in Procs, Step(p), Watch(p)
  PROVE  ExclInv'
  <1>1. ~stray' => \A q \in Procs : Orderly(q)'
    BY SelfOrderly, OthersOrderly
  <1> QED
    BY <1>1, StepPurposeful DEF ExclInv

LEMMA AlwaysExclInv == Spec => []ExclInv
  <1>1. TypeInv /\ ExclInv /\ [Next]_vars => ExclInv'
    <2>1. ExclInv /\ UNCHANGED vars => ExclInv'
      BY DEF ExclInv, Purposeful, Orderly, HasLock, HasNone, Spoils, VerifiablyDead,
             Liveness, Alive, Mine, vars
    <2> QED
      BY <2>1, StepExclInv DEF Next
  <1> QED
    BY <1>1, InitExclInv, InitTypeInv, NextTypeInv, PTL DEF Spec

(* For any number of processes, on any hosts, dying at any system call: while  *)
(* no claim has taken a lock it was not entitled to, there is one writer.     *)
THEOREM ExclusionIsLostOnlyByStrays == Spec => []ExclusionUnlessStray
  <1>1. ExclInv => ExclusionUnlessStray
    <2> SUFFICES ASSUME ExclInv, ~stray, NEW p \in Writers, NEW q \in Writers
                 PROVE  p = q
      BY DEF ExclusionUnlessStray, MutualExclusion
    <2>1. lock = Mine(p) /\ lock = Mine(q)
      BY DEF ExclInv, Orderly, HasLock, Writers
    <2>2. Mine(p).proc = p /\ Mine(q).proc = q
      BY DEF Mine
    <2> QED
      BY <2>1, <2>2
  <1> QED
    BY <1>1, AlwaysExclInv, PTL

(* Nor, while that is so, does a lock outlive the instance that took it.     *)
THEOREM NoOrphanUnlessStray == Spec => []NoOrphan
  <1>1. ExclInv => NoOrphan
    BY DEF ExclInv, Orderly, HasLock, HasNone, NoOrphan
  <1> QED
    BY <1>1, AlwaysExclInv, PTL

-----------------------------------------------------------------------------
(* A process that is alone reclaims.  From its Lock(p) on, the path has no   *)
(* file or a dead holder's lock; after the one removal it has no file.       *)
Unhindered(p) ==
  /\ \A q \in Procs \ {p} : pc[q] \in {"idle", "dead"}
  /\ result[p] # "LOCKED"
  /\ purpose[p] # "force" /\ pc[p] # "force"
  /\ pc[p] = "putback" => purpose[p] = "release"
  /\ pc[p] \in {"create", "check"} => purpose[p] = "reclaim"
  /\ pc[p] = "create" /\ lock # NoFile => attempt[p] = 1 /\ VerifiablyDead(p, lock)
  /\ pc[p] \in {"check", "claim"} /\ purpose[p] = "reclaim" =>
       attempt[p] = 1 /\ lock # NoFile /\ VerifiablyDead(p, lock)
  /\ pc[p] \in {"judge", "remove"} /\ purpose[p] = "reclaim" =>
       attempt[p] = 1 /\ lock = NoFile /\ VerifiablyDead(p, claim[p])

CalmInv == \A p \in Procs : calm[p] => Unhindered(p)

LEMMA StepUnhindered ==
  ASSUME TypeInv, NEW p \in Procs, Step(p), pc'[p] # "dead",
         IF pc[p] = "idle" THEN Quiet(p) ELSE Unhindered(p)
  PROVE  Unhindered(p)'
  <1> USE DEF TypeInv, TypeOK, Goto
  <1>1. \A q \in Procs \ {p} : pc'[q] \in {"idle", "dead"}
    BY StepOthers DEF Unhindered, Quiet
  <1>2. \A f \in File : VerifiablyDead(p, f) => VerifiablyDead(p, f)'
    BY StaysVerifiablyDead
  <1>3. CASE Lock(p)
    <2>1. lock' = NoFile \/ VerifiablyDead(p, lock)'
      BY <1>2, <1>3 DEF Lock, Quiet, VerifiablyDead
    <2> QED
      BY <1>1, <1>3, <2>1 DEF Lock, Unhindered
  <1>4. ~Lock(p) => Unhindered(p)
    BY DEF Step, Work, Create, Write, Check, Claim, Judge, Remove, PutBack, ForceUnlock,
           WriteFails, Release, Crash
  <1>5. CASE Create(p)
    <2>1. CASE lock = NoFile
      BY <1>1, <1>4, <1>5, <2>1 DEF Create, Unhindered, callVars, Lock
    <2>2. CASE lock # NoFile
      <3>1. lock \in File /\ lock' = lock /\ VerifiablyDead(p, lock)'
        BY <1>2, <1>4, <1>5, <2>2 DEF Create, Unhindered, Lock
      <3> QED
        BY <1>1, <1>4, <1>5, <2>2, <3>1 DEF Create, Unhindered, callVars, Lock
    <2> QED
      BY <2>1, <2>2
  <1>6. CASE Check(p)
    <2>1. lock \in File /\ lock' = lock /\ VerifiablyDead(p, lock) /\ VerifiablyDead(p, lock)'
      BY <1>2, <1>4, <1>6 DEF Check, Unhindered, Lock
    <2> QED
      BY <1>1, <1>4, <1>6, <2>1 DEF Check, Unhindered, callVars, Lock
  <1>7. CASE Claim(p) /\ purpose[p] = "reclaim"
    <2>1. /\ lock \in File /\ claim' = [claim EXCEPT ![p] = lock] /\ lock' = NoFile
          /\ pc' = [pc EXCEPT ![p] = "judge"] /\ attempt[p] = 1
          /\ UNCHANGED <<callVars, result>>
      BY <1>4, <1>7 DEF Claim, Unhindered, Lock
    <2>2. VerifiablyDead(p, claim[p])'
      <3>1. PICK f \in File : f = lock
        BY <2>1
      <3>2. VerifiablyDead(p, f)'
        BY <1>2, <1>4, <1>7, <3>1 DEF Claim, Unhindered, Lock
      <3>3. claim'[p] = f
        BY <2>1, <3>1
      <3> QED
        BY <3>2, <3>3 DEF VerifiablyDead
    <2> QED
      BY <1>1, <1>4, <1>7, <2>1, <2>2 DEF Unhindered, callVars, Claim, Lock
  <1>8. CASE Claim(p) /\ purpose[p] # "reclaim"
    <2>1. purpose[p] = "release"
      BY <1>4, <1>8 DEF Claim, Lock, Unhindered
    <2>2. pc'[p] \in {"idle", "judge"} /\ purpose'[p] \in {"release", "reclaim"} /\ UNCHANGED result
         /\ (pc'[p] = "judge" => purpose'[p] = "release")
      <3>1. CASE lock = NoFile
        <4>1. pc' = [pc EXCEPT ![p] = "idle"] /\ Ends(p) /\ UNCHANGED result
          BY <1>8, <2>1, <3>1 DEF Claim, Claimed
        <4> QED
          BY <4>1, EndsType
      <3>2. CASE lock # NoFile
        BY <1>8, <2>1, <3>2 DEF Claim, callVars
      <3> QED
        BY <3>1, <3>2
    <2> QED
      BY <1>1, <1>4, <1>8, <2>1, <2>2 DEF Unhindered, callVars, Claim, Lock
  <1>9. CASE Judge(p)
    <2>1. purpose[p] = "reclaim" => claim[p] \in File /\ VerifiablyDead(p, claim[p])'
      BY <1>2, <1>4, <1>9 DEF Judge, Unhindered, Lock
    <2>2. purpose[p] = "reclaim" => pc'[p] = "remove" /\ VerifiablyDead(p, claim[p])'
      BY <1>4, <1>9, <2>1 DEF Judge, Unhindered, Lock, Verdict, StillStale
    <2> QED
      BY <1>1, <1>4, <1>9, <2>2 DEF Judge, Unhindered, callVars, Lock, VerifiablyDead
  <1>10. CASE Remove(p)
    <2>1. CASE purpose[p] = "reclaim"
      BY <1>1, <1>4, <1>10, <2>1 DEF Remove, Claimed, Unhindered, Lock
    <2>2. CASE purpose[p] = "release"
      BY <1>1, <1>4, <1>10, <2>2, EndsType DEF Remove, Claimed, Unhindered, Lock
    <2> QED
      BY <1>4, <1>10, <2>1, <2>2 DEF Remove, Unhindered, Lock
  <1>11. CASE PutBack(p)
    <2>1. purpose[p] = "release" /\ Ends(p) /\ pc' = [pc EXCEPT ![p] = "idle"] /\ UNCHANGED result
      BY <1>4, <1>11 DEF PutBack, Unhindered, Lock
    <2> QED
      BY <1>1, <1>4, <1>11, <2>1, EndsType DEF PutBack, Unhindered, Lock
  <1>12. CASE Write(p) \/ WriteFails(p) \/ Release(p) \/ ForceUnlock(p) \/ Crash(p)
    <2>1. CASE Write(p)
      <3>1. Ends(p) /\ pc' = [pc EXCEPT ![p] = "holding"] /\ result'[p] = "acquired"
        BY <2>1 DEF Write
      <3> QED
        BY <1>1, <3>1, EndsType DEF Unhindered
    <2>2. CASE WriteFails(p)
      BY <1>1, <2>2, FailType DEF WriteFails, Unhindered
    <2>3. CASE Release(p) \/ ForceUnlock(p) \/ Crash(p)
      BY <1>1, <1>4, <1>12, <2>3 DEF Release, ForceUnlock, Crash, Unhindered, Lock
    <2> QED
      BY <1>12, <2>1, <2>2, <2>3
  <1> QED
    BY <1>3, <1>5, <1>6, <1>7, <1>8, <1>9, <1>10, <1>11, <1>12 DEF Step, Work

(* With no other process about, a dead holder's lock, or none, never refuses   *)
(* a process, for any number of processes that came and went before.          *)
THEOREM DeadLocksYield == Spec => []StaleLockYields
  <1>1. Init => CalmInv
    BY DEF Init, CalmInv
  <1>2. TypeInv /\ CalmInv /\ [Next]_vars => CalmInv'
    <2> SUFFICES ASSUME TypeInv, CalmInv, [Next]_vars PROVE CalmInv'
      OBVIOUS
    <2>1. ASSUME NEW p \in Procs, Step(p), Watch(p) PROVE CalmInv'
      <3>1. \A q \in Procs : calm'[q] =>
              /\ q = p /\ pc'[p] # "dead"
              /\ IF pc[p] = "idle" THEN Quiet(p) ELSE calm[p]
        BY <2>1 DEF Watch
      <3>2. calm'[p] => Unhindered(p)'
        BY <2>1, <3>1, StepUnhindered DEF CalmInv
      <3> QED
        BY <3>1, <3>2 DEF CalmInv
    <2>2. CASE UNCHANGED vars
      BY <2>2 DEF CalmInv, Unhindered, VerifiablyDead, Liveness, Alive, vars
    <2> QED
      BY <2>1, <2>2 DEF Next
  <1>3. CalmInv => StaleLockYields
    BY DEF CalmInv, Unhindered, StaleLockYields
  <1> QED
    BY <1>1, <1>2, <1>3, InitTypeInv, NextTypeInv, PTL DEF Spec
=============================================================================
