------------------------------- MODULE LockFile -------------------------------
(***************************************************************************)
(* The exclusive lock of src/adapter/node-fs.ts: <path>.lock, created        *)
(* exclusively, reclaimed when its holder is verifiably dead, released by    *)
(* renaming it aside and judging what was claimed, and removed by --force    *)
(* (src/cli/run.ts, withWriteDb).                                          *)
(*                                                                         *)
(* Processes interleave between system calls: an action is one of them.     *)
(* The file is told apart from its name: a process writes its owner record   *)
(* through a descriptor, whatever became of the name meanwhile, and a rename *)
(* replaces whatever is at the new name.                                   *)
(*                                                                         *)
(*   idle -> create -> write -> holding -> claim ... -> idle                *)
(*           create -> check -> claim -> judge -> remove -> create          *)
(*                                             -> putback -> idle           *)
(***************************************************************************)
EXTENDS Naturals, FiniteSets

CONSTANTS
  Procs,     \* processes; each is one pid, and a pid is not used twice
  Remote,    \* those of them on another host
  Ghost,     \* the process that left the lock file found at the start
  NoFile,    \* there is no such file
  Leftovers, \* what may be found there: "none", "owner", "anonymous", "foreign"
  Forces,    \* may a process be given --force?  a subset of BOOLEAN
  CrashAt,   \* bound: where a process may die
  MaxCalls,  \* bound: lock files of one process at a time
  Once       \* bound: the processes that have one at a time

ASSUME ProcsAssumption == Ghost \notin Procs /\ Remote \subseteq Procs
ASSUME CallsAssumption == MaxCalls \in Nat
ASSUME LeftoversAssumption == Leftovers \subseteq {"none", "owner", "anonymous", "foreign"}
ASSUME ForcesAssumption == Forces \subseteq BOOLEAN

(* A lock file is known by who created it and its nonce.  A nonce is random:  *)
(* a call takes one that no file still there has, so that a process may call   *)
(* lock() any number of times.                                             *)
Leftover == [proc |-> Ghost, nonce |-> 0]
File == [proc : Procs, nonce : 1 .. MaxCalls] \cup {Leftover}

ASSUME FileAssumption == NoFile \notin [proc : Procs \cup {Ghost}, nonce : 0 .. MaxCalls]

VARIABLES
  lock,     \* the file named <path>.lock
  content,  \* how each file parses: parseLock()
  pc,       \* where each process is
  purpose,  \* why it claims the lock: "reclaim", "release" or "force"
  attempt,  \* lock(): attempt
  claim,    \* the file at its claim name
  nonce,    \* the nonce of its last call of lock()
  force,    \* does its open still have a --force to use?
  result,   \* how its last lock() ended: "none", "acquired", "LOCKED" or "IO"
  calm,     \* history: since its lock() began, no other process took a step,
            \* and there was nothing to be refused for
  stray     \* history: a claim took a lock it was not entitled to: see Entitled

vars == <<lock, content, pc, purpose, attempt, claim, nonce, force, result, calm, stray>>
callVars == <<purpose, attempt, nonce, force>>

-----------------------------------------------------------------------------

Mine(p) == [proc |-> p, nonce |-> nonce[p]]

Host(p) == IF p \in Remote THEN "there" ELSE "here"
Alive(p) == p \in Procs /\ pc[p] # "dead"

(* livenessOf(): what p can tell of the owner recorded in a lock file.       *)
Liveness(p, owner) ==
  IF Host(p) # Host(owner) THEN "unverifiable"
  ELSE IF Alive(owner) THEN "alive" ELSE "dead"

VerifiablyDead(p, f) == content[f] = "owner" /\ Liveness(p, f.proc) = "dead"

(* Mutant: whatever was claimed to be reclaimed is taken for stale.         *)
StillStale_Unchecked(p, f) == TRUE

(* Mutant: the nonces are compared the wrong way round.                    *)
StillOurs_Swapped(p, f) == content[f] = "owner" /\ f # Mine(p)

(* What a verdict of claimAndRemoveLock() lets p remove: of lock(), of the     *)
(* release it returns, and of forceUnlock().                                *)
StillStale(p, f) == VerifiablyDead(p, f)
StillOurs(p, f) == content[f] = "owner" /\ f = Mine(p)
MayForce(p, f) == \/ content[f] = "anonymous"
                  \/ content[f] = "owner" /\ Liveness(p, f.proc) # "alive"

Verdict(p, f) ==
  CASE purpose[p] = "reclaim" -> StillStale(p, f)
    [] purpose[p] = "release" -> StillOurs(p, f)
    [] purpose[p] = "force" -> MayForce(p, f)

Init ==
  /\ \E left \in Leftovers :
       /\ lock = IF left = "none" THEN NoFile ELSE Leftover
       /\ content = [f \in File |-> IF f = Leftover /\ left # "none" THEN left ELSE "anonymous"]
  /\ pc = [p \in Procs |-> "idle"]
  /\ purpose = [p \in Procs |-> "reclaim"]
  /\ attempt = [p \in Procs |-> 0]
  /\ claim = [p \in Procs |-> NoFile]
  /\ nonce = [p \in Procs |-> 0]
  /\ force = [p \in Procs |-> FALSE]
  /\ result = [p \in Procs |-> "none"]
  /\ calm = [p \in Procs |-> FALSE]
  /\ stray = FALSE

-----------------------------------------------------------------------------
(* lock(path).                                                             *)

Goto(p, label) == pc' = [pc EXCEPT ![p] = label]

(* The variables of a call are gone when it ends.                          *)
Ends(p) ==
  /\ attempt' = [attempt EXCEPT ![p] = 0]
  /\ purpose' = [purpose EXCEPT ![p] = "reclaim"]
  /\ force' = [force EXCEPT ![p] = FALSE]
  /\ UNCHANGED nonce

(* withWriteDb(): the open was refused; --force, if there is one left, forces *)
(* the lock.                                                               *)
Refused(p) == IF force[p] THEN Goto(p, "force") /\ UNCHANGED callVars
                          ELSE Goto(p, "idle") /\ Ends(p)

(* lock() or forceUnlock() throws.                                         *)
Fail(p, code) ==
  /\ result' = [result EXCEPT ![p] = code]
  /\ IF code = "LOCKED" THEN Refused(p) ELSE Goto(p, "idle") /\ Ends(p)

FreshNonces(p) ==
  {n \in 1 .. MaxCalls :
     /\ p \in Once => n = 1
     /\ \A f \in {lock} \cup {claim[q] : q \in Procs} : f # [proc |-> p, nonce |-> n]}
NewNonce(p) == CHOOSE n \in FreshNonces(p) : TRUE

Lock(p) ==
  /\ pc[p] = "idle"
  /\ FreshNonces(p) # {}
  /\ nonce' = [nonce EXCEPT ![p] = NewNonce(p)]
  /\ attempt' = [attempt EXCEPT ![p] = 1]
  /\ purpose' = [purpose EXCEPT ![p] = "reclaim"]
  /\ \E f \in Forces : force' = [force EXCEPT ![p] = f]
  /\ result' = [result EXCEPT ![p] = "none"]
  /\ Goto(p, "create")
  /\ UNCHANGED <<lock, content, claim>>

(* The exclusive create: the file is empty until the write.                *)
Create(p) ==
  /\ pc[p] = "create"
  /\ IF lock = NoFile
     THEN /\ lock' = Mine(p)
          /\ content' = [content EXCEPT ![Mine(p)] = "anonymous"]
          /\ Goto(p, "write")
     ELSE /\ Goto(p, "check")
          /\ UNCHANGED <<lock, content>>
  /\ UNCHANGED <<callVars, claim, result>>

Write(p) ==
  /\ pc[p] = "write"
  /\ content' = [content EXCEPT ![Mine(p)] = "owner"]
  /\ result' = [result EXCEPT ![p] = "acquired"]
  /\ Goto(p, "holding")
  /\ Ends(p)
  /\ UNCHANGED <<lock, claim>>

(* The write throws after some prefix of the record: none of it or not all   *)
(* of the owner (anonymous), part of the sentinel (foreign), or all but a    *)
(* part of the nonce (an owner).                                           *)
WriteFails(p) ==
  /\ pc[p] = "write"
  /\ \E c \in {"anonymous", "foreign", "owner"} : content' = [content EXCEPT ![Mine(p)] = c]
  /\ Fail(p, "IO")
  /\ UNCHANGED <<lock, claim>>

(* isStaleLock(), the vanished file included.                              *)
Check(p) ==
  /\ pc[p] = "check"
  /\ IF lock = NoFile \/ VerifiablyDead(p, lock)
     THEN Goto(p, "claim") /\ UNCHANGED <<callVars, result>>
     ELSE Fail(p, "LOCKED")
  /\ UNCHANGED <<lock, content, claim>>

(* Mutants: the stale lock is removed but not tried for again; the attempts    *)
(* are counted but not bounded; they are not even counted.                   *)
Claimed_OneAttempt(p) ==
  CASE purpose[p] = "reclaim" -> Fail(p, "LOCKED")
    [] purpose[p] = "release" -> Goto(p, "idle") /\ Ends(p) /\ UNCHANGED result
    [] purpose[p] = "force" -> Goto(p, "create") /\ UNCHANGED <<callVars, result>>

Claimed_Unbounded(p) ==
  CASE purpose[p] = "reclaim" ->
         /\ attempt' = [attempt EXCEPT ![p] = @ + 1]
         /\ Goto(p, "create")
         /\ UNCHANGED <<purpose, nonce, force, result>>
    [] purpose[p] = "release" -> Goto(p, "idle") /\ Ends(p) /\ UNCHANGED result
    [] purpose[p] = "force" -> Goto(p, "create") /\ UNCHANGED <<callVars, result>>

Claimed_Endless(p) ==
  CASE purpose[p] = "reclaim" -> Goto(p, "create") /\ UNCHANGED <<callVars, result>>
    [] purpose[p] = "release" -> Goto(p, "idle") /\ Ends(p) /\ UNCHANGED result
    [] purpose[p] = "force" ->
         /\ purpose' = [purpose EXCEPT ![p] = "reclaim"]
         /\ Goto(p, "create")
         /\ UNCHANGED <<attempt, nonce, force, result>>

(* claimAndRemoveLock() returned, "removed" or "gone".                      *)
Claimed(p) ==
  CASE purpose[p] = "reclaim" ->
         IF attempt[p] = 1
         THEN /\ attempt' = [attempt EXCEPT ![p] = 2]
              /\ Goto(p, "create")
              /\ UNCHANGED <<purpose, nonce, force, result>>
         ELSE Fail(p, "LOCKED")
    [] purpose[p] = "release" ->
         Goto(p, "idle") /\ Ends(p) /\ UNCHANGED result
    [] purpose[p] = "force" ->  \* open() is called again, without a second force
         /\ attempt' = [attempt EXCEPT ![p] = 1]
         /\ purpose' = [purpose EXCEPT ![p] = "reclaim"]
         /\ Goto(p, "create")
         /\ UNCHANGED <<nonce, force, result>>

(* Rename the lock aside, whatever it is by now.                           *)
Claim(p) ==
  /\ pc[p] = "claim"
  /\ IF lock = NoFile
     THEN Claimed(p) /\ UNCHANGED <<lock, claim>>
     ELSE /\ claim' = [claim EXCEPT ![p] = lock]
          /\ lock' = NoFile
          /\ Goto(p, "judge")
          /\ UNCHANGED <<callVars, result>>
  /\ UNCHANGED content

Judge(p) ==
  /\ pc[p] = "judge"
  /\ Goto(p, IF Verdict(p, claim[p]) THEN "remove" ELSE "putback")
  /\ UNCHANGED <<callVars, lock, content, claim, result>>

(* Mutant: what is at the path is unlinked, not what was claimed.            *)
Remove_ByName(p) ==
  /\ pc[p] = "remove"
  /\ lock' = NoFile
  /\ claim' = [claim EXCEPT ![p] = NoFile]
  /\ Claimed(p)
  /\ UNCHANGED content

Remove(p) ==
  /\ pc[p] = "remove"
  /\ claim' = [claim EXCEPT ![p] = NoFile]
  /\ Claimed(p)
  /\ UNCHANGED <<lock, content>>

(* Rename a refused lock back, over whatever is there by now.               *)
PutBack(p) ==
  /\ pc[p] = "putback"
  /\ lock' = claim[p]
  /\ claim' = [claim EXCEPT ![p] = NoFile]
  /\ IF purpose[p] = "release"
     THEN Goto(p, "idle") /\ Ends(p) /\ UNCHANGED result
     ELSE Fail(p, "LOCKED")
  /\ UNCHANGED content

(* close(): the release function lock() returned.                          *)
Release(p) ==
  /\ pc[p] = "holding"
  /\ purpose' = [purpose EXCEPT ![p] = "release"]
  /\ Goto(p, "claim")
  /\ UNCHANGED <<lock, content, attempt, claim, nonce, force, result>>

(* forceUnlock(): its existsSync, then the claim.                          *)
ForceUnlock(p) ==
  /\ pc[p] = "force"
  /\ force' = [force EXCEPT ![p] = FALSE]
  /\ IF lock = NoFile
     THEN /\ attempt' = [attempt EXCEPT ![p] = 1]
          /\ Goto(p, "create")
          /\ UNCHANGED purpose
     ELSE /\ purpose' = [purpose EXCEPT ![p] = "force"]
          /\ Goto(p, "claim")
          /\ UNCHANGED attempt
  /\ UNCHANGED <<lock, content, claim, nonce, result>>

(* The process dies; its files stay.                                       *)
Crash(p) ==
  /\ pc[p] \in CrashAt
  /\ Goto(p, "dead")
  /\ purpose' = [purpose EXCEPT ![p] = "reclaim"]
  /\ attempt' = [attempt EXCEPT ![p] = 0]
  /\ nonce' = [nonce EXCEPT ![p] = 0]
  /\ force' = [force EXCEPT ![p] = FALSE]
  /\ result' = [result EXCEPT ![p] = "none"]
  /\ UNCHANGED <<lock, content, claim>>

-----------------------------------------------------------------------------

Work(p) == Create(p) \/ Write(p) \/ Check(p) \/ Claim(p) \/ Judge(p) \/ Remove(p)
             \/ PutBack(p) \/ ForceUnlock(p)

Step(p) == Lock(p) \/ Work(p) \/ WriteFails(p) \/ Release(p) \/ Crash(p)

Quiet(p) ==
  /\ \A q \in Procs \ {p} : pc[q] \in {"idle", "dead"}
  /\ lock = NoFile \/ VerifiablyDead(p, lock)

(* May p, without --force, take the lock at the path away?  Only a dead      *)
(* holder's, or its own.                                                   *)
Entitled(p) ==
  \/ purpose[p] = "reclaim" /\ VerifiablyDead(p, lock)
  \/ purpose[p] = "release" /\ lock = Mine(p)

Watch(p) ==
  /\ calm' = [q \in Procs |-> /\ q = p /\ pc'[p] # "dead"
                              /\ IF pc[p] = "idle" THEN Quiet(p) ELSE calm[p]]
  /\ stray' = (stray \/ (pc[p] = "claim" /\ pc'[p] = "judge" /\ ~Entitled(p)))

Next == \E p \in Procs : Step(p) /\ Watch(p)

Fairness == \A p \in Procs : WF_vars(Work(p) /\ Watch(p))

Spec == Init /\ [][Next]_vars /\ Fairness

-----------------------------------------------------------------------------

TypeOK ==
  /\ lock \in File \cup {NoFile}
  /\ content \in [File -> {"owner", "anonymous", "foreign"}]
  /\ pc \in [Procs -> {"idle", "create", "write", "check", "claim", "judge", "remove",
                       "putback", "holding", "force", "dead"}]
  /\ purpose \in [Procs -> {"reclaim", "release", "force"}]
  /\ attempt \in [Procs -> 0 .. 2]
  /\ claim \in [Procs -> File \cup {NoFile}]
  /\ nonce \in [Procs -> 0 .. MaxCalls]
  /\ force \in [Procs -> BOOLEAN]
  /\ result \in [Procs -> {"none", "acquired", "LOCKED", "IO"}]
  /\ calm \in [Procs -> BOOLEAN]
  /\ stray \in BOOLEAN

Writers == {p \in Procs : pc[p] = "holding"}

(* One writer at a time: what lock() is for.                               *)
MutualExclusion == \A p, q \in Writers : p = q

(* It is lost in one way only: a process renames aside a lock that is not its *)
(* own, nor a dead holder's, because it is no longer the one it checked        *)
(* (claimAndRemoveLock), or because of --force.  Nothing else that processes   *)
(* do, and no death at any system call, makes two writers.                   *)
ExclusionUnlessStray == ~stray => MutualExclusion

(* What is deleted, as opposed to renamed, is never the lock of a process    *)
(* that is alive, whoever raced the reclaim: only a dead holder's, or the    *)
(* releasing process's own (the verdict on the claimed bytes).  A file found   *)
(* there that is no lock at all is not deleted even with --force.            *)
DeletesNoLiveLock ==
  \A p \in Procs :
    pc[p] = "remove" =>
      /\ \/ purpose[p] = "force"
         \/ purpose[p] = "release" /\ claim[p] = Mine(p)
         \/ ~Alive(claim[p].proc)
      /\ claim[p] = Leftover => content[Leftover] # "foreign"

(* A lock left by a dead process on this host is reclaimed without a flag:   *)
(* with no other process about, and no file or such a lock at the path,      *)
(* lock() is not refused.                                                  *)
StaleLockYields == \A p \in Procs : calm[p] => result[p] # "LOCKED"

(* Nor does a lock outlive the instance that took it in any other way but one:  *)
(* a process that neither has the lock nor is in a call, refused or released,   *)
(* left no lock of that call at the path, where its pid, still alive, would     *)
(* refuse every later open, unless the write of its owner record failed        *)
(* (tryCreateLock, which does not remove what it created).                  *)
NoOrphan ==
  ~stray => \A p \in Procs : pc[p] = "idle" /\ lock = Mine(p) => result[p] = "IO"

(* Every call of lock(), with a force or without, and every release ends,     *)
(* however often other processes take and release the lock meanwhile.        *)
Resting == {"idle", "holding", "dead"}
CallsEnd == \A p \in Procs : pc[p] \notin Resting ~> pc[p] \in Resting
=============================================================================
