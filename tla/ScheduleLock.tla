---------------------------- MODULE ScheduleLock ----------------------------
(***************************************************************************)
(* The exec lock of one schedule (src/schedule/exec.ts): the file that     *)
(* keeps two "schedule exec" processes from running its command at once,   *)
(* and the .steal claim under which one of them replaces a stale lock.     *)
(*                                                                         *)
(* The processes share only the file system, so one action is one system   *)
(* call: a link(), a read, a probe of a pid, an unlink().  A file is       *)
(* written under a temporary name and linked, so it appears with its       *)
(* contents; the model keeps its pid.  A claim's token is left out: a      *)
(* process has one claim at a time, and removes the claim of a dead        *)
(* process only, so pid and token change together.  A process executes the *)
(* schedule once, and pids are not reused.                                 *)
(***************************************************************************)
EXTENDS Naturals, FiniteSets

CONSTANTS
    Proc,       \* the processes that execute the schedule
    Former,     \* the pid of an execution that died before this behaviour
    Missing,    \* contents of a file that does not exist
    Pidless,    \* contents without a pid
    LeftLocks,  \* what the lock file can be when the behaviour begins
    LeftClaims, \* what the claim file can be then
    MaxCrashes  \* bound: processes killed while they hold or seek the lock

ASSUME FilesAssumption ==
    /\ Cardinality({Former, Missing, Pidless}) = 3
    /\ {Former, Missing, Pidless} \cap Proc = {}
    /\ LeftLocks \subseteq {Former, Missing, Pidless}
    /\ LeftClaims \subseteq {Former, Missing, Pidless}
    /\ MaxCrashes \in Nat

VARIABLES
    lock,       \* contents of <name>.lock
    claim,      \* contents of <name>.lock.steal
    live,       \* the processes that pidAlive() finds
    pc,         \* pc[p]: the system call p makes next
    seen,       \* seen[p]: what p last read from the lock or the claim
    verdict     \* verdict[p]: where p goes once it has released its claim

lockVars == <<lock, claim, live, pc, seen, verdict>>

Pids  == Proc \cup {Former}
Files == Pids \cup {Missing, Pidless}

(* Where a process ends: after its execution, because an execution is      *)
(* still active, because the file system refused a temporary file.         *)
Ended == {"done", "refused", "failed"}

(* p holds the steal claim it created, as far as it knows.                 *)
Stealing == {"check", "reread", "rereadAgain", "recheck", "probeAgain",
             "remove", "recreate", "release", "unclaim"}

Labels == {"idle", "create", "read", "readAgain", "probe", "claim", "stat",
           "text", "statAgain", "textAgain", "probeClaim", "restat",
           "retext", "reap", "run", "verify", "unlock"} \cup Stealing \cup Ended

LockInit ==
    /\ lock \in LeftLocks
    /\ claim \in LeftClaims
    /\ live = {}
    /\ pc = [p \in Proc |-> "idle"]
    /\ seen = [p \in Proc |-> Missing]
    /\ verdict = [p \in Proc |-> "undecided"]

At(p, label) == p \in live /\ pc[p] = label
Goto(p, label) == pc' = [pc EXCEPT ![p] = label]

(* Cron, or the TUI's "e" key, starts an execution.                        *)
Wake(p) ==
    /\ pc[p] = "idle"
    /\ live' = live \cup {p}
    /\ Goto(p, "create")
    /\ UNCHANGED <<lock, claim, seen, verdict>>

(* tryCreatePopulatedLock(), first thing in acquireLock()'s loop.          *)
CreateLock(p) ==
    /\ At(p, "create")
    /\ \/ lock = Missing /\ lock' = p /\ Goto(p, "run")
       \/ lock # Missing /\ lock' = lock /\ Goto(p, "read")
    /\ UNCHANGED <<claim, live, seen, verdict>>

(* A read that is repeated once, after LOCK_SETTLE_MS, if there is no pid. *)
ReadSettled(p, file, first, retry, second, next) ==
    /\ At(p, first) \/ At(p, second)
    /\ seen' = [seen EXCEPT ![p] = file]
    /\ Goto(p, IF file \notin Pids /\ pc[p] = first THEN retry ELSE next)
    /\ UNCHANGED <<lock, claim, live, verdict>>

ReadLock(p)   == ReadSettled(p, lock, "read", "readAgain", "readAgain", "probe")
RereadLock(p) == ReadSettled(p, lock, "reread", "rereadAgain", "rereadAgain", "recheck")

(* pidAlive() of the pid read before, if there was one: yes and no are the *)
(* labels where p goes.                                                    *)
Probe(p, label, yes, no) ==
    /\ At(p, label)
    /\ Goto(p, IF seen[p] \in live THEN yes ELSE no)
    /\ UNCHANGED <<lock, claim, live, seen>>

ProbeLock(p)  == Probe(p, "probe", "refused", "claim") /\ UNCHANGED verdict

(* tryCreateStaleLockClaim().                                              *)
CreateClaim(p) ==
    /\ At(p, "claim")
    /\ \/ claim = Missing /\ claim' = p /\ Goto(p, "check")
       \/ claim # Missing /\ claim' = claim /\ Goto(p, "stat")
    /\ UNCHANGED <<lock, live, seen, verdict>>

(* readStaleLockClaimOwner(): lstat, then read.  A claim that vanishes in  *)
(* between is a file without a pid (seen is Missing); one that is gone at  *)
(* lstat needs no reaping.                                                 *)
StatClaim(p) ==
    /\ \/ At(p, "stat") /\ Goto(p, IF claim = Missing THEN "claim" ELSE "text")
       \/ At(p, "statAgain") /\ Goto(p, IF claim = Missing THEN "claim" ELSE "textAgain")
       \/ At(p, "restat") /\ Goto(p, IF claim = Missing THEN "claim" ELSE "retext")
    /\ UNCHANGED <<lock, claim, live, seen, verdict>>

ReadClaim(p) == ReadSettled(p, claim, "text", "statAgain", "textAgain", "probeClaim")
(* Mutant: a claim without a pid is taken for one its owner still writes.  *)
ProbeClaimTrusting(p) ==
    /\ At(p, "probeClaim")
    /\ Goto(p, IF seen[p] \in live \cup {Pidless} THEN "refused" ELSE "restat")
    /\ UNCHANGED <<lock, claim, live, seen, verdict>>

ProbeClaim(p) == Probe(p, "probeClaim", "refused", "restat") /\ UNCHANGED verdict

(* tryReapStaleLockClaim(): the owner read again, then rmSync().           *)
CompareClaim(p) ==
    /\ At(p, "retext")
    /\ Goto(p, IF claim = seen[p] THEN "reap" ELSE "claim")
    /\ UNCHANGED <<lock, claim, live, seen, verdict>>

(* Mutant: rmSync() without recursive leaves a claim that is a directory.  *)
ReapClaimFile(p) ==
    /\ At(p, "reap")
    /\ claim' = IF claim = Pidless THEN claim ELSE Missing
    /\ Goto(p, "claim")
    /\ UNCHANGED <<lock, live, seen, verdict>>

ReapClaim(p) ==
    /\ At(p, "reap")
    /\ claim' = Missing
    /\ Goto(p, "claim")
    /\ UNCHANGED <<lock, live, seen, verdict>>

(* Mutant: the lock is not read again under the claim.                     *)
CheckClaimOnce(p) ==
    /\ At(p, "check") \/ At(p, "recheck")
    /\ Goto(p, IF claim = p THEN "remove" ELSE "create")
    /\ UNCHANGED <<lock, claim, live, seen, verdict>>

(* staleLockClaimMatches(), before and after the lock is read again.  A    *)
(* claim that was lost does not come back: continue, nothing to release.   *)
CheckClaim(p) ==
    /\ \/ At(p, "check") /\ Goto(p, IF claim = p THEN "reread" ELSE "create")
       \/ At(p, "recheck") /\ Goto(p, IF claim = p THEN "probeAgain" ELSE "create")
    /\ UNCHANGED <<lock, claim, live, seen, verdict>>

(* Mutant: the refusal bypasses the finally.                              *)
ProbeAgainUnreleased(p) ==
    Probe(p, "probeAgain", "refused", "remove") /\ UNCHANGED verdict

ProbeAgain(p) ==
    /\ Probe(p, "probeAgain", "release", "remove")
    /\ verdict' = [verdict EXCEPT ![p] = "refused"]

RemoveLock(p) ==
    /\ At(p, "remove")
    /\ lock' = Missing
    /\ Goto(p, "recreate")
    /\ UNCHANGED <<claim, live, seen, verdict>>

RecreateLock(p) ==
    /\ At(p, "recreate")
    /\ Goto(p, "release")
    /\ \/ /\ lock = Missing
          /\ lock' = p
          /\ verdict' = [verdict EXCEPT ![p] = "run"]
       \/ /\ lock # Missing
          /\ lock' = lock
          /\ verdict' = [verdict EXCEPT ![p] = "create"]
    /\ UNCHANGED <<claim, live, seen>>

(* releaseStaleLockClaim(), in acquireLock()'s finally.                    *)
ReleaseClaim(p) ==
    /\ At(p, "release")
    /\ Goto(p, IF claim = p THEN "unclaim" ELSE verdict[p])
    /\ UNCHANGED <<lock, claim, live, seen, verdict>>

Unclaim(p) ==
    /\ At(p, "unclaim")
    /\ claim' = Missing
    /\ Goto(p, verdict[p])
    /\ UNCHANGED <<lock, live, seen, verdict>>

(* The temporary file cannot be written: the exception ends the execution, *)
(* through the finally if p holds a claim.                                 *)
NoSpace(p) ==
    /\ \/ /\ At(p, "create") \/ At(p, "claim")
          /\ Goto(p, "failed")
          /\ verdict' = verdict
       \/ /\ At(p, "recreate")
          /\ Goto(p, "release")
          /\ verdict' = [verdict EXCEPT ![p] = "failed"]
    /\ UNCHANGED <<lock, claim, live, seen>>

(* The command has returned and the spec is updated (ScheduleExec).        *)
Finish(p) ==
    /\ At(p, "run")
    /\ Goto(p, "verify")
    /\ UNCHANGED <<lock, claim, live, seen, verdict>>

(* releaseLock().                                                          *)
VerifyLock(p) ==
    /\ At(p, "verify")
    /\ Goto(p, IF lock = p THEN "unlock" ELSE "done")
    /\ UNCHANGED <<lock, claim, live, seen, verdict>>

Unlock(p) ==
    /\ At(p, "unlock")
    /\ lock' = Missing
    /\ Goto(p, "done")
    /\ UNCHANGED <<claim, live, seen, verdict>>

Exit(p) ==
    /\ p \in live
    /\ pc[p] \in Ended
    /\ live' = live \ {p}
    /\ UNCHANGED <<lock, claim, pc, seen, verdict>>

Crashed == {p \in Proc \ live : pc[p] \notin Ended \cup {"idle"}}

Crash(p) ==
    /\ p \in live
    /\ pc[p] \notin Ended
    /\ Cardinality(Crashed) < MaxCrashes
    /\ live' = live \ {p}
    /\ UNCHANGED <<lock, claim, pc, seen, verdict>>
-----------------------------------------------------------------------------
(* acquireLock() up to its return, without its failures.                   *)
AcquireStep(p) ==
    \/ CreateLock(p) \/ ReadLock(p) \/ ProbeLock(p)
    \/ CreateClaim(p) \/ StatClaim(p) \/ ReadClaim(p) \/ ProbeClaim(p)
    \/ CompareClaim(p) \/ ReapClaim(p)
    \/ CheckClaim(p) \/ RereadLock(p) \/ ProbeAgain(p)
    \/ RemoveLock(p) \/ RecreateLock(p) \/ ReleaseClaim(p) \/ Unclaim(p)

ReleaseStep(p) == VerifyLock(p) \/ Unlock(p) \/ Exit(p)

LockNext ==
    \E p \in Proc :
        \/ Wake(p) \/ Finish(p)
        \/ AcquireStep(p) \/ ReleaseStep(p)
        \/ NoSpace(p) \/ Crash(p)

LockSpec == LockInit /\ [][LockNext]_lockVars

(* The operating system runs every process that can run.  How long a       *)
(* command takes (Finish) is not assumed.                                  *)
LockFairSpec ==
    LockSpec /\ \A p \in Proc : WF_lockVars(AcquireStep(p) \/ ReleaseStep(p))
-----------------------------------------------------------------------------
(* The files hold a pid or nothing readable; a process that releases its    *)
(* claim has decided what its attempt came to (acquireLock() returns in a  *)
(* try whose finally releases).                                            *)
LockTypeOK ==
    /\ lock \in Files
    /\ claim \in Files
    /\ live \subseteq Proc
    /\ pc \in [Proc -> Labels]
    /\ seen \in [Proc -> Files]
    /\ verdict \in [Proc -> {"undecided", "create", "run", "refused", "failed"}]
    /\ \A p \in Proc :
         pc[p] \in {"release", "unclaim"} => verdict[p] # "undecided"

(* p has the lock and keeps it: acquireLock() has created the file, and    *)
(* returns or has returned true.                                           *)
Holds(p) ==
    /\ p \in live
    /\ \/ pc[p] = "run"
       \/ pc[p] \in {"release", "unclaim"} /\ verdict[p] = "run"

(* Two executions never run the schedule's command at once.                *)
MutualExclusion == \A p, q \in Proc : Holds(p) /\ Holds(q) => p = q

(* Nothing has gone wrong, and no execution has come to its end yet: only  *)
(* wakes, and whatever lock an earlier execution left.                     *)
Calm ==
    /\ LeftClaims = {Missing}
    /\ Crashed = {}
    /\ \A p \in Proc : pc[p] \notin {"verify", "unlock", "done", "failed"}

(* A slow execution never stacks up with a later wake, whatever stale lock *)
(* the wakes contended for (docs/schedule.md:103, tests "serializes        *)
(* concurrent stale-lock stealers").                                       *)
SlowRunsNeverOverlap == Calm => MutualExclusion

(* An execution that ends on its own leaves neither its lock nor its claim *)
(* behind, whoever stole, reaped or gave up meanwhile: the next wake of    *)
(* the schedule finds nothing of it.                                       *)
NothingLeftBehind ==
    \A p \in Proc : pc[p] \in Ended => lock # p /\ claim # p

(* acquireLock() loops, but every execution gets an answer: no two of them *)
(* can make each other retry for ever.                                     *)
AcquireReturns ==
    \A p \in Proc :
        pc[p] = "create" ~> pc[p] \in Ended \cup {"run"} \/ p \in Crashed

(* Whatever dead executions left, a lock or a claim, an execution that is  *)
(* on its own gets the lock: a crash never disables the schedule.          *)
Alone(p) == At(p, "create") /\ \A q \in Proc \ {p} : pc[q] # "idle" /\ q \notin live
StaleNeverBlocks ==
    \A p \in Proc : Alone(p) ~> pc[p] \in {"run", "failed"} \/ p \in Crashed

(* Every execution gets an answer, and whoever has no rival the lock.      *)
LockAnswers == AcquireReturns /\ StaleNeverBlocks
=============================================================================
