------------------------- MODULE ScheduleExec_proofs -------------------------
(***************************************************************************)
(* Proofs about ScheduleLock and ScheduleExec, for any set of processes:   *)
(* what a process that ends leaves behind of the lock, and why a slow      *)
(* execution never overlaps with a later one; that the executions and      *)
(* commands of ScheduleExec use the lock only by its protocol, so this     *)
(* holds of them too; and that while the lock excludes, the spec's count   *)
(* and retirement are exact.                                               *)
(***************************************************************************)
EXTENDS ScheduleExec, FiniteSetTheorems, TLAPS

(* p has created the lock, and neither given it up nor lost it.            *)
Has(p) == pc[p] = "run" \/ (pc[p] \in {"release", "unclaim"} /\ verdict[p] = "run")

(* The files belong to processes that know it.                             *)
FilesHaveOwners ==
    /\ LeftClaims = {Missing} => claim \in Proc \cup {Missing}
    /\ \A p \in Proc :
         /\ lock = p => Has(p) \/ pc[p] \in {"verify", "unlock"}
         /\ claim = p => pc[p] \in Stealing

(* While the lock has a live owner, nobody is about to remove it, and who  *)
(* has read it again under the claim has seen its owner.                   *)
HeldIsRespected ==
    \A p \in Proc :
        /\ Has(p) => lock = p
        /\ lock \in Proc => /\ pc[p] # "remove"
                            /\ pc[p] \in {"recheck", "probeAgain"} => seen[p] = lock

(* While it has none, no claim was released yet: the claim is its only     *)
(* thief's, and nobody has seen a claim vanish, so nobody reaps it.        *)
OneThief ==
    lock \notin Proc =>
        \A p \in Proc :
            /\ pc[p] \in Stealing => claim = p
            /\ pc[p] \in {"recheck", "probeAgain"} => seen[p] \notin Proc
            /\ pc[p] = "text" => claim \in Proc
            /\ pc[p] = "probeClaim" => seen[p] = claim /\ claim \in Proc
            /\ pc[p] \notin {"statAgain", "textAgain", "restat", "retext", "reap"}
            /\ pc[p] = "recreate" => lock = Missing
            /\ pc[p] \in {"release", "unclaim"} => lock = Missing /\ verdict[p] = "failed"

(* The lock is missing because nobody came yet, or in the thief's hands.   *)
MissingIsExplained ==
    lock = Missing =>
        \/ \A p \in Proc : pc[p] \in {"idle", "create"}
        \/ \E p \in Proc : pc[p] \in {"recreate", "release", "unclaim"}

CalmInv == Calm => HeldIsRespected /\ OneThief /\ MissingIsExplained
-----------------------------------------------------------------------------
(* The four special values are four, and no process.                       *)
LEMMA SpecialsDiffer ==
    /\ Former # Missing /\ Former # Pidless /\ Missing # Pidless
    /\ Former \notin Proc /\ Missing \notin Proc /\ Pidless \notin Proc
<1>1. Former # Missing /\ Former # Pidless /\ Missing # Pidless
  <2>1. ASSUME NEW a, NEW b PROVE Cardinality({a, b}) # 3
    <3>1. IsFiniteSet({a}) /\ Cardinality({a}) = 1
      BY FS_Singleton
    <3>2. Cardinality({a} \cup {b}) \in {1, 2}
      BY <3>1, FS_AddElement
    <3>3. {a, b} = {a} \cup {b}
      OBVIOUS
    <3> QED BY <3>2, <3>3
  <2>2. Former # Missing
    <3> SUFFICES ASSUME Former = Missing PROVE FALSE
      OBVIOUS
    <3>1. {Former, Missing, Pidless} = {Former, Pidless}
      OBVIOUS
    <3> QED BY <3>1, <2>1, FilesAssumption
  <2>3. Former # Pidless
    <3> SUFFICES ASSUME Former = Pidless PROVE FALSE
      OBVIOUS
    <3>1. {Former, Missing, Pidless} = {Former, Missing}
      OBVIOUS
    <3> QED BY <3>1, <2>1, FilesAssumption
  <2>4. Missing # Pidless
    <3> SUFFICES ASSUME Missing = Pidless PROVE FALSE
      OBVIOUS
    <3>1. {Former, Missing, Pidless} = {Former, Missing}
      OBVIOUS
    <3> QED BY <3>1, <2>1, FilesAssumption
  <2> QED BY <2>2, <2>3, <2>4
<1>2. Former \notin Proc /\ Missing \notin Proc /\ Pidless \notin Proc
  BY FilesAssumption
<1> QED BY <1>1, <1>2

(* Types survive every step.                                               *)
LEMMA TypesStep ==
    ASSUME LockTypeOK, [LockNext]_lockVars
    PROVE  LockTypeOK'
<1> USE DEF LockTypeOK, Files, Pids
<1>1. CASE UNCHANGED lockVars
  BY <1>1 DEF lockVars
<1>2. ASSUME NEW p \in Proc, Wake(p) \/ Finish(p) \/ ReleaseStep(p) \/ NoSpace(p) \/ Crash(p)
      PROVE  LockTypeOK'
  BY <1>2 DEF Wake, Finish, ReleaseStep, VerifyLock, Unlock, Exit, NoSpace, Crash, At, Goto, Labels, Stealing, Ended
<1>3. ASSUME NEW p \in Proc, AcquireStep(p)
      PROVE  LockTypeOK'
  <2> USE DEF At, Goto, Labels, Stealing, Ended
  <2>1. CASE CreateLock(p)
    BY <2>1 DEF CreateLock
  <2>2. CASE ReadLock(p)
    BY <2>2 DEF ReadLock, ReadSettled
  <2>3. CASE ProbeLock(p)
    BY <2>3 DEF ProbeLock, Probe
  <2>4. CASE CreateClaim(p)
    BY <2>4 DEF CreateClaim
  <2>5. CASE StatClaim(p)
    BY <2>5 DEF StatClaim
  <2>6. CASE ReadClaim(p)
    BY <2>6 DEF ReadClaim, ReadSettled
  <2>7. CASE ProbeClaim(p)
    BY <2>7 DEF ProbeClaim, Probe
  <2>8. CASE CompareClaim(p)
    BY <2>8 DEF CompareClaim
  <2>9. CASE ReapClaim(p)
    BY <2>9 DEF ReapClaim
  <2>10. CASE CheckClaim(p)
    BY <2>10 DEF CheckClaim
  <2>11. CASE RereadLock(p)
    BY <2>11 DEF RereadLock, ReadSettled
  <2>12. CASE ProbeAgain(p)
    BY <2>12 DEF ProbeAgain, Probe
  <2>13. CASE RemoveLock(p)
    BY <2>13 DEF RemoveLock
  <2>14. CASE RecreateLock(p)
    BY <2>14 DEF RecreateLock
  <2>15. CASE ReleaseClaim(p)
    BY <2>15 DEF ReleaseClaim
  <2>16. CASE Unclaim(p)
    BY <2>16 DEF Unclaim
  <2> QED BY <1>3, <2>1, <2>2, <2>3, <2>4, <2>5, <2>6, <2>7, <2>8, <2>9, <2>10, <2>11, <2>12, <2>13, <2>14, <2>15, <2>16 DEF AcquireStep
<1> QED BY <1>1, <1>2, <1>3 DEF LockNext

(* Files keep their owners at every step.                                  *)
LEMMA OwnersStep ==
    ASSUME LockTypeOK, FilesHaveOwners, [LockNext]_lockVars
    PROVE  FilesHaveOwners'
<1>1. CASE UNCHANGED lockVars
  BY <1>1 DEF lockVars, FilesHaveOwners, Has
<1>2. ASSUME NEW p \in Proc,
             \/ Wake(p) \/ Finish(p) \/ AcquireStep(p) \/ ReleaseStep(p)
             \/ NoSpace(p) \/ Crash(p)
      PROVE  FilesHaveOwners'
  <2> USE SpecialsDiffer DEF LockTypeOK, FilesHaveOwners, Has, At, Goto, Stealing
  <2>1. CASE CreateLock(p)
    BY <2>1 DEF CreateLock
  <2>2. CASE ReadLock(p)
    BY <2>2 DEF ReadLock, ReadSettled
  <2>3. CASE ProbeLock(p)
    BY <2>3 DEF ProbeLock, Probe
  <2>4. CASE CreateClaim(p)
    BY <2>4 DEF CreateClaim
  <2>5. CASE StatClaim(p)
    BY <2>5 DEF StatClaim
  <2>6. CASE ReadClaim(p)
    BY <2>6 DEF ReadClaim, ReadSettled
  <2>7. CASE ProbeClaim(p)
    BY <2>7 DEF ProbeClaim, Probe
  <2>8. CASE CompareClaim(p)
    BY <2>8 DEF CompareClaim
  <2>9. CASE ReapClaim(p)
    BY <2>9 DEF ReapClaim
  <2>10. CASE CheckClaim(p)
    BY <2>10 DEF CheckClaim
  <2>11. CASE RereadLock(p)
    BY <2>11 DEF RereadLock, ReadSettled
  <2>12. CASE ProbeAgain(p)
    BY <2>12 DEF ProbeAgain, Probe
  <2>13. CASE RemoveLock(p)
    BY <2>13 DEF RemoveLock
  <2>14. CASE RecreateLock(p)
    BY <2>14 DEF RecreateLock
  <2>15. CASE ReleaseClaim(p)
    BY <2>15 DEF ReleaseClaim
  <2>16. CASE Unclaim(p)
    BY <2>16 DEF Unclaim
  <2>17. CASE VerifyLock(p)
    BY <2>17 DEF VerifyLock
  <2>18. CASE Unlock(p)
    BY <2>18 DEF Unlock
  <2>19. CASE Exit(p)
    BY <2>19 DEF Exit
  <2>20. CASE Wake(p)
    BY <2>20 DEF Wake
  <2>21. CASE Finish(p)
    BY <2>21 DEF Finish
  <2>22. CASE NoSpace(p)
    BY <2>22 DEF NoSpace
  <2>23. CASE Crash(p)
    BY <2>23 DEF Crash
  <2> QED BY <1>2, <2>1, <2>2, <2>3, <2>4, <2>5, <2>6, <2>7, <2>8, <2>9, <2>10, <2>11, <2>12, <2>13, <2>14, <2>15, <2>16, <2>17, <2>18, <2>19, <2>20, <2>21, <2>22, <2>23 DEF AcquireStep, ReleaseStep
<1> QED BY <1>1, <1>2 DEF LockNext

(* A step cannot make a disturbed lock calm.                               *)
LEMMA CalmPast ==
    ASSUME LockTypeOK, [LockNext]_lockVars, Calm'
    PROVE  Calm
<1>1. CASE UNCHANGED lockVars
  BY <1>1 DEF lockVars, Calm, Crashed, Ended
<1>2. ASSUME NEW p \in Proc,
             \/ Wake(p) \/ Finish(p) \/ AcquireStep(p) \/ ReleaseStep(p)
             \/ NoSpace(p) \/ Crash(p)
      PROVE  Calm
  <2>a. ASSUME NEW q \in Proc \ {p}
        PROVE  pc'[q] = pc[q] /\ (q \in live' <=> q \in live)
    BY <1>2 DEF LockTypeOK, Wake, Finish, AcquireStep, ReleaseStep, NoSpace, Crash, CreateLock,
       ReadLock, ReadSettled, ProbeLock, Probe, CreateClaim, StatClaim, ReadClaim, ProbeClaim,
       CompareClaim, ReapClaim, CheckClaim, RereadLock, ProbeAgain, RemoveLock, RecreateLock,
       ReleaseClaim, Unclaim, VerifyLock, Unlock, Exit, At, Goto
  <2>b. (p \in live \/ pc[p] = "idle")
        /\ (pc[p] \in {"verify", "unlock", "done", "failed"} =>
              pc'[p] \in {"verify", "unlock", "done", "failed"})
    BY <1>2 DEF LockTypeOK, Wake, Finish, AcquireStep, ReleaseStep, NoSpace, Crash, CreateLock,
       ReadLock, ReadSettled, ProbeLock, Probe, CreateClaim, StatClaim, ReadClaim, ProbeClaim,
       CompareClaim, ReapClaim, CheckClaim, RereadLock, ProbeAgain, RemoveLock, RecreateLock,
       ReleaseClaim, Unclaim, VerifyLock, Unlock, Exit, At, Goto
  <2>c. Crashed = {}
    BY <2>a, <2>b DEF Calm, Crashed
  <2>d. ASSUME NEW q \in Proc
        PROVE  pc[q] \notin {"verify", "unlock", "done", "failed"}
    BY <2>a, <2>b DEF Calm
  <2> QED BY <2>c, <2>d DEF Calm
<1> QED BY <1>1, <1>2 DEF LockNext

(* While it is calm, the thief is one and the owner is respected.          *)
LEMMA CalmStep ==
    ASSUME LockTypeOK, FilesHaveOwners, CalmInv, [LockNext]_lockVars
    PROVE  CalmInv'
<1> SUFFICES ASSUME Calm' PROVE (HeldIsRespected /\ OneThief /\ MissingIsExplained)'
  BY DEF CalmInv
<1>0. Calm /\ HeldIsRespected /\ OneThief /\ MissingIsExplained
  BY CalmPast DEF CalmInv
<1>1. CASE UNCHANGED lockVars
  BY <1>0, <1>1 DEF lockVars, HeldIsRespected, OneThief, MissingIsExplained, Has, Stealing
<1>2. ASSUME NEW p \in Proc,
             \/ Wake(p) \/ Finish(p) \/ AcquireStep(p) \/ ReleaseStep(p)
             \/ NoSpace(p) \/ Crash(p)
      PROVE  (HeldIsRespected /\ OneThief /\ MissingIsExplained)'
  <2> USE <1>0, SpecialsDiffer DEF LockTypeOK, FilesHaveOwners, HeldIsRespected, OneThief,
         MissingIsExplained, Has, Calm, Crashed, At, Goto, Stealing, Ended, Pids
  <2>1. CASE CreateLock(p)
    BY <2>1 DEF CreateLock
  <2>2. CASE ReadLock(p)
    BY <2>2 DEF ReadLock, ReadSettled
  <2>3. CASE ProbeLock(p)
    BY <2>3 DEF ProbeLock, Probe
  <2>4. CASE CreateClaim(p)
    BY <2>4 DEF CreateClaim
  <2>5. CASE StatClaim(p)
    BY <2>5 DEF StatClaim
  <2>6. CASE ReadClaim(p)
    BY <2>6 DEF ReadClaim, ReadSettled
  <2>7. CASE ProbeClaim(p)
    BY <2>7 DEF ProbeClaim, Probe
  <2>8. CASE CompareClaim(p)
    BY <2>8 DEF CompareClaim
  <2>9. CASE ReapClaim(p)
    BY <2>9 DEF ReapClaim
  <2>10. CASE CheckClaim(p)
    BY <2>10 DEF CheckClaim
  <2>11. CASE RereadLock(p)
    BY <2>11 DEF RereadLock, ReadSettled
  <2>12. CASE ProbeAgain(p)
    BY <2>12 DEF ProbeAgain, Probe
  <2>13. CASE RemoveLock(p)
    BY <2>13 DEF RemoveLock
  <2>14. CASE RecreateLock(p)
    BY <2>14 DEF RecreateLock
  <2>15. CASE ReleaseClaim(p)
    BY <2>15 DEF ReleaseClaim
  <2>16. CASE Unclaim(p)
    BY <2>16 DEF Unclaim
  <2>17. CASE VerifyLock(p)
    BY <2>17 DEF VerifyLock
  <2>18. CASE Unlock(p)
    BY <2>18 DEF Unlock
  <2>19. CASE Exit(p)
    BY <2>19 DEF Exit
  <2>20. CASE Wake(p)
    BY <2>20 DEF Wake
  <2>21. CASE Finish(p)
    BY <2>21 DEF Finish
  <2>22. CASE NoSpace(p)
    BY <2>22 DEF NoSpace
  <2>23. CASE Crash(p)
    BY <2>23 DEF Crash
  <2> QED BY <1>2, <2>1, <2>2, <2>3, <2>4, <2>5, <2>6, <2>7, <2>8, <2>9, <2>10, <2>11, <2>12, <2>13, <2>14, <2>15, <2>16, <2>17, <2>18, <2>19, <2>20, <2>21, <2>22, <2>23 DEF AcquireStep, ReleaseStep
<1> QED BY <1>1, <1>2 DEF LockNext
-----------------------------------------------------------------------------
LockInv == LockTypeOK /\ FilesHaveOwners /\ CalmInv

LEMMA LockStarts == LockInit => LockInv
<1> SUFFICES ASSUME LockInit PROVE LockInv
  OBVIOUS
<1> USE SpecialsDiffer, FilesAssumption DEF LockInit
<1>1. LockTypeOK
  BY DEF LockTypeOK, Files, Pids, Labels
<1>2. FilesHaveOwners
  BY DEF FilesHaveOwners
<1>3. CalmInv
  BY DEF CalmInv, HeldIsRespected, OneThief, MissingIsExplained, Has, Stealing
<1> QED BY <1>1, <1>2, <1>3 DEF LockInv

(* Every reachable state of the lock satisfies its invariant.              *)
THEOREM LockSafety == LockSpec => []LockInv
<1>1. LockInv /\ [LockNext]_lockVars => LockInv'
  BY TypesStep, OwnersStep, CalmStep DEF LockInv
<1> QED BY <1>1, LockStarts, PTL DEF LockSpec

(* A claim's release always knows where acquireLock() goes on.             *)
THEOREM LockTypes == LockSpec => []LockTypeOK
<1>1. LockInv => LockTypeOK
  BY DEF LockInv
<1> QED BY <1>1, LockSafety, PTL

(* An execution that ends on its own leaves neither file behind, for any   *)
(* number of processes, leftovers and crashes of others.                   *)
THEOREM EndsClean == LockSpec => []NothingLeftBehind
<1>1. LockInv => NothingLeftBehind
  BY DEF LockInv, FilesHaveOwners, NothingLeftBehind, Has, Stealing, Ended
<1> QED BY <1>1, LockSafety, PTL

(* However many wakes contend for whatever lock was left, a slow execution *)
(* never overlaps with another one.                                        *)
THEOREM NoStacking == LockSpec => []SlowRunsNeverOverlap
<1>1. LockInv => SlowRunsNeverOverlap
  BY DEF LockInv, CalmInv, HeldIsRespected, SlowRunsNeverOverlap, MutualExclusion, Holds, Has
<1> QED BY <1>1, LockSafety, PTL

(* At most two wakes contend, and no claim was left to reap.               *)
TwoWakes == LeftClaims = {Missing} /\ \A p, q, r \in Proc : p = q \/ q = r \/ p = r

(* Two wakes exclude each other whatever lock they find and whichever of   *)
(* them fails, crashes or ends: what a lock that is no longer calm has     *)
(* done was done by one of them, which has no lock any more.               *)
THEOREM TwoExclude == ASSUME TwoWakes PROVE LockSpec => []MutualExclusion
<1>1. SlowRunsNeverOverlap => MutualExclusion
  <2> SUFFICES ASSUME ~Calm PROVE MutualExclusion
    BY DEF SlowRunsNeverOverlap
  <2>1. PICK r \in Proc : r \notin live \/ pc[r] \in {"verify", "unlock", "done", "failed"}
    BY DEF TwoWakes, Calm, Crashed
  <2>2. ~Holds(r)
    BY <2>1 DEF Holds
  <2> QED BY <2>2 DEF MutualExclusion, TwoWakes
<1> QED BY <1>1, NoStacking, PTL
-----------------------------------------------------------------------------
(* Whatever happens to the spec and the crontab, the lock sees a step of   *)
(* its own or none.                                                        *)
LEMMA StepIsLockStep ==
    ASSUME [Next]_execVars
    PROVE  [LockNext]_lockVars
<1>1. CASE UNCHANGED execVars
  BY <1>1 DEF execVars, lockVars
<1>2. ASSUME NEW p \in Proc, Begin(p)
      PROVE  [LockNext]_lockVars
  BY <1>2 DEF Begin, LockNext, lockVars
<1>3. ASSUME NEW p \in Proc, Executing(p)
      PROVE  [LockNext]_lockVars
  <2>1. CASE RunCommand(p)
    BY <2>1 DEF RunCommand
  <2>2. ASSUME NEW done \in BOOLEAN, CommandReturns(p, done)
        PROVE  [LockNext]_lockVars
    BY <2>2 DEF CommandReturns, BeginUpdate, LockNext
  <2>3. CASE Unschedule(p)
    BY <2>3 DEF Unschedule
  <2>4. CASE EmptySpec(p)
    BY <2>4 DEF EmptySpec
  <2>5. CASE WriteSpec(p)
    BY <2>5 DEF WriteSpec, LockNext
  <2>6. CASE AcquireStep(p) \/ ReleaseStep(p)
    BY <2>6 DEF LockNext
  <2> QED BY <1>3, <2>1, <2>2, <2>3, <2>4, <2>5, <2>6 DEF Executing
<1>4. ASSUME NEW p \in Proc, Disturbing(p)
      PROVE  [LockNext]_lockVars
  BY <1>4 DEF Disturbing, LockNext
<1>5. ASSUME NEW m \in Mgr, Managing(m)
      PROVE  [LockNext]_lockVars
  <2>1. m \notin Proc
    BY <1>5, ExecAssumption
  <2> QED BY <1>5, <2>1 DEF Managing, Add, Pause, Resume, Remove, Manage, Install, UnlinkSpec,
         Unschedule, EmptySpec, WriteSpec
<1>6. ASSUME NEW a \in Actors, CrontabFails(a)
      PROVE  [LockNext]_lockVars
  BY <1>6 DEF CrontabFails
<1> QED BY <1>1, <1>2, <1>3, <1>4, <1>5, <1>6 DEF Next

(* Executions and management commands, for any number of either, implement *)
(* the lock's specification.                                               *)
THEOREM ExecUsesLock == Spec => LockSpec
<1>1. Init => LockInit
  BY DEF Init
<1> QED BY <1>1, StepIsLockStep, PTL DEF Spec, LockSpec

(* No execution that ends on its own leaves its lock or claim behind,      *)
(* whatever managers do to its spec meanwhile.                             *)
THEOREM ExecsEndClean == Spec => []NothingLeftBehind
BY ExecUsesLock, EndsClean, PTL

(* A slow execution is not overlapped by a later wake.                     *)
THEOREM ExecsDoNotStack == Spec => []SlowRunsNeverOverlap
BY ExecUsesLock, NoStacking, PTL
-----------------------------------------------------------------------------
(***************************************************************************)
(* The spec file.  Its count and its retirement are read before the lock   *)
(* is taken and again once the command has returned, and written in two    *)
(* steps, so they are exact only because the lock covers the whole update: *)
(* what follows is proved of every behaviour in which it excludes.         *)
(***************************************************************************)
Pending  == {"running", "unschedule", "empty", "write"}
Returned == {p \in Proc : stage[p] \notin {"start", "locking", "running"}}
Started  == {p \in Proc : stage[p] \notin {"start", "locking"}}

(* Nothing is counted twice, in the file or in anybody's memory.           *)
CountsBounded ==
    /\ spec \in Specs => spec.runs <= Cardinality(Returned)
    /\ \A a \in Actors : copy[a].runs <= Cardinality(Returned)
    /\ ran <= Cardinality(Started)

(* An execution updates the spec between taking the lock and leaving it.   *)
LockCoversUpdate ==
    \A p \in Proc :
        /\ stage[p] \in Pending => pc[p] = "run"
        /\ stage[p] = "start" => pc[p] = "idle"
        /\ stage[p] = "locking" => pc[p] # "idle"

(* A step of the lock's protocol alone, or a disturbance of it.            *)
LockOnly(p) ==
    /\ AcquireStep(p) \/ ReleaseStep(p) \/ NoSpace(p) \/ Crash(p)
    /\ UNCHANGED specVars

(* A manager reads what it will change.                                    *)
ManagerBegins(m) ==
    \/ "add" \in Commands /\ Add(m)
    \/ "pause" \in Commands /\ Pause(m)
    \/ "resume" \in Commands /\ Resume(m)
    \/ "rm" \in Commands /\ Remove(m)

(* The kinds of steps there are.                                           *)
LEMMA StepKinds ==
    ASSUME [Next]_execVars
    PROVE  \/ UNCHANGED execVars
           \/ \E p \in Proc : Begin(p) \/ RunCommand(p) \/ LockOnly(p)
           \/ \E p \in Proc : \E done \in BOOLEAN : CommandReturns(p, done)
           \/ \E a \in Actors :
                Unschedule(a) \/ EmptySpec(a) \/ WriteSpec(a) \/ CrontabFails(a)
           \/ \E m \in Mgr : ManagerBegins(m) \/ Install(m) \/ UnlinkSpec(m)
BY DEF Next, Executing, Disturbing, Managing, LockOnly, ManagerBegins, Actors

LEMMA ActorKinds ==
    /\ \A p \in Proc : p \in Actors /\ p \notin Mgr
    /\ \A m \in Mgr : m \in Actors /\ m \notin Proc
    /\ \A a \in Actors : a \in Proc \/ a \in Mgr
BY ExecAssumption DEF Actors

(* The lock's own steps neither begin nor end an execution's hold of it.   *)
LEMMA LockOnlyMoves ==
    ASSUME LockTypeOK, NEW p \in Proc, LockOnly(p)
    PROVE  /\ \A q \in Proc \ {p} : pc'[q] = pc[q]
           /\ pc'[p] = pc[p] \/ (pc[p] \notin {"idle", "run"} /\ pc'[p] # "idle")
           /\ pc'[p] \in {"verify", "unlock", "done"} =>
                 pc[p] \in {"verify", "unlock", "done"}
<1> USE DEF LockTypeOK, At, Goto
<1>1. CASE NoSpace(p) \/ Crash(p) \/ ReleaseStep(p)
  BY <1>1 DEF NoSpace, Crash, ReleaseStep, VerifyLock, Unlock, Exit
<1>2. CASE AcquireStep(p)
  BY <1>2 DEF AcquireStep, CreateLock, ReadLock, ReadSettled, ProbeLock, Probe, CreateClaim,
     StatClaim, ReadClaim, ProbeClaim, CompareClaim, ReapClaim, CheckClaim, RereadLock,
     ProbeAgain, RemoveLock, RecreateLock, ReleaseClaim, Unclaim
<1> QED BY <1>1, <1>2 DEF LockOnly

(* The lock covers every update, whatever managers do.                     *)
LEMMA CoverStep ==
    ASSUME TypeOK, LockCoversUpdate, [Next]_execVars
    PROVE  LockCoversUpdate'
<1> USE DEF TypeOK
<1>1. CASE UNCHANGED execVars
  BY <1>1 DEF execVars, lockVars, specVars, LockCoversUpdate
<1>2. ASSUME NEW p \in Proc, LockOnly(p) PROVE LockCoversUpdate'
  BY <1>2, LockOnlyMoves DEF LockOnly, specVars, LockCoversUpdate, Pending
<1>3. ASSUME NEW p \in Proc, Begin(p) \/ RunCommand(p) PROVE LockCoversUpdate'
  BY <1>3, ActorKinds DEF Begin, RunCommand, Wake, Goto, At, Step, lockVars, LockTypeOK,
     LockCoversUpdate, Pending
<1>4. ASSUME NEW p \in Proc, NEW done \in BOOLEAN, CommandReturns(p, done)
      PROVE  LockCoversUpdate'
  BY <1>4, ActorKinds DEF CommandReturns, BeginUpdate, Finish, At, Goto, lockVars, LockTypeOK,
     LockCoversUpdate, Pending
<1>5. ASSUME NEW a \in Actors, Unschedule(a) \/ EmptySpec(a) \/ WriteSpec(a) \/ CrontabFails(a)
      PROVE  LockCoversUpdate'
  <2> USE ActorKinds DEF Step, LockCoversUpdate, Pending
  <2>1. CASE Unschedule(a)
    BY <2>1 DEF Unschedule, lockVars
  <2>2. CASE EmptySpec(a)
    BY <2>2 DEF EmptySpec, lockVars
  <2>3. CASE WriteSpec(a)
    <3>1. stage' = [stage EXCEPT ![a] = AfterWrite(a)]
      BY <2>3 DEF WriteSpec
    <3>2. CASE a \in Proc
      <4>1. /\ AfterWrite(a) = "over"
            /\ pc[a] = "run" /\ pc' = [pc EXCEPT ![a] = "verify"]
        BY <2>3, <3>2 DEF WriteSpec, AfterWrite, Finish, At, Goto
      <4> QED BY <3>1, <3>2, <4>1 DEF LockTypeOK
    <3>3. CASE a \in Mgr
      BY <2>3, <3>1, <3>3 DEF WriteSpec, lockVars
    <3> QED BY <3>2, <3>3
  <2>4. CASE CrontabFails(a)
    BY <2>4 DEF CrontabFails, Active, At, lockVars
  <2> QED BY <1>5, <2>1, <2>2, <2>3, <2>4
<1>6. ASSUME NEW m \in Mgr, ManagerBegins(m) \/ Install(m) \/ UnlinkSpec(m)
      PROVE  LockCoversUpdate'
  BY <1>6, ActorKinds DEF ManagerBegins, Add, Pause, Resume, Remove, Manage, Install, UnlinkSpec,
     Step, lockVars, LockCoversUpdate, Pending
<1> QED BY <1>1, <1>2, <1>3, <1>4, <1>5, <1>6, StepKinds

(* One more execution that has begun, or come back, still fits.            *)
LEMMA OneMore ==
    ASSUME NEW S \in SUBSET Proc
    PROVE  /\ Cardinality(S) \in Nat /\ Cardinality(Proc) \in Nat
           /\ Cardinality(S) <= Cardinality(Proc)
           /\ \A p \in Proc \ S : Cardinality(S \cup {p}) = Cardinality(S) + 1
           /\ \A T \in SUBSET Proc : S \subseteq T => Cardinality(S) <= Cardinality(T)
<1>1. IsFiniteSet(Proc)
  BY ExecAssumption
<1>2. \A T \in SUBSET Proc : IsFiniteSet(T) /\ Cardinality(T) \in Nat
  BY <1>1, FS_Subset, FS_CardinalityType
<1>3. \A T \in SUBSET Proc : S \subseteq T => Cardinality(S) <= Cardinality(T)
  BY <1>2, FS_Subset
<1>4. \A p \in Proc \ S : Cardinality(S \cup {p}) = Cardinality(S) + 1
  BY <1>2, FS_AddElement
<1> QED BY <1>2, <1>3, <1>4

LEMMA SpecFields ==
    ASSUME NEW s \in Specs
    PROVE  /\ s.status \in {"active", "paused", "retired"}
           /\ s.reason \in {"none", "done", "max-runs"}
           /\ s.runs \in Nat /\ s.runs <= Cardinality(Proc)
<1>1. s.runs \in 0..Cardinality(Proc) /\ Cardinality(Proc) \in Nat
  BY OneMore DEF Specs
<1> QED BY <1>1 DEF Specs

LEMMA SpecialSpecs ==
    /\ NewSpec \in Specs /\ NewSpec.runs = 0
    /\ NewSpec.status = "active" /\ NewSpec.reason = "none"
    /\ NoSpec \notin Specs /\ Torn \notin Specs /\ NoSpec # Torn
<1>1. 0 \in 0..Cardinality(Proc)
  BY OneMore
<1>2. NewSpec \in Specs
  BY <1>1 DEF Specs, NewSpec
<1>3. NoSpec \notin Specs /\ Torn \notin Specs /\ NoSpec # Torn
  BY SpecFileAssumption
<1> QED BY <1>2, <1>3 DEF NewSpec

(* What an execution makes of the spec once its command has returned.      *)
LEMMA UpdateFacts ==
    ASSUME NEW p \in Proc, NEW done \in BOOLEAN, spec \in Specs,
           spec.runs + 1 <= Cardinality(Proc)
    PROVE  LET u == Updated(p, done)
           IN  /\ u \in Specs /\ u.runs = spec.runs + 1
               /\ \/ u.status = spec.status /\ u.reason = spec.reason
                     /\ (RetireReason(u.runs, done) = "none" \/ ~Untouched(p))
                  \/ u.status = "retired" /\ u.reason # "none" /\ Untouched(p)
<1> DEFINE counted == Counted(spec)
           reason == RetireReason(counted.runs, done)
<1>1. /\ counted \in Specs /\ counted.runs = spec.runs + 1
      /\ counted.status = spec.status /\ counted.reason = spec.reason
  <2>1. spec.runs + 1 \in 0..Cardinality(Proc)
    BY SpecFields, OneMore
  <2> QED BY <2>1 DEF Counted, Specs
<1>2. reason \in {"none", "done", "max-runs"}
  BY DEF RetireReason
<1> HIDE DEF counted, reason
<1>3. CASE reason = "none" \/ ~Untouched(p)
  <2>1. Updated(p, done) = counted
    BY <1>3 DEF Updated, counted, reason
  <2> QED BY <1>1, <1>3, <2>1 DEF reason
<1>4. CASE ~(reason = "none" \/ ~Untouched(p))
  <2>1. Updated(p, done) = [counted EXCEPT !.status = "retired", !.reason = reason]
    BY <1>4 DEF Updated, counted, reason
  <2>2. /\ Updated(p, done) \in Specs
        /\ Updated(p, done).runs = counted.runs
    BY <1>1, <1>2, <2>1 DEF Specs
  <2>3. Updated(p, done).status = "retired" /\ Updated(p, done).reason = reason
    BY <1>1, <2>1 DEF Specs
  <2> QED BY <1>1, <1>4, <2>2, <2>3
<1> QED BY <1>3, <1>4

(* An execution that has begun or come back has done so for good.          *)
LEMMA StagesAdvance ==
    ASSUME TypeOK, [Next]_execVars
    PROVE  Returned \subseteq Returned' /\ Started \subseteq Started'
<1> USE ActorKinds DEF TypeOK, Returned, Started, Step
<1>1. CASE UNCHANGED execVars
  BY <1>1 DEF execVars, specVars
<1>2. ASSUME NEW p \in Proc, Begin(p) \/ RunCommand(p) \/ LockOnly(p)
      PROVE  Returned \subseteq Returned' /\ Started \subseteq Started'
  BY <1>2 DEF Begin, RunCommand, LockOnly, specVars
<1>3. ASSUME NEW p \in Proc, NEW done \in BOOLEAN, CommandReturns(p, done)
      PROVE  Returned \subseteq Returned' /\ Started \subseteq Started'
  BY <1>3 DEF CommandReturns, BeginUpdate
<1>4. ASSUME NEW a \in Actors, Unschedule(a) \/ EmptySpec(a) \/ WriteSpec(a) \/ CrontabFails(a)
      PROVE  Returned \subseteq Returned' /\ Started \subseteq Started'
  BY <1>4 DEF Unschedule, EmptySpec, WriteSpec, AfterWrite, CrontabFails
<1>5. ASSUME NEW m \in Mgr, ManagerBegins(m) \/ Install(m) \/ UnlinkSpec(m)
      PROVE  Returned \subseteq Returned' /\ Started \subseteq Started'
  BY <1>5 DEF ManagerBegins, Add, Pause, Resume, Remove, Manage, Install, UnlinkSpec
<1> QED BY <1>1, <1>2, <1>3, <1>4, <1>5, StepKinds

SpecTypeOK ==
    /\ spec \in Specs \cup {NoSpec, Torn}
    /\ copy \in [Actors -> Specs]
    /\ initial \in [Proc -> Specs]
    /\ ran \in 0..Cardinality(Proc)

(* The types of counts, and what they cannot exceed.                       *)
LEMMA CountsStep ==
    ASSUME TypeOK, CountsBounded, [Next]_execVars
    PROVE  SpecTypeOK' /\ CountsBounded'
<1> USE DEF TypeOK
<1> DEFINE R == Cardinality(Returned)
           S == Cardinality(Started)
<1>1. /\ Returned \subseteq Returned' /\ Started \subseteq Started'
      /\ Returned \in SUBSET Proc /\ Started \in SUBSET Proc
      /\ Returned' \in SUBSET Proc /\ Started' \in SUBSET Proc
  BY StagesAdvance DEF Returned, Started
<1>2. /\ R \in Nat /\ R' \in Nat /\ R <= R' /\ R' <= Cardinality(Proc)
      /\ S \in Nat /\ S' \in Nat /\ S <= S' /\ S' <= Cardinality(Proc)
      /\ Cardinality(Proc) \in Nat
  BY <1>1, OneMore
<1>3. /\ spec \in Specs => spec.runs \in Nat /\ spec.runs <= R
      /\ \A a \in Actors : copy[a] \in Specs /\ copy[a].runs \in Nat /\ copy[a].runs <= R
      /\ ran \in Nat /\ ran <= S
  BY <1>2, SpecFields DEF CountsBounded
<1> HIDE DEF R, S
<1>4. ASSUME /\ spec' = spec \/ spec' \in {NoSpec, Torn}
                \/ \E a \in Actors : spec' = copy[a],
             /\ copy' = copy
                \/ \E a \in Actors, s \in Specs :
                      s.runs <= R' /\ copy' = [copy EXCEPT ![a] = s],
             ran' = ran, initial' \in [Proc -> Specs]
      PROVE  SpecTypeOK' /\ CountsBounded'
  <2>1. /\ spec' \in Specs \cup {NoSpec, Torn}
        /\ spec' \in Specs => spec'.runs <= R'
    BY <1>2, <1>3, <1>4, SpecialSpecs
  <2>2. copy' \in [Actors -> Specs] /\ \A a \in Actors : copy'[a].runs <= R'
    BY <1>2, <1>3, <1>4
  <2>3. ran' \in 0..Cardinality(Proc) /\ ran' <= S'
    BY <1>2, <1>3, <1>4
  <2> QED BY <1>4, <2>1, <2>2, <2>3 DEF SpecTypeOK, CountsBounded, R, S
<1>5. CASE UNCHANGED specVars
  BY <1>4, <1>5 DEF specVars
<1>6. ASSUME NEW p \in Proc, Begin(p)
      PROVE  SpecTypeOK' /\ CountsBounded'
  BY <1>4, <1>6 DEF Begin
<1>7. ASSUME NEW p \in Proc, RunCommand(p)
      PROVE  SpecTypeOK' /\ CountsBounded'
  <2>1. /\ UNCHANGED <<spec, copy, initial>> /\ ran' = ran + 1
        /\ p \notin Started /\ p \in Started'
    BY <1>7, ActorKinds DEF RunCommand, Step, Started
  <2>2. S + 1 <= S'
    <3>1. Cardinality(Started \cup {p}) = S + 1
      BY <1>1, <2>1, OneMore DEF S
    <3>2. Started \cup {p} \in SUBSET Proc /\ Started \cup {p} \subseteq Started'
      BY <1>1, <2>1
    <3> QED BY <1>1, <3>1, <3>2, OneMore DEF S
  <2>3. ran' \in 0..Cardinality(Proc) /\ ran' <= S'
    BY <1>2, <1>3, <2>1, <2>2
  <2>4. SpecTypeOK'
    BY <2>1, <2>3 DEF SpecTypeOK
  <2>5. CountsBounded'
    BY <1>2, <1>3, <2>1, <2>3 DEF CountsBounded, R, S
  <2> QED BY <2>4, <2>5
<1>8. ASSUME NEW p \in Proc, NEW done \in BOOLEAN, CommandReturns(p, done)
      PROVE  SpecTypeOK' /\ CountsBounded'
  <2>1. UNCHANGED <<spec, initial, ran>>
    BY <1>8 DEF CommandReturns
  <2>2. CASE copy' = copy
    BY <1>4, <2>1, <2>2
  <2>3. CASE BeginUpdate(p, done)
    <3>1. /\ spec \in Specs /\ copy' = [copy EXCEPT ![p] = Updated(p, done)]
          /\ p \notin Returned /\ p \in Returned'
      BY <1>8, <2>3, ActorKinds DEF CommandReturns, BeginUpdate, Returned
    <3>2. R + 1 <= R'
      <4>1. Cardinality(Returned \cup {p}) = R + 1
        BY <1>1, <3>1, OneMore DEF R
      <4>2. Returned \cup {p} \in SUBSET Proc /\ Returned \cup {p} \subseteq Returned'
        BY <1>1, <3>1
      <4> QED BY <1>1, <4>1, <4>2, OneMore DEF R
    <3>3. spec.runs + 1 <= Cardinality(Proc) /\ spec.runs + 1 <= R'
      BY <1>2, <1>3, <3>1, <3>2
    <3>4. Updated(p, done) \in Specs /\ Updated(p, done).runs <= R'
      BY <3>1, <3>3, UpdateFacts
    <3> QED BY <1>4, <2>1, <3>1, <3>4, ActorKinds
  <2> QED BY <1>8, <2>2, <2>3 DEF CommandReturns
<1>9. ASSUME NEW a \in Actors, Unschedule(a) \/ EmptySpec(a) \/ WriteSpec(a) \/ CrontabFails(a)
      PROVE  SpecTypeOK' /\ CountsBounded'
  <2>1. /\ UNCHANGED <<copy, initial, ran>>
        /\ spec' = spec \/ spec' = Torn \/ spec' = copy[a]
    BY <1>9 DEF Unschedule, EmptySpec, WriteSpec, CrontabFails
  <2> QED BY <1>4, <2>1
<1>10. ASSUME NEW m \in Mgr, ManagerBegins(m) \/ Install(m) \/ UnlinkSpec(m)
       PROVE  SpecTypeOK' /\ CountsBounded'
  <2>1. CASE Install(m) \/ UnlinkSpec(m)
    BY <1>4, <2>1 DEF Install, UnlinkSpec
  <2>2. CASE ManagerBegins(m)
    <3>1. UNCHANGED <<spec, initial, ran>>
      BY <2>2 DEF ManagerBegins, Add, Pause, Resume, Remove, Manage
    <3>2. ASSUME NEW s \in Specs, s.runs <= R', copy' = [copy EXCEPT ![m] = s]
          PROVE  SpecTypeOK' /\ CountsBounded'
      BY <1>4, <3>1, <3>2, ActorKinds
    <3>3. CASE Add(m)
      <4>1. /\ copy' = [copy EXCEPT ![m] = NewSpec]
            /\ NewSpec \in Specs /\ NewSpec.runs <= R'
        BY <1>2, <3>3, SpecialSpecs DEF Add, Manage
      <4> QED BY <3>2, <4>1
    <3>4. CASE Remove(m)
      <4>1. copy' = [copy EXCEPT ![m] = spec] /\ spec \in Specs
        BY <3>4 DEF Remove, Manage
      <4>2. spec.runs <= R'
        BY <1>2, <1>3, <4>1
      <4> QED BY <3>2, <4>1, <4>2
    <3>5. CASE Pause(m)
      <4>1. /\ spec \in Specs /\ copy' = [copy EXCEPT ![m] = [spec EXCEPT !.status = "paused"]]
        BY <3>5 DEF Pause, Manage
      <4>2. /\ [spec EXCEPT !.status = "paused"] \in Specs
            /\ [spec EXCEPT !.status = "paused"].runs = spec.runs
        BY <4>1 DEF Specs
      <4>3. spec.runs <= R'
        BY <1>2, <1>3, <4>1
      <4> QED BY <3>2, <4>1, <4>2, <4>3
    <3>6. CASE Resume(m)
      <4>1. /\ spec \in Specs
            /\ copy' = [copy EXCEPT ![m] = [spec EXCEPT !.status = "active", !.reason = "none"]]
        BY <3>6 DEF Resume, Manage
      <4>2. /\ [spec EXCEPT !.status = "active", !.reason = "none"] \in Specs
            /\ [spec EXCEPT !.status = "active", !.reason = "none"].runs = spec.runs
        BY <4>1 DEF Specs
      <4>3. spec.runs <= R'
        BY <1>2, <1>3, <4>1
      <4> QED BY <3>2, <4>1, <4>2, <4>3
    <3> QED BY <2>2, <3>3, <3>4, <3>5, <3>6 DEF ManagerBegins
  <2> QED BY <1>10, <2>1, <2>2
<1> QED BY <1>5, <1>6, <1>7, <1>8, <1>9, <1>10, StepKinds DEF execVars, LockOnly

StageTypeOK ==
    /\ line \in BOOLEAN
    /\ stage \in [Actors -> {"start", "locking", "running", "unschedule", "install",
                            "empty", "write", "writeUnlinked", "unlink", "over"}]
    /\ cmd \in [Mgr -> Commands \cup {"none"}]
    /\ faults \in 0..MaxFaults

LEMMA StageTypesStep ==
    ASSUME TypeOK, [Next]_execVars
    PROVE  StageTypeOK'
<1> USE ActorKinds DEF TypeOK, StageTypeOK, Step
<1>1. CASE UNCHANGED specVars
  BY <1>1 DEF specVars
<1>2. ASSUME NEW p \in Proc, Begin(p) \/ RunCommand(p)
      PROVE  StageTypeOK'
  BY <1>2 DEF Begin, RunCommand
<1>3. ASSUME NEW p \in Proc, NEW done \in BOOLEAN, CommandReturns(p, done)
      PROVE  StageTypeOK'
  BY <1>3 DEF CommandReturns, BeginUpdate
<1>4. ASSUME NEW a \in Actors, Unschedule(a) \/ EmptySpec(a) \/ WriteSpec(a)
      PROVE  StageTypeOK'
  BY <1>4 DEF Unschedule, EmptySpec, WriteSpec, AfterWrite
<1>5. ASSUME NEW a \in Actors, CrontabFails(a)
      PROVE  StageTypeOK'
  BY <1>5, ExecAssumption DEF CrontabFails
<1>6. ASSUME NEW m \in Mgr, Install(m) \/ UnlinkSpec(m) \/ ManagerBegins(m)
      PROVE  StageTypeOK'
  <2>1. CASE Install(m) \/ UnlinkSpec(m)
    BY <2>1 DEF Install, UnlinkSpec
  <2>2. ASSUME NEW c \in Commands, NEW copied, NEW first \in {"empty", "unschedule", "install"},
               Manage(m, c, copied, first)
        PROVE  StageTypeOK'
    BY <2>2 DEF Manage
  <2> QED BY <1>6, <2>1, <2>2 DEF ManagerBegins, Add, Pause, Resume, Remove
<1> QED BY <1>1, <1>2, <1>3, <1>4, <1>5, <1>6, StepKinds DEF execVars, LockOnly

(* Whoever releases the lock has nothing left to do on the spec.           *)
LEMMA ReleaseIsLast ==
    ASSUME TypeOK, LockCoversUpdate, [Next]_execVars, NEW p \in Proc,
           pc'[p] \in {"verify", "unlock", "done"}
    PROVE  stage'[p] = "over"
<1> USE ActorKinds DEF TypeOK, Step, LockTypeOK
<1>0. pc[p] \in {"verify", "unlock", "done"} => stage[p] = "over"
  OBVIOUS
<1>1. CASE UNCHANGED execVars
  BY <1>0, <1>1 DEF execVars, lockVars, specVars
<1>2. ASSUME NEW q \in Proc, LockOnly(q)
      PROVE  stage'[p] = "over"
  BY <1>0, <1>2, LockOnlyMoves DEF LockOnly, specVars
<1>3. ASSUME NEW q \in Proc, Begin(q) \/ RunCommand(q)
      PROVE  stage'[p] = "over"
  BY <1>0, <1>3 DEF Begin, RunCommand, Wake, Goto, lockVars
<1>4. ASSUME NEW q \in Proc, NEW done \in BOOLEAN, CommandReturns(q, done)
      PROVE  stage'[p] = "over"
  BY <1>0, <1>4 DEF CommandReturns, BeginUpdate, Finish, At, Goto, lockVars
<1>5. ASSUME NEW a \in Actors, Unschedule(a) \/ EmptySpec(a) \/ CrontabFails(a)
      PROVE  stage'[p] = "over"
  BY <1>0, <1>5 DEF Unschedule, EmptySpec, CrontabFails, Active, At, lockVars
<1>6. ASSUME NEW a \in Actors, WriteSpec(a)
      PROVE  stage'[p] = "over"
  <2>1. stage' = [stage EXCEPT ![a] = AfterWrite(a)]
    BY <1>6 DEF WriteSpec
  <2>2. CASE a \in Proc
    <3>1. /\ AfterWrite(a) = "over"
          /\ pc' = [pc EXCEPT ![a] = "verify"]
      BY <1>6, <2>2 DEF WriteSpec, AfterWrite, Finish, At, Goto
    <3> QED BY <1>0, <2>1, <3>1
  <2>3. CASE a \in Mgr
    BY <1>0, <1>6, <2>1, <2>3 DEF WriteSpec, lockVars
  <2> QED BY <2>2, <2>3
<1>7. ASSUME NEW m \in Mgr, ManagerBegins(m) \/ Install(m) \/ UnlinkSpec(m)
      PROVE  stage'[p] = "over"
  BY <1>0, <1>7 DEF Install, UnlinkSpec, ManagerBegins, Add, Pause, Resume, Remove, Manage,
     lockVars
<1> QED BY <1>1, <1>2, <1>3, <1>4, <1>5, <1>6, <1>7, StepKinds

WellTyped == TypeOK /\ LockCoversUpdate /\ CountsBounded

LEMMA WellTypedStep ==
    ASSUME WellTyped, [Next]_execVars
    PROVE  WellTyped'
<1> USE DEF WellTyped
<1>1. LockTypeOK'
  BY StepIsLockStep, TypesStep DEF TypeOK
<1>2. StageTypeOK' /\ SpecTypeOK' /\ CountsBounded' /\ LockCoversUpdate'
  BY StageTypesStep, CountsStep, CoverStep
<1>3. \A p \in Proc : pc'[p] \in {"verify", "unlock", "done"} => stage'[p] = "over"
  BY ReleaseIsLast
<1> QED BY <1>1, <1>2, <1>3 DEF TypeOK, StageTypeOK, SpecTypeOK

LEMMA WellTypedStarts == Init => WellTyped
<1> SUFFICES ASSUME Init PROVE WellTyped
  OBVIOUS
<1>1. LockTypeOK
  <2>1. LockInv
    BY LockStarts DEF Init
  <2> QED BY <2>1 DEF LockInv
<1>2. \A p \in Proc : pc[p] = "idle" /\ stage[p] = "start"
  BY ActorKinds DEF Init, LockInit
<1>3. /\ Returned = {} /\ Started = {}
      /\ Cardinality({}) = 0
  BY <1>2, FS_EmptySet DEF Returned, Started
<1>4. /\ 0 \in 0..Cardinality(Proc) /\ 0 \in 0..MaxFaults
  BY OneMore, ExecAssumption
<1>5. TypeOK
  BY <1>1, <1>2, <1>4, SpecialSpecs DEF Init, TypeOK
<1>6. LockCoversUpdate
  BY <1>2 DEF LockCoversUpdate, Pending
<1>7. CountsBounded
  BY <1>3, SpecialSpecs DEF Init, CountsBounded
<1> QED BY <1>5, <1>6, <1>7 DEF WellTyped

(* Every variable keeps its type, whatever executions, managers, crashes   *)
(* and faults do: no count exceeds the number of executions, and whoever   *)
(* releases the lock has nothing left to do on the spec.                   *)
THEOREM ExecTypes == Spec => []TypeOK
<1>1. WellTyped /\ [Next]_execVars => WellTyped'
  BY WellTypedStep
<1>2. WellTyped => TypeOK
  BY DEF WellTyped
<1> QED BY <1>1, <1>2, WellTypedStarts, PTL DEF Spec
-----------------------------------------------------------------------------
(* The exact count, while nobody manages the schedule and nobody is        *)
(* killed: the file is torn only in the hands of the one who writes it,    *)
(* and whoever updates it carries what it will say.                        *)
OneUpdate ==
    /\ spec = NoSpec => ran = 0 /\ \A p \in Proc : stage[p] \in {"start", "over"}
    /\ spec = Torn => \E p \in Proc : stage[p] = "write"
    /\ spec \in Specs /\ Uncounted = {} => spec.runs = ran
    /\ \A p \in Proc :
         /\ stage[p] \in Pending \cup {"start", "locking", "over"}
         /\ stage[p] \in {"running", "unschedule", "empty"} =>
              spec \in Specs /\ spec.runs + 1 = ran
         /\ stage[p] \in {"unschedule", "empty", "write"} => copy[p].runs = ran
         /\ stage[p] = "write" => spec = Torn

(* The retirement: an execution that finds the ceiling reached takes the   *)
(* schedule off the crontab before it writes that it is retired.           *)
RetirementUnderWay ==
    /\ \A p \in Proc : stage[p] \in Pending \cup {"locking"} =>
          initial[p].status = "active" /\ initial[p].reason = "none"
    /\ spec \in Specs =>
         /\ spec.status \in {"active", "retired"}
         /\ spec.status = "retired" => ~line
         /\ spec.status = "active" =>
              /\ spec.reason = "none" /\ spec.runs < MaxRuns
              /\ line \/ \E p \in Proc : stage[p] = "empty" /\ copy[p].status = "retired"
    /\ \A p \in Proc :
         /\ stage[p] = "unschedule" => spec.status = "active" /\ copy[p].status = "retired"
         /\ stage[p] \in {"empty", "write"} =>
              \/ copy[p].status = "retired" /\ ~line
              \/ /\ copy[p].status = "active" /\ line
                 /\ copy[p].reason = "none" /\ copy[p].runs < MaxRuns

(* The dead stay dead.                                                     *)
LEMMA CrashesStay ==
    ASSUME LockTypeOK, [LockNext]_lockVars
    PROVE  Crashed \subseteq Crashed'
<1>1. CASE UNCHANGED lockVars
  BY <1>1 DEF lockVars, Crashed
<1>2. ASSUME NEW p \in Proc,
             \/ Wake(p) \/ Finish(p) \/ AcquireStep(p) \/ ReleaseStep(p)
             \/ NoSpace(p) \/ Crash(p)
      PROVE  Crashed \subseteq Crashed'
  <2>1. ASSUME NEW q \in Proc \ {p}
        PROVE  pc'[q] = pc[q] /\ (q \in live' <=> q \in live)
    BY <1>2 DEF LockTypeOK, Wake, Finish, AcquireStep, ReleaseStep, NoSpace, Crash, CreateLock,
       ReadLock, ReadSettled, ProbeLock, Probe, CreateClaim, StatClaim, ReadClaim, ProbeClaim,
       CompareClaim, ReapClaim, CheckClaim, RereadLock, ProbeAgain, RemoveLock, RecreateLock,
       ReleaseClaim, Unclaim, VerifyLock, Unlock, Exit, At, Goto
  <2>2. p \in live \/ pc[p] = "idle"
    BY <1>2 DEF Wake, Finish, AcquireStep, ReleaseStep, NoSpace, Crash, CreateLock,
       ReadLock, ReadSettled, ProbeLock, Probe, CreateClaim, StatClaim, ReadClaim, ProbeClaim,
       CompareClaim, ReapClaim, CheckClaim, RereadLock, ProbeAgain, RemoveLock, RecreateLock,
       ReleaseClaim, Unclaim, VerifyLock, Unlock, Exit, At
  <2> QED BY <2>1, <2>2 DEF Crashed
<1> QED BY <1>1, <1>2 DEF LockNext

(* A step cannot undo a disturbance, so the steps of an undisturbed        *)
(* behaviour are those of executions.                                      *)
LEMMA UndisturbedKinds ==
    ASSUME TypeOK, [Next]_execVars, Undisturbed'
    PROVE  /\ Undisturbed
           /\ \/ UNCHANGED specVars
              \/ \E p \in Proc : Begin(p) \/ RunCommand(p)
              \/ \E p \in Proc : \E done \in BOOLEAN : CommandReturns(p, done)
              \/ \E p \in Proc :
                   Unschedule(p) \/ EmptySpec(p) \/ WriteSpec(p) \/ CrontabFails(p)
<1> USE ActorKinds DEF TypeOK
<1>1. Crashed = {}
  BY StepIsLockStep, CrashesStay DEF Undisturbed
<1>2. ASSUME NEW m \in Mgr,
             \/ ManagerBegins(m) \/ Install(m) \/ UnlinkSpec(m)
             \/ Unschedule(m) \/ EmptySpec(m) \/ WriteSpec(m) \/ CrontabFails(m)
      PROVE  stage'[m] # "start"
  BY <1>2 DEF ManagerBegins, Add, Pause, Resume, Remove, Manage, Install, UnlinkSpec, Unschedule,
     EmptySpec, WriteSpec, AfterWrite, CrontabFails, Step
<1>3. \/ UNCHANGED specVars
      \/ \E p \in Proc : Begin(p) \/ RunCommand(p)
      \/ \E p \in Proc : \E done \in BOOLEAN : CommandReturns(p, done)
      \/ \E p \in Proc :
           Unschedule(p) \/ EmptySpec(p) \/ WriteSpec(p) \/ CrontabFails(p)
  BY <1>2, StepKinds DEF Undisturbed, LockOnly, execVars
<1>4. \A m \in Mgr : stage'[m] = stage[m]
  BY <1>3 DEF specVars, Begin, RunCommand, CommandReturns, BeginUpdate, Unschedule, EmptySpec,
     WriteSpec, CrontabFails, Step
<1> QED BY <1>1, <1>3, <1>4 DEF Undisturbed

(* The lock excludes, so whoever updates the spec is alone.                *)
LEMMA UpdatesAlone ==
    ASSUME WellTyped, MutualExclusion, Undisturbed,
           NEW p \in Proc, At(p, "run"), NEW q \in Proc, stage[q] \in Pending
    PROVE  p = q
<1>1. pc[q] = "run"
  BY DEF WellTyped, LockCoversUpdate
<1>2. q \in live
  BY <1>1 DEF Undisturbed, Crashed, Ended
<1> QED BY <1>1, <1>2 DEF MutualExclusion, Holds, At

(* Every step of an execution keeps the count.                             *)
LEMMA OneUpdateStep ==
    ASSUME WellTyped, MutualExclusion, Undisturbed, OneUpdate, [Next]_execVars, Undisturbed'
    PROVE  OneUpdate'
<1> USE ActorKinds, SpecialSpecs DEF Pending
<1>0. /\ spec \in Specs \cup {NoSpec, Torn} /\ copy \in [Actors -> Specs]
      /\ DOMAIN stage = Actors /\ ran \in Nat
  BY OneMore DEF WellTyped, TypeOK
<1>1. CASE UNCHANGED specVars
  BY <1>1 DEF specVars, OneUpdate, Uncounted
<1>2. ASSUME NEW p \in Proc, Begin(p)
      PROVE  OneUpdate'
  <2>1. /\ stage[p] = "start" /\ UNCHANGED <<spec, copy, ran>>
        /\ \/ stage' = [stage EXCEPT ![p] = "over"]
           \/ spec \in Specs /\ stage' = [stage EXCEPT ![p] = "locking"]
    BY <1>2 DEF Begin
  <2>2. Uncounted' = Uncounted
    BY <1>0, <2>1 DEF Uncounted
  <2> QED BY <1>0, <2>1, <2>2 DEF OneUpdate
<1>3. ASSUME NEW p \in Proc, At(p, "run"), stage[p] \in Pending \cup {"locking"}
      PROVE  \A q \in Proc \ {p} : stage[q] \notin Pending
  BY <1>3, UpdatesAlone
<1>4. ASSUME NEW p \in Proc, RunCommand(p)
      PROVE  OneUpdate'
  <2>1. /\ At(p, "run") /\ stage[p] = "locking" /\ ran' = ran + 1
        /\ stage' = [stage EXCEPT ![p] = "running"] /\ UNCHANGED <<spec, copy>>
    BY <1>4 DEF RunCommand, Step
  <2>2. \A q \in Proc : stage[q] \notin Pending
    BY <1>3, <2>1
  <2>3. spec \in Specs /\ spec.runs = ran
    BY <1>0, <2>1, <2>2 DEF OneUpdate, Uncounted
  <2>4. Uncounted' # {}
    BY <1>0, <2>1 DEF Uncounted
  <2> QED BY <1>0, <2>1, <2>2, <2>3, <2>4 DEF OneUpdate
<1>5. ASSUME NEW p \in Proc, NEW done \in BOOLEAN, CommandReturns(p, done)
      PROVE  OneUpdate'
  <2>1. /\ At(p, "run") /\ stage[p] = "running" /\ UNCHANGED <<spec, ran>>
        /\ spec \in Specs /\ spec.runs + 1 = ran
    BY <1>5 DEF CommandReturns, OneUpdate
  <2>2. /\ copy' = [copy EXCEPT ![p] = Updated(p, done)]
        /\ \/ stage' = [stage EXCEPT ![p] = "empty"]
           \/ stage' = [stage EXCEPT ![p] = "unschedule"]
    BY <1>5, <2>1 DEF CommandReturns, BeginUpdate
  <2>3. copy'[p].runs = ran
    <3>1. spec.runs + 1 <= Cardinality(Proc)
      BY <2>1 DEF WellTyped, TypeOK
    <3> QED BY <1>0, <2>1, <2>2, <3>1, UpdateFacts
  <2>4. \A q \in Proc \ {p} : stage[q] \notin Pending /\ stage'[q] = stage[q]
    BY <1>0, <1>3, <2>1, <2>2
  <2>5. stage'[p] \in {"empty", "unschedule"} /\ Uncounted' # {}
    BY <1>0, <2>2 DEF Uncounted
  <2> QED BY <2>1, <2>3, <2>4, <2>5 DEF OneUpdate
<1>6. ASSUME NEW p \in Proc, Unschedule(p) \/ CrontabFails(p)
      PROVE  OneUpdate'
  <2>1. /\ At(p, "run") /\ stage[p] = "unschedule" /\ UNCHANGED <<spec, ran, copy>>
        /\ stage' = [stage EXCEPT ![p] = "empty"]
    BY <1>6 DEF Unschedule, CrontabFails, Active, Step, OneUpdate
  <2>2. Uncounted' = Uncounted
    BY <1>0, <2>1 DEF Uncounted
  <2> QED BY <1>0, <2>1, <2>2 DEF OneUpdate
<1>7. ASSUME NEW p \in Proc, EmptySpec(p)
      PROVE  OneUpdate'
  <2>1. /\ At(p, "run") /\ stage[p] = "empty" /\ UNCHANGED <<ran, copy>>
        /\ stage' = [stage EXCEPT ![p] = "write"] /\ spec' = Torn
    BY <1>7 DEF EmptySpec, Active, Step
  <2>2. \A q \in Proc \ {p} : stage[q] \notin Pending /\ stage'[q] = stage[q]
    BY <1>0, <1>3, <2>1
  <2> QED BY <1>0, <2>1, <2>2 DEF OneUpdate
<1>8. ASSUME NEW p \in Proc, WriteSpec(p)
      PROVE  OneUpdate'
  <2>1. /\ At(p, "run") /\ stage[p] = "write" /\ UNCHANGED <<ran, copy>>
        /\ stage' = [stage EXCEPT ![p] = "over"]
        /\ spec = Torn /\ spec' = copy[p]
    BY <1>8 DEF WriteSpec, Active, Step, AfterWrite, OneUpdate
  <2>2. \A q \in Proc \ {p} : stage[q] \notin Pending /\ stage'[q] = stage[q]
    BY <1>0, <1>3, <2>1
  <2>3. spec' \in Specs /\ spec'.runs = ran
    BY <1>0, <2>1 DEF OneUpdate
  <2>4. stage'[p] = "over"
    BY <1>0, <2>1
  <2> QED BY <2>1, <2>2, <2>3, <2>4 DEF OneUpdate
<1> QED BY <1>1, <1>2, <1>4, <1>5, <1>6, <1>7, <1>8, UndisturbedKinds DEF WellTyped

(* And the schedule is retired in time.                                    *)
LEMMA RetirementStep ==
    ASSUME WellTyped, MutualExclusion, Undisturbed, OneUpdate, faults = 0,
           RetirementUnderWay, [Next]_execVars, Undisturbed', faults' = 0
    PROVE  RetirementUnderWay'
<1> USE ActorKinds, SpecialSpecs DEF Pending
<1>0. /\ spec \in Specs \cup {NoSpec, Torn} /\ copy \in [Actors -> Specs]
      /\ initial \in [Proc -> Specs]
      /\ DOMAIN stage = Actors
  BY DEF WellTyped, TypeOK
<1>1. CASE UNCHANGED specVars
  BY <1>1 DEF specVars, RetirementUnderWay
<1>2. ASSUME NEW p \in Proc, Begin(p)
      PROVE  RetirementUnderWay'
  <2>1. /\ stage[p] = "start" /\ UNCHANGED <<spec, copy, line>>
        /\ \/ stage' = [stage EXCEPT ![p] = "over"] /\ initial' = initial
           \/ /\ spec \in Specs /\ spec.status = "active"
              /\ stage' = [stage EXCEPT ![p] = "locking"]
              /\ initial' = [initial EXCEPT ![p] = spec]
    BY <1>2 DEF Begin
  <2>2. /\ stage'[p] \in {"over", "locking"}
        /\ \A q \in Proc \ {p} : stage'[q] = stage[q] /\ initial'[q] = initial[q]
        /\ stage'[p] = "locking" => initial'[p] = spec /\ spec \in Specs /\ spec.status = "active"
    BY <1>0, <2>1
  <2> QED BY <1>0, <2>1, <2>2 DEF RetirementUnderWay
<1>3. ASSUME NEW p \in Proc, At(p, "run"), stage[p] \in Pending \cup {"locking"}
      PROVE  \A q \in Proc \ {p} : stage[q] \notin Pending
  BY <1>3, UpdatesAlone
<1>4. ASSUME NEW p \in Proc, RunCommand(p)
      PROVE  RetirementUnderWay'
  <2>1. /\ stage[p] = "locking" /\ UNCHANGED <<spec, copy, line, initial>>
        /\ stage' = [stage EXCEPT ![p] = "running"]
    BY <1>4 DEF RunCommand, Step
  <2> QED BY <1>0, <2>1 DEF RetirementUnderWay
<1>5. ASSUME NEW p \in Proc, NEW done \in BOOLEAN, CommandReturns(p, done)
      PROVE  RetirementUnderWay'
  <2>1. /\ At(p, "run") /\ stage[p] = "running" /\ UNCHANGED <<spec, line, initial>>
        /\ spec \in Specs
    BY <1>5 DEF CommandReturns, OneUpdate
  <2>2. /\ copy' = [copy EXCEPT ![p] = Updated(p, done)]
        /\ stage' = [stage EXCEPT ![p] = IF Updated(p, done).status = spec.status THEN "empty"
                                         ELSE "unschedule"]
    BY <1>5, <2>1 DEF CommandReturns, BeginUpdate
  <2>3. \A q \in Proc \ {p} : /\ stage[q] \notin Pending
                              /\ stage'[q] = stage[q] /\ copy'[q] = copy[q]
    BY <1>0, <1>3, <2>1, <2>2
  <2>4. /\ stage'[p] = IF Updated(p, done).status = spec.status THEN "empty" ELSE "unschedule"
        /\ copy'[p] = Updated(p, done)
    BY <1>0, <2>2
  <2>5. spec.status = "active" => line /\ Untouched(p)
    BY <2>1, <2>3 DEF RetirementUnderWay, Untouched
  <2>6. LET u == Updated(p, done)
        IN  /\ u.runs = spec.runs + 1
            /\ \/ u.status = spec.status /\ u.reason = spec.reason
                  /\ (RetireReason(u.runs, done) = "none" \/ ~Untouched(p))
               \/ u.status = "retired" /\ u.reason # "none" /\ Untouched(p)
    <3>1. spec.runs + 1 <= Cardinality(Proc)
      BY <2>1 DEF WellTyped, TypeOK, OneUpdate
    <3> QED BY <2>1, <3>1, UpdateFacts
  <2>7. ASSUME RetireReason(spec.runs + 1, done) = "none"
        PROVE  spec.runs + 1 < MaxRuns
    <3>1. ~(spec.runs + 1 >= MaxRuns)
      BY <2>7 DEF RetireReason
    <3>2. spec.runs \in Nat /\ MaxRuns \in Nat
      BY <2>1, SpecFields, ExecAssumption
    <3> QED BY <3>1, <3>2
  <2>8. CASE spec.status = "retired"
    BY <2>1, <2>3, <2>4, <2>6, <2>8 DEF RetirementUnderWay
  <2>9. CASE spec.status = "active"
    BY <2>1, <2>3, <2>4, <2>5, <2>6, <2>7, <2>9 DEF RetirementUnderWay
  <2> QED BY <2>1, <2>8, <2>9 DEF RetirementUnderWay
<1>6. ASSUME NEW p \in Proc, Unschedule(p)
      PROVE  RetirementUnderWay'
  <2>1. /\ At(p, "run") /\ stage[p] = "unschedule" /\ UNCHANGED <<spec, copy, initial>>
        /\ stage' = [stage EXCEPT ![p] = "empty"] /\ line' = FALSE
    BY <1>6 DEF Unschedule, Active, Step
  <2>2. \A q \in Proc \ {p} : stage[q] \notin Pending /\ stage'[q] = stage[q]
    BY <1>0, <1>3, <2>1
  <2>3. stage'[p] = "empty" /\ copy'[p].status = "retired"
    BY <1>0, <2>1 DEF RetirementUnderWay
  <2> QED BY <2>1, <2>2, <2>3 DEF RetirementUnderWay
<1>7. ASSUME NEW p \in Proc, EmptySpec(p)
      PROVE  RetirementUnderWay'
  <2>1. /\ stage[p] = "empty" /\ UNCHANGED <<copy, initial, line>>
        /\ At(p, "run")
        /\ stage' = [stage EXCEPT ![p] = "write"] /\ spec' = Torn
    BY <1>7 DEF EmptySpec, Active, Step
  <2>2. \A q \in Proc \ {p} : stage[q] \notin Pending /\ stage'[q] = stage[q]
    BY <1>0, <1>3, <2>1
  <2>3. stage'[p] = "write"
    BY <1>0, <2>1
  <2> QED BY <2>1, <2>2, <2>3 DEF RetirementUnderWay
<1>8. ASSUME NEW p \in Proc, WriteSpec(p)
      PROVE  RetirementUnderWay'
  <2>1. /\ At(p, "run") /\ stage[p] = "write" /\ UNCHANGED <<copy, initial, line>>
        /\ stage' = [stage EXCEPT ![p] = "over"]
        /\ spec' = copy[p]
    BY <1>8 DEF WriteSpec, Active, Step, AfterWrite, OneUpdate
  <2>2. \A q \in Proc \ {p} : stage[q] \notin Pending /\ stage'[q] = stage[q]
    BY <1>0, <1>3, <2>1
  <2>3. stage'[p] = "over"
    BY <1>0, <2>1
  <2> QED BY <2>1, <2>2, <2>3 DEF RetirementUnderWay
<1>9. ASSUME NEW p \in Proc, CrontabFails(p)
      PROVE  FALSE
  BY <1>9 DEF CrontabFails
<1> QED BY <1>1, <1>2, <1>4, <1>5, <1>6, <1>7, <1>8, <1>9, UndisturbedKinds DEF WellTyped

ExecStrong ==
    /\ WellTyped
    /\ Undisturbed => OneUpdate /\ (faults = 0 => RetirementUnderWay)

LEMMA ExecStarts == Init => ExecStrong
<1> SUFFICES ASSUME Init PROVE ExecStrong
  OBVIOUS
<1> USE SpecialSpecs, ActorKinds DEF Init
<1>1. \A p \in Proc : stage[p] = "start"
  OBVIOUS
<1>2. OneUpdate
  BY <1>1 DEF OneUpdate
<1>3. NewSpec.runs < MaxRuns
  BY ExecAssumption
<1>4. RetirementUnderWay
  BY <1>1, <1>3 DEF RetirementUnderWay, Pending
<1> QED BY <1>2, <1>4, WellTypedStarts DEF ExecStrong

LEMMA ExecStep ==
    ASSUME ExecStrong, MutualExclusion, [Next]_execVars
    PROVE  ExecStrong'
<1>1. WellTyped'
  BY WellTypedStep DEF ExecStrong
<1>2. ASSUME Undisturbed' PROVE OneUpdate'
  <2>1. Undisturbed
    BY <1>2, UndisturbedKinds DEF ExecStrong, WellTyped
  <2> QED BY <1>2, <2>1, OneUpdateStep DEF ExecStrong
<1>3. ASSUME Undisturbed', faults' = 0 PROVE RetirementUnderWay'
  <2>1. Undisturbed
    BY <1>3, UndisturbedKinds DEF ExecStrong, WellTyped
  <2>2. faults = 0
    <3>1. CASE UNCHANGED specVars
      BY <1>3, <3>1 DEF specVars
    <3>2. ASSUME NEW p \in Proc, Begin(p) \/ RunCommand(p) PROVE faults' = faults
      BY <3>2 DEF Begin, RunCommand
    <3>3. ASSUME NEW p \in Proc, NEW done \in BOOLEAN, CommandReturns(p, done)
          PROVE  faults' = faults
      BY <3>3 DEF CommandReturns
    <3>4. ASSUME NEW p \in Proc, Unschedule(p) \/ EmptySpec(p) \/ WriteSpec(p)
          PROVE  faults' = faults
      BY <3>4 DEF Unschedule, EmptySpec, WriteSpec
    <3>5. ASSUME NEW p \in Proc, CrontabFails(p)
          PROVE  FALSE
      <4>1. faults' = faults + 1 /\ faults \in Nat
        BY <3>5, ExecAssumption DEF CrontabFails, ExecStrong, WellTyped, TypeOK
      <4> QED BY <1>3, <4>1
    <3> QED BY <1>3, <3>1, <3>2, <3>3, <3>4, <3>5, UndisturbedKinds DEF ExecStrong, WellTyped
  <2> QED BY <1>3, <2>1, <2>2, RetirementStep DEF ExecStrong
<1> QED BY <1>1, <1>2, <1>3 DEF ExecStrong

LEMMA CountIsExact ==
    ASSUME ExecStrong, MutualExclusion
    PROVE  RunsCounted
<1> SUFFICES ASSUME Undisturbed, spec \in Specs
             PROVE  spec.runs + Cardinality(Uncounted) = ran
  BY DEF RunsCounted
<1> USE DEF ExecStrong
<1>0. spec.runs \in Nat
  BY SpecFields
<1>1. CASE Uncounted = {}
  <2>1. Cardinality(Uncounted) = 0
    BY <1>1, FS_EmptySet
  <2> QED BY <1>0, <1>1, <2>1 DEF OneUpdate
<1>2. ASSUME NEW p \in Uncounted
      PROVE  spec.runs + Cardinality(Uncounted) = ran
  <2>1. At(p, "run") /\ p \in Proc /\ stage[p] \in Pending
    BY <1>2 DEF Uncounted, Pending, WellTyped, LockCoversUpdate, Undisturbed, Crashed, Ended, At
  <2>2. Uncounted = {p}
    BY <1>2, <2>1, UpdatesAlone DEF Uncounted, Pending
  <2>3. Cardinality({p}) = 1
    BY FS_Singleton
  <2>4. stage[p] # "write"
    BY <2>1, SpecialSpecs DEF OneUpdate
  <2> QED BY <2>1, <2>2, <2>3, <2>4 DEF OneUpdate, Pending
<1> QED BY <1>1, <1>2

LEMMA RetirementIsTimely == ExecStrong => RetiresInTime
BY DEF ExecStrong, RetirementUnderWay, RetiresInTime, Uncounted

(* In every behaviour in which the lock excludes, for any number of        *)
(* executions and managers: types hold; no execution's count is lost to    *)
(* another's; and a schedule at its ceiling is retired and off the         *)
(* crontab, one below it on the crontab.                                   *)
THEOREM ExclusionKeepsCount == Spec /\ []MutualExclusion => []ExecInv
<1>1. ExecStrong /\ MutualExclusion /\ [Next]_execVars => ExecStrong'
  BY ExecStep
<1>2. ExecStrong /\ MutualExclusion => ExecInv
  BY CountIsExact, RetirementIsTimely DEF ExecInv, ExecStrong, WellTyped
<1> QED BY <1>1, <1>2, ExecStarts, PTL DEF Spec

(* So nothing of this is lost when two executions contend, with any number *)
(* of managers beside them, and whichever of them fails or crashes.        *)
THEOREM TwoKeepCount == ASSUME TwoWakes PROVE Spec => []ExecInv
<1>1. Spec => []MutualExclusion
  BY TwoExclude, ExecUsesLock, PTL
<1> QED BY <1>1, ExclusionKeepsCount, PTL
=============================================================================
