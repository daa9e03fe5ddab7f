---------------------------- MODULE ScheduleExec ----------------------------
(***************************************************************************)
(* What happens to one schedule: executions ("schedule exec", started by   *)
(* cron or the TUI) under the lock of ScheduleLock, and the commands that  *)
(* manage it (add, pause, resume, rm), which take no lock.  They share the *)
(* spec file and the schedule's crontab line.                              *)
(*                                                                         *)
(* A spec is read whole, changed in memory and written with                *)
(* writeFileSync(), which empties the file before it writes: a step is a   *)
(* read, an emptying or a write.  The crontab is read and rewritten in one *)
(* step, since only this schedule's line is modelled.                      *)
(***************************************************************************)
EXTENDS ScheduleLock

CONSTANTS
    Mgr,        \* the management commands given
    Commands,   \* what they can be: a subset of add, pause, resume, rm
    MaxRuns,    \* spec.maxRuns, --max-runs
    UntilDone,  \* spec.untilDone, --until-done
    NoSpec,     \* the spec file does not exist
    Torn,       \* the spec file cannot be parsed
    MaxFaults   \* bound: crontab commands that fail

ASSUME ExecAssumption ==
    /\ IsFiniteSet(Proc)
    /\ Mgr \cap Proc = {}
    /\ Commands \subseteq {"add", "pause", "resume", "rm"}
    /\ MaxRuns \in Nat \ {0}
    /\ UntilDone \in BOOLEAN
    /\ MaxFaults \in Nat

VARIABLES
    spec,       \* contents of <name>.json
    line,       \* the schedule's line is in the crontab
    stage,      \* stage[a]: what actor a does next to the spec or crontab
    cmd,        \* cmd[m]: the command m carries out
    copy,       \* copy[a]: the spec in a's memory
    initial,    \* initial[p]: the spec p read before it took the lock
    ran,        \* how often the schedule's command was started
    faults      \* crontab commands that failed

specVars == <<spec, line, stage, cmd, copy, initial, ran, faults>>
execVars == <<lockVars, specVars>>

Actors == Proc \cup Mgr

Specs == [status : {"active", "paused", "retired"},
          reason : {"none", "done", "max-runs"},
          runs   : 0..Cardinality(Proc)]

ASSUME SpecFileAssumption == {NoSpec, Torn} \cap Specs = {} /\ NoSpec # Torn

NewSpec == [status |-> "active", reason |-> "none", runs |-> 0]

Init ==
    /\ LockInit
    /\ \/ spec = NewSpec /\ line = TRUE     \* added before
       \/ spec = NoSpec /\ line = FALSE     \* not yet
    /\ stage = [a \in Actors |-> "start"]
    /\ cmd = [m \in Mgr |-> "none"]
    /\ copy = [a \in Actors |-> NewSpec]
    /\ initial = [p \in Proc |-> NewSpec]
    /\ ran = 0
    /\ faults = 0

Step(a, from, to) == stage[a] = from /\ stage' = [stage EXCEPT ![a] = to]

(* execSchedule() up to the lock.  A spec that cannot be read throws; a    *)
(* paused or retired schedule is skipped.                                  *)
Begin(p) ==
    /\ stage[p] = "start"
    /\ IF spec \in Specs /\ spec.status = "active"
       THEN /\ Wake(p)
            /\ stage' = [stage EXCEPT ![p] = "locking"]
            /\ initial' = [initial EXCEPT ![p] = spec]
       ELSE /\ stage' = [stage EXCEPT ![p] = "over"]
            /\ UNCHANGED <<lockVars, initial>>
    /\ UNCHANGED <<spec, line, cmd, copy, ran, faults>>

(* The lock is taken: the command is spawned.                              *)
RunCommand(p) ==
    /\ At(p, "run")
    /\ Step(p, "locking", "running")
    /\ ran' = ran + 1
    /\ UNCHANGED <<lockVars, spec, line, cmd, copy, initial, faults>>

(* updateSpecAfterRun(): the spec as it is when the command has returned,  *)
(* counted and perhaps retired, unless a manager changed its status during *)
(* the run.                                                                *)
Counted(s) == [s EXCEPT !.runs = @ + 1]
Untouched(p) == spec.status = initial[p].status /\ spec.reason = initial[p].reason

(* Mutant: the ceiling is compared with > instead of >=.                   *)
RetireReasonLate(runs, done) ==
    IF UntilDone /\ done THEN "done" ELSE IF runs > MaxRuns THEN "max-runs" ELSE "none"

RetireReason(runs, done) ==
    IF UntilDone /\ done THEN "done" ELSE IF runs >= MaxRuns THEN "max-runs" ELSE "none"

(* Mutant: the spec read before the lock was taken is counted and written. *)
UpdatedStale(p, done) ==
    LET counted == Counted(initial[p])
        reason  == RetireReason(counted.runs, done)
    IN  IF reason = "none" THEN counted
        ELSE [counted EXCEPT !.status = "retired", !.reason = reason]

Updated(p, done) ==
    LET counted == Counted(spec)
        reason  == RetireReason(counted.runs, done)
    IN  IF reason = "none" \/ ~Untouched(p) THEN counted
        ELSE [counted EXCEPT !.status = "retired", !.reason = reason]

(* The update that follows if the spec can still be read.                  *)
BeginUpdate(p, done) ==
    LET updated == Updated(p, done)
    IN  /\ spec \in Specs
        /\ copy' = [copy EXCEPT ![p] = updated]
        /\ stage' = [stage EXCEPT ![p] = IF updated.status = spec.status THEN "empty"
                                         ELSE "unschedule"]
        /\ UNCHANGED lockVars

(* Mutant: a spec that cannot be read ends the execution past the finally. *)
CommandReturnsThrowing(p, done) ==
    /\ At(p, "run") /\ stage[p] = "running"
    /\ \/ BeginUpdate(p, done)
       \/ /\ spec \notin Specs
          /\ stage' = [stage EXCEPT ![p] = "over"]
          /\ UNCHANGED <<lockVars, copy>>
    /\ UNCHANGED <<spec, line, cmd, initial, ran, faults>>

CommandReturns(p, done) ==
    /\ At(p, "run") /\ stage[p] = "running"
    /\ \/ BeginUpdate(p, done)
       \/ /\ spec \notin Specs
          /\ stage' = [stage EXCEPT ![p] = "over"]
          /\ Finish(p) /\ UNCHANGED copy
    /\ UNCHANGED <<spec, line, cmd, initial, ran, faults>>

(* A process still carries out its stages; one that was killed does not.   *)
Active(a) == a \in Mgr \/ At(a, "run")

(* removeScheduleCrontabLine(), installScheduleCrontabLine().              *)
Unschedule(a) ==
    /\ Active(a)
    /\ Step(a, "unschedule", IF a \in Mgr /\ cmd[a] = "rm" THEN "unlink" ELSE "empty")
    /\ line' = FALSE
    /\ UNCHANGED <<lockVars, spec, cmd, copy, initial, ran, faults>>

Install(m) ==
    /\ Step(m, "install", IF cmd[m] = "add" THEN "over" ELSE "empty")
    /\ line' = TRUE
    /\ UNCHANGED <<lockVars, spec, cmd, copy, initial, ran, faults>>

(* crontab fails: an execution logs it and goes on, a manager throws, and  *)
(* add takes its spec back.                                                *)
CrontabFails(a) ==
    /\ Active(a)
    /\ faults < MaxFaults
    /\ faults' = faults + 1
    /\ stage[a] \in {"unschedule", "install"}
    /\ stage' = [stage EXCEPT ![a] = IF a \in Proc THEN "empty"
                                     ELSE IF cmd[a] = "add" THEN "unlink" ELSE "over"]
    /\ UNCHANGED <<lockVars, spec, line, cmd, copy, initial, ran>>

(* writeScheduleSpec(): the file is opened and emptied, then written.  A   *)
(* write into a file somebody else has filled since can leave the tail of  *)
(* the longer text behind; a write into a file that was unlinked since is  *)
(* lost.                                                                   *)
EmptySpec(a) ==
    /\ Active(a)
    /\ Step(a, "empty", "write")
    /\ spec' = Torn
    /\ UNCHANGED <<lockVars, line, cmd, copy, initial, ran, faults>>

AfterWrite(a) == IF a \in Mgr /\ cmd[a] = "add" THEN "install" ELSE "over"

WriteSpec(a) ==
    /\ Active(a)
    /\ \/ /\ Step(a, "write", AfterWrite(a))
          /\ \/ spec' = copy[a]
             \/ spec \in Specs \ {copy[a]} /\ spec' = Torn
       \/ Step(a, "writeUnlinked", AfterWrite(a)) /\ spec' = spec
    /\ IF a \in Proc THEN Finish(a) ELSE UNCHANGED lockVars
    /\ UNCHANGED <<line, cmd, copy, initial, ran, faults>>

(* Mutant: rm cleans up the lock file as well.                             *)
UnlinkSpecAndLock(m) ==
    /\ Step(m, "unlink", "over")
    /\ spec' = NoSpec
    /\ lock' = Missing
    /\ UNCHANGED <<claim, live, pc, seen, verdict, line, cmd, copy, initial, ran, faults>>

(* removeScheduleSpec().                                                   *)
UnlinkSpec(m) ==
    /\ stage[m] = "unlink"
    /\ stage' = [a \in Actors |-> IF a = m THEN "over"
                                  ELSE IF stage[a] = "write" THEN "writeUnlinked"
                                  ELSE stage[a]]
    /\ spec' = NoSpec
    /\ UNCHANGED <<lockVars, line, cmd, copy, initial, ran, faults>>

(* The management commands: what each reads, and where it begins.          *)
Manage(m, c, copied, first) ==
    /\ Step(m, "start", first)
    /\ cmd' = [cmd EXCEPT ![m] = c]
    /\ copy' = [copy EXCEPT ![m] = copied]
    /\ UNCHANGED <<lockVars, spec, line, initial, ran, faults>>

Add(m)    == spec = NoSpec /\ Manage(m, "add", NewSpec, "empty")
Pause(m)  == /\ spec \in Specs /\ spec.status # "retired"
             /\ Manage(m, "pause", [spec EXCEPT !.status = "paused"], "unschedule")
Resume(m) == /\ spec \in Specs /\ spec.status # "retired"
             /\ Manage(m, "resume", [spec EXCEPT !.status = "active", !.reason = "none"], "install")
Remove(m) == spec \in Specs /\ Manage(m, "rm", spec, "unschedule")

Managing(m) ==
    \/ "add" \in Commands /\ Add(m)
    \/ "pause" \in Commands /\ Pause(m)
    \/ "resume" \in Commands /\ Resume(m)
    \/ "rm" \in Commands /\ Remove(m)
    \/ Unschedule(m) \/ Install(m) \/ EmptySpec(m) \/ WriteSpec(m) \/ UnlinkSpec(m)

(* An execution's own steps; the update of the spec ends in Finish.        *)
Executing(p) ==
    \/ RunCommand(p)
    \/ \E done \in BOOLEAN : CommandReturns(p, done)
    \/ Unschedule(p) \/ EmptySpec(p) \/ WriteSpec(p)
    \/ (AcquireStep(p) \/ ReleaseStep(p)) /\ UNCHANGED specVars

Disturbing(p) == (NoSpace(p) \/ Crash(p)) /\ UNCHANGED specVars

Next ==
    \/ \E p \in Proc : Begin(p) \/ Executing(p) \/ Disturbing(p)
    \/ \E m \in Mgr : Managing(m)
    \/ \E a \in Actors : CrontabFails(a)

Spec == Init /\ [][Next]_execVars

(* Every process is scheduled, and the command a schedule runs returns.    *)
FairSpec == Spec /\ \A p \in Proc : WF_execVars(Executing(p))
-----------------------------------------------------------------------------
(* Besides the types: whatever a process has left to do on the spec, it    *)
(* does while it has not begun to release the lock (execSchedule()'s try   *)
(* and finally).                                                           *)
TypeOK ==
    /\ LockTypeOK
    /\ spec \in Specs \cup {NoSpec, Torn}
    /\ line \in BOOLEAN
    /\ stage \in [Actors -> {"start", "locking", "running", "unschedule", "install",
                            "empty", "write", "writeUnlinked", "unlink", "over"}]
    /\ cmd \in [Mgr -> Commands \cup {"none"}]
    /\ copy \in [Actors -> Specs]
    /\ initial \in [Proc -> Specs]
    /\ ran \in 0..Cardinality(Proc)
    /\ faults \in 0..MaxFaults
    /\ \A p \in Proc : pc[p] \in {"verify", "unlock", "done"} => stage[p] = "over"

(* No command was given to manage the schedule, and no execution was       *)
(* killed.                                                                 *)
Undisturbed == (\A m \in Mgr : stage[m] = "start") /\ Crashed = {}

(* Executions whose command was started and that the spec does not count.  *)
Uncounted == {p \in Proc : stage[p] \in {"running", "unschedule", "empty", "write"}}

(* spec.runs is exact: no execution's count is lost to another's, though   *)
(* each reads the spec before it has the lock and writes it back later.    *)
RunsCounted ==
    Undisturbed /\ spec \in Specs => spec.runs + Cardinality(Uncounted) = ran

(* A schedule that reached its ceiling is retired, and off the crontab     *)
(* once it is; one that is active stays on it, and has runs left.          *)
RetiresInTime ==
    Undisturbed /\ faults = 0 /\ spec \in Specs =>
        /\ spec.status = "retired" => ~line
        /\ spec.status = "active" =>
             /\ spec.runs < MaxRuns
             /\ line \/ \E p \in Uncounted : stage[p] \in {"empty", "write"}

(* Types, the count and the ceiling.                                       *)
ExecInv == TypeOK /\ RunsCounted /\ RetiresInTime

(* An execution that took the lock gives it back, whatever became of the   *)
(* spec and the crontab meanwhile.                                         *)
LockGivenBack == \A p \in Proc : lock = p ~> lock # p \/ p \in Crashed
=============================================================================
