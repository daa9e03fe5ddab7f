---------------------------- MODULE ScheduleDesk ----------------------------
(***************************************************************************)
(* The schedules of a project and those who change them: the commands      *)
(* "schedule add, pause, resume, rm" (src/cli.ts, src/schedule/add.ts),    *)
(* executions that count and retire (src/schedule/exec.ts), and the TUI    *)
(* (src/tui/scheduleActions.ts), which does the same from its own process. *)
(*                                                                         *)
(* Each is an editor that carries out one job at a time, a system call at  *)
(* a step: a spec is read whole, emptied and written; the crontab is read  *)
(* with "crontab -l" and replaced with "crontab -".  Nothing locks either, *)
(* and the user changes his own lines of the crontab whenever he likes.    *)
(* What one execution does to the lock is the business of ScheduleExec.    *)
(***************************************************************************)
EXTENDS Crontab

CONSTANTS
    Cmds,       \* the commands given and the executions started
    Tui,        \* the TUI's process
    NoSpec,     \* the spec file does not exist
    Torn,       \* the spec file cannot be parsed
    MaxFaults,  \* bound: crontab commands that fail
    MaxEdits    \* bound: changes the user makes to his own lines

ASSUME DeskAssumption ==
    /\ Tui \notin Cmds /\ IsFiniteSet(Cmds)
    /\ MaxFaults \in Nat /\ MaxEdits \in Nat

VARIABLES
    spec,       \* spec[n]: contents of <n>.json
    stamp,      \* stamp[n]: how often that file changed
    log,        \* log[n]: lines of <n>.log about runs and the removal
    crontab,
    at,         \* at[e]: what editor e does next
    job,        \* job[e]: the job it carries out
    copy,       \* copy[e]: the spec in its memory
    text,       \* text[e]: the crontab in its memory
    faults,     \* crontab commands that failed
    overlap,    \* two jobs have been under way at once
    stranded,   \* the schedules retired though their line stayed
    own,        \* the user's lines as the user last left them
    late,       \* the editors about to write what they read before that
    lost,       \* one of them has written since
    edits       \* changes the user made

fileVars == <<spec, stamp, log, crontab>>
editVars == <<at, job, copy, text>>
pastVars == <<faults, overlap, stranded, own, late, lost, edits>>
deskVars == <<fileVars, editVars, pastVars>>

Editors == Cmds \cup {Tui}

Specs == [status : {"active", "paused", "retired"}, runs : 0..Cardinality(Cmds)]
NewSpec == [status |-> "active", runs |-> 0]

(* A file that is missing or torn is not a spec.                           *)
ASSUME FilesAssumption == NoSpec # Torn /\ {NoSpec, Torn} \cap Specs = {}

Jobs == [op : {"add", "pause", "resume", "toggle", "rm", "exec"}, name : Names]
NoJob == [op |-> "none"]

Count(n) == LinesOf(crontab, n)

(* The schedules there were before, all active, and a crontab with their   *)
(* lines behind the user's own, or before them when those are unfinished.  *)
DeskInit ==
    /\ spec \in [Names -> {NewSpec, NoSpec}]
    /\ stamp = [n \in Names |-> 0]
    /\ log = [n \in Names |-> 0]
    /\ \E mine \in SUBSET Foreign :
       \E kept \in SetToSeqs(mine), tagged \in SetToSeqs({n \in Names : spec[n] = NewSpec}) :
          \/ crontab = Closed(kept \o tagged)
          \/ mine # {} /\ crontab = [lines |-> tagged \o kept, closed |-> FALSE]
    /\ at = [e \in Editors |-> "idle"]
    /\ job = [e \in Editors |-> NoJob]
    /\ copy = [e \in Editors |-> NewSpec]
    /\ text = [e \in Editors |-> Closed(<<>>)]
    /\ faults = 0
    /\ overlap = FALSE
    /\ stranded = {}
    /\ own = UsersOwn(crontab)
    /\ late = {} /\ lost = FALSE /\ edits = 0

Working(e) == at[e] \in {"readCrontab", "writeCrontab", "empty", "write", "writeUnlinked",
                         "unlink", "withdraw", "note"}
Stages == {"idle", "readCrontab", "writeCrontab", "empty", "write", "writeUnlinked", "unlink",
           "withdraw", "note", "run", "over", "failed", "list"}

Go(e, stage) == at' = [at EXCEPT ![e] = stage]
Op(e) == job[e].op
Name(e) == job[e].name

(* The job's first file access.                                            *)
Start(e, o, n, copied, first) ==
    /\ job' = [job EXCEPT ![e] = [op |-> o, name |-> n]]
    /\ copy' = [copy EXCEPT ![e] = copied]
    /\ Go(e, first)
    /\ overlap' = (overlap \/ \E d \in Editors \ {e} : Working(d))
    /\ UNCHANGED <<fileVars, text, faults, stranded, own, late, lost, edits>>

Readable(n) == spec[n] \in Specs

(* scheduleAddAction() and the form's submit: addSchedule(), which refuses *)
(* a name whose spec file is there.                                        *)
Add(e, n) == spec[n] = NoSpec /\ Start(e, "add", n, NewSpec, "empty")

(* A spec that cannot be read, or is retired, is refused.                  *)
Pause(e, o, n) ==
    /\ Readable(n) /\ spec[n].status # "retired"
    /\ Start(e, o, n, [spec[n] EXCEPT !.status = "paused"], "readCrontab")

Resume(e, o, n) ==
    /\ Readable(n) /\ spec[n].status # "retired"
    /\ Start(e, o, n, [spec[n] EXCEPT !.status = "active"], "readCrontab")

(* toggleSchedulePaused(): by the status on disk, not the one on screen.   *)
Toggle(e, n) ==
    \/ Readable(n) /\ spec[n].status = "paused" /\ Resume(e, "toggle", n)
    \/ Readable(n) /\ spec[n].status = "active" /\ Pause(e, "toggle", n)

(* scheduleRmAction(), removeScheduleForTui(). *)
TakeOut(e, n) == Readable(n) /\ Start(e, "rm", n, spec[n], "readCrontab")

(* execSchedule(): an active schedule's command is run, unless another     *)
(* execution of it is under way.                                           *)
Exec(c, n) ==
    /\ Readable(n) /\ spec[n].status = "active"
    /\ ~\E d \in Cmds : at[d] # "over" /\ job[d] = [op |-> "exec", name |-> n]
    /\ Start(c, "exec", n, spec[n], "run")

(* The run's log line and updateSpecAfterRun(): counted, and retired when  *)
(* it is done unless somebody changed its status during the run.           *)
Return(c, retires) ==
    /\ at[c] = "run"
    /\ LET n == Name(c)
       IN  IF Readable(n)
           THEN LET retired == retires /\ spec[n].status = copy[c].status
                    counted == [spec[n] EXCEPT !.runs = @ + 1]
                IN  /\ copy' = [copy EXCEPT ![c] =
                                   IF retired THEN [counted EXCEPT !.status = "retired"]
                                   ELSE counted]
                    /\ Go(c, IF retired THEN "readCrontab" ELSE "empty")
                    /\ overlap' = (overlap \/ \E d \in Editors \ {c} : Working(d))
           ELSE Go(c, "over") /\ UNCHANGED <<copy, overlap>>
    /\ log' = [log EXCEPT ![Name(c)] = @ + 1]
    /\ UNCHANGED <<spec, stamp, crontab, job, text, faults, stranded, own, late, lost, edits>>

(* What the job writes to the crontab.                                     *)
Removes(e) ==
    \/ Op(e) \in {"pause", "rm", "exec"}
    \/ Op(e) = "toggle" /\ copy[e].status = "paused"

Edited(e) == IF Removes(e) THEN RemoveTagged(text[e], Name(e)) ELSE Install(text[e], Name(e))

AfterCrontab(e) ==
    CASE Op(e) = "add" -> "over" [] Op(e) = "rm" -> "unlink" [] OTHER -> "empty"

ReadCrontab(e) ==
    /\ at[e] = "readCrontab" /\ Go(e, "writeCrontab")
    /\ text' = [text EXCEPT ![e] = crontab]
    /\ late' = late \ {e}
    /\ UNCHANGED <<fileVars, job, copy, faults, overlap, stranded, own, lost, edits>>

WriteCrontab(e) ==
    /\ at[e] = "writeCrontab" /\ Go(e, AfterCrontab(e))
    /\ crontab' = Edited(e)
    /\ text' = [text EXCEPT ![e] = Closed(<<>>)]
    /\ late' = late \ {e} /\ lost' = (lost \/ e \in late)
    /\ UNCHANGED <<spec, stamp, log, job, copy, faults, overlap, stranded, own, edits>>

(* Mutant: add leaves its spec behind when crontab fails.                  *)
AfterFailureKept(e) == IF Op(e) = "exec" THEN "empty" ELSE "failed"

(* crontab fails: an execution logs it and goes on, a command throws, and  *)
(* add takes its spec back.                                                *)
AfterFailure(e) ==
    CASE Op(e) = "exec" -> "empty" [] Op(e) = "add" -> "withdraw" [] OTHER -> "failed"

CrontabFails(e) ==
    /\ at[e] \in {"readCrontab", "writeCrontab"} /\ Go(e, AfterFailure(e))
    /\ faults < MaxFaults
    /\ faults' = faults + 1
    /\ stranded' = IF Op(e) = "exec" THEN stranded \cup {Name(e)} ELSE stranded
    /\ late' = late \ {e}
    /\ UNCHANGED <<fileVars, job, copy, text, overlap, own, lost, edits>>

(* writeScheduleSpec(): opened and emptied, then written.  A write into a  *)
(* file that somebody has filled since can leave the tail of the longer    *)
(* text behind; one into a file that was unlinked since is lost.           *)
EmptySpec(e) ==
    /\ at[e] = "empty" /\ Go(e, "write")
    /\ spec' = [spec EXCEPT ![Name(e)] = Torn]
    /\ stamp' = [stamp EXCEPT ![Name(e)] = @ + 1]
    /\ UNCHANGED <<log, crontab, job, copy, text, pastVars>>

WriteSpec(e) ==
    /\ at[e] \in {"write", "writeUnlinked"}
    /\ Go(e, IF Op(e) = "add" THEN "readCrontab" ELSE "over")
    /\ \/ at[e] = "write" /\ spec' = [spec EXCEPT ![Name(e)] = copy[e]]
       \/ /\ at[e] = "write" /\ spec[Name(e)] \in Specs \ {copy[e]}
          /\ spec' = [spec EXCEPT ![Name(e)] = Torn]
       \/ at[e] = "writeUnlinked" /\ spec' = spec
    /\ stamp' = [stamp EXCEPT ![Name(e)] = @ + 1]
    /\ UNCHANGED <<log, crontab, job, copy, text, pastVars>>

(* removeScheduleSpec(), for rm and for an add that failed; a removal is   *)
(* noted in the log.                                                       *)
UnlinkSpec(e) ==
    /\ at[e] \in {"unlink", "withdraw"}
    /\ at' = [d \in Editors |->
                 IF d = e THEN (IF at[e] = "unlink" THEN "note" ELSE "failed")
                 ELSE IF at[d] = "write" /\ Name(d) = Name(e) THEN "writeUnlinked"
                 ELSE at[d]]
    /\ spec' = [spec EXCEPT ![Name(e)] = NoSpec]
    /\ stamp' = [stamp EXCEPT ![Name(e)] = @ + 1]
    /\ UNCHANGED <<log, crontab, job, copy, text, pastVars>>

NoteRemoval(e) ==
    /\ at[e] = "note" /\ Go(e, "over")
    /\ log' = [log EXCEPT ![Name(e)] = @ + 1]
    /\ UNCHANGED <<spec, stamp, crontab, job, copy, text, pastVars>>

EditStep(e) ==
    \/ ReadCrontab(e) \/ WriteCrontab(e) \/ CrontabFails(e)
    \/ EmptySpec(e) \/ WriteSpec(e) \/ UnlinkSpec(e) \/ NoteRemoval(e)

(* What is typed on a command line, or started by cron.                    *)
Command(c) ==
    /\ at[c] = "idle"
    /\ \E n \in Names :
          \/ Add(c, n) \/ TakeOut(c, n) \/ Exec(c, n)
          \/ Pause(c, "pause", n) \/ Resume(c, "resume", n)

CommandStep(c) == EditStep(c) \/ \E retires \in BOOLEAN : Return(c, retires)

(* The user, or a program of his, adds a line of his own or takes one      *)
(* away, and leaves the schedules' lines alone.  Whatever an editor has in *)
(* its memory is older than this.                                          *)
UserEdits ==
    /\ edits < MaxEdits /\ edits' = edits + 1
    /\ \E line \in Foreign :
          IF LinesOf(crontab, line) = 0
          THEN \E closed \in BOOLEAN :
                  crontab' = [lines |-> Append(crontab.lines, line), closed |-> closed]
          ELSE crontab' = RemoveTagged(crontab, line)
    /\ own' = UsersOwn(crontab')
    /\ late' = {e \in Editors : at[e] = "writeCrontab"}
    /\ lost' = FALSE
    /\ UNCHANGED <<spec, stamp, log, editVars, faults, overlap, stranded>>

DeskNext == UserEdits \/ \E c \in Cmds : Command(c) \/ CommandStep(c)
-----------------------------------------------------------------------------
DeskTypeOK ==
    /\ spec \in [Names -> Specs \cup {NoSpec, Torn}]
    /\ stamp \in [Names -> Nat] /\ log \in [Names -> Nat]
    /\ crontab \in Texts
    /\ at \in [Editors -> Stages]
    /\ job \in [Editors -> Jobs \cup {NoJob}]
    /\ copy \in [Editors -> Specs]
    /\ text \in [Editors -> Texts]
    /\ \A e \in Editors : Working(e) => job[e] \in Jobs
    /\ own \in Texts /\ late \subseteq Editors
    /\ lost \in BOOLEAN /\ edits \in Nat

(* Whoever edits the crontab, in whatever order and with whatever edits    *)
(* lost, and whatever the user does to his own lines meanwhile: these are  *)
(* as he last left them, none lost, moved or joined with another, unless   *)
(* an editor that had read the crontab before that wrote it after, which   *)
(* loses them (docs/schedule.md:136 says "preserved byte-for-byte"); and   *)
(* no schedule is listed twice.                                            *)
CrontabKept ==
    /\ ~lost => UsersOwn(crontab) = own
    /\ \A n \in Names : Count(n) <= 1

(* While nobody is at work, and if nobody ever interfered with another,    *)
(* exactly the active schedules are in the crontab, also when a crontab    *)
(* command failed half-way: only a retirement may leave its line behind.   *)
LinesMatchSpecs ==
    ~overlap /\ (\A e \in Editors : ~Working(e)) =>
        \A n \in Names :
            IF Readable(n) /\ spec[n].status = "active" THEN Count(n) = 1
            ELSE Count(n) = 0 \/ n \in stranded

(* Types, and the agreement of spec files and crontab lines.               *)
DeskInv == DeskTypeOK /\ LinesMatchSpecs
=============================================================================
