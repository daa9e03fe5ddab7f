------------------------------- MODULE RunLife -------------------------------
(* One run as the other commands see it: the runner process from its spawn *)
(* to its exit (src/runner.ts), the three files by which it is known, the  *)
(* journal, the pid file and the control file (src/journal.ts,             *)
(* src/rundir.ts, src/control.ts), and the commands that read or change    *)
(* them from other processes (src/cli.ts): ls, show, watch, pause, kill.   *)
(*                                                                         *)
(* Every system call of a command is a step of its own.  What happens      *)
(* inside the runner between its start and its teardown is AgentRuntime's. *)
(* The journal lines written in between change none of the reads below.    *)
(* A pid names whatever process owns it: once the runner is gone, the      *)
(* system may give its pid to a foreign process.  The command line of a    *)
(* process is assumed to be readable.                                      *)
EXTENDS Naturals, Sequences

CONSTANTS
    Commands,    \* the commands that run beside the runner
    Kinds,       \* Kinds[o]: what command o may be: "ls", "show", "watch", "pause", "kill"
    DeadChecks   \* DEAD_RUNNER_CHECKS

ASSUME LifeBounds ==
    /\ DeadChecks \in Nat \ {0}
    /\ Kinds \in [Commands -> SUBSET {"ls", "show", "watch", "pause", "kill"}]

VARIABLES
    runner,    \* where the runner stands
    owner,     \* whose the runner's pid is: "none", "runner" or "foreign"
    stopping,  \* requestStop() was called
    read,      \* how many lines of the control file the runner has read
    heard,     \* and which of them it has dispatched
    journal,   \* the lines of the journal
    size,      \* its size on disk, in half lines: a long line is visible in part
    pidfile,   \* whether the pid file is there
    control,   \* the lines of the control file
    cmd        \* cmd[o]: the process of command o

files == <<journal, size, pidfile, control>>
process == <<runner, owner, stopping, read, heard>>
vars == <<files, process, cmd>>
-----------------------------------------------------------------------------
Fresh == [kind |-> "none", pc |-> "idle", pid |-> FALSE, raw |-> FALSE, ok |-> FALSE,
          ended |-> FALSE, n |-> 0, grace |-> FALSE, offset |-> 0,
          verdict |-> "none", early |-> FALSE, at |-> "none"]

(* runAction() has written the snapshots of a new run directory.           *)
Init ==
    /\ runner = "unborn"
    /\ owner = "none"
    /\ stopping = FALSE
    /\ read = 0
    /\ heard = {}
    /\ journal = <<>>
    /\ size = 0
    /\ pidfile = FALSE
    /\ control = <<>>
    /\ cmd = [o \in Commands |-> Fresh]

Lines(n) == SubSeq(journal, 1, n \div 2)
Contains(seq, x) == \E i \in DOMAIN seq : seq[i] = x

(* readJournal(): whole lines, a partial last one is left out.             *)
Ended   == Contains(Lines(size), "run_end")
Started == Contains(Lines(size), "run_start")

AppendLine(line) ==
    /\ size % 2 = 0
    /\ journal' = Append(journal, line)
    /\ size' \in {size + 1, size + 2}

At(label) == runner = label
Goto(label) == runner' = label
-----------------------------------------------------------------------------
(* The runner.                                                             *)
Spawn ==
    /\ At("unborn") /\ Goto("boot")
    /\ owner' = "runner"
    /\ UNCHANGED <<stopping, read, heard, files, cmd>>

(* The rest of a line reaches the disk; a crash leaves it torn.            *)
Flush ==
    /\ owner = "runner" /\ size % 2 = 1
    /\ size' = size + 1
    /\ UNCHANGED <<process, journal, pidfile, control, cmd>>

(* The startup guard: run_start if the script could be loaded, run_end.    *)
LoadFails ==
    /\ At("boot") /\ Goto("failing")
    /\ AppendLine("run_start") \/ UNCHANGED <<journal, size>>
    /\ UNCHANGED <<owner, stopping, read, heard, pidfile, control, cmd>>

JournalFailure ==
    /\ At("failing") /\ Goto("failed")
    /\ AppendLine("run_end")
    /\ UNCHANGED <<owner, stopping, read, heard, pidfile, control, cmd>>

JournalStart ==
    /\ At("boot") /\ Goto("started")
    /\ AppendLine("run_start")
    /\ UNCHANGED <<owner, stopping, read, heard, pidfile, control, cmd>>

WritePid ==
    /\ At("started") /\ Goto("attaching")
    /\ size % 2 = 0
    /\ pidfile' = TRUE
    /\ UNCHANGED <<owner, stopping, read, heard, journal, size, control, cmd>>

(* processNewData() of the control file: every line not yet dispatched.    *)
Dispatch ==
    /\ read' = Len(control)
    /\ heard' = heard \cup (read + 1 .. Len(control))
    /\ stopping' = (stopping \/ Contains(SubSeq(control, read + 1, Len(control)), "stop"))

(* Mutant: the tail starts at the end of the control file.                 *)
AttachAtEnd ==
    /\ At("attaching") /\ Goto("running")
    /\ read' = Len(control)
    /\ UNCHANGED <<stopping, heard, owner, files, cmd>>

(* tailControl() replays what was written before; then the signal handlers *)
(* are installed and the body starts.                                      *)
Attach ==
    /\ At("attaching") /\ Goto("running")
    /\ Dispatch
    /\ UNCHANGED <<owner, files, cmd>>

Listening == runner \in {"running", "draining"}

(* The directory watch or the poll.                                        *)
PollControl ==
    /\ Listening
    /\ read < Len(control)
    /\ Dispatch
    /\ UNCHANGED <<runner, owner, files, cmd>>

(* The body settles, or a stop overtakes it.                               *)
Teardown ==
    /\ At("running") /\ Goto("draining")
    /\ UNCHANGED <<owner, stopping, read, heard, files, cmd>>

(* drainAgents() returns: the tail and the signal handlers are taken off.  *)
Drained ==
    /\ At("draining") /\ Goto("sealing")
    /\ size % 2 = 0
    /\ UNCHANGED <<owner, stopping, read, heard, files, cmd>>

JournalEnd ==
    /\ At("sealing") /\ Goto("sealed")
    /\ AppendLine("run_end")
    /\ UNCHANGED <<owner, stopping, read, heard, pidfile, control, cmd>>

RemovePid ==
    /\ At("sealed") /\ Goto("leaving")
    /\ size % 2 = 0
    /\ pidfile' = FALSE
    /\ UNCHANGED <<owner, stopping, read, heard, journal, size, control, cmd>>

Gone == runner' = "gone" /\ owner' = "none" /\ UNCHANGED <<stopping, read, heard>>

Exit ==
    /\ At("leaving") \/ At("failed")
    /\ size % 2 = 0
    /\ Gone
    /\ UNCHANGED <<files, cmd>>

Crash ==
    /\ owner = "runner"
    /\ Gone
    /\ UNCHANGED <<files, cmd>>

Recycle ==
    /\ At("gone") /\ owner = "none"
    /\ owner' = "foreign"
    /\ UNCHANGED <<runner, stopping, read, heard, files, cmd>>

(* A signal to the pid.  Without its handlers the runner dies of SIGTERM.  *)
Signal(term) ==
    CASE owner # "runner"     -> UNCHANGED process
      [] term /\ Listening    -> stopping' = TRUE /\ UNCHANGED <<runner, owner, read, heard>>
      [] OTHER                -> Gone
-----------------------------------------------------------------------------
(* The other commands.                                                     *)
Is(o, kind, label) == cmd[o].kind = kind /\ cmd[o].pc = label
Set(o, state) == cmd' = [cmd EXCEPT ![o] = state]
Goes(o, next) == Set(o, [cmd[o] EXCEPT !.pc = next])
Quietly == UNCHANGED <<process, files>>
Returns(o, verdict) ==
    Set(o, [Fresh EXCEPT !.kind = cmd[o].kind, !.pc = "done", !.early = cmd[o].early,
                         !.verdict = verdict])

First(kind) ==
    CASE kind = "ls" -> "pid" [] kind = "show" -> "fold" [] kind = "watch" -> "tail"
      [] kind = "pause" -> "pid" [] kind = "kill" -> "ended"

Begin(o) ==
    /\ cmd[o].pc = "idle"
    /\ \E kind \in Kinds[o] : Set(o, [cmd[o] EXCEPT !.kind = kind, !.pc = First(kind)])
    /\ Quietly

(* readPid().                                                              *)
Starting == {"unborn", "boot", "failing", "failed", "started"}
ReadPid(o, next) ==
    Set(o, [cmd[o] EXCEPT !.pid = pidfile, !.early = runner \in Starting, !.pc = next]) /\ Quietly

(* pidAlive() and runnerPidAlive() of the pid read before.                 *)
PidAlive(o) == cmd[o].pid /\ owner # "none"
RunnerPidAlive(o) == cmd[o].pid /\ owner = "runner"
-----------------------------------------------------------------------------
(* ls: listRunsReconciled(), up to three listings while the run looks dead.*)
ListPid(o) == Is(o, "ls", "pid") /\ ReadPid(o, "raw")

ListRaw(o) ==
    /\ Is(o, "ls", "raw")
    /\ Set(o, [cmd[o] EXCEPT !.raw = PidAlive(o), !.pc = "verify"])
    /\ Quietly

ListVerify(o) ==
    /\ Is(o, "ls", "verify")
    /\ Set(o, [cmd[o] EXCEPT !.ok = cmd[o].raw /\ RunnerPidAlive(o), !.pc = "read"])
    /\ Quietly

ListRead(o) ==
    /\ \/ Is(o, "ls", "read")
          /\ Set(o, [cmd[o] EXCEPT !.ended = Ended,
                                    !.pc = IF Ended \/ cmd[o].ok THEN "judge" ELSE "reread"])
       \/ Is(o, "ls", "reread") /\ Set(o, [cmd[o] EXCEPT !.ended = Ended, !.pc = "judge"])
    /\ Quietly

(* The stale pid file of a crashed runner is removed.                      *)
ListJudge(o) ==
    /\ Is(o, "ls", "judge")
    /\ \/ cmd[o].ended /\ Returns(o, "ended")
       \/ ~cmd[o].ended /\ cmd[o].ok /\ Returns(o, "running")
       \/ /\ ~cmd[o].ended /\ ~cmd[o].ok
          /\ IF cmd[o].n < 2
             THEN Set(o, [cmd[o] EXCEPT !.n = @ + 1, !.raw = FALSE, !.ok = FALSE, !.pc = "pid"])
             ELSE Returns(o, "dead")
    /\ pidfile' = (pidfile /\ ~(cmd[o].pid /\ ~cmd[o].ended /\ ~cmd[o].raw))
    /\ UNCHANGED <<process, journal, size, control>>
-----------------------------------------------------------------------------
(* show: foldAfterDeadGrace(), a fold of the journal and isRunDead(), both *)
(* again after a pause if it looks dead.                                   *)
ShowFold(o) ==
    /\ Is(o, "show", "fold")
    /\ IF Ended THEN Returns(o, "ended") ELSE Goes(o, "scan")
    /\ Quietly

IsRunDeadScan(o) ==
    /\ Is(o, "show", "scan")
    /\ Goes(o, IF Started /\ ~Ended THEN "pid" ELSE "refold")
    /\ Quietly

IsRunDeadPid(o) == Is(o, "show", "pid") /\ ReadPid(o, "verify")

IsRunDeadVerify(o) ==
    /\ Is(o, "show", "verify")
    /\ Goes(o, IF RunnerPidAlive(o) THEN "refold" ELSE "last")
    /\ Quietly

ShowDead(o) ==
    IF cmd[o].n = 0 THEN Set(o, [cmd[o] EXCEPT !.n = 1, !.pc = "fold"]) ELSE Returns(o, "dead")

(* Mutant: a dead pid decides, the journal is not read again.              *)
IsRunDeadUnread(o) ==
    /\ Is(o, "show", "last")
    /\ ShowDead(o)
    /\ Quietly

IsRunDeadLast(o) ==
    /\ Is(o, "show", "last")
    /\ IF Ended THEN Goes(o, "refold") ELSE ShowDead(o)
    /\ Quietly

ShowRefold(o) ==
    /\ Is(o, "show", "refold")
    /\ Returns(o, IF Ended THEN "ended" ELSE "running")
    /\ Quietly
-----------------------------------------------------------------------------
(* watch: tailRun().  Its callbacks run one at a time: "tail" is its event *)
(* loop, offset how far it has read.                                       *)
Unread(o) == SubSeq(Lines(size), (cmd[o].offset \div 2) + 1, size \div 2)

TailPoll(o) ==
    /\ Is(o, "watch", "tail")
    /\ size > cmd[o].offset
    /\ IF Contains(Unread(o), "run_end") THEN Returns(o, "ended")
       ELSE Set(o, [cmd[o] EXCEPT !.offset = size])
    /\ Quietly

(* The interval every 500 ms, and the grace timer that it arms.            *)
LivenessPid(o) == Is(o, "watch", "tail") /\ ReadPid(o, "verify")

(* Mutant: any process of that pid will do.                                *)
LivenessVerifyByPid(o) ==
    /\ Is(o, "watch", "verify")
    /\ LET n == cmd[o].n + 1
           full == cmd[o].grace \/ n >= DeadChecks
       IN  Set(o, IF PidAlive(o)
                  THEN [cmd[o] EXCEPT !.n = 0, !.grace = FALSE, !.pid = FALSE, !.pc = "tail"]
                  ELSE IF full THEN [cmd[o] EXCEPT !.pid = FALSE, !.pc = "full"]
                  ELSE [cmd[o] EXCEPT !.n = n, !.pid = FALSE, !.pc = "tail"])
    /\ Quietly

LivenessVerify(o) ==
    /\ Is(o, "watch", "verify")
    /\ LET n == cmd[o].n + 1
           full == cmd[o].grace \/ n >= DeadChecks
       IN  Set(o, IF RunnerPidAlive(o)
                  THEN [cmd[o] EXCEPT !.n = 0, !.grace = FALSE, !.pid = FALSE, !.pc = "tail"]
                  ELSE IF full THEN [cmd[o] EXCEPT !.pid = FALSE, !.pc = "full"]
                  ELSE [cmd[o] EXCEPT !.n = n, !.pid = FALSE, !.pc = "tail"])
    /\ Quietly

(* finishFromFullRead().                                                   *)
FullRead(o) ==
    /\ Is(o, "watch", "full")
    /\ \/ Ended /\ Returns(o, "ended")
       \/ ~Ended /\ ~cmd[o].grace /\ Set(o, [cmd[o] EXCEPT !.grace = TRUE, !.pc = "tail"])
       \/ ~Ended /\ cmd[o].grace /\ Returns(o, "dead")
    /\ Quietly

(* --timeout-ms of show --wait.                                            *)
WatchTimesOut(o) ==
    /\ Is(o, "watch", "tail")
    /\ Returns(o, "timeout")
    /\ Quietly
-----------------------------------------------------------------------------
(* pause: requireAliveRun(), appendControl().                              *)
PausePid(o) == Is(o, "pause", "pid") /\ ReadPid(o, "verify")

PauseVerify(o) ==
    /\ Is(o, "pause", "verify")
    /\ IF RunnerPidAlive(o) THEN Goes(o, "append") ELSE Returns(o, "exited")
    /\ Quietly

AppendControl(o, line) ==
    /\ control' = Append(control, line)
    /\ UNCHANGED <<process, journal, size, pidfile>>

PauseAppend(o) ==
    /\ Is(o, "pause", "append")
    /\ AppendControl(o, "pause")
    /\ Set(o, [cmd[o] EXCEPT !.pc = "done", !.verdict = "asked", !.n = Len(control) + 1])

(* kill: killAction().                                                     *)
KillEnded(o) ==
    /\ Is(o, "kill", "ended")
    /\ IF Ended THEN Returns(o, "ended") ELSE Goes(o, "pid")
    /\ Quietly

KillPid(o) == Is(o, "kill", "pid") /\ ReadPid(o, "verify")

KillVerify(o) ==
    /\ Is(o, "kill", "verify")
    /\ IF RunnerPidAlive(o) THEN Goes(o, "stop") ELSE Returns(o, "exited")
    /\ Quietly

KillStop(o) ==
    /\ Is(o, "kill", "stop")
    /\ AppendControl(o, "stop")
    /\ Set(o, [cmd[o] EXCEPT !.pc = "wait", !.n = Len(control) + 1])

(* waitEnded(), before and after SIGTERM.                                  *)
Waiting(o) == Is(o, "kill", "wait") \/ Is(o, "kill", "waitTerm")

WaitSees(o) ==
    /\ Waiting(o)
    /\ Ended \/ ~PidAlive(o)
    /\ Returns(o, "stopped")
    /\ Quietly

(* Mutant: the pid is not verified again after the wait.                   *)
WaitExpiresUnverified(o) ==
    /\ \/ Is(o, "kill", "wait") /\ Set(o, [cmd[o] EXCEPT !.at = owner, !.pc = "term"])
       \/ Is(o, "kill", "waitTerm") /\ Set(o, [cmd[o] EXCEPT !.at = owner, !.pc = "kill"])
    /\ Quietly

WaitExpires(o) ==
    /\ \/ Is(o, "kill", "wait") /\ Set(o, [cmd[o] EXCEPT !.at = owner, !.pc = "reverify"])
       \/ Is(o, "kill", "waitTerm") /\ Set(o, [cmd[o] EXCEPT !.at = owner, !.pc = "reverifyTerm"])
    /\ Quietly

KillReverify(o) ==
    /\ Is(o, "kill", "reverify") \/ Is(o, "kill", "reverifyTerm")
    /\ IF ~RunnerPidAlive(o) THEN Returns(o, "exited")
       ELSE Goes(o, IF cmd[o].pc = "reverify" THEN "term" ELSE "kill")
    /\ Quietly

SendTerm(o) ==
    /\ Is(o, "kill", "term")
    /\ Signal(TRUE)
    /\ Goes(o, "waitTerm")
    /\ UNCHANGED files

SendKill(o) ==
    /\ Is(o, "kill", "kill")
    /\ Signal(FALSE)
    /\ Returns(o, "killed")
    /\ UNCHANGED files
-----------------------------------------------------------------------------
RunnerNext ==
    \/ Spawn \/ Flush \/ LoadFails \/ JournalFailure \/ JournalStart \/ WritePid \/ Attach
    \/ PollControl \/ Teardown \/ Drained \/ JournalEnd \/ RemovePid \/ Exit

ListStep(o) == ListPid(o) \/ ListRaw(o) \/ ListVerify(o) \/ ListRead(o) \/ ListJudge(o)
ShowStep(o) ==
    \/ ShowFold(o) \/ IsRunDeadScan(o) \/ IsRunDeadPid(o) \/ IsRunDeadVerify(o)
    \/ IsRunDeadLast(o) \/ ShowRefold(o)
LivenessStep(o) == LivenessPid(o) \/ LivenessVerify(o) \/ FullRead(o)
PauseStep(o) == PausePid(o) \/ PauseVerify(o) \/ PauseAppend(o)
KillStep(o) ==
    \/ KillEnded(o) \/ KillPid(o) \/ KillVerify(o) \/ KillStop(o) \/ WaitSees(o) \/ WaitExpires(o)
    \/ KillReverify(o) \/ SendTerm(o) \/ SendKill(o)

CommandStep(o) ==
    ListStep(o) \/ ShowStep(o) \/ TailPoll(o) \/ LivenessStep(o) \/ PauseStep(o) \/ KillStep(o)

Next ==
    \/ RunnerNext \/ Crash \/ Recycle
    \/ \E o \in Commands : Begin(o) \/ CommandStep(o) \/ WatchTimesOut(o)

Spec == Init /\ [][Next]_vars

(* The commands go on, and so does what the runner does by itself: start,  *)
(* read the control file, tear down what was stopped (the drain has a      *)
(* deadline) and finalise.  How long a body takes is not assumed, nor that *)
(* a wait is long enough.                                                  *)
FairSpec ==
    /\ Spec
    /\ WF_vars(JournalStart \/ LoadFails) /\ WF_vars(Flush) /\ WF_vars(WritePid)
    /\ WF_vars(Attach) /\ WF_vars(PollControl) /\ WF_vars(stopping /\ Teardown)
    /\ WF_vars(Drained \/ JournalEnd \/ RemovePid \/ Exit)
    /\ \A o \in Commands :
         /\ WF_vars(ListStep(o) \/ ShowStep(o) \/ PauseStep(o) \/ KillStep(o))
         /\ WF_vars(TailPoll(o)) /\ WF_vars(LivenessStep(o))
-----------------------------------------------------------------------------
(* A command that calls a run dead is right: its runner is gone and will   *)
(* never end it, whatever was written between the command's reads.  (Not   *)
(* so if the command read the pid file before the runner had written it.)  *)
DeadIsFinal ==
    \A o \in Commands :
        cmd[o].verdict = "dead" /\ ~cmd[o].early => runner = "gone" /\ ~Ended

(* kill waits for seconds, in which the runner may die and its pid be      *)
(* given away: a pid that is foreign when a wait is over gets no signal.   *)
ForeignSpared ==
    [][\A o \in Commands :
         (SendTerm(o) \/ SendKill(o)) => cmd[o].at # "foreign"]_vars

(* A command that waits for a run to end returns once the runner is gone,  *)
(* crashed or not, though its pid may live on in another process.          *)
WatchReturns ==
    \A o \in Commands :
        cmd[o].kind \in {"watch", "kill"} /\ runner = "gone" ~> cmd[o].pc = "done"

(* What a command was told it has asked for happens.  A line of the        *)
(* control file reaches a runner that goes on listening, also if it was    *)
(* written before the runner attached; kill, once it has found the runner, *)
(* ends it, also if it never looks at the control file again; and a stop   *)
(* that was read or signalled is carried through to the runner's exit.     *)
CommandsTakeEffect ==
    /\ stopping ~> At("gone")
    /\ \A o \in Commands :
         /\ cmd[o].verdict = "asked" ~> cmd[o].n \in heard \/ ~(Listening \/ At("attaching"))
         /\ Is(o, "kill", "stop") ~> runner \in {"sealed", "leaving", "gone"}
=============================================================================
