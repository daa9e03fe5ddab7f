---------------------------- MODULE AgentRuntime ----------------------------
(***************************************************************************)
(* One workflow run inside the runner process: the agent() calls of the    *)
(* script (runAgent in src/runtime.ts), the run controller that pauses,    *)
(* resumes, skips and stops them, the token budget, the journal they must  *)
(* leave complete, and the runner's teardown (src/runner.ts).              *)
(*                                                                         *)
(* JavaScript runs each piece of code up to its next await without being   *)
(* interrupted, so one action is one such piece.  Three kinds of pieces    *)
(* are ordered by the event loop and the model keeps that order:           *)
(*   - the commands of one chunk of the control file are dispatched in a   *)
(*     row, before any promise continuation runs (batch counts what is     *)
(*     left of the chunk);                                                 *)
(*   - promise continuations (of acquire(), of the script, of the runner)  *)
(*     run next, until none is left;                                       *)
(*   - only then does a timer, a child process or a new chunk of commands  *)
(*     get its turn (Idle).                                                *)
(***************************************************************************)
EXTENDS Semaphore, Functions

CONSTANTS
    MaxCalls,       \* bound: how many agent() calls the script makes
    Isolated,       \* the calls made with isolation: "worktree"
    LifetimeCap,    \* LIFETIME_AGENT_CAP
    BudgetTotal,    \* options.budgetTotal, or NoBudget
    NoBudget,       \* budgetTotal === null
    MaxUsage,       \* bound: output tokens one agent reports
    MaxBatch        \* bound: control commands in one chunk

ASSUME CallsAreOrdinals == Calls = 1..MaxCalls
ASSUME BoundsAssumption ==
    /\ MaxCalls \in Nat
    /\ Isolated \subseteq Calls
    /\ LifetimeCap \in Nat
    /\ MaxUsage \in Nat
    /\ MaxBatch \in Nat \ {0}
    /\ BudgetTotal \in Nat \/ BudgetTotal = NoBudget
    /\ NoBudget \notin Nat

VARIABLES
    counter,    \* counter.n: agent() calls made so far
    pc,         \* pc[n]: where call n's runAgent() stands
    aborted,    \* the calls whose AbortController has fired
    outcome,    \* outcome[n]: what the race of executor and abort decided
    exec,       \* exec[n]: the executor of call n
    finalUsage, \* finalUsage[n]: the usage its answer carried, or NoUsage
    ledger,     \* ledger[n]: output tokens charged to call n
    worktree,   \* worktree[n]: the isolated git worktree of call n
    journal,    \* journal[n]: last lifecycle event journaled for call n
    result,     \* result[n]: what the script's promise settled with
    awake,      \* some script code can run now
    yielding,   \* the queue a post-stop agent() call resumes from
    batch,      \* commands left in the control chunk being dispatched
    body,       \* the workflow body's own promise
    external,   \* what stop, a signal or an uncaught error decided
    phase,      \* the runner: running the body, draining, ended
    runStatus,  \* status of the run_end event
    timedOut    \* drainAgents() gave up at its deadline

callVars == <<counter, pc, aborted, outcome, exec, finalUsage, ledger,
              worktree, journal, result>>
runVars  == <<body, external, phase, runStatus, timedOut>>
loopVars == <<awake, yielding, batch>>
vars     == <<semVars, callVars, runVars, loopVars>>

(* The runtime's own stopped and paused flags are set in the same          *)
(* synchronous handlers as the semaphore's, so they are one variable each. *)
stopped == closed

Ended == {"ok", "failed", "skipped"}

(* The calls with an entry in the controllers map. *)
Live == {n \in Calls : pc[n] \notin {"uncalled", "settled"}}

(* spent(): the ledgers of every backend, summed. *)
Spent == SumFunction(ledger)
OverBudget == BudgetTotal # NoBudget /\ Spent >= BudgetTotal

(* Calls whose acquire() promise is resolved and whose code resumes next.  *)
Ready == {n \in Calls : pc[n] = "acquiring" /\ acq[n] \in {"granted", "denied"}}

(* The runner's Promise.race has been decided but not yet seen. *)
RaceDecided == phase = "body" /\ (body # "running" \/ external # "none")

Running == phase # "ended"

(* Promise continuations run once the command chunk is finished. *)
Microtask == Running /\ batch = 0

(* The event loop reaches timers, processes and files with none left. *)
Idle ==
    /\ Microtask /\ Ready = {}
    /\ ~awake /\ yielding # "microtask"
    /\ ~RaceDecided

(* An answer that carries no usage, or no answer. *)
NoUsage == -1

-----------------------------------------------------------------------------
Init ==
    /\ SemInit
    /\ counter = 0
    /\ pc = [n \in Calls |-> "uncalled"]
    /\ aborted = {}
    /\ outcome = [n \in Calls |-> "none"]
    /\ exec = [n \in Calls |-> "none"]
    /\ finalUsage = [n \in Calls |-> NoUsage]
    /\ ledger = [n \in Calls |-> 0]
    /\ worktree = [n \in Calls |-> "none"]
    /\ journal = [n \in Calls |-> "none"]
    /\ result = [n \in Calls |-> "none"]
    /\ awake = TRUE
    /\ yielding = "none"
    /\ batch \in 0..MaxBatch  \* commands written before the tail attached
    /\ body = "running"
    /\ external = "none"
    /\ phase = "body"
    /\ runStatus = "none"
    /\ timedOut = FALSE

-----------------------------------------------------------------------------
(* The script.                                                             *)

(* agent(): the cap and the budget are checked, and throw, before the call *)
(* is given a controller; then it asks for a slot.                         *)
Call ==
    LET n == counter + 1 IN
    /\ Microtask /\ awake /\ ~stopped
    /\ n \in Calls
    /\ counter' = n
    /\ \/ /\ n > LifetimeCap \/ OverBudget
          /\ pc' = [pc EXCEPT ![n] = "settled"]
          /\ result' = [result EXCEPT ![n] = "throw"]
          /\ UNCHANGED semVars
       \/ /\ n <= LifetimeCap /\ ~OverBudget
          /\ pc' = [pc EXCEPT ![n] = "acquiring"]
          /\ Acquire(n)
          /\ UNCHANGED result
    /\ UNCHANGED <<aborted, outcome, exec, finalUsage, ledger, worktree,
                   journal, runVars, loopVars>>

(* Mutant: the post-stop call resolves without yielding a macrotask. *)
CallStoppedSpins ==
    /\ Microtask /\ awake /\ stopped /\ yielding = "none"
    /\ yielding' = "microtask"
    /\ UNCHANGED <<semVars, callVars, runVars, awake, batch>>

(* agent() after stop takes no ordinal, journals nothing and resolves null *)
(* from the macrotask queue, so that timers get their turn.                *)
CallStopped ==
    /\ Microtask /\ awake /\ stopped /\ yielding = "none"
    /\ yielding' = "macrotask"
    /\ UNCHANGED <<semVars, callVars, runVars, awake, batch>>

(* A microtask resumes as soon as the script has awaited, a macrotask only *)
(* once the event loop is idle.                                            *)
YieldReturns ==
    /\ Microtask /\ ~awake
    /\ yielding # "none" /\ (yielding = "macrotask" => Idle)
    /\ yielding' = "none"
    /\ awake' = TRUE
    /\ UNCHANGED <<semVars, callVars, runVars, batch>>

(* The script awaits something. *)
Await ==
    /\ Microtask /\ awake
    /\ awake' = FALSE
    /\ UNCHANGED <<semVars, callVars, runVars, yielding, batch>>

(* The body returns or throws; agent() calls it did not await go on.       *)
BodySettles ==
    /\ Microtask /\ awake /\ phase = "body" /\ body = "running"
    /\ body' \in {"ok", "failed"}
    /\ awake' = FALSE
    /\ UNCHANGED <<semVars, callVars, external, phase, runStatus, timedOut,
                   yielding, batch>>

-----------------------------------------------------------------------------
(* One agent call, from its slot to its agent_end.                         *)

(* Mutant: the slot is released whether or not it was acquired. *)
FinallyAlwaysReleases(n) ==
    /\ pc' = [pc EXCEPT ![n] = "settled"]
    /\ Flush(available + 1, ~paused /\ ~closed, [acq EXCEPT ![n] = "none"])
    /\ awake' = TRUE
    /\ UNCHANGED <<paused, closed, counter, aborted, yielding, batch, runVars>>

(* The finally block: the controller is dropped and a slot that was        *)
(* acquired is released.                                                   *)
Finally(n) ==
    /\ pc' = [pc EXCEPT ![n] = "settled"]
    /\ Release(n) \/ Leave(n)
    /\ awake' = TRUE
    /\ UNCHANGED <<counter, aborted, yielding, batch, runVars>>

(* end(): agent_end with its status, the usage charged so far, then null   *)
(* or the value to the script.                                             *)
End(n, status, usage) ==
    /\ journal' = [journal EXCEPT ![n] = status]
    /\ ledger' = [ledger EXCEPT ![n] = usage]
    /\ result' = [result EXCEPT ![n] = IF status = "ok" THEN "value" ELSE "null"]
    /\ Finally(n)

(* acquire() answered and the budget is gone: throw, nothing journaled.    *)
RefuseOverBudget(n) ==
    /\ Microtask /\ n \in Ready
    /\ acq[n] = "granted" /\ OverBudget
    /\ result' = [result EXCEPT ![n] = "throw"]
    /\ Finally(n)
    /\ UNCHANGED <<outcome, exec, finalUsage, ledger, worktree, journal>>

(* Past that check agent_start is always journaled; a call that was denied *)
(* or aborted in the meantime ends as skipped at once.                     *)
Admissible(n) ==
    /\ Microtask /\ n \in Ready
    /\ ~(acq[n] = "granted" /\ OverBudget)

EndSkippedInQueue(n) ==
    /\ Admissible(n)
    /\ acq[n] = "denied" \/ n \in aborted
    /\ End(n, "skipped", ledger[n])
    /\ UNCHANGED <<outcome, exec, finalUsage, worktree>>

(* The prompt snapshot failed, or no executor is configured.               *)
EndUnrunnable(n) ==
    /\ Admissible(n)
    /\ acq[n] = "granted" /\ n \notin aborted
    /\ End(n, "failed", ledger[n])
    /\ UNCHANGED <<outcome, exec, finalUsage, worktree>>

(* isolation: "worktree" awaits git before the executor is run.            *)
CreateWorktree(n) ==
    /\ Admissible(n) /\ n \in Isolated
    /\ acq[n] = "granted" /\ n \notin aborted
    /\ pc' = [pc EXCEPT ![n] = "creating"]
    /\ journal' = [journal EXCEPT ![n] = "started"]
    /\ UNCHANGED <<semVars, counter, aborted, outcome, exec, finalUsage, ledger,
                   worktree, result, runVars, loopVars>>

(* Mutants: the abort, or the budget, is not looked at again once the slot *)
(* was granted.                                                            *)
RunExecutorThoughAborted(n) ==
    /\ Admissible(n) /\ n \notin Isolated
    /\ acq[n] = "granted"
    /\ pc' = [pc EXCEPT ![n] = "running"]
    /\ journal' = [journal EXCEPT ![n] = "started"]
    /\ exec' = [exec EXCEPT ![n] = "live"]
    /\ UNCHANGED <<semVars, counter, aborted, outcome, finalUsage, ledger,
                   worktree, result, runVars, loopVars>>

RunExecutorUnmetered(n) ==
    /\ Microtask /\ n \in Ready /\ n \notin Isolated
    /\ acq[n] = "granted" /\ n \notin aborted
    /\ pc' = [pc EXCEPT ![n] = "running"]
    /\ journal' = [journal EXCEPT ![n] = "started"]
    /\ exec' = [exec EXCEPT ![n] = "live"]
    /\ UNCHANGED <<semVars, counter, aborted, outcome, finalUsage, ledger,
                   worktree, result, runVars, loopVars>>

RunExecutor(n) ==
    /\ Admissible(n) /\ n \notin Isolated
    /\ acq[n] = "granted" /\ n \notin aborted
    /\ pc' = [pc EXCEPT ![n] = "running"]
    /\ journal' = [journal EXCEPT ![n] = "started"]
    /\ exec' = [exec EXCEPT ![n] = "live"]
    /\ UNCHANGED <<semVars, counter, aborted, outcome, finalUsage, ledger,
                   worktree, result, runVars, loopVars>>

(* The worktree is there: the executor is run without looking at the       *)
(* signal or the budget again; an abort is noticed by the race below.      *)
WorktreeCreated(n) ==
    /\ Idle /\ pc[n] = "creating"
    /\ worktree' = [worktree EXCEPT ![n] = "present"]
    /\ exec' = [exec EXCEPT ![n] = "live"]
    /\ pc' = [pc EXCEPT ![n] = IF n \in aborted THEN "grace" ELSE "running"]
    /\ UNCHANGED <<semVars, counter, aborted, outcome, finalUsage, ledger,
                   journal, result, runVars, loopVars>>

WorktreeFailed(n) ==
    /\ Idle /\ pc[n] = "creating"
    /\ End(n, "failed", ledger[n])
    /\ UNCHANGED <<outcome, exec, finalUsage, worktree>>

(* Mutant: usage is still charged after agent_end. *)
ReportUsageLate(n) ==
    /\ Idle /\ exec[n] = "live"
    /\ \E u \in 0..MaxUsage : ledger' = [ledger EXCEPT ![n] = u]
    /\ UNCHANGED <<semVars, counter, pc, aborted, outcome, exec, finalUsage,
                   worktree, journal, result, runVars, loopVars>>

(* onUsage(): taken as it comes, and ignored once agent_end is journaled.  *)
ReportUsage(n) ==
    /\ Idle /\ exec[n] = "live"
    /\ journal[n] = "started"
    /\ \E u \in 0..MaxUsage : ledger' = [ledger EXCEPT ![n] = u]
    /\ UNCHANGED <<semVars, counter, pc, aborted, outcome, exec, finalUsage,
                   worktree, journal, result, runVars, loopVars>>

(* Mutant: a missing usage overwrites the ledger. *)
ChargedBlindly(n, usage) == usage

(* Mutant: what was told live stays charged, whatever the answer tells. *)
ChargedLive(n, usage) == ledger[n]

(* The usage a conclusion charges: the result's, or the live ledger when   *)
(* there is no result.                                                     *)
Charged(n, usage) == IF usage = NoUsage THEN ledger[n] ELSE usage

Status(how) == IF how = "aborted" THEN "skipped" ELSE how

(* Mutant: an aborted call returns before its worktree is cleaned up. *)
ConcludeEarly(n, how, usage) ==
    /\ outcome' = [outcome EXCEPT ![n] = how]
    /\ finalUsage' = [finalUsage EXCEPT ![n] = usage]
    /\ \/ /\ worktree[n] = "none" \/ how = "aborted"
          /\ End(n, Status(how), Charged(n, usage))
       \/ /\ worktree[n] = "present" /\ how # "aborted"
          /\ pc' = [pc EXCEPT ![n] = "cleanup"]
          /\ UNCHANGED <<semVars, counter, aborted, ledger, journal, result,
                         runVars, loopVars>>

(* What follows the race: a worktree is cleaned up first, which awaits     *)
(* git; otherwise the call ends here.                                      *)
Conclude(n, how, usage) ==
    /\ outcome' = [outcome EXCEPT ![n] = how]
    /\ finalUsage' = [finalUsage EXCEPT ![n] = usage]
    /\ \/ /\ worktree[n] = "none"
          /\ End(n, Status(how), Charged(n, usage))
       \/ /\ worktree[n] = "present"
          /\ pc' = [pc EXCEPT ![n] = "cleanup"]
          /\ UNCHANGED <<semVars, counter, aborted, ledger, journal, result,
                         runVars, loopVars>>

(* Mutant: an executor that settles during the grace decides the outcome.  *)
ExecutorSettlesOverAbort(n) ==
    /\ Idle /\ exec[n] = "live"
    /\ exec' = [exec EXCEPT ![n] = "exited"]
    /\ pc[n] \in {"running", "grace"}
    /\ \E how \in {"ok", "failed"}, u \in 0..MaxUsage : Conclude(n, how, u)
    /\ UNCHANGED worktree

(* executor.run() settles, with a usage of its own that may be less than   *)
(* what it told before; a failure, or a rejection, may carry none.  After  *)
(* an abort its answer only counts for its usage; after the teardown       *)
(* deadline nobody listens any more.                                       *)
ExecutorSettles(n) ==
    /\ Idle /\ exec[n] = "live"
    /\ exec' = [exec EXCEPT ![n] = "exited"]
    /\ \/ /\ pc[n] = "running"
          /\ \E how \in {"ok", "failed"}, u \in {NoUsage} \cup 0..MaxUsage :
                /\ how = "ok" => u # NoUsage
                /\ Conclude(n, how, u)
       \/ /\ pc[n] = "grace"
          /\ \E u \in {NoUsage} \cup 0..MaxUsage : Conclude(n, "aborted", u)
       \/ /\ pc[n] \in {"cleanup", "settled"}
          /\ UNCHANGED <<semVars, counter, pc, aborted, outcome, finalUsage,
                         ledger, journal, result, runVars, loopVars>>
    /\ UNCHANGED worktree

(* Mutant: the deadline also runs for calls nobody aborted. *)
TeardownDeadlineAlways(n) ==
    /\ Idle /\ pc[n] \in {"running", "grace"}
    /\ Conclude(n, "aborted", NoUsage)
    /\ UNCHANGED <<exec, worktree>>

(* TEARDOWN_HARD_DEADLINE_MS after an abort the executor is given up.      *)
TeardownDeadline(n) ==
    /\ Idle /\ pc[n] = "grace"
    /\ Conclude(n, "aborted", NoUsage)
    /\ UNCHANGED <<exec, worktree>>

(* cleanupWorktree() keeps a changed worktree (as does its failure), then  *)
(* the outcome decided before it is journaled.                             *)
WorktreeCleaned(n) ==
    /\ Idle /\ pc[n] = "cleanup"
    /\ \E left \in {"removed", "kept"} :
          worktree' = [worktree EXCEPT ![n] = left]
    /\ End(n, Status(outcome[n]), Charged(n, finalUsage[n]))
    /\ UNCHANGED <<outcome, exec, finalUsage>>

-----------------------------------------------------------------------------
(* The controller, driven by the control file and by signals.              *)

(* One more command of the chunk; a new chunk needs an idle event loop and *)
(* an attached tail.                                                       *)
Dispatch ==
    \/ batch > 0 /\ batch' = batch - 1
    \/ Idle /\ batch' \in 0..MaxBatch - 1

PauseRun ==
    /\ Dispatch
    /\ IF paused \/ stopped THEN UNCHANGED semVars ELSE Pause
    /\ UNCHANGED <<callVars, runVars, awake, yielding>>

(* Mutant: the gate opens but nobody in the queue is served. *)
ResumeRunUnflushed ==
    /\ Dispatch
    /\ paused' = (paused /\ stopped)
    /\ UNCHANGED <<available, closed, queue, acq, callVars, runVars, awake,
                   yielding>>

ResumeRun ==
    /\ Dispatch
    /\ IF ~paused \/ stopped THEN UNCHANGED semVars ELSE Resume
    /\ UNCHANGED <<callVars, runVars, awake, yielding>>

(* abort() of some controllers: a call racing its executor enters the      *)
(* teardown grace; any other call looks at its signal later.               *)
Abort(calls) ==
    /\ aborted' = aborted \cup calls
    /\ pc' = [n \in Calls |-> IF n \in calls /\ pc[n] = "running" THEN "grace"
                                                                  ELSE pc[n]]
    /\ UNCHANGED <<counter, outcome, exec, finalUsage, ledger, worktree,
                   journal, result>>

(* skip(n): nothing for an ordinal without a controller.                   *)
SkipCall(n) ==
    /\ Dispatch
    /\ Abort({n} \cap Live)
    /\ IF acq[n] = "waiting" THEN Withdraw(n) ELSE UNCHANGED semVars
    /\ UNCHANGED <<runVars, awake, yielding>>

(* controller.stop(), idempotent. *)
StopController ==
    IF stopped
    THEN UNCHANGED <<semVars, callVars>>
    ELSE Close /\ Abort(Live)

(* settleExternal(): the first of a stop and an uncaught error counts, and *)
(* nobody listens once the race is over.                                   *)
SettleExternal(how) ==
    external' = IF external = "none" /\ phase = "body" THEN how ELSE external

(* The stop command, SIGTERM and SIGINT; or an uncaught error.             *)
RequestStop ==
    /\ Dispatch
    /\ StopController
    /\ SettleExternal("stopped")
    /\ UNCHANGED <<body, phase, runStatus, timedOut, awake, yielding>>

Uncaught ==
    /\ Idle
    /\ StopController
    /\ SettleExternal("failed")
    /\ UNCHANGED <<body, phase, runStatus, timedOut, loopVars>>

Command == PauseRun \/ ResumeRun \/ RequestStop \/ \E n \in Calls : SkipCall(n)

-----------------------------------------------------------------------------
(* The runner's teardown.                                                  *)

(* Mutant: the runner drains without stopping the controller first. *)
TeardownUnstopped ==
    /\ Microtask /\ Ready = {} /\ RaceDecided
    /\ phase' = "draining"
    /\ runStatus' = IF external # "none" THEN external ELSE body
    /\ UNCHANGED <<semVars, callVars, body, external, timedOut, loopVars>>

(* The race is seen once the continuations queued before it have run.      *)
Teardown ==
    /\ Microtask /\ Ready = {} /\ RaceDecided
    /\ StopController
    /\ phase' = "draining"
    /\ runStatus' = IF external # "none" THEN external
                    ELSE IF body = "ok" /\ stopped THEN "stopped" ELSE body
    /\ UNCHANGED <<body, external, timedOut, loopVars>>

(* Calls with an agent_start and no agent_end in the journal file. *)
Open == {n \in Calls : journal[n] = "started"}

(* run_end: the result of a body that returned may fail to serialize.      *)
SealJournal ==
    /\ phase' = "ended"
    /\ \/ UNCHANGED runStatus
       \/ runStatus = "ok" /\ runStatus' = "failed"
    /\ UNCHANGED <<semVars, callVars, body, external, loopVars>>

Drained ==
    /\ Idle /\ phase = "draining" /\ Open = {}
    /\ SealJournal
    /\ UNCHANGED timedOut

DrainDeadline ==
    /\ Idle /\ phase = "draining" /\ Open # {}
    /\ SealJournal
    /\ timedOut' = TRUE

-----------------------------------------------------------------------------
Continuation(n) ==
    \/ RefuseOverBudget(n)
    \/ EndSkippedInQueue(n)
    \/ EndUnrunnable(n)
    \/ CreateWorktree(n)
    \/ RunExecutor(n)

GitStep(n) == WorktreeCreated(n) \/ WorktreeFailed(n) \/ WorktreeCleaned(n)

Script == Call \/ CallStopped \/ Await \/ BodySettles

Next ==
    \/ Script
    \/ YieldReturns
    \/ \E n \in Calls :
          \/ Continuation(n)
          \/ GitStep(n)
          \/ ReportUsage(n)
          \/ ExecutorSettles(n)
          \/ TeardownDeadline(n)
    \/ Command
    \/ Uncaught
    \/ Teardown
    \/ Drained
    \/ DrainDeadline

Spec == Init /\ [][Next]_vars

(* The event loop runs every continuation, finishes every command chunk,   *)
(* and in each iteration visits its timers, so neither a looping script    *)
(* nor a stream of commands keeps a due timer from firing.  Nothing is     *)
(* assumed here of executors, git, or what the script chooses to do        *)
(* beyond coming to its next await.                                        *)
LoopFairness ==
    /\ WF_vars(Command /\ batch > 0)
    /\ WF_vars(Await)
    /\ \A n \in Calls : WF_vars(Continuation(n)) /\ SF_vars(TeardownDeadline(n))
    /\ WF_vars(Teardown)
    /\ SF_vars(Drained)
    /\ SF_vars(DrainDeadline)

(* Executors settle and git returns: assumed only where a property says so. *)
ExternalFairness ==
    \A n \in Calls : SF_vars(ExecutorSettles(n)) /\ SF_vars(GitStep(n))

FairSpec == Spec /\ LoopFairness

-----------------------------------------------------------------------------
CallTypeOK ==
    /\ counter \in 0..MaxCalls
    /\ pc \in [Calls -> {"uncalled", "acquiring", "creating", "running",
                         "grace", "cleanup", "settled"}]
    /\ aborted \subseteq Calls
    /\ outcome \in [Calls -> {"none", "aborted", "ok", "failed"}]
    /\ exec \in [Calls -> {"none", "live", "exited"}]
    /\ finalUsage \in [Calls -> {NoUsage} \cup 0..MaxUsage]
    /\ ledger \in [Calls -> 0..MaxUsage]
    /\ worktree \in [Calls -> {"none", "present", "removed", "kept"}]
    /\ journal \in [Calls -> {"none", "started"} \cup Ended]
    /\ result \in [Calls -> {"none", "value", "null", "throw"}]

RunTypeOK ==
    /\ awake \in BOOLEAN
    /\ yielding \in {"none", "microtask", "macrotask"}
    /\ batch \in 0..MaxBatch
    /\ body \in {"running", "ok", "failed"}
    /\ external \in {"none", "stopped", "failed"}
    /\ phase \in {"body", "draining", "ended"}
    /\ runStatus \in {"none", "ok", "failed", "stopped"}
    /\ timedOut \in BOOLEAN

TypeOK == SemTypeOK /\ CallTypeOK /\ RunTypeOK

(* Where each call stands, what it holds and what it has written agree:    *)
(* the strengthening that makes the run's safety properties inductive.     *)
CallConsistent(n) ==
    /\ pc[n] \in {"uncalled", "settled"} => acq[n] = "none"
    /\ pc[n] = "acquiring" => acq[n] # "none"
    /\ pc[n] \in {"creating", "running", "grace", "cleanup"} =>
          acq[n] = "granted"
    /\ pc[n] \in {"uncalled", "acquiring", "creating"} =>
          worktree[n] = "none" /\ exec[n] = "none" /\ result[n] = "none"
    /\ pc[n] \in {"uncalled", "acquiring"} => journal[n] = "none"
    /\ pc[n] \in {"creating", "running", "grace", "cleanup"} =>
          journal[n] = "started"
    /\ pc[n] = "settled" =>
          worktree[n] # "present" /\ journal[n] # "started"
    /\ pc[n] # "settled" => worktree[n] \notin {"removed", "kept"}
    /\ pc[n] = "cleanup" => outcome[n] # "none" /\ worktree[n] = "present"
    /\ pc[n] = "grace" \/ outcome[n] = "aborted" => n \in aborted
    /\ pc[n] = "running" => n \notin aborted
    /\ exec[n] = "live" =>
          \/ pc[n] \in {"running", "grace"}
          \/ pc[n] = "cleanup" /\ outcome[n] = "aborted"
          \/ pc[n] = "settled" /\ outcome[n] = "aborted" /\ journal[n] = "skipped"

RunConsistent ==
    /\ \A n \in Calls : n > counter => pc[n] = "uncalled"
    /\ stopped => Live \subseteq aborted
    /\ phase # "body" => stopped
    /\ phase = "ended" => batch = 0
    /\ phase = "ended" /\ ~timedOut => Live = {}

RunInv ==
    /\ \A n \in Calls : CallConsistent(n)
    /\ RunConsistent

(* The concurrency limit bounds real executors, not just promises: at most *)
(* Capacity executors are live, except those a teardown deadline gave up   *)
(* on, whose calls are already journaled as skipped.                       *)
GivenUp == {n \in Calls : exec[n] = "live" /\ journal[n] = "skipped"}
ConcurrencyBounded ==
    Cardinality({n \in Calls : exec[n] = "live"} \ GivenUp) <= Capacity

(* A worktree is cleaned, and a slot freed, only after the executor using  *)
(* them has exited, unless the call was aborted and its deadline passed.   *)
ExecutorOutlivesNothing ==
    \A n \in Calls :
        /\ exec[n] = "live"
        /\ pc[n] = "settled" \/ worktree[n] \in {"removed", "kept"}
        => n \in aborted /\ outcome[n] = "aborted"

(* No worktree is left behind unaccounted: once a call settles, the        *)
(* worktree it created was either removed or deliberately kept.            *)
WorktreesAccounted ==
    \A n \in Calls : worktree[n] = "present" => n \in Live

(* A run_end that drainAgents() did not have to force covers every call:   *)
(* each one has settled, and none has an agent_start without agent_end.    *)
CompleteUnlessTimedOut ==
    phase = "ended" /\ ~timedOut =>
        /\ Live = {}
        /\ \A n \in Calls : journal[n] # "started"

(* An abort that comes before the executor's answer wins: the script never *)
(* sees the value of a skipped or stopped agent, even when the executor    *)
(* finishes normally during the teardown grace.                            *)
AbortWins ==
    [][\A n \in Calls :
          n \in aborted /\ result[n] = "none" /\ result'[n] = "value"
             => pc[n] = "cleanup" /\ outcome[n] = "ok"]_vars

(* After stop no call is admitted: an executor may only start where a      *)
(* worktree was already under way, and that call is aborted.               *)
StopAdmitsNothing ==
    [][\A n \in Calls :
          stopped /\ exec[n] = "none" /\ exec'[n] = "live"
             => pc[n] = "creating" /\ n \in aborted]_vars

(* An executor starts only while the budget lasts, or for a call whose     *)
(* worktree was begun while it lasted.                                     *)
BudgetGatesStart ==
    [][\A n \in Calls :
          exec[n] = "none" /\ exec'[n] = "live" /\ OverBudget
             => pc[n] = "creating"]_vars

(* The documented rule that calls pending at a stop resolve null.  The     *)
(* code breaks it: resume and stop in one chunk of the control file grant  *)
(* a queued call before the stop, and its budget check throws afterwards.  *)
PendingAtStopResolveNull ==
    [][\A n \in Calls :
          stopped /\ n \in Live => result'[n] # "throw"]_vars

(* Once the body has settled or the run was stopped, the run ends, whatever *)
(* executors, git, the script's further calls and commands do: the drain   *)
(* is bounded and a script looping over post-stop calls yields to it.      *)
RunEnds == (stopped \/ body # "running") ~> phase = "ended"

(* Every call settles, given that executors and git answer, unless the run *)
(* is paused or ends first.                                                *)
CallsSettle ==
    ExternalFairness =>
        \A n \in Calls :
            n \in Live ~> (n \notin Live \/ paused \/ phase = "ended")

(* Nothing waits for ever: not the run for its calls, not a call for its   *)
(* slot, its executor or git.                                              *)
NothingHangs == RunEnds /\ CallsSettle

(* The promises of AgentCalls, kept by every step of the runtime.          *)
PromiseOf(n) ==
    CASE pc[n] = "uncalled" -> "uncalled"
      [] pc[n] = "settled"  -> result[n]
      [] OTHER              -> "pending"

C == INSTANCE AgentCalls WITH
        Ordinals <- Calls,
        Tokens   <- 0..MaxUsage,
        promise  <- [n \in Calls |-> PromiseOf(n)],
        log      <- journal,
        charge   <- ledger,
        answer   <- finalUsage,
        Untold   <- NoUsage,
        over     <- (phase = "ended")

ImplementsContract == C!Contract
=============================================================================
