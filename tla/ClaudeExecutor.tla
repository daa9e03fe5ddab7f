---------------------------- MODULE ClaudeExecutor ----------------------------
(***************************************************************************)
(* ClaudeExecutor.run() (src/executor/claude.ts): one claude process per   *)
(* turn, whose output is read when it has closed.  Repair turns resume the *)
(* session.                                                                *)
(***************************************************************************)
EXTENDS ExecutorCall

VARIABLES
    interrupted,  \* runCli(): the abort reached the running process
    claudeTimer   \* runCli(): the timer that will send SIGKILL

claudeVars == <<interrupted, claudeTimer>>
AtClaude(s) == backend = "claude" /\ step = s

(* createValidator() throws, and nothing in run() catches it. *)
ClaudeUncompiled ==
    /\ backend = "claude" /\ Uncompiled(Rejected)
    /\ UNCHANGED claudeVars

(* call(): no process is started once the signal has fired. *)
ClaudeCall ==
    /\ AtClaude("start") /\ compiles
    /\ IF aborted
       THEN /\ step' = "done"
            /\ result' = Failed(total)
            /\ UNCHANGED process
       ELSE /\ step' = "running"
            /\ process' = "running"
            /\ UNCHANGED result
    /\ UNCHANGED <<claudeVars, aborted, spent, ticked, threads, total, attempt,
                   wire, outcome>>

(* Mutant: SIGTERM only. *)
ClaudeAbortGently ==
    /\ backend = "claude" /\ result = Pending
    /\ ~aborted
    /\ aborted' = TRUE
    /\ interrupted' = (step = "running")
    /\ process' = Signal("SIGTERM")
    /\ UNCHANGED <<claudeTimer, spent, ticked, threads, result, step, total,
                   attempt, wire, outcome>>

(* onAbort(): SIGTERM to the group, SIGKILL a little later. *)
ClaudeAbort ==
    /\ backend = "claude" /\ result = Pending
    /\ ~aborted
    /\ aborted' = TRUE
    /\ interrupted' = (step = "running")
    /\ claudeTimer' = (step = "running")
    /\ process' = Signal("SIGTERM")
    /\ UNCHANGED <<spent, ticked, threads, result, step, total, attempt, wire,
                   outcome>>

ClaudeKillTimer ==
    /\ backend = "claude"
    /\ claudeTimer
    /\ claudeTimer' = FALSE
    /\ process' = Signal("SIGKILL")
    /\ UNCHANGED <<interrupted, aborted, spent, ticked, threads, result, step,
                   total, attempt, wire, outcome>>

(* The process closes, having spent tokens of which its envelope, when it  *)
(* is valid JSON, tells; or it could not be spawned at all.                *)
ClaudeClose(tokens, envelope, valid) ==
    LET known == IF envelope = "garbage" THEN 0 ELSE tokens
        usage == total + known
        repair == envelope = "reply" /\ ~ReplyIsFinal(valid)
    IN  /\ AtClaude("running")
        /\ spent + tokens <= MaxTokens
        /\ process' = "gone"
        /\ claudeTimer' = FALSE
        /\ spent' = spent + tokens
        /\ total' = usage
        /\ ticked' = IF interrupted \/ envelope = "unspawned" THEN ticked ELSE usage
        /\ threads' \in IF interrupted \/ threads = 1
                             \/ envelope \in {"garbage", "unspawned"}
                        THEN {threads} ELSE {threads, threads + 1}
        /\ IF ~interrupted /\ repair
           THEN step' = "start" /\ attempt' = attempt + 1 /\ UNCHANGED result
           ELSE /\ step' = "done"
                /\ result' = IF ~interrupted /\ envelope = "reply"
                             THEN ReplyResult(valid, usage) ELSE Failed(usage)
                /\ UNCHANGED attempt
        /\ UNCHANGED <<interrupted, aborted, wire, outcome>>

ClaudeExit ==
    /\ backend = "claude"
    /\ \E tokens \in 0..MaxTokens, valid \in BOOLEAN,
          envelope \in {"reply", "error", "garbage", "unspawned"} :
        /\ envelope = "unspawned" => tokens = 0
        /\ ClaudeClose(tokens, envelope, valid)

ClaudeInit == interrupted = FALSE /\ claudeTimer = FALSE

ClaudeNext ==
    \/ ClaudeUncompiled \/ ClaudeCall
    \/ ClaudeAbort \/ ClaudeKillTimer \/ ClaudeExit
=============================================================================
