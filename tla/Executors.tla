------------------------------- MODULE Executors -------------------------------
(***************************************************************************)
(* A call of run() on the adapter its agent is routed to.  The adapters    *)
(* share the caller's view of the call (ExecutorCall) and nothing else.    *)
(***************************************************************************)
EXTENDS CodexExecutor, ClaudeExecutor, OpencodeExecutor

vars == <<callVars, codexVars, claudeVars, opencodeVars>>

Init ==
    /\ backend \in Backends
    /\ CallInit
    /\ backend = "claude" => ~wire  \* capabilities.schema: "prompt-only"
    /\ backend = "opencode" => wire = schema
    /\ backend = "codex" => retries + (IF wire THEN 2 ELSE 1) <= MaxTurns  \* one fallback
    /\ CodexInit /\ ClaudeInit /\ OpencodeInit

OfCodex(A) == A /\ UNCHANGED <<claudeVars, opencodeVars, backend, schema, compiles, retries>>
OfClaude(A) == A /\ UNCHANGED <<codexVars, opencodeVars, backend, schema, compiles, retries>>
OfOpencode(A) == A /\ UNCHANGED <<codexVars, claudeVars, backend, schema, compiles, retries>>

Next ==
    OfCodex(CodexNext) \/ OfClaude(ClaudeNext) \/ OfOpencode(OpencodeNext)

(* Continuations run, timers fire, and a process that was sent SIGKILL     *)
(* ends.  The servers owe nothing, and nor does a process that can ignore  *)
(* a signal.                                                               *)
CodexFairness ==
    /\ WF_vars(OfCodex(CodexUncompiled \/ CodexStart \/ CodexContinue))
    /\ WF_vars(OfCodex(CodexTurnTimer \/ CodexKillTimer \/ CodexRequestTimeout))
    /\ WF_vars(OfCodex(process = "killed" /\ CodexExit))
ClaudeFairness ==
    /\ WF_vars(OfClaude(ClaudeUncompiled \/ ClaudeCall))
    /\ WF_vars(OfClaude(ClaudeKillTimer))
    /\ WF_vars(OfClaude(process = "killed" /\ ClaudeExit))
OpencodeFairness ==
    /\ WF_vars(OfOpencode(OpencodeUncompiled \/ OpencodeStart \/ OpencodeTurnOver))
    /\ WF_vars(OfOpencode(\/ OpencodeStartTimeout \/ OpencodeHttpTimeout
                          \/ OpencodeGraceTimer \/ OpencodeIdle
                          \/ OpencodeCloseTimer))

Spec ==
    /\ Init /\ [][Next]_vars
    /\ CodexFairness /\ ClaudeFairness /\ OpencodeFairness

-----------------------------------------------------------------------------
ExecTypeOK ==
    /\ CallTypeOK
    /\ ClientTypeOK
    /\ TurnTypeOK
    /\ message \in 0..MaxTokens /\ earlier \in 0..MaxTokens
    /\ events \in 0..MaxEvents

(* docs/executor-contract.md as an abstract specification: one settlement  *)
(* of the right shape, cumulative ticks, one session id, no callback after *)
(* settlement, no process left unsignalled (run() of the three adapters).  *)
(* One kind of call is excused from settling with a result: claude.ts      *)
(* builds its validator outside of any try, so a schema that ajv does not  *)
(* compile rejects the call.                                               *)
Contract ==
    INSTANCE ExecutorContract WITH mayReject <- (backend = "claude" /\ ~compiles)
ImplementsContract == Contract!ContractSpec

(* A codex turn that settles as completed was completed by the server      *)
(* itself, or its final answer was given and none of the commands, collab  *)
(* calls and subagent turns the server announced for this turn still runs: *)
(* neither the inference timer nor a late message of an earlier turn cuts  *)
(* a turn short (scheduleInferred, belongsToTurn, the buffer and the       *)
(* re-entry of subagents in route, src/appserver/turn.ts).                 *)
CompletionIsOwn == [][
    turn.status = "running" /\ turn'.status = "completed" =>
        \/ turn.no \notin open'
        \/ /\ turn.no \in answered
           /\ \A w \in work : w[2] # turn.no ]_vars

(* codex and claude never report a token that was not spent, whatever      *)
(* messages of an earlier turn arrive when, and the usage of the result    *)
(* does not take back what was ticked (usageBaseline in turn.ts, total in  *)
(* codex.ts, usage in claude.ts).  Not so of opencode, where a call that   *)
(* is interrupted, goes idle or loses its server reports the usage of the  *)
(* finished messages only (fail() in opencode.ts).                         *)
UsageHonest ==
    backend \in {"codex", "claude"} =>
        /\ ticked <= spent
        /\ result # Pending /\ result.usage # NoUsage =>
              result.usage \in ticked..spent

(* Once its process has exited no call waits any more: not for a response  *)
(* that cannot come, not for a timer (handleExit in client.ts, exited in   *)
(* turn.ts, closedPromise in opencode.ts, close in claude.ts).             *)
Continued == Idle /\ step \notin {"start", "closing"} /\ reply = "waiting"
ExitEndsCall == process = "gone" /\ Continued => result # Pending

(* Types, honest usage, and no call that outlives its process.             *)
CallInv == ExecTypeOK /\ UsageHonest /\ ExitEndsCall

(* A call settles when its signal fires, however its backend behaves; on   *)
(* codex, and on opencode over HTTP, it settles without the signal too.    *)
CallSettles ==
    (aborted \/ backend = "codex" \/ (backend = "opencode" /\ ~stdio))
        ~> result # Pending
=============================================================================
