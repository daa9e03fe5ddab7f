----------------------------- MODULE CodexExecutor -----------------------------
(***************************************************************************)
(* CodexExecutor.run() (src/executor/codex.ts): an app-server process per  *)
(* call, one thread, and on it the turns of the shared loop.               *)
(***************************************************************************)
EXTENDS Turn

codexVars == <<clientVars, turnVars>>
AtCodex(s) == backend = "codex" /\ step = s

(* fail() and the ok results; a thrown error carries no usage (run()). *)
CloseWith(r) ==
    /\ step' = "closing"
    /\ outcome' = r
    /\ TurnsDropped
    /\ Close

(* createValidator() throws, inside the try of run(). *)
CodexUncompiled ==
    /\ backend = "codex" /\ Uncompiled(Failed(NoUsage))
    /\ UNCHANGED codexVars

(* AppServerClient.start(): spawn and initialize. *)
CodexStart ==
    /\ AtCodex("start") /\ compiles
    /\ step' = "initializing"
    /\ process' = "running"
    /\ requests' = {"initialize"}
    /\ UNCHANGED <<answer, killTimer, turnVars, aborted, spent,
                   ticked, threads, result, total, attempt, wire, outcome>>

(* initialize is answered: thread/start is sent, and withAbort() rejects   *)
(* at once when the signal has fired; otherwise the process is killed and  *)
(* the call fails without waiting for its exit.                            *)
CodexInitialized ==
    /\ AtCodex("initializing")
    /\ answer # NoAnswer
    /\ IF answer.with = "result"
       THEN /\ step' = "threading"
            /\ requests' = requests \cup {"thread/start"}
            /\ answer' = IF aborted THEN [to |-> "thread/start", with |-> "lost"]
                         ELSE NoAnswer
            /\ UNCHANGED <<process, result>>
       ELSE /\ step' = "done"
            /\ answer' = NoAnswer
            /\ process' = Signal("SIGKILL")
            /\ result' = Failed(NoUsage)
            /\ UNCHANGED requests
    /\ UNCHANGED <<killTimer, turnVars, aborted, spent, ticked,
                   threads, total, attempt, wire, outcome>>

(* thread/start is answered: the thread is announced and its first turn    *)
(* begun; a rejection ends the call.                                       *)
CodexThreadStarted ==
    /\ AtCodex("threading")
    /\ answer # NoAnswer
    /\ IF answer.with = "result"
       THEN /\ threads' = threads + 1
            /\ answer' = NoAnswer
            /\ step' = "turning"
            /\ turn' = NewTurn(1)
            /\ open' = {1}
            /\ requests' = requests \cup {"turn/start"}
            /\ UNCHANGED <<outcome, process, killTimer, work, kids, answered, chatter>>
       ELSE /\ CloseWith(Failed(NoUsage))
            /\ answer' = NoAnswer
            /\ UNCHANGED <<threads, requests>>
    /\ UNCHANGED <<aborted, spent, ticked, result, total,
                   attempt, wire>>

(* The loop after a turn: fallback without the wire schema, failure,       *)
(* result, or repair turn.                                                 *)
CodexTurnOver ==
    /\ backend = "codex"
    /\ TurnOver
    /\ answer = NoAnswer
    /\ total' = total + turn.usage
    /\ \/ /\ turn.status = "failed" /\ turn.blame = "server" /\ wire
          /\ wire' = FALSE
          /\ StartTurn(turn.no + 1)
          /\ UNCHANGED <<attempt, outcome, process>>
       \/ /\ turn.status # "completed"
          /\ CloseWith(Failed(total'))
          /\ UNCHANGED <<wire, attempt, requests, answer>>
       \/ \E valid \in BOOLEAN :
            /\ turn.status = "completed"
            /\ IF ReplyIsFinal(valid)
               THEN /\ CloseWith(ReplyResult(valid, total'))
                    /\ UNCHANGED <<attempt, requests, answer>>
               ELSE /\ attempt' = attempt + 1
                    /\ StartTurn(turn.no + 1)
                    /\ UNCHANGED <<outcome, process>>
            /\ UNCHANGED wire
    /\ UNCHANGED <<aborted, spent, ticked, threads, result>>

(* The continuation of close(), once the process has exited. *)
CodexClosed ==
    /\ AtCodex("closing")
    /\ Exited
    /\ step' = "done"
    /\ result' = outcome
    /\ UNCHANGED <<codexVars, aborted, spent, ticked, threads,
                   process, total, attempt, wire, outcome>>

(* The signal fires. *)
CodexAbort ==
    /\ backend = "codex" /\ result = Pending
    /\ ~aborted /\ Idle
    /\ aborted' = TRUE
    /\ turn' = IF step = "turning" THEN AbortTurn(turn) ELSE turn
    /\ answer' = IF step = "threading" THEN [to |-> "thread/start", with |-> "lost"]
                 ELSE answer
    /\ UNCHANGED <<requests, killTimer, open, work, kids, answered, chatter, spent, ticked, threads, result, process, step, total, attempt,
                   wire, outcome>>

(* The process ends, by itself or by a signal. *)
CodexExit ==
    /\ backend = "codex" /\ Idle
    /\ process \notin {"unborn", "gone"}
    /\ HandleExit
    /\ turn' = IF step = "turning" THEN ExitTurn(turn) ELSE turn
    /\ open' = {}
    /\ UNCHANGED <<work, kids, answered, chatter, aborted, spent,
                   ticked, threads, result, step, total, attempt, wire, outcome>>

(* The SIGKILL timer of close(). *)
CodexKillTimer ==
    /\ backend = "codex"
    /\ killTimer
    /\ killTimer' = FALSE
    /\ process' = Signal("SIGKILL")
    /\ UNCHANGED <<requests, answer, turnVars, aborted, spent,
                   ticked, threads, result, step, total, attempt, wire, outcome>>

CodexServer ==
    /\ backend = "codex"
    /\ \/ Server /\ UNCHANGED clientVars
       \/ /\ Idle
          /\ \/ ServerStartsTurn
             \/ \E m \in Methods \ {"turn/start"}, how \in {"result", "error"} :
                    Respond(m, how) /\ UNCHANGED turnVars
          /\ UNCHANGED <<ticked, spent>>
    /\ UNCHANGED <<aborted, threads, result, process, step,
                   total, attempt, wire, outcome>>

CodexRequestTimeout ==
    /\ backend = "codex" /\ Idle
    /\ \E m \in Methods : RequestTimesOut(m)
    /\ UNCHANGED <<turnVars, callVars>>

CodexTurnStarted ==
    /\ backend = "codex"
    /\ TurnStarted
    /\ UNCHANGED <<aborted, spent, threads, result, process, step, total,
                   attempt, wire, outcome>>

CodexTurnTimer ==
    /\ backend = "codex"
    /\ TurnTimer
    /\ UNCHANGED <<aborted, spent, threads, result, process, step, total,
                   attempt, wire, outcome>>

CodexContinue ==
    \/ CodexInitialized \/ CodexThreadStarted \/ CodexTurnStarted
    \/ CodexTurnOver \/ CodexClosed
CodexNext ==
    \/ CodexUncompiled \/ CodexStart \/ CodexContinue \/ CodexAbort \/ CodexExit
    \/ CodexKillTimer \/ CodexServer \/ CodexRequestTimeout \/ CodexTurnTimer

CodexInit == ClientInit /\ TurnInit
=============================================================================
