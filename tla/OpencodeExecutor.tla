--------------------------- MODULE OpencodeExecutor ---------------------------
(***************************************************************************)
(* OpencodeExecutor.run() (src/executor/opencode.ts): one opencode serve   *)
(* process per call, reached over HTTP, or over its stdio when it          *)
(* announces port 0; one session, its messages posted one by one, and an   *)
(* event stream of its own that reports usage while they run.              *)
(***************************************************************************)
EXTENDS ExecutorCall

CONSTANTS MaxEvents  \* bound: events of the stream in one call

ASSUME EventBound == MaxEvents \in Nat

VARIABLES
    stdio,      \* the transport: stdio, otherwise http
    reply,      \* the awaited request: waiting, or how it settled
    message,    \* tokens the server counts for the message it works on
    earlier,    \* tokens of the message before
    live,       \* liveBase
    emitted,    \* lastEmitted
    grace,      \* the abort is under way: settle() waits for the reply
    idle,       \* watchdog ticks past the idle time: 0, 1 (idleAborted), 2
    events      \* events so far

opencodeVars == <<stdio, reply, message, earlier, live, emitted, grace, idle, events>>
AtOpencode(s) == backend = "opencode" /\ step = s
ServeRuns == process \in {"running", "terminated", "killed"}

(* Mutant: the validator is built before the try. *)
OpencodeUncaught ==
    /\ backend = "opencode" /\ Uncompiled(Rejected)
    /\ UNCHANGED opencodeVars

(* createValidator() throws, inside the try of execute(). *)
OpencodeUncompiled ==
    /\ backend = "opencode" /\ Uncompiled(Failed(total))
    /\ UNCHANGED opencodeVars

(* OpencodeServe.start(). *)
OpencodeStart ==
    /\ AtOpencode("start") /\ compiles
    /\ step' = "announcing"
    /\ process' = "running"
    /\ UNCHANGED <<opencodeVars, aborted, spent, ticked, threads, result, total,
                   attempt, wire, outcome>>

(* succeed(): the port is announced, the event stream opened and the       *)
(* session asked for.                                                      *)
OpencodeAnnounced ==
    /\ AtOpencode("announcing")
    /\ ServeRuns
    /\ step' = "session"
    /\ UNCHANGED <<opencodeVars, aborted, spent, ticked, threads, result, process,
                   total, attempt, wire, outcome>>

(* fail() of start(): timeout, abort, exit or spawn error; the process is  *)
(* sent SIGTERM and not waited for.                                        *)
StartFails ==
    /\ step' = "done"
    /\ process' = Signal("SIGTERM")
    /\ result' = Failed(total)
OpencodeStartTimeout ==
    /\ AtOpencode("announcing")
    /\ StartFails
    /\ UNCHANGED <<opencodeVars, aborted, spent, ticked, threads, total, attempt,
                   wire, outcome>>

(* fail() and the ok results of execute(), through the finally: close()    *)
(* sends SIGTERM to a process that has not closed and waits.               *)
Finish(r) ==
    /\ outcome' = r
    /\ step' = "closing"
    /\ process' = Signal("SIGTERM")

(* POST /session is answered with an id: the first message is posted.      *)
PostMessage ==
    /\ step' = "message"
    /\ reply' = "waiting"
    /\ live' = total'
    /\ earlier' = message
    /\ message' = 0
    /\ grace' = FALSE
    /\ idle' = 0
OpencodeSession ==
    /\ AtOpencode("session")
    /\ ServeRuns
    /\ threads' = threads + 1
    /\ UNCHANGED total
    /\ PostMessage
    /\ UNCHANGED <<stdio, emitted, events, aborted, spent, ticked, result, process,
                   attempt, wire, outcome>>

(* The answer has no id or an error status. *)
OpencodeNoSession ==
    /\ AtOpencode("session")
    /\ ServeRuns
    /\ Finish(Failed(total))
    /\ UNCHANGED <<opencodeVars, aborted, spent, ticked, threads, result, total,
                   attempt, wire>>

(* Mutant: an event is reported as it comes. *)
EmitUsageAsIs(usage) == emitted' = usage /\ ticked' = usage

(* emitUsage(): never below what was emitted before. *)
EmitUsage(usage) ==
    /\ emitted' = IF usage > emitted THEN usage ELSE emitted
    /\ ticked' = emitted'

(* onEvent(): a message.updated of the session, whichever message it is    *)
(* about.  The stream is a connection of its own, so an event about the    *)
(* message before can come after its reply.                                *)
OpencodeEvent ==
    /\ AtOpencode("message")
    /\ ServeRuns
    /\ stdio \/ reply = "waiting"
    /\ events < MaxEvents
    /\ events' = events + 1
    /\ \/ /\ spent < MaxTokens
          /\ reply = "waiting"
          /\ spent' = spent + 1
          /\ message' = message + 1
          /\ EmitUsage(live + message')
       \/ EmitUsage(live + earlier) /\ UNCHANGED <<spent, message>>
    /\ UNCHANGED <<stdio, reply, earlier, live, grace, idle, aborted, threads,
                   result, process, step, total, attempt, wire, outcome>>

(* The message is answered: a reply, an APIError or StructuredOutputError  *)
(* that a wire schema may have caused, another error - each with the       *)
(* tokens counted -, or an error status that rejects the request.          *)
Replies == {"reply", "refused", "error"}
OpencodeReply == \E more \in 0..1 :
    /\ AtOpencode("message")
    /\ ServeRuns
    /\ reply = "waiting"
    /\ reply' \in Replies \cup {"rejected"}
    /\ spent + more <= MaxTokens
    /\ spent' = spent + more
    /\ message' = message + more
    /\ UNCHANGED <<stdio, earlier, live, emitted, grace, idle, events, aborted,
                   ticked, threads, result, process, step, total, attempt, wire,
                   outcome>>

(* The timeout of an HTTP request; stdio requests have none. *)
OpencodeHttpTimeout ==
    /\ ~stdio
    /\ \/ /\ AtOpencode("session")
          /\ Finish(Failed(total))
          /\ UNCHANGED reply
       \/ /\ AtOpencode("message")
          /\ reply = "waiting"
          /\ reply' = "rejected"
          /\ UNCHANGED <<outcome, step, process>>
    /\ UNCHANGED <<stdio, message, earlier, live, emitted, grace, idle, events,
                   aborted, spent, ticked, threads, result, total, attempt, wire>>

(* The settle() of the abort gives the reply up. *)
OpencodeGraceTimer ==
    /\ AtOpencode("message")
    /\ grace /\ reply = "waiting"
    /\ reply' = "abandoned"
    /\ UNCHANGED <<stdio, message, earlier, live, emitted, grace, idle, events,
                   aborted, spent, ticked, threads, result, process, step, total,
                   attempt, wire, outcome>>

(* The idle watchdog: first the session is asked to abort, then the        *)
(* pending HTTP requests are destroyed.                                    *)
OpencodeIdle ==
    /\ AtOpencode("message")
    /\ reply = "waiting"
    /\ idle' = IF idle < 2 THEN idle + 1 ELSE idle
    /\ reply' = IF idle = 1 /\ ~stdio THEN "rejected" ELSE reply
    /\ UNCHANGED <<stdio, message, earlier, live, emitted, grace, events, aborted,
                   spent, ticked, threads, result, process, step, total, attempt,
                   wire, outcome>>

(* The rest of turn() and the loop around it. *)
OpencodeTurnOver ==
    /\ AtOpencode("message")
    /\ reply # "waiting"
    /\ LET counted == reply \in Replies /\ idle = 0
       IN /\ total' = IF counted THEN total + message ELSE total
          /\ IF counted THEN EmitUsage(total') ELSE UNCHANGED <<emitted, ticked>>
          /\ \/ /\ counted /\ reply = "reply"
                /\ \E valid \in BOOLEAN :
                     IF ReplyIsFinal(valid)
                     THEN /\ Finish(ReplyResult(valid, total'))
                          /\ UNCHANGED <<attempt, reply, live, earlier, message, grace, idle>>
                     ELSE /\ attempt' = attempt + 1
                          /\ IF aborted
                             THEN /\ Finish(Failed(total'))
                                  /\ UNCHANGED <<reply, live, earlier, message, grace, idle>>
                             ELSE PostMessage /\ UNCHANGED <<outcome, process>>
                /\ UNCHANGED wire
             \/ /\ counted /\ reply = "refused" /\ wire /\ ~aborted
                /\ wire' = FALSE
                /\ PostMessage
                /\ UNCHANGED <<attempt, outcome, process>>
             \/ /\ ~counted \/ reply # "reply"
                /\ ~(counted /\ reply = "refused" /\ wire /\ ~aborted)
                /\ Finish(Failed(total'))
                /\ UNCHANGED <<attempt, wire, reply, live, earlier, message, grace, idle>>
    /\ UNCHANGED <<stdio, events, aborted, spent, threads, result>>

(* The process closes: whatever awaits it is rejected (request(),          *)
(* onCloseBeforeAnnounce), and close() has nothing left to do.             *)
OpencodeExit ==
    /\ backend = "opencode"
    /\ ServeRuns
    /\ process' = "gone"
    /\ \/ /\ step = "announcing"
          /\ step' = "done"
          /\ result' = Failed(total)
          /\ UNCHANGED <<reply, outcome>>
       \/ /\ step = "session"
          /\ step' = "closing"
          /\ outcome' = Failed(total)
          /\ UNCHANGED <<reply, result>>
       \/ /\ step = "message" /\ reply = "waiting"
          /\ reply' = "rejected"
          /\ UNCHANGED <<step, result, outcome>>
       \/ /\ step \in {"closing", "done"}
          /\ UNCHANGED <<step, reply, result, outcome>>
    /\ UNCHANGED <<stdio, message, earlier, live, emitted, grace, idle, events,
                   aborted, spent, ticked, threads, total, attempt, wire>>

(* The signal: start() and abortable() reject, a running message is asked  *)
(* to abort and waited for a while longer.                                 *)
OpencodeAbort ==
    /\ backend = "opencode" /\ result = Pending
    /\ ~aborted /\ step # "start"
    /\ step = "message" => reply = "waiting"
    /\ aborted' = TRUE
    /\ \/ /\ step = "announcing"
          /\ StartFails
          /\ UNCHANGED <<outcome, grace>>
       \/ /\ step = "session"
          /\ Finish(Failed(total))
          /\ UNCHANGED <<result, grace>>
       \/ /\ step \in {"message", "closing"}
          /\ grace' = (step = "message")
          /\ UNCHANGED <<step, process, result, outcome>>
    /\ UNCHANGED <<stdio, reply, message, earlier, live, emitted, idle, events,
                   spent, ticked, threads, total, attempt, wire>>

(* close(): SIGKILL after the grace, then it gives the process up. *)
OpencodeCloseTimer ==
    /\ AtOpencode("closing")
    /\ \/ /\ process = "terminated"
          /\ process' = Signal("SIGKILL")
          /\ UNCHANGED <<step, result>>
       \/ /\ process \in {"killed", "gone"}
          /\ step' = "done"
          /\ result' = outcome
          /\ UNCHANGED process
    /\ UNCHANGED <<opencodeVars, aborted, spent, ticked, threads, total, attempt,
                   wire, outcome>>

OpencodeInit ==
    /\ stdio \in BOOLEAN
    /\ backend # "opencode" => ~stdio
    /\ reply = "waiting"
    /\ message = 0 /\ earlier = 0 /\ live = 0 /\ emitted = 0
    /\ grace = FALSE
    /\ idle = 0
    /\ events = 0

OpencodeNext ==
    \/ OpencodeUncompiled
    \/ OpencodeStart \/ OpencodeAnnounced \/ OpencodeStartTimeout
    \/ OpencodeSession \/ OpencodeNoSession \/ OpencodeEvent \/ OpencodeReply
    \/ OpencodeHttpTimeout \/ OpencodeGraceTimer \/ OpencodeIdle
    \/ OpencodeTurnOver \/ OpencodeExit \/ OpencodeAbort \/ OpencodeCloseTimer
=============================================================================
