---------------------------- MODULE AppServerClient ----------------------------
(***************************************************************************)
(* The JSON-RPC client of one codex app-server process                     *)
(* (src/appserver/client.ts): the table of pending requests with their     *)
(* timers, the exit of the process, and close().                           *)
(*                                                                         *)
(* A promise settles when its response line, its timer, the exit or the    *)
(* abort is handled, and the code awaiting it runs in a microtask.  Lines  *)
(* that came in the same chunk are handled before that microtask, anything *)
(* else after it: answer is the settled promise somebody awaits.           *)
(***************************************************************************)
EXTENDS ExecutorCall

CONSTANTS NoAnswer  \* no promise is settled and awaited

VARIABLES
    requests,   \* methods of the pending table
    answer,     \* [to, with] of an awaited promise, or NoAnswer
    killTimer   \* close(): the timer that will send SIGKILL

clientVars == <<requests, answer, killTimer>>

(* The awaited requests, all sent with timeoutMs.  turn/interrupt is sent  *)
(* without one, and nobody looks at how it settles.                        *)
Methods == {"initialize", "thread/start", "turn/start"}

(* How a promise settles: with the server's result or error, or rejected  *)
(* by the client (timer, exit, abort).                                     *)
Answers == [to : Methods, with : {"result", "error", "lost"}]

ASSUME AnswersAssumption == NoAnswer \notin Answers

(* exitedFlag, and closed: close() is called in the finally of execute().  *)
Exited == process = "gone"
Closed == step \in {"closing", "done"}

(* request(): rejected at once on a client that is closed or whose process *)
(* exited, otherwise an entry of the table.                                *)
Request(method) ==
    IF Exited
    THEN /\ answer' = [to |-> method, with |-> "lost"]
         /\ UNCHANGED requests
    ELSE /\ requests' = requests \cup {method}
         /\ UNCHANGED answer

(* The awaited promise of a request in the table settles. *)
Settles(method, how) ==
    answer' = IF Closed THEN answer ELSE [to |-> method, with |-> how]

(* handleLine() with a response. *)
Respond(method, how) ==
    /\ process \notin {"unborn", "gone"}
    /\ answer = NoAnswer
    /\ method \in requests
    /\ requests' = requests \ {method}
    /\ how \in {"result", "error"}
    /\ Settles(method, how)
    /\ UNCHANGED killTimer

(* The timer of request(). *)
RequestTimesOut(method) ==
    /\ method \in requests
    /\ requests' = requests \ {method}
    /\ Settles(method, "lost")
    /\ UNCHANGED killTimer

(* Mutant: pending requests are left pending. *)
HandleExitForgets ==
    /\ process' = "gone"
    /\ killTimer' = FALSE
    /\ UNCHANGED <<requests, answer>>

(* handleExit(): every pending request is rejected; at most one is awaited. *)
HandleExit ==
    /\ process' = "gone"
    /\ requests' = {}
    /\ answer' = IF requests = {} \/ Closed THEN answer
                 ELSE [to |-> CHOOSE m \in requests : TRUE, with |-> "lost"]
    /\ killTimer' = FALSE

(* close(): stdin is ended and the SIGKILL timer armed, or, when the       *)
(* process has exited, nothing is left to wait for.                        *)
Close ==
    /\ killTimer' = ~Exited
    /\ UNCHANGED process

ClientInit ==
    /\ requests = {}
    /\ answer = NoAnswer
    /\ killTimer = FALSE

ClientTypeOK ==
    /\ requests \subseteq Methods
    /\ answer \in Answers \cup {NoAnswer}
    /\ killTimer \in BOOLEAN
=============================================================================
