--------------------------------- MODULE Turn ---------------------------------
(***************************************************************************)
(* runTurn() (src/appserver/turn.ts): one turn of a codex thread, from the *)
(* turn/start request to its settlement.  The closure of runTurn() is the  *)
(* record turn; every handler is an operator from one such record to the   *)
(* next.  The other half is the app-server, as far as the client relies on *)
(* it: it runs turns, tools, collab calls and subagent turns, and reports  *)
(* each of them on the one stdout pipe, in order.                          *)
(*                                                                         *)
(* Thread 0 is the main thread; thread k is the subagent thread the main   *)
(* turn k spawns.  A main turn's id is its ordinal.                        *)
(***************************************************************************)
EXTENDS AppServerClient, FiniteSets

CONSTANTS
    MaxTurns,       \* bound: turns on the main thread
    MaxChildTurns,  \* bound: turns on one subagent thread
    MaxChatter,     \* bound: notifications in one call, completions aside
    MaxBuffered,    \* bound: notifications before the response to turn/start
    Items           \* item types a turn waits for

ASSUME TurnBounds ==
    /\ MaxTurns \in Nat
    /\ MaxChildTurns \in Nat
    /\ MaxChatter \in Nat
    /\ MaxBuffered \in Nat
    /\ Items \subseteq {"tool", "collab"}

VARIABLES
    turn,      \* the closure of the current runTurn()
    open,      \* the main turns the server still runs
    work,      \* what the server runs inside main turn k: <<kind, k>>
    kids,      \* kids[k]: turns begun on subagent thread k, NoUsage before it exists
    answered,  \* the main turns whose final answer the server sent
    chatter    \* notifications sent

turnVars == <<turn, open, work, kids, answered, chatter>>

Main == 0
MainTurns == 1..MaxTurns
Threads == 0..MaxTurns
Kinds == Items \cup {"subagent"}

-----------------------------------------------------------------------------
(* The closure of runTurn(). *)

NewTurn(n) ==
    [no |-> n, status |-> "running", blame |-> "none",
     seen |-> FALSE,                        \* responseSeen
     aborted |-> aborted,                   \* and the grace timer
     final |-> FALSE,                       \* finalAnswerSeen
     busy |-> {},                           \* activeItems, pendingCollabs
     subs |-> {},                           \* activeSubagentTurns
     known |-> {Main},                      \* threadIds
     ids |-> [x \in Threads |-> 0],         \* threadTurnIds, 0 is absent
     infer |-> FALSE,                       \* inferTimer is armed
     base |-> NoUsage, usage |-> 0, buffer |-> <<>>]

(* settle(): the first status stays; every timer is cleared. *)
SettleTurn(t, status, blame) ==
    IF t.status # "running" THEN t
    ELSE [t EXCEPT !.status = status, !.blame = blame, !.infer = FALSE]

NothingActive(t) == t.busy = {} /\ t.subs = {}
MayInfer(t) == t.status = "running" /\ ~t.aborted /\ t.final /\ NothingActive(t)

(* scheduleInferred(): an armed timer is not disarmed by new work, it      *)
(* looks again when it fires.                                              *)
ScheduleInferred(t) == IF MayInfer(t) THEN [t EXCEPT !.infer = TRUE] ELSE t
InferenceFires(t) ==
    IF MayInfer(t) THEN SettleTurn(t, "completed", "none")
    ELSE [t EXCEPT !.infer = FALSE]

CompleteTurn(t, status) ==
    SettleTurn(t, IF status = "completed" /\ t.aborted THEN "interrupted" ELSE status,
               "server")

(* belongsToTurn(): a known thread, and not another turn of it. *)
BelongsToTurn(t, m) ==
    /\ m.thread \in t.known
    /\ t.ids[m.thread] \in {0, m.turn}

(* recordItem(), for the main thread. *)
ItemStarted(t, m) == [t EXCEPT !.busy = @ \cup {<<m.item, m.turn>>}]
ItemCompleted(t, m) ==
    ScheduleInferred([t EXCEPT !.busy = @ \ {<<m.item, m.turn>>}])
Receivers(m) == IF m.item = "collab" THEN {m.turn} ELSE {}

(* Mutant: every turn counts from the start of the thread. *)
BaselineAtZero(t, m) == IF t.base = NoUsage THEN 0 ELSE t.base

(* thread/tokenUsage/updated: the baseline is what the thread had before   *)
(* this turn's first request.                                              *)
Baseline(t, m) == IF t.base = NoUsage THEN m.total - m.last ELSE t.base
RecordUsage(t, m) ==
    [t EXCEPT !.base = Baseline(t, m), !.usage = m.total - Baseline(t, m)]

(* apply(): errors of subagent threads do not settle the turn, and those   *)
(* codex retries itself never get here.                                    *)
Apply(t, m) ==
    CASE m.method = "thread/started" -> [t EXCEPT !.known = @ \cup {m.thread}]
      [] m.method = "turn/started" ->
            [t EXCEPT !.ids[m.thread] = m.turn,
                      !.subs = @ \cup ({m.thread} \ {Main})]
      [] m.method = "item/started" ->
            ItemStarted([t EXCEPT !.known = @ \cup Receivers(m)], m)
      [] m.method = "item/completed" ->
            ItemCompleted([t EXCEPT !.known = @ \cup Receivers(m)], m)
      [] m.method = "answer" -> ScheduleInferred([t EXCEPT !.final = TRUE])
      [] m.method = "usage" -> RecordUsage(t, m)
      [] m.method = "error" ->
            IF m.thread = Main THEN SettleTurn(t, "failed", "server") ELSE t
      [] m.method = "turn/completed" /\ m.thread = Main -> CompleteTurn(t, m.status)
      [] m.method = "turn/completed" /\ m.thread # Main ->
            ScheduleInferred([t EXCEPT !.subs = @ \ {m.thread}])

(* Mutant: a subagent keeps the id of its first turn. *)
RestartedNever(t, m) == t

(* route(): a known subagent thread that is idle may begin its next turn   *)
(* before messages of other turns are dropped.                             *)
Restarted(t, m) ==
    IF /\ m.method = "turn/started"
       /\ m.thread \in t.known \ ({Main} \cup t.subs)
    THEN [t EXCEPT !.ids[m.thread] = m.turn] ELSE t
Route(t, m) ==
    LET r == Restarted(t, m)
    IN  IF t.status # "running" THEN t
        ELSE IF m.method = "thread/started" \/ BelongsToTurn(r, m) THEN Apply(r, m)
        ELSE r

(* onNotification(): kept until the response names the turn. *)
OnNotification(t, m) ==
    IF t.status # "running" THEN t
    ELSE IF t.seen THEN Route(t, m)
    ELSE [t EXCEPT !.buffer = Append(@, m)]

(* Messages ms are routed one after the other.                             *)
Routed(t, ms) ==
    LET after[i \in 0..Len(ms)] == IF i = 0 THEN t ELSE Route(after[i - 1], ms[i])
    IN  after[Len(ms)]

(* The continuation of turn/start: the turn is named, then what came       *)
(* before the response is routed.                                          *)
OnResponse(t) ==
    Routed([t EXCEPT !.seen = TRUE, !.ids[Main] = t.no, !.buffer = <<>>], t.buffer)

-----------------------------------------------------------------------------
(* The event loop: a settled promise is continued before the next event,   *)
(* lines of the same chunk excepted.                                       *)

TurnOver == step = "turning" /\ turn.status # "running"
Idle == answer = NoAnswer /\ ~TurnOver

(* onUsage of runTurn() adds what earlier turns used. *)
TurnBecomes(t) ==
    /\ turn' = t
    /\ ticked' = IF t.usage = turn.usage THEN ticked ELSE total + t.usage

(* A line of the server reaches the handler of the turn. *)
Notify(m) ==
    /\ step = "turning"
    /\ process \notin {"unborn", "gone"}
    /\ TurnBecomes(OnNotification(turn, m))

Message(method, thread, id) ==
    [method |-> method, thread |-> thread, turn |-> id, item |-> "none",
     status |-> "none", total |-> 0, last |-> 0]

Chat ==
    /\ chatter < MaxChatter
    /\ Len(turn.buffer) < MaxBuffered
    /\ chatter' = chatter + 1

(* The server works on main turn k: a command or a collab call begins and  *)
(* ends, the final answer is given, a model request is metered.            *)
ServerItem(k) == \E item \in Items :
    /\ k \in open
    /\ Chat
    /\ IF <<item, k>> \in work
       THEN /\ work' = work \ {<<item, k>>}
            /\ Notify([Message("item/completed", Main, k) EXCEPT !.item = item])
       ELSE /\ work' = work \cup {<<item, k>>}
            /\ Notify([Message("item/started", Main, k) EXCEPT !.item = item])
    /\ kids' = IF item = "collab" /\ kids[k] = NoUsage THEN [kids EXCEPT ![k] = 0] ELSE kids
    /\ UNCHANGED <<open, answered, spent>>

ServerAnswers(k) ==
    /\ k \in open \ answered
    /\ Chat
    /\ answered' = answered \cup {k}
    /\ Notify(Message("answer", Main, k))
    /\ UNCHANGED <<open, work, kids, spent>>

ServerMeters(k) ==
    /\ k \in open
    /\ Chat
    /\ spent < MaxTokens
    /\ spent' = spent + 1
    /\ Notify([Message("usage", Main, k) EXCEPT !.total = spent', !.last = 1])
    /\ UNCHANGED <<open, work, kids, answered>>

(* A subagent thread is announced, by thread/started or by the collab call *)
(* that names it, before it begins a turn; it runs one turn at a time.     *)
ServerSpawns(k) ==
    /\ k \in open
    /\ kids[k] = NoUsage
    /\ Chat
    /\ kids' = [kids EXCEPT ![k] = 0]
    /\ Notify(Message("thread/started", k, 0))
    /\ UNCHANGED <<open, work, answered, spent>>

ServerSubagent(k) ==
    /\ kids[k] # NoUsage
    /\ \/ /\ Chat
          /\ <<"subagent", k>> \notin work
          /\ kids[k] < MaxChildTurns
          /\ kids' = [kids EXCEPT ![k] = @ + 1]
          /\ work' = work \cup {<<"subagent", k>>}
          /\ Notify(Message("turn/started", k, kids'[k]))
       \/ /\ Chat
          /\ <<"subagent", k>> \in work
          /\ work' = work \ {<<"subagent", k>>}
          /\ Notify(Message("turn/completed", k, kids[k]))
          /\ UNCHANGED kids
       \/ /\ Len(turn.buffer) < MaxBuffered
          /\ Notify(Message("error", k, kids[k]))
          /\ UNCHANGED <<kids, work, chatter>>
    /\ UNCHANGED <<open, answered, spent>>

(* Turn k is over at the server. *)
ServerCompletes(k) ==
    /\ k \in open
    /\ open' = open \ {k}
    /\ \/ \E status \in {"completed", "interrupted", "failed"} :
            Notify([Message("turn/completed", Main, k) EXCEPT !.status = status])
       \/ Notify(Message("error", Main, k))
    /\ UNCHANGED <<work, kids, answered, chatter, spent>>

Server == \E k \in MainTurns :
    \/ ServerItem(k) \/ ServerAnswers(k) \/ ServerMeters(k)
    \/ ServerSpawns(k) \/ ServerSubagent(k) \/ ServerCompletes(k)

(* The response to turn/start: the turn runs, has already ended, or was    *)
(* refused.                                                                *)
ServerStartsTurn ==
    /\ \/ Respond("turn/start", "result") /\ open' \in {open, open \ {turn.no}}
       \/ Respond("turn/start", "error") /\ open' = open \ {turn.no}
    /\ UNCHANGED <<turn, work, kids, answered, chatter>>

-----------------------------------------------------------------------------
(* The client's side of a turn. *)

(* runTurn(): the handlers are registered and turn/start is sent. *)
StartTurn(n) ==
    /\ step' = "turning"
    /\ turn' = NewTurn(n)
    /\ open' = IF Exited THEN open ELSE open \cup {n}
    /\ Request("turn/start")
    /\ UNCHANGED <<work, kids, answered, chatter, killTimer>>

(* The .then and .catch of turn/start.  The interrupt it may send is not   *)
(* awaited; at the server it is one more reason to complete the turn.      *)
TurnStarted ==
    /\ step = "turning"
    /\ answer # NoAnswer
    /\ answer' = NoAnswer
    /\ LET t == CASE answer.with = "result" -> OnResponse(turn)
                  [] answer.with = "error" -> SettleTurn(turn, "failed", "server")
                  [] answer.with = "lost" -> SettleTurn(turn, "failed", "client")
       IN TurnBecomes(IF turn.no \in open THEN t ELSE CompleteTurn(t, "completed"))
    /\ UNCHANGED <<requests, open, work, kids, answered, chatter, killTimer>>

(* The three timers of a running turn. *)
InferTimer ==
    /\ turn.infer
    /\ TurnBecomes(InferenceFires(turn))
GraceTimer ==
    /\ turn.aborted
    /\ TurnBecomes(SettleTurn(turn, "interrupted", "client"))
InactivityTimer ==
    /\ turn.seen
    /\ TurnBecomes(SettleTurn(turn, "failed", "client"))
TurnTimer ==
    /\ step = "turning" /\ Idle
    /\ InferTimer \/ GraceTimer \/ InactivityTimer
    /\ UNCHANGED <<requests, answer, killTimer, open, work, kids, answered, chatter>>

(* onAbort(), which also sends turn/interrupt, and exited, for a turn that has not settled. *)
AbortTurn(t) == IF t.status = "running" THEN [t EXCEPT !.aborted = TRUE] ELSE t
ExitTurn(t) == SettleTurn(t, "failed", "client")

NoTurn == [NewTurn(0) EXCEPT !.status = "completed", !.aborted = FALSE]
NoKids == [k \in MainTurns |-> NoUsage]
TurnInit ==
    /\ turn = NoTurn
    /\ open = {}
    /\ work = {}
    /\ kids = NoKids
    /\ answered = {}
    /\ chatter = 0

(* The call is being closed: no handler is left, and what the server still *)
(* does or says reaches nobody.                                            *)
TurnsDropped ==
    /\ turn' = NoTurn
    /\ open' = {}
    /\ work' = {}
    /\ kids' = NoKids
    /\ answered' = {}
    /\ chatter' = 0

TurnTypeOK ==
    /\ turn.no \in 0..MaxTurns
    /\ turn.status \in {"running", "completed", "interrupted", "failed"}
    /\ turn.busy \subseteq Items \X MainTurns
    /\ turn.subs \subseteq MainTurns
    /\ turn.known \subseteq Threads
    /\ turn.usage \in 0..MaxTokens
    /\ Len(turn.buffer) <= MaxBuffered + MaxTurns
    /\ open \subseteq MainTurns /\ answered \subseteq MainTurns
    /\ work \subseteq Kinds \X MainTurns
    /\ chatter \in 0..MaxChatter
=============================================================================
