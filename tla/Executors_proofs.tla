--------------------------- MODULE Executors_proofs ---------------------------
(***************************************************************************)
(* Proofs about one call of run() on each adapter, for any number of       *)
(* turns, repairs, tokens, items and messages, and whatever the servers    *)
(* do: that it keeps the executor contract, that its usage is honest, that *)
(* it does not outlive its process, and that no codex turn is cut short.   *)
(***************************************************************************)
EXTENDS Executors, FiniteSetTheorems, SequenceTheorems, WellFoundedInduction, NaturalsInduction, TLAPS

(* Sharper types: of the messages the server sends, of the closure, and of *)
(* what the runs do not type.                                              *)
NoteMethods == {"thread/started", "turn/started", "item/started", "item/completed",
                "answer", "usage", "error", "turn/completed"}
Statuses == {"completed", "interrupted", "failed"}
Messages ==
    {m \in [method : NoteMethods, thread : Threads, turn : Nat, item : Items \cup {"none"},
            status : Statuses \cup {"none"}, total : Nat, last : Nat] :
        /\ m.method \in {"item/started", "item/completed"} =>
              m.thread = Main /\ m.turn \in MainTurns /\ m.item \in Items
        /\ m.method = "turn/started" => m.thread # Main
        /\ m.method \in {"answer", "usage"} => m.thread = Main
        /\ m.method = "turn/completed" /\ m.thread = Main => m.status # "none"
        /\ m.last <= m.total}

TurnRecords ==
    [no : 0..MaxTurns, status : Statuses \cup {"running"},
     blame : {"none", "server", "client"}, seen : BOOLEAN, aborted : BOOLEAN, final : BOOLEAN,
     busy : SUBSET (Items \X MainTurns), subs : SUBSET MainTurns, known : SUBSET Threads,
     ids : [Threads -> Nat], infer : BOOLEAN, base : Nat \cup {NoUsage}, usage : Nat,
     buffer : Seq(Messages)]

CodexTypes ==
    /\ ClientTypeOK
    /\ turn \in TurnRecords
    /\ open \subseteq MainTurns /\ answered \subseteq MainTurns
    /\ work \subseteq Kinds \X MainTurns
    /\ kids \in [MainTurns -> Nat \cup {NoUsage}]
    /\ chatter \in 0..MaxChatter
ClaudeTypes == interrupted \in BOOLEAN /\ claudeTimer \in BOOLEAN
OpencodeTypes ==
    /\ stdio \in BOOLEAN /\ grace \in BOOLEAN
    /\ reply \in Replies \cup {"waiting", "rejected", "abandoned"}
    /\ message \in Nat /\ earlier \in Nat /\ message <= spent /\ earlier <= spent
    /\ live \in Nat /\ emitted \in Nat
    /\ idle \in 0..2 /\ events \in 0..MaxEvents
Types == CallTypeOK /\ CodexTypes /\ ClaudeTypes /\ OpencodeTypes

(* A settled result of the shape the request asked for, or the rejection   *)
(* of a claude call whose schema does not compile.                         *)
Fits(r) ==
    /\ r \in Results
    /\ \/ r.value = IF ~r.ok THEN "none" ELSE IF schema THEN "object" ELSE "text"
       \/ r = Rejected /\ backend = "claude" /\ ~compiles

Honest(r) ==
    backend \in {"codex", "claude"} /\ r.usage # NoUsage => r.usage \in ticked..spent

(* The call as its caller sees it, at each await.                          *)
CallAgrees ==
    /\ result = Pending <=> step # "done"
    /\ step = "closing" => Fits(outcome) /\ Honest(outcome)
    /\ step = "done" => Fits(result) /\ Honest(result) /\ process # "running"
    /\ threads \in 0..1
    /\ ticked <= spent \/ backend = "opencode"
    /\ step = "start" /\ backend # "claude" => process = "unborn"

ClaudeAgrees ==
    /\ step \in {"start", "running", "done"}
    /\ step = "running" <=> process \in {"running", "terminated", "killed"}
    /\ claudeTimer => step = "running"
    /\ ticked <= total /\ total <= spent

OpencodeAgrees ==
    /\ step \in {"start", "announcing", "session", "message", "closing", "done"}
    /\ step \in {"announcing", "session"} => ServeRuns
    /\ step \in {"start", "announcing", "session"} => threads = 0
    /\ step = "closing" => process # "running"
    /\ step = "message" => process # "unborn" /\ (process = "gone" => reply = "rejected")
    /\ ticked = emitted

(* What the codex adapter awaits, and who may still settle it.             *)
Awaits(method) ==
    /\ requests \subseteq {method}
    /\ answer = NoAnswer => requests = {method}
    /\ answer # NoAnswer /\ answer.with = "result" => requests = {}

TurnsLeft == (retries - attempt) + (IF wire THEN 1 ELSE 0)

CodexAgrees ==
    /\ step \in {"start", "initializing", "threading", "turning", "closing", "done"}
    /\ step \in {"start", "initializing", "threading"} =>
          threads = 0 /\ total = 0 /\ 1 + TurnsLeft <= MaxTurns
    /\ step = "start" => requests = {} /\ answer = NoAnswer
    /\ step = "initializing" => Awaits("initialize") /\ process # "unborn"
    /\ step = "threading" => Awaits("thread/start") /\ process # "unborn"
    /\ Exited => /\ requests = {}
                 /\ answer # NoAnswer => answer.with = "lost"
    /\ killTimer => step = "closing" /\ ~Exited
    /\ ticked = total + turn.usage

AwaitsTurn == step = "turning" =>
    /\ turn.no >= 1 /\ turn.no + TurnsLeft <= MaxTurns
    /\ process # "unborn"
    /\ requests \subseteq {"turn/start"}
    /\ turn.seen => requests = {}
    /\ answer # NoAnswer /\ answer.with = "result" =>
          requests = {} /\ ~turn.seen /\ turn.status = "running"
    /\ Exited /\ turn.status = "running" => answer # NoAnswer

(* Outside of a turn no closure is left, and nothing is known of turns     *)
(* that have not begun.                                                    *)
Rest ==
    [no |-> 0, status |-> "completed", blame |-> "none", seen |-> FALSE, aborted |-> FALSE,
     final |-> FALSE, busy |-> {}, subs |-> {}, known |-> {Main}, ids |-> [x \in Threads |-> 0],
     infer |-> FALSE, base |-> NoUsage, usage |-> 0, buffer |-> <<>>]
Unbegun(k) ==
    /\ k \notin open /\ k \notin answered /\ kids[k] = NoUsage
    /\ \A kind \in Kinds : <<kind, k>> \notin work
NothingAhead ==
    /\ step # "turning" => turn = Rest
    /\ \A k \in MainTurns : k > turn.no => Unbegun(k)

Metered(v) ==
    /\ total + v.usage <= spent
    /\ v.base # NoUsage => v.base >= total /\ v.base + v.usage <= spent
    /\ v.base = NoUsage => v.usage = 0

(* A running turn knows what the server still does for it.                 *)
Follows(v) ==
    /\ v.ids[Main] = v.no /\ Main \in v.known
    /\ v.final => v.no \in answered
    /\ \A item \in Items : <<item, v.no>> \in work => <<item, v.no>> \in v.busy
    /\ <<"subagent", v.no>> \in work <=> v.no \in v.subs
    /\ kids[v.no] = NoUsage => v.ids[v.no] = 0 /\ v.no \notin v.subs
    /\ kids[v.no] # NoUsage => v.ids[v.no] = kids[v.no] /\ v.no \in v.known

Sees(v, b) ==
    /\ v \in TurnRecords /\ v.no = turn.no /\ v.seen /\ v.aborted = b /\ v.buffer = <<>>
    /\ Metered(v)
    /\ v.status = "running" => Follows(v)
    /\ v.status = "completed" => ~b /\ v.no \notin open

(* Of a turn whose response has not come, what the buffer will tell it:    *)
(* aborted by then or not.                                                 *)
Foreseen(b) == OnResponse([turn EXCEPT !.aborted = b])
TurnAgrees ==
    /\ Metered(turn)
    /\ ~turn.seen => turn.base = NoUsage /\ ~turn.final /\ ~turn.infer
    /\ turn.status = "running" =>
         IF turn.seen THEN Sees(turn, turn.aborted)
         ELSE \A b \in {turn.aborted, TRUE} : Sees(Foreseen(b), b)

BufferFits == Len(turn.buffer) + Cardinality(open) <= MaxBuffered + MaxTurns

CodexStrong == CodexAgrees /\ AwaitsTurn /\ NothingAhead /\ TurnAgrees /\ BufferFits
ExecStrong ==
    /\ Types /\ CallAgrees
    /\ backend = "claude" => ClaudeAgrees
    /\ backend = "opencode" => OpencodeAgrees
    /\ backend = "codex" => CodexStrong
    /\ backend # "codex" => turn = Rest
-----------------------------------------------------------------------------
(* Lemmas: messages routed one after the other.                            *)
LEMMA LeastNumber ==
    ASSUME NEW S \in SUBSET Nat, S # {}
    PROVE  \E m \in S : \A n \in S : m <= n
<1> DEFINE R == OpToRel(<, Nat)
<1>1. IsWellFoundedOn(R, Nat)
  BY NatLessThanWellFounded
<1>2. \A x, y \in Nat : <<y, x>> \in R <=> y < x
  BY DEF OpToRel
<1> HIDE DEF R
<1>3. PICK m \in S : \A n \in S : <<n, m>> \notin R
  BY <1>1, WFMin
<1>4. ASSUME NEW n \in S PROVE m <= n
  <2>1. m \in Nat /\ n \in Nat /\ ~(n < m)
    BY <1>2, <1>3
  <2> QED
    BY <2>1
<1> QED
  BY <1>4

(* f is the turn after each of the first n messages.                       *)
Routes(f, n, t, ms) == f = [i \in 0..n |-> IF i = 0 THEN t ELSE Route(f[i - 1], ms[i])]

LEMMA RoutesExtend ==
    ASSUME NEW n \in Nat, NEW t, NEW ms, NEW f, Routes(f, n, t, ms)
    PROVE  Routes([i \in 0..(n + 1) |-> IF i = n + 1 THEN Route(f[n], ms[n + 1]) ELSE f[i]],
                  n + 1, t, ms)
<1> DEFINE g == [i \in 0..(n + 1) |-> IF i = n + 1 THEN Route(f[n], ms[n + 1]) ELSE f[i]]
<1>1. ASSUME NEW i \in 0..(n + 1)
      PROVE  g[i] = IF i = 0 THEN t ELSE Route(g[i - 1], ms[i])
  <2>1. CASE i = 0
    <3>1. g[0] = f[0] /\ 0 \in 0..n
      BY DEF Routes
    <3> QED
      BY <2>1, <3>1 DEF Routes
  <2>2. CASE i = n + 1
    <3>1. i - 1 = n /\ n \in 0..(n + 1) /\ n # n + 1 /\ i # 0
      BY <2>2
    <3>2. g[n] = f[n]
      BY <3>1
    <3>3. g[i] = Route(f[n], ms[n + 1])
      BY <2>2
    <3> QED
      BY <2>2, <3>1, <3>2, <3>3
  <2>3. CASE i # 0 /\ i # n + 1
    <3>1. i \in 0..n /\ i - 1 \in 0..(n + 1) /\ i - 1 # n + 1
      BY <2>3
    <3>2. g[i] = f[i] /\ g[i - 1] = f[i - 1]
      BY <2>3, <3>1
    <3>3. f[i] = Route(f[i - 1], ms[i])
      BY <2>3, <3>1 DEF Routes
    <3> QED
      BY <2>3, <3>2, <3>3
  <2> QED
    BY <2>1, <2>2, <2>3
<1>2. g = [i \in 0..(n + 1) |-> IF i = 0 THEN t ELSE Route(g[i - 1], ms[i])]
  <2> DEFINE h == [i \in 0..(n + 1) |-> IF i = 0 THEN t ELSE Route(g[i - 1], ms[i])]
  <2>1. \A i \in 0..(n + 1) : g[i] = h[i]
    BY <1>1
  <2>2. DOMAIN g = 0..(n + 1) /\ DOMAIN h = 0..(n + 1)
    OBVIOUS
  <2> QED
    BY <2>1
<1> QED
  BY <1>2 DEF Routes

LEMMA RoutesExist ==
    ASSUME NEW n \in Nat, NEW t, NEW ms
    PROVE  \E f : Routes(f, n, t, ms)
<1> DEFINE Bad == {k \in Nat : ~\E f : Routes(f, k, t, ms)}
<1> SUFFICES ASSUME Bad # {} PROVE FALSE
  OBVIOUS
<1>1. PICK k \in Bad : \A j \in Bad : k <= j
  BY LeastNumber
<1>2. k # 0
  <2> DEFINE f == [i \in 0..0 |-> t]
  <2>1. f = [i \in 0..0 |-> IF i = 0 THEN t ELSE Route(f[i - 1], ms[i])]
    OBVIOUS
  <2>2. Routes(f, 0, t, ms)
    BY <2>1 DEF Routes
  <2> QED
    BY <1>1, <2>2
<1>3. k - 1 \in Nat /\ (k - 1) + 1 = k /\ ~(k <= k - 1)
  BY <1>1, <1>2
<1>4. PICK f : Routes(f, k - 1, t, ms)
  BY <1>1, <1>3
<1>5. \E g : Routes(g, (k - 1) + 1, t, ms)
  BY <1>3, <1>4, RoutesExtend
<1> QED
  BY <1>1, <1>3, <1>5

LEMMA RoutesAgree ==
    ASSUME NEW n \in Nat, NEW m \in Nat, NEW t, NEW ms, NEW ns, NEW f, NEW g,
           n <= m, Routes(f, n, t, ms), Routes(g, m, t, ns),
           \A i \in 1..n : ms[i] = ns[i]
    PROVE  \A i \in 0..n : f[i] = g[i]
<1> DEFINE Bad == {i \in 0..n : f[i] # g[i]}
<1> SUFFICES ASSUME Bad # {} PROVE FALSE
  OBVIOUS
<1>1. PICK i \in Bad : \A j \in Bad : i <= j
  <2>1. Bad \in SUBSET Nat
    OBVIOUS
  <2> HIDE DEF Bad
  <2> QED
    BY <2>1, LeastNumber
<1>2. f[0] = t /\ g[0] = t
  BY DEF Routes
<1>3. i \in 0..n /\ i # 0 /\ i - 1 \in 0..n /\ i \in 0..m /\ i \in 1..n
  BY <1>1, <1>2
<1>4. f[i - 1] = g[i - 1]
  <2>1. ~(i <= i - 1)
    BY <1>3
  <2> QED
    BY <1>1, <1>3, <2>1
<1>5. f[i] = Route(f[i - 1], ms[i])
  BY <1>3 DEF Routes
<1>6. g[i] = Route(g[i - 1], ns[i])
  BY <1>3 DEF Routes
<1> QED
  BY <1>1, <1>3, <1>4, <1>5, <1>6

LEMMA RoutedIs ==
    ASSUME NEW t, NEW ms, Len(ms) \in Nat
    PROVE  \E f : Routes(f, Len(ms), t, ms) /\ Routed(t, ms) = f[Len(ms)]
<1> DEFINE n == Len(ms)
           F == CHOOSE f : f = [i \in 0..n |-> IF i = 0 THEN t ELSE Route(f[i - 1], ms[i])]
<1>1. \E f : f = [i \in 0..n |-> IF i = 0 THEN t ELSE Route(f[i - 1], ms[i])]
  <2>1. PICK f : Routes(f, n, t, ms)
    BY RoutesExist
  <2> QED
    BY <2>1 DEF Routes
<1>2. F = [i \in 0..n |-> IF i = 0 THEN t ELSE Route(F[i - 1], ms[i])]
  BY <1>1
<1>3. Routed(t, ms) = F[n]
  BY DEF Routed
<1> QED
  BY <1>2, <1>3 DEF Routes

(* Nothing routed leaves the turn as it is, and one message more is one    *)
(* route() more.                                                           *)
LEMMA RoutedNothing ==
    ASSUME NEW t, NEW ms, ms = <<>>
    PROVE  Routed(t, ms) = t
<1>1. Len(ms) = 0 /\ Len(ms) \in Nat
  BY EmptySeq
<1>2. PICK f : Routes(f, Len(ms), t, ms) /\ Routed(t, ms) = f[Len(ms)]
  <2>1. Len(ms) \in Nat
    BY <1>1
  <2> QED
    BY <2>1, RoutedIs
<1>3. Routes(f, 0, t, ms) /\ Routed(t, ms) = f[0]
  BY <1>1, <1>2
<1> QED
  BY <1>3 DEF Routes

LEMMA RoutedAppend ==
    ASSUME NEW t, NEW A, NEW ms \in Seq(A), NEW m \in A
    PROVE  Routed(t, Append(ms, m)) = Route(Routed(t, ms), m)
<1> DEFINE ns == Append(ms, m)  n == Len(ms)
<1>1. /\ n \in Nat /\ Len(ns) = n + 1
      /\ \A i \in 1..n : ms[i] = ns[i]
      /\ ns[n + 1] = m
  BY AppendProperties, LenProperties
<1> HIDE DEF ns, n
<1>2. PICK f : Routes(f, n, t, ms) /\ Routed(t, ms) = f[n]
  BY <1>1, RoutedIs DEF n
<1>3. PICK g : Routes(g, n + 1, t, ns) /\ Routed(t, ns) = g[n + 1]
  <2>1. Len(ns) \in Nat
    BY <1>1
  <2>2. PICK g : Routes(g, Len(ns), t, ns) /\ Routed(t, ns) = g[Len(ns)]
    BY <2>1, RoutedIs
  <2> QED
    BY <1>1, <2>2
<1>4. f[n] = g[n]
  <2>1. n <= n + 1 /\ n + 1 \in Nat /\ n \in 0..n
    BY <1>1
  <2>2. \A i \in 0..n : f[i] = g[i]
    BY <1>1, <1>2, <1>3, <2>1, RoutesAgree
  <2> QED
    BY <2>1, <2>2
<1>5. g[n + 1] = Route(g[(n + 1) - 1], ns[n + 1])
  BY <1>1, <1>3 DEF Routes
<1>6. (n + 1) - 1 = n
  BY <1>1
<1> QED
  BY <1>1, <1>2, <1>3, <1>4, <1>5, <1>6 DEF ns
-----------------------------------------------------------------------------
(* Lemmas: what route() does with each kind of message.                    *)

(* w is v after a message, but for what the message is about.              *)
Onward(v, w) ==
    /\ w \in TurnRecords
    /\ w.no = v.no /\ w.seen = v.seen /\ w.aborted = v.aborted /\ w.buffer = v.buffer

(* w is v, the inference timer aside.                                      *)
Alike(v, w) ==
    /\ Onward(v, w)
    /\ w.status = v.status /\ w.final = v.final /\ w.busy = v.busy /\ w.subs = v.subs
    /\ w.known = v.known /\ w.ids = v.ids /\ w.base = v.base /\ w.usage = v.usage

LEMMA ScheduledAlike ==
    ASSUME NEW v \in TurnRecords
    PROVE  Alike(v, ScheduleInferred(v))
<1>1. CASE ScheduleInferred(v) = v
  BY <1>1 DEF Alike, Onward
<1>2. CASE ScheduleInferred(v) = [v EXCEPT !.infer = TRUE]
  <2>1. PICK w : w = [v EXCEPT !.infer = TRUE]
    OBVIOUS
  <2>2. w \in TurnRecords
    BY <2>1 DEF TurnRecords
  <2> QED
    BY <1>2, <2>1, <2>2 DEF TurnRecords, Alike, Onward
<1> QED
  BY <1>1, <1>2 DEF ScheduleInferred

(* A turn at work, and a message for its main thread.                      *)
AtWork(v) ==
    /\ v \in TurnRecords /\ v.status = "running" /\ v.no \in MainTurns
    /\ v.ids[Main] = v.no /\ Main \in v.known

LEMMA MainRoute ==
    ASSUME NEW v, AtWork(v), NEW m \in Messages, m.thread = Main,
           m.method \notin {"thread/started", "turn/started"}
    PROVE  Route(v, m) = IF m.turn = v.no THEN Apply(v, m) ELSE v
<1>1. Restarted(v, m) = v
  BY DEF Restarted
<1>2. BelongsToTurn(v, m) <=> m.turn = v.no
  BY DEF BelongsToTurn, AtWork, MainTurns
<1> QED
  BY <1>1, <1>2 DEF Route, AtWork

LEMMA RouteItem ==
    ASSUME NEW v, AtWork(v), NEW m \in Messages,
           m.method \in {"item/started", "item/completed"}, m.turn = v.no
    PROVE  LET w == Route(v, m)
           IN  /\ Onward(v, w)
               /\ w.status = v.status /\ w.final = v.final /\ w.subs = v.subs /\ w.ids = v.ids
               /\ w.base = v.base /\ w.usage = v.usage
               /\ w.known = v.known \cup Receivers(m)
               /\ w.busy = IF m.method = "item/started" THEN v.busy \cup {<<m.item, m.turn>>}
                           ELSE v.busy \ {<<m.item, m.turn>>}
<1>1. /\ v \in TurnRecords
      /\ m.thread = Main /\ m.turn \in MainTurns /\ m.item \in Items
  BY DEF AtWork, Messages
<1>2. Route(v, m) = Apply(v, m)
  BY <1>1, MainRoute
<1>3. PICK k \in SUBSET Threads : k = v.known \cup Receivers(m)
  BY <1>1 DEF Receivers, MainTurns, Threads, TurnRecords
<1>4. PICK b \in SUBSET (Items \X MainTurns) :
         b = IF m.method = "item/started" THEN v.busy \cup {<<m.item, m.turn>>}
             ELSE v.busy \ {<<m.item, m.turn>>}
  <2>1. <<m.item, m.turn>> \in Items \X MainTurns /\ v.busy \in SUBSET (Items \X MainTurns)
    BY <1>1 DEF TurnRecords
  <2> QED
    BY <2>1
<1>5. PICK t : t = [[v EXCEPT !.known = k] EXCEPT !.busy = b]
  OBVIOUS
<1>6. t \in TurnRecords
  BY <1>1, <1>5 DEF TurnRecords
<1>7. /\ t.known = k /\ t.busy = b
      /\ t.status = v.status /\ t.final = v.final /\ t.subs = v.subs /\ t.ids = v.ids
      /\ t.base = v.base /\ t.usage = v.usage /\ t.no = v.no /\ t.seen = v.seen
      /\ t.aborted = v.aborted /\ t.buffer = v.buffer
  BY <1>1, <1>5 DEF TurnRecords
<1>8. Apply(v, m) = t \/ Apply(v, m) = ScheduleInferred(t)
  <2>1. [v EXCEPT !.known = @ \cup Receivers(m)] = [v EXCEPT !.known = k]
    BY <1>3
  <2>2. [v EXCEPT !.known = k].busy = v.busy
    BY <1>1 DEF TurnRecords
  <2>3. CASE m.method = "item/started"
    BY <1>4, <1>5, <2>1, <2>2, <2>3 DEF Apply, ItemStarted
  <2>4. CASE m.method = "item/completed"
    BY <1>4, <1>5, <2>1, <2>2, <2>4 DEF Apply, ItemCompleted
  <2> QED
    BY <2>3, <2>4
<1>9. Alike(t, Route(v, m))
  BY <1>2, <1>6, <1>8, ScheduledAlike DEF Alike, Onward
<1> QED
  BY <1>3, <1>4, <1>7, <1>9 DEF Alike, Onward

LEMMA RouteAnswer ==
    ASSUME NEW v, AtWork(v), NEW m \in Messages, m.method = "answer", m.turn = v.no
    PROVE  LET w == Route(v, m)
           IN  /\ Onward(v, w)
               /\ w.status = v.status /\ w.busy = v.busy /\ w.subs = v.subs /\ w.known = v.known
               /\ w.ids = v.ids /\ w.base = v.base /\ w.usage = v.usage
<1>1. v \in TurnRecords /\ m.thread = Main
  BY DEF AtWork, Messages
<1>2. Route(v, m) = Apply(v, m)
  BY <1>1, MainRoute
<1>3. PICK t : t = [v EXCEPT !.final = TRUE]
  OBVIOUS
<1>4. t \in TurnRecords
  BY <1>1, <1>3 DEF TurnRecords
<1>5. /\ t.status = v.status /\ t.subs = v.subs /\ t.ids = v.ids /\ t.known = v.known
      /\ t.busy = v.busy /\ t.base = v.base /\ t.usage = v.usage /\ t.no = v.no
      /\ t.seen = v.seen /\ t.aborted = v.aborted /\ t.buffer = v.buffer
  BY <1>1, <1>3 DEF TurnRecords
<1>6. Apply(v, m) = ScheduleInferred(t)
  BY <1>3 DEF Apply
<1>7. Alike(t, Route(v, m))
  BY <1>2, <1>4, <1>6, ScheduledAlike
<1> QED
  BY <1>5, <1>7 DEF Alike, Onward

LEMMA RouteUsage ==
    ASSUME NEW v, AtWork(v), NEW m \in Messages, m.method = "usage", m.turn = v.no,
           v.base # NoUsage => v.base <= m.total
    PROVE  LET w == Route(v, m)
           IN  /\ Onward(v, w)
               /\ w.status = v.status /\ w.final = v.final /\ w.busy = v.busy
               /\ w.subs = v.subs /\ w.known = v.known /\ w.ids = v.ids
               /\ w.base = Baseline(v, m) /\ w.base \in Nat /\ w.usage = m.total - w.base
<1>1. v \in TurnRecords /\ m.thread = Main /\ m.last \in Nat /\ m.total \in Nat /\ m.last <= m.total
  BY DEF AtWork, Messages
<1>2. Route(v, m) = Apply(v, m)
  BY <1>1, MainRoute
<1>3. PICK c \in Nat : c = Baseline(v, m) /\ c <= m.total
  BY <1>1 DEF Baseline, TurnRecords
<1>4. PICK u \in Nat : u = m.total - c
  BY <1>1, <1>3
<1>5. PICK w : w = [v EXCEPT !.base = c, !.usage = u]
  OBVIOUS
<1>6. Apply(v, m) = w
  BY <1>3, <1>4, <1>5 DEF Apply, RecordUsage
<1>7. w \in TurnRecords
  BY <1>1, <1>5 DEF TurnRecords
<1>8. /\ w.base = c /\ w.usage = u
      /\ w.status = v.status /\ w.subs = v.subs /\ w.ids = v.ids /\ w.known = v.known
      /\ w.busy = v.busy /\ w.final = v.final /\ w.no = v.no
      /\ w.seen = v.seen /\ w.aborted = v.aborted /\ w.buffer = v.buffer
  BY <1>1, <1>5 DEF TurnRecords
<1> QED
  BY <1>2, <1>3, <1>4, <1>6, <1>7, <1>8 DEF Onward

LEMMA SettledIs ==
    ASSUME NEW v \in TurnRecords, NEW status \in {"completed", "interrupted", "failed"},
           NEW blame \in {"none", "server", "client"}
    PROVE  LET w == SettleTurn(v, status, blame)
           IN  /\ Onward(v, w)
               /\ w.status = IF v.status = "running" THEN status ELSE v.status
               /\ w.base = v.base /\ w.usage = v.usage /\ w.final = v.final
               /\ ~v.infer => ~w.infer
<1>1. CASE v.status # "running"
  BY <1>1 DEF SettleTurn, Onward
<1>2. CASE v.status = "running"
  <2>1. PICK w : w = [v EXCEPT !.status = status, !.blame = blame, !.infer = FALSE]
    OBVIOUS
  <2>2. SettleTurn(v, status, blame) = w
    BY <1>2, <2>1 DEF SettleTurn
  <2>3. w \in TurnRecords
    BY <2>1 DEF TurnRecords, Statuses
  <2>4. /\ w.status = status /\ w.base = v.base /\ w.usage = v.usage /\ w.no = v.no
        /\ w.seen = v.seen /\ w.aborted = v.aborted /\ w.buffer = v.buffer
        /\ w.final = v.final /\ ~w.infer
    BY <2>1 DEF TurnRecords
  <2> QED
    BY <1>2, <2>2, <2>3, <2>4 DEF Onward
<1> QED
  BY <1>1, <1>2

LEMMA RouteEnd ==
    ASSUME NEW v, AtWork(v), NEW m \in Messages, m.thread = Main, m.turn = v.no,
           m.method \in {"error", "turn/completed"}
    PROVE  LET w == Route(v, m)
           IN  /\ Onward(v, w)
               /\ w.status # "running" /\ (w.status = "completed" => ~v.aborted)
               /\ w.base = v.base /\ w.usage = v.usage
<1>1. v \in TurnRecords /\ v.status = "running"
  BY DEF AtWork
<1>2. Route(v, m) = Apply(v, m)
  BY MainRoute
<1>3. PICK status \in {"completed", "interrupted", "failed"} :
         /\ Apply(v, m) = SettleTurn(v, status, "server")
         /\ status = "completed" => ~v.aborted
  <2>1. CASE m.method = "error"
    BY <2>1 DEF Apply
  <2>2. CASE m.method = "turn/completed"
    <3>1. m.status \in {"completed", "interrupted", "failed"}
      BY <2>2 DEF Messages, Statuses
    <3>2. Apply(v, m) = CompleteTurn(v, m.status)
      BY <2>2 DEF Apply
    <3> QED
      BY <3>1, <3>2 DEF CompleteTurn
  <2> QED
    BY <2>1, <2>2
<1> QED
  BY <1>1, <1>2, <1>3, SettledIs DEF Onward

LEMMA RouteSpawn ==
    ASSUME NEW v, AtWork(v), NEW m \in Messages, m.method = "thread/started"
    PROVE  LET w == Route(v, m)
           IN  /\ Onward(v, w)
               /\ w.status = v.status /\ w.final = v.final /\ w.busy = v.busy
               /\ w.subs = v.subs /\ w.ids = v.ids /\ w.base = v.base /\ w.usage = v.usage
               /\ w.known = v.known \cup {m.thread}
<1>1. v \in TurnRecords /\ v.status = "running" /\ m.thread \in Threads
  BY DEF AtWork, Messages
<1>2. PICK k \in SUBSET Threads : k = v.known \cup {m.thread}
  BY <1>1 DEF TurnRecords
<1>3. PICK w : w = [v EXCEPT !.known = k]
  OBVIOUS
<1>4. Route(v, m) = w
  <2>1. Restarted(v, m) = v
    BY DEF Restarted
  <2>2. Apply(v, m) = w
    BY <1>2, <1>3 DEF Apply
  <2> QED
    BY <1>1, <2>1, <2>2 DEF Route
<1>5. w \in TurnRecords
  BY <1>1, <1>3 DEF TurnRecords
<1>6. /\ w.known = k
      /\ w.status = v.status /\ w.subs = v.subs /\ w.ids = v.ids /\ w.final = v.final
      /\ w.busy = v.busy /\ w.base = v.base /\ w.usage = v.usage /\ w.no = v.no
      /\ w.seen = v.seen /\ w.aborted = v.aborted /\ w.buffer = v.buffer
  BY <1>1, <1>3 DEF TurnRecords
<1> QED
  BY <1>2, <1>4, <1>5, <1>6 DEF Onward

(* A message about subagent thread j moves only that thread.               *)
Elsewhere(v, w, j) ==
    /\ Onward(v, w)
    /\ w.status = v.status /\ w.final = v.final /\ w.busy = v.busy /\ w.known = v.known
    /\ w.base = v.base /\ w.usage = v.usage
    /\ \A x \in Threads \ {j} : w.ids[x] = v.ids[x]
    /\ \A x \in MainTurns \ {j} : x \in w.subs <=> x \in v.subs

Moved(v, w, j, n, subs) ==
    w = [v EXCEPT !.ids[j] = n, !.subs = subs] /\ subs \ {j} = v.subs \ {j}

LEMMA ElsewhereIs ==
    ASSUME NEW v \in TurnRecords, NEW w, NEW j \in MainTurns, NEW n \in Nat,
           NEW subs \in SUBSET MainTurns, Moved(v, w, j, n, subs)
    PROVE  Elsewhere(v, w, j) /\ w.ids[j] = n /\ w.subs = subs
<1>1. PICK ids \in [Threads -> Nat] :
         /\ ids = [v.ids EXCEPT ![j] = n]
         /\ ids[j] = n /\ \A x \in Threads \ {j} : ids[x] = v.ids[x]
  <2>1. PICK f \in [Threads -> Nat] : f = v.ids
    BY DEF TurnRecords
  <2>2. j \in Threads
    BY DEF MainTurns, Threads
  <2>3. PICK g : g = [f EXCEPT ![j] = n]
    OBVIOUS
  <2>4. g \in [Threads -> Nat] /\ g[j] = n /\ \A x \in Threads \ {j} : g[x] = f[x]
    BY <2>2, <2>3
  <2> QED
    BY <2>1, <2>3, <2>4
<1>2. w = [v EXCEPT !.ids = ids, !.subs = subs] /\ subs \ {j} = v.subs \ {j}
  BY <1>1 DEF Moved
<1>3. w \in TurnRecords
  BY <1>2 DEF TurnRecords
<1>4. /\ w.ids = ids /\ w.subs = subs
      /\ w.status = v.status /\ w.final = v.final /\ w.known = v.known
      /\ w.busy = v.busy /\ w.base = v.base /\ w.usage = v.usage /\ w.no = v.no
      /\ w.seen = v.seen /\ w.aborted = v.aborted /\ w.buffer = v.buffer
  BY <1>2 DEF TurnRecords
<1>5. \A x \in MainTurns \ {j} : x \in subs <=> x \in v.subs
  BY <1>2
<1> QED
  BY <1>1, <1>3, <1>4, <1>5 DEF Elsewhere, Onward

LEMMA RestartedElsewhere ==
    ASSUME NEW v, AtWork(v), NEW m \in Messages, m.thread # Main
    PROVE  LET r == Restarted(v, m)
           IN  Elsewhere(v, r, m.thread) /\ AtWork(r) /\ r.subs = v.subs
<1>1. v \in TurnRecords /\ m.thread \in MainTurns /\ m.turn \in Nat
  BY DEF AtWork, Messages, Threads, MainTurns, Main
<1>2. CASE Restarted(v, m) = v
  BY <1>1, <1>2 DEF Elsewhere, Onward
<1>3. CASE Restarted(v, m) = [v EXCEPT !.ids[m.thread] = m.turn]
  <2>1. PICK subs \in SUBSET MainTurns : subs = v.subs
    BY <1>1 DEF TurnRecords
  <2>2. [v EXCEPT !.ids[m.thread] = m.turn] = [v EXCEPT !.ids[m.thread] = m.turn, !.subs = subs]
    BY <1>1, <2>1 DEF TurnRecords
  <2>3. PICK r : r = Restarted(v, m)
    OBVIOUS
  <2>4. Elsewhere(v, r, m.thread) /\ r.subs = subs
    <3>1. PICK j \in MainTurns : j = m.thread
      BY <1>1
    <3>2. PICK n \in Nat : n = m.turn
      BY <1>1
    <3>3. Moved(v, r, j, n, subs)
      BY <1>3, <2>1, <2>2, <2>3, <3>1, <3>2 DEF Moved
    <3>4. v \in TurnRecords /\ subs \in SUBSET MainTurns
      BY <1>1, <2>1
    <3>5. Elsewhere(v, r, j) /\ r.subs = subs
      BY <3>3, <3>4, ElsewhereIs
    <3> QED
      BY <3>1, <3>5
  <2>5. Main \in Threads \ {m.thread}
    BY <1>1, TurnBounds DEF Threads, MainTurns, Main
  <2>6. AtWork(r)
    BY <2>4, <2>5 DEF Elsewhere, Onward, AtWork
  <2> QED
    BY <2>1, <2>3, <2>4, <2>6
<1> QED
  BY <1>2, <1>3 DEF Restarted

LEMMA ElsewhereAgain ==
    ASSUME NEW v, NEW r, NEW w, NEW j, Elsewhere(v, r, j), Elsewhere(r, w, j)
    PROVE  Elsewhere(v, w, j)
BY DEF Elsewhere, Onward

LEMMA BeginElsewhere ==
    ASSUME NEW r \in TurnRecords, NEW m \in Messages, m.method = "turn/started"
    PROVE  LET w == Apply(r, m)
           IN  Elsewhere(r, w, m.thread) /\ w.ids[m.thread] = m.turn /\ m.thread \in w.subs
<1>1. PICK j \in MainTurns : j = m.thread /\ j # Main
  BY DEF Messages, Threads, MainTurns, Main
<1>2. PICK n \in Nat : n = m.turn
  BY DEF Messages
<1>3. PICK subs \in SUBSET MainTurns : subs = r.subs \cup {j}
  BY <1>1 DEF TurnRecords
<1>4. PICK w : w = Apply(r, m)
  OBVIOUS
<1>5. Moved(r, w, j, n, subs)
  <2>1. {m.thread} \ {Main} = {j}
    BY <1>1
  <2>2. w = [r EXCEPT !.ids[m.thread] = m.turn, !.subs = @ \cup ({m.thread} \ {Main})]
    BY <1>4 DEF Apply
  <2>3. w = [r EXCEPT !.ids[j] = n, !.subs = subs]
    BY <1>1, <1>2, <1>3, <2>1, <2>2
  <2> QED
    BY <1>3, <2>3 DEF Moved
<1>6. Elsewhere(r, w, j) /\ w.ids[j] = n /\ w.subs = subs
  BY <1>5, ElsewhereIs
<1> QED
  BY <1>1, <1>2, <1>3, <1>4, <1>6

LEMMA EndElsewhere ==
    ASSUME NEW r \in TurnRecords, NEW m \in Messages, m.method = "turn/completed",
           m.thread # Main
    PROVE  LET w == Apply(r, m)
           IN  Elsewhere(r, w, m.thread) /\ w.ids = r.ids /\ m.thread \notin w.subs
<1>1. PICK subs \in SUBSET MainTurns : subs = r.subs \ {m.thread}
  BY DEF TurnRecords
<1>2. PICK t : t = [r EXCEPT !.subs = subs]
  OBVIOUS
<1>3. t \in TurnRecords
  BY <1>2 DEF TurnRecords
<1>4. /\ t.ids = r.ids /\ t.subs = subs
      /\ t.status = r.status /\ t.final = r.final /\ t.known = r.known
      /\ t.busy = r.busy /\ t.base = r.base /\ t.usage = r.usage /\ t.no = r.no
      /\ t.seen = r.seen /\ t.aborted = r.aborted /\ t.buffer = r.buffer
  BY <1>2 DEF TurnRecords
<1>5. Apply(r, m) = ScheduleInferred(t)
  BY <1>1, <1>2 DEF Apply
<1>6. Alike(t, Apply(r, m))
  BY <1>3, <1>5, ScheduledAlike
<1> QED
  BY <1>1, <1>4, <1>6 DEF Elsewhere, Alike, Onward

LEMMA RouteChild ==
    ASSUME NEW v, AtWork(v), NEW m \in Messages, m.thread # Main,
           m.method \in {"turn/started", "turn/completed", "error"}
    PROVE  LET w == Route(v, m)
           IN  /\ Elsewhere(v, w, m.thread)
               /\ m.method = "turn/started" /\ m.thread \in v.known \ v.subs =>
                    w.ids[m.thread] = m.turn /\ m.thread \in w.subs
               /\ m.method = "turn/completed" /\ m.thread \in v.known /\ v.ids[m.thread] = m.turn =>
                    w.ids = v.ids /\ m.thread \notin w.subs
               /\ m.method = "error" => w = v
<1>1. v \in TurnRecords /\ v.status = "running" /\ m.thread \in Threads \ {Main}
  BY DEF AtWork, Messages
<1>2. PICK r : r = Restarted(v, m)
  OBVIOUS
<1>3. Elsewhere(v, r, m.thread) /\ AtWork(r) /\ r.subs = v.subs
  BY <1>2, RestartedElsewhere
<1>4. Route(v, m) = IF BelongsToTurn(r, m) THEN Apply(r, m) ELSE r
  BY <1>1, <1>2 DEF Route
<1>5. m.method # "turn/started" => r = v
  BY <1>2 DEF Restarted
<1>6. r \in TurnRecords /\ r.known = v.known
  BY <1>3 DEF Elsewhere, Onward
<1>7. CASE m.method = "turn/started"
  <2>1. BelongsToTurn(r, m) => /\ Elsewhere(r, Apply(r, m), m.thread)
                               /\ Apply(r, m).ids[m.thread] = m.turn
                               /\ m.thread \in Apply(r, m).subs
    BY <1>6, <1>7, BeginElsewhere
  <2>2. m.thread \in v.known \ v.subs => BelongsToTurn(r, m)
    <3>1. SUFFICES ASSUME m.thread \in v.known \ v.subs PROVE BelongsToTurn(r, m)
      OBVIOUS
    <3>2. r = [v EXCEPT !.ids[m.thread] = m.turn]
      BY <1>1, <1>2, <1>7, <3>1 DEF Restarted
    <3>3. r.ids = [v.ids EXCEPT ![m.thread] = m.turn]
      BY <1>1, <3>2 DEF TurnRecords
    <3>4. r.ids[m.thread] = m.turn
      <4>1. v.ids \in [Threads -> Nat]
        BY <1>1 DEF TurnRecords
      <4> QED
        BY <1>1, <3>3, <4>1
    <3> QED
      BY <1>6, <3>1, <3>4 DEF BelongsToTurn
  <2>3. Elsewhere(v, Route(v, m), m.thread)
    BY <1>3, <1>4, <2>1, ElsewhereAgain
  <2> QED
    BY <1>4, <1>7, <2>1, <2>2, <2>3
<1>8. CASE m.method = "turn/completed"
  <2>1. r = v
    BY <1>5, <1>8
  <2>2. /\ Elsewhere(r, Apply(r, m), m.thread)
        /\ Apply(r, m).ids = r.ids /\ m.thread \notin Apply(r, m).subs
    BY <1>1, <1>6, <1>8, EndElsewhere
  <2>3. m.thread \in v.known /\ v.ids[m.thread] = m.turn => BelongsToTurn(r, m)
    BY <2>1 DEF BelongsToTurn
  <2> QED
    BY <1>3, <1>4, <1>8, <2>1, <2>2, <2>3
<1>9. CASE m.method = "error"
  <2>1. Apply(r, m) = r
    BY <1>1, <1>9 DEF Apply
  <2> QED
    BY <1>3, <1>4, <1>5, <1>9, <2>1
<1> QED
  BY <1>7, <1>8, <1>9
-----------------------------------------------------------------------------
(* Lemmas: what the server says, and what it does as it says it.           *)
SaysItem(m) ==
    /\ m.method \in {"item/started", "item/completed"}
    /\ work' = IF m.method = "item/started" THEN work \cup {<<m.item, m.turn>>}
               ELSE work \ {<<m.item, m.turn>>}
    /\ kids' = IF m.item = "collab" /\ kids[m.turn] = NoUsage
               THEN [kids EXCEPT ![m.turn] = 0] ELSE kids
    /\ m.turn \in open
    /\ UNCHANGED <<open, answered, spent>>
SaysAnswer(m) ==
    /\ m.method = "answer"
    /\ m.turn \in open
    /\ answered' = answered \cup {m.turn}
    /\ UNCHANGED <<open, work, kids, spent>>
SaysUsage(m) ==
    /\ m.method = "usage"
    /\ spent < MaxTokens
    /\ spent' = spent + 1 /\ m.total = spent + 1 /\ m.last = 1
    /\ UNCHANGED <<open, work, kids, answered>>
SaysSpawn(m) ==
    /\ m.method = "thread/started"
    /\ m.thread \in open /\ kids[m.thread] = NoUsage
    /\ kids' = [kids EXCEPT ![m.thread] = 0]
    /\ UNCHANGED <<open, work, answered, spent>>
SaysBegin(m) ==
    /\ m.method = "turn/started"
    /\ m.thread \in MainTurns /\ kids[m.thread] # NoUsage
    /\ <<"subagent", m.thread>> \notin work
    /\ m.turn = kids[m.thread] + 1
    /\ kids' = [kids EXCEPT ![m.thread] = m.turn]
    /\ work' = work \cup {<<"subagent", m.thread>>}
    /\ UNCHANGED <<open, answered, spent>>
SaysEnd(m) ==
    /\ m.method = "turn/completed"
    /\ m.thread \in MainTurns /\ kids[m.thread] # NoUsage
    /\ <<"subagent", m.thread>> \in work
    /\ m.turn = kids[m.thread]
    /\ work' = work \ {<<"subagent", m.thread>>}
    /\ UNCHANGED <<open, kids, answered, spent>>
SaysError(m) ==
    /\ m.method = "error"
    /\ m.thread \in MainTurns
    /\ UNCHANGED <<open, work, kids, answered, spent>>
SaysOver(m) ==
    /\ m.method \in {"error", "turn/completed"}
    /\ m.thread = Main
    /\ m.turn \in open
    /\ open' = open \ {m.turn}
    /\ UNCHANGED <<work, kids, answered, spent>>

Says(m) ==
    /\ m \in Messages
    /\ \/ SaysItem(m) \/ SaysAnswer(m) \/ SaysUsage(m) \/ SaysSpawn(m)
       \/ SaysBegin(m) \/ SaysEnd(m) \/ SaysError(m) \/ SaysOver(m)
Room(m) ==
    /\ chatter' \in 0..MaxChatter
    /\ Len(turn.buffer) < MaxBuffered \/ SaysOver(m)

(* A message has the type of its method.                                   *)
Worded(m, method, thread, id) ==
    m \in Messages /\ m.method = method /\ m.thread = thread /\ m.turn = id

LEMMA MessageIs ==
    ASSUME NEW method \in NoteMethods \ {"item/started", "item/completed"},
           NEW thread \in Threads, NEW id \in Nat,
           method = "turn/started" => thread # Main,
           method \in {"answer", "usage"} => thread = Main,
           method = "turn/completed" => thread # Main
    PROVE  Worded(Message(method, thread, id), method, thread, id)
<1>1. PICK m : m = Message(method, thread, id)
  OBVIOUS
<1>2. /\ m.method = method /\ m.thread = thread /\ m.turn = id /\ m.item = "none"
      /\ m.status = "none" /\ m.total = 0 /\ m.last = 0
  BY <1>1 DEF Message
<1>3. m \in [method : NoteMethods, thread : Threads, turn : Nat, item : Items \cup {"none"},
            status : Statuses \cup {"none"}, total : Nat, last : Nat]
  BY <1>1 DEF Message
<1> QED
  BY <1>1, <1>2, <1>3 DEF Worded, Messages

LEMMA ItemMessageIs ==
    ASSUME NEW method \in {"item/started", "item/completed"}, NEW k \in MainTurns,
           NEW item \in Items
    PROVE  LET m == [Message(method, Main, k) EXCEPT !.item = item]
           IN  Worded(m, method, Main, k) /\ m.item = item
<1>1. PICK m : m = [Message(method, Main, k) EXCEPT !.item = item]
  OBVIOUS
<1>2. /\ m.method = method /\ m.thread = Main /\ m.turn = k /\ m.item = item
      /\ m.status = "none" /\ m.total = 0 /\ m.last = 0
  BY <1>1 DEF Message
<1>3. m \in [method : NoteMethods, thread : Threads, turn : Nat, item : Items \cup {"none"},
            status : Statuses \cup {"none"}, total : Nat, last : Nat]
  BY <1>1, TurnBounds DEF Message, NoteMethods, Threads, Main, MainTurns
<1> QED
  BY <1>1, <1>2, <1>3 DEF Worded, Messages

LEMMA UsageMessageIs ==
    ASSUME NEW k \in MainTurns, NEW n \in Nat, n >= 1
    PROVE  LET m == [Message("usage", Main, k) EXCEPT !.total = n, !.last = 1]
           IN  Worded(m, "usage", Main, k) /\ m.total = n /\ m.last = 1
<1>1. PICK m : m = [Message("usage", Main, k) EXCEPT !.total = n, !.last = 1]
  OBVIOUS
<1>2. /\ m.method = "usage" /\ m.thread = Main /\ m.turn = k /\ m.item = "none"
      /\ m.status = "none" /\ m.total = n /\ m.last = 1
  BY <1>1 DEF Message
<1>3. m \in [method : NoteMethods, thread : Threads, turn : Nat, item : Items \cup {"none"},
            status : Statuses \cup {"none"}, total : Nat, last : Nat]
  <2>1. "usage" \in NoteMethods /\ Main \in Threads /\ k \in Nat
    BY TurnBounds DEF NoteMethods, Threads, Main, MainTurns
  <2>2. m = [method |-> "usage", thread |-> Main, turn |-> k, item |-> "none",
             status |-> "none", total |-> n, last |-> 1]
    BY <1>1 DEF Message
  <2> QED
    BY <2>1, <2>2
<1> QED
  BY <1>1, <1>2, <1>3 DEF Worded, Messages

LEMMA OverMessageIs ==
    ASSUME NEW k \in MainTurns, NEW status \in Statuses
    PROVE  LET m == [Message("turn/completed", Main, k) EXCEPT !.status = status]
           IN  Worded(m, "turn/completed", Main, k)
<1>1. PICK m : m = [Message("turn/completed", Main, k) EXCEPT !.status = status]
  OBVIOUS
<1>2. /\ m.method = "turn/completed" /\ m.thread = Main /\ m.turn = k /\ m.item = "none"
      /\ m.status = status /\ m.total = 0 /\ m.last = 0
  BY <1>1 DEF Message
<1>3. m \in [method : NoteMethods, thread : Threads, turn : Nat, item : Items \cup {"none"},
            status : Statuses \cup {"none"}, total : Nat, last : Nat]
  BY <1>1, TurnBounds DEF Message, NoteMethods, Threads, Main, MainTurns
<1>4. status # "none"
  BY DEF Statuses
<1> QED
  BY <1>1, <1>2, <1>3, <1>4 DEF Worded, Messages
Said(m) == Says(m) /\ Room(m) /\ Notify(m)

LEMMA ServerSays ==
    ASSUME CodexTypes, CallTypeOK, Server
    PROVE  \E m : Said(m)
<1>0. /\ \A k \in MainTurns : k \in Threads /\ k \in Nat /\ k # Main
      /\ Main \in Threads /\ 0 \in Nat
      /\ kids \in [MainTurns -> Nat \cup {NoUsage}]
      /\ spent \in Nat /\ chatter \in Nat
  BY TurnBounds, ExecutorAssumption DEF MainTurns, Threads, Main, CodexTypes, CallTypeOK
<1>a. Chat => chatter' \in 0..MaxChatter /\ Len(turn.buffer) < MaxBuffered
  BY TurnBounds DEF Chat, CodexTypes
<1>b. UNCHANGED chatter => chatter' \in 0..MaxChatter
  BY DEF CodexTypes
<1>1. PICK k \in MainTurns :
         \/ ServerItem(k) \/ ServerAnswers(k) \/ ServerMeters(k)
         \/ ServerSpawns(k) \/ ServerSubagent(k) \/ ServerCompletes(k)
  BY DEF Server
<1>2. CASE ServerItem(k)
  <2>1. PICK item \in Items :
          /\ k \in open
          /\ Chat
          /\ IF <<item, k>> \in work
             THEN /\ work' = work \ {<<item, k>>}
                  /\ Notify([Message("item/completed", Main, k) EXCEPT !.item = item])
             ELSE /\ work' = work \cup {<<item, k>>}
                  /\ Notify([Message("item/started", Main, k) EXCEPT !.item = item])
          /\ kids' = IF item = "collab" /\ kids[k] = NoUsage THEN [kids EXCEPT ![k] = 0]
                     ELSE kids
          /\ UNCHANGED <<open, answered, spent>>
    BY <1>2 DEF ServerItem
  <2>2. PICK method \in {"item/started", "item/completed"} :
          /\ work' = IF method = "item/started" THEN work \cup {<<item, k>>}
                     ELSE work \ {<<item, k>>}
          /\ Notify([Message(method, Main, k) EXCEPT !.item = item])
    BY <2>1
  <2>3. PICK m : m = [Message(method, Main, k) EXCEPT !.item = item]
    OBVIOUS
  <2>4. Worded(m, method, Main, k) /\ m.item = item
    BY <2>3, ItemMessageIs
  <2>5. SaysItem(m) /\ m \in Messages
    BY <2>1, <2>2, <2>4 DEF SaysItem, Worded
  <2> QED
    BY <1>a, <2>1, <2>2, <2>3, <2>5 DEF Said, Says, Room
<1>3. CASE ServerAnswers(k)
  <2>1. PICK m : m = Message("answer", Main, k)
    OBVIOUS
  <2>2. Worded(m, "answer", Main, k)
    BY <1>0, <2>1, MessageIs DEF NoteMethods
  <2>3. SaysAnswer(m) /\ m \in Messages
    BY <1>3, <2>2 DEF SaysAnswer, Worded, ServerAnswers
  <2> QED
    BY <1>a, <1>3, <2>1, <2>3 DEF Said, Says, Room, ServerAnswers
<1>4. CASE ServerMeters(k)
  <2>1. PICK n \in Nat : n = spent' /\ n = spent + 1
    BY <1>0, <1>4 DEF ServerMeters
  <2>2. PICK m : m = [Message("usage", Main, k) EXCEPT !.total = n, !.last = 1]
    OBVIOUS
  <2>3. Notify(m)
    BY <1>4, <2>1, <2>2 DEF ServerMeters
  <2>4. Worded(m, "usage", Main, k) /\ m.total = n /\ m.last = 1
    <3>1. n >= 1
      BY <1>0, <2>1
    <3> QED
      BY <2>2, <3>1, UsageMessageIs
  <2>5. SaysUsage(m) /\ m \in Messages
    BY <1>4, <2>1, <2>4 DEF SaysUsage, Worded, ServerMeters
  <2> QED
    BY <1>a, <1>4, <2>3, <2>5 DEF Said, Says, Room, ServerMeters
<1>5. CASE ServerSpawns(k)
  <2>1. PICK m : m = Message("thread/started", k, 0)
    OBVIOUS
  <2>2. Worded(m, "thread/started", k, 0)
    BY <1>0, <2>1, MessageIs DEF NoteMethods
  <2>3. SaysSpawn(m) /\ m \in Messages
    BY <1>5, <2>2 DEF SaysSpawn, Worded, ServerSpawns
  <2> QED
    BY <1>a, <1>5, <2>1, <2>3 DEF Said, Says, Room, ServerSpawns
<1>6. CASE ServerSubagent(k)
  <2>0. PICK n \in Nat : n = kids[k]
    BY <1>0, <1>6 DEF ServerSubagent
  <2>1. CASE /\ Chat
             /\ <<"subagent", k>> \notin work
             /\ kids[k] < MaxChildTurns
             /\ kids' = [kids EXCEPT ![k] = @ + 1]
             /\ work' = work \cup {<<"subagent", k>>}
             /\ Notify(Message("turn/started", k, kids'[k]))
    <3>1. kids'[k] = n + 1 /\ kids' = [kids EXCEPT ![k] = n + 1] /\ n + 1 \in Nat
      BY <1>0, <2>0, <2>1
    <3>2. PICK m : m = Message("turn/started", k, n + 1)
      OBVIOUS
    <3>3. Worded(m, "turn/started", k, n + 1)
      BY <1>0, <3>1, <3>2, MessageIs DEF NoteMethods
    <3>4. SaysBegin(m) /\ m \in Messages
      BY <1>6, <2>0, <2>1, <3>1, <3>3 DEF SaysBegin, Worded, ServerSubagent
    <3>5. Notify(m)
      BY <2>1, <3>1, <3>2
    <3> QED
      BY <1>a, <2>1, <3>4, <3>5 DEF Said, Says, Room
  <2>2. CASE /\ Chat
             /\ <<"subagent", k>> \in work
             /\ work' = work \ {<<"subagent", k>>}
             /\ Notify(Message("turn/completed", k, kids[k]))
             /\ UNCHANGED kids
    <3>1. PICK m : m = Message("turn/completed", k, n)
      OBVIOUS
    <3>2. Worded(m, "turn/completed", k, n)
      BY <1>0, <3>1, MessageIs DEF NoteMethods
    <3>3. SaysEnd(m) /\ m \in Messages
      BY <1>6, <2>0, <2>2, <3>2 DEF SaysEnd, Worded, ServerSubagent
    <3>4. Notify(m)
      BY <2>0, <2>2, <3>1
    <3> QED
      BY <1>a, <2>2, <3>3, <3>4 DEF Said, Says, Room
  <2>3. CASE /\ Len(turn.buffer) < MaxBuffered
             /\ Notify(Message("error", k, kids[k]))
             /\ UNCHANGED <<kids, work, chatter>>
    <3>1. PICK m : m = Message("error", k, n)
      OBVIOUS
    <3>2. Worded(m, "error", k, n)
      BY <1>0, <3>1, MessageIs DEF NoteMethods
    <3>3. SaysError(m) /\ m \in Messages
      BY <1>6, <2>3, <3>2 DEF SaysError, Worded, ServerSubagent
    <3>4. Notify(m)
      BY <2>0, <2>3, <3>1
    <3> QED
      BY <1>b, <2>3, <3>3, <3>4 DEF Said, Says, Room
  <2> QED
    BY <1>6, <2>1, <2>2, <2>3 DEF ServerSubagent
<1>7. CASE ServerCompletes(k)
  <2>1. PICK m : Notify(m) /\ m \in Messages /\ m.thread = Main /\ m.turn = k
                 /\ m.method \in {"error", "turn/completed"}
    <3>1. CASE Notify(Message("error", Main, k))
      <4>1. PICK m : m = Message("error", Main, k)
        OBVIOUS
      <4>2. Worded(m, "error", Main, k)
        BY <1>0, <4>1, MessageIs DEF NoteMethods
      <4> QED
        BY <3>1, <4>1, <4>2 DEF Worded
    <3>2. CASE \E status \in {"completed", "interrupted", "failed"} :
                 Notify([Message("turn/completed", Main, k) EXCEPT !.status = status])
      <4>1. PICK status \in Statuses :
               Notify([Message("turn/completed", Main, k) EXCEPT !.status = status])
        BY <3>2 DEF Statuses
      <4>2. PICK m : m = [Message("turn/completed", Main, k) EXCEPT !.status = status]
        OBVIOUS
      <4>3. Worded(m, "turn/completed", Main, k)
        BY <4>2, OverMessageIs
      <4> QED
        BY <4>1, <4>2, <4>3 DEF Worded
    <3> QED
      BY <1>7, <3>1, <3>2 DEF ServerCompletes
  <2>2. SaysOver(m)
    BY <1>7, <2>1 DEF SaysOver, ServerCompletes
  <2> QED
    BY <1>b, <1>7, <2>1, <2>2 DEF Said, Says, Room, ServerCompletes
<1> QED
  BY <1>1, <1>2, <1>3, <1>4, <1>5, <1>6, <1>7
-----------------------------------------------------------------------------
(* Lemmas: a turn that knows what the server does goes on knowing it,      *)
(* whatever the server says.                                               *)
Calm(v, w) ==
    /\ Onward(v, w) /\ w.status = v.status /\ w.base = v.base /\ w.usage = v.usage

LEMMA FollowsItem ==
    ASSUME CodexTypes, NEW v, AtWork(v), Follows(v), NEW m \in Messages, SaysItem(m)
    PROVE  Calm(v, Route(v, m)) /\ Follows(Route(v, m))'
<1>1. /\ v \in TurnRecords /\ v.no \in MainTurns /\ v.no \in Nat
      /\ m.thread = Main /\ m.turn \in MainTurns /\ m.item \in Items
      /\ m.item # "subagent"
      /\ kids \in [MainTurns -> Nat \cup {NoUsage}]
  BY TurnBounds DEF AtWork, Messages, SaysItem, CodexTypes, MainTurns
<1>2. PICK w : w = Route(v, m)
  OBVIOUS
<1>3. CASE m.turn = v.no
  <2>1. /\ Onward(v, w)
        /\ w.status = v.status /\ w.final = v.final /\ w.subs = v.subs /\ w.ids = v.ids
        /\ w.base = v.base /\ w.usage = v.usage
        /\ w.known = v.known \cup Receivers(m)
        /\ w.busy = IF m.method = "item/started" THEN v.busy \cup {<<m.item, m.turn>>}
                    ELSE v.busy \ {<<m.item, m.turn>>}
    BY <1>2, <1>3, RouteItem DEF SaysItem
  <2>2. w.no = v.no
    BY <2>1 DEF Onward
  <2>3. \A item \in Items : <<item, w.no>> \in work' => <<item, w.no>> \in w.busy
    <3> TAKE item \in Items
    <3>1. <<item, v.no>> \in work => <<item, v.no>> \in v.busy
      BY DEF Follows
    <3>2. CASE m.method = "item/started"
      BY <2>1, <2>2, <3>1, <3>2 DEF SaysItem
    <3>3. CASE m.method = "item/completed"
      BY <2>1, <2>2, <3>1, <3>3 DEF SaysItem
    <3> QED
      BY <3>2, <3>3 DEF SaysItem
  <2>4. <<"subagent", w.no>> \in work' <=> w.no \in w.subs
    BY <1>1, <2>1, <2>2 DEF SaysItem, Follows
  <2>5. /\ kids'[w.no] = NoUsage => w.ids[w.no] = 0 /\ w.no \notin w.subs
        /\ kids'[w.no] # NoUsage => w.ids[w.no] = kids'[w.no] /\ w.no \in w.known
    <3>1. CASE m.item = "collab" /\ kids[m.turn] = NoUsage
      <4>1. kids'[w.no] = 0 /\ w.no \in w.known
        BY <1>1, <1>3, <2>1, <2>2, <3>1 DEF SaysItem, Receivers
      <4> QED
        BY <1>3, <2>1, <2>2, <3>1, <4>1, ExecutorAssumption DEF Follows
    <3>2. CASE ~(m.item = "collab" /\ kids[m.turn] = NoUsage)
      <4>1. kids' = kids
        BY <3>2 DEF SaysItem
      <4> QED
        BY <2>1, <2>2, <4>1 DEF Follows
    <3> QED
      BY <3>1, <3>2
  <2>6. /\ w.ids[Main] = w.no /\ Main \in w.known
        /\ w.final => w.no \in answered'
    BY <2>1, <2>2 DEF Follows, SaysItem
  <2> QED
    BY <1>2, <2>1, <2>3, <2>4, <2>5, <2>6 DEF Follows, Calm
<1>4. CASE m.turn # v.no
  <2>1. w = v
    BY <1>1, <1>2, <1>4, MainRoute DEF SaysItem
  <2>2. /\ \A kind \in Kinds : <<kind, v.no>> \in work' <=> <<kind, v.no>> \in work
        /\ kids'[v.no] = kids[v.no]
        /\ answered' = answered
    BY <1>1, <1>4 DEF SaysItem
  <2>3. "subagent" \in Kinds /\ Items \subseteq Kinds
    BY DEF Kinds
  <2>4. Follows(v)'
    BY <2>2, <2>3 DEF Follows
  <2> QED
    BY <1>1, <1>2, <2>1, <2>4 DEF Calm, Onward
<1> QED
  BY <1>3, <1>4

LEMMA FollowsAnswer ==
    ASSUME CodexTypes, NEW v, AtWork(v), Follows(v), NEW m \in Messages, SaysAnswer(m)
    PROVE  Calm(v, Route(v, m)) /\ Follows(Route(v, m))'
<1>1. v \in TurnRecords /\ m.thread = Main
  BY DEF AtWork, Messages, SaysAnswer
<1>2. PICK w : w = Route(v, m)
  OBVIOUS
<1>3. CASE m.turn = v.no
  <2>1. /\ Onward(v, w)
        /\ w.status = v.status /\ w.busy = v.busy /\ w.subs = v.subs /\ w.known = v.known
        /\ w.ids = v.ids /\ w.base = v.base /\ w.usage = v.usage
    BY <1>2, <1>3, RouteAnswer DEF SaysAnswer
  <2>2. w.no = v.no
    BY <2>1 DEF Onward
  <2>3. Follows(w)'
    BY <1>3, <2>1, <2>2 DEF Follows, SaysAnswer
  <2> QED
    BY <1>2, <2>1, <2>3 DEF Calm
<1>4. CASE m.turn # v.no
  <2>1. w = v
    BY <1>1, <1>2, <1>4, MainRoute DEF SaysAnswer
  <2>2. Follows(v)'
    BY DEF Follows, SaysAnswer
  <2> QED
    BY <1>1, <1>2, <2>1, <2>2 DEF Calm, Onward
<1> QED
  BY <1>3, <1>4

LEMMA FollowsSpawn ==
    ASSUME CodexTypes, NEW v, AtWork(v), Follows(v), NEW m \in Messages, SaysSpawn(m)
    PROVE  Calm(v, Route(v, m)) /\ Follows(Route(v, m))'
<1>1. /\ v \in TurnRecords /\ v.no \in MainTurns /\ m.thread \in MainTurns
      /\ kids \in [MainTurns -> Nat \cup {NoUsage}]
  BY DEF AtWork, SaysSpawn, CodexTypes
<1>2. PICK w : w = Route(v, m)
  OBVIOUS
<1>3. /\ Onward(v, w)
      /\ w.status = v.status /\ w.final = v.final /\ w.busy = v.busy
      /\ w.subs = v.subs /\ w.ids = v.ids /\ w.base = v.base /\ w.usage = v.usage
      /\ w.known = v.known \cup {m.thread}
  BY <1>2, RouteSpawn DEF SaysSpawn
<1>4. w.no = v.no
  BY <1>3 DEF Onward
<1>5. /\ kids'[w.no] = NoUsage => w.ids[w.no] = 0 /\ w.no \notin w.subs
      /\ kids'[w.no] # NoUsage => w.ids[w.no] = kids'[w.no] /\ w.no \in w.known
  <2>1. CASE m.thread = v.no
    <3>1. kids'[w.no] = 0 /\ w.no \in w.known
      BY <1>1, <1>3, <1>4, <2>1 DEF SaysSpawn
    <3> QED
      BY <1>3, <1>4, <2>1, <3>1, ExecutorAssumption DEF Follows, SaysSpawn
  <2>2. CASE m.thread # v.no
    <3>1. kids'[v.no] = kids[v.no]
      BY <1>1, <2>2 DEF SaysSpawn
    <3> QED
      BY <1>3, <1>4, <3>1 DEF Follows
  <2> QED
    BY <2>1, <2>2
<1>6. Follows(w)'
  BY <1>3, <1>4, <1>5 DEF Follows, SaysSpawn
<1> QED
  BY <1>2, <1>3, <1>6 DEF Calm

LEMMA FollowsChild ==
    ASSUME CodexTypes, NEW v, AtWork(v), Follows(v), NEW m \in Messages,
           SaysBegin(m) \/ SaysEnd(m) \/ SaysError(m)
    PROVE  Calm(v, Route(v, m)) /\ Follows(Route(v, m))'
<1>1. /\ v \in TurnRecords /\ v.no \in MainTurns /\ m.thread \in MainTurns
      /\ m.thread # Main /\ v.no \in Threads /\ Main \in Threads
      /\ kids \in [MainTurns -> Nat \cup {NoUsage}]
  BY TurnBounds DEF AtWork, SaysBegin, SaysEnd, SaysError, CodexTypes, MainTurns, Main, Threads
<1>2. PICK w : w = Route(v, m)
  OBVIOUS
<1>3. /\ Elsewhere(v, w, m.thread)
      /\ m.method = "turn/started" /\ m.thread \in v.known \ v.subs =>
           w.ids[m.thread] = m.turn /\ m.thread \in w.subs
      /\ m.method = "turn/completed" /\ m.thread \in v.known /\ v.ids[m.thread] = m.turn =>
           w.ids = v.ids /\ m.thread \notin w.subs
      /\ m.method = "error" => w = v
  BY <1>1, <1>2, RouteChild DEF SaysBegin, SaysEnd, SaysError
<1>4. /\ Calm(v, w) /\ w.no = v.no /\ w.known = v.known /\ w.ids[Main] = w.no
      /\ w.final = v.final /\ w.busy = v.busy
  BY <1>1, <1>3 DEF Elsewhere, Onward, Calm, Follows
<1>5. /\ \A item \in Items : <<item, v.no>> \in work' <=> <<item, v.no>> \in work
      /\ answered' = answered
  BY TurnBounds DEF SaysBegin, SaysEnd, SaysError
<1>6. /\ <<"subagent", w.no>> \in work' <=> w.no \in w.subs
      /\ kids'[w.no] = NoUsage => w.ids[w.no] = 0 /\ w.no \notin w.subs
      /\ kids'[w.no] # NoUsage => w.ids[w.no] = kids'[w.no] /\ w.no \in w.known
  <2>1. CASE m.thread = v.no /\ SaysBegin(m)
    <3>1. m.thread \in v.known \ v.subs
      BY <2>1 DEF SaysBegin, Follows
    <3>2. w.ids[m.thread] = m.turn /\ m.thread \in w.subs
      BY <1>3, <2>1, <3>1 DEF SaysBegin
    <3>3. kids'[m.thread] = m.turn /\ m.turn # NoUsage
      BY <1>1, <2>1, ExecutorAssumption DEF SaysBegin, Messages
    <3> QED
      BY <1>4, <2>1, <3>1, <3>2, <3>3 DEF SaysBegin
  <2>2. CASE m.thread = v.no /\ SaysEnd(m)
    <3>1. m.thread \in v.known /\ v.ids[m.thread] = m.turn
      BY <2>2 DEF SaysEnd, Follows
    <3>2. w.ids = v.ids /\ m.thread \notin w.subs
      BY <1>3, <2>2, <3>1 DEF SaysEnd
    <3>3. kids'[w.no] = m.turn
      BY <1>4, <2>2 DEF SaysEnd
    <3> QED
      BY <1>4, <2>2, <3>1, <3>2, <3>3 DEF SaysEnd
  <2>3. CASE SaysError(m)
    BY <1>3, <1>4, <2>3 DEF SaysError, Follows
  <2>4. CASE m.thread # v.no
    <3>1. w.ids[v.no] = v.ids[v.no] /\ (v.no \in w.subs <=> v.no \in v.subs)
      BY <1>1, <1>3, <2>4 DEF Elsewhere
    <3>2. /\ kids'[v.no] = kids[v.no]
          /\ <<"subagent", v.no>> \in work' <=> <<"subagent", v.no>> \in work
      BY <1>1, <2>4 DEF SaysBegin, SaysEnd, SaysError
    <3> QED
      BY <1>4, <3>1, <3>2 DEF Follows
  <2> QED
    BY <2>1, <2>2, <2>3, <2>4
<1>7. Follows(w)'
  BY <1>4, <1>5, <1>6 DEF Follows
<1> QED
  BY <1>2, <1>4, <1>7

LEMMA MetersUsage ==
    ASSUME NEW v, AtWork(v), Follows(v), Metered(v), NEW m \in Messages, SaysUsage(m),
           spent \in Nat, total \in Nat, total' = total
    PROVE  LET w == Route(v, m)
           IN  Onward(v, w) /\ w.status = v.status /\ Follows(w)' /\ Metered(w)'
               /\ v.usage <= w.usage
<1>1. /\ v \in TurnRecords /\ m.thread = Main /\ m.total = spent + 1 /\ m.last = 1
      /\ spent' = spent + 1
      /\ v.base \in Nat \cup {NoUsage} /\ v.usage \in Nat
  BY DEF AtWork, Messages, SaysUsage, TurnRecords
<1>2. PICK w : w = Route(v, m)
  OBVIOUS
<1>3. CASE m.turn = v.no
  <2>1. v.base # NoUsage => v.base <= m.total
    BY <1>1 DEF Metered
  <2>2. /\ Onward(v, w)
        /\ w.status = v.status /\ w.final = v.final /\ w.busy = v.busy
        /\ w.subs = v.subs /\ w.known = v.known /\ w.ids = v.ids
        /\ w.base = Baseline(v, m) /\ w.base \in Nat /\ w.usage = m.total - w.base
    BY <1>2, <1>3, <2>1, RouteUsage DEF SaysUsage
  <2>3. w.no = v.no
    BY <2>2 DEF Onward
  <2>4. Follows(w)'
    BY <2>2, <2>3 DEF Follows, SaysUsage
  <2>5. w.base # NoUsage
    BY <2>2, ExecutorAssumption
  <2>6. CASE v.base = NoUsage
    <3>1. w.base = spent /\ w.usage = 1 /\ v.usage = 0 /\ total <= spent
      <4>1. Baseline(v, m) = m.total - m.last
        BY <2>6 DEF Baseline
      <4>2. w.base = spent
        BY <1>1, <2>2, <4>1
      <4>3. w.usage = 1
        BY <1>1, <2>2, <4>2
      <4>4. v.usage = 0 /\ total + v.usage <= spent
        BY <2>6 DEF Metered
      <4> QED
        BY <4>2, <4>3, <4>4
    <3> QED
      BY <1>1, <1>2, <2>2, <2>4, <2>5, <3>1 DEF Metered
  <2>7. CASE v.base # NoUsage
    <3>1. w.base = v.base /\ w.usage = spent + 1 - v.base /\ v.base \in Nat
          /\ v.base >= total /\ v.base + v.usage <= spent
      BY <1>1, <2>2, <2>7 DEF Baseline, Metered
    <3>2. /\ v.usage <= spent + 1 - v.base /\ total + (spent + 1 - v.base) <= spent + 1
          /\ v.base + (spent + 1 - v.base) <= spent + 1
      BY <1>1, <3>1
    <3>3. Metered(w)'
      BY <1>1, <2>5, <3>1, <3>2 DEF Metered
    <3> QED
      BY <1>2, <2>2, <2>4, <3>1, <3>2, <3>3
  <2> QED
    BY <2>6, <2>7
<1>4. CASE m.turn # v.no
  <2>1. w = v
    BY <1>1, <1>2, <1>4, MainRoute DEF SaysUsage
  <2>2. Follows(v)'
    BY DEF Follows, SaysUsage
  <2>3. Metered(v)'
    BY <1>1 DEF Metered
  <2> QED
    BY <1>1, <1>2, <2>1, <2>2, <2>3 DEF Onward
<1> QED
  BY <1>3, <1>4

LEMMA EndsOver ==
    ASSUME CodexTypes, NEW v, AtWork(v), Follows(v), NEW m \in Messages, SaysOver(m)
    PROVE  LET w == Route(v, m)
           IN  /\ Onward(v, w) /\ w.base = v.base /\ w.usage = v.usage
               /\ w.status = "running" => Follows(w)'
               /\ w.status = "completed" => ~v.aborted /\ w.no \notin open'
<1>1. v \in TurnRecords /\ m.thread = Main /\ v.status = "running"
  BY DEF AtWork, Messages, SaysOver
<1>2. PICK w : w = Route(v, m)
  OBVIOUS
<1>3. CASE m.turn = v.no
  <2>1. /\ Onward(v, w)
        /\ w.status # "running" /\ (w.status = "completed" => ~v.aborted)
        /\ w.base = v.base /\ w.usage = v.usage
    BY <1>1, <1>2, <1>3, RouteEnd DEF SaysOver
  <2> QED
    BY <1>2, <1>3, <2>1 DEF Onward, SaysOver
<1>4. CASE m.turn # v.no
  <2>1. w = v
    BY <1>1, <1>2, <1>4, MainRoute DEF SaysOver
  <2>2. Follows(v)'
    BY DEF Follows, SaysOver
  <2> QED
    BY <1>1, <1>2, <2>1, <2>2 DEF Onward
<1> QED
  BY <1>3, <1>4

(* Whatever is said, a turn that sees goes on seeing.                      *)
LEMMA Heard ==
    ASSUME CodexTypes, spent \in Nat, total \in Nat, total' = total,
           NEW v, NEW b, Sees(v, b), v.no \in MainTurns, turn'.no = turn.no,
           NEW m, Says(m)
    PROVE  LET w == Route(v, m) IN Sees(w, b)' /\ v.usage <= w.usage
<1>1. /\ v \in TurnRecords /\ v.no = turn.no /\ v.seen /\ v.aborted = b /\ v.buffer = <<>>
      /\ m \in Messages /\ v.usage \in Nat /\ v.base \in Nat \cup {NoUsage}
  BY DEF Sees, Says, TurnRecords
<1>2. spent' \in Nat /\ spent' >= spent /\ open' \subseteq open
  BY DEF Says, SaysItem, SaysAnswer, SaysUsage, SaysSpawn, SaysBegin, SaysEnd, SaysError, SaysOver
<1>3. PICK w : w = Route(v, m)
  OBVIOUS
<1>4. Metered(v)'
  BY <1>1, <1>2 DEF Sees, Metered
<1>5. CASE v.status # "running"
  <2>1. w = v
    BY <1>3, <1>5 DEF Route
  <2>2. Sees(v, b)'
    BY <1>1, <1>2, <1>4, <1>5 DEF Sees
  <2> QED
    BY <1>1, <1>3, <2>1, <2>2
<1>6. CASE v.status = "running"
  <2>1. AtWork(v) /\ Follows(v) /\ Metered(v)
    BY <1>1, <1>6 DEF Sees, Follows, AtWork
  <2>2. CASE SaysUsage(m)
    <3>1. Onward(v, w) /\ w.status = v.status /\ Follows(w)' /\ Metered(w)' /\ v.usage <= w.usage
      BY <1>1, <1>3, <2>1, <2>2, MetersUsage
    <3>2. Sees(w, b)'
      BY <1>1, <1>6, <3>1 DEF Onward, Sees
    <3> QED
      BY <1>3, <3>1, <3>2
  <2>3. CASE SaysOver(m)
    <3>1. /\ Onward(v, w) /\ w.base = v.base /\ w.usage = v.usage
          /\ w.status = "running" => Follows(w)'
          /\ w.status = "completed" => ~v.aborted /\ w.no \notin open'
      BY <1>1, <1>3, <2>1, <2>3, EndsOver
    <3>2. Metered(w)'
      BY <1>4, <3>1 DEF Metered
    <3>3. Sees(w, b)'
      BY <1>1, <3>1, <3>2 DEF Onward, Sees
    <3> QED
      BY <1>1, <1>3, <3>1, <3>3
  <2>4. CASE SaysItem(m) \/ SaysAnswer(m) \/ SaysSpawn(m) \/ SaysBegin(m) \/ SaysEnd(m) \/ SaysError(m)
    <3>1. Calm(v, w) /\ Follows(w)'
      BY <1>1, <1>3, <2>1, <2>4, FollowsItem, FollowsAnswer, FollowsSpawn, FollowsChild
    <3>2. Onward(v, w) /\ w.status = "running" /\ w.base = v.base /\ w.usage = v.usage
      BY <1>6, <3>1 DEF Calm
    <3>3. Metered(w)'
      BY <1>4, <3>2 DEF Metered
    <3>4. Sees(w, b)'
      BY <1>1, <3>1, <3>2, <3>3 DEF Onward, Sees
    <3> QED
      BY <1>1, <1>3, <3>2, <3>4
  <2> QED
    BY <2>2, <2>3, <2>4 DEF Says
<1> QED
  BY <1>5, <1>6
-----------------------------------------------------------------------------
(* Lemmas: what a turn whose response has not come will see.               *)
Opened(t, b) ==
    [t EXCEPT !.seen = TRUE, !.aborted = b, !.ids = [t.ids EXCEPT ![Main] = t.no],
              !.buffer = <<>>]

LEMMA Foresight ==
    ASSUME NEW t \in TurnRecords, NEW b \in BOOLEAN
    PROVE  OnResponse([t EXCEPT !.aborted = b]) = Routed(Opened(t, b), t.buffer)
<1>1. PICK u : u = [t EXCEPT !.aborted = b]
  OBVIOUS
<1>2. u.no = t.no /\ u.buffer = t.buffer /\ u.ids = t.ids
  BY <1>1 DEF TurnRecords
<1>3. PICK e : e = <<>>
  OBVIOUS
<1>4. OnResponse(u) = Routed([u EXCEPT !.seen = TRUE, !.ids[Main] = u.no, !.buffer = e], u.buffer)
  BY <1>3, Zenon DEF OnResponse
<1>5. Opened(t, b) = [t EXCEPT !.seen = TRUE, !.aborted = b,
                              !.ids = [t.ids EXCEPT ![Main] = t.no], !.buffer = e]
  BY <1>3, Zenon DEF Opened
<1>6. [u EXCEPT !.seen = TRUE, !.ids[Main] = u.no, !.buffer = e]
        = [t EXCEPT !.seen = TRUE, !.aborted = b, !.ids = [t.ids EXCEPT ![Main] = t.no],
                    !.buffer = e]
  BY <1>1, <1>2 DEF TurnRecords
<1> QED
  BY <1>1, <1>2, <1>4, <1>5, <1>6

LEMMA OpenedIs ==
    ASSUME NEW t \in TurnRecords, NEW b \in BOOLEAN
    PROVE  LET v == Opened(t, b)
           IN  /\ v \in TurnRecords /\ v.seen /\ v.aborted = b /\ v.buffer = <<>>
               /\ v.no = t.no /\ v.status = t.status /\ v.final = t.final /\ v.busy = t.busy
               /\ v.subs = t.subs /\ v.known = t.known /\ v.base = t.base /\ v.usage = t.usage
               /\ v.ids = [t.ids EXCEPT ![Main] = t.no]
<1>1. PICK e \in Seq(Messages) : e = <<>>
  BY EmptySeq
<1>2. PICK ids \in [Threads -> Nat] : ids = [t.ids EXCEPT ![Main] = t.no]
  <2>1. t.ids \in [Threads -> Nat] /\ t.no \in Nat
    BY TurnBounds DEF TurnRecords
  <2> QED
    BY <2>1
<1>3. PICK v : v = Opened(t, b)
  OBVIOUS
<1>4. v = [t EXCEPT !.seen = TRUE, !.aborted = b, !.ids = ids, !.buffer = e]
  BY <1>1, <1>2, <1>3, Zenon DEF Opened
<1>5. v \in TurnRecords
  BY <1>4 DEF TurnRecords
<1>6. /\ v.seen /\ v.aborted = b /\ v.buffer = e
      /\ v.no = t.no /\ v.status = t.status /\ v.final = t.final /\ v.busy = t.busy
      /\ v.subs = t.subs /\ v.known = t.known /\ v.base = t.base /\ v.usage = t.usage
      /\ v.ids = ids
  BY <1>4 DEF TurnRecords
<1> QED
  BY <1>1, <1>2, <1>3, <1>5, <1>6

(* One message more is one route() more of what will be seen.              *)
Buffers(t, s, m) == s = [t EXCEPT !.buffer = Append(t.buffer, m)]

LEMMA ForeseenHears ==
    ASSUME NEW t \in TurnRecords, NEW b \in BOOLEAN, NEW m \in Messages,
           NEW s, Buffers(t, s, m)
    PROVE  OnResponse([s EXCEPT !.aborted = b]) = Route(OnResponse([t EXCEPT !.aborted = b]), m)
<1>1. t.buffer \in Seq(Messages)
  BY DEF TurnRecords
<1>2. PICK f \in Seq(Messages) : f = Append(t.buffer, m)
  BY <1>1, AppendProperties
<1>0. s = [t EXCEPT !.buffer = f]
  BY <1>2 DEF Buffers
<1>3. s \in TurnRecords
  BY <1>0 DEF TurnRecords
<1>4. s.buffer = f /\ s.no = t.no /\ s.ids = t.ids
  BY <1>0 DEF TurnRecords
<1>5. Opened(s, b) = Opened(t, b)
  <2>1. PICK e : e = <<>>
    OBVIOUS
  <2>2. PICK ids : ids = [t.ids EXCEPT ![Main] = t.no]
    OBVIOUS
  <2>3. Opened(t, b) = [t EXCEPT !.seen = TRUE, !.aborted = b, !.ids = ids, !.buffer = e]
    BY <2>1, <2>2, Zenon DEF Opened
  <2>4. Opened(s, b) = [s EXCEPT !.seen = TRUE, !.aborted = b, !.ids = ids, !.buffer = e]
    BY <1>4, <2>1, <2>2, Zenon DEF Opened
  <2>5. [s EXCEPT !.seen = TRUE, !.aborted = b, !.ids = ids, !.buffer = e]
          = [t EXCEPT !.seen = TRUE, !.aborted = b, !.ids = ids, !.buffer = e]
    BY <1>0 DEF TurnRecords
  <2> QED
    BY <2>3, <2>4, <2>5
<1>6. OnResponse([s EXCEPT !.aborted = b]) = Routed(Opened(s, b), s.buffer)
  BY <1>3, Foresight
<1>7. OnResponse([t EXCEPT !.aborted = b]) = Routed(Opened(t, b), t.buffer)
  BY Foresight
<1>8. Routed(Opened(t, b), Append(t.buffer, m)) = Route(Routed(Opened(t, b), t.buffer), m)
  BY <1>1, RoutedAppend
<1> QED
  BY <1>2, <1>4, <1>5, <1>6, <1>7, <1>8

(* What a message of the server does to the turn it reaches.               *)
LEMMA TurnHears ==
    ASSUME CodexTypes, spent \in Nat, total \in Nat, total' = total,
           TurnAgrees, turn.no \in MainTurns,
           NEW m, Says(m), turn' = OnNotification(turn, m)
    PROVE  /\ turn' \in TurnRecords /\ TurnAgrees'
           /\ turn'.no = turn.no /\ turn'.seen = turn.seen /\ turn.usage <= turn'.usage
           /\ turn.status # "running" => turn' = turn
           /\ ~turn.seen => turn'.status = turn.status
           /\ Len(turn'.buffer) \in {Len(turn.buffer), Len(turn.buffer) + 1}
           /\ turn.status = "running" /\ turn'.status = "completed" => turn.no \notin open'
<1>1. PICK t \in TurnRecords : t = turn
  BY DEF CodexTypes
<1>2. PICK s : s = turn'
  OBVIOUS
<1>3. m \in Messages /\ spent' \in Nat /\ spent' >= spent
  BY DEF Says, SaysItem, SaysAnswer, SaysUsage, SaysSpawn, SaysBegin, SaysEnd, SaysError, SaysOver
<1>4. t.buffer \in Seq(Messages) /\ t.usage \in Nat /\ t.base \in Nat \cup {NoUsage}
      /\ t.seen \in BOOLEAN /\ t.aborted \in BOOLEAN
  BY DEF TurnRecords
<1>5. Metered(t) /\ Metered(t)'
  BY <1>1, <1>3, <1>4 DEF TurnAgrees, Metered
<1>6. CASE t.status # "running"
  <2>1. s = t
    BY <1>1, <1>2, <1>6 DEF OnNotification
  <2>2. TurnAgrees'
    BY <1>1, <1>2, <1>5, <1>6, <2>1 DEF TurnAgrees
  <2> QED
    BY <1>1, <1>2, <1>4, <1>6, <2>1, <2>2
<1>7. CASE t.status = "running" /\ t.seen
  <2>1. s = Route(t, m)
    BY <1>1, <1>2, <1>7 DEF OnNotification
  <2>2. Sees(t, t.aborted)
    BY <1>1, <1>7 DEF TurnAgrees
  <2>3. AtWork(t)
    BY <1>1, <1>7, <2>2 DEF Sees, Follows, AtWork
  <2>4. s.no = t.no
    <3>1. Onward(t, s)
      <4>1. t.no = turn.no /\ m \in Messages
        BY <1>1, <1>3
      <4>2. CASE SaysItem(m) \/ SaysAnswer(m) \/ SaysSpawn(m) \/ SaysBegin(m) \/ SaysEnd(m) \/ SaysError(m)
        <5>1. Calm(t, s)
          BY <1>7, <2>1, <2>2, <2>3, <4>1, <4>2, FollowsItem, FollowsAnswer, FollowsSpawn, FollowsChild DEF Sees
        <5> QED
          BY <5>1 DEF Calm
      <4>3. CASE SaysUsage(m)
        BY <1>5, <1>7, <2>1, <2>2, <2>3, <4>1, <4>3, MetersUsage DEF Sees
      <4>4. CASE SaysOver(m)
        BY <1>7, <2>1, <2>2, <2>3, <4>1, <4>4, EndsOver DEF Sees
      <4> QED
        BY <4>2, <4>3, <4>4 DEF Says
    <3> QED
      BY <3>1 DEF Onward
  <2>5. Sees(s, t.aborted)' /\ t.usage <= s.usage
    <3>1. turn'.no = turn.no /\ t.no \in MainTurns
      BY <1>1, <1>2, <2>4
    <3> QED
      BY <2>1, <2>2, <3>1, Heard
  <2>6. /\ s \in TurnRecords /\ s.seen /\ s.aborted = t.aborted /\ s.buffer = <<>>
        /\ s.status = "completed" => s.no \notin open'
        /\ Metered(s)'
    BY <2>5 DEF Sees
  <2>7. TurnAgrees'
    BY <1>2, <2>5, <2>6 DEF TurnAgrees
  <2>8. t.buffer = <<>>
    BY <2>2 DEF Sees
  <2> QED
    BY <1>1, <1>2, <1>4, <1>7, <2>4, <2>5, <2>6, <2>7, <2>8
<1>8. CASE t.status = "running" /\ ~t.seen
  <2>1. s = [t EXCEPT !.buffer = Append(t.buffer, m)]
    BY <1>1, <1>2, <1>8 DEF OnNotification
  <2>2. PICK f \in Seq(Messages) : f = Append(t.buffer, m) /\ Len(f) = Len(t.buffer) + 1
    <3>1. PICK q \in Seq(Messages) : q = t.buffer
      BY <1>4
    <3>2. Append(q, m) \in Seq(Messages) /\ Len(Append(q, m)) = Len(q) + 1
      BY <1>3, AppendProperties
    <3> QED
      BY <3>1, <3>2
  <2>3. /\ s \in TurnRecords /\ s.buffer = f
        /\ s.no = t.no /\ s.status = t.status /\ s.seen = t.seen /\ s.aborted = t.aborted
        /\ s.final = t.final /\ s.infer = t.infer /\ s.base = t.base /\ s.usage = t.usage
    BY <2>1, <2>2 DEF TurnRecords
  <2>4. ASSUME NEW b \in {s.aborted, TRUE}
        PROVE  Sees(OnResponse([s EXCEPT !.aborted = b]), b)'
    <3>1. PICK v : v = OnResponse([t EXCEPT !.aborted = b])
      OBVIOUS
    <3>2. Sees(v, b)
      <4>1. \A a \in {turn.aborted, TRUE} : Sees(Foreseen(a), a)
        BY <1>1, <1>8 DEF TurnAgrees
      <4>2. Sees(Foreseen(b), b)
        BY <1>1, <2>3, <4>1
      <4> QED
        BY <1>1, <3>1, <4>2 DEF Foreseen
    <3>3. OnResponse([s EXCEPT !.aborted = b]) = Route(v, m)
      <4>1. b \in BOOLEAN
        BY <1>4, <2>3
      <4>2. Buffers(t, s, m)
        BY <2>1 DEF Buffers
      <4>3. OnResponse([s EXCEPT !.aborted = b]) = Route(OnResponse([t EXCEPT !.aborted = b]), m)
        BY <1>3, <4>1, <4>2, ForeseenHears
      <4> QED
        BY <3>1, <4>3
    <3>4. v.no \in MainTurns /\ turn'.no = turn.no
      BY <1>1, <1>2, <2>3, <3>2 DEF Sees
    <3>5. Sees(Route(v, m), b)'
      BY <3>2, <3>4, Heard
    <3> QED
      BY <3>3, <3>5
  <2>5. \A b \in {turn'.aborted, TRUE} : Sees(Foreseen(b), b)'
    BY <1>2, <2>4 DEF Foreseen
  <2>6. Metered(s)'
    BY <1>5, <2>3 DEF Metered
  <2>7. TurnAgrees'
    BY <1>1, <1>2, <1>8, <2>3, <2>5, <2>6 DEF TurnAgrees
  <2> QED
    BY <1>1, <1>2, <1>4, <1>8, <2>2, <2>3, <2>7
<1> QED
  BY <1>6, <1>7, <1>8
-----------------------------------------------------------------------------
(* Lemmas: a step of the codex adapter, part by part.                      *)
LEMMA CodexStep ==
    ASSUME ExecStrong, backend = "codex",
           UNCHANGED <<claudeVars, opencodeVars, backend, schema, compiles, retries>>,
           spent' \in Nat, spent' >= spent,
           CallTypeOK', CodexTypes', CallAgrees', CodexStrong'
    PROVE  ExecStrong'
<1>1. ClaudeTypes'
  BY DEF ExecStrong, Types, ClaudeTypes, claudeVars
<1>2. spent \in Nat /\ message \in Nat /\ earlier \in Nat /\ message <= spent /\ earlier <= spent
  BY ExecutorAssumption DEF ExecStrong, Types, CallTypeOK, OpencodeTypes
<1>3. message' <= spent' /\ earlier' <= spent'
  BY <1>2 DEF opencodeVars
<1>4. OpencodeTypes'
  BY <1>3 DEF ExecStrong, Types, OpencodeTypes, opencodeVars
<1> QED
  BY <1>1, <1>4 DEF ExecStrong, Types

LEMMA Count ==
    ASSUME NEW T \in SUBSET MainTurns, NEW S \in SUBSET T
    PROVE  /\ IsFiniteSet(T)
           /\ Cardinality(S) \in Nat /\ Cardinality(T) \in Nat
           /\ Cardinality(S) <= Cardinality(T) /\ Cardinality(T) <= MaxTurns
<1>1. IsFiniteSet(MainTurns) /\ Cardinality(MainTurns) = MaxTurns
  BY TurnBounds, FS_Interval DEF MainTurns
<1>2. IsFiniteSet(T) /\ Cardinality(T) <= Cardinality(MainTurns)
  BY <1>1, FS_Subset
<1>3. IsFiniteSet(S) /\ Cardinality(S) <= Cardinality(T)
  BY <1>2, FS_Subset
<1> QED
  BY <1>1, <1>2, <1>3, FS_CardinalityType

LEMMA SeesKept ==
    ASSUME NEW v, NEW b, Sees(v, b), turn'.no = turn.no, open' \subseteq open,
           UNCHANGED <<work, kids, answered, total, spent>>
    PROVE  Sees(v, b)'
BY DEF Sees, Metered, Follows

LEMMA TurnKept ==
    ASSUME TurnAgrees, turn' = turn, open' \subseteq open,
           UNCHANGED <<work, kids, answered, total, spent>>
    PROVE  TurnAgrees'
<1>1. PICK t : t = turn
  OBVIOUS
<1>2. Metered(t)'
  BY <1>1 DEF TurnAgrees, Metered
<1>3. ASSUME NEW b, Sees(t, b) PROVE Sees(t, b)'
  BY <1>3, SeesKept
<1>4. ASSUME NEW b, Sees(OnResponse([t EXCEPT !.aborted = b]), b)
      PROVE  Sees(OnResponse([t EXCEPT !.aborted = b]), b)'
  BY <1>4, SeesKept
<1> QED
  BY <1>1, <1>2, <1>3, <1>4 DEF TurnAgrees, Foreseen

LEMMA TurnSettled ==
    ASSUME CodexTypes, TurnAgrees, NEW status \in Statuses, NEW blame \in {"none", "server", "client"},
           turn' = SettleTurn(turn, status, blame), open' \subseteq open,
           UNCHANGED <<work, kids, answered, total, spent>>
    PROVE  /\ TurnAgrees' /\ turn' \in TurnRecords
           /\ turn'.status # "running" /\ turn'.no = turn.no /\ turn'.seen = turn.seen
           /\ turn'.usage = turn.usage /\ turn'.buffer = turn.buffer
<1>1. PICK t \in TurnRecords : t = turn
  BY DEF CodexTypes
<1>2. PICK s : s = turn'
  OBVIOUS
<1>3. /\ Onward(t, s)
      /\ s.status = IF t.status = "running" THEN status ELSE t.status
      /\ s.base = t.base /\ s.usage = t.usage /\ s.final = t.final
      /\ ~t.infer => ~s.infer
  BY <1>1, <1>2, SettledIs DEF Statuses
<1>4. s.status # "running" /\ s \in TurnRecords /\ s.no = t.no /\ s.seen = t.seen /\ s.buffer = t.buffer
  BY <1>3 DEF Statuses, Onward
<1>5. Metered(s)'
  BY <1>1, <1>3 DEF TurnAgrees, Metered
<1>6. TurnAgrees'
  BY <1>1, <1>2, <1>3, <1>4, <1>5 DEF TurnAgrees
<1> QED
  BY <1>1, <1>2, <1>3, <1>4, <1>6

(* Nothing of the turn, but perhaps what the server runs, has changed.     *)
LEMMA QuietStep ==
    ASSUME ExecStrong, backend = "codex",
           UNCHANGED <<claudeVars, opencodeVars, backend, schema, compiles, retries>>,
           UNCHANGED <<turn, work, kids, answered, chatter, spent, total>>,
           open' \subseteq open,
           step = "turning" => step' = "turning",
           CallTypeOK', ClientTypeOK', CallAgrees', CodexAgrees', AwaitsTurn'
    PROVE  ExecStrong'
<1>1. /\ CodexTypes /\ CodexStrong /\ spent \in Nat /\ total \in Nat
  BY ExecutorAssumption DEF ExecStrong, Types, CallTypeOK
<1>2. CodexTypes'
  BY <1>1 DEF CodexTypes
<1>3. TurnAgrees'
  BY <1>1, TurnKept DEF CodexStrong
<1>4. NothingAhead'
  BY <1>1 DEF CodexStrong, NothingAhead, Unbegun
<1>5. BufferFits'
  <2>1. /\ Cardinality(open) \in Nat /\ Cardinality(open') \in Nat
        /\ Cardinality(open') <= Cardinality(open)
    BY <1>1, Count DEF CodexTypes
  <2>2. Len(turn.buffer) \in Nat
    BY <1>1, LenProperties DEF CodexTypes, TurnRecords
  <2> QED
    BY <1>1, <2>1, <2>2, TurnBounds DEF CodexStrong, BufferFits
<1> QED
  BY <1>1, <1>2, <1>3, <1>4, <1>5, CodexStep DEF CodexStrong
-----------------------------------------------------------------------------
(* The steps of the codex adapter.                                         *)
Quietly == UNCHANGED <<claudeVars, opencodeVars, backend, schema, compiles, retries>>

LEMMA InCodex ==
    ASSUME ExecStrong, backend = "codex"
    PROVE  /\ CallTypeOK /\ CodexTypes /\ ClientTypeOK /\ CallAgrees /\ CodexStrong
           /\ CodexAgrees /\ AwaitsTurn /\ NothingAhead /\ TurnAgrees
           /\ spent \in Nat /\ total \in Nat /\ ticked \in Nat /\ threads \in Nat
           /\ retries \in Nat /\ attempt \in Nat /\ attempt <= retries
           /\ process \in Processes
           /\ turn \in TurnRecords /\ turn.no \in Nat /\ turn.usage \in Nat
           /\ Pending \notin Results
BY ExecutorAssumption, TurnBounds DEF ExecStrong, Types, CodexTypes, CodexStrong, CallTypeOK, TurnRecords, Results

LEMMA StartKeeps ==
    ASSUME ExecStrong, OfCodex(CodexStart)
    PROVE  ExecStrong'
<1>1. /\ backend = "codex" /\ step = "start" /\ step' = "initializing" /\ process' = "running"
      /\ requests' = {"initialize"}
      /\ UNCHANGED <<answer, killTimer, turnVars, aborted, spent,
                     ticked, threads, result, total, attempt, wire, outcome>>
      /\ Quietly
  BY DEF OfCodex, CodexStart, AtCodex, Quietly
<1>2. CallTypeOK /\ ClientTypeOK /\ CallAgrees /\ CodexAgrees
  BY <1>1, InCodex
<1>3. CallTypeOK'
  BY <1>1, <1>2 DEF CallTypeOK, Processes, Quietly
<1>4. ClientTypeOK'
  BY <1>1, <1>2 DEF ClientTypeOK, Methods
<1>5. CallAgrees'
  BY <1>1, <1>2 DEF CallAgrees, Quietly
<1>6. CodexAgrees'
  BY <1>1, <1>2 DEF CodexAgrees, TurnsLeft, Awaits, Exited, turnVars, Quietly
<1>7. AwaitsTurn'
  BY <1>1 DEF AwaitsTurn
<1>8. UNCHANGED <<turn, work, kids, answered, chatter, spent, total>> /\ open' \subseteq open
  BY <1>1 DEF turnVars
<1> QED
  BY <1>1, <1>3, <1>4, <1>5, <1>6, <1>7, <1>8, QuietStep DEF Quietly

LEMMA InitializedKeeps ==
    ASSUME ExecStrong, OfCodex(CodexInitialized)
    PROVE  ExecStrong'
<1>1. /\ backend = "codex" /\ step = "initializing" /\ answer # NoAnswer
      /\ UNCHANGED <<killTimer, turnVars, aborted, spent, ticked, threads, total, attempt,
                     wire, outcome>>
      /\ Quietly
  BY DEF OfCodex, CodexInitialized, AtCodex, Quietly
<1>2. /\ CallTypeOK /\ ClientTypeOK /\ CallAgrees /\ CodexAgrees /\ Pending \notin Results
      /\ process \in Processes
  BY <1>1, InCodex
<1>3. UNCHANGED <<turn, work, kids, answered, chatter, spent, total>> /\ open' \subseteq open
  BY <1>1 DEF turnVars
<1>4. CASE answer.with = "result"
  <2>1. /\ step' = "threading"
        /\ requests' = requests \cup {"thread/start"}
        /\ answer' = IF aborted THEN [to |-> "thread/start", with |-> "lost"] ELSE NoAnswer
        /\ UNCHANGED <<process, result>>
    BY <1>4 DEF OfCodex, CodexInitialized
  <2>2. requests = {} /\ ~Exited /\ process # "unborn"
    BY <1>1, <1>2, <1>4 DEF CodexAgrees, Awaits
  <2>3. CallTypeOK'
    BY <1>1, <1>2, <2>1 DEF CallTypeOK, Quietly
  <2>4. ClientTypeOK' /\ (answer' # NoAnswer => answer'.with = "lost")
    BY <1>1, <1>2, <2>1, <2>2 DEF ClientTypeOK, Methods, Answers
  <2>5. CallAgrees'
    BY <1>1, <1>2, <2>1 DEF CallAgrees, Quietly
  <2>6. CodexAgrees'
    BY <1>1, <1>2, <1>3, <2>1, <2>2, <2>4 DEF CodexAgrees, TurnsLeft, Awaits, Exited, Quietly
  <2>7. AwaitsTurn'
    BY <2>1 DEF AwaitsTurn
  <2> QED
    BY <1>1, <1>3, <2>3, <2>4, <2>5, <2>6, <2>7, QuietStep DEF Quietly
<1>5. CASE answer.with # "result"
  <2>1. /\ step' = "done"
        /\ answer' = NoAnswer
        /\ process' = Signal("SIGKILL")
        /\ result' = Failed(NoUsage)
        /\ UNCHANGED requests
    BY <1>5 DEF OfCodex, CodexInitialized
  <2>2. process' \in Processes /\ process' # "running" /\ process # "unborn" /\ (process' = "gone" <=> process = "gone")
    BY <1>1, <1>2, <2>1 DEF Signal, Processes, CodexAgrees
  <2>3. result' \in Results /\ result'.ok = FALSE /\ result'.value = "none" /\ result'.usage = NoUsage
    BY <2>1 DEF Failed, Results
  <2>4. CallTypeOK'
    BY <1>1, <1>2, <2>1, <2>2, <2>3 DEF CallTypeOK, Quietly
  <2>5. ClientTypeOK'
    BY <1>1, <1>2, <2>1 DEF ClientTypeOK
  <2>6. Fits(result)' /\ Honest(result)'
    BY <2>3 DEF Fits, Honest
  <2>7. CallAgrees'
    BY <1>1, <1>2, <2>1, <2>2, <2>3, <2>6 DEF CallAgrees, Quietly
  <2>8. CodexAgrees'
    BY <1>1, <1>2, <1>3, <2>1, <2>2 DEF CodexAgrees, Exited
  <2>9. AwaitsTurn'
    BY <2>1 DEF AwaitsTurn
  <2> QED
    BY <1>1, <1>3, <2>1, <2>4, <2>5, <2>7, <2>8, <2>9, QuietStep DEF Quietly
<1> QED
  BY <1>4, <1>5

LEMMA ClosedKeeps ==
    ASSUME ExecStrong, OfCodex(CodexClosed)
    PROVE  ExecStrong'
<1>1. /\ backend = "codex" /\ step = "closing" /\ Exited
      /\ step' = "done" /\ result' = outcome
      /\ UNCHANGED <<codexVars, aborted, spent, ticked, threads, process, total, attempt,
                     wire, outcome>>
      /\ Quietly
  BY DEF OfCodex, CodexClosed, AtCodex, Quietly
<1>2. CallTypeOK /\ ClientTypeOK /\ CallAgrees /\ CodexAgrees /\ Pending \notin Results
  BY <1>1, InCodex
<1>3. /\ UNCHANGED <<turn, work, kids, answered, chatter, spent, total, requests, answer, killTimer>>
      /\ open' \subseteq open
  BY <1>1 DEF codexVars, turnVars, clientVars
<1>4. Fits(outcome) /\ Honest(outcome)
  BY <1>1, <1>2 DEF CallAgrees
<1>5. Fits(result)' /\ Honest(result)' /\ result' # Pending
  BY <1>1, <1>2, <1>4 DEF Fits, Honest, Quietly
<1>6. CallTypeOK'
  BY <1>1, <1>2 DEF CallTypeOK, Quietly
<1>7. ClientTypeOK'
  BY <1>2, <1>3 DEF ClientTypeOK
<1>8. CallAgrees'
  BY <1>1, <1>2, <1>5 DEF CallAgrees, Quietly, Exited
<1>9. CodexAgrees' /\ AwaitsTurn'
  BY <1>1, <1>2, <1>3 DEF CodexAgrees, AwaitsTurn, Exited
<1> QED
  BY <1>1, <1>3, <1>6, <1>7, <1>8, <1>9, QuietStep DEF Quietly

LEMMA KillTimerKeeps ==
    ASSUME ExecStrong, OfCodex(CodexKillTimer)
    PROVE  ExecStrong'
<1>1. /\ backend = "codex" /\ killTimer /\ ~killTimer'
      /\ process' = Signal("SIGKILL")
      /\ UNCHANGED <<requests, answer, turnVars, aborted, spent, ticked, threads, result,
                     step, total, attempt, wire, outcome>>
      /\ Quietly
  BY DEF OfCodex, CodexKillTimer, Quietly
<1>2. CallTypeOK /\ ClientTypeOK /\ CallAgrees /\ CodexAgrees /\ process \in Processes
  BY <1>1, InCodex
<1>3. step = "closing" /\ ~Exited
  BY <1>1, <1>2 DEF CodexAgrees
<1>4. process' \in Processes /\ process' # "gone"
  BY <1>1, <1>2, <1>3 DEF Signal, Processes, Exited
<1>5. UNCHANGED <<turn, work, kids, answered, chatter, spent, total>> /\ open' \subseteq open
  BY <1>1 DEF turnVars
<1>6. CallTypeOK' /\ killTimer' \in BOOLEAN
  BY <1>1, <1>2, <1>4 DEF CallTypeOK, Quietly, CodexKillTimer, OfCodex
<1>7. ClientTypeOK'
  BY <1>1, <1>2, <1>6 DEF ClientTypeOK
<1>8. CallAgrees'
  BY <1>1, <1>2, <1>3 DEF CallAgrees, Quietly, Fits, Honest
<1>9. CodexAgrees' /\ AwaitsTurn'
  BY <1>1, <1>2, <1>3, <1>4, <1>5 DEF CodexAgrees, AwaitsTurn, Exited
<1> QED
  BY <1>1, <1>5, <1>6, <1>7, <1>8, <1>9, QuietStep DEF Quietly

LEMMA TimeoutKeeps ==
    ASSUME ExecStrong, OfCodex(CodexRequestTimeout)
    PROVE  ExecStrong'
<1>1. PICK m \in Methods :
         /\ backend = "codex" /\ Idle
         /\ m \in requests /\ requests' = requests \ {m}
         /\ answer' = IF Closed THEN answer ELSE [to |-> m, with |-> "lost"]
         /\ UNCHANGED <<killTimer, turnVars, callVars>>
         /\ Quietly
  BY DEF OfCodex, CodexRequestTimeout, RequestTimesOut, Settles, Quietly
<1>2. CallTypeOK /\ ClientTypeOK /\ CallAgrees /\ CodexAgrees /\ AwaitsTurn
  BY <1>1, InCodex
<1>3. UNCHANGED <<turn, work, kids, answered, chatter, spent, total>> /\ open' \subseteq open
  BY <1>1 DEF turnVars, callVars
<1>4. UNCHANGED <<aborted, ticked, threads, result, process, step, attempt, wire, outcome>>
  BY <1>1 DEF callVars
<1>5. CallTypeOK'
  BY <1>1, <1>2, <1>3, <1>4 DEF CallTypeOK, Quietly
<1>6. /\ answer = NoAnswer /\ requests' \subseteq requests
      /\ [to |-> m, with |-> "lost"] \in Answers /\ [to |-> m, with |-> "lost"] # NoAnswer
      /\ [to |-> m, with |-> "lost"].with = "lost"
  BY <1>1, AnswersAssumption DEF Answers, Idle
<1>7. ClientTypeOK'
  BY <1>1, <1>2, <1>6 DEF ClientTypeOK
<1>8. CallAgrees'
  BY <1>1, <1>2, <1>3, <1>4 DEF CallAgrees, Quietly, Fits, Honest
<1>9. ~Closed => answer' # NoAnswer /\ answer'.with = "lost"
  BY <1>1, <1>6
<1>a. Closed => answer' = NoAnswer
  BY <1>1, <1>6
<1>b. step \notin {"closing", "done"} => answer' # NoAnswer /\ answer'.with = "lost"
  BY <1>9 DEF Closed
<1>c. answer' # NoAnswer => answer'.with = "lost"
  BY <1>9, <1>a
<1>d. CodexAgrees'
  BY <1>1, <1>2, <1>3, <1>4, <1>6, <1>b, <1>c DEF CodexAgrees, Exited, Awaits, TurnsLeft, Quietly
<1>e. AwaitsTurn'
  BY <1>1, <1>2, <1>3, <1>4, <1>6, <1>b, <1>c DEF AwaitsTurn, Exited, TurnsLeft, Quietly
<1> QED
  BY <1>1, <1>3, <1>4, <1>5, <1>7, <1>8, <1>d, <1>e, QuietStep DEF Quietly

(* A turn begins, and of what comes for it nothing has come.               *)
LEMMA NewTurnIs ==
    ASSUME NEW n \in 0..MaxTurns, aborted \in BOOLEAN
    PROVE  LET t == NewTurn(n)
           IN  /\ t \in TurnRecords
               /\ t.no = n /\ t.status = "running" /\ t.seen = FALSE /\ t.aborted = aborted
               /\ t.final = FALSE /\ t.busy = {} /\ t.subs = {} /\ t.known = {Main}
               /\ t.ids = [x \in Threads |-> 0] /\ t.infer = FALSE /\ t.base = NoUsage
               /\ t.usage = 0 /\ t.buffer = <<>>
<1>1. PICK e \in Seq(Messages) : e = <<>>
  BY EmptySeq
<1>2. PICK i \in [Threads -> Nat] : i = [x \in Threads |-> 0]
  OBVIOUS
<1>3. PICK k \in SUBSET Threads : k = {Main}
  <2>1. Main \in Threads
    BY TurnBounds DEF Threads, Main
  <2> QED
    BY <2>1
<1>4. PICK t : t = NewTurn(n)
  OBVIOUS
<1>5. t = [no |-> n, status |-> "running", blame |-> "none", seen |-> FALSE,
           aborted |-> aborted, final |-> FALSE, busy |-> {}, subs |-> {}, known |-> k,
           ids |-> i, infer |-> FALSE, base |-> NoUsage, usage |-> 0, buffer |-> e]
  BY <1>1, <1>2, <1>3, <1>4 DEF NewTurn
<1>6. t \in TurnRecords
  BY <1>5 DEF TurnRecords
<1> QED
  BY <1>1, <1>2, <1>3, <1>4, <1>5, <1>6

LEMMA RestIs ==
    /\ Rest \in TurnRecords
    /\ Rest.no = 0 /\ Rest.status = "completed" /\ Rest.seen = FALSE /\ Rest.aborted = FALSE
    /\ Rest.final = FALSE /\ Rest.infer = FALSE /\ Rest.base = NoUsage /\ Rest.usage = 0
    /\ Rest.buffer = <<>> /\ Rest.busy = {} /\ Rest.subs = {} /\ Rest.known = {Main}
<1>1. PICK e \in Seq(Messages) : e = <<>>
  BY EmptySeq
<1>2. PICK i \in [Threads -> Nat] : i = [x \in Threads |-> 0]
  OBVIOUS
<1>3. PICK k \in SUBSET Threads : k = {Main}
  <2>1. Main \in Threads
    BY TurnBounds DEF Threads, Main
  <2> QED
    BY <2>1
<1>4. PICK t : t = Rest
  OBVIOUS
<1>5. t = [no |-> 0, status |-> "completed", blame |-> "none", seen |-> FALSE,
           aborted |-> FALSE, final |-> FALSE, busy |-> {}, subs |-> {}, known |-> k,
           ids |-> i, infer |-> FALSE, base |-> NoUsage, usage |-> 0, buffer |-> e]
  BY <1>1, <1>2, <1>3, <1>4 DEF Rest
<1>6. t \in TurnRecords
  BY <1>5, TurnBounds DEF TurnRecords, Statuses
<1> QED
  BY <1>1, <1>2, <1>3, <1>4, <1>5, <1>6

LEMMA NoTurnIs ==
    ASSUME aborted \in BOOLEAN
    PROVE  NoTurn = Rest
<1>1. PICK u \in TurnRecords :
         /\ u = NewTurn(0) /\ u.ids = [x \in Threads |-> 0]
         /\ u.no = 0 /\ u.seen = FALSE /\ u.final = FALSE /\ u.busy = {} /\ u.subs = {}
         /\ u.known = {Main} /\ u.infer = FALSE /\ u.base = NoUsage /\ u.usage = 0
         /\ u.buffer = <<>>
  <2>1. 0 \in 0..MaxTurns
    BY TurnBounds
  <2> QED
    BY <2>1, NewTurnIs
<1>2. PICK w : w = [u EXCEPT !.status = "completed", !.aborted = FALSE]
  OBVIOUS
<1>3. w = NoTurn
  BY <1>1, <1>2 DEF NoTurn
<1>4. w \in TurnRecords
  BY <1>2 DEF TurnRecords, Statuses
<1>5. PICK r \in TurnRecords : r = Rest
  BY RestIs
<1>6. /\ w.status = r.status /\ w.aborted = r.aborted
  BY <1>2, <1>5, RestIs DEF TurnRecords
<1>7. /\ w.no = u.no /\ w.blame = u.blame /\ w.seen = u.seen /\ w.final = u.final
      /\ w.busy = u.busy /\ w.subs = u.subs /\ w.known = u.known /\ w.ids = u.ids
      /\ w.infer = u.infer /\ w.base = u.base /\ w.usage = u.usage /\ w.buffer = u.buffer
  BY <1>2 DEF TurnRecords
<1>8. /\ u.no = r.no /\ u.blame = r.blame /\ u.seen = r.seen /\ u.final = r.final
      /\ u.busy = r.busy /\ u.subs = r.subs /\ u.known = r.known
      /\ u.infer = r.infer /\ u.base = r.base /\ u.usage = r.usage /\ u.buffer = r.buffer
  <2>1. u.blame = "none" /\ r.blame = "none"
    BY <1>1, <1>5 DEF NewTurn, Rest
  <2> QED
    BY <1>1, <1>5, <2>1, RestIs
<1>9. u.ids = r.ids
  BY <1>1, <1>5 DEF Rest
<1>10. w = r
  BY <1>4, <1>6, <1>7, <1>8, <1>9 DEF TurnRecords
<1> QED
  BY <1>3, <1>5, <1>10

LEMMA NewTurnForesees ==
    ASSUME NEW t \in TurnRecords, t.buffer = <<>>, NEW b \in BOOLEAN
    PROVE  OnResponse([t EXCEPT !.aborted = b]) = Opened(t, b)
<1>1. OnResponse([t EXCEPT !.aborted = b]) = Routed(Opened(t, b), t.buffer)
  BY Foresight
<1>2. Routed(Opened(t, b), t.buffer) = Opened(t, b)
  BY RoutedNothing
<1> QED
  BY <1>1, <1>2

(* The parts of the invariant that speak of a turn, after one begins.      *)
LEMMA TurnBegins ==
    ASSUME ExecStrong, backend = "codex", NEW n, n = turn.no + 1, n <= MaxTurns,
           turn' = NewTurn(n), open' \subseteq open \cup {n}, step' = "turning",
           UNCHANGED <<work, kids, answered, chatter, spent>>,
           total' = total + turn.usage
    PROVE  /\ NothingAhead' /\ TurnAgrees' /\ BufferFits'
           /\ turn' \in TurnRecords /\ open' \subseteq MainTurns
           /\ turn'.no = n /\ turn'.seen = FALSE /\ turn'.usage = 0 /\ turn'.status = "running"
<1>1. /\ CodexTypes /\ NothingAhead /\ TurnAgrees /\ turn.no \in Nat /\ turn.usage \in Nat
      /\ spent \in Nat /\ total \in Nat /\ aborted \in BOOLEAN
  BY InCodex DEF CallTypeOK
<1>2. n \in MainTurns /\ n \in 0..MaxTurns /\ n # Main /\ n \in Threads /\ Main \in Threads
  BY <1>1, TurnBounds DEF MainTurns, Main, Threads
<1>3. PICK t \in TurnRecords :
         /\ t = turn'
         /\ t.no = n /\ t.status = "running" /\ t.seen = FALSE /\ t.aborted = aborted
         /\ t.final = FALSE /\ t.busy = {} /\ t.subs = {} /\ t.known = {Main}
         /\ t.ids = [x \in Threads |-> 0] /\ t.infer = FALSE /\ t.base = NoUsage
         /\ t.usage = 0 /\ t.buffer = <<>>
  BY <1>1, <1>2, NewTurnIs
<1>4. open' \subseteq MainTurns
  BY <1>1, <1>2 DEF CodexTypes
<1>5. Unbegun(n)
  BY <1>1, <1>2 DEF NothingAhead
<1>6. NothingAhead'
  <2>1. ASSUME NEW k \in MainTurns, k > n PROVE Unbegun(k)'
    <3>1. k > turn.no /\ k # n
      BY <1>1, <2>1 DEF MainTurns
    <3>2. Unbegun(k)
      BY <1>1, <3>1 DEF NothingAhead
    <3> QED
      BY <3>1, <3>2 DEF Unbegun
  <2> QED
    BY <1>3, <2>1 DEF NothingAhead
<1>7. Metered(t)'
  BY <1>1, <1>3 DEF TurnAgrees, Metered
<1>8. ASSUME NEW b \in {t.aborted, TRUE}
      PROVE  Sees(OnResponse([t EXCEPT !.aborted = b]), b)'
  <2>1. b \in BOOLEAN
    BY <1>1, <1>3
  <2>2. PICK v : v = Opened(t, b)
    OBVIOUS
  <2>3. OnResponse([t EXCEPT !.aborted = b]) = v
    BY <1>3, <2>1, <2>2, NewTurnForesees
  <2>4. /\ v \in TurnRecords /\ v.seen /\ v.aborted = b /\ v.buffer = <<>>
        /\ v.no = n /\ v.status = "running" /\ v.final = FALSE /\ v.busy = {}
        /\ v.subs = {} /\ v.known = {Main} /\ v.base = NoUsage /\ v.usage = 0
        /\ v.ids = [t.ids EXCEPT ![Main] = n]
    BY <1>3, <2>1, <2>2, OpenedIs
  <2>5. v.ids[Main] = n /\ v.ids[n] = 0
    BY <1>2, <1>3, <2>4
  <2>6. Metered(v)'
    BY <1>3, <1>7, <2>4 DEF Metered
  <2>7. Follows(v)'
    <3>1. /\ kids'[n] = NoUsage
          /\ \A kind \in Kinds : <<kind, n>> \notin work'
      BY <1>5 DEF Unbegun
    <3>2. "subagent" \in Kinds /\ Items \subseteq Kinds
      BY DEF Kinds
    <3> QED
      BY <2>4, <2>5, <3>1, <3>2 DEF Follows
  <2>8. Sees(v, b)'
    BY <1>3, <2>4, <2>6, <2>7 DEF Sees
  <2> QED
    BY <2>3, <2>8
<1>9. TurnAgrees'
  BY <1>3, <1>7, <1>8 DEF TurnAgrees, Foreseen
<1>10. BufferFits'
  <2>1. Cardinality(open') \in Nat /\ Cardinality(open') <= MaxTurns
    BY <1>4, Count
  <2>2. Len(turn'.buffer) = 0
    BY <1>3, EmptySeq
  <2> QED
    BY <2>1, <2>2, TurnBounds DEF BufferFits
<1> QED
  BY <1>3, <1>4, <1>6, <1>9, <1>10

LEMMA NothingMore == \A a \in Nat, c \in Nat : a <= c => a + 0 <= c
  OBVIOUS

(* The same after the turns of the call are over.                          *)
LEMMA TurnsEnd ==
    ASSUME ExecStrong, backend = "codex", TurnsDropped, step' # "turning",
           spent' = spent, total' \in Nat, total' <= spent
    PROVE  /\ NothingAhead' /\ TurnAgrees' /\ BufferFits' /\ turn' = Rest
           /\ turn' \in TurnRecords /\ open' \subseteq MainTurns /\ answered' \subseteq MainTurns
           /\ work' \subseteq Kinds \X MainTurns /\ kids' \in [MainTurns -> Nat \cup {NoUsage}]
           /\ chatter' \in 0..MaxChatter /\ turn'.usage = 0
<1>1. turn' = Rest
  <2>1. aborted \in BOOLEAN
    BY InCodex DEF CallTypeOK
  <2> QED
    BY <2>1, NoTurnIs DEF TurnsDropped
<1>2. open' = {} /\ work' = {} /\ kids' = NoKids /\ answered' = {} /\ chatter' = 0
  BY DEF TurnsDropped
<1>3. PICK r \in TurnRecords :
         /\ r = Rest /\ r.status = "completed" /\ r.seen = FALSE /\ r.final = FALSE
         /\ r.infer = FALSE /\ r.base = NoUsage /\ r.usage = 0 /\ r.buffer = <<>>
  BY RestIs
<1>4. spent \in Nat
  BY InCodex
<1>5. Metered(r)'
  <2>1. total' + 0 <= spent'
    BY <1>4, NothingMore, Zenon
  <2>2. total' + r.usage <= spent'
    BY <1>3, <2>1, Zenon
  <2> QED
    BY <1>3, <2>2 DEF Metered
<1>6. TurnAgrees'
  BY <1>1, <1>3, <1>5 DEF TurnAgrees
<1>7. \A k \in MainTurns : kids'[k] = NoUsage
  BY <1>2 DEF NoKids
<1>8. NothingAhead'
  BY <1>1, <1>2, <1>7 DEF NothingAhead, Unbegun
<1>9. BufferFits'
  <2>1. Len(turn'.buffer) = 0 /\ Cardinality(open') = 0
    BY <1>1, <1>2, <1>3, EmptySeq, FS_EmptySet
  <2> QED
    BY <2>1, TurnBounds DEF BufferFits
<1>10. kids' \in [MainTurns -> Nat \cup {NoUsage}]
  BY <1>2 DEF NoKids
<1> QED
  BY <1>1, <1>2, <1>3, <1>6, <1>8, <1>9, <1>10, TurnBounds

LEMMA ThreadStartedKeeps ==
    ASSUME ExecStrong, OfCodex(CodexThreadStarted)
    PROVE  ExecStrong'
<1>1. /\ backend = "codex" /\ step = "threading" /\ answer # NoAnswer
      /\ UNCHANGED <<aborted, spent, ticked, result, total, attempt, wire>>
      /\ Quietly
  BY DEF OfCodex, CodexThreadStarted, AtCodex, Quietly
<1>2. /\ CallTypeOK /\ CodexTypes /\ ClientTypeOK /\ CallAgrees /\ CodexAgrees /\ NothingAhead
      /\ Pending \notin Results /\ spent \in Nat /\ total \in Nat /\ threads \in Nat
      /\ retries \in Nat /\ attempt \in Nat /\ attempt <= retries
      /\ process \in Processes
  BY <1>1, InCodex
<1>3. /\ threads = 0 /\ total = 0 /\ process # "unborn" /\ turn = Rest
      /\ requests \subseteq {"thread/start"}
      /\ answer.with = "result" => requests = {} /\ ~Exited
      /\ 1 + TurnsLeft <= MaxTurns
      /\ ticked = total + turn.usage /\ ~killTimer
      /\ Exited => requests = {}
  BY <1>1, <1>2 DEF CodexAgrees, Awaits, NothingAhead
<1>4. turn.no = 0 /\ turn.usage = 0 /\ ticked = 0
  BY <1>2, <1>3, RestIs
<1>5. CASE answer.with = "result"
  <2>1. /\ threads' = threads + 1
        /\ answer' = NoAnswer
        /\ step' = "turning"
        /\ turn' = NewTurn(1)
        /\ open' = {1}
        /\ requests' = requests \cup {"turn/start"}
        /\ UNCHANGED <<outcome, process, killTimer, work, kids, answered, chatter>>
    BY <1>5 DEF OfCodex, CodexThreadStarted
  <2>2. TurnsLeft \in Nat
    BY <1>2 DEF TurnsLeft, CallTypeOK
  <2>3. 1 = turn.no + 1 /\ 1 <= MaxTurns /\ total' = total + turn.usage
    BY <1>1, <1>2, <1>3, <1>4, <2>2, TurnBounds
  <2>4. /\ NothingAhead' /\ TurnAgrees' /\ BufferFits'
        /\ turn' \in TurnRecords /\ open' \subseteq MainTurns
        /\ turn'.no = 1 /\ turn'.seen = FALSE /\ turn'.usage = 0 /\ turn'.status = "running"
    BY <1>1, <2>1, <2>3, TurnBegins
  <2>5. threads' = 1 /\ requests' = {"turn/start"}
    <3>1. requests' = {"turn/start"}
      BY <1>3, <1>5, <2>1
    <3>2. threads' = 0 + 1
      BY <1>3, <2>1, Zenon
    <3> QED
      BY <3>1, <3>2
  <2>6. CallTypeOK'
    BY <1>1, <1>2, <2>1, <2>5 DEF CallTypeOK, Quietly
  <2>7. CodexTypes'
    BY <1>2, <2>1, <2>4, <2>5 DEF CodexTypes, ClientTypeOK, Methods
  <2>8. CallAgrees'
    BY <1>1, <1>2, <2>1, <2>5 DEF CallAgrees, Quietly
  <2>9. ticked' = total' + turn'.usage
    BY <1>1, <1>2, <1>3, <1>4, <2>4
  <2>10. CodexAgrees'
    BY <1>1, <1>3, <1>5, <2>1, <2>9 DEF CodexAgrees, Exited
  <2>11. AwaitsTurn'
    <3>1. TurnsLeft' = TurnsLeft
      BY <1>1 DEF TurnsLeft, Quietly
    <3> QED
      BY <1>3, <1>5, <2>1, <2>4, <2>5, <3>1 DEF AwaitsTurn, Exited
  <2> QED
    BY <1>1, <1>2, <2>4, <2>6, <2>7, <2>8, <2>10, <2>11, CodexStep DEF CodexStrong, Quietly
<1>6. CASE answer.with # "result"
  <2>1. /\ CloseWith(Failed(NoUsage))
        /\ answer' = NoAnswer
        /\ UNCHANGED <<threads, requests>>
    BY <1>6 DEF OfCodex, CodexThreadStarted
  <2>2. /\ step' = "closing" /\ outcome' = Failed(NoUsage) /\ TurnsDropped
        /\ killTimer' = ~Exited /\ UNCHANGED process
    BY <2>1 DEF CloseWith, Close
  <2>3. total' \in Nat /\ total' <= spent /\ spent' = spent
    BY <1>1, <1>2, <1>3
  <2>4. /\ NothingAhead' /\ TurnAgrees' /\ BufferFits' /\ turn' = Rest
        /\ turn' \in TurnRecords /\ open' \subseteq MainTurns /\ answered' \subseteq MainTurns
        /\ work' \subseteq Kinds \X MainTurns /\ kids' \in [MainTurns -> Nat \cup {NoUsage}]
        /\ chatter' \in 0..MaxChatter /\ turn'.usage = 0
    BY <1>1, <2>2, <2>3, TurnsEnd
  <2>5. /\ outcome' \in Results /\ outcome'.ok = FALSE /\ outcome'.value = "none"
        /\ outcome'.usage = NoUsage
    BY <2>2 DEF Failed, Results
  <2>6. Fits(outcome)' /\ Honest(outcome)'
    BY <2>5 DEF Fits, Honest
  <2>7. CallTypeOK'
    BY <1>1, <1>2, <2>1, <2>2, <2>5 DEF CallTypeOK, Quietly
  <2>8. CodexTypes'
    BY <1>2, <2>1, <2>2, <2>4 DEF CodexTypes, ClientTypeOK
  <2>9. CallAgrees'
    BY <1>1, <1>2, <2>1, <2>2, <2>6 DEF CallAgrees, Quietly
  <2>10. ticked' = total' + turn'.usage
    BY <1>1, <1>2, <1>3, <1>4, <2>4
  <2>11. CodexAgrees' /\ AwaitsTurn'
    BY <1>1, <1>3, <2>1, <2>2, <2>10 DEF CodexAgrees, AwaitsTurn, Exited
  <2> QED
    BY <1>1, <1>2, <2>4, <2>7, <2>8, <2>9, <2>11, CodexStep DEF CodexStrong, Quietly
<1> QED
  BY <1>5, <1>6

LEMMA NextTurnKeeps ==
    ASSUME ExecStrong, backend = "codex", TurnOver, answer = NoAnswer, Quietly,
           total' = total + turn.usage, StartTurn(turn.no + 1),
           UNCHANGED <<aborted, spent, ticked, threads, result, outcome, process>>,
           wire' \in BOOLEAN, attempt' \in 0..retries,
           TurnsLeft \in Nat, TurnsLeft' = TurnsLeft - 1, TurnsLeft # 0
    PROVE  ExecStrong'
<1>1. /\ CallTypeOK /\ CodexTypes /\ ClientTypeOK /\ CallAgrees /\ CodexAgrees /\ AwaitsTurn
      /\ TurnAgrees
      /\ spent \in Nat /\ total \in Nat /\ turn.no \in Nat /\ turn.usage \in Nat
  BY InCodex
<1>2. step = "turning" /\ turn.status # "running"
  BY DEF TurnOver
<1>3. /\ turn.no >= 1 /\ turn.no + TurnsLeft <= MaxTurns
      /\ process # "unborn" /\ requests \subseteq {"turn/start"}
      /\ Exited => requests = {}
      /\ ticked = total + turn.usage /\ ~killTimer
  BY <1>1, <1>2 DEF AwaitsTurn, CodexAgrees
<1>4. PICK n \in Nat : n = turn.no + 1
  BY <1>1
<1>5. /\ n <= MaxTurns /\ n >= 1 /\ n + TurnsLeft' <= MaxTurns
  BY <1>1, <1>3, <1>4, TurnBounds
<1>6. /\ step' = "turning" /\ turn' = NewTurn(n)
      /\ open' = IF Exited THEN open ELSE open \cup {n}
      /\ Request("turn/start")
      /\ UNCHANGED <<work, kids, answered, chatter, killTimer>>
  BY <1>4 DEF StartTurn
<1>7. /\ NothingAhead' /\ TurnAgrees' /\ BufferFits'
      /\ turn' \in TurnRecords /\ open' \subseteq MainTurns
      /\ turn'.no = n /\ turn'.seen = FALSE /\ turn'.usage = 0 /\ turn'.status = "running"
  <2>1. open' \subseteq open \cup {n}
    BY <1>6
  <2> QED
    BY <1>4, <1>5, <1>6, <2>1, TurnBegins
<1>8. PICK lost : lost = [to |-> "turn/start", with |-> "lost"]
  OBVIOUS
<1>9. lost \in Answers /\ lost.with = "lost" /\ lost # NoAnswer
  BY <1>8, AnswersAssumption DEF Answers, Methods
<1>10. CallTypeOK'
  BY <1>1, <1>6 DEF CallTypeOK, Quietly
<1>11. CallAgrees'
  BY <1>1, <1>2, <1>6 DEF CallAgrees, Quietly
<1>12. ticked' = total' + turn'.usage
  <2>1. PICK a \in Nat : a = total' /\ ticked' = a
    BY <1>1, <1>3
  <2>2. a + 0 = a
    BY <2>1
  <2> QED
    BY <1>7, <2>1, <2>2, Zenon
<1>13. CASE Exited
  <2>1. answer' = lost /\ requests' = requests /\ requests = {}
    BY <1>3, <1>6, <1>8, <1>13 DEF Request
  <2>2. CodexTypes'
    BY <1>1, <1>6, <1>7, <1>9, <2>1 DEF CodexTypes, ClientTypeOK
  <2>3. CodexAgrees'
    BY <1>3, <1>6, <1>9, <1>12, <2>1 DEF CodexAgrees
  <2>4. AwaitsTurn'
    BY <1>3, <1>5, <1>7, <1>9, <2>1 DEF AwaitsTurn
  <2> QED
    BY <1>1, <1>7, <1>10, <1>11, <2>2, <2>3, <2>4, CodexStep DEF CodexStrong, Quietly
<1>14. CASE ~Exited
  <2>1. answer' = answer /\ requests' = requests \cup {"turn/start"}
    BY <1>6, <1>14 DEF Request
  <2>2. CodexTypes'
    BY <1>1, <1>3, <1>6, <1>7, <2>1 DEF CodexTypes, ClientTypeOK, Methods
  <2>3. CodexAgrees'
    BY <1>3, <1>6, <1>12, <1>14, <2>1 DEF CodexAgrees, Exited
  <2>4. AwaitsTurn'
    BY <1>3, <1>5, <1>7, <1>14, <2>1 DEF AwaitsTurn, Exited
  <2> QED
    BY <1>1, <1>7, <1>10, <1>11, <2>2, <2>3, <2>4, CodexStep DEF CodexStrong, Quietly
<1> QED
  BY <1>13, <1>14

LEMMA CloseKeeps ==
    ASSUME ExecStrong, backend = "codex", TurnOver, answer = NoAnswer, Quietly,
           total' = total + turn.usage, NEW r, CloseWith(r), Fits(r), r.usage = total',
           UNCHANGED <<aborted, spent, ticked, threads, result, wire, attempt, requests, answer>>
    PROVE  ExecStrong'
<1>1. /\ CallTypeOK /\ CodexTypes /\ ClientTypeOK /\ CallAgrees /\ CodexAgrees
      /\ TurnAgrees
      /\ spent \in Nat /\ total \in Nat /\ turn.usage \in Nat
  BY InCodex
<1>2. step = "turning"
  BY DEF TurnOver
<1>3. /\ step' = "closing" /\ outcome' = r /\ TurnsDropped
      /\ killTimer' = ~Exited /\ UNCHANGED process
  BY DEF CloseWith, Close
<1>4. /\ ticked = total + turn.usage /\ total + turn.usage <= spent
      /\ Exited => requests = {}
  BY <1>1 DEF CodexAgrees, TurnAgrees, Metered
<1>5. PICK a \in Nat : a = total' /\ ticked' = a /\ a <= spent /\ spent' = spent
  BY <1>1, <1>4
<1>6. /\ NothingAhead' /\ TurnAgrees' /\ BufferFits' /\ turn' = Rest
      /\ turn' \in TurnRecords /\ open' \subseteq MainTurns /\ answered' \subseteq MainTurns
      /\ work' \subseteq Kinds \X MainTurns /\ kids' \in [MainTurns -> Nat \cup {NoUsage}]
      /\ chatter' \in 0..MaxChatter /\ turn'.usage = 0
  BY <1>3, <1>5, TurnsEnd
<1>7. Fits(outcome)'
  BY <1>3 DEF Fits, Quietly
<1>8. Honest(outcome)'
  <2>1. a \in ticked'..spent'
    BY <1>1, <1>5
  <2> QED
    BY <1>3, <1>5, <2>1 DEF Honest
<1>9. CallTypeOK'
  BY <1>1, <1>3, <1>5, <1>7 DEF CallTypeOK, Quietly, Fits
<1>10. CodexTypes'
  BY <1>1, <1>3, <1>6 DEF CodexTypes, ClientTypeOK
<1>11. CallAgrees'
  BY <1>1, <1>2, <1>3, <1>5, <1>7, <1>8 DEF CallAgrees, Quietly
<1>12. ticked' = total' + turn'.usage
  <2>1. a + 0 = a
    BY <1>5
  <2> QED
    BY <1>5, <1>6, <2>1, Zenon
<1>13. CodexAgrees' /\ AwaitsTurn'
  BY <1>1, <1>3, <1>4, <1>12 DEF CodexAgrees, AwaitsTurn, Exited
<1> QED
  BY <1>1, <1>6, <1>9, <1>10, <1>11, <1>13, CodexStep DEF CodexStrong, Quietly

LEMMA TurnOverKeeps ==
    ASSUME ExecStrong, OfCodex(CodexTurnOver)
    PROVE  ExecStrong'
<1>1. /\ backend = "codex" /\ TurnOver /\ answer = NoAnswer /\ Quietly
      /\ total' = total + turn.usage
      /\ UNCHANGED <<aborted, spent, ticked, threads, result>>
  BY DEF OfCodex, CodexTurnOver, Quietly
<1>2. /\ CallTypeOK /\ total \in Nat /\ turn.usage \in Nat
      /\ retries \in Nat /\ attempt \in Nat /\ attempt <= retries
      /\ wire \in BOOLEAN
  BY <1>1, InCodex DEF CallTypeOK
<1>3. TurnsLeft \in Nat
  BY <1>2 DEF TurnsLeft
<1>4. PICK a \in Nat : a = total'
  BY <1>1, <1>2
<1>5. CASE /\ turn.status = "failed" /\ turn.blame = "server" /\ wire
           /\ wire' = FALSE
           /\ StartTurn(turn.no + 1)
           /\ UNCHANGED <<attempt, outcome, process>>
  <2>1. TurnsLeft' = TurnsLeft - 1 /\ TurnsLeft # 0 /\ attempt' \in 0..retries
    BY <1>1, <1>2, <1>5 DEF TurnsLeft, Quietly
  <2> QED
    BY <1>1, <1>3, <1>5, <2>1, NextTurnKeeps
<1>6. CASE /\ turn.status # "completed"
           /\ CloseWith(Failed(total'))
           /\ UNCHANGED <<wire, attempt, requests, answer>>
  <2>1. PICK r : r = Failed(total')
    OBVIOUS
  <2>2. Fits(r) /\ r.usage = total'
    BY <1>4, <2>1 DEF Failed, Fits, Results
  <2> QED
    BY <1>1, <1>6, <2>1, <2>2, CloseKeeps
<1>7. CASE \E valid \in BOOLEAN :
            /\ turn.status = "completed"
            /\ IF ReplyIsFinal(valid)
               THEN /\ CloseWith(ReplyResult(valid, total'))
                    /\ UNCHANGED <<attempt, requests, answer>>
               ELSE /\ attempt' = attempt + 1
                    /\ StartTurn(turn.no + 1)
                    /\ UNCHANGED <<outcome, process>>
            /\ UNCHANGED wire
  <2>1. PICK valid \in BOOLEAN :
            /\ turn.status = "completed"
            /\ IF ReplyIsFinal(valid)
               THEN /\ CloseWith(ReplyResult(valid, total'))
                    /\ UNCHANGED <<attempt, requests, answer>>
               ELSE /\ attempt' = attempt + 1
                    /\ StartTurn(turn.no + 1)
                    /\ UNCHANGED <<outcome, process>>
            /\ wire' = wire
    BY <1>7
  <2>2. CASE ReplyIsFinal(valid)
    <3>1. PICK r : r = ReplyResult(valid, total')
      OBVIOUS
    <3>2. Fits(r) /\ r.usage = total'
      BY <1>2, <1>4, <3>1 DEF ReplyResult, Succeeded, Failed, Fits, Results, CallTypeOK
    <3>3. CloseWith(r) /\ UNCHANGED <<wire, attempt, requests, answer>>
      BY <2>1, <2>2, <3>1
    <3> QED
      BY <1>1, <3>2, <3>3, CloseKeeps
  <2>3. CASE ~ReplyIsFinal(valid)
    <3>1. attempt # retries
      BY <2>3 DEF ReplyIsFinal
    <3>2. /\ attempt' = attempt + 1 /\ StartTurn(turn.no + 1)
          /\ UNCHANGED <<outcome, process>> /\ wire' = wire
      BY <2>1, <2>3
    <3>3. attempt' \in 0..retries
      BY <1>2, <3>1, <3>2
    <3>4. TurnsLeft' = TurnsLeft - 1 /\ TurnsLeft # 0
      BY <1>1, <1>2, <3>1, <3>2 DEF TurnsLeft, Quietly
    <3> QED
      BY <1>1, <1>2, <1>3, <3>2, <3>3, <3>4, NextTurnKeeps
  <2> QED
    BY <2>2, <2>3
<1> QED
  BY <1>5, <1>6, <1>7 DEF OfCodex, CodexTurnOver

LEMMA RespondKeeps ==
    ASSUME ExecStrong, backend = "codex", Quietly, Idle,
           NEW m \in Methods, NEW how \in {"result", "error"}, Respond(m, how),
           UNCHANGED <<turn, work, kids, answered, chatter>>, open' \subseteq open,
           UNCHANGED <<ticked, spent, aborted, threads, result, process, step, total, attempt,
                       wire, outcome>>
    PROVE  ExecStrong'
<1>1. /\ CallTypeOK /\ ClientTypeOK /\ CallAgrees /\ CodexAgrees /\ AwaitsTurn
  BY InCodex
<1>2. /\ process \notin {"unborn", "gone"} /\ answer = NoAnswer
      /\ m \in requests /\ requests' = requests \ {m}
      /\ answer' = IF Closed THEN answer ELSE [to |-> m, with |-> how]
      /\ killTimer' = killTimer
  BY DEF Respond, Settles
<1>3. PICK said : said = [to |-> m, with |-> how]
  OBVIOUS
<1>4. said \in Answers /\ said # NoAnswer /\ said.with = how
  BY <1>3, AnswersAssumption DEF Answers
<1>5. Closed => answer' = NoAnswer
  BY <1>2
<1>6. ~Closed => answer' = said
  BY <1>2, <1>3
<1>7. CallTypeOK'
  BY <1>1 DEF CallTypeOK, Quietly
<1>8. ClientTypeOK'
  BY <1>1, <1>2, <1>4, <1>5, <1>6 DEF ClientTypeOK
<1>9. CallAgrees'
  BY <1>1 DEF CallAgrees, Quietly, Fits, Honest
<1>10. step = "turning" => turn.status = "running"
  BY DEF Idle, TurnOver
<1>11. CodexAgrees'
  <2>1. ~Exited
    BY <1>2 DEF Exited
  <2>2. /\ ~Exited' /\ TurnsLeft' = TurnsLeft
        /\ step = "start" => requests = {}
        /\ step = "initializing" => requests = {"initialize"}
        /\ step = "threading" => requests = {"thread/start"}
    BY <1>1, <1>2, <2>1 DEF CodexAgrees, Awaits, Exited, TurnsLeft, Quietly
  <2>3. /\ step # "start"
        /\ step \in {"initializing", "threading"} => requests' = {} /\ answer' = said
    BY <1>2, <1>6, <2>2 DEF Closed
  <2> QED
    BY <1>1, <1>2, <1>4, <2>1, <2>2, <2>3 DEF CodexAgrees, Awaits
<1>12. AwaitsTurn'
  <2>1. SUFFICES ASSUME step = "turning" PROVE AwaitsTurn'
    BY DEF AwaitsTurn
  <2>2. requests \subseteq {"turn/start"} /\ ~turn.seen /\ turn.no >= 1
        /\ turn.no + TurnsLeft <= MaxTurns
    BY <1>1, <1>2, <2>1 DEF AwaitsTurn
  <2>3. requests' = {} /\ TurnsLeft' = TurnsLeft
    BY <1>2, <2>2 DEF TurnsLeft, Quietly
  <2> QED
    BY <1>2, <1>10, <2>1, <2>2, <2>3 DEF AwaitsTurn, Exited
<1> QED
  BY <1>7, <1>8, <1>9, <1>11, <1>12, QuietStep DEF Quietly

LEMMA NotifyKeeps ==
    ASSUME ExecStrong, backend = "codex", Quietly, NEW m, Said(m),
           UNCHANGED <<requests, answer, killTimer>>,
           UNCHANGED <<aborted, threads, result, process, step, total, attempt, wire, outcome>>
    PROVE  ExecStrong'
<1>1. /\ CallTypeOK /\ CodexTypes /\ ClientTypeOK /\ CallAgrees /\ CodexAgrees /\ AwaitsTurn
      /\ NothingAhead /\ TurnAgrees /\ BufferFits
      /\ spent \in Nat /\ total \in Nat /\ ticked \in Nat
      /\ turn.no \in Nat /\ turn.usage \in Nat
  BY InCodex DEF CodexStrong
<1>2. /\ Says(m) /\ Room(m)
      /\ step = "turning" /\ process \notin {"unborn", "gone"}
      /\ turn' = OnNotification(turn, m)
      /\ ticked' = IF turn'.usage = turn.usage THEN ticked ELSE total + turn'.usage
  BY DEF Said, Notify, TurnBecomes
<1>3. turn.no \in MainTurns /\ turn.no >= 1 /\ turn.no + TurnsLeft <= MaxTurns
      /\ requests \subseteq {"turn/start"}
  BY <1>1, <1>2 DEF AwaitsTurn, MainTurns, CodexTypes, TurnRecords
<1>4. /\ turn' \in TurnRecords /\ TurnAgrees'
      /\ turn'.no = turn.no /\ turn'.seen = turn.seen /\ turn.usage <= turn'.usage
      /\ turn.status # "running" => turn' = turn
      /\ ~turn.seen => turn'.status = turn.status
      /\ Len(turn'.buffer) \in {Len(turn.buffer), Len(turn.buffer) + 1}
  BY <1>1, <1>2, <1>3, TurnHears
<1>5. m \in Messages
  BY <1>2 DEF Says
<1>6. /\ spent' \in Nat /\ spent' >= spent /\ spent' <= MaxTokens /\ open' \subseteq open
      /\ answered' \subseteq MainTurns /\ work' \subseteq Kinds \X MainTurns
      /\ kids' \in [MainTurns -> Nat \cup {NoUsage}]
  <2>1. /\ spent <= MaxTokens /\ MaxTokens \in Nat /\ open \subseteq MainTurns
        /\ answered \subseteq MainTurns
        /\ work \subseteq Kinds \X MainTurns /\ kids \in [MainTurns -> Nat \cup {NoUsage}]
        /\ "subagent" \in Kinds /\ Items \subseteq Kinds /\ m.turn \in Nat
        /\ m.method \in {"item/started", "item/completed"} => m.turn \in MainTurns /\ m.item \in Items
    BY <1>1, <1>5, ExecutorAssumption DEF CallTypeOK, CodexTypes, Kinds, Messages
  <2>2. CASE SaysItem(m)
    BY <1>1, <2>1, <2>2 DEF SaysItem
  <2>3. CASE SaysAnswer(m)
    BY <1>1, <2>1, <2>3 DEF SaysAnswer
  <2>4. CASE SaysUsage(m)
    BY <1>1, <2>1, <2>4 DEF SaysUsage
  <2>5. CASE SaysSpawn(m)
    BY <1>1, <2>1, <2>5 DEF SaysSpawn
  <2>6. CASE SaysBegin(m)
    BY <1>1, <2>1, <2>6 DEF SaysBegin
  <2>7. CASE SaysEnd(m)
    BY <1>1, <2>1, <2>7 DEF SaysEnd
  <2>8. CASE SaysError(m) \/ SaysOver(m)
    BY <1>1, <2>1, <2>8 DEF SaysError, SaysOver
  <2> QED
    BY <1>2, <2>2, <2>3, <2>4, <2>5, <2>6, <2>7, <2>8 DEF Says
<1>7. NothingAhead'
  <2>1. ASSUME NEW k \in MainTurns, k > turn.no PROVE Unbegun(k)'
    <3>1. Unbegun(k) /\ kids \in [MainTurns -> Nat \cup {NoUsage}]
      BY <1>1, <2>1 DEF NothingAhead, CodexTypes
    <3>2. m.method \in {"item/started", "item/completed"} => m.item \in Items
      BY <1>5 DEF Messages
    <3>3. CASE SaysItem(m)
      <4>1. m.turn # k
        BY <3>1, <3>3 DEF SaysItem, Unbegun
      <4> QED
        BY <3>1, <3>3, <4>1 DEF SaysItem, Unbegun
    <3>4. CASE SaysAnswer(m)
      BY <3>1, <3>4 DEF SaysAnswer, Unbegun
    <3>5. CASE SaysUsage(m)
      BY <3>1, <3>5 DEF SaysUsage, Unbegun
    <3>6. CASE SaysSpawn(m)
      BY <3>1, <3>6 DEF SaysSpawn, Unbegun
    <3>7. CASE SaysBegin(m)
      <4>1. m.thread # k
        BY <3>1, <3>7 DEF SaysBegin, Unbegun
      <4> QED
        BY <3>1, <3>7, <4>1 DEF SaysBegin, Unbegun
    <3>8. CASE SaysEnd(m)
      BY <3>1, <3>8 DEF SaysEnd, Unbegun
    <3>9. CASE SaysError(m) \/ SaysOver(m)
      BY <3>1, <3>9 DEF SaysError, SaysOver, Unbegun
    <3> QED
      BY <1>2, <3>3, <3>4, <3>5, <3>6, <3>7, <3>8, <3>9 DEF Says
  <2> QED
    BY <1>2, <1>4, <2>1 DEF NothingAhead
<1>8. BufferFits'
  <2>1. /\ Cardinality(open) \in Nat /\ Cardinality(open') \in Nat
        /\ Cardinality(open') <= Cardinality(open) /\ Cardinality(open) <= MaxTurns
        /\ IsFiniteSet(open)
    BY <1>1, <1>6, Count DEF CodexTypes
  <2>2. Len(turn.buffer) \in Nat /\ Len(turn'.buffer) <= Len(turn.buffer) + 1
    <3>1. Len(turn.buffer) \in Nat
      BY <1>1, LenProperties DEF CodexTypes, TurnRecords
    <3> QED
      BY <1>4, <3>1
  <2>3. Len(turn'.buffer) \in Nat
    BY <1>4, <2>2
  <2>4. CASE Len(turn.buffer) < MaxBuffered
    BY <2>1, <2>2, <2>3, <2>4, TurnBounds DEF BufferFits
  <2>5. CASE SaysOver(m)
    <3>1. Cardinality(open') = Cardinality(open) - 1
      BY <2>1, <2>5, FS_RemoveElement DEF SaysOver
    <3> QED
      BY <1>1, <2>1, <2>2, <2>3, <3>1, TurnBounds DEF BufferFits
  <2> QED
    BY <1>2, <2>4, <2>5 DEF Room
<1>9. ticked' = total' + turn'.usage /\ ticked' \in Nat /\ ticked' <= spent'
  <2>1. turn'.usage \in Nat
    BY <1>4 DEF TurnRecords
  <2>2. ticked = total + turn.usage
    BY <1>1 DEF CodexAgrees
  <2>3. ticked' = total + turn'.usage
    BY <1>2, <2>2
  <2>4. total' + turn'.usage <= spent'
    BY <1>4 DEF TurnAgrees, Metered
  <2> QED
    BY <1>1, <2>1, <2>3, <2>4
<1>10. CallTypeOK'
  BY <1>1, <1>6, <1>9 DEF CallTypeOK, Quietly
<1>11. CodexTypes'
  BY <1>1, <1>2, <1>4, <1>6 DEF CodexTypes, ClientTypeOK, Room
<1>12. CallAgrees'
  BY <1>1, <1>2, <1>9 DEF CallAgrees, Quietly
<1>13. CodexAgrees'
  BY <1>1, <1>2, <1>9 DEF CodexAgrees, Exited
<1>14. AwaitsTurn'
  <2>1. /\ turn.seen => requests = {}
        /\ answer # NoAnswer /\ answer.with = "result" =>
             requests = {} /\ ~turn.seen /\ turn.status = "running"
    BY <1>1, <1>2 DEF AwaitsTurn
  <2>2. TurnsLeft' = TurnsLeft
    BY DEF TurnsLeft, Quietly
  <2> QED
    BY <1>2, <1>3, <1>4, <2>1, <2>2 DEF AwaitsTurn, Exited
<1> QED
  BY <1>4, <1>6, <1>7, <1>8, <1>10, <1>11, <1>12, <1>13, <1>14, CodexStep DEF CodexStrong, Quietly

LEMMA ServerKeeps ==
    ASSUME ExecStrong, OfCodex(CodexServer)
    PROVE  ExecStrong'
<1>1. /\ backend = "codex" /\ Quietly
      /\ UNCHANGED <<aborted, threads, result, process, step, total, attempt, wire, outcome>>
  BY DEF OfCodex, CodexServer, Quietly
<1>2. CodexTypes /\ CallTypeOK
  BY <1>1, InCodex
<1>3. CASE Server /\ UNCHANGED clientVars
  <2>1. PICK m : Said(m)
    BY <1>2, <1>3, ServerSays
  <2>2. UNCHANGED <<requests, answer, killTimer>>
    BY <1>3 DEF clientVars
  <2> QED
    BY <1>1, <2>1, <2>2, NotifyKeeps
<1>4. CASE Idle /\ ServerStartsTurn /\ UNCHANGED <<ticked, spent>>
  <2>1. PICK how \in {"result", "error"} : Respond("turn/start", how)
    BY <1>4 DEF ServerStartsTurn
  <2>2. open' \subseteq open /\ UNCHANGED <<turn, work, kids, answered, chatter>>
    BY <1>4 DEF ServerStartsTurn
  <2>3. PICK m \in Methods : m = "turn/start"
    BY DEF Methods
  <2> QED
    BY <1>1, <1>4, <2>1, <2>2, <2>3, RespondKeeps
<1>5. CASE /\ Idle
           /\ \E m \in Methods \ {"turn/start"}, how \in {"result", "error"} :
                 Respond(m, how) /\ UNCHANGED turnVars
           /\ UNCHANGED <<ticked, spent>>
  <2>1. PICK m \in Methods, how \in {"result", "error"} : Respond(m, how) /\ UNCHANGED turnVars
    BY <1>5
  <2>2. open' \subseteq open /\ UNCHANGED <<turn, work, kids, answered, chatter>>
    BY <2>1 DEF turnVars
  <2> QED
    BY <1>1, <1>5, <2>1, <2>2, RespondKeeps
<1> QED
  BY <1>3, <1>4, <1>5 DEF OfCodex, CodexServer

(* A step of the turn's own: a timer, the response, the signal.            *)
LEMMA TurnStep ==
    ASSUME ExecStrong, backend = "codex", Quietly, step = "turning",
           turn' \in TurnRecords, turn'.no = turn.no, TurnAgrees',
           turn'.buffer \in {turn.buffer, <<>>},
           UNCHANGED <<open, work, kids, answered, chatter, spent, threads, result, process,
                       step, total, attempt, wire, outcome, killTimer, requests>>,
           aborted' \in BOOLEAN, ticked' = total + turn'.usage,
           answer' \in {answer, NoAnswer}, AwaitsTurn'
    PROVE  ExecStrong'
<1>1. /\ CallTypeOK /\ CodexTypes /\ ClientTypeOK /\ CallAgrees /\ CodexAgrees
      /\ NothingAhead /\ BufferFits /\ spent \in Nat /\ total \in Nat
  BY InCodex DEF CodexStrong
<1>2. turn'.usage \in Nat /\ ticked' \in Nat /\ ticked' <= spent'
  <2>1. turn'.usage \in Nat
    BY DEF TurnRecords
  <2>2. total' + turn'.usage <= spent'
    BY DEF TurnAgrees, Metered
  <2> QED
    BY <1>1, <2>1, <2>2
<1>3. CallTypeOK'
  BY <1>1, <1>2 DEF CallTypeOK, Quietly
<1>4. CodexTypes'
  BY <1>1 DEF CodexTypes, ClientTypeOK
<1>5. CallAgrees'
  BY <1>1, <1>2 DEF CallAgrees, Quietly
<1>6. CodexAgrees'
  BY <1>1 DEF CodexAgrees, Exited
<1>7. NothingAhead'
  BY <1>1 DEF NothingAhead, Unbegun
<1>8. BufferFits'
  <2>1. Len(turn'.buffer) \in {Len(turn.buffer), 0}
    BY EmptySeq
  <2>2. Len(turn.buffer) \in Nat
    BY <1>1, LenProperties DEF CodexTypes, TurnRecords
  <2>3. Cardinality(open) \in Nat
    BY <1>1, Count DEF CodexTypes
  <2> QED
    BY <1>1, <2>1, <2>2, <2>3, TurnBounds DEF BufferFits
<1> QED
  BY <1>1, <1>3, <1>4, <1>5, <1>6, <1>7, <1>8, CodexStep DEF CodexStrong, Quietly

LEMMA TurnTimerKeeps ==
    ASSUME ExecStrong, OfCodex(CodexTurnTimer)
    PROVE  ExecStrong'
<1>1. /\ backend = "codex" /\ Quietly /\ step = "turning" /\ Idle
      /\ InferTimer \/ GraceTimer \/ InactivityTimer
      /\ UNCHANGED <<requests, answer, killTimer, open, work, kids, answered, chatter>>
      /\ UNCHANGED <<aborted, spent, threads, result, process, step, total, attempt,
                     wire, outcome>>
  BY DEF OfCodex, CodexTurnTimer, TurnTimer, Quietly
<1>2. /\ CallTypeOK /\ CodexTypes /\ CodexAgrees /\ AwaitsTurn /\ TurnAgrees
      /\ ticked \in Nat /\ total \in Nat /\ turn.usage \in Nat
  BY <1>1, InCodex
<1>3. turn.status = "running" /\ answer = NoAnswer
  BY <1>1 DEF Idle, TurnOver
<1>4. ticked = total + turn.usage /\ ~Exited
  BY <1>1, <1>2, <1>3 DEF CodexAgrees, AwaitsTurn
<1>5. TurnsLeft' = TurnsLeft
  BY <1>1 DEF TurnsLeft, Quietly
<1>6. ASSUME NEW status \in Statuses, NEW blame \in {"none", "server", "client"},
             TurnBecomes(SettleTurn(turn, status, blame))
      PROVE  ExecStrong'
  <2>1. /\ TurnAgrees' /\ turn' \in TurnRecords
        /\ turn'.status # "running" /\ turn'.no = turn.no /\ turn'.seen = turn.seen
        /\ turn'.usage = turn.usage /\ turn'.buffer = turn.buffer
    BY <1>1, <1>2, <1>6, TurnSettled DEF TurnBecomes
  <2>2. ticked' = total + turn'.usage
    BY <1>4, <1>6, <2>1 DEF TurnBecomes
  <2>3. AwaitsTurn'
    BY <1>1, <1>2, <1>3, <1>5, <2>1 DEF AwaitsTurn
  <2>4. aborted' \in BOOLEAN /\ answer' \in {answer, NoAnswer}
    BY <1>1, <1>2 DEF CallTypeOK
  <2> QED
    BY <1>1, <2>1, <2>2, <2>3, <2>4, TurnStep
<1>7. CASE turn' = [turn EXCEPT !.infer = FALSE] /\ turn.infer /\ TurnBecomes(turn')
  <2>1. PICK t \in TurnRecords : t = turn
    BY <1>2 DEF CodexTypes
  <2>2. PICK s : s = [t EXCEPT !.infer = FALSE]
    OBVIOUS
  <2>3. s = turn'
    BY <1>7, <2>1, <2>2
  <2>4. s \in TurnRecords
    BY <2>2 DEF TurnRecords
  <2>5. /\ s.no = t.no /\ s.status = t.status /\ s.seen = t.seen /\ s.aborted = t.aborted
        /\ s.final = t.final /\ s.busy = t.busy /\ s.subs = t.subs /\ s.known = t.known
        /\ s.ids = t.ids /\ s.base = t.base /\ s.usage = t.usage /\ s.buffer = t.buffer
    BY <2>2 DEF TurnRecords
  <2>6. t.seen
    BY <1>2, <1>7, <2>1 DEF TurnAgrees
  <2>7. Sees(t, t.aborted)
    BY <1>2, <1>3, <2>1, <2>6 DEF TurnAgrees
  <2>8. turn'.no = turn.no
    BY <2>1, <2>3, <2>5
  <2>9. Sees(s, s.aborted)'
    BY <1>1, <2>4, <2>5, <2>7, <2>8 DEF Sees, Metered, Follows
  <2>10. TurnAgrees'
    BY <2>3, <2>5, <2>6, <2>9 DEF TurnAgrees, Sees
  <2>11. ticked' = total + turn'.usage
    BY <1>4, <1>7, <2>1, <2>3, <2>5 DEF TurnBecomes
  <2>12. AwaitsTurn'
    BY <1>1, <1>2, <1>3, <1>4, <1>5, <2>1, <2>3, <2>5 DEF AwaitsTurn, Exited
  <2>13. aborted' \in BOOLEAN /\ answer' \in {answer, NoAnswer}
    BY <1>1, <1>2 DEF CallTypeOK
  <2> QED
    BY <1>1, <2>1, <2>3, <2>4, <2>5, <2>10, <2>11, <2>12, <2>13, TurnStep
<1>8. CASE InferTimer
  <2>1. TurnBecomes(SettleTurn(turn, "completed", "none"))
          \/ (turn.infer /\ TurnBecomes([turn EXCEPT !.infer = FALSE]))
    BY <1>8 DEF InferTimer, InferenceFires
  <2>2. CASE turn.infer /\ TurnBecomes([turn EXCEPT !.infer = FALSE])
    <3>1. turn' = [turn EXCEPT !.infer = FALSE] /\ TurnBecomes(turn')
      BY <2>2 DEF TurnBecomes
    <3> QED
      BY <1>7, <2>2, <3>1
  <2>3. CASE TurnBecomes(SettleTurn(turn, "completed", "none"))
    <3>1. "completed" \in Statuses
      BY DEF Statuses
    <3> QED
      BY <1>6, <2>3, <3>1
  <2> QED
    BY <2>1, <2>2, <2>3
<1>9. CASE GraceTimer
  <2>1. "interrupted" \in Statuses
    BY DEF Statuses
  <2> QED
    BY <1>6, <1>9, <2>1 DEF GraceTimer
<1>10. CASE InactivityTimer
  <2>1. "failed" \in Statuses
    BY DEF Statuses
  <2> QED
    BY <1>6, <1>10, <2>1 DEF InactivityTimer
<1> QED
  BY <1>1, <1>8, <1>9, <1>10

(* The response, and what has waited for it.                               *)
LEMMA ResponseSeen ==
    ASSUME ExecStrong, backend = "codex", step = "turning", answer # NoAnswer,
           answer.with = "result",
           NEW s, s = IF turn.no \in open THEN OnResponse(turn)
                      ELSE CompleteTurn(OnResponse(turn), "completed")
    PROVE  Sees(s, turn.aborted) /\ turn.status = "running" /\ ~turn.seen
<1>1. /\ CodexTypes /\ TurnAgrees /\ AwaitsTurn /\ turn \in TurnRecords
  BY InCodex
<1>2. turn.status = "running" /\ ~turn.seen
  BY <1>1 DEF AwaitsTurn
<1>3. PICK t \in TurnRecords : t = turn
  BY <1>1
<1>4. [t EXCEPT !.aborted = t.aborted] = t
  BY DEF TurnRecords
<1>5. PICK v : v = OnResponse(turn)
  OBVIOUS
<1>6. Sees(v, turn.aborted)
  <2>1. \A b \in {turn.aborted, TRUE} : Sees(Foreseen(b), b)
    BY <1>1, <1>2 DEF TurnAgrees
  <2>2. Sees(Foreseen(turn.aborted), turn.aborted)
    BY <2>1
  <2>3. Foreseen(turn.aborted) = v
    BY <1>3, <1>4, <1>5 DEF Foreseen
  <2> QED
    BY <2>2, <2>3
<1>7. CASE turn.no \in open
  BY <1>2, <1>5, <1>6, <1>7
<1>8. CASE turn.no \notin open
  <2>1. v \in TurnRecords /\ v.no = turn.no /\ v.aborted = turn.aborted
    BY <1>6 DEF Sees
  <2>2. PICK status \in {"completed", "interrupted", "failed"} :
          /\ s = SettleTurn(v, status, "server")
          /\ status = "completed" => ~v.aborted
    BY <1>5, <1>8 DEF CompleteTurn
  <2>3. /\ Onward(v, s)
        /\ s.status = IF v.status = "running" THEN status ELSE v.status
        /\ s.base = v.base /\ s.usage = v.usage
    BY <2>1, <2>2, SettledIs
  <2>4. s.status # "running"
    BY <2>3
  <2>5. s.status = "completed" => ~turn.aborted
    BY <1>6, <2>1, <2>2, <2>3 DEF Sees
  <2>6. Metered(s)
    BY <1>6, <2>3 DEF Sees, Metered
  <2> QED
    BY <1>2, <1>6, <1>8, <2>1, <2>3, <2>4, <2>5, <2>6 DEF Sees, Onward
<1> QED
  BY <1>7, <1>8

LEMMA TurnStartedKeeps ==
    ASSUME ExecStrong, OfCodex(CodexTurnStarted)
    PROVE  ExecStrong'
<1>1. /\ backend = "codex" /\ Quietly /\ step = "turning" /\ answer # NoAnswer
      /\ answer' = NoAnswer
      /\ UNCHANGED <<requests, open, work, kids, answered, chatter, killTimer>>
      /\ UNCHANGED <<aborted, spent, threads, result, process, step, total, attempt,
                     wire, outcome>>
  BY DEF OfCodex, CodexTurnStarted, TurnStarted, Quietly
<1>2. /\ CallTypeOK /\ CodexTypes /\ ClientTypeOK /\ CodexAgrees /\ AwaitsTurn /\ TurnAgrees
      /\ ticked \in Nat /\ total \in Nat /\ turn.usage \in Nat /\ turn \in TurnRecords
  BY <1>1, InCodex
<1>3. /\ turn.no >= 1 /\ turn.no + TurnsLeft <= MaxTurns
      /\ process # "unborn" /\ requests \subseteq {"turn/start"}
      /\ turn.seen => requests = {}
      /\ answer.with = "result" => requests = {} /\ ~Exited
      /\ ticked = total + turn.usage
  BY <1>1, <1>2 DEF AwaitsTurn, CodexAgrees
<1>4. TurnsLeft' = TurnsLeft /\ (Exited' <=> Exited)
  BY <1>1 DEF TurnsLeft, Quietly, Exited
<1>5. aborted' \in BOOLEAN /\ answer' \in {answer, NoAnswer}
  BY <1>1, <1>2 DEF CallTypeOK
<1>6. CASE answer.with = "result"
  <2>1. PICK s : s = IF turn.no \in open THEN OnResponse(turn)
                     ELSE CompleteTurn(OnResponse(turn), "completed")
    OBVIOUS
  <2>2. TurnBecomes(s)
    BY <1>6, <2>1 DEF OfCodex, CodexTurnStarted, TurnStarted
  <2>3. Sees(s, turn.aborted)
    BY <1>1, <1>6, <2>1, ResponseSeen
  <2>4. s = turn' /\ ticked' = total + s.usage
    BY <1>3, <2>2 DEF TurnBecomes
  <2>5. s \in TurnRecords /\ s.no = turn.no /\ s.seen /\ s.aborted = turn.aborted /\ s.buffer = <<>>
    BY <2>3 DEF Sees
  <2>6. Sees(s, s.aborted)'
    BY <1>1, <2>3, <2>4, <2>5, SeesKept
  <2>7. TurnAgrees'
    BY <2>4, <2>5, <2>6 DEF TurnAgrees, Sees
  <2>8. AwaitsTurn'
    BY <1>1, <1>3, <1>4, <1>6, <2>4, <2>5 DEF AwaitsTurn
  <2> QED
    BY <1>1, <1>5, <2>4, <2>5, <2>7, <2>8, TurnStep
<1>7. CASE answer.with # "result"
  <2>1. PICK blame \in {"none", "server", "client"} :
           TurnBecomes(IF turn.no \in open THEN SettleTurn(turn, "failed", blame)
                       ELSE CompleteTurn(SettleTurn(turn, "failed", blame), "completed"))
    <3>1. answer.with \in {"error", "lost"}
      BY <1>1, <1>2, <1>7 DEF ClientTypeOK, Answers
    <3>2. CASE answer.with = "error"
      BY <3>2 DEF OfCodex, CodexTurnStarted, TurnStarted
    <3>3. CASE answer.with = "lost"
      BY <3>3 DEF OfCodex, CodexTurnStarted, TurnStarted
    <3> QED
      BY <3>1, <3>2, <3>3
  <2>2. PICK s : s = SettleTurn(turn, "failed", blame)
    OBVIOUS
  <2>3. s.status # "running"
    BY <1>2, <2>2, SettledIs
  <2>4. CompleteTurn(s, "completed") = s
    BY <2>3 DEF CompleteTurn, SettleTurn
  <2>5. TurnBecomes(s)
    BY <2>1, <2>2, <2>4
  <2>6. "failed" \in Statuses /\ turn' = SettleTurn(turn, "failed", blame) /\ open' \subseteq open
    BY <1>1, <2>2, <2>5 DEF TurnBecomes, Statuses
  <2>7. /\ TurnAgrees' /\ turn' \in TurnRecords
        /\ turn'.status # "running" /\ turn'.no = turn.no /\ turn'.seen = turn.seen
        /\ turn'.usage = turn.usage /\ turn'.buffer = turn.buffer
    BY <1>1, <1>2, <2>6, TurnSettled
  <2>8. ticked' = total + turn'.usage
    BY <1>3, <2>2, <2>5, <2>7 DEF TurnBecomes
  <2>9. AwaitsTurn'
    BY <1>1, <1>3, <1>4, <2>7 DEF AwaitsTurn
  <2> QED
    BY <1>1, <1>5, <2>7, <2>8, <2>9, TurnStep
<1> QED
  BY <1>6, <1>7

(* The signal leaves a turn as it is, but for the mark.                    *)
LEMMA TurnAborted ==
    ASSUME CodexTypes, TurnAgrees, turn.status = "running", turn' = [turn EXCEPT !.aborted = TRUE],
           UNCHANGED <<open, work, kids, answered, total, spent>>
    PROVE  /\ TurnAgrees' /\ turn' \in TurnRecords
           /\ turn'.status = turn.status /\ turn'.no = turn.no /\ turn'.seen = turn.seen
           /\ turn'.usage = turn.usage /\ turn'.buffer = turn.buffer
<1>1. PICK t \in TurnRecords : t = turn
  BY DEF CodexTypes
<1>2. PICK s : s = [t EXCEPT !.aborted = TRUE]
  OBVIOUS
<1>3. s = turn'
  BY <1>1, <1>2
<1>4. s \in TurnRecords
  BY <1>2 DEF TurnRecords
<1>5. /\ s.no = t.no /\ s.status = t.status /\ s.seen = t.seen /\ s.aborted = TRUE
      /\ s.final = t.final /\ s.busy = t.busy /\ s.subs = t.subs /\ s.known = t.known
      /\ s.ids = t.ids /\ s.base = t.base /\ s.usage = t.usage /\ s.buffer = t.buffer
      /\ s.infer = t.infer
  BY <1>2 DEF TurnRecords
<1>6. Metered(s)'
  BY <1>1, <1>5 DEF TurnAgrees, Metered
<1>7. turn'.no = turn.no /\ open' \subseteq open
  BY <1>1, <1>3, <1>5
<1>8. CASE t.seen
  <2>1. Sees(t, t.aborted)
    BY <1>1, <1>8 DEF TurnAgrees
  <2>2. Follows(t) /\ t.no = turn.no /\ t.buffer = <<>>
    BY <1>1, <2>1 DEF Sees
  <2>3. Follows(s)'
    BY <1>5, <2>2 DEF Follows
  <2>4. Sees(s, TRUE)'
    BY <1>1, <1>3, <1>4, <1>5, <1>6, <1>8, <2>2, <2>3 DEF Sees
  <2>5. TurnAgrees'
    BY <1>3, <1>5, <1>6, <1>8, <2>4 DEF TurnAgrees
  <2> QED
    BY <1>1, <1>3, <1>4, <1>5, <2>5
<1>9. CASE ~t.seen
  <2>1. \A b \in {turn.aborted, TRUE} : Sees(Foreseen(b), b)
    BY <1>1, <1>9 DEF TurnAgrees
  <2>2. Sees(Foreseen(TRUE), TRUE)
    BY <2>1
  <2>3. [s EXCEPT !.aborted = TRUE] = s
    BY <1>4, <1>5 DEF TurnRecords
  <2>4. Foreseen(TRUE) = OnResponse(s)
    BY <1>1, <1>2 DEF Foreseen
  <2>5. PICK v : v = OnResponse(s)
    OBVIOUS
  <2>6. Sees(v, TRUE)'
    BY <1>7, <2>2, <2>4, <2>5, SeesKept
  <2>7. Foreseen(TRUE)' = v
    BY <1>3, <2>3, <2>5 DEF Foreseen
  <2>8. \A b \in {turn'.aborted, TRUE} : Sees(Foreseen(b), b)'
    BY <1>3, <1>5, <2>6, <2>7
  <2>9. TurnAgrees'
    BY <1>1, <1>3, <1>5, <1>6, <1>9, <2>8 DEF TurnAgrees
  <2> QED
    BY <1>1, <1>3, <1>4, <1>5, <2>9
<1> QED
  BY <1>8, <1>9

LEMMA AbortKeeps ==
    ASSUME ExecStrong, OfCodex(CodexAbort)
    PROVE  ExecStrong'
<1>1. /\ backend = "codex" /\ Quietly /\ result = Pending /\ Idle /\ aborted' = TRUE
      /\ turn' = IF step = "turning" THEN AbortTurn(turn) ELSE turn
      /\ answer' = IF step = "threading" THEN [to |-> "thread/start", with |-> "lost"]
                   ELSE answer
      /\ UNCHANGED <<requests, killTimer, open, work, kids, answered, chatter, spent, ticked,
                     threads, result, process, step, total, attempt, wire, outcome>>
  BY DEF OfCodex, CodexAbort, Quietly
<1>2. /\ CallTypeOK /\ CodexTypes /\ ClientTypeOK /\ CallAgrees /\ CodexAgrees /\ AwaitsTurn
      /\ TurnAgrees /\ turn \in TurnRecords
  BY <1>1, InCodex
<1>3. TurnsLeft' = TurnsLeft /\ (Exited' <=> Exited) /\ answer = NoAnswer
  BY <1>1 DEF TurnsLeft, Quietly, Exited, Idle
<1>4. CASE step = "turning"
  <2>1. turn.status = "running" /\ answer' = answer
    BY <1>1, <1>4 DEF Idle, TurnOver
  <2>2. turn' = [turn EXCEPT !.aborted = TRUE]
    BY <1>1, <1>4, <2>1 DEF AbortTurn
  <2>3. /\ TurnAgrees' /\ turn' \in TurnRecords
        /\ turn'.status = turn.status /\ turn'.no = turn.no /\ turn'.seen = turn.seen
        /\ turn'.usage = turn.usage /\ turn'.buffer = turn.buffer
    BY <1>1, <1>2, <2>1, <2>2, TurnAborted
  <2>4. ticked' = total + turn'.usage
    BY <1>1, <1>2, <2>3 DEF CodexAgrees
  <2>5. AwaitsTurn'
    BY <1>1, <1>2, <1>3, <2>1, <2>3 DEF AwaitsTurn
  <2> QED
    BY <1>1, <1>4, <2>1, <2>3, <2>4, <2>5, TurnStep
<1>5. CASE step # "turning"
  <2>1. PICK lost : lost = [to |-> "thread/start", with |-> "lost"]
    OBVIOUS
  <2>2. lost \in Answers /\ lost.with = "lost" /\ lost # NoAnswer
    BY <2>1, AnswersAssumption DEF Answers, Methods
  <2>3. turn' = turn /\ answer' = IF step = "threading" THEN lost ELSE answer
    BY <1>1, <1>5, <2>1
  <2>4. CallTypeOK'
    BY <1>1, <1>2 DEF CallTypeOK, Quietly
  <2>5. ClientTypeOK'
    BY <1>1, <1>2, <2>2, <2>3 DEF ClientTypeOK
  <2>6. CallAgrees'
    BY <1>1, <1>2 DEF CallAgrees, Quietly, Fits, Honest
  <2>7. CodexAgrees'
    BY <1>1, <1>2, <1>3, <2>2, <2>3 DEF CodexAgrees, Awaits
  <2>8. AwaitsTurn'
    BY <1>1, <1>5 DEF AwaitsTurn
  <2>9. UNCHANGED <<turn, work, kids, answered, chatter, spent, total>> /\ open' \subseteq open
    BY <1>1, <2>3
  <2> QED
    BY <1>1, <1>5, <2>4, <2>5, <2>6, <2>7, <2>8, <2>9, QuietStep DEF Quietly
<1> QED
  BY <1>4, <1>5

LEMMA ExitKeeps ==
    ASSUME ExecStrong, OfCodex(CodexExit)
    PROVE  ExecStrong'
<1>1. /\ backend = "codex" /\ Quietly /\ Idle
      /\ process \notin {"unborn", "gone"} /\ process' = "gone" /\ requests' = {}
      /\ answer' = IF requests = {} \/ Closed THEN answer
                   ELSE [to |-> CHOOSE m \in requests : TRUE, with |-> "lost"]
      /\ killTimer' = FALSE
      /\ turn' = IF step = "turning" THEN ExitTurn(turn) ELSE turn
      /\ open' = {}
      /\ UNCHANGED <<work, kids, answered, chatter, aborted, spent, ticked, threads, result,
                     step, total, attempt, wire, outcome>>
  BY DEF OfCodex, CodexExit, HandleExit, Quietly
<1>2. /\ CallTypeOK /\ CodexTypes /\ ClientTypeOK /\ CallAgrees /\ CodexAgrees /\ AwaitsTurn
      /\ NothingAhead /\ TurnAgrees /\ BufferFits /\ turn \in TurnRecords
      /\ spent \in Nat /\ total \in Nat
  BY <1>1, InCodex DEF CodexStrong
<1>3. TurnsLeft' = TurnsLeft /\ answer = NoAnswer /\ Exited'
  BY <1>1 DEF TurnsLeft, Quietly, Exited, Idle
<1>4. PICK m : m = CHOOSE x \in requests : TRUE
  OBVIOUS
<1>5. PICK lost : lost = [to |-> m, with |-> "lost"]
  OBVIOUS
<1>6. requests # {} => lost \in Answers /\ lost.with = "lost" /\ lost # NoAnswer
  <2>1. requests # {} => m \in Methods
    BY <1>2, <1>4 DEF ClientTypeOK
  <2> QED
    BY <1>5, <2>1, AnswersAssumption DEF Answers
<1>7. answer' = IF requests = {} \/ Closed THEN NoAnswer ELSE lost
  BY <1>1, <1>3, <1>4, <1>5
<1>8. ClientTypeOK' /\ (answer' # NoAnswer => answer'.with = "lost")
  BY <1>1, <1>2, <1>6, <1>7 DEF ClientTypeOK
<1>9. CallTypeOK'
  BY <1>1, <1>2 DEF CallTypeOK, Quietly, Processes
<1>10. CallAgrees'
  BY <1>1, <1>2 DEF CallAgrees, Quietly, Fits, Honest
<1>11. CASE step = "turning"
  <2>1. "failed" \in Statuses /\ turn' = SettleTurn(turn, "failed", "client") /\ open' \subseteq open
    BY <1>1, <1>11 DEF ExitTurn, Statuses
  <2>2. /\ TurnAgrees' /\ turn' \in TurnRecords
        /\ turn'.status # "running" /\ turn'.no = turn.no /\ turn'.seen = turn.seen
        /\ turn'.usage = turn.usage /\ turn'.buffer = turn.buffer
    BY <1>1, <1>2, <2>1, TurnSettled
  <2>3. CodexTypes'
    BY <1>1, <1>2, <1>8, <2>2 DEF CodexTypes
  <2>4. CodexAgrees'
    BY <1>1, <1>2, <1>3, <1>8, <1>11, <2>2 DEF CodexAgrees
  <2>5. AwaitsTurn'
    BY <1>1, <1>2, <1>3, <1>8, <1>11, <2>2 DEF AwaitsTurn
  <2>6. NothingAhead'
    BY <1>1, <1>2, <1>11, <2>2 DEF NothingAhead, Unbegun
  <2>7. BufferFits'
    <3>1. Cardinality(open) \in Nat /\ Cardinality(open') \in Nat
          /\ Cardinality(open') <= Cardinality(open)
      BY <1>2, <2>1, Count DEF CodexTypes
    <3>2. Len(turn.buffer) \in Nat
      BY <1>2, LenProperties DEF TurnRecords
    <3> QED
      BY <1>2, <2>2, <3>1, <3>2, TurnBounds DEF BufferFits
  <2> QED
    BY <1>1, <1>2, <1>9, <1>10, <2>2, <2>3, <2>4, <2>5, <2>6, <2>7, CodexStep DEF CodexStrong, Quietly
<1>12. CASE step # "turning"
  <2>1. step # "start" /\ (step \in {"initializing", "threading"} => requests # {} /\ ~Closed)
    BY <1>1, <1>2, <1>3 DEF CallAgrees, CodexAgrees, Awaits, Closed
  <2>2. step \in {"initializing", "threading"} => answer' # NoAnswer
    BY <1>6, <1>7, <2>1
  <2>3. turn' = turn /\ open' \subseteq open
    BY <1>1, <1>12
  <2>4. CodexAgrees'
    BY <1>1, <1>2, <1>3, <1>8, <2>1, <2>2, <2>3 DEF CodexAgrees, Awaits
  <2>5. AwaitsTurn'
    BY <1>1, <1>12 DEF AwaitsTurn
  <2> QED
    BY <1>1, <1>8, <1>9, <1>10, <1>12, <2>3, <2>4, <2>5, QuietStep DEF Quietly
<1> QED
  BY <1>11, <1>12

(* A call whose schema does not compile has started nothing.               *)
LEMMA UncompiledSettles ==
    ASSUME ExecStrong, NEW r, Uncompiled(r), r \in Results, r.usage = NoUsage \/ r.usage = 0,
           UNCHANGED <<backend, schema, compiles, retries>>,
           \/ r.value = IF ~r.ok THEN "none" ELSE IF schema THEN "object" ELSE "text"
           \/ r = Rejected /\ backend = "claude" /\ ~compiles,
           ticked = 0, process # "running"
    PROVE  CallTypeOK' /\ CallAgrees' /\ Fits(result)' /\ result' # Pending
<1>1. /\ step = "start" /\ ~compiles /\ step' = "done" /\ result' = r
      /\ UNCHANGED <<aborted, spent, ticked, threads, process, total, attempt, wire, outcome>>
  BY DEF Uncompiled
<1>2. CallTypeOK /\ CallAgrees /\ Pending \notin Results /\ spent \in Nat
  BY ExecutorAssumption DEF ExecStrong, Types, CallTypeOK, Results
<1>3. CallTypeOK'
  BY <1>1, <1>2 DEF CallTypeOK
<1>4. Fits(result)'
  BY <1>1 DEF Fits, Rejected
<1>5. Honest(result)'
  BY <1>1, <1>2 DEF Honest
<1> QED
  BY <1>1, <1>2, <1>3, <1>4, <1>5 DEF CallAgrees

LEMMA CodexUncompiledKeeps ==
    ASSUME ExecStrong, OfCodex(CodexUncompiled)
    PROVE  ExecStrong'
<1>1. backend = "codex" /\ Uncompiled(Failed(NoUsage)) /\ UNCHANGED codexVars /\ Quietly
  BY DEF OfCodex, CodexUncompiled, Quietly
<1>2. /\ step = "start" /\ step' = "done"
      /\ UNCHANGED <<aborted, spent, ticked, threads, process, total, attempt, wire, outcome>>
  BY <1>1 DEF Uncompiled
<1>3. /\ ClientTypeOK /\ CallAgrees /\ CodexAgrees /\ NothingAhead
      /\ turn \in TurnRecords /\ ticked \in Nat
  BY <1>1, InCodex
<1>4. process = "unborn" /\ turn.usage = 0 /\ total = 0 /\ ticked = 0
  BY <1>1, <1>2, <1>3, RestIs DEF CallAgrees, CodexAgrees, NothingAhead
<1>5. PICK r : r = Failed(NoUsage)
  OBVIOUS
<1>6. r \in Results /\ r.usage = NoUsage /\ r.value = "none" /\ ~r.ok
  BY <1>5 DEF Failed, Results
<1>7. CallTypeOK' /\ CallAgrees'
  BY <1>1, <1>4, <1>5, <1>6, UncompiledSettles DEF Quietly
<1>8. /\ UNCHANGED <<turn, work, kids, answered, chatter, spent, total>> /\ open' \subseteq open
      /\ UNCHANGED <<requests, answer, killTimer>>
  BY <1>1, <1>2 DEF codexVars, turnVars, clientVars
<1>9. ClientTypeOK'
  BY <1>3, <1>8 DEF ClientTypeOK
<1>10. CodexAgrees' /\ AwaitsTurn'
  BY <1>1, <1>2, <1>3, <1>4, <1>8 DEF CodexAgrees, AwaitsTurn, Exited
<1> QED
  BY <1>1, <1>2, <1>7, <1>8, <1>9, <1>10, QuietStep DEF Quietly

LEMMA CodexKeeps ==
    ASSUME ExecStrong, OfCodex(CodexNext)
    PROVE  ExecStrong'
<1>1. \/ OfCodex(CodexUncompiled)
      \/ OfCodex(CodexStart) \/ OfCodex(CodexInitialized) \/ OfCodex(CodexThreadStarted)
      \/ OfCodex(CodexTurnStarted) \/ OfCodex(CodexTurnOver) \/ OfCodex(CodexClosed)
      \/ OfCodex(CodexAbort) \/ OfCodex(CodexExit) \/ OfCodex(CodexKillTimer)
      \/ OfCodex(CodexServer) \/ OfCodex(CodexRequestTimeout) \/ OfCodex(CodexTurnTimer)
  BY DEF OfCodex, CodexNext, CodexContinue
<1> QED
  BY <1>1, CodexUncompiledKeeps, StartKeeps, InitializedKeeps, ThreadStartedKeeps, TurnStartedKeeps, TurnOverKeeps,
     ClosedKeeps, AbortKeeps, ExitKeeps, KillTimerKeeps, ServerKeeps, TimeoutKeeps, TurnTimerKeeps
-----------------------------------------------------------------------------
(* The steps of the claude adapter.                                        *)
LEMMA InCall ==
    ASSUME ExecStrong
    PROVE  /\ CallTypeOK /\ CodexTypes /\ ClaudeTypes /\ OpencodeTypes /\ CallAgrees
           /\ spent \in Nat /\ total \in Nat /\ ticked \in Nat /\ threads \in Nat
           /\ MaxTokens \in Nat /\ spent <= MaxTokens
           /\ retries \in Nat /\ attempt \in Nat /\ attempt <= retries
           /\ process \in Processes /\ Pending \notin Results
           /\ NoUsage \notin Nat
BY ExecutorAssumption DEF ExecStrong, Types, CallTypeOK, Results

LEMMA CodexTypesKept ==
    ASSUME CodexTypes, UNCHANGED codexVars
    PROVE  CodexTypes'
BY DEF CodexTypes, ClientTypeOK, codexVars, clientVars, turnVars

LEMMA ClaudeStep ==
    ASSUME ExecStrong, backend = "claude",
           UNCHANGED <<codexVars, opencodeVars, backend, schema, compiles, retries>>,
           spent' \in Nat, spent' >= spent,
           CallTypeOK', ClaudeTypes', CallAgrees', ClaudeAgrees'
    PROVE  ExecStrong'
<1>1. CodexTypes'
  BY CodexTypesKept DEF ExecStrong, Types
<1>2. spent \in Nat /\ message \in Nat /\ earlier \in Nat /\ message <= spent /\ earlier <= spent
  BY InCall DEF OpencodeTypes
<1>3. message' <= spent' /\ earlier' <= spent'
  BY <1>2 DEF opencodeVars
<1>4. OpencodeTypes'
  BY <1>3 DEF ExecStrong, Types, OpencodeTypes, opencodeVars
<1>5. turn' = turn
  BY DEF codexVars, turnVars
<1> QED
  BY <1>1, <1>4, <1>5 DEF ExecStrong, Types

LEMMA InClaude ==
    ASSUME ExecStrong, backend = "claude"
    PROVE  /\ ClaudeAgrees
           /\ step # "closing" /\ ticked <= total /\ total <= spent /\ threads \in 0..1
BY DEF ExecStrong, ClaudeAgrees, CallAgrees

LEMMA SettledFits ==
    ASSUME schema \in BOOLEAN, schema' = schema, NEW usage \in Nat \cup {NoUsage},
           NEW valid \in BOOLEAN, NEW r, r \in {Failed(usage), ReplyResult(valid, usage)}
    PROVE  /\ r \in Results /\ r.usage = usage
           /\ r.value = IF ~r.ok THEN "none" ELSE IF schema THEN "object" ELSE "text"
<1>1. CASE r = Failed(usage)
  BY <1>1 DEF Failed, Results
<1>2. CASE r = Succeeded(usage)
  <2>1. CASE schema
    BY <1>2, <2>1 DEF Succeeded, Results
  <2>2. CASE ~schema
    BY <1>2, <2>2 DEF Succeeded, Results
  <2> QED
    BY <2>1, <2>2
<1> QED
  BY <1>1, <1>2 DEF ReplyResult

LEMMA ClaudeUncompiledKeeps ==
    ASSUME ExecStrong, OfClaude(ClaudeUncompiled)
    PROVE  ExecStrong'
<1>1. /\ backend = "claude" /\ Uncompiled(Rejected)
      /\ UNCHANGED <<claudeVars, codexVars, opencodeVars, backend, schema, compiles, retries>>
  BY DEF OfClaude, ClaudeUncompiled
<1>2. /\ step = "start" /\ step' = "done" /\ ~compiles /\ result' = Rejected
      /\ UNCHANGED <<aborted, spent, ticked, threads, process, total, attempt, wire, outcome>>
  BY <1>1 DEF Uncompiled
<1>3. /\ CallTypeOK /\ ClaudeTypes /\ CallAgrees /\ ClaudeAgrees /\ spent \in Nat
      /\ Pending \notin Results
  BY <1>1, InCall, InClaude
<1>4. /\ Rejected \in Results /\ Rejected.usage = NoUsage /\ process # "running"
  BY <1>2, <1>3 DEF Rejected, Results, ClaudeAgrees
<1>5. CallTypeOK'
  BY <1>1, <1>2, <1>3, <1>4 DEF CallTypeOK
<1>6. Fits(result)' /\ Honest(result)' /\ result' # Pending
  BY <1>1, <1>2, <1>3, <1>4 DEF Fits, Honest, Rejected
<1>7. CallAgrees'
  BY <1>1, <1>2, <1>3, <1>4, <1>6 DEF CallAgrees
<1>8. ClaudeTypes' /\ spent' >= spent
  BY <1>1, <1>2, <1>3 DEF ClaudeTypes, claudeVars
<1>9. ClaudeAgrees'
  BY <1>1, <1>2, <1>3 DEF ClaudeAgrees, claudeVars
<1> QED
  BY <1>1, <1>2, <1>3, <1>5, <1>7, <1>8, <1>9, ClaudeStep

LEMMA ClaudeCallKeeps ==
    ASSUME ExecStrong, OfClaude(ClaudeCall)
    PROVE  ExecStrong'
<1>1. /\ backend = "claude" /\ step = "start"
      /\ UNCHANGED <<claudeVars, aborted, spent, ticked, threads, total, attempt,
                     wire, outcome>>
      /\ UNCHANGED <<codexVars, opencodeVars, backend, schema, compiles, retries>>
      /\ IF aborted
         THEN /\ step' = "done"
              /\ result' = Failed(total)
              /\ UNCHANGED process
         ELSE /\ step' = "running"
              /\ process' = "running"
              /\ UNCHANGED result
  BY DEF OfClaude, ClaudeCall, AtClaude
<1>2. /\ CallTypeOK /\ ClaudeTypes /\ CallAgrees /\ ClaudeAgrees /\ ticked <= total /\ total <= spent
      /\ spent \in Nat /\ total \in Nat /\ ticked \in Nat /\ Pending \notin Results
      /\ process \in Processes
  BY <1>1, InCall, InClaude
<1>3. ClaudeTypes' /\ spent' >= spent
  BY <1>1, <1>2 DEF ClaudeTypes, claudeVars
<1>4. CASE aborted
  <2>1. PICK r : r = Failed(total)
    OBVIOUS
  <2>2. r \in Results /\ r.usage = total
        /\ r.value = IF ~r.ok THEN "none" ELSE IF schema THEN "object" ELSE "text"
    BY <1>1, <1>2, <2>1, SettledFits DEF CallTypeOK
  <2>3. result' = r /\ step' = "done" /\ process' = process /\ process # "running"
    BY <1>1, <1>2, <1>4, <2>1 DEF ClaudeAgrees
  <2>4. total \in ticked'..spent'
    BY <1>1, <1>2
  <2>5. Fits(result)' /\ Honest(result)'
    BY <1>1, <2>2, <2>3, <2>4 DEF Fits, Honest
  <2>6. CallTypeOK'
    BY <1>1, <1>2, <2>2, <2>3 DEF CallTypeOK
  <2>7. CallAgrees'
    BY <1>1, <1>2, <2>2, <2>3, <2>5 DEF CallAgrees
  <2>8. ClaudeAgrees'
    BY <1>1, <1>2, <2>3 DEF ClaudeAgrees, claudeVars
  <2> QED
    BY <1>1, <1>2, <1>3, <2>6, <2>7, <2>8, ClaudeStep
<1>5. CASE ~aborted
  <2>1. step' = "running" /\ process' = "running" /\ result' = result
    BY <1>1, <1>5
  <2>2. CallTypeOK'
    BY <1>1, <1>2, <2>1 DEF CallTypeOK, Processes
  <2>3. CallAgrees'
    BY <1>1, <1>2, <2>1 DEF CallAgrees
  <2>4. ClaudeAgrees'
    BY <1>1, <1>2, <2>1 DEF ClaudeAgrees, claudeVars
  <2> QED
    BY <1>1, <1>2, <1>3, <2>2, <2>3, <2>4, ClaudeStep
<1> QED
  BY <1>4, <1>5

LEMMA ClaudeSignalKeeps ==
    ASSUME ExecStrong, OfClaude(ClaudeAbort) \/ OfClaude(ClaudeKillTimer)
    PROVE  ExecStrong'
<1>1. /\ backend = "claude"
      /\ UNCHANGED <<spent, ticked, threads, result, step, total, attempt, wire, outcome>>
      /\ UNCHANGED <<codexVars, opencodeVars, backend, schema, compiles, retries>>
      /\ aborted' \in {aborted, TRUE}
      /\ interrupted' \in {interrupted, step = "running"}
      /\ claudeTimer' \in {FALSE, step = "running"}
      /\ \E sig \in {"SIGTERM", "SIGKILL"} : process' = Signal(sig)
  BY DEF OfClaude, ClaudeAbort, ClaudeKillTimer
<1>2. /\ CallTypeOK /\ ClaudeTypes /\ CallAgrees /\ ClaudeAgrees /\ spent \in Nat
      /\ process \in Processes
  BY <1>1, InCall, InClaude
<1>3. /\ process' \in Processes
      /\ process' \in {"running", "terminated", "killed"} <=> process \in {"running", "terminated", "killed"}
      /\ process' # "running"
  BY <1>1, <1>2 DEF Signal, Processes
<1>4. CallTypeOK'
  BY <1>1, <1>2, <1>3 DEF CallTypeOK
<1>5. ClaudeTypes'
  BY <1>1, <1>2 DEF ClaudeTypes
<1>6. CallAgrees'
  BY <1>1, <1>2, <1>3 DEF CallAgrees, Fits, Honest
<1>7. ClaudeAgrees'
  BY <1>1, <1>2, <1>3 DEF ClaudeAgrees
<1> QED
  BY <1>1, <1>2, <1>4, <1>5, <1>6, <1>7, ClaudeStep

(* What the closing of the process leads to.                               *)
LEMMA ClaudeCloses ==
    ASSUME ExecStrong, backend = "claude", NEW tokens \in 0..MaxTokens, NEW valid \in BOOLEAN,
           NEW envelope \in {"reply", "error", "garbage", "unspawned"},
           ClaudeClose(tokens, envelope, valid), schema' = schema
    PROVE  /\ step = "running" /\ process' = "gone" /\ claudeTimer' = FALSE
           /\ spent' \in Nat /\ spent' >= spent /\ spent' <= MaxTokens
           /\ total' \in Nat /\ total' >= total /\ total' <= spent'
           /\ ticked' \in {ticked, total'}
           /\ threads' \in 0..1 /\ threads' \in {threads, threads + 1}
           /\ UNCHANGED <<interrupted, aborted, wire, outcome>>
           /\ \/ /\ step' = "start" /\ attempt' = attempt + 1 /\ attempt # retries
                 /\ result' = result
              \/ /\ step' = "done" /\ attempt' = attempt
                 /\ result' \in Results /\ result'.usage = total'
                 /\ result'.value = IF ~result'.ok THEN "none"
                                    ELSE IF schema THEN "object" ELSE "text"
<1>1. /\ CallTypeOK /\ threads \in 0..1 /\ total <= spent
      /\ spent \in Nat /\ total \in Nat /\ tokens \in Nat /\ MaxTokens \in Nat
  BY InCall, InClaude
<1>2. PICK known : known = IF envelope = "garbage" THEN 0 ELSE tokens
  OBVIOUS
<1>3. known \in 0..tokens
  BY <1>1, <1>2
<1>4. PICK usage : usage = total + known
  OBVIOUS
<1>5. usage \in Nat /\ total <= usage /\ usage <= spent + tokens
  BY <1>1, <1>3, <1>4
<1>6. /\ step = "running"
      /\ spent + tokens <= MaxTokens
      /\ process' = "gone"
      /\ claudeTimer' = FALSE
      /\ spent' = spent + tokens
      /\ total' = usage
      /\ ticked' = IF interrupted \/ envelope = "unspawned" THEN ticked ELSE usage
      /\ threads' \in IF interrupted \/ threads = 1
                           \/ envelope \in {"garbage", "unspawned"}
                      THEN {threads} ELSE {threads, threads + 1}
      /\ IF ~interrupted /\ envelope = "reply" /\ ~ReplyIsFinal(valid)
         THEN step' = "start" /\ attempt' = attempt + 1 /\ UNCHANGED result
         ELSE /\ step' = "done"
              /\ result' = IF ~interrupted /\ envelope = "reply"
                           THEN ReplyResult(valid, usage) ELSE Failed(usage)
              /\ UNCHANGED attempt
      /\ UNCHANGED <<interrupted, aborted, wire, outcome>>
  BY <1>2, <1>4 DEF ClaudeClose, AtClaude
<1>7. threads' \in 0..1 /\ threads' \in {threads, threads + 1}
  BY <1>1, <1>6
<1>8. \/ /\ step' = "start" /\ attempt' = attempt + 1 /\ attempt # retries
         /\ result' = result
      \/ /\ step' = "done" /\ attempt' = attempt
         /\ result' \in Results /\ result'.usage = total'
         /\ result'.value = IF ~result'.ok THEN "none"
                            ELSE IF schema THEN "object" ELSE "text"
  <2>1. CASE ~interrupted /\ envelope = "reply" /\ ~ReplyIsFinal(valid)
    BY <1>6, <2>1 DEF ReplyIsFinal
  <2>2. CASE ~(~interrupted /\ envelope = "reply" /\ ~ReplyIsFinal(valid))
    <3>1. /\ step' = "done" /\ attempt' = attempt
          /\ result' \in {Failed(usage), ReplyResult(valid, usage)}
      BY <1>6, <2>2
    <3>2. PICK r : r = result'
      OBVIOUS
    <3>3. r \in Results /\ r.usage = usage
          /\ r.value = IF ~r.ok THEN "none" ELSE IF schema THEN "object" ELSE "text"
      BY <1>1, <1>5, <3>1, <3>2, SettledFits DEF CallTypeOK
    <3> QED
      BY <1>6, <3>1, <3>2, <3>3
  <2> QED
    BY <2>1, <2>2
<1>9. spent' \in Nat /\ spent' >= spent /\ spent' <= MaxTokens
      /\ total' \in Nat /\ total' >= total /\ total' <= spent' /\ ticked' \in {ticked, total'}
  BY <1>1, <1>5, <1>6
<1> QED
  BY <1>6, <1>7, <1>8, <1>9

LEMMA ClaudeExitKeeps ==
    ASSUME ExecStrong, OfClaude(ClaudeExit)
    PROVE  ExecStrong'
<1>1. /\ backend = "claude"
      /\ UNCHANGED <<codexVars, opencodeVars, backend, schema, compiles, retries>>
  BY DEF OfClaude, ClaudeExit
<1>2. PICK tokens \in 0..MaxTokens, valid \in BOOLEAN,
           envelope \in {"reply", "error", "garbage", "unspawned"} :
         ClaudeClose(tokens, envelope, valid)
  BY DEF OfClaude, ClaudeExit
<1>3. /\ step = "running" /\ process' = "gone" /\ claudeTimer' = FALSE
      /\ spent' \in Nat /\ spent' >= spent /\ spent' <= MaxTokens
      /\ total' \in Nat /\ total' >= total /\ total' <= spent'
      /\ ticked' \in {ticked, total'}
      /\ threads' \in 0..1
      /\ UNCHANGED <<interrupted, aborted, wire, outcome>>
      /\ \/ /\ step' = "start" /\ attempt' = attempt + 1 /\ attempt # retries
            /\ result' = result
         \/ /\ step' = "done" /\ attempt' = attempt
            /\ result' \in Results /\ result'.usage = total'
            /\ result'.value = IF ~result'.ok THEN "none"
                               ELSE IF schema THEN "object" ELSE "text"
  BY <1>1, <1>2, ClaudeCloses
<1>4. /\ CallTypeOK /\ ClaudeTypes /\ CallAgrees /\ ClaudeAgrees /\ ticked <= total
      /\ spent \in Nat /\ total \in Nat /\ ticked \in Nat /\ MaxTokens \in Nat
      /\ retries \in Nat /\ attempt \in Nat /\ attempt <= retries
      /\ Pending \notin Results
  BY <1>1, InCall, InClaude
<1>5. ticked' \in Nat /\ ticked' <= total' /\ total' \in ticked'..spent'
  BY <1>3, <1>4
<1>6. CallTypeOK'
  <2>1. attempt' \in 0..retries /\ result' \in Results \cup {Pending}
    BY <1>3, <1>4 DEF CallTypeOK
  <2>2. spent' \in 0..MaxTokens /\ threads' \in Nat
    BY <1>3, <1>4
  <2> QED
    BY <1>1, <1>3, <1>4, <1>5, <2>1, <2>2 DEF CallTypeOK, Processes
<1>7. ClaudeTypes'
  BY <1>3, <1>4 DEF ClaudeTypes
<1>8. step' = "done" => Fits(result)' /\ Honest(result)'
  <2>1. step' = "done" => result' \in Results /\ result'.usage = total'
            /\ result'.value = IF ~result'.ok THEN "none" ELSE IF schema THEN "object" ELSE "text"
    BY <1>3
  <2> QED
    BY <1>1, <1>5, <2>1 DEF Fits, Honest
<1>9. CallAgrees'
  <2>1. ticked' <= spent'
    BY <1>3, <1>5
  <2>2. result' = Pending <=> step' # "done"
    BY <1>3, <1>4 DEF CallAgrees
  <2> QED
    BY <1>1, <1>3, <1>8, <2>1, <2>2 DEF CallAgrees
<1>10. ClaudeAgrees'
  BY <1>3, <1>4, <1>5 DEF ClaudeAgrees
<1> QED
  BY <1>1, <1>3, <1>6, <1>7, <1>9, <1>10, ClaudeStep

LEMMA ClaudeKeeps ==
    ASSUME ExecStrong, OfClaude(ClaudeNext)
    PROVE  ExecStrong'
<1>1. \/ OfClaude(ClaudeUncompiled)
      \/ OfClaude(ClaudeCall) \/ OfClaude(ClaudeAbort) \/ OfClaude(ClaudeKillTimer)
      \/ OfClaude(ClaudeExit)
  BY DEF OfClaude, ClaudeNext
<1> QED
  BY <1>1, ClaudeUncompiledKeeps, ClaudeCallKeeps, ClaudeSignalKeeps, ClaudeExitKeeps
-----------------------------------------------------------------------------
(* The steps of the opencode adapter.                                      *)
Aside == UNCHANGED <<codexVars, claudeVars, backend, schema, compiles, retries>>

LEMMA OpencodeStep ==
    ASSUME ExecStrong, backend = "opencode", Aside,
           spent' \in 0..MaxTokens, aborted' \in BOOLEAN, wire' \in BOOLEAN,
           attempt' \in 0..retries, total' \in Nat, emitted' \in Nat, ticked' = emitted',
           threads' \in 0..1, process' \in Processes,
           result' \in Results \cup {Pending}, outcome' \in Results \cup {Pending},
           result' = Pending <=> step' # "done",
           step' = "closing" => Fits(outcome)',
           step' = "done" => Fits(result)' /\ process' # "running",
           step' = "start" => process' = "unborn",
           OpencodeTypes', OpencodeAgrees'
    PROVE  ExecStrong'
<1>1. CallTypeOK /\ CodexTypes /\ ClaudeTypes /\ schema \in BOOLEAN
  BY InCall DEF CallTypeOK
<1>2. CodexTypes'
  BY <1>1, CodexTypesKept DEF Aside
<1>3. ClaudeTypes'
  BY <1>1 DEF ClaudeTypes, claudeVars, Aside
<1>4. CallTypeOK'
  BY <1>1 DEF CallTypeOK, Aside
<1>5. CallAgrees'
  BY DEF CallAgrees, Honest, Aside
<1>6. turn' = turn
  BY DEF codexVars, turnVars, Aside
<1> QED
  BY <1>2, <1>3, <1>4, <1>5, <1>6 DEF ExecStrong, Types, Aside

LEMMA InOpencode ==
    ASSUME ExecStrong, backend = "opencode"
    PROVE  /\ CallTypeOK /\ OpencodeTypes /\ OpencodeAgrees /\ CallAgrees
           /\ spent \in Nat /\ total \in Nat /\ ticked \in Nat /\ ticked = emitted
           /\ emitted \in Nat /\ message \in Nat /\ live \in Nat /\ earlier \in Nat
           /\ spent \in 0..MaxTokens /\ aborted \in BOOLEAN /\ wire \in BOOLEAN
           /\ schema \in BOOLEAN
           /\ attempt \in 0..retries /\ retries \in Nat /\ attempt \in Nat /\ attempt <= retries
           /\ threads \in 0..1 /\ process \in Processes
           /\ result \in Results \cup {Pending} /\ outcome \in Results \cup {Pending}
           /\ Pending \notin Results
           /\ result = Pending <=> step # "done"
           /\ step = "start" => process = "unborn"
           /\ MaxTokens \in Nat /\ spent <= MaxTokens
<1>1. OpencodeAgrees
  BY DEF ExecStrong
<1> QED
  BY <1>1, InCall DEF CallTypeOK, OpencodeTypes, OpencodeAgrees, CallAgrees

LEMMA OpencodeTypesKept ==
    ASSUME OpencodeTypes, UNCHANGED opencodeVars, spent' = spent
    PROVE  OpencodeTypes'
BY DEF OpencodeTypes, opencodeVars

(* A result that is decided while the process is being closed.             *)
LEMMA FinishKeeps ==
    ASSUME ExecStrong, backend = "opencode", Aside, step \in {"session", "message"},
           NEW usage \in Nat, NEW valid \in BOOLEAN, NEW r,
           r \in {Failed(usage), ReplyResult(valid, usage)}, Finish(r),
           UNCHANGED <<spent, threads, result>>,
           aborted' \in BOOLEAN, wire' \in BOOLEAN, attempt' \in 0..retries, total' \in Nat,
           emitted' \in Nat, ticked' = emitted', OpencodeTypes'
    PROVE  ExecStrong'
<1>1. /\ schema \in BOOLEAN /\ process \in Processes /\ process # "unborn"
      /\ result \in Results \cup {Pending} /\ result = Pending
      /\ spent \in 0..MaxTokens /\ threads \in 0..1
  BY InOpencode DEF OpencodeAgrees, ServeRuns
<1>2. outcome' = r /\ step' = "closing" /\ process' = Signal("SIGTERM")
  BY DEF Finish
<1>3. process' \in Processes /\ process' # "running"
  BY <1>1, <1>2 DEF Signal, Processes
<1>4. r \in Results /\ r.value = IF ~r.ok THEN "none" ELSE IF schema THEN "object" ELSE "text"
  BY <1>1, SettledFits DEF Aside
<1>5. Fits(outcome)'
  BY <1>2, <1>4 DEF Fits, Aside
<1>6. OpencodeAgrees'
  BY <1>2, <1>3 DEF OpencodeAgrees
<1> QED
  BY <1>1, <1>2, <1>3, <1>4, <1>5, <1>6, OpencodeStep

LEMMA StartFailsKeeps ==
    ASSUME ExecStrong, backend = "opencode", Aside, step = "announcing", StartFails,
           UNCHANGED <<opencodeVars, spent, ticked, threads, total, attempt, wire, outcome>>,
           aborted' \in BOOLEAN
    PROVE  ExecStrong'
<1>1. /\ OpencodeTypes /\ schema \in BOOLEAN /\ process \in Processes
      /\ spent \in 0..MaxTokens /\ threads \in 0..1 /\ wire \in BOOLEAN
      /\ attempt \in 0..retries /\ total \in Nat /\ emitted \in Nat /\ ticked = emitted
      /\ outcome \in Results \cup {Pending} /\ Pending \notin Results
  BY InOpencode
<1>2. PICK r : r = Failed(total)
  OBVIOUS
<1>3. result' = r /\ step' = "done" /\ process' = Signal("SIGTERM")
  BY <1>2 DEF StartFails
<1>4. process' \in Processes /\ process' # "running"
  BY <1>1, <1>3 DEF Signal, Processes
<1>5. r \in Results /\ r.value = IF ~r.ok THEN "none" ELSE IF schema THEN "object" ELSE "text"
  <2>1. TRUE \in BOOLEAN
    OBVIOUS
  <2> QED
    BY <1>1, <1>2, SettledFits DEF Aside
<1>6. Fits(result)'
  BY <1>3, <1>5 DEF Fits, Aside
<1>7. OpencodeTypes'
  BY <1>1, OpencodeTypesKept
<1>8. emitted' = emitted
  BY DEF opencodeVars
<1>9. OpencodeAgrees'
  BY <1>1, <1>3, <1>8 DEF OpencodeAgrees
<1> QED
  BY <1>1, <1>3, <1>4, <1>5, <1>6, <1>7, <1>8, <1>9, OpencodeStep

(* A message is being worked on, and goes on being.                        *)
LEMMA MessageKeeps ==
    ASSUME ExecStrong, backend = "opencode", Aside,
           process \in {"running", "terminated", "killed"},
           step' = "message", UNCHANGED <<result, process, outcome>>, step # "done",
           spent' \in 0..MaxTokens, aborted' \in BOOLEAN, wire' \in BOOLEAN,
           attempt' \in 0..retries, total' \in Nat, emitted' \in Nat, ticked' = emitted',
           threads' \in 0..1, OpencodeTypes'
    PROVE  ExecStrong'
<1>1. /\ result \in Results \cup {Pending} /\ outcome \in Results \cup {Pending}
      /\ result = Pending /\ process \in Processes
  BY InOpencode
<1>2. OpencodeAgrees'
  BY DEF OpencodeAgrees
<1> QED
  BY <1>1, <1>2, OpencodeStep

LEMMA PostKeeps ==
    ASSUME ExecStrong, backend = "opencode", Aside,
           process \in {"running", "terminated", "killed"},
           PostMessage, step # "done",
           UNCHANGED <<stdio, events, spent, aborted, result, process, outcome>>,
           wire' \in BOOLEAN, attempt' \in 0..retries, total' \in Nat,
           emitted' \in Nat, ticked' = emitted', threads' \in 0..1
    PROVE  ExecStrong'
<1>1. /\ OpencodeTypes /\ message \in Nat /\ message <= spent /\ spent \in Nat
      /\ spent \in 0..MaxTokens /\ aborted \in BOOLEAN
  BY InOpencode DEF OpencodeTypes
<1>2. /\ step' = "message" /\ reply' = "waiting" /\ live' = total' /\ earlier' = message
      /\ message' = 0 /\ grace' = FALSE /\ idle' = 0
  BY DEF PostMessage
<1>3. OpencodeTypes'
  <2>1. stdio' = stdio /\ events' = events /\ spent' = spent
    OBVIOUS
  <2>2. message' \in Nat /\ earlier' \in Nat /\ message' <= spent' /\ earlier' <= spent'
    BY <1>1, <1>2, <2>1
  <2>3. stdio \in BOOLEAN /\ events \in 0..MaxEvents
    BY <1>1 DEF OpencodeTypes
  <2>4. stdio' \in BOOLEAN /\ events' \in 0..MaxEvents
    BY <2>1, <2>3
  <2>5. grace' \in BOOLEAN
    BY <1>2
  <2>6. idle' \in 0..2
    BY <1>2
  <2> QED
    BY <1>2, <2>2, <2>4, <2>5, <2>6 DEF OpencodeTypes
<1> QED
  BY <1>1, <1>2, <1>3, MessageKeeps

LEMMA OpencodeUncompiledKeeps ==
    ASSUME ExecStrong, OfOpencode(OpencodeUncompiled)
    PROVE  ExecStrong'
<1>1. backend = "opencode" /\ Aside /\ Uncompiled(Failed(total)) /\ UNCHANGED opencodeVars
  BY DEF OfOpencode, OpencodeUncompiled, Aside
<1>2. /\ step = "start" /\ step' = "done" /\ result' = Failed(total)
      /\ UNCHANGED <<aborted, spent, ticked, threads, process, total, attempt, wire, outcome>>
  BY <1>1 DEF Uncompiled
<1>3. /\ OpencodeTypes /\ OpencodeAgrees /\ schema \in BOOLEAN
      /\ process = "unborn" /\ process \in Processes
      /\ spent \in 0..MaxTokens /\ threads \in 0..1 /\ wire \in BOOLEAN /\ aborted \in BOOLEAN
      /\ attempt \in 0..retries /\ total \in Nat /\ emitted \in Nat /\ ticked = emitted
      /\ outcome \in Results \cup {Pending} /\ Pending \notin Results
  BY <1>1, <1>2, InOpencode
<1>4. PICK r : r = Failed(total)
  OBVIOUS
<1>5. r \in Results /\ r.value = IF ~r.ok THEN "none" ELSE IF schema THEN "object" ELSE "text"
  <2>1. TRUE \in BOOLEAN
    OBVIOUS
  <2> QED
    BY <1>1, <1>3, <1>4, SettledFits DEF Aside
<1>6. Fits(result)'
  BY <1>1, <1>2, <1>4, <1>5 DEF Fits, Aside
<1>7. OpencodeTypes' /\ emitted' = emitted
  BY <1>1, <1>2, <1>3, OpencodeTypesKept DEF opencodeVars
<1>8. OpencodeAgrees'
  BY <1>2, <1>3, <1>7 DEF OpencodeAgrees
<1>9. result' \in Results \cup {Pending} /\ result' # Pending
  BY <1>2, <1>3, <1>4, <1>5
<1> QED
  BY <1>1, <1>2, <1>3, <1>6, <1>7, <1>8, <1>9, OpencodeStep

LEMMA OpencodeBegins ==
    ASSUME ExecStrong, OfOpencode(OpencodeStart) \/ OfOpencode(OpencodeAnnounced)
    PROVE  ExecStrong'
<1>1. /\ backend = "opencode" /\ Aside
      /\ UNCHANGED <<opencodeVars, aborted, spent, ticked, threads, result, total, attempt,
                     wire, outcome>>
      /\ \/ step = "start" /\ step' = "announcing" /\ process' = "running"
         \/ step = "announcing" /\ ServeRuns /\ step' = "session" /\ process' = process
  BY DEF OfOpencode, OpencodeStart, OpencodeAnnounced, AtOpencode, Aside
<1>2. /\ OpencodeTypes /\ OpencodeAgrees
      /\ spent \in 0..MaxTokens /\ threads \in 0..1 /\ wire \in BOOLEAN /\ aborted \in BOOLEAN
      /\ attempt \in 0..retries /\ total \in Nat /\ emitted \in Nat /\ ticked = emitted
      /\ result \in Results \cup {Pending} /\ outcome \in Results \cup {Pending}
      /\ result = Pending
  BY <1>1, InOpencode
<1>3. OpencodeTypes' /\ emitted' = emitted
  BY <1>1, <1>2, OpencodeTypesKept DEF opencodeVars
<1>4. /\ process' \in {"running", "terminated", "killed"} /\ step' \in {"announcing", "session"}
      /\ threads = 0
  BY <1>1, <1>2 DEF ServeRuns, OpencodeAgrees
<1>5. OpencodeAgrees'
  BY <1>1, <1>2, <1>3, <1>4 DEF OpencodeAgrees, ServeRuns
<1>6. process' \in Processes
  BY <1>4 DEF Processes
<1> QED
  BY <1>1, <1>2, <1>3, <1>4, <1>5, <1>6, OpencodeStep

LEMMA OpencodeStartTimeoutKeeps ==
    ASSUME ExecStrong, OfOpencode(OpencodeStartTimeout)
    PROVE  ExecStrong'
<1>1. /\ backend = "opencode" /\ Aside /\ step = "announcing" /\ StartFails
      /\ UNCHANGED <<opencodeVars, aborted, spent, ticked, threads, total, attempt, wire, outcome>>
  BY DEF OfOpencode, OpencodeStartTimeout, AtOpencode, Aside
<1>2. aborted \in BOOLEAN
  BY <1>1, InOpencode
<1> QED
  BY <1>1, <1>2, StartFailsKeeps

LEMMA OpencodeSessionKeeps ==
    ASSUME ExecStrong, OfOpencode(OpencodeSession)
    PROVE  ExecStrong'
<1>1. /\ backend = "opencode" /\ Aside /\ step = "session" /\ ServeRuns
      /\ threads' = threads + 1 /\ total' = total /\ PostMessage
      /\ UNCHANGED <<stdio, events, spent, aborted, result, process, outcome>>
      /\ UNCHANGED <<emitted, ticked, attempt, wire>>
  BY DEF OfOpencode, OpencodeSession, AtOpencode, Aside
<1>2. /\ OpencodeAgrees /\ wire \in BOOLEAN /\ attempt \in 0..retries /\ total \in Nat
      /\ emitted \in Nat /\ ticked = emitted
  BY <1>1, InOpencode
<1>3. threads' \in 0..1
  BY <1>1, <1>2 DEF OpencodeAgrees
<1> QED
  BY <1>1, <1>2, <1>3, PostKeeps DEF ServeRuns

LEMMA OpencodeNoSessionKeeps ==
    ASSUME ExecStrong, OfOpencode(OpencodeNoSession)
    PROVE  ExecStrong'
<1>1. /\ backend = "opencode" /\ Aside /\ step = "session" /\ Finish(Failed(total))
      /\ UNCHANGED <<opencodeVars, aborted, spent, ticked, threads, result, total, attempt, wire>>
  BY DEF OfOpencode, OpencodeNoSession, AtOpencode, Aside
<1>2. /\ OpencodeTypes /\ wire \in BOOLEAN /\ attempt \in 0..retries /\ total \in Nat
      /\ emitted \in Nat /\ ticked = emitted /\ aborted \in BOOLEAN
  BY <1>1, InOpencode
<1>3. OpencodeTypes' /\ emitted' = emitted
  BY <1>1, <1>2, OpencodeTypesKept DEF opencodeVars
<1>4. PICK r : r = Failed(total)
  OBVIOUS
<1>5. r \in {Failed(total), ReplyResult(TRUE, total)} /\ Finish(r)
  BY <1>1, <1>4
<1> QED
  BY <1>1, <1>2, <1>3, <1>5, FinishKeeps

LEMMA EmitUsageIs ==
    ASSUME NEW usage \in Nat, emitted \in Nat, EmitUsage(usage)
    PROVE  emitted' \in Nat /\ ticked' = emitted' /\ emitted' >= emitted
BY DEF EmitUsage

LEMMA OpencodeEventKeeps ==
    ASSUME ExecStrong, OfOpencode(OpencodeEvent)
    PROVE  ExecStrong'
<1>1. /\ backend = "opencode" /\ Aside /\ step = "message" /\ ServeRuns
      /\ events < MaxEvents /\ events' = events + 1
      /\ UNCHANGED <<stdio, reply, earlier, live, grace, idle>>
      /\ UNCHANGED <<aborted, threads, result, process, step, total, attempt, wire, outcome>>
      /\ \/ /\ spent < MaxTokens
            /\ spent' = spent + 1
            /\ message' = message + 1
            /\ EmitUsage(live + message')
         \/ EmitUsage(live + earlier) /\ UNCHANGED <<spent, message>>
  BY DEF OfOpencode, OpencodeEvent, AtOpencode, Aside
<1>2. /\ OpencodeTypes /\ spent \in Nat /\ total \in Nat /\ emitted \in Nat /\ message \in Nat
      /\ live \in Nat /\ earlier \in Nat /\ spent \in 0..MaxTokens /\ aborted \in BOOLEAN
      /\ wire \in BOOLEAN /\ attempt \in 0..retries /\ threads \in 0..1 /\ MaxTokens \in Nat
  BY <1>1, InOpencode
<1>3. spent' \in 0..MaxTokens /\ spent' >= spent /\ message' \in Nat /\ message' <= spent'
  BY <1>1, <1>2 DEF OpencodeTypes
<1>4. emitted' \in Nat /\ ticked' = emitted'
  <2>1. CASE EmitUsage(live + message')
    <3>1. PICK c \in Nat : c = message'
      BY <1>3
    <3>2. live + c \in Nat
      <4>1. \A a, b \in Nat : a + b \in Nat
        OBVIOUS
      <4> QED
        BY <1>2, <3>1, <4>1, Zenon
    <3>3. EmitUsage(live + c)
      BY <2>1, <3>1, Zenon
    <3> QED
      BY <1>2, <3>2, <3>3, EmitUsageIs
  <2>2. CASE EmitUsage(live + earlier)
    <3>1. PICK u \in Nat : u = live + earlier
      BY <1>2
    <3> QED
      BY <1>2, <2>2, <3>1, EmitUsageIs
  <2> QED
    BY <1>1, <2>1, <2>2
<1>5. OpencodeTypes'
  <2>1. earlier' <= spent'
    BY <1>1, <1>2, <1>3 DEF OpencodeTypes
  <2>2. events' \in 0..MaxEvents
    BY <1>1, <1>2, EventBound DEF OpencodeTypes
  <2> QED
    BY <1>1, <1>2, <1>3, <1>4, <2>1, <2>2 DEF OpencodeTypes
<1> QED
  BY <1>1, <1>2, <1>3, <1>4, <1>5, MessageKeeps DEF ServeRuns

LEMMA WaitingRuns ==
    ASSUME ExecStrong, backend = "opencode", step = "message", reply # "rejected"
    PROVE  process \in {"running", "terminated", "killed"}
<1>1. OpencodeAgrees /\ process \in Processes
  BY InOpencode
<1> QED
  BY <1>1 DEF OpencodeAgrees, Processes

LEMMA OpencodeReplyKeeps ==
    ASSUME ExecStrong, OfOpencode(OpencodeReply)
    PROVE  ExecStrong'
<1>1. PICK more \in 0..1 :
      /\ backend = "opencode" /\ Aside /\ step = "message" /\ reply = "waiting"
      /\ reply' \in Replies \cup {"rejected"}
      /\ spent + more <= MaxTokens /\ spent' = spent + more /\ message' = message + more
      /\ UNCHANGED <<stdio, earlier, live, emitted, grace, idle, events>>
      /\ UNCHANGED <<aborted, ticked, threads, result, process, step, total, attempt, wire, outcome>>
  BY DEF OfOpencode, OpencodeReply, AtOpencode, Aside
<1>2. /\ OpencodeTypes /\ spent \in Nat /\ total \in Nat /\ emitted \in Nat /\ message \in Nat
      /\ earlier \in Nat /\ aborted \in BOOLEAN /\ ticked = emitted
      /\ wire \in BOOLEAN /\ attempt \in 0..retries /\ threads \in 0..1 /\ MaxTokens \in Nat
  BY <1>1, InOpencode
<1>3. spent' \in 0..MaxTokens /\ message' \in Nat /\ message' <= spent' /\ earlier' <= spent'
  BY <1>1, <1>2 DEF OpencodeTypes
<1>4. OpencodeTypes'
  BY <1>1, <1>2, <1>3 DEF OpencodeTypes
<1>5. process \in {"running", "terminated", "killed"}
  BY <1>1, WaitingRuns
<1> QED
  BY <1>1, <1>2, <1>3, <1>4, <1>5, MessageKeeps

(* The message is given up, or about to be.                                *)
LEMMA OpencodeWaits ==
    ASSUME ExecStrong, backend = "opencode", Aside, step = "message", reply = "waiting",
           reply' \in {"waiting", "rejected", "abandoned"},
           idle' \in 0..2, grace' \in BOOLEAN, aborted' \in BOOLEAN,
           UNCHANGED <<stdio, message, earlier, live, emitted, events, spent, ticked, threads,
                       result, process, step, total, attempt, wire, outcome>>
    PROVE  ExecStrong'
<1>1. /\ OpencodeTypes /\ spent \in 0..MaxTokens /\ total \in Nat /\ emitted \in Nat
      /\ ticked = emitted /\ wire \in BOOLEAN /\ attempt \in 0..retries /\ threads \in 0..1
  BY InOpencode
<1>2. OpencodeTypes'
  BY <1>1 DEF OpencodeTypes
<1>3. process \in {"running", "terminated", "killed"}
  BY WaitingRuns
<1> QED
  BY <1>1, <1>2, <1>3, MessageKeeps

LEMMA OpencodeWaitsKeeps ==
    ASSUME ExecStrong, OfOpencode(OpencodeGraceTimer) \/ OfOpencode(OpencodeIdle)
    PROVE  ExecStrong'
<1>1. OpencodeTypes
  BY InCall
<1>2. /\ backend = "opencode" /\ Aside /\ step = "message" /\ reply = "waiting"
      /\ reply' \in {"waiting", "rejected", "abandoned"} /\ idle' \in 0..2
      /\ UNCHANGED <<stdio, message, earlier, live, emitted, events, spent, ticked, threads,
                     result, process, step, total, attempt, wire, outcome>>
      /\ UNCHANGED <<grace, aborted>>
  BY <1>1 DEF OfOpencode, OpencodeGraceTimer, OpencodeIdle, AtOpencode, OpencodeTypes, Aside
<1>3. grace \in BOOLEAN /\ aborted \in BOOLEAN
  BY <1>1, <1>2, InOpencode DEF OpencodeTypes
<1> QED
  BY <1>2, <1>3, OpencodeWaits

LEMMA OpencodeHttpTimeoutKeeps ==
    ASSUME ExecStrong, OfOpencode(OpencodeHttpTimeout)
    PROVE  ExecStrong'
<1>1. /\ backend = "opencode" /\ Aside
      /\ UNCHANGED <<stdio, message, earlier, live, emitted, grace, idle, events>>
      /\ UNCHANGED <<aborted, spent, ticked, threads, result, total, attempt, wire>>
      /\ \/ step = "session" /\ Finish(Failed(total)) /\ reply' = reply
         \/ /\ step = "message" /\ reply = "waiting" /\ reply' = "rejected"
            /\ UNCHANGED <<outcome, step, process>>
  BY DEF OfOpencode, OpencodeHttpTimeout, AtOpencode, Aside
<1>2. /\ OpencodeTypes /\ wire \in BOOLEAN /\ attempt \in 0..retries /\ total \in Nat
      /\ emitted \in Nat /\ ticked = emitted /\ aborted \in BOOLEAN
      /\ idle \in 0..2 /\ grace \in BOOLEAN
  BY <1>1, InOpencode DEF OpencodeTypes
<1>3. CASE step = "session" /\ Finish(Failed(total)) /\ reply' = reply
  <2>1. OpencodeTypes'
    BY <1>1, <1>2, <1>3 DEF OpencodeTypes
  <2>2. PICK r : r = Failed(total)
    OBVIOUS
  <2>3. r \in {Failed(total), ReplyResult(TRUE, total)} /\ Finish(r)
    BY <1>3, <2>2
  <2> QED
    BY <1>1, <1>2, <1>3, <2>1, <2>3, FinishKeeps
<1>4. CASE /\ step = "message" /\ reply = "waiting" /\ reply' = "rejected"
           /\ UNCHANGED <<outcome, step, process>>
  BY <1>1, <1>2, <1>4, OpencodeWaits
<1> QED
  BY <1>1, <1>3, <1>4

LEMMA OpencodeTurnOverKeeps ==
    ASSUME ExecStrong, OfOpencode(OpencodeTurnOver)
    PROVE  ExecStrong'
<1>1. PICK counted \in BOOLEAN : counted <=> reply \in Replies /\ idle = 0
  OBVIOUS
<1>2. /\ backend = "opencode" /\ Aside /\ step = "message"
      /\ total' = IF counted THEN total + message ELSE total
      /\ IF counted THEN EmitUsage(total') ELSE UNCHANGED <<emitted, ticked>>
      /\ UNCHANGED <<stdio, events, aborted, spent, threads, result>>
  BY <1>1 DEF OfOpencode, OpencodeTurnOver, AtOpencode, Aside
<1>3. /\ OpencodeTypes /\ total \in Nat /\ message \in Nat /\ emitted \in Nat /\ ticked = emitted
      /\ wire \in BOOLEAN /\ aborted \in BOOLEAN /\ schema \in BOOLEAN
      /\ retries \in Nat /\ attempt \in Nat /\ attempt <= retries /\ threads \in 0..1
  BY <1>2, InOpencode
<1>4. PICK sum \in Nat : sum = total'
  BY <1>2, <1>3
<1>5. emitted' \in Nat /\ ticked' = emitted'
  <2>1. CASE counted
    BY <1>2, <1>3, <1>4, <2>1, EmitUsageIs
  <2>2. CASE ~counted
    BY <1>2, <1>3, <2>2
  <2> QED
    BY <2>1, <2>2
<1>6. counted => process \in {"running", "terminated", "killed"}
  <2>1. counted => reply # "rejected"
    BY <1>1 DEF Replies
  <2> QED
    BY <1>2, <2>1, WaitingRuns
<1>7. ASSUME NEW valid \in BOOLEAN, NEW r, r \in {Failed(sum), ReplyResult(valid, sum)}, Finish(r),
             wire' \in BOOLEAN, attempt' \in 0..retries,
             UNCHANGED <<reply, live, earlier, message, grace, idle>>
      PROVE  ExecStrong'
  <2>1. OpencodeTypes'
    BY <1>2, <1>3, <1>5, <1>7 DEF OpencodeTypes
  <2>2. aborted' \in BOOLEAN /\ total' \in Nat
    BY <1>2, <1>3, <1>4
  <2> QED
    BY <1>2, <1>4, <1>5, <1>7, <2>1, <2>2, FinishKeeps
<1>8. ASSUME PostMessage, counted, wire' \in BOOLEAN, attempt' \in 0..retries,
             UNCHANGED <<outcome, process>>
      PROVE  ExecStrong'
  <2>1. threads' \in 0..1 /\ total' \in Nat
    BY <1>2, <1>3, <1>4
  <2> QED
    BY <1>2, <1>5, <1>6, <1>8, <2>1, PostKeeps
<1>9. CASE /\ counted /\ reply = "reply"
           /\ \E valid \in BOOLEAN :
                IF ReplyIsFinal(valid)
                THEN /\ Finish(ReplyResult(valid, total'))
                     /\ UNCHANGED <<attempt, reply, live, earlier, message, grace, idle>>
                ELSE /\ attempt' = attempt + 1
                     /\ IF aborted
                        THEN /\ Finish(Failed(total'))
                             /\ UNCHANGED <<reply, live, earlier, message, grace, idle>>
                        ELSE PostMessage /\ UNCHANGED <<outcome, process>>
           /\ UNCHANGED wire
  <2>1. PICK valid \in BOOLEAN :
                IF ReplyIsFinal(valid)
                THEN /\ Finish(ReplyResult(valid, total'))
                     /\ UNCHANGED <<attempt, reply, live, earlier, message, grace, idle>>
                ELSE /\ attempt' = attempt + 1
                     /\ IF aborted
                        THEN /\ Finish(Failed(total'))
                             /\ UNCHANGED <<reply, live, earlier, message, grace, idle>>
                        ELSE PostMessage /\ UNCHANGED <<outcome, process>>
    BY <1>9
  <2>2. wire' \in BOOLEAN
    BY <1>3, <1>9
  <2>3. CASE ReplyIsFinal(valid)
    <3>1. PICK r : r = ReplyResult(valid, sum)
      OBVIOUS
    <3>2. Finish(r) /\ UNCHANGED <<reply, live, earlier, message, grace, idle>>
          /\ attempt' = attempt
      BY <1>4, <2>1, <2>3, <3>1
    <3> QED
      BY <1>3, <1>7, <2>2, <3>1, <3>2
  <2>4. CASE ~ReplyIsFinal(valid)
    <3>1. attempt' \in 0..retries
      BY <1>3, <2>1, <2>4 DEF ReplyIsFinal
    <3>2. CASE aborted
      <4>1. PICK r : r = Failed(sum)
        OBVIOUS
      <4>2. Finish(r) /\ UNCHANGED <<reply, live, earlier, message, grace, idle>>
        BY <1>4, <2>1, <2>4, <3>2, <4>1
      <4> QED
        BY <1>7, <2>2, <3>1, <4>1, <4>2
    <3>3. CASE ~aborted
      BY <1>8, <1>9, <2>1, <2>2, <2>4, <3>1, <3>3
    <3> QED
      BY <3>2, <3>3
  <2> QED
    BY <2>3, <2>4
<1>10. CASE /\ counted /\ reply = "refused" /\ wire /\ ~aborted
            /\ wire' = FALSE
            /\ PostMessage
            /\ UNCHANGED <<attempt, outcome, process>>
  <2>1. wire' = FALSE /\ attempt' = attempt
    BY <1>10
  <2>2. wire' \in BOOLEAN
    BY <2>1
  <2>3. attempt' \in 0..retries
    BY <1>3, <2>1
  <2> QED
    BY <1>8, <1>10, <2>2, <2>3
<1>11. CASE /\ Finish(Failed(total'))
            /\ UNCHANGED <<attempt, wire, reply, live, earlier, message, grace, idle>>
  <2>1. PICK r : r = Failed(sum)
    OBVIOUS
  <2>2. r \in {Failed(sum), ReplyResult(TRUE, sum)} /\ Finish(r)
    BY <1>4, <1>11, <2>1
  <2>3. wire' \in BOOLEAN /\ attempt' \in 0..retries
    BY <1>3, <1>11
  <2> QED
    BY <1>7, <1>11, <2>2, <2>3
<1> QED
  BY <1>1, <1>9, <1>10, <1>11 DEF OfOpencode, OpencodeTurnOver

LEMMA OpencodeExitKeeps ==
    ASSUME ExecStrong, OfOpencode(OpencodeExit)
    PROVE  ExecStrong'
<1>1. /\ backend = "opencode" /\ Aside /\ ServeRuns /\ process' = "gone"
      /\ UNCHANGED <<stdio, message, earlier, live, emitted, grace, idle, events>>
      /\ UNCHANGED <<aborted, spent, ticked, threads, total, attempt, wire>>
      /\ \/ /\ step = "announcing" /\ step' = "done" /\ result' = Failed(total)
            /\ UNCHANGED <<reply, outcome>>
         \/ /\ step = "session" /\ step' = "closing" /\ outcome' = Failed(total)
            /\ UNCHANGED <<reply, result>>
         \/ /\ step = "message" /\ reply = "waiting" /\ reply' = "rejected"
            /\ UNCHANGED <<step, result, outcome>>
         \/ step \in {"closing", "done"} /\ UNCHANGED <<step, reply, result, outcome>>
  BY DEF OfOpencode, OpencodeExit, Aside
<1>2. /\ OpencodeTypes /\ OpencodeAgrees /\ CallAgrees /\ spent \in 0..MaxTokens
      /\ aborted \in BOOLEAN /\ wire \in BOOLEAN /\ attempt \in 0..retries /\ total \in Nat
      /\ emitted \in Nat /\ ticked = emitted /\ threads \in 0..1 /\ schema \in BOOLEAN
      /\ result \in Results \cup {Pending} /\ outcome \in Results \cup {Pending}
      /\ Pending \notin Results /\ (result = Pending <=> step # "done")
  BY <1>1, InOpencode
<1>3. PICK r : r = Failed(total)
  OBVIOUS
<1>4. r \in Results /\ r.value = IF ~r.ok THEN "none" ELSE IF schema THEN "object" ELSE "text"
  <2>1. TRUE \in BOOLEAN /\ schema' = schema
    BY <1>1 DEF Aside
  <2> QED
    BY <1>2, <1>3, <2>1, SettledFits
<1>5. reply' \in {reply, "rejected"} /\ (step = "message" => reply' = "rejected" /\ step' = "message")
  BY <1>1
<1>6. OpencodeTypes'
  <2>1. reply' \in Replies \cup {"waiting", "rejected", "abandoned"}
    BY <1>2, <1>5 DEF OpencodeTypes
  <2> QED
    BY <1>1, <1>2, <2>1 DEF OpencodeTypes
<1>7. step' \in {"message", "closing", "done"} /\ (step' = "message" => step = "message")
  BY <1>1
<1>8. OpencodeAgrees'
  BY <1>1, <1>2, <1>5, <1>7 DEF OpencodeAgrees
<1>9. result' \in Results \cup {Pending} /\ outcome' \in Results \cup {Pending}
      /\ (result' = Pending <=> step' # "done")
  BY <1>1, <1>2, <1>3, <1>4
<1>10. step' = "closing" => Fits(outcome)'
  <2>1. CASE outcome' = r
    BY <1>1, <1>4, <2>1 DEF Fits, Aside
  <2>2. CASE step = "closing" /\ outcome' = outcome
    BY <1>1, <1>2, <2>2 DEF CallAgrees, Fits, Aside
  <2> QED
    BY <1>1, <1>3, <2>1, <2>2
<1>11. step' = "done" => Fits(result)'
  <2>1. CASE result' = r
    BY <1>1, <1>4, <2>1 DEF Fits, Aside
  <2>2. CASE step = "done" /\ result' = result
    BY <1>1, <1>2, <2>2 DEF CallAgrees, Fits, Aside
  <2> QED
    BY <1>1, <1>3, <2>1, <2>2
<1>12. /\ spent' \in 0..MaxTokens /\ aborted' \in BOOLEAN /\ wire' \in BOOLEAN
       /\ attempt' \in 0..retries /\ total' \in Nat /\ emitted' \in Nat /\ ticked' = emitted'
       /\ threads' \in 0..1
  BY <1>1, <1>2
<1>13. process' \in Processes /\ process' # "running" /\ step' # "start"
  BY <1>1, <1>7 DEF Processes
<1> QED
  BY <1>1, <1>6, <1>8, <1>9, <1>10, <1>11, <1>12, <1>13, OpencodeStep

LEMMA OpencodeAbortKeeps ==
    ASSUME ExecStrong, OfOpencode(OpencodeAbort)
    PROVE  ExecStrong'
<1>1. /\ backend = "opencode" /\ Aside /\ result = Pending /\ step # "start"
      /\ step = "message" => reply = "waiting"
      /\ aborted' = TRUE
      /\ UNCHANGED <<stdio, reply, message, earlier, live, emitted, idle, events>>
      /\ UNCHANGED <<spent, ticked, threads, total, attempt, wire>>
      /\ \/ step = "announcing" /\ StartFails /\ UNCHANGED <<outcome, grace>>
         \/ step = "session" /\ Finish(Failed(total)) /\ UNCHANGED <<result, grace>>
         \/ /\ step \in {"message", "closing"}
            /\ grace' = (step = "message")
            /\ UNCHANGED <<step, process, result, outcome>>
  BY DEF OfOpencode, OpencodeAbort, Aside
<1>2. /\ OpencodeTypes /\ OpencodeAgrees /\ CallAgrees /\ spent \in 0..MaxTokens
      /\ wire \in BOOLEAN /\ attempt \in 0..retries /\ total \in Nat
      /\ emitted \in Nat /\ ticked = emitted /\ threads \in 0..1 /\ process \in Processes
      /\ outcome \in Results \cup {Pending}
  BY <1>1, InOpencode
<1>3. grace \in BOOLEAN /\ idle \in 0..2
  BY <1>2 DEF OpencodeTypes
<1>4. CASE step = "announcing" /\ StartFails /\ UNCHANGED <<outcome, grace>>
  <2>1. UNCHANGED opencodeVars /\ aborted' \in BOOLEAN
    BY <1>1, <1>4 DEF opencodeVars
  <2> QED
    BY <1>1, <1>4, <2>1, StartFailsKeeps
<1>5. CASE step = "session" /\ Finish(Failed(total)) /\ UNCHANGED <<result, grace>>
  <2>1. OpencodeTypes'
    BY <1>1, <1>2, <1>5 DEF OpencodeTypes
  <2>2. PICK r : r = Failed(total)
    OBVIOUS
  <2>3. r \in {Failed(total), ReplyResult(TRUE, total)} /\ Finish(r)
    BY <1>5, <2>2
  <2> QED
    BY <1>1, <1>2, <1>5, <2>1, <2>3, FinishKeeps
<1>6. CASE /\ step \in {"message", "closing"}
           /\ grace' = (step = "message")
           /\ UNCHANGED <<step, process, result, outcome>>
  <2>1. grace' \in BOOLEAN
    BY <1>6
  <2>2. CASE step = "message"
    <3>1. aborted' \in BOOLEAN /\ reply' \in {"waiting", "rejected", "abandoned"} /\ idle' \in 0..2
      BY <1>1, <1>3, <2>2
    <3> QED
      BY <1>1, <1>6, <2>1, <2>2, <3>1, OpencodeWaits
  <2>3. CASE step = "closing"
    <3>1. OpencodeTypes'
      BY <1>1, <1>2, <2>1 DEF OpencodeTypes
    <3>2. OpencodeAgrees'
      BY <1>1, <1>2, <1>6, <2>3 DEF OpencodeAgrees
    <3>3. Fits(outcome)'
      BY <1>1, <1>2, <1>6, <2>3 DEF CallAgrees, Fits, Aside
    <3> QED
      BY <1>1, <1>2, <1>6, <2>3, <3>1, <3>2, <3>3, OpencodeStep
  <2> QED
    BY <1>6, <2>2, <2>3
<1> QED
  BY <1>1, <1>4, <1>5, <1>6

LEMMA OpencodeCloseTimerKeeps ==
    ASSUME ExecStrong, OfOpencode(OpencodeCloseTimer)
    PROVE  ExecStrong'
<1>1. /\ backend = "opencode" /\ Aside /\ step = "closing"
      /\ UNCHANGED <<opencodeVars, aborted, spent, ticked, threads, total, attempt, wire, outcome>>
      /\ \/ /\ process = "terminated" /\ process' = Signal("SIGKILL")
            /\ UNCHANGED <<step, result>>
         \/ /\ process \in {"killed", "gone"} /\ step' = "done" /\ result' = outcome
            /\ process' = process
  BY DEF OfOpencode, OpencodeCloseTimer, AtOpencode, Aside
<1>2. /\ OpencodeTypes /\ OpencodeAgrees /\ CallAgrees /\ spent \in 0..MaxTokens
      /\ aborted \in BOOLEAN /\ wire \in BOOLEAN /\ attempt \in 0..retries /\ total \in Nat
      /\ emitted \in Nat /\ ticked = emitted /\ threads \in 0..1
      /\ result \in Results \cup {Pending} /\ result = Pending
      /\ outcome \in Results \cup {Pending} /\ Pending \notin Results
  BY <1>1, InOpencode
<1>3. OpencodeTypes' /\ emitted' = emitted
  BY <1>1, <1>2, OpencodeTypesKept DEF opencodeVars
<1>4. outcome \in Results /\ Fits(outcome)'
  BY <1>1, <1>2 DEF CallAgrees, Fits, Aside
<1>5. process' \in {"killed", "gone"}
  BY <1>1 DEF Signal
<1>6. process' \in Processes /\ process' # "running"
  BY <1>5 DEF Processes
<1>7. step' \in {"closing", "done"} /\ result' \in Results \cup {Pending}
      /\ (result' = Pending <=> step' # "done")
  BY <1>1, <1>2, <1>4
<1>8. step' = "done" => Fits(result)'
  BY <1>1, <1>4 DEF Fits
<1>9. OpencodeAgrees'
  BY <1>1, <1>2, <1>3, <1>6, <1>7 DEF OpencodeAgrees
<1> QED
  BY <1>1, <1>2, <1>3, <1>4, <1>6, <1>7, <1>8, <1>9, OpencodeStep

LEMMA OpencodeKeeps ==
    ASSUME ExecStrong, OfOpencode(OpencodeNext)
    PROVE  ExecStrong'
<1>1. \/ OfOpencode(OpencodeUncompiled)
      \/ OfOpencode(OpencodeStart) \/ OfOpencode(OpencodeAnnounced)
      \/ OfOpencode(OpencodeStartTimeout) \/ OfOpencode(OpencodeSession)
      \/ OfOpencode(OpencodeNoSession) \/ OfOpencode(OpencodeEvent) \/ OfOpencode(OpencodeReply)
      \/ OfOpencode(OpencodeHttpTimeout) \/ OfOpencode(OpencodeGraceTimer)
      \/ OfOpencode(OpencodeIdle) \/ OfOpencode(OpencodeTurnOver) \/ OfOpencode(OpencodeExit)
      \/ OfOpencode(OpencodeAbort) \/ OfOpencode(OpencodeCloseTimer)
  BY DEF OfOpencode, OpencodeNext
<1> QED
  BY <1>1, OpencodeUncompiledKeeps, OpencodeBegins, OpencodeStartTimeoutKeeps, OpencodeSessionKeeps,
     OpencodeNoSessionKeeps, OpencodeEventKeeps, OpencodeReplyKeeps, OpencodeHttpTimeoutKeeps,
     OpencodeWaitsKeeps, OpencodeTurnOverKeeps, OpencodeExitKeeps, OpencodeAbortKeeps,
     OpencodeCloseTimerKeeps
-----------------------------------------------------------------------------
(* The invariant holds at the start, and every step keeps it.              *)
LEMMA InitStrong ==
    ASSUME Init
    PROVE  ExecStrong
<1>1. /\ backend \in Backends
      /\ schema \in BOOLEAN /\ compiles \in BOOLEAN /\ wire \in BOOLEAN /\ (wire => schema)
      /\ retries \in 0..SchemaRetries
      /\ aborted = FALSE /\ spent = 0 /\ ticked = 0 /\ threads = 0 /\ result = Pending
      /\ process = "unborn" /\ step = "start" /\ total = 0 /\ attempt = 0 /\ outcome = Pending
      /\ backend = "codex" => retries + (IF wire THEN 2 ELSE 1) <= MaxTurns
  BY DEF Init, CallInit
<1>2. /\ requests = {} /\ answer = NoAnswer /\ killTimer = FALSE
      /\ turn = NoTurn /\ open = {} /\ work = {} /\ kids = NoKids /\ answered = {} /\ chatter = 0
  BY DEF Init, CodexInit, ClientInit, TurnInit
<1>3. /\ interrupted = FALSE /\ claudeTimer = FALSE
      /\ stdio \in BOOLEAN /\ reply = "waiting"
      /\ message = 0 /\ earlier = 0 /\ live = 0 /\ emitted = 0
      /\ grace = FALSE /\ idle = 0 /\ events = 0
  BY DEF Init, ClaudeInit, OpencodeInit
<1>4. turn = Rest
  BY <1>1, <1>2, NoTurnIs
<1>5. PICK r \in TurnRecords :
         /\ r = turn /\ r.no = 0 /\ r.status = "completed" /\ r.seen = FALSE
         /\ r.final = FALSE /\ r.infer = FALSE /\ r.base = NoUsage /\ r.usage = 0
         /\ r.buffer = <<>>
  BY <1>4, RestIs
<1>6. CallTypeOK
  <2>1. aborted \in BOOLEAN
    BY <1>1
  <2>2. retries \in Nat /\ attempt \in 0..retries /\ spent \in 0..MaxTokens
    BY <1>1, ExecutorAssumption
  <2>3. ticked \in Nat /\ total \in Nat /\ threads \in Nat
    BY <1>1
  <2> QED
    BY <1>1, <2>1, <2>2, <2>3 DEF CallTypeOK, Processes
<1>7. CodexTypes
  <2>1. killTimer \in BOOLEAN
    BY <1>2
  <2>2. ClientTypeOK
    BY <1>2, <2>1 DEF ClientTypeOK
  <2>3. kids \in [MainTurns -> Nat \cup {NoUsage}]
    BY <1>2 DEF NoKids
  <2>4. chatter \in 0..MaxChatter
    BY <1>2, TurnBounds
  <2> QED
    BY <1>2, <1>5, <2>2, <2>3, <2>4 DEF CodexTypes
<1>8. ClaudeTypes
  BY <1>3 DEF ClaudeTypes
<1>9. OpencodeTypes
  <2>1. grace \in BOOLEAN
    BY <1>3
  <2>2. idle \in 0..2 /\ events \in 0..MaxEvents
    BY <1>3, EventBound
  <2>3. message \in Nat /\ earlier \in Nat /\ message <= spent /\ earlier <= spent
    BY <1>1, <1>3
  <2> QED
    BY <1>3, <2>1, <2>2, <2>3 DEF OpencodeTypes
<1>10. CallAgrees
  BY <1>1 DEF CallAgrees
<1>11. ClaudeAgrees
  BY <1>1, <1>3 DEF ClaudeAgrees
<1>12. OpencodeAgrees
  BY <1>1, <1>3 DEF OpencodeAgrees
<1>13. backend = "codex" => CodexStrong
  <2>1. SUFFICES ASSUME backend = "codex" PROVE CodexStrong
    OBVIOUS
  <2>2. 1 + TurnsLeft <= MaxTurns
    BY <1>1, <2>1, ExecutorAssumption DEF TurnsLeft
  <2>3. CodexAgrees /\ AwaitsTurn
    BY <1>1, <1>2, <1>5, <2>2 DEF CodexAgrees, AwaitsTurn, Exited
  <2>4. \A k \in MainTurns : kids[k] = NoUsage
    BY <1>2 DEF NoKids
  <2>5. NothingAhead
    BY <1>1, <1>2, <1>4, <2>4 DEF NothingAhead, Unbegun
  <2>6. Metered(r)
    BY <1>1, <1>5 DEF Metered
  <2>7. TurnAgrees
    BY <1>5, <2>6 DEF TurnAgrees
  <2>8. BufferFits
    <3>1. Len(turn.buffer) = 0 /\ Cardinality(open) = 0
      BY <1>2, <1>5, EmptySeq, FS_EmptySet
    <3> QED
      BY <3>1, TurnBounds DEF BufferFits
  <2> QED
    BY <2>3, <2>5, <2>7, <2>8 DEF CodexStrong
<1> QED
  BY <1>4, <1>6, <1>7, <1>8, <1>9, <1>10, <1>11, <1>12, <1>13 DEF ExecStrong, Types

LEMMA StutterKeeps ==
    ASSUME ExecStrong, UNCHANGED vars
    PROVE  ExecStrong'
<1>1. /\ UNCHANGED <<aborted, spent, ticked, threads, result, process, step, total, attempt,
                     wire, outcome>>
      /\ Quietly /\ Aside /\ UNCHANGED <<codexVars, claudeVars, opencodeVars>>
  BY DEF vars, callVars, Quietly, Aside
<1>2. /\ CallTypeOK /\ ClaudeTypes /\ CallAgrees /\ spent \in Nat /\ OpencodeTypes
      /\ backend \in Backends
  BY InCall DEF CallTypeOK
<1>3. CallTypeOK'
  BY <1>1, <1>2 DEF CallTypeOK, Quietly
<1>4. CallAgrees'
  BY <1>1, <1>2 DEF CallAgrees, Fits, Honest, Quietly
<1>5. ClaudeTypes'
  BY <1>1, <1>2 DEF ClaudeTypes, claudeVars
<1>6. CASE backend = "codex"
  <2>1. ClientTypeOK /\ CodexAgrees /\ AwaitsTurn
    BY <1>6, InCodex
  <2>2. /\ UNCHANGED <<turn, open, work, kids, answered, chatter>>
        /\ UNCHANGED <<requests, answer, killTimer>>
    BY <1>1 DEF codexVars, turnVars, clientVars
  <2>3. ClientTypeOK'
    BY <2>1, <2>2 DEF ClientTypeOK
  <2>4. CodexAgrees' /\ AwaitsTurn'
    BY <1>1, <2>1, <2>2 DEF CodexAgrees, AwaitsTurn, Awaits, Exited, TurnsLeft, Quietly
  <2>5. open' \subseteq open
    BY <2>2
  <2> QED
    BY <1>1, <1>3, <1>4, <1>6, <2>2, <2>3, <2>4, <2>5, QuietStep DEF Quietly
<1>7. CASE backend = "claude"
  <2>1. ClaudeAgrees
    BY <1>7, InClaude
  <2>2. ClaudeAgrees'
    BY <1>1, <2>1 DEF ClaudeAgrees, claudeVars
  <2>3. spent' \in Nat /\ spent' >= spent
    BY <1>1, <1>2
  <2> QED
    BY <1>1, <1>3, <1>4, <1>5, <1>7, <2>2, <2>3, ClaudeStep DEF Quietly
<1>8. CASE backend = "opencode"
  <2>1. /\ OpencodeAgrees /\ spent \in 0..MaxTokens /\ aborted \in BOOLEAN /\ wire \in BOOLEAN
        /\ attempt \in 0..retries /\ total \in Nat /\ emitted \in Nat /\ ticked = emitted
        /\ threads \in 0..1 /\ process \in Processes
        /\ result \in Results \cup {Pending} /\ outcome \in Results \cup {Pending}
    BY <1>8, InOpencode
  <2>2. OpencodeTypes' /\ emitted' = emitted
    BY <1>1, <1>2, OpencodeTypesKept DEF opencodeVars
  <2>3. OpencodeAgrees'
    BY <1>1, <2>1 DEF OpencodeAgrees, ServeRuns, opencodeVars
  <2>4. /\ result' = Pending <=> step' # "done"
        /\ step' = "closing" => Fits(outcome)'
        /\ step' = "done" => Fits(result)' /\ process' # "running"
        /\ step' = "start" => process' = "unborn"
    BY <1>1, <1>4, <1>8 DEF CallAgrees, Quietly
  <2> QED
    BY <1>1, <1>8, <2>1, <2>2, <2>3, <2>4, OpencodeStep
<1> QED
  BY <1>2, <1>6, <1>7, <1>8 DEF Backends

LEMMA StepKeeps ==
    ASSUME ExecStrong, [Next]_vars
    PROVE  ExecStrong'
<1>1. CASE OfCodex(CodexNext)
  BY <1>1, CodexKeeps
<1>2. CASE OfClaude(ClaudeNext)
  BY <1>2, ClaudeKeeps
<1>3. CASE OfOpencode(OpencodeNext)
  BY <1>3, OpencodeKeeps
<1>4. CASE UNCHANGED vars
  BY <1>4, StutterKeeps
<1> QED
  BY <1>1, <1>2, <1>3, <1>4 DEF Next

LEMMA StrongHolds == Spec => []ExecStrong
<1>1. Init => ExecStrong
  BY InitStrong
<1>2. ExecStrong /\ [Next]_vars => ExecStrong'
  BY StepKeeps
<1> QED
  BY <1>1, <1>2, PTL DEF Spec

LEMMA StrongTypes ==
    ASSUME ExecStrong
    PROVE  ExecTypeOK
<1>1. /\ CallTypeOK /\ CodexTypes /\ OpencodeTypes /\ spent \in Nat /\ total \in Nat
      /\ MaxTokens \in Nat /\ spent <= MaxTokens
  BY InCall
<1>2. PICK t \in TurnRecords : t = turn
  BY <1>1 DEF CodexTypes
<1>3. t.usage \in Nat /\ Len(t.buffer) \in Nat
  BY <1>2, LenProperties DEF TurnRecords
<1>4. t.usage <= MaxTokens /\ Len(t.buffer) <= MaxBuffered + MaxTurns
  <2>1. CASE backend = "codex"
    <3>1. total + t.usage <= spent
      BY <1>2, <2>1, InCodex DEF TurnAgrees, Metered
    <3>2. BufferFits /\ Cardinality(open) \in Nat
      BY <1>1, <2>1, InCodex, Count DEF CodexStrong, CodexTypes
    <3> QED
      BY <1>1, <1>2, <1>3, <3>1, <3>2, TurnBounds DEF BufferFits
  <2>2. CASE backend # "codex"
    <3>1. t.usage = 0 /\ t.buffer = <<>>
      BY <1>2, <2>2, RestIs DEF ExecStrong
    <3>2. Len(t.buffer) = 0
      BY <3>1, EmptySeq
    <3> QED
      BY <1>1, <3>1, <3>2, TurnBounds
  <2> QED
    BY <2>1, <2>2
<1>5. TurnTypeOK
  <2>1. /\ t.no \in 0..MaxTurns /\ t.status \in Statuses \cup {"running"}
        /\ t.busy \subseteq Items \X MainTurns /\ t.subs \subseteq MainTurns
        /\ t.known \subseteq Threads
    BY DEF TurnRecords
  <2>2. t.usage \in 0..MaxTokens
    BY <1>1, <1>3, <1>4
  <2> QED
    BY <1>1, <1>2, <1>4, <2>1, <2>2 DEF TurnTypeOK, CodexTypes, Statuses
<1>6. message \in 0..MaxTokens /\ earlier \in 0..MaxTokens /\ events \in 0..MaxEvents
  BY <1>1 DEF OpencodeTypes
<1> QED
  BY <1>1, <1>5, <1>6 DEF ExecTypeOK, CodexTypes

LEMMA StrongEnds ==
    ASSUME ExecStrong
    PROVE  ExitEndsCall
<1>1. SUFFICES ASSUME process = "gone", Continued, result = Pending PROVE FALSE
  BY DEF ExitEndsCall
<1>2. /\ Idle /\ answer = NoAnswer /\ step \notin {"start", "closing", "done"}
      /\ reply = "waiting" /\ backend \in Backends
  BY <1>1, InCall DEF Continued, Idle, CallAgrees, CallTypeOK
<1>3. CASE backend = "codex"
  <2>1. /\ CodexAgrees /\ AwaitsTurn
    BY <1>3, InCodex
  <2>2. step \in {"initializing", "threading", "turning"} /\ requests = {} /\ Exited
    BY <1>1, <1>2, <2>1 DEF CodexAgrees, Exited
  <2>3. step = "turning"
    BY <1>2, <2>1, <2>2 DEF CodexAgrees, Awaits
  <2>4. turn.status = "running"
    BY <1>2, <2>3 DEF Idle, TurnOver
  <2> QED
    BY <1>2, <2>1, <2>2, <2>3, <2>4 DEF AwaitsTurn
<1>4. CASE backend = "claude"
  BY <1>1, <1>2, <1>4, InClaude DEF ClaudeAgrees
<1>5. CASE backend = "opencode"
  BY <1>1, <1>2, <1>5, InOpencode DEF OpencodeAgrees, ServeRuns
<1> QED
  BY <1>2, <1>3, <1>4, <1>5 DEF Backends

(* Whatever the servers do: types, no token reported that was not spent,   *)
(* none taken back by the result, and no call that waits for a process     *)
(* that has exited.                                                        *)
THEOREM CallInvHolds == Spec => []CallInv
<1>1. ASSUME ExecStrong PROVE CallInv
  <2>1. UsageHonest
    <3>1. CallAgrees
      BY <1>1, InCall
    <3> QED
      BY <3>1 DEF UsageHonest, CallAgrees, Honest
  <2> QED
    BY <1>1, <2>1, StrongTypes, StrongEnds DEF CallInv
<1> QED
  BY <1>1, StrongHolds, PTL
-----------------------------------------------------------------------------
(* Steps as the caller sees them: nothing is taken back, and after         *)
(* settlement only the process still changes.                              *)
Kept ==
    /\ aborted => aborted'
    /\ ticked' >= ticked
    /\ threads' = threads \/ (threads = 0 /\ threads' = 1)
    /\ step = "done" =>
         /\ UNCHANGED <<aborted, ticked, threads, result>>
         /\ process' \in {process, "gone"}

LEMMA TurnTicks ==
    ASSUME ExecStrong, backend = "codex", step = "turning", NEW t, TurnBecomes(t),
           t.usage \in Nat, turn.usage <= t.usage
    PROVE  ticked' >= ticked
<1>1. /\ CodexAgrees /\ ticked \in Nat /\ total \in Nat /\ turn.usage \in Nat
  BY InCodex
<1>2. ticked = total + turn.usage
  BY <1>1 DEF CodexAgrees
<1> QED
  BY <1>1, <1>2 DEF TurnBecomes

LEMMA ServerTicks ==
    ASSUME ExecStrong, OfCodex(CodexServer)
    PROVE  ticked' >= ticked
<1>1. /\ backend = "codex" /\ total' = total
      /\ CodexTypes /\ CallTypeOK /\ AwaitsTurn /\ TurnAgrees /\ spent \in Nat /\ total \in Nat
      /\ ticked \in Nat /\ turn \in TurnRecords
  BY InCodex DEF OfCodex, CodexServer
<1>2. CASE Server
  <2>1. PICK m : Said(m)
    BY <1>1, <1>2, ServerSays
  <2>2. Says(m) /\ step = "turning" /\ TurnBecomes(OnNotification(turn, m))
    BY <2>1 DEF Said, Notify
  <2>3. turn.no \in MainTurns
    BY <1>1, <2>2 DEF AwaitsTurn, MainTurns, TurnRecords
  <2>4. turn' = OnNotification(turn, m)
    BY <2>2 DEF TurnBecomes
  <2>5. turn.usage <= turn'.usage /\ turn'.usage \in Nat /\ TurnBecomes(turn')
    BY <1>1, <2>2, <2>3, <2>4, TurnHears DEF TurnRecords
  <2> QED
    BY <1>1, <2>2, <2>5, TurnTicks
<1>3. CASE ticked' = ticked
  BY <1>1, <1>3
<1> QED
  BY <1>2, <1>3 DEF OfCodex, CodexServer

LEMMA TurnStartedTicks ==
    ASSUME ExecStrong, OfCodex(CodexTurnStarted)
    PROVE  /\ ticked' >= ticked
           /\ turn.status = "running" /\ turn'.status = "completed" => turn.no \notin open'
<1>1. /\ backend = "codex" /\ step = "turning" /\ answer # NoAnswer /\ open' = open
  BY DEF OfCodex, CodexTurnStarted, TurnStarted
<1>2. /\ ClientTypeOK /\ TurnAgrees /\ AwaitsTurn /\ ticked \in Nat /\ turn \in TurnRecords
      /\ turn.usage \in Nat
  BY <1>1, InCodex
<1>3. CASE answer.with = "result"
  <2>1. PICK s : s = IF turn.no \in open THEN OnResponse(turn)
                     ELSE CompleteTurn(OnResponse(turn), "completed")
    OBVIOUS
  <2>2. TurnBecomes(s)
    BY <1>3, <2>1 DEF OfCodex, CodexTurnStarted, TurnStarted
  <2>3. Sees(s, turn.aborted) /\ ~turn.seen
    BY <1>1, <1>3, <2>1, ResponseSeen
  <2>4. turn.usage = 0
    BY <1>2, <2>3 DEF TurnAgrees, Metered
  <2>5. s \in TurnRecords /\ s.no = turn.no /\ (s.status = "completed" => s.no \notin open)
    BY <2>3 DEF Sees
  <2>6. s.usage \in Nat /\ turn.usage <= s.usage
    BY <2>4, <2>5 DEF TurnRecords
  <2>7. ticked' >= ticked
    BY <1>1, <2>2, <2>6, TurnTicks
  <2> QED
    BY <1>1, <2>2, <2>5, <2>7 DEF TurnBecomes
<1>4. CASE answer.with # "result"
  <2>1. PICK blame \in {"none", "server", "client"} :
           TurnBecomes(IF turn.no \in open THEN SettleTurn(turn, "failed", blame)
                       ELSE CompleteTurn(SettleTurn(turn, "failed", blame), "completed"))
    <3>1. answer.with \in {"error", "lost"}
      BY <1>1, <1>2, <1>4 DEF ClientTypeOK, Answers
    <3>2. CASE answer.with = "error"
      BY <3>2 DEF OfCodex, CodexTurnStarted, TurnStarted
    <3>3. CASE answer.with = "lost"
      BY <3>3 DEF OfCodex, CodexTurnStarted, TurnStarted
    <3> QED
      BY <3>1, <3>2, <3>3
  <2>2. PICK s : s = SettleTurn(turn, "failed", blame)
    OBVIOUS
  <2>3. s.status = (IF turn.status = "running" THEN "failed" ELSE turn.status)
        /\ s.usage = turn.usage
    BY <1>2, <2>2, SettledIs
  <2>4. CompleteTurn(s, "completed") = s
    BY <2>3 DEF CompleteTurn, SettleTurn
  <2>5. TurnBecomes(s)
    BY <2>1, <2>2, <2>4
  <2>6. ticked' >= ticked
    BY <1>1, <1>2, <2>3, <2>5, TurnTicks
  <2> QED
    BY <1>1, <2>3, <2>5, <2>6 DEF TurnBecomes
<1> QED
  BY <1>3, <1>4

LEMMA TimerTicks ==
    ASSUME ExecStrong, OfCodex(CodexTurnTimer)
    PROVE  /\ ticked' >= ticked
           /\ turn.status = "running" /\ turn'.status = "completed" =>
                turn.no \in answered /\ \A w \in work : w[2] # turn.no
<1>1. /\ backend = "codex" /\ step = "turning" /\ Idle
      /\ InferTimer \/ GraceTimer \/ InactivityTimer
  BY DEF OfCodex, CodexTurnTimer, TurnTimer
<1>2. /\ CodexTypes /\ TurnAgrees /\ turn \in TurnRecords /\ turn.usage \in Nat
  BY <1>1, InCodex
<1>3. turn.status = "running"
  BY <1>1 DEF Idle, TurnOver
<1>4. ASSUME NEW status \in {"completed", "interrupted", "failed"},
             NEW blame \in {"none", "server", "client"},
             TurnBecomes(SettleTurn(turn, status, blame))
      PROVE  ticked' >= ticked /\ turn'.status = status
  <2>1. PICK s : s = SettleTurn(turn, status, blame)
    OBVIOUS
  <2>2. s.status = status /\ s.usage = turn.usage
    BY <1>2, <1>3, <2>1, SettledIs
  <2>3. ticked' >= ticked
    BY <1>1, <1>2, <1>4, <2>1, <2>2, TurnTicks
  <2> QED
    BY <1>4, <2>1, <2>2, <2>3 DEF TurnBecomes
<1>5. CASE InferTimer
  <2>1. CASE MayInfer(turn)
    <3>1. TurnBecomes(SettleTurn(turn, "completed", "none"))
      BY <1>5, <2>1 DEF InferTimer, InferenceFires
    <3>2. ticked' >= ticked
      BY <1>4, <3>1
    <3>3. turn.final /\ turn.busy = {} /\ turn.subs = {}
      BY <2>1 DEF MayInfer, NothingActive
    <3>4. Follows(turn)
      BY <1>2, <1>3, <3>3 DEF TurnAgrees, Sees
    <3>5. turn.no \in answered /\ \A kind \in Kinds : <<kind, turn.no>> \notin work
      BY <3>3, <3>4 DEF Follows, Kinds
    <3>6. \A w \in work : w[2] # turn.no
      BY <1>2, <3>5 DEF CodexTypes
    <3> QED
      BY <3>2, <3>5, <3>6
  <2>2. CASE ~MayInfer(turn)
    <3>1. PICK s : s = [turn EXCEPT !.infer = FALSE]
      OBVIOUS
    <3>2. TurnBecomes(s)
      BY <1>5, <2>2, <3>1 DEF InferTimer, InferenceFires
    <3>3. s.usage = turn.usage /\ s.status = turn.status
      BY <1>2, <3>1 DEF TurnRecords
    <3>4. ticked' >= ticked
      BY <1>1, <1>2, <3>2, <3>3, TurnTicks
    <3> QED
      BY <1>3, <3>2, <3>3, <3>4 DEF TurnBecomes
  <2> QED
    BY <2>1, <2>2
<1>6. CASE GraceTimer
  BY <1>4, <1>6 DEF GraceTimer
<1>7. CASE InactivityTimer
  BY <1>4, <1>7 DEF InactivityTimer
<1> QED
  BY <1>1, <1>5, <1>6, <1>7

LEMMA CodexProceeds ==
    ASSUME ExecStrong, OfCodex(CodexNext)
    PROVE  Kept
<1>1. /\ backend = "codex" /\ CallAgrees /\ CodexAgrees /\ ticked \in Nat
  BY InCodex DEF OfCodex, CodexNext, CodexContinue, CodexUncompiled, CodexStart, CodexInitialized,
     CodexThreadStarted, CodexTurnStarted, CodexTurnOver, CodexClosed, CodexAbort, CodexExit,
     CodexKillTimer, CodexServer, CodexRequestTimeout, CodexTurnTimer, AtCodex
<1>2. CASE \/ OfCodex(CodexUncompiled) \/ OfCodex(CodexStart) \/ OfCodex(CodexInitialized)
           \/ OfCodex(CodexClosed)
  BY <1>1, <1>2 DEF OfCodex, CodexUncompiled, Uncompiled, CodexStart, CodexInitialized, CodexClosed, AtCodex, Kept
<1>3. CASE OfCodex(CodexThreadStarted)
  <2>1. step = "threading" /\ threads = 0
    BY <1>1, <1>3 DEF OfCodex, CodexThreadStarted, AtCodex, CodexAgrees
  <2> QED
    BY <1>1, <1>3, <2>1 DEF OfCodex, CodexThreadStarted, Kept
<1>4. CASE OfCodex(CodexTurnOver)
  BY <1>1, <1>4 DEF OfCodex, CodexTurnOver, TurnOver, Kept
<1>5. CASE OfCodex(CodexAbort)
  <2>1. /\ result = Pending /\ aborted' = TRUE /\ ticked' = ticked /\ threads' = threads
    BY <1>5 DEF OfCodex, CodexAbort
  <2>2. step # "done"
    BY <1>1, <2>1 DEF CallAgrees
  <2>3. ticked' >= ticked
    BY <1>1, <2>1
  <2> QED
    BY <2>1, <2>2, <2>3, Zenon DEF Kept
<1>6. CASE OfCodex(CodexExit)
  BY <1>1, <1>6 DEF OfCodex, CodexExit, HandleExit, Kept
<1>7. CASE OfCodex(CodexKillTimer)
  BY <1>1, <1>7 DEF OfCodex, CodexKillTimer, CodexAgrees, Kept
<1>8. CASE OfCodex(CodexRequestTimeout)
  BY <1>1, <1>8 DEF OfCodex, CodexRequestTimeout, callVars, Kept
<1>9. CASE OfCodex(CodexServer)
  <2>1. ticked' >= ticked
    BY <1>9, ServerTicks
  <2>2. step = "done" => ticked' = ticked
    BY <1>9 DEF OfCodex, CodexServer, Server, ServerItem, ServerAnswers, ServerMeters,
       ServerSpawns, ServerSubagent, ServerCompletes, Notify
  <2> QED
    BY <1>9, <2>1, <2>2 DEF OfCodex, CodexServer, Kept
<1>10. CASE OfCodex(CodexTurnStarted)
  <2>1. ticked' >= ticked
    BY <1>10, TurnStartedTicks
  <2> QED
    BY <1>10, <2>1 DEF OfCodex, CodexTurnStarted, TurnStarted, Kept
<1>11. CASE OfCodex(CodexTurnTimer)
  <2>1. ticked' >= ticked
    BY <1>11, TimerTicks
  <2> QED
    BY <1>11, <2>1 DEF OfCodex, CodexTurnTimer, TurnTimer, Kept
<1> QED
  BY <1>2, <1>3, <1>4, <1>5, <1>6, <1>7, <1>8, <1>9, <1>10, <1>11
     DEF OfCodex, CodexNext, CodexContinue

LEMMA ClaudeProceeds ==
    ASSUME ExecStrong, OfClaude(ClaudeNext)
    PROVE  Kept
<1>1. /\ backend = "claude" /\ CallAgrees /\ ClaudeAgrees /\ ticked \in Nat
      /\ ticked <= total /\ total \in Nat /\ threads \in 0..1
  BY InCall, InClaude DEF OfClaude, ClaudeNext, ClaudeUncompiled, ClaudeCall, ClaudeAbort, ClaudeKillTimer,
     ClaudeExit, AtClaude
<1>2. CASE OfClaude(ClaudeUncompiled) \/ OfClaude(ClaudeCall)
  BY <1>1, <1>2 DEF OfClaude, ClaudeUncompiled, Uncompiled, ClaudeCall, AtClaude, Kept
<1>3. CASE OfClaude(ClaudeAbort)
  <2>1. /\ result = Pending /\ aborted' = TRUE /\ ticked' = ticked /\ threads' = threads
    BY <1>3 DEF OfClaude, ClaudeAbort
  <2>2. step # "done"
    BY <1>1, <2>1 DEF CallAgrees
  <2>3. ticked' >= ticked
    BY <1>1, <2>1
  <2> QED
    BY <2>1, <2>2, <2>3, Zenon DEF Kept
<1>4. CASE OfClaude(ClaudeKillTimer)
  BY <1>1, <1>4 DEF OfClaude, ClaudeKillTimer, ClaudeAgrees, Kept
<1>5. CASE OfClaude(ClaudeExit)
  <2>1. PICK tokens \in 0..MaxTokens, valid \in BOOLEAN,
             envelope \in {"reply", "error", "garbage", "unspawned"} :
           ClaudeClose(tokens, envelope, valid)
    BY <1>5 DEF OfClaude, ClaudeExit
  <2>2. schema' = schema
    BY <1>5 DEF OfClaude
  <2>3. /\ step = "running" /\ total' \in Nat /\ total' >= total
        /\ ticked' \in {ticked, total'}
        /\ threads' \in 0..1 /\ threads' \in {threads, threads + 1} /\ aborted' = aborted
    BY <1>1, <2>1, <2>2, ClaudeCloses
  <2> QED
    BY <1>1, <2>3 DEF Kept
<1> QED
  BY <1>2, <1>3, <1>4, <1>5 DEF OfClaude, ClaudeNext

LEMMA OpencodeProceeds ==
    ASSUME ExecStrong, OfOpencode(OpencodeNext)
    PROVE  Kept
<1>1. backend = "opencode"
  BY DEF OfOpencode, OpencodeNext, OpencodeUncompiled, OpencodeStart, OpencodeAnnounced,
     OpencodeStartTimeout, OpencodeSession, OpencodeNoSession, OpencodeEvent, OpencodeReply, OpencodeHttpTimeout,
     OpencodeGraceTimer, OpencodeIdle, OpencodeTurnOver, OpencodeExit, OpencodeAbort,
     OpencodeCloseTimer, AtOpencode
<1>2. /\ OpencodeAgrees /\ CallAgrees /\ ticked \in Nat /\ ticked = emitted /\ emitted \in Nat
      /\ total \in Nat /\ message \in Nat /\ live \in Nat /\ earlier \in Nat
  BY <1>1, InOpencode
<1>3. CASE \/ OfOpencode(OpencodeUncompiled)
           \/ OfOpencode(OpencodeStart) \/ OfOpencode(OpencodeAnnounced)
           \/ OfOpencode(OpencodeStartTimeout) \/ OfOpencode(OpencodeNoSession)
           \/ OfOpencode(OpencodeReply) \/ OfOpencode(OpencodeHttpTimeout)
           \/ OfOpencode(OpencodeGraceTimer) \/ OfOpencode(OpencodeIdle)
           \/ OfOpencode(OpencodeCloseTimer)
  BY <1>2, <1>3 DEF OfOpencode, OpencodeUncompiled, Uncompiled, OpencodeStart, OpencodeAnnounced, OpencodeStartTimeout,
     OpencodeNoSession, OpencodeReply, OpencodeHttpTimeout, OpencodeGraceTimer, OpencodeIdle,
     OpencodeCloseTimer, AtOpencode, Kept
<1>4. CASE OfOpencode(OpencodeSession)
  <2>1. step = "session" /\ threads = 0
    BY <1>2, <1>4 DEF OfOpencode, OpencodeSession, AtOpencode, OpencodeAgrees
  <2> QED
    BY <1>2, <1>4, <2>1 DEF OfOpencode, OpencodeSession, Kept
<1>5. CASE OfOpencode(OpencodeEvent)
  <2>1. ticked' >= ticked
    BY <1>2, <1>5 DEF OfOpencode, OpencodeEvent, EmitUsage
  <2> QED
    BY <1>5, <2>1 DEF OfOpencode, OpencodeEvent, AtOpencode, Kept
<1>6. CASE OfOpencode(OpencodeTurnOver)
  <2>1. ticked' >= ticked
    BY <1>2, <1>6 DEF OfOpencode, OpencodeTurnOver, EmitUsage
  <2> QED
    BY <1>6, <2>1 DEF OfOpencode, OpencodeTurnOver, AtOpencode, Kept
<1>7. CASE OfOpencode(OpencodeExit)
  <2>1. step = "done" => result' = result
    BY <1>7 DEF OfOpencode, OpencodeExit
  <2> QED
    BY <1>2, <1>7, <2>1 DEF OfOpencode, OpencodeExit, Kept
<1>8. CASE OfOpencode(OpencodeAbort)
  <2>1. /\ result = Pending /\ aborted' = TRUE /\ ticked' = ticked /\ threads' = threads
    BY <1>8 DEF OfOpencode, OpencodeAbort
  <2>2. step # "done"
    BY <1>2, <2>1 DEF CallAgrees
  <2>3. ticked' >= ticked
    BY <1>2, <2>1
  <2> QED
    BY <2>1, <2>2, <2>3, Zenon DEF Kept
<1> QED
  BY <1>3, <1>4, <1>5, <1>6, <1>7, <1>8 DEF OfOpencode, OpencodeNext

(* Each adapter keeps the executor contract: for every number of turns,    *)
(* repairs, tokens, items, messages and events, a call settles once with a *)
(* result of the right shape - or, on claude and with a schema that does   *)
(* not compile, with a rejection -, ticks upwards, announces one session, calls  *)
(* back nobody afterwards, and has signalled its process by then.          *)
THEOREM ContractKept == Spec => ImplementsContract
<1>1. ASSUME Init PROVE Contract!ContractInit
  BY <1>1 DEF Init, CallInit, Contract!ContractInit
<1>2. ASSUME ExecStrong, [Next]_vars
      PROVE  [Contract!Proceed \/ Contract!Afterwards]_(Contract!contractVars)
  <2>1. CASE UNCHANGED vars
    BY <2>1 DEF vars, callVars, Contract!contractVars
  <2>2. CASE Next
    <3>1. Kept
      BY <1>2, <2>2, CodexProceeds, ClaudeProceeds, OpencodeProceeds DEF Next
    <3>2. schema' = schema /\ backend' = backend /\ compiles' = compiles
      BY <2>2 DEF Next, OfCodex, OfClaude, OfOpencode
    <3>3. CallAgrees /\ CallAgrees'
      BY <1>2, InCall, StepKeeps DEF ExecStrong
    <3>4. CASE result = Pending
      <4>1. result' = Pending \/ (Contract!Settle /\ process' # "running")
        <5>1. result' # Pending => Fits(result)' /\ process' # "running"
          BY <3>3 DEF CallAgrees
        <5>2. Fits(result)' => Contract!Settle
          BY <3>2 DEF Fits, Results, Rejected, Contract!Settle
        <5> QED
          BY <5>1, <5>2
      <4>2. Contract!Callbacks
        BY <3>1 DEF Kept, Contract!Callbacks
      <4> QED
        BY <3>1, <3>2, <3>4, <4>1, <4>2 DEF Kept, Contract!Proceed
    <3>5. CASE result # Pending
      <4>1. step = "done"
        BY <3>3, <3>5 DEF CallAgrees
      <4>2. UNCHANGED <<aborted, ticked, threads, result>> /\ process' \in {process, "gone"}
        BY <3>1, <4>1 DEF Kept
      <4> QED
        BY <3>2, <3>5, <4>2 DEF Contract!Afterwards, Contract!contractVars
    <3> QED
      BY <3>4, <3>5
  <2> QED
    BY <1>2, <2>1, <2>2
<1> QED
  BY <1>1, <1>2, StrongHolds, PTL DEF Spec, ImplementsContract, Contract!ContractSpec
-----------------------------------------------------------------------------
(* How a codex turn comes to be completed.                                 *)
Own ==
    turn.status = "running" /\ turn'.status = "completed" =>
        \/ turn.no \notin open'
        \/ /\ turn.no \in answered
           /\ \A w \in work : w[2] # turn.no

LEMMA ServerOwn ==
    ASSUME ExecStrong, OfCodex(CodexServer)
    PROVE  Own
<1>1. /\ backend = "codex" /\ total' = total
      /\ CodexTypes /\ CallTypeOK /\ AwaitsTurn /\ TurnAgrees /\ spent \in Nat /\ total \in Nat
      /\ turn \in TurnRecords
  BY InCodex DEF OfCodex, CodexServer
<1>2. CASE Server
  <2>1. PICK m : Said(m)
    BY <1>1, <1>2, ServerSays
  <2>2. Says(m) /\ step = "turning" /\ turn' = OnNotification(turn, m)
    BY <2>1 DEF Said, Notify, TurnBecomes
  <2>3. turn.no \in MainTurns
    BY <1>1, <2>2 DEF AwaitsTurn, MainTurns, TurnRecords
  <2>4. turn.status = "running" /\ turn'.status = "completed" => turn.no \notin open'
    BY <1>1, <2>2, <2>3, TurnHears
  <2> QED
    BY <2>4 DEF Own
<1>3. CASE turn' = turn
  BY <1>3 DEF Own
<1> QED
  BY <1>2, <1>3 DEF OfCodex, CodexServer, ServerStartsTurn, turnVars

LEMMA CodexOwn ==
    ASSUME ExecStrong, OfCodex(CodexNext)
    PROVE  Own
<1>1. CASE \/ OfCodex(CodexUncompiled)
           \/ OfCodex(CodexStart) \/ OfCodex(CodexInitialized) \/ OfCodex(CodexClosed)
           \/ OfCodex(CodexKillTimer) \/ OfCodex(CodexRequestTimeout)
  <2>1. turn' = turn
    BY <1>1 DEF OfCodex, CodexUncompiled, CodexStart, CodexInitialized, CodexClosed, CodexKillTimer,
       CodexRequestTimeout, codexVars, turnVars
  <2> QED
    BY <2>1 DEF Own
<1>2. CASE OfCodex(CodexThreadStarted)
  <2>1. backend = "codex" /\ step = "threading"
    BY <1>2 DEF OfCodex, CodexThreadStarted, AtCodex
  <2>2. turn.status = "completed"
    BY <2>1, InCodex, RestIs DEF NothingAhead
  <2> QED
    BY <2>2 DEF Own
<1>3. CASE OfCodex(CodexTurnOver)
  BY <1>3 DEF OfCodex, CodexTurnOver, TurnOver, Own
<1>4. CASE OfCodex(CodexAbort)
  <2>1. turn \in TurnRecords /\ turn' \in {turn, AbortTurn(turn)}
    BY <1>4, InCodex DEF OfCodex, CodexAbort
  <2>2. turn'.status = turn.status
    BY <2>1 DEF AbortTurn, TurnRecords
  <2> QED
    BY <2>2 DEF Own
<1>5. CASE OfCodex(CodexExit)
  <2>1. turn \in TurnRecords /\ turn' \in {turn, SettleTurn(turn, "failed", "client")}
    BY <1>5, InCodex DEF OfCodex, CodexExit, ExitTurn
  <2>2. PICK s : s = SettleTurn(turn, "failed", "client")
    OBVIOUS
  <2>3. s.status = IF turn.status = "running" THEN "failed" ELSE turn.status
    BY <2>1, <2>2, SettledIs
  <2> QED
    BY <2>1, <2>2, <2>3 DEF Own
<1>6. CASE OfCodex(CodexServer)
  BY <1>6, ServerOwn
<1>7. CASE OfCodex(CodexTurnStarted)
  BY <1>7, TurnStartedTicks DEF Own
<1>8. CASE OfCodex(CodexTurnTimer)
  BY <1>8, TimerTicks DEF Own
<1> QED
  BY <1>1, <1>2, <1>3, <1>4, <1>5, <1>6, <1>7, <1>8 DEF OfCodex, CodexNext, CodexContinue

(* No codex turn is cut short: one that settles as completed was completed *)
(* by the server, or its final answer was given and nothing the server     *)
(* announced for it runs any more, however many turns, subagents and       *)
(* messages there are, and whatever came before the response that names    *)
(* the turn.                                                               *)
THEOREM NoTurnCutShort == Spec => CompletionIsOwn
<1>1. ASSUME ExecStrong, [Next]_vars
      PROVE  [Own]_vars
  <2>1. CASE OfCodex(CodexNext)
    BY <1>1, <2>1, CodexOwn
  <2>2. CASE OfClaude(ClaudeNext) \/ OfOpencode(OpencodeNext)
    <3>1. turn' = turn
      BY <2>2 DEF OfClaude, OfOpencode, codexVars, turnVars
    <3> QED
      BY <3>1 DEF Own
  <2> QED
    BY <1>1, <2>1, <2>2 DEF Next
<1> QED
  BY <1>1, StrongHolds, PTL DEF Spec, CompletionIsOwn, Own
=============================================================================
