------------------------------- MODULE OrgTick -------------------------------
(* `ultracodex org tick` (src/org/scheduler.ts): one pass of the scheduler *)
(* over an org, with the wakes it starts (src/org/wake.ts), the last-wake  *)
(* file (src/org/state.ts) and a reply that `org send` makes beside it.    *)
(*                                                                         *)
(* A tick expires tickets, then wakes the deepest due seats, batch after   *)
(* batch, delivers what each returned and writes the stamps of the batch.  *)
(* What an agent does in its own directory during a wake is chosen freely, *)
(* within its instructions: it deletes the inbox items it was given and    *)
(* renews its reviews, or it does not; it logs a material line, or not.    *)
EXTENDS OrgRouter, FiniteSetsExt

CONSTANTS
    Rank,         \* Rank[a]: the place of a's path in the order of paths
    Outboxes,     \* Outboxes[a]: the outboxes a may return
    Concurrency,  \* --concurrency
    MaxRounds,    \* maxRounds
    WakeCap,      \* ORG_WAKE_CAP
    NoSeat, NoCopy, Torn,
    FirstReviews, FirstTickets, FirstDocs,   \* the org before the first tick
    MaxDay, MaxTicks,
    MaxOutside,   \* bound: crashes and replies from outside, together
    Material      \* bound: the seats that ever log a material line

ASSUME TickBounds ==
    /\ Concurrency \in Nat \ {0}
    /\ \A n \in {MaxRounds, WakeCap, MaxTicks, MaxOutside} : n \in Nat
    /\ MaxDay \in Nat \ {0}
    /\ NoSeat \notin Seats
    /\ Rank \in [Seats -> Nat]
    /\ \A a, b \in Seats : Rank[a] = Rank[b] => a = b

(* What the org is before the first tick, and that the file of stamps can  *)
(* be told from a torn one.                                                *)
ASSUME FirstOrg ==
    /\ FirstDocs \subseteq Seats
    /\ FirstReviews \subseteq [Seats -> 0 .. MaxDay + 1]
    /\ \A t \in FirstTickets :
         /\ t \in [DOMAIN t -> Ticket] /\ IsFiniteSet(DOMAIN t)
         /\ \A k \in DOMAIN t : k.to \in Seats
    /\ \A a \in Seats : \A o \in Outboxes[a] : Len(o) \in Nat
    /\ Torn \notin [Seats -> [day : Nat, seq : Nat]]

VARIABLES
    day, seq,  \* the date, and a clock that tells stamps of one day apart
    review,    \* review[a]: the earliest next_review of a's memory files
    lines,     \* lines[a]: the dates of the material lines of a's LOG and BRIEF
    stamps,    \* last-wake.json: lastWake of every seat, or Torn
    tick,      \* the tick process
    reply,     \* the ticket file that `org send ... REPLY` has read
    unheard,   \* the seats stamped since their parent's last stamped wake began
    spent      \* how often the bounded events have happened

disk == <<inbox, tickets, review, lines, stamps>>
vars == <<disk, day, seq, tick, reply, unheard, spent>>
-----------------------------------------------------------------------------
Never == [day |-> 0, seq |-> 0]
NoDate == MaxDay + 1

Idle == [pc |-> "idle", date |-> 0, mem |-> [a \in Seats |-> Never], round |-> 0,
         invoked |-> {}, failed |-> {}, overdue |-> {}, copy |-> NoCopy,
         expired |-> {}, notices |-> {}, batch |-> {}, running |-> {},
         listed |-> [a \in Seats |-> {}], out |-> << >>, stampedAt |-> Never,
         todo |-> {}, sending |-> NoSeat, pos |-> 1, num |-> 1]

Init ==
    /\ inbox = {Item(a, <<"doc", a>>, 1) : a \in FirstDocs}
    /\ tickets \in FirstTickets
    /\ review \in FirstReviews
    /\ lines = [a \in Seats |-> {}]
    /\ stamps = [a \in Seats |-> Never]
    /\ day = 1
    /\ seq = 0
    /\ tick = Idle
    /\ reply = NoCopy
    /\ unheard = {}
    /\ spent = [ticks |-> 0, outside |-> 0]

At(label) == tick.pc = label
Spend(what, bound) ==
    /\ spent[what] < bound
    /\ spent' = [spent EXCEPT ![what] = @ + 1]

(* An exception that executeTick() does not catch: what the tick holds in  *)
(* memory is gone.                                                         *)
Abort == tick' = Idle
-----------------------------------------------------------------------------
(* evaluateTriggers().                                                     *)
Inbox(a) == {f \in inbox : f.to = a}

TimeDue(a, today) == review[a] <= today

QuantityDue(a) == Inbox(a) # {}

(* lineIsSince(): a line's date against the date of the parent's stamp.    *)
ContentDue(a, st) ==
    \E c \in Children(a) : \E d \in lines[c] : st[a] = Never \/ d > st[a].day

(* Mutant: stamps compared by their dates, like lines.                     *)
DependencyDueByDate(a, st) ==
    \E c \in Children(a) : st[c] # Never /\ (st[a] = Never \/ st[c].day > st[a].day)

(* wakeAfter().                                                            *)
DependencyDue(a, st) ==
    \E c \in Children(a) : st[c] # Never /\ (st[a] = Never \/ st[c].seq > st[a].seq)

Due(today, st) ==
    {a \in Seats : TimeDue(a, today) \/ QuantityDue(a)
                     \/ ContentDue(a, st) \/ DependencyDue(a, st)}

(* The order of plan.wakes in one depth, and of list() of tickets.         *)
First(set) == CHOOSE a \in set : \A b \in set : Rank[a] <= Rank[b]
FirstTicket(set) == CHOOSE k \in set : k.to = First({j.to : j \in set})

Deepest(set) == {a \in set : \A b \in set : Depth(b) <= Depth(a)}
-----------------------------------------------------------------------------
(* readLastWakeState(), which throws on a file cut short, and expire()'s   *)
(* scan for open tickets.                                                  *)
StartTick ==
    /\ At("idle")
    /\ stamps # Torn
    /\ Spend("ticks", MaxTicks)
    /\ tick' = [Idle EXCEPT !.pc = "expire", !.date = day, !.mem = stamps,
                  !.overdue = {k \in DOMAIN tickets :
                                 tickets[k].state = "open" /\ tickets[k].deadline < day}]
    /\ UNCHANGED <<disk, day, seq, reply, unheard>>

(* Mutant: the ticket is expired as the scan found it.                     *)
ReadOverdueUnchecked ==
    /\ At("expire") /\ tick.copy = NoCopy /\ tick.overdue # {}
    /\ LET k == FirstTicket(tick.overdue)
       IN  tick' = [tick EXCEPT !.copy = [key |-> k, state |-> tickets[k].state]]
    /\ UNCHANGED <<disk, day, seq, reply, unheard, spent>>

(* transition(): the file is read again, and a ticket that was closed in   *)
(* the meantime ends the tick.                                             *)
ReadOverdue ==
    /\ At("expire") /\ tick.copy = NoCopy /\ tick.overdue # {}
    /\ LET k == FirstTicket(tick.overdue)
       IN  IF tickets[k].state \in Terminal \ {"expired"}
           THEN Abort
           ELSE tick' = [tick EXCEPT !.copy = [key |-> k, state |-> tickets[k].state]]
    /\ UNCHANGED <<disk, day, seq, reply, unheard, spent>>

WriteExpired ==
    /\ At("expire") /\ tick.copy # NoCopy
    /\ LET k == tick.copy.key
       IN  /\ SetState(k, "expired")
           /\ tick' = [tick EXCEPT !.overdue = @ \ {k}, !.copy = NoCopy,
                         !.expired = @ \cup {k}, !.notices = @ \cup {k}]
    /\ UNCHANGED <<inbox, review, lines, stamps, day, seq, reply, unheard, spent>>

ExpiredName(k) == <<"expired", k.id>>

(* Mutant: the notice goes to whom the ticket was for.                     *)
NotifyTarget ==
    /\ At("expire") /\ tick.overdue = {} /\ tick.notices # {}
    /\ LET k == FirstTicket(tick.notices)
       IN  /\ inbox' = inbox \cup {Item(k.to, ExpiredName(k), tick.date)}
           /\ tick' = [tick EXCEPT !.notices = @ \ {k}]
    /\ UNCHANGED <<tickets, review, lines, stamps, day, seq, reply, unheard, spent>>

(* expireTickets(): the author of every expired ticket gets a notice.      *)
Notify ==
    /\ At("expire") /\ tick.overdue = {} /\ tick.notices # {}
    /\ LET k == FirstTicket(tick.notices)
           author == tickets[k].from
       IN    \/ /\ FileExists(author, ExpiredName(k))
                /\ Abort
                /\ UNCHANGED inbox
             \/ /\ ~FileExists(author, ExpiredName(k))
                /\ inbox' = inbox \cup {Item(author, ExpiredName(k), tick.date)}
                /\ tick' = [tick EXCEPT !.notices = @ \ {k}]
    /\ UNCHANGED <<tickets, review, lines, stamps, day, seq, reply, unheard, spent>>

(* Mutant: a round takes whatever is due, invoked or not.                  *)
PlanAgain ==
    /\ At("plan") \/ (At("expire") /\ tick.overdue = {} /\ tick.notices = {})
    /\ LET pending == Due(tick.date, tick.mem)
       IN  tick' = IF pending = {} \/ tick.round = MaxRounds
                   THEN [tick EXCEPT !.pc = "post"]
                   ELSE [tick EXCEPT !.pc = "wake", !.batch = Deepest(pending),
                                     !.out = << >>, !.expired = {}]
    /\ UNCHANGED <<disk, day, seq, reply, unheard, spent>>

(* A round of executeTick()'s loop, or its end: nothing is due that was    *)
(* not invoked already, or the rounds are used up.                         *)
Plan ==
    /\ At("plan") \/ (At("expire") /\ tick.overdue = {} /\ tick.notices = {})
    /\ LET pending == Due(tick.date, tick.mem) \ tick.invoked
       IN  tick' = IF pending = {} \/ tick.round = MaxRounds
                   THEN [tick EXCEPT !.pc = "post"]
                   ELSE [tick EXCEPT !.pc = "wake", !.batch = Deepest(pending),
                                     !.out = << >>, !.expired = {}]
    /\ UNCHANGED <<disk, day, seq, reply, unheard, spent>>
-----------------------------------------------------------------------------
(* scanInbox(): the oldest items, up to the cap.                           *)
Listings(a) ==
    {S \in SUBSET Inbox(a) :
       /\ Cardinality(S) = WakeCap \/ (S = Inbox(a) /\ Cardinality(S) < WakeCap)
       /\ \A f \in S, g \in Inbox(a) \ S : f.received <= g.received}

(* runBounded() hands a seat to a free worker; wakeAgent() starts.         *)
StartWake ==
    /\ At("wake")
    /\ tick.batch # {} /\ Cardinality(tick.running) < Concurrency
    /\ LET a == First(tick.batch)
       IN  \E S \in Listings(a) :
             tick' = [tick EXCEPT !.batch = @ \ {a}, !.running = @ \cup {a}, !.listed[a] = S]
    /\ UNCHANGED <<disk, day, seq, reply, unheard, spent>>

(* What the wake leaves in a's directory, by the wake templates' FILE      *)
(* RULES, once the agent has done its work, and maybe a material line.     *)
Works(a) ==
    /\ inbox' = inbox \ tick.listed[a]
    /\ review' = [review EXCEPT ![a] = NoDate]
    /\ lines' \in {lines, [c \in Seats |-> IF c \in {a} \cap Material
                                           THEN lines[c] \cup {tick.date} ELSE lines[c]]}
    /\ UNCHANGED <<tickets, stamps>>

WakeReturns ==
    /\ At("wake")
    /\ \E a \in tick.running :
         /\ Works(a) \/ UNCHANGED disk
         /\ \E o \in Outboxes[a] :
              tick' = [tick EXCEPT !.running = @ \ {a}, !.listed[a] = {},
                          !.out = [c \in DOMAIN @ \cup {a} |-> IF c = a THEN o ELSE @[c]]]
    /\ UNCHANGED <<day, seq, reply, unheard, spent>>

(* The run exits nonzero or returns no valid result, before or after the   *)
(* agent has done its work.                                                *)
WakeFails ==
    /\ At("wake")
    /\ \E a \in tick.running :
         /\ Works(a) \/ UNCHANGED disk
         /\ tick' = [tick EXCEPT !.running = @ \ {a}, !.listed[a] = {},
                               !.failed = @ \cup {a}]
    /\ UNCHANGED <<day, seq, reply, unheard, spent>>

(* The batch is over: stampedAt.                                           *)
StampBatch ==
    /\ At("wake") /\ tick.batch = {} /\ tick.running = {}
    /\ seq' = seq + 1
    /\ tick' = [tick EXCEPT !.pc = "deliver", !.todo = DOMAIN tick.out,
                  !.invoked = @ \cup DOMAIN tick.out \cup tick.failed,
                  !.stampedAt = [day |-> day, seq |-> seq + 1]]
    /\ UNCHANGED <<disk, day, reply, unheard, spent>>
-----------------------------------------------------------------------------
(* deliverWakeOutbox().                                                    *)
RejectedName(n) == <<"rejected", tick.date, n>>

Feedback(a) == {f \in Inbox(a) : f.name[1] = "rejected" /\ f.name[2] = tick.date}

(* nextRejectionNumber(): one more than the greatest there is.             *)
NextRejection(a) == Max({0} \cup {f.name[3] : f \in Feedback(a)}) + 1

OpenOutbox ==
    /\ At("deliver") /\ tick.sending = NoSeat /\ tick.todo # {}
    /\ LET a == First(tick.todo) IN
         tick' = [tick EXCEPT !.sending = a, !.pos = 1, !.num = NextRejection(a)]
    /\ UNCHANGED <<disk, day, seq, reply, unheard, spent>>

Outbox == tick.out[tick.sending]
Sending == At("deliver") /\ tick.sending # NoSeat /\ tick.pos <= Len(Outbox)

DeliverMessage ==
    /\ Sending
    /\ Deliver(tick.sending, Outbox[tick.pos], tick.date)
    /\ tick' = [tick EXCEPT !.pos = @ + 1]
    /\ UNCHANGED <<review, lines, stamps, day, seq, reply, unheard, spent>>

(* Mutant: the number of the next feedback is not counted on.              *)
RejectMessageUnnumbered ==
    /\ Sending
    /\ Violates(tick.sending, Outbox[tick.pos])
    /\ inbox' = IF FileExists(tick.sending, RejectedName(tick.num)) THEN inbox
                ELSE inbox \cup {Item(tick.sending, RejectedName(tick.num), tick.date)}
    /\ tick' = [tick EXCEPT !.pos = @ + 1]
    /\ UNCHANGED <<tickets, review, lines, stamps, day, seq, reply, unheard, spent>>

(* A routing violation is answered in the sender's inbox, and the rest of  *)
(* the outbox goes on.                                                     *)
RejectMessage ==
    /\ Sending
    /\ Violates(tick.sending, Outbox[tick.pos])
    /\ inbox' = IF FileExists(tick.sending, RejectedName(tick.num)) THEN inbox
                ELSE inbox \cup {Item(tick.sending, RejectedName(tick.num), tick.date)}
    /\ tick' = [tick EXCEPT !.pos = @ + 1, !.num = @ + 1]
    /\ UNCHANGED <<tickets, review, lines, stamps, day, seq, reply, unheard, spent>>

(* Any other error ends the tick.                                          *)
DeliveryThrows ==
    /\ Sending
    /\ ~Violates(tick.sending, Outbox[tick.pos])
    /\ Throws(Outbox[tick.pos], tick.date)
    /\ Abort
    /\ UNCHANGED <<disk, day, seq, reply, unheard, spent>>

CloseOutbox ==
    /\ At("deliver") /\ tick.sending # NoSeat /\ tick.pos > Len(Outbox)
    /\ tick' = [tick EXCEPT !.mem[tick.sending] = tick.stampedAt,
                  !.todo = @ \ {tick.sending}, !.sending = NoSeat, !.pos = 1, !.num = 1]
    /\ UNCHANGED <<disk, day, seq, reply, unheard, spent>>

(* writeLastWakeState(): writeFile() truncates, then writes.               *)
TruncateStamps ==
    /\ At("deliver") /\ tick.todo = {}
    /\ stamps' = Torn
    /\ tick' = [tick EXCEPT !.pc = "write"]
    /\ UNCHANGED <<inbox, tickets, review, lines, day, seq, reply, unheard, spent>>

WriteStamps ==
    /\ At("write")
    /\ stamps' = tick.mem
    /\ tick' = [tick EXCEPT !.pc = "plan", !.round = @ + 1]
    /\ unheard' = {c \in unheard : Parent[c] \notin DOMAIN tick.out}
                    \cup (DOMAIN tick.out \ {Root})
    /\ UNCHANGED <<inbox, tickets, review, lines, day, seq, reply, spent>>

(* postTick(): lint, repairs and the commit, which may throw; or the no-op *)
(* of a tick that woke nobody.  The result names the seats that failed.    *)
EndTick ==
    /\ At("post")
    /\ tick' = [Idle EXCEPT !.failed = tick.failed]
    /\ UNCHANGED <<disk, day, seq, reply, unheard, spent>>
-----------------------------------------------------------------------------
(* The tick is killed.  Wakes it has started are processes of their own    *)
(* and may do their work yet.                                              *)
Crash ==
    /\ ~At("idle")
    /\ Spend("outside", MaxOutside)
    /\ tick' = Idle
    /\ \E S \in SUBSET tick.running :
         /\ inbox' = inbox \ UNION {tick.listed[a] : a \in S}
         /\ review' = [a \in Seats |-> IF a \in S THEN NoDate ELSE review[a]]
         /\ lines' \in {lines, [a \in Seats |-> IF a \in S \cap Material THEN lines[a] \cup {tick.date}
                                                ELSE lines[a]]}
    /\ UNCHANGED <<tickets, stamps, day, seq, reply, unheard>>

(* Midnight passes between ticks or while agents work; the rest of a tick  *)
(* takes no time to speak of.                                              *)
NextDay ==
    /\ day < MaxDay
    /\ At("idle") \/ tick.running # {}
    /\ day' = day + 1
    /\ UNCHANGED <<disk, seq, tick, reply, unheard, spent>>

(* `org send <agent> REPLY <ticket>`: reply() reads the ticket, then       *)
(* writes it.                                                              *)
ReadForReply ==
    /\ reply = NoCopy
    /\ Spend("outside", MaxOutside)
    /\ \E k \in DOMAIN tickets :
         /\ tickets[k].state = "open"
         /\ reply' = [key |-> k, state |-> "open"]
    /\ UNCHANGED <<disk, day, seq, tick, unheard>>

WriteReply ==
    /\ reply # NoCopy
    /\ SetState(reply.key, "done")
    /\ reply' = NoCopy
    /\ UNCHANGED <<inbox, review, lines, stamps, day, seq, tick, unheard, spent>>

TickNext ==
    \/ StartTick \/ ReadOverdue \/ WriteExpired \/ Notify \/ Plan
    \/ StartWake \/ WakeReturns \/ WakeFails \/ StampBatch
    \/ OpenOutbox \/ DeliverMessage \/ RejectMessage \/ DeliveryThrows \/ CloseOutbox
    \/ TruncateStamps \/ WriteStamps \/ EndTick

Next == TickNext \/ Crash \/ NextDay \/ ReadForReply \/ WriteReply

Spec == Init /\ [][Next]_vars
-----------------------------------------------------------------------------
OrgTypeOK ==
    /\ \A f \in inbox : f.received \in 1..MaxDay
    /\ \A k \in DOMAIN tickets : tickets[k].state \in Terminal \cup {"open"}
    /\ review \in [Seats -> 0..NoDate]
    /\ lines \in [Seats -> SUBSET (1..MaxDay)]
    /\ stamps = Torn \/ DOMAIN stamps = Seats
    /\ tick.batch \cup tick.running \subseteq Seats \ tick.invoked
    /\ tick.todo \subseteq DOMAIN tick.out
    /\ unheard \subseteq Seats \ {Root}

(* What became of message m of a.                                          *)
Delivered(a, m) ==
    \/ m.type = "NOTIFY" /\ FileExists(m.to, NotifyName(m, tick.date))
    \/ m.type = "REQUEST" /\ TicketKey(m, tick.date) \in DOMAIN tickets
    \/ m.type = "REPLY" /\ \E k \in TicketsOf(m.ticket) : k.to = a /\ tickets[k].state = "done"

(* A seat is stamped on disk only when every message of its outbox is in   *)
(* its place, or answered by a feedback of its own: a tick cut short       *)
(* anywhere never marks a wake as done whose messages it still held.       *)
StampMeansDelivered ==
    [][stamps = Torn /\ stamps' # Torn =>
         \A a \in DOMAIN tick.out :
           LET o == tick.out[a]
               undelivered == {i \in 1..Len(o) : ~Delivered(a, o[i])}
           IN  /\ stamps'[a] = tick.stampedAt
               /\ Cardinality(undelivered) <= Cardinality(Feedback(a))]_vars

(* Between ticks, and after a crash anywhere in one, a parent that has not *)
(* been woken since a child's stamped wake is due: no finished work waits  *)
(* for a parent that nothing wakes.                                        *)
ParentHears ==
    At("idle") /\ stamps # Torn =>
        \A c \in unheard : Parent[c] \in Due(day, stamps)

(* Types, and no parent left out.                                          *)
TickInv == OrgTypeOK /\ ParentHears

(* A tick that goes on to wake seats has told the author of every ticket   *)
(* it has expired.                                                         *)
ExpiryReported ==
    [][tick.pc = "expire" /\ tick'.pc \in {"wake", "post"} =>
         \A k \in tick.expired : FileExists(tickets[k].from, ExpiredName(k))]_vars

(* A closed ticket stays as it is, unless by a writer that had read it     *)
(* while it was open.                                                      *)
Writers == {w \in {tick.copy, reply} : w # NoCopy /\ w.state = "open"}
ClosedUnlessRaced ==
    [][\A k \in DOMAIN tickets :
         /\ k \in DOMAIN tickets'
         /\ tickets[k].state \in Terminal /\ tickets'[k] # tickets[k] =>
              \E w \in Writers : w.key = k]_vars

(* "The seat keeps its state unstamped so it stays due and retries next    *)
(* tick" (src/org/scheduler.ts:184), of a seat whose wake failed.          *)
FailedStaysDue ==
    At("idle") /\ stamps # Torn => tick.failed \subseteq Due(day, stamps)
=============================================================================
