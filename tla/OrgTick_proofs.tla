---------------------------- MODULE OrgTick_proofs ----------------------------
(* Proofs about OrgTick: for every org, whatever its agents return, and    *)
(* for any number of ticks, crashes and replies from outside.              *)
EXTENDS OrgTick, FiniteSetTheorems, TLAPS

Stamp == [day : Nat, seq : Nat]
Steps == {"idle", "expire", "plan", "wake", "deliver", "write", "post"}

IsTick(t) ==
    t = [pc |-> t.pc, date |-> t.date, mem |-> t.mem, round |-> t.round, invoked |-> t.invoked,
         failed |-> t.failed, overdue |-> t.overdue, copy |-> t.copy, expired |-> t.expired,
         notices |-> t.notices, batch |-> t.batch, running |-> t.running, listed |-> t.listed,
         out |-> t.out, stampedAt |-> t.stampedAt, todo |-> t.todo, sending |-> t.sending,
         pos |-> t.pos, num |-> t.num]

IsRejected(f) == f.name[1] = "rejected"

(* The files, and that the numbers of the feedback items have a bound.     *)
InboxTyped ==
    /\ IsFiniteSet(inbox)
    /\ \A f \in inbox : f.received \in 1 .. MaxDay /\ (IsRejected(f) => f.name[3] \in Nat)
    /\ \E n \in Nat : \A f \in inbox : IsRejected(f) => f.name[3] <= n

TicketsTyped ==
    /\ tickets \in [DOMAIN tickets -> Ticket] /\ IsFiniteSet(DOMAIN tickets)
    /\ \A k \in DOMAIN tickets : k.to \in Seats

FilesTyped ==
    /\ InboxTyped
    /\ TicketsTyped
    /\ review \in [Seats -> 0 .. NoDate]
    /\ lines \in [Seats -> SUBSET (1 .. MaxDay)]
    /\ stamps = Torn \/ stamps \in [Seats -> Stamp]

TickTyped ==
    /\ IsTick(tick)
    /\ tick.pc \in Steps
    /\ tick.date \in Nat
    /\ tick.pc # "idle" => tick.date \in 1 .. MaxDay
    /\ tick.mem \in [Seats -> Stamp]
    /\ tick.invoked \in SUBSET Seats /\ tick.failed \in SUBSET Seats
    /\ DOMAIN tick.out \in SUBSET Seats
    /\ \A a \in DOMAIN tick.out : Len(tick.out[a]) \in Nat
    /\ tick.stampedAt \in Stamp
    /\ tick.pos \in Nat /\ tick.num \in Nat

Types ==
    /\ FilesTyped
    /\ TickTyped
    /\ day \in 1 .. MaxDay /\ seq \in Nat
    /\ unheard \in SUBSET (Seats \ {Root})

(* Seats are handed from the batch to the workers to the outboxes.         *)
SeatsHandedOn ==
    /\ tick.batch \cup tick.running \subseteq Seats \ tick.invoked
    /\ tick.pc # "wake" => tick.batch = {} /\ tick.running = {}
    /\ tick.todo \subseteq DOMAIN tick.out
    /\ tick.pc # "deliver" => tick.todo = {}
    /\ tick.sending # NoSeat => tick.sending \in tick.todo

(* What the tick and a reply know of the tickets.                          *)
CopiesAreOpen ==
    /\ tick.pc = "expire" =>
         /\ tick.overdue \in SUBSET DOMAIN tickets
         /\ \A k \in tick.overdue : tickets[k].state # "expired"
         /\ tick.copy # NoCopy => tick.copy.key \in tick.overdue /\ tick.copy.state = "open"
    /\ tick.pc # "expire" => tick.copy = NoCopy
    /\ reply # NoCopy => reply.key \in DOMAIN tickets /\ reply.state = "open"

NoticesSent ==
    tick.pc = "expire" =>
        /\ tick.expired \in SUBSET DOMAIN tickets
        /\ tick.notices \subseteq tick.expired
        /\ \A k \in tick.expired \ tick.notices : FileExists(tickets[k].from, ExpiredName(k))

(* What the tick has not delivered of the first n messages of a's outbox,  *)
(* the seats whose outbox is done with, and the seat whose outbox is open. *)
Undelivered(a, n) == {i \in 1 .. n : ~Delivered(a, tick.out[a][i])}

Settled(a) ==
    /\ tick.mem[a] = tick.stampedAt
    /\ Cardinality(Undelivered(a, Len(tick.out[a]))) <= Cardinality(Feedback(a))

InHand(a) ==
    /\ tick.pos >= 1
    /\ Cardinality(Undelivered(a, tick.pos - 1)) <= Cardinality(Feedback(a))
    /\ \A f \in Feedback(a) : f.name[3] < tick.num

Accounted ==
    tick.pc \in {"deliver", "write"} =>
        /\ \A a \in DOMAIN tick.out \ tick.todo : Settled(a)
        /\ tick.sending # NoSeat => InHand(tick.sending)

(* A step that takes back nothing that was delivered.                      *)
NothingTakenBack ==
    /\ inbox \subseteq inbox' /\ IsFiniteSet(inbox')
    /\ DOMAIN tickets \subseteq DOMAIN tickets'
    /\ \A k \in DOMAIN tickets : tickets[k].state = "done" => tickets'[k].state = "done"
    /\ tick'.date = tick.date /\ tick'.out = tick.out

(* The stamps: who was heard, and that a batch is later than all before.   *)
Later(s, t) == s # Never /\ (t = Never \/ s.seq > t.seq)
Heard(st, set) == \A c \in set : Later(st[c], st[Parent[c]])

StampsOrdered ==
    /\ stamps # Torn => Heard(stamps, unheard) /\ \A a \in Seats : stamps[a].seq <= seq
    /\ tick.pc \in {"expire", "plan", "wake"} => stamps # Torn /\ tick.mem = stamps
    /\ tick.pc = "deliver" =>
         /\ stamps # Torn
         /\ tick.stampedAt.seq = seq /\ \A a \in Seats : stamps[a].seq < seq
         /\ tick.mem = [a \in Seats |-> IF a \in DOMAIN tick.out \ tick.todo
                                        THEN tick.stampedAt ELSE stamps[a]]
    /\ tick.pc = "write" =>
         /\ stamps = Torn
         /\ Heard(tick.mem, {c \in unheard : Parent[c] \notin DOMAIN tick.out}
                              \cup (DOMAIN tick.out \ {Root}))
         /\ \A a \in Seats : tick.mem[a].seq <= seq

(* A batch is of one depth.                                                *)
OneDepth ==
    tick.pc \in {"wake", "deliver"} =>
        \A a, b \in tick.batch \cup tick.running \cup DOMAIN tick.out : Depth(a) = Depth(b)

TickStrong ==
    /\ Types /\ SeatsHandedOn /\ CopiesAreOpen /\ NoticesSent /\ Accounted /\ StampsOrdered
    /\ OneDepth
-----------------------------------------------------------------------------
(* Lemmas: least elements, the order of the seats, and the tree.           *)
LEMMA LeastNatural ==
    ASSUME NEW S \in SUBSET Nat, S # {}
    PROVE  \E m \in S : \A n \in S : m <= n
<1> DEFINE R == OpToRel(<, Nat)
<1>1. IsWellFoundedOn(R, Nat)
  BY NatLessThanWellFounded
<1>2. \A x, y \in Nat : <<y, x>> \in R <=> y < x
  BY DEF OpToRel
<1> HIDE DEF R
<1>3. PICK m \in S : \A n \in S : <<n, m>> \notin R
  BY <1>1, WFMin
<1>4. ASSUME NEW n \in S PROVE m <= n
  <2>1. m \in Nat /\ n \in Nat
    OBVIOUS
  <2>2. ~(n < m)
    BY <1>2, <1>3, <2>1
  <2> QED
    BY <2>1, <2>2
<1> QED
  BY <1>4

(* A bounded set of numbers has a greatest one.                            *)
LEMMA GreatestNatural ==
    ASSUME NEW S \in SUBSET Nat, S # {}, NEW b \in Nat, \A n \in S : n <= b
    PROVE  Max(S) \in S /\ \A n \in S : n <= Max(S)
<1> DEFINE T == {b - n : n \in S}
<1>1. T \in SUBSET Nat /\ T # {}
  <2>1. \A n \in S : n \in Nat /\ n <= b /\ b - n \in Nat
    OBVIOUS
  <2> QED
    BY <2>1
<1>2. PICK m \in T : \A n \in T : m <= n
  BY <1>1, LeastNatural
<1>3. PICK x \in S : m = b - x
  BY <1>2
<1>4. ASSUME NEW n \in S PROVE x >= n
  <2>1. m <= b - n
    BY <1>2
  <2>2. x \in Nat /\ n \in Nat
    OBVIOUS
  <2> QED
    BY <1>3, <2>1, <2>2
<1>5. Max(S) \in S /\ \A n \in S : Max(S) >= n
  BY <1>4 DEF Max
<1> QED
  BY <1>5

LEMMA FirstIsOne ==
    ASSUME NEW S \in SUBSET Seats, S # {}
    PROVE  First(S) \in S
<1> DEFINE R == {Rank[a] : a \in S}
<1>1. R \in SUBSET Nat /\ R # {}
  BY TickBounds
<1>2. PICK m \in R : \A n \in R : m <= n
  BY <1>1, LeastNatural
<1>3. PICK a \in S : \A b \in S : Rank[a] <= Rank[b]
  BY <1>2
<1> QED
  BY <1>3 DEF First

LEMMA FirstTicketIsOne ==
    ASSUME NEW S, S # {}, \A k \in S : k.to \in Seats
    PROVE  FirstTicket(S) \in S
<1>1. First({k.to : k \in S}) \in {k.to : k \in S}
  BY FirstIsOne
<1>2. \E k \in S : k.to = First({j.to : j \in S})
  BY <1>1
<1> QED
  BY <1>2 DEF FirstTicket

LEMMA ParentsAreAbove ==
    ASSUME NEW a \in Seats, a # Root
    PROVE  Parent[a] \in Seats /\ Depth(Parent[a]) # Depth(a)
BY SeatsFormATree DEF Depth

LEMMA DeepestAreLevel ==
    ASSUME NEW S \in SUBSET Seats, NEW a \in Deepest(S), NEW b \in Deepest(S)
    PROVE  Depth(a) = Depth(b)
<1>1. Depth(a) \in Nat /\ Depth(b) \in Nat
  BY DEF Depth
<1>2. Depth(a) <= Depth(b) /\ Depth(b) <= Depth(a)
  BY DEF Deepest
<1> QED
  BY <1>1, <1>2
-----------------------------------------------------------------------------
(* Lemmas: the files.                                                      *)
LEMMA AddItem ==
    ASSUME InboxTyped, NEW to, NEW name, NEW date \in 1 .. MaxDay,
           name[1] = "rejected" => name[3] \in Nat, inbox' = inbox \cup {Item(to, name, date)}
    PROVE  InboxTyped'
<1> DEFINE x == Item(to, name, date)
<1>1. IsFiniteSet(inbox')
  BY FS_AddElement DEF InboxTyped
<1>2. x.name = name /\ x.received = date
  BY DEF Item
<1>3. PICK n \in Nat : \A f \in inbox : IsRejected(f) => f.name[3] <= n
  BY DEF InboxTyped
<1> HIDE DEF x
<1>4. \A f \in inbox' : f.received \in 1 .. MaxDay /\ (IsRejected(f) => f.name[3] \in Nat)
  BY <1>2 DEF InboxTyped, IsRejected, x
<1>5. \E m \in Nat : \A f \in inbox' : IsRejected(f) => f.name[3] <= m
  <2>1. CASE name[1] # "rejected"
    BY <1>2, <1>3, <2>1 DEF IsRejected, x
  <2>2. CASE name[1] = "rejected"
    <3>1. n + name[3] \in Nat
      BY <2>2
    <3>2. \A f \in inbox' : IsRejected(f) => f.name[3] <= n + name[3]
      BY <1>2, <1>3, <1>4, <2>2 DEF x
    <3> QED
      BY <3>1, <3>2
  <2> QED
    BY <2>1, <2>2
<1> QED
  BY <1>1, <1>4, <1>5 DEF InboxTyped

LEMMA RemoveItems ==
    ASSUME InboxTyped, inbox' \subseteq inbox
    PROVE  InboxTyped'
<1>1. IsFiniteSet(inbox')
  BY FS_Subset DEF InboxTyped
<1> QED
  BY <1>1 DEF InboxTyped

LEMMA SetStateTyped ==
    ASSUME TicketsTyped, NEW k \in DOMAIN tickets, NEW state \in Terminal, SetState(k, state)
    PROVE  /\ TicketsTyped'
           /\ DOMAIN tickets' = DOMAIN tickets
           /\ tickets'[k].state = state
           /\ \A j \in DOMAIN tickets : tickets'[j].from = tickets[j].from
           /\ \A j \in DOMAIN tickets : j # k => tickets'[j] = tickets[j]
<1>1. tickets[k] \in Ticket /\ tickets' = [tickets EXCEPT ![k].state = state]
  BY DEF TicketsTyped, SetState
<1> DEFINE t == [tickets[k] EXCEPT !.state = state]
<1>2. t \in Ticket /\ t.state = state /\ t.from = tickets[k].from
  BY <1>1 DEF Ticket
<1>3. tickets' = [tickets EXCEPT ![k] = t]
  BY <1>1
<1> HIDE DEF t
<1> QED
  BY <1>2, <1>3 DEF TicketsTyped

(* A request by a seat that may make it adds one open ticket.              *)
LEMMA RequestTyped ==
    ASSUME TicketsTyped, NEW from \in Seats, NEW m, NEW date \in Nat, ~Violates(from, m),
           ~Throws(m, date), DeliverRequest(from, m, date)
    PROVE  /\ TicketsTyped'
           /\ TicketKey(m, date) \in DOMAIN tickets'
           /\ DOMAIN tickets \subseteq DOMAIN tickets'
           /\ \A j \in DOMAIN tickets : tickets'[j] = tickets[j]
<1> DEFINE k   == TicketKey(m, date)
           new == [from |-> from, state |-> "open", deadline |-> date + DeadlineDays]
<1>1. tickets' = [j \in DOMAIN tickets \cup {k} |-> IF j = k THEN new ELSE tickets[j]]
  BY DEF DeliverRequest
<1>2. m.to \in Seats /\ k \notin DOMAIN tickets
  BY SeatsFormATree DEF DeliverRequest, Violates, IsProperPrefix, Throws
<1>3. k.to = m.to
  BY DEF TicketKey
<1>4. new \in Ticket
  BY SeatsFormATree DEF Ticket
<1> HIDE DEF k, new
<1>5. DOMAIN tickets' = DOMAIN tickets \cup {k}
  BY <1>1
<1>6. TicketsTyped'
  BY <1>1, <1>2, <1>3, <1>4, <1>5, FS_AddElement DEF TicketsTyped
<1> QED
  BY <1>1, <1>2, <1>5, <1>6 DEF k

(* A reply closes the one ticket it names, which was open.                 *)
LEMMA ReplyTyped ==
    ASSUME TicketsTyped, NEW from \in Seats, NEW m, NEW date \in Nat, ~Violates(from, m),
           ~Throws(m, date), DeliverReply(m)
    PROVE  \E k \in TicketsOf(m.ticket) :
             /\ k \in DOMAIN tickets /\ k.to = from
             /\ tickets[k].state = "open"
             /\ SetState(k, "done")
<1>1. PICK k \in TicketsOf(m.ticket) : SetState(k, "done")
  BY DEF DeliverReply
<1>2. m.type = "REPLY" /\ m.ticket # <<>> /\ Cardinality(TicketsOf(m.ticket)) = 1
  BY DEF DeliverReply, Throws, Violates
<1>3. PICK j : TicketsOf(m.ticket) = {j}
  <2>1. IsFiniteSet(TicketsOf(m.ticket)) /\ k \in TicketsOf(m.ticket)
    BY <1>1, FS_Subset DEF TicketsTyped, TicketsOf
  <2>2. Cardinality(TicketsOf(m.ticket) \ {k}) = 0 /\ IsFiniteSet(TicketsOf(m.ticket) \ {k})
    BY <1>2, <2>1, FS_RemoveElement
  <2>3. TicketsOf(m.ticket) \ {k} = {}
    BY <2>2, FS_EmptySet
  <2> QED
    BY <2>1, <2>3
<1> QED
  BY <1>1, <1>2, <1>3 DEF Violates, TicketsOf
-----------------------------------------------------------------------------
(* The org before the first tick.                                          *)
LEMMA InitStrong ==
    ASSUME Init
    PROVE  TickStrong
<1>0. MaxDay \in Nat \ {0} /\ 1 \in 1 .. MaxDay
  BY TickBounds
<1>1. InboxTyped
  <2> DEFINE f == [a \in FirstDocs |-> Item(a, <<"doc", a>>, 1)]
  <2>1. IsFiniteSet(FirstDocs)
    BY SeatsFormATree, FirstOrg, FS_Subset
  <2>2. f \in Surjection(FirstDocs, inbox)
    BY DEF Init, Surjection
  <2>3. IsFiniteSet(inbox)
    BY <2>1, <2>2, FS_Surjection DEF ExistsSurjection
  <2>4. \A x \in inbox : x.received = 1 /\ ~IsRejected(x)
    BY DEF Init, Item, IsRejected
  <2> QED
    BY <1>0, <2>3, <2>4 DEF InboxTyped
<1>2. TicketsTyped
  BY FirstOrg DEF Init, TicketsTyped
<1>3. FilesTyped
  <2>1. review \in [Seats -> 0 .. NoDate]
    BY FirstOrg DEF Init, NoDate
  <2>2. lines \in [Seats -> SUBSET (1 .. MaxDay)]
    BY DEF Init
  <2>3. stamps \in [Seats -> Stamp]
    BY DEF Init, Stamp, Never
  <2> QED
    BY <1>1, <1>2, <2>1, <2>2, <2>3 DEF FilesTyped
<1>4. TickTyped
  BY DEF Init, Idle, TickTyped, IsTick, Steps, Stamp, Never
<1>5. Types
  BY <1>0, <1>3, <1>4 DEF Init, Types
<1>6. tick = Idle /\ reply = NoCopy /\ unheard = {} /\ seq = 0 /\ stamps = [a \in Seats |-> Never]
  BY DEF Init
<1>7. SeatsHandedOn /\ CopiesAreOpen /\ NoticesSent /\ Accounted /\ OneDepth
  BY <1>6 DEF Idle, SeatsHandedOn, CopiesAreOpen, NoticesSent, Accounted, OneDepth
<1>8. StampsOrdered
  <2>1. tick.pc = "idle"
    BY <1>6 DEF Idle
  <2>2. Heard(stamps, unheard) /\ \A a \in Seats : stamps[a].seq <= seq
    BY <1>6 DEF Heard, Never
  <2> QED
    BY <2>1, <2>2 DEF StampsOrdered
<1> QED
  BY <1>5, <1>7, <1>8 DEF TickStrong

(* However a tick ends, what it has left in the files is in order.         *)
LEMMA EndsIdle ==
    ASSUME TickStrong, NEW F \in SUBSET Seats, tick' = [Idle EXCEPT !.failed = F],
           InboxTyped', review' \in [Seats -> 0 .. NoDate],
           lines' \in [Seats -> SUBSET (1 .. MaxDay)],
           UNCHANGED <<tickets, stamps, day, seq, reply, unheard>>
    PROVE  TickStrong'
<1>0. Types /\ CopiesAreOpen /\ StampsOrdered
  BY DEF TickStrong
<1>1. TickTyped'
  <2>1. /\ IsTick(tick)'
        /\ tick'.pc = "idle" /\ tick'.date = 0 /\ tick'.mem = [a \in Seats |-> Never]
        /\ tick'.invoked = {} /\ tick'.failed = F /\ tick'.out = << >>
        /\ tick'.stampedAt = Never /\ tick'.pos = 1 /\ tick'.num = 1
    BY DEF Idle, IsTick
  <2>2. Never \in Stamp /\ DOMAIN << >> = {}
    BY DEF Never, Stamp
  <2> QED
    BY <2>1, <2>2 DEF TickTyped, Steps
<1>2. FilesTyped'
  BY <1>0 DEF Types, FilesTyped, TicketsTyped
<1>3. Types'
  BY <1>0, <1>1, <1>2 DEF Types
<1>4. SeatsHandedOn' /\ NoticesSent' /\ Accounted' /\ OneDepth'
  BY DEF Idle, SeatsHandedOn, NoticesSent, Accounted, OneDepth
<1>5. CopiesAreOpen'
  BY <1>0 DEF Idle, CopiesAreOpen
<1>6. StampsOrdered'
  BY <1>0 DEF Idle, StampsOrdered, Heard
<1> QED
  BY <1>3, <1>4, <1>5, <1>6 DEF TickStrong

(* An exception ends a tick so.                                            *)
LEMMA AbortStrong ==
    ASSUME TickStrong, Abort, UNCHANGED <<disk, day, seq, reply, unheard>>
    PROVE  TickStrong'
<1>1. tick' = [Idle EXCEPT !.failed = {}]
  <2>1. Idle.failed = {} /\ IsTick(Idle)
    BY DEF Idle, IsTick
  <2> HIDE DEF Idle
  <2>2. [Idle EXCEPT !.failed = {}] = Idle
    BY <2>1 DEF IsTick
  <2> QED
    BY <2>2 DEF Abort
<1>2. InboxTyped' /\ review' \in [Seats -> 0 .. NoDate] /\ lines' \in [Seats -> SUBSET (1 .. MaxDay)]
  BY DEF disk, TickStrong, Types, FilesTyped, InboxTyped
<1> QED
  BY <1>1, <1>2, EndsIdle DEF disk
-----------------------------------------------------------------------------
(* What a step leaves as it was.                                           *)
LEMMA TypesKept ==
    ASSUME Types, TickTyped', UNCHANGED <<disk, day, seq, unheard>>
    PROVE  Types'
BY DEF Types, FilesTyped, InboxTyped, TicketsTyped, disk

LEMMA StampsKept ==
    ASSUME StampsOrdered, tick.pc \in {"expire", "plan", "wake"},
           tick'.pc \in {"expire", "plan", "wake", "post"}, tick'.mem = tick.mem,
           UNCHANGED <<stamps, seq, unheard>>
    PROVE  StampsOrdered'
BY DEF StampsOrdered, Heard
-----------------------------------------------------------------------------
(* The start of a tick: expired tickets and their notices.                 *)
LEMMA StartTickStrong ==
    ASSUME TickStrong, StartTick
    PROVE  TickStrong'
<1>0. Types /\ CopiesAreOpen /\ StampsOrdered
  BY DEF TickStrong
<1> DEFINE O == {k \in DOMAIN tickets : tickets[k].state = "open" /\ tickets[k].deadline < day}
<1>1. /\ IsTick(tick)'
      /\ tick'.pc = "expire" /\ tick'.date = day /\ tick'.mem = stamps /\ tick'.overdue = O
      /\ tick'.invoked = {} /\ tick'.failed = {} /\ tick'.out = << >>
      /\ tick'.stampedAt = Never /\ tick'.pos = 1 /\ tick'.num = 1
      /\ tick'.batch = {} /\ tick'.running = {} /\ tick'.todo = {} /\ tick'.sending = NoSeat
      /\ tick'.copy = NoCopy /\ tick'.expired = {} /\ tick'.notices = {}
  <2> HIDE DEF O
  <2> QED
    BY DEF StartTick, Idle, IsTick, O
<1>2. stamps # Torn /\ UNCHANGED <<disk, day, seq, reply, unheard>>
  BY DEF StartTick
<1>3. TickTyped'
  <2>1. Never \in Stamp /\ DOMAIN << >> = {} /\ day \in 1 .. MaxDay /\ stamps \in [Seats -> Stamp]
    BY <1>0, <1>2 DEF Never, Stamp, Types, FilesTyped
  <2>2. day \in Nat
    BY <2>1, TickBounds
  <2> QED
    BY <1>1, <2>1, <2>2 DEF TickTyped, Steps
<1>4. Types'
  BY <1>0, <1>2, <1>3, TypesKept
<1>5. SeatsHandedOn' /\ NoticesSent' /\ Accounted' /\ OneDepth'
  BY <1>1 DEF SeatsHandedOn, NoticesSent, Accounted, OneDepth
<1>6. CopiesAreOpen'
  BY <1>0, <1>1, <1>2 DEF CopiesAreOpen, disk
<1>7. StampsOrdered'
  BY <1>0, <1>1, <1>2 DEF StampsOrdered, Heard, disk
<1> QED
  BY <1>4, <1>5, <1>6, <1>7 DEF TickStrong

LEMMA ReadOverdueStrong ==
    ASSUME TickStrong, ReadOverdue
    PROVE  TickStrong'
<1>0. Types /\ SeatsHandedOn /\ CopiesAreOpen /\ NoticesSent /\ StampsOrdered
  BY DEF TickStrong
<1> DEFINE k == FirstTicket(tick.overdue)
<1>1. tick.pc = "expire" /\ tick.overdue # {} /\ UNCHANGED <<disk, day, seq, reply, unheard, spent>>
  BY DEF ReadOverdue, At
<1>2. k \in tick.overdue /\ k \in DOMAIN tickets /\ tickets[k].state # "expired"
  <2>1. \A j \in tick.overdue : j.to \in Seats
    BY <1>0, <1>1 DEF CopiesAreOpen, Types, FilesTyped, TicketsTyped
  <2>2. k \in tick.overdue
    BY <1>1, <2>1, FirstTicketIsOne
  <2> QED
    BY <1>0, <1>1, <2>2 DEF CopiesAreOpen
<1> HIDE DEF k
<1>3. CASE tickets[k].state \in Terminal \ {"expired"}
  BY <1>1, <1>3, AbortStrong DEF ReadOverdue, k
<1>4. CASE tickets[k].state \notin Terminal \ {"expired"}
  <2>1. tickets[k].state = "open"
    BY <1>0, <1>2, <1>4 DEF Types, FilesTyped, TicketsTyped, Ticket, Terminal
  <2>2. tick' = [tick EXCEPT !.copy = [key |-> k, state |-> "open"]]
    BY <1>4, <2>1 DEF ReadOverdue, k
  <2> DEFINE c == [key |-> k, state |-> "open"]
  <2>3. c.key = k /\ c.state = "open" /\ tick' = [tick EXCEPT !.copy = c]
    BY <2>2
  <2> HIDE DEF c
  <2>4. TickTyped'
    BY <1>0, <2>3 DEF Types, TickTyped, IsTick
  <2>5. Types'
    BY <1>0, <1>1, <2>4, TypesKept
  <2>6. /\ tick'.copy = c /\ tick'.pc = "expire" /\ tick'.overdue = tick.overdue
        /\ tick'.expired = tick.expired /\ tick'.notices = tick.notices /\ tick'.mem = tick.mem
        /\ tick'.batch = tick.batch /\ tick'.running = tick.running /\ tick'.todo = tick.todo
        /\ tick'.out = tick.out /\ tick'.invoked = tick.invoked /\ tick'.sending = tick.sending
    BY <1>0, <1>1, <2>3 DEF Types, TickTyped, IsTick
  <2>7. SeatsHandedOn' /\ Accounted' /\ OneDepth'
    BY <1>0, <1>1, <2>6 DEF SeatsHandedOn, Accounted, OneDepth
  <2>8. CopiesAreOpen' /\ NoticesSent'
    BY <1>0, <1>1, <1>2, <2>3, <2>6 DEF CopiesAreOpen, NoticesSent, FileExists, disk
  <2>9. StampsOrdered'
    BY <1>0, <1>1, <2>6, StampsKept DEF disk
  <2> QED
    BY <2>5, <2>7, <2>8, <2>9 DEF TickStrong
<1> QED
  BY <1>3, <1>4

LEMMA WriteExpiredStrong ==
    ASSUME TickStrong, WriteExpired
    PROVE  TickStrong'
<1>0. Types /\ SeatsHandedOn /\ CopiesAreOpen /\ NoticesSent /\ StampsOrdered
  BY DEF TickStrong
<1> DEFINE k == tick.copy.key
<1>1. /\ tick.pc = "expire" /\ tick.copy # NoCopy
      /\ UNCHANGED <<inbox, review, lines, stamps, day, seq, reply, unheard, spent>>
  BY DEF WriteExpired, At
<1>2. k \in tick.overdue /\ k \in DOMAIN tickets
  BY <1>0, <1>1 DEF CopiesAreOpen
<1>3. SetState(k, "expired")
  BY DEF WriteExpired
<1>4. /\ TicketsTyped'
      /\ DOMAIN tickets' = DOMAIN tickets
      /\ \A j \in DOMAIN tickets : tickets'[j].from = tickets[j].from
      /\ \A j \in DOMAIN tickets : j # k => tickets'[j] = tickets[j]
  BY <1>0, <1>2, <1>3, SetStateTyped DEF Types, FilesTyped, Terminal
<1>5. tick' = [tick EXCEPT !.overdue = @ \ {k}, !.copy = NoCopy,
                 !.expired = @ \cup {k}, !.notices = @ \cup {k}]
  BY DEF WriteExpired
<1> HIDE DEF k
<1>6. TickTyped'
  BY <1>0, <1>5 DEF Types, TickTyped, IsTick
<1>7. Types'
  BY <1>0, <1>1, <1>4, <1>6 DEF Types, FilesTyped, InboxTyped
<1>8. /\ tick'.copy = NoCopy /\ tick'.pc = "expire" /\ tick'.overdue = tick.overdue \ {k}
      /\ tick'.expired = tick.expired \cup {k} /\ tick'.notices = tick.notices \cup {k}
      /\ tick'.batch = tick.batch /\ tick'.running = tick.running /\ tick'.todo = tick.todo
      /\ tick'.out = tick.out /\ tick'.invoked = tick.invoked /\ tick'.sending = tick.sending
      /\ tick'.mem = tick.mem
  BY <1>0, <1>1, <1>5 DEF Types, TickTyped, IsTick
<1>9. SeatsHandedOn' /\ Accounted' /\ OneDepth'
  BY <1>0, <1>1, <1>8 DEF SeatsHandedOn, Accounted, OneDepth
<1>10. CopiesAreOpen'
  <2>1. \A j \in tick'.overdue : j \in DOMAIN tickets' /\ tickets'[j].state # "expired"
    BY <1>0, <1>1, <1>4, <1>8 DEF CopiesAreOpen
  <2>2. reply' # NoCopy => reply'.key \in DOMAIN tickets' /\ reply'.state = "open"
    BY <1>0, <1>1, <1>4 DEF CopiesAreOpen
  <2> QED
    BY <1>8, <2>1, <2>2 DEF CopiesAreOpen
<1>11. NoticesSent'
  <2>1. tick'.expired \in SUBSET DOMAIN tickets' /\ tick'.notices \subseteq tick'.expired
    BY <1>0, <1>1, <1>2, <1>4, <1>8 DEF NoticesSent
  <2>2. \A j \in tick'.expired \ tick'.notices :
          j \in DOMAIN tickets /\ FileExists(tickets[j].from, ExpiredName(j))
    BY <1>0, <1>1, <1>8 DEF NoticesSent
  <2>3. \A j \in tick'.expired \ tick'.notices : \E f \in inbox' :
          f.to = tickets'[j].from /\ f.name = ExpiredName(j)
    BY <1>1, <1>4, <2>2 DEF FileExists
  <2> QED
    BY <2>1, <2>3 DEF NoticesSent, FileExists, ExpiredName
<1>12. StampsOrdered'
  BY <1>0, <1>1, <1>8, StampsKept
<1> QED
  BY <1>7, <1>9, <1>10, <1>11, <1>12 DEF TickStrong

LEMMA NotifyStrong ==
    ASSUME TickStrong, Notify
    PROVE  TickStrong'
<1>0. Types /\ SeatsHandedOn /\ CopiesAreOpen /\ NoticesSent /\ StampsOrdered
  BY DEF TickStrong
<1> DEFINE k == FirstTicket(tick.notices)
           author == tickets[k].from
<1>1. /\ tick.pc = "expire" /\ tick.overdue = {} /\ tick.notices # {}
      /\ UNCHANGED <<tickets, review, lines, stamps, day, seq, reply, unheard, spent>>
  BY DEF Notify, At
<1>2. k \in tick.notices /\ k \in DOMAIN tickets
  <2>1. tick.notices \subseteq DOMAIN tickets
    BY <1>0, <1>1 DEF NoticesSent
  <2>2. \A j \in tick.notices : j.to \in Seats
    BY <1>0, <2>1 DEF Types, FilesTyped, TicketsTyped
  <2> QED
    BY <1>1, <2>1, <2>2, FirstTicketIsOne
<1>3. CASE Abort /\ UNCHANGED inbox
  BY <1>1, <1>3, AbortStrong DEF disk
<1>4. CASE /\ inbox' = inbox \cup {Item(author, ExpiredName(k), tick.date)}
           /\ tick' = [tick EXCEPT !.notices = @ \ {k}]
  <2> HIDE DEF k
  <2>1. InboxTyped'
    <3>1. tick.date \in 1 .. MaxDay
      BY <1>0, <1>1 DEF Types, TickTyped
    <3>2. ExpiredName(k)[1] # "rejected"
      BY DEF ExpiredName
    <3> QED
      BY <1>0, <1>4, <3>1, <3>2, AddItem DEF Types, FilesTyped
  <2>2. TickTyped'
    BY <1>0, <1>4 DEF Types, TickTyped, IsTick
  <2>3. Types'
    BY <1>0, <1>1, <2>1, <2>2 DEF Types, FilesTyped, TicketsTyped
  <2>4. /\ tick'.copy = tick.copy /\ tick'.pc = "expire" /\ tick'.overdue = tick.overdue
        /\ tick'.expired = tick.expired /\ tick'.notices = tick.notices \ {k}
        /\ tick'.batch = tick.batch /\ tick'.running = tick.running /\ tick'.todo = tick.todo
        /\ tick'.out = tick.out /\ tick'.invoked = tick.invoked /\ tick'.sending = tick.sending
        /\ tick'.mem = tick.mem
    BY <1>0, <1>1, <1>4 DEF Types, TickTyped, IsTick
  <2>5. SeatsHandedOn' /\ Accounted' /\ OneDepth'
    BY <1>0, <1>1, <2>4 DEF SeatsHandedOn, Accounted, OneDepth
  <2>6. CopiesAreOpen'
    BY <1>0, <1>1, <2>4 DEF CopiesAreOpen
  <2>7. NoticesSent'
    <3>1. \E f \in inbox' : f.to = author /\ f.name = ExpiredName(k)
      <4>1. Item(author, ExpiredName(k), tick.date) \in inbox'
        BY <1>4
      <4>2. \A x, y, z : Item(x, y, z).to = x /\ Item(x, y, z).name = y
        BY DEF Item
      <4> QED
        BY <4>1, <4>2
    <3>2. \A j \in tick.expired \ tick.notices :
            \E f \in inbox' : f.to = tickets[j].from /\ f.name = ExpiredName(j)
      BY <1>0, <1>1, <1>4 DEF NoticesSent, FileExists
    <3>3. \A j \in tick'.expired \ tick'.notices :
            \E f \in inbox' : f.to = tickets'[j].from /\ f.name = ExpiredName(j)
      BY <1>1, <2>4, <3>1, <3>2
    <3>4. tick'.expired \in SUBSET DOMAIN tickets' /\ tick'.notices \subseteq tick'.expired
      BY <1>0, <1>1, <2>4 DEF NoticesSent
    <3> QED
      BY <3>3, <3>4 DEF NoticesSent, FileExists, ExpiredName
  <2>8. StampsOrdered'
    BY <1>0, <1>1, <2>4, StampsKept
  <2> QED
    BY <2>3, <2>5, <2>6, <2>7, <2>8 DEF TickStrong
<1> QED
  BY <1>3, <1>4 DEF Notify

(* A round takes the deepest of what is due, or the tick is over.          *)
LEMMA PlanStrong ==
    ASSUME TickStrong, Plan
    PROVE  TickStrong'
<1>0. Types /\ SeatsHandedOn /\ CopiesAreOpen /\ StampsOrdered
  BY DEF TickStrong
<1> DEFINE pending == Due(tick.date, tick.mem) \ tick.invoked
           batch   == Deepest(pending)
           none    == << >>
<1>1. /\ tick.pc = "plan" \/ (tick.pc = "expire" /\ tick.overdue = {} /\ tick.notices = {})
      /\ UNCHANGED <<disk, day, seq, reply, unheard, spent>>
  BY DEF Plan, At
<1>2. pending \subseteq Seats \ tick.invoked /\ batch \subseteq pending
  BY DEF Due, Deepest
<1>3. \A a, b \in batch : Depth(a) = Depth(b)
  <2>1. pending \in SUBSET Seats
    BY <1>2
  <2> HIDE DEF pending
  <2> QED
    BY <2>1, DeepestAreLevel
<1>4. \/ tick' = [tick EXCEPT !.pc = "post"]
      \/ tick' = [tick EXCEPT !.pc = "wake", !.batch = batch, !.out = none, !.expired = {}]
  BY DEF Plan
<1>5. DOMAIN none = {}
  OBVIOUS
<1> HIDE DEF pending, batch, none
<1>6. /\ \/ tick'.pc = "post" /\ tick'.batch = tick.batch /\ tick'.out = tick.out
         \/ tick'.pc = "wake" /\ tick'.batch = batch /\ tick'.out = none
      /\ IsTick(tick)' /\ tick'.copy = tick.copy
      /\ tick'.running = tick.running /\ tick'.todo = tick.todo /\ tick'.date = tick.date
      /\ tick'.invoked = tick.invoked /\ tick'.sending = tick.sending /\ tick'.failed = tick.failed
      /\ tick'.mem = tick.mem /\ tick'.stampedAt = tick.stampedAt /\ tick'.pos = tick.pos
      /\ tick'.num = tick.num
  <2>0. IsTick(tick)
    BY <1>0 DEF Types, TickTyped
  <2>1. CASE tick' = [tick EXCEPT !.pc = "post"]
    BY <2>0, <2>1 DEF IsTick
  <2>2. CASE tick' = [tick EXCEPT !.pc = "wake", !.batch = batch, !.out = none, !.expired = {}]
    BY <2>0, <2>2 DEF IsTick
  <2> QED
    BY <1>4, <2>1, <2>2
<1>7. TickTyped'
  BY <1>0, <1>1, <1>5, <1>6 DEF Types, TickTyped, Steps
<1>8. Types'
  BY <1>0, <1>1, <1>7, TypesKept
<1>9. tick.batch = {} /\ tick.running = {} /\ tick.todo = {} /\ tick.copy = NoCopy
      /\ tick.sending = NoSeat
  BY <1>0, <1>1 DEF SeatsHandedOn, CopiesAreOpen
<1>10. SeatsHandedOn' /\ Accounted' /\ NoticesSent'
  BY <1>0, <1>2, <1>5, <1>6, <1>9 DEF SeatsHandedOn, Accounted, NoticesSent
<1>11. CopiesAreOpen'
  BY <1>0, <1>1, <1>6, <1>9 DEF CopiesAreOpen, disk
<1>12. OneDepth'
  BY <1>3, <1>5, <1>6, <1>9 DEF OneDepth
<1>13. StampsOrdered'
  BY <1>0, <1>1, <1>6, StampsKept DEF disk
<1> QED
  BY <1>8, <1>10, <1>11, <1>12, <1>13 DEF TickStrong
-----------------------------------------------------------------------------
(* The wakes of a batch.                                                   *)
LEMMA StartWakeStrong ==
    ASSUME TickStrong, StartWake
    PROVE  TickStrong'
<1>0. Types /\ SeatsHandedOn /\ CopiesAreOpen /\ StampsOrdered /\ OneDepth
  BY DEF TickStrong
<1> DEFINE a == First(tick.batch)
<1>1. tick.pc = "wake" /\ tick.batch # {} /\ UNCHANGED <<disk, day, seq, reply, unheard, spent>>
  BY DEF StartWake, At
<1>2. a \in tick.batch
  BY <1>0, <1>1, FirstIsOne DEF SeatsHandedOn
<1>3. PICK S : tick' = [tick EXCEPT !.batch = @ \ {a}, !.running = @ \cup {a}, !.listed[a] = S]
  BY DEF StartWake
<1> HIDE DEF a
<1>4. /\ IsTick(tick)' /\ tick'.pc = "wake" /\ tick'.copy = tick.copy /\ tick'.date = tick.date
      /\ tick'.batch = tick.batch \ {a} /\ tick'.running = tick.running \cup {a}
      /\ tick'.out = tick.out /\ tick'.todo = tick.todo
      /\ tick'.invoked = tick.invoked /\ tick'.sending = tick.sending /\ tick'.failed = tick.failed
      /\ tick'.mem = tick.mem /\ tick'.stampedAt = tick.stampedAt /\ tick'.pos = tick.pos
      /\ tick'.num = tick.num
  BY <1>0, <1>1, <1>3 DEF Types, TickTyped, IsTick
<1>5. TickTyped'
  BY <1>0, <1>1, <1>4 DEF Types, TickTyped, Steps
<1>6. Types'
  BY <1>0, <1>1, <1>5, TypesKept
<1>7. SeatsHandedOn' /\ Accounted' /\ NoticesSent' /\ OneDepth'
  BY <1>0, <1>1, <1>2, <1>4 DEF SeatsHandedOn, Accounted, NoticesSent, OneDepth
<1>8. CopiesAreOpen'
  BY <1>0, <1>1, <1>4 DEF CopiesAreOpen, disk
<1>9. StampsOrdered'
  BY <1>0, <1>1, <1>4, StampsKept DEF disk
<1> QED
  BY <1>6, <1>7, <1>8, <1>9 DEF TickStrong

(* What a wake leaves in a seat's directory.                               *)
LEMMA WorksTyped ==
    ASSUME Types, tick.pc = "wake", NEW a, Works(a) \/ UNCHANGED disk
    PROVE  FilesTyped' /\ UNCHANGED <<tickets, stamps>>
<1>1. CASE UNCHANGED disk
  BY <1>1 DEF Types, FilesTyped, InboxTyped, TicketsTyped, disk
<1>2. CASE Works(a)
  <2>1. InboxTyped'
    <3>1. inbox' \subseteq inbox
      BY <1>2 DEF Works
    <3> QED
      BY <3>1, RemoveItems DEF Types, FilesTyped
  <2>2. review' \in [Seats -> 0 .. NoDate]
    <3>1. NoDate \in 0 .. NoDate
      BY TickBounds DEF NoDate
    <3> QED
      BY <1>2, <3>1 DEF Works, Types, FilesTyped
  <2>3. lines' \in [Seats -> SUBSET (1 .. MaxDay)]
    <3>1. tick.date \in 1 .. MaxDay
      BY DEF Types, TickTyped
    <3>2. CASE lines' = lines
      BY <3>2 DEF Types, FilesTyped
    <3>3. CASE lines' = [c \in Seats |-> IF c \in {a} \cap Material
                                        THEN lines[c] \cup {tick.date} ELSE lines[c]]
      BY <3>1, <3>3 DEF Types, FilesTyped
    <3> QED
      BY <1>2, <3>2, <3>3 DEF Works
  <2>4. UNCHANGED <<tickets, stamps>>
    BY <1>2 DEF Works
  <2> QED
    BY <2>1, <2>2, <2>3, <2>4 DEF Types, FilesTyped, TicketsTyped
<1> QED
  BY <1>1, <1>2

LEMMA WakeReturnsStrong ==
    ASSUME TickStrong, WakeReturns
    PROVE  TickStrong'
<1>0. Types /\ SeatsHandedOn /\ CopiesAreOpen /\ StampsOrdered /\ OneDepth
  BY DEF TickStrong
<1>1. tick.pc = "wake" /\ UNCHANGED <<day, seq, reply, unheard, spent>>
  BY SMTT(60) DEF WakeReturns, At
<1>2. PICK a \in tick.running :
        /\ Works(a) \/ UNCHANGED disk
        /\ \E o \in Outboxes[a] :
              tick' = [tick EXCEPT !.running = @ \ {a}, !.listed[a] = {},
                          !.out = [c \in DOMAIN @ \cup {a} |-> IF c = a THEN o ELSE @[c]]]
  BY DEF WakeReturns
<1>3. a \in Seats
  BY <1>0, SMTT(60) DEF SeatsHandedOn
<1>4. PICK o \in Outboxes[a] :
        tick' = [tick EXCEPT !.running = @ \ {a}, !.listed[a] = {},
                    !.out = [c \in DOMAIN @ \cup {a} |-> IF c = a THEN o ELSE @[c]]]
  BY <1>2
<1> DEFINE out == [c \in DOMAIN tick.out \cup {a} |-> IF c = a THEN o ELSE tick.out[c]]
<1>5. DOMAIN out = DOMAIN tick.out \cup {a} /\ \A c \in DOMAIN out : Len(out[c]) \in Nat
  BY <1>0, <1>3, FirstOrg DEF Types, TickTyped
<1>6. tick' = [tick EXCEPT !.running = @ \ {a}, !.listed[a] = {}, !.out = out]
  BY <1>4
<1> HIDE DEF out
<1>7. /\ IsTick(tick)' /\ tick'.pc = "wake" /\ tick'.copy = tick.copy /\ tick'.date = tick.date
      /\ tick'.batch = tick.batch /\ tick'.running = tick.running \ {a}
      /\ tick'.out = out /\ tick'.todo = tick.todo
      /\ tick'.invoked = tick.invoked /\ tick'.sending = tick.sending /\ tick'.failed = tick.failed
      /\ tick'.mem = tick.mem /\ tick'.stampedAt = tick.stampedAt /\ tick'.pos = tick.pos
      /\ tick'.num = tick.num
  BY <1>0, <1>1, <1>6 DEF Types, TickTyped, IsTick
<1>8. FilesTyped' /\ UNCHANGED <<tickets, stamps>>
  BY <1>0, <1>1, <1>2, WorksTyped
<1>9. TickTyped'
  BY <1>0, <1>1, <1>3, <1>5, <1>7 DEF Types, TickTyped, Steps
<1>10. Types'
  BY <1>0, <1>1, <1>8, <1>9 DEF Types
<1>11. SeatsHandedOn' /\ Accounted' /\ NoticesSent' /\ OneDepth'
  BY <1>0, <1>1, <1>5, <1>7 DEF SeatsHandedOn, Accounted, NoticesSent, OneDepth
<1>12. CopiesAreOpen'
  BY <1>0, <1>1, <1>7, <1>8 DEF CopiesAreOpen
<1>13. StampsOrdered'
  BY <1>0, <1>1, <1>7, <1>8, StampsKept
<1> QED
  BY <1>10, <1>11, <1>12, <1>13 DEF TickStrong

LEMMA WakeFailsStrong ==
    ASSUME TickStrong, WakeFails
    PROVE  TickStrong'
<1>0. Types /\ SeatsHandedOn /\ CopiesAreOpen /\ StampsOrdered /\ OneDepth
  BY DEF TickStrong
<1>1. tick.pc = "wake" /\ UNCHANGED <<day, seq, reply, unheard, spent>>
  BY DEF WakeFails, At
<1>2. PICK a \in tick.running :
        /\ Works(a) \/ UNCHANGED disk
        /\ tick' = [tick EXCEPT !.running = @ \ {a}, !.listed[a] = {}, !.failed = @ \cup {a}]
  BY DEF WakeFails
<1>3. a \in Seats
  BY <1>0 DEF SeatsHandedOn
<1>4. /\ IsTick(tick)' /\ tick'.pc = "wake" /\ tick'.copy = tick.copy /\ tick'.date = tick.date
      /\ tick'.batch = tick.batch /\ tick'.running = tick.running \ {a}
      /\ tick'.out = tick.out /\ tick'.todo = tick.todo /\ tick'.failed = tick.failed \cup {a}
      /\ tick'.invoked = tick.invoked /\ tick'.sending = tick.sending
      /\ tick'.mem = tick.mem /\ tick'.stampedAt = tick.stampedAt /\ tick'.pos = tick.pos
      /\ tick'.num = tick.num
  BY <1>0, <1>1, <1>2 DEF Types, TickTyped, IsTick
<1>5. FilesTyped' /\ UNCHANGED <<tickets, stamps>>
  BY <1>0, <1>1, <1>2, WorksTyped
<1>6. TickTyped'
  BY <1>0, <1>1, <1>3, <1>4 DEF Types, TickTyped, Steps
<1>7. Types'
  BY <1>0, <1>1, <1>5, <1>6 DEF Types
<1>8. SeatsHandedOn' /\ Accounted' /\ NoticesSent' /\ OneDepth'
  BY <1>0, <1>1, <1>4 DEF SeatsHandedOn, Accounted, NoticesSent, OneDepth
<1>9. CopiesAreOpen'
  BY <1>0, <1>1, <1>4, <1>5 DEF CopiesAreOpen
<1>10. StampsOrdered'
  BY <1>0, <1>1, <1>4, <1>5, StampsKept
<1> QED
  BY <1>7, <1>8, <1>9, <1>10 DEF TickStrong

(* The stamp of a batch is later than every stamp before it.               *)
LEMMA StampBatchStrong ==
    ASSUME TickStrong, StampBatch
    PROVE  TickStrong'
<1>0. Types /\ SeatsHandedOn /\ CopiesAreOpen /\ StampsOrdered /\ OneDepth
  BY DEF TickStrong
<1>1. /\ tick.pc = "wake" /\ tick.batch = {} /\ tick.running = {} /\ seq' = seq + 1
      /\ UNCHANGED <<disk, day, reply, unheard, spent>>
  BY DEF StampBatch, At
<1> DEFINE at == [day |-> day, seq |-> seq + 1]
<1>2. at \in Stamp /\ at.seq = seq + 1
  <2>1. day \in Nat /\ seq \in Nat
    BY <1>0, TickBounds DEF Types
  <2> QED
    BY <2>1 DEF Stamp
<1>3. tick' = [tick EXCEPT !.pc = "deliver", !.todo = DOMAIN tick.out,
                  !.invoked = @ \cup DOMAIN tick.out \cup tick.failed, !.stampedAt = at]
  BY DEF StampBatch
<1> HIDE DEF at
<1>4. /\ IsTick(tick)' /\ tick'.pc = "deliver" /\ tick'.copy = tick.copy /\ tick'.date = tick.date
      /\ tick'.batch = tick.batch /\ tick'.running = tick.running
      /\ tick'.out = tick.out /\ tick'.todo = DOMAIN tick.out /\ tick'.failed = tick.failed
      /\ tick'.invoked = tick.invoked \cup DOMAIN tick.out \cup tick.failed
      /\ tick'.sending = tick.sending
      /\ tick'.mem = tick.mem /\ tick'.stampedAt = at /\ tick'.pos = tick.pos
      /\ tick'.num = tick.num
  BY <1>0, <1>1, <1>3 DEF Types, TickTyped, IsTick
<1>5. TickTyped'
  BY <1>0, <1>1, <1>2, <1>4 DEF Types, TickTyped, Steps
<1>6. Types'
  BY <1>0, <1>1, <1>5 DEF Types, FilesTyped, InboxTyped, TicketsTyped, disk
<1>7. tick.sending = NoSeat
  BY <1>0, <1>1 DEF SeatsHandedOn
<1>8. SeatsHandedOn' /\ Accounted' /\ NoticesSent' /\ OneDepth'
  BY <1>0, <1>1, <1>4, <1>7 DEF SeatsHandedOn, Accounted, NoticesSent, OneDepth
<1>9. CopiesAreOpen'
  BY <1>0, <1>1, <1>4 DEF CopiesAreOpen, disk
<1>10. StampsOrdered'
  <2>1. stamps # Torn /\ tick.mem = stamps /\ stamps \in [Seats -> Stamp] /\ seq \in Nat
        /\ Heard(stamps, unheard) /\ \A a \in Seats : stamps[a].seq <= seq
    BY <1>0, <1>1 DEF StampsOrdered, Types, FilesTyped
  <2>2. \A a \in Seats : stamps[a].seq \in Nat
    BY <2>1 DEF Stamp
  <2>3. UNCHANGED <<stamps, unheard>>
    BY <1>1 DEF disk
  <2>4. \A a \in Seats : stamps[a].seq < seq + 1 /\ stamps[a].seq <= seq + 1
    BY <2>1, <2>2
  <2>5. stamps = [a \in Seats |-> IF a \in DOMAIN tick'.out \ tick'.todo
                                  THEN tick'.stampedAt ELSE stamps[a]]
    BY <1>4, <2>1
  <2> QED
    BY <1>1, <1>2, <1>4, <2>1, <2>3, <2>4, <2>5 DEF StampsOrdered, Heard
<1> QED
  BY <1>6, <1>8, <1>9, <1>10 DEF TickStrong
-----------------------------------------------------------------------------
(* What was delivered stays delivered.                                     *)
LEMMA DeliveredStays ==
    ASSUME NothingTakenBack, NEW a, NEW m, Delivered(a, m)
    PROVE  Delivered(a, m)'
<1>1. CASE m.type = "NOTIFY" /\ FileExists(m.to, NotifyName(m, tick.date))
  BY <1>1 DEF NothingTakenBack, Delivered, FileExists, NotifyName
<1>2. CASE m.type = "REQUEST" /\ TicketKey(m, tick.date) \in DOMAIN tickets
  BY <1>2 DEF NothingTakenBack, Delivered, TicketKey
<1>3. CASE m.type = "REPLY" /\ \E k \in TicketsOf(m.ticket) : k.to = a /\ tickets[k].state = "done"
  BY <1>3 DEF NothingTakenBack, Delivered, TicketsOf
<1> QED
  BY <1>1, <1>2, <1>3 DEF Delivered

LEMMA FeedbackStays ==
    ASSUME NothingTakenBack, NEW a
    PROVE  /\ Feedback(a) \subseteq Feedback(a)' /\ IsFiniteSet(Feedback(a)')
           /\ Cardinality(Feedback(a)) <= Cardinality(Feedback(a)')
           /\ Cardinality(Feedback(a)) \in Nat /\ Cardinality(Feedback(a)') \in Nat
<1>1. Feedback(a) \subseteq Feedback(a)'
  BY DEF NothingTakenBack, Feedback, Inbox
<1>2. Feedback(a)' \subseteq inbox' /\ IsFiniteSet(inbox')
  BY DEF NothingTakenBack, Feedback, Inbox
<1>3. IsFiniteSet(Feedback(a)')
  BY <1>2, FS_Subset
<1>4. IsFiniteSet(Feedback(a)) /\ Cardinality(Feedback(a)) <= Cardinality(Feedback(a)')
  BY <1>1, <1>3, FS_Subset
<1> QED
  BY <1>1, <1>3, <1>4, FS_CardinalityType

LEMMA UndeliveredShrinks ==
    ASSUME NothingTakenBack, NEW a, NEW n \in Nat
    PROVE  /\ Undelivered(a, n)' \subseteq Undelivered(a, n)
           /\ IsFiniteSet(Undelivered(a, n))
           /\ Cardinality(Undelivered(a, n)') <= Cardinality(Undelivered(a, n))
           /\ Cardinality(Undelivered(a, n)) \in Nat /\ Cardinality(Undelivered(a, n)') \in Nat
<1>1. Undelivered(a, n)' \subseteq Undelivered(a, n)
  <2>1. ASSUME NEW i \in 1 .. n, Delivered(a, tick.out[a][i])
        PROVE  Delivered(a, tick.out[a][i])'
    <3>1. PICK m : m = tick.out[a][i]
      OBVIOUS
    <3>2. m = tick'.out[a][i]
      BY <3>1 DEF NothingTakenBack
    <3>3. Delivered(a, m)
      BY <2>1, <3>1
    <3>4. Delivered(a, m)'
      BY <3>3, DeliveredStays
    <3> QED
      BY <3>2, <3>4
  <2> QED
    BY <2>1 DEF Undelivered
<1>2. IsFiniteSet(Undelivered(a, n))
  <2>1. IsFiniteSet(1 .. n)
    BY FS_Interval
  <2>2. Undelivered(a, n) \subseteq 1 .. n
    BY DEF Undelivered
  <2> QED
    BY <2>1, <2>2, FS_Subset
<1> QED
  BY <1>1, <1>2, FS_Subset, FS_CardinalityType

LEMMA SettledStays ==
    ASSUME Types, NothingTakenBack, NEW a \in DOMAIN tick.out, Settled(a),
           tick'.mem[a] = tick.mem[a], tick'.stampedAt = tick.stampedAt
    PROVE  Settled(a)'
<1>1. PICK n \in Nat : n = Len(tick.out[a])
  BY DEF Types, TickTyped
<1>2. n = Len(tick'.out[a])
  BY <1>1 DEF NothingTakenBack
<1>3. Cardinality(Undelivered(a, n)) <= Cardinality(Feedback(a))
  BY <1>1 DEF Settled
<1>4. Cardinality(Undelivered(a, n)') <= Cardinality(Feedback(a)')
  BY <1>3, FeedbackStays, UndeliveredShrinks
<1>5. tick'.mem[a] = tick'.stampedAt
  BY DEF Settled
<1> QED
  BY <1>2, <1>4, <1>5 DEF Settled

(* A step that neither opens nor closes an outbox, nor sends from one, and *)
(* adds no feedback item, keeps the account.                               *)
LEMMA AccountKept ==
    ASSUME Types, SeatsHandedOn, Accounted, NothingTakenBack, tick' = tick,
           \A a \in Seats : Feedback(a)' \subseteq Feedback(a)
    PROVE  Accounted'
<1> SUFFICES ASSUME tick.pc \in {"deliver", "write"}
             PROVE  /\ \A a \in DOMAIN tick.out \ tick.todo : Settled(a)'
                    /\ tick.sending # NoSeat => InHand(tick.sending)'
  BY DEF Accounted
<1>1. ASSUME NEW a \in DOMAIN tick.out \ tick.todo
      PROVE  Settled(a)'
  BY SettledStays DEF Accounted
<1>2. ASSUME tick.sending # NoSeat
      PROVE  InHand(tick.sending)'
  <2>1. PICK a \in Seats : a = tick.sending
    BY <1>2 DEF SeatsHandedOn, Types, TickTyped
  <2>2. InHand(a)
    BY <1>2, <2>1 DEF Accounted
  <2>3. PICK n \in Nat : n = tick.pos - 1
    BY <2>2 DEF InHand, Types, TickTyped
  <2>4. Cardinality(Undelivered(a, n)) <= Cardinality(Feedback(a))
    BY <2>2, <2>3 DEF InHand
  <2>5. Cardinality(Undelivered(a, n)') <= Cardinality(Feedback(a)')
    BY <2>4, FeedbackStays, UndeliveredShrinks
  <2>6. n = tick'.pos - 1 /\ a = tick'.sending /\ tick'.pos >= 1
    BY <2>1, <2>2, <2>3 DEF InHand
  <2>7. \A f \in Feedback(a)' : f.name[3] < tick'.num
    BY <2>2 DEF InHand
  <2>8. InHand(a)'
    BY <2>5, <2>6, <2>7 DEF InHand
  <2> QED
    BY <2>1, <2>8
<1> QED
  BY <1>1, <1>2

LEMMA AccountUnchanged ==
    ASSUME TickStrong, UNCHANGED <<inbox, tickets, tick>>
    PROVE  Accounted'
<1>1. NothingTakenBack
  BY DEF NothingTakenBack, TickStrong, Types, FilesTyped, InboxTyped
<1>2. \A a \in Seats : Feedback(a)' \subseteq Feedback(a)
  BY DEF Feedback, Inbox
<1> QED
  BY <1>1, <1>2, AccountKept DEF TickStrong

LEMMA CrashStrong ==
    ASSUME TickStrong, Crash
    PROVE  TickStrong'
<1>0. Types /\ SeatsHandedOn
  BY DEF TickStrong
<1>1. tick.pc # "idle" /\ tick' = Idle /\ UNCHANGED <<tickets, stamps, day, seq, reply, unheard>>
  BY DEF Crash, At
<1>2. PICK S \in SUBSET tick.running :
        /\ inbox' = inbox \ UNION {tick.listed[a] : a \in S}
        /\ review' = [a \in Seats |-> IF a \in S THEN NoDate ELSE review[a]]
        /\ lines' \in {lines, [a \in Seats |-> IF a \in S \cap Material THEN lines[a] \cup {tick.date}
                                               ELSE lines[a]]}
  BY DEF Crash
<1>3. InboxTyped'
  <2>1. inbox' \subseteq inbox
    BY <1>2
  <2> QED
    BY <1>0, <2>1, RemoveItems DEF Types, FilesTyped
<1>4. review' \in [Seats -> 0 .. NoDate]
  <2>1. NoDate \in 0 .. NoDate
    BY TickBounds DEF NoDate
  <2> QED
    BY <1>0, <1>2, <2>1 DEF Types, FilesTyped
<1>5. lines' \in [Seats -> SUBSET (1 .. MaxDay)]
  <2>1. tick.date \in 1 .. MaxDay
    BY <1>0, <1>1 DEF Types, TickTyped
  <2>2. CASE lines' = lines
    BY <1>0, <2>2 DEF Types, FilesTyped
  <2>3. CASE lines' = [a \in Seats |-> IF a \in S \cap Material THEN lines[a] \cup {tick.date}
                                       ELSE lines[a]]
    BY <1>0, <2>1, <2>3 DEF Types, FilesTyped
  <2> QED
    BY <1>2, <2>2, <2>3
<1>6. tick' = [Idle EXCEPT !.failed = {}]
  <2>1. Idle.failed = {} /\ IsTick(Idle)
    BY DEF Idle, IsTick
  <2> HIDE DEF Idle
  <2>2. [Idle EXCEPT !.failed = {}] = Idle
    BY <2>1 DEF IsTick
  <2> QED
    BY <1>1, <2>2
<1> QED
  BY <1>1, <1>3, <1>4, <1>5, <1>6, EndsIdle

LEMMA EndTickStrong ==
    ASSUME TickStrong, EndTick
    PROVE  TickStrong'
<1>0. Types
  BY DEF TickStrong
<1>1. tick' = [Idle EXCEPT !.failed = tick.failed] /\ UNCHANGED <<disk, day, seq, reply, unheard>>
  BY DEF EndTick
<1>2. PICK F \in SUBSET Seats : F = tick.failed
  BY <1>0 DEF Types, TickTyped
<1>3. InboxTyped' /\ review' \in [Seats -> 0 .. NoDate] /\ lines' \in [Seats -> SUBSET (1 .. MaxDay)]
  BY <1>0, <1>1 DEF disk, Types, FilesTyped, InboxTyped
<1> QED
  BY <1>1, <1>2, <1>3, EndsIdle DEF disk

(* Midnight and a reply from outside do not concern the tick's memory.     *)
LEMMA NextDayStrong ==
    ASSUME TickStrong, NextDay
    PROVE  TickStrong'
<1>0. UNCHANGED <<disk, seq, tick, reply, unheard>> /\ day' = day + 1 /\ day < MaxDay
  BY DEF NextDay
<1>1. UNCHANGED <<inbox, tickets, review, lines, stamps>>
  BY <1>0 DEF disk
<1>2. day' \in 1 .. MaxDay
  BY <1>0, TickBounds DEF TickStrong, Types
<1>3. Types'
  BY <1>0, <1>1, <1>2
  DEF TickStrong, Types, FilesTyped, InboxTyped, TicketsTyped, TickTyped, IsTick
<1>4. SeatsHandedOn' /\ CopiesAreOpen' /\ OneDepth'
  BY <1>0, <1>1 DEF TickStrong, SeatsHandedOn, CopiesAreOpen, OneDepth
<1>5. NoticesSent'
  BY <1>0, <1>1 DEF TickStrong, NoticesSent, FileExists, ExpiredName
<1>6. StampsOrdered'
  BY <1>0, <1>1 DEF TickStrong, StampsOrdered, Heard
<1>7. Accounted'
  BY <1>0, <1>1, AccountUnchanged
<1> QED
  BY <1>3, <1>4, <1>5, <1>6, <1>7 DEF TickStrong

LEMMA ReadForReplyStrong ==
    ASSUME TickStrong, ReadForReply
    PROVE  TickStrong'
<1>0. UNCHANGED <<disk, day, seq, tick, unheard>>
  BY DEF ReadForReply
<1>1. UNCHANGED <<inbox, tickets, review, lines, stamps>>
  BY <1>0 DEF disk
<1>2. Types'
  BY <1>0, <1>1 DEF TickStrong, Types, FilesTyped, InboxTyped, TicketsTyped, TickTyped, IsTick
<1>3. SeatsHandedOn' /\ OneDepth'
  BY <1>0, <1>1 DEF TickStrong, SeatsHandedOn, OneDepth
<1>4. CopiesAreOpen'
  <2>1. reply'.key \in DOMAIN tickets /\ reply'.state = "open"
    BY DEF ReadForReply
  <2> QED
    BY <1>0, <1>1, <2>1 DEF TickStrong, CopiesAreOpen
<1>5. NoticesSent'
  BY <1>0, <1>1 DEF TickStrong, NoticesSent, FileExists, ExpiredName
<1>6. StampsOrdered'
  BY <1>0, <1>1 DEF TickStrong, StampsOrdered, Heard
<1>7. Accounted'
  BY <1>0, <1>1, AccountUnchanged
<1> QED
  BY <1>2, <1>3, <1>4, <1>5, <1>6, <1>7 DEF TickStrong

LEMMA StutterStrong ==
    ASSUME TickStrong, UNCHANGED vars
    PROVE  TickStrong'
<1>0. UNCHANGED <<inbox, tickets, review, lines, stamps, day, seq, tick, reply, unheard>>
  BY DEF vars, disk
<1>1. Types'
  BY <1>0 DEF TickStrong, Types, FilesTyped, InboxTyped, TicketsTyped, TickTyped, IsTick
<1>2. SeatsHandedOn' /\ OneDepth' /\ CopiesAreOpen'
  BY <1>0 DEF TickStrong, SeatsHandedOn, OneDepth, CopiesAreOpen
<1>3. NoticesSent'
  BY <1>0 DEF TickStrong, NoticesSent, FileExists, ExpiredName
<1>4. StampsOrdered'
  BY <1>0 DEF TickStrong, StampsOrdered, Heard
<1>5. Accounted'
  BY <1>0, AccountUnchanged
<1> QED
  BY <1>1, <1>2, <1>3, <1>4, <1>5 DEF TickStrong

LEMMA WriteReplyStrong ==
    ASSUME TickStrong, WriteReply
    PROVE  TickStrong'
<1>0. Types /\ SeatsHandedOn /\ CopiesAreOpen /\ NoticesSent /\ Accounted
  BY DEF TickStrong
<1> DEFINE k == reply.key
<1>1. /\ reply # NoCopy /\ reply' = NoCopy
      /\ UNCHANGED <<inbox, review, lines, stamps, day, seq, tick, unheard, spent>>
  BY DEF WriteReply
<1>2. k \in DOMAIN tickets /\ SetState(k, "done")
  BY <1>0, <1>1 DEF CopiesAreOpen, WriteReply
<1> HIDE DEF k
<1>3. /\ TicketsTyped'
      /\ DOMAIN tickets' = DOMAIN tickets
      /\ tickets'[k].state = "done"
      /\ \A j \in DOMAIN tickets : tickets'[j].from = tickets[j].from
      /\ \A j \in DOMAIN tickets : j # k => tickets'[j] = tickets[j]
  BY <1>0, <1>2, SetStateTyped DEF Types, FilesTyped, Terminal
<1>4. Types'
  BY <1>0, <1>1, <1>3 DEF Types, FilesTyped, InboxTyped, TickTyped, IsTick
<1>5. SeatsHandedOn' /\ OneDepth'
  BY <1>1 DEF TickStrong, SeatsHandedOn, OneDepth
<1>6. CopiesAreOpen'
  <2>1. \A j \in DOMAIN tickets : tickets[j].state # "expired" => tickets'[j].state # "expired"
    BY <1>3
  <2> QED
    BY <1>0, <1>1, <1>3, <2>1 DEF CopiesAreOpen
<1>7. NoticesSent'
  <2>1. ASSUME tick.pc = "expire"
        PROVE  \A j \in tick.expired \ tick.notices :
                 \E f \in inbox' : f.to = tickets'[j].from /\ f.name = ExpiredName(j)
    BY <1>0, <1>1, <1>3, <2>1 DEF NoticesSent, FileExists
  <2> QED
    BY <1>0, <1>1, <1>3, <2>1 DEF NoticesSent, FileExists, ExpiredName
<1>8. StampsOrdered'
  BY <1>1 DEF TickStrong, StampsOrdered, Heard
<1>9. Accounted'
  <2>1. NothingTakenBack
    BY <1>0, <1>1, <1>3 DEF NothingTakenBack, Types, FilesTyped, InboxTyped
  <2>2. \A a \in Seats : Feedback(a)' \subseteq Feedback(a)
    BY <1>1 DEF Feedback, Inbox
  <2> QED
    BY <1>0, <1>1, <2>1, <2>2, AccountKept
<1> QED
  BY <1>4, <1>5, <1>6, <1>7, <1>8, <1>9 DEF TickStrong
-----------------------------------------------------------------------------
(* Delivery: one outbox at a time.                                         *)
LEMMA NextRejectionIsNext ==
    ASSUME TickStrong, NEW a \in Seats
    PROVE  NextRejection(a) \in Nat /\ \A f \in Feedback(a) : f.name[3] < NextRejection(a)
<1> DEFINE N == {0} \cup {f.name[3] : f \in Feedback(a)}
<1>1. PICK n \in Nat : \A f \in inbox : IsRejected(f) => f.name[3] <= n
  BY DEF TickStrong, Types, FilesTyped, InboxTyped
<1>2. \A f \in Feedback(a) : f \in inbox /\ IsRejected(f) /\ f.name[3] \in Nat /\ f.name[3] <= n
  BY <1>1 DEF Feedback, Inbox, IsRejected, TickStrong, Types, FilesTyped, InboxTyped
<1>3. N \in SUBSET Nat /\ N # {} /\ \A i \in N : i <= n
  BY <1>1, <1>2
<1>4. \A f \in Feedback(a) : f.name[3] \in N
  OBVIOUS
<1>5. NextRejection(a) = Max(N) + 1
  BY DEF NextRejection
<1> HIDE DEF N
<1>6. Max(N) \in N /\ \A i \in N : i <= Max(N)
  BY <1>1, <1>3, GreatestNatural
<1>7. Max(N) \in Nat
  BY <1>3, <1>6
<1> QED
  BY <1>2, <1>4, <1>5, <1>6, <1>7

(* What delivery leaves alone in the tick, and what follows.               *)
LEMMA DeliveryFrame ==
    ASSUME TickStrong, tick.pc = "deliver", tick'.pc = "deliver",
           tick'.batch = tick.batch, tick'.running = tick.running, tick'.out = tick.out,
           tick'.todo \subseteq tick.todo, tick'.invoked = tick.invoked,
           tick'.sending # NoSeat => tick'.sending \in tick'.todo,
           tick'.copy = tick.copy, UNCHANGED reply,
           DOMAIN tickets \subseteq DOMAIN tickets'
    PROVE  SeatsHandedOn' /\ OneDepth' /\ NoticesSent' /\ CopiesAreOpen'
<1>1. SeatsHandedOn' /\ OneDepth'
  BY DEF TickStrong, SeatsHandedOn, OneDepth
<1>2. NoticesSent' /\ CopiesAreOpen'
  BY DEF TickStrong, NoticesSent, CopiesAreOpen
<1> QED
  BY <1>1, <1>2

LEMMA OpenOutboxStrong ==
    ASSUME TickStrong, OpenOutbox
    PROVE  TickStrong'
<1>0. Types /\ SeatsHandedOn /\ Accounted /\ StampsOrdered
  BY DEF TickStrong
<1> DEFINE a == First(tick.todo)
           n == NextRejection(a)
<1>1. /\ tick.pc = "deliver" /\ tick.sending = NoSeat /\ tick.todo # {}
      /\ UNCHANGED <<disk, day, seq, reply, unheard, spent>>
  BY DEF OpenOutbox, At
<1>2. a \in tick.todo /\ a \in Seats
  <2>1. tick.todo \in SUBSET Seats
    BY <1>0 DEF SeatsHandedOn, Types, TickTyped
  <2> QED
    BY <1>1, <2>1, FirstIsOne
<1>3. tick' = [tick EXCEPT !.sending = a, !.pos = 1, !.num = n]
  BY DEF OpenOutbox
<1>4. n \in Nat /\ \A f \in Feedback(a) : f.name[3] < n
  <2> HIDE DEF a
  <2> QED
    BY <1>2, NextRejectionIsNext
<1> HIDE DEF a, n
<1>5. /\ IsTick(tick)' /\ tick'.pc = "deliver" /\ tick'.copy = tick.copy /\ tick'.date = tick.date
      /\ tick'.batch = tick.batch /\ tick'.running = tick.running
      /\ tick'.out = tick.out /\ tick'.todo = tick.todo /\ tick'.failed = tick.failed
      /\ tick'.invoked = tick.invoked /\ tick'.sending = a
      /\ tick'.mem = tick.mem /\ tick'.stampedAt = tick.stampedAt /\ tick'.pos = 1
      /\ tick'.num = n
  BY <1>0, <1>1, <1>3 DEF Types, TickTyped, IsTick
<1>6. TickTyped'
  BY <1>0, <1>1, <1>4, <1>5 DEF Types, TickTyped, Steps
<1>7. Types'
  BY <1>0, <1>1, <1>6, TypesKept
<1>8. SeatsHandedOn' /\ OneDepth' /\ NoticesSent' /\ CopiesAreOpen'
  BY <1>1, <1>2, <1>5, DeliveryFrame DEF disk
<1>9. StampsOrdered'
  BY <1>0, <1>1, <1>5 DEF StampsOrdered, Heard, disk
<1>10. NothingTakenBack
  BY <1>0, <1>1, <1>5 DEF NothingTakenBack, disk, Types, FilesTyped, InboxTyped
<1>11. Accounted'
  <2>1. ASSUME NEW b \in DOMAIN tick.out \ tick.todo
        PROVE  Settled(b)'
    BY <1>0, <1>1, <1>5, <1>10, SettledStays DEF Accounted
  <2>2. ASSUME NEW b \in Seats, b = a
        PROVE  InHand(b)'
    <3>1. \A f \in Feedback(b)' : f.name[3] < n
      BY <1>1, <1>4, <1>5, <2>2 DEF Feedback, Inbox, disk
    <3>2. Undelivered(b, 0)' = {}
      BY DEF Undelivered
    <3>3. Cardinality(Undelivered(b, 0)') = 0
      BY <3>2, FS_EmptySet
    <3>4. Cardinality(Feedback(b)') \in Nat
      BY <1>10, FeedbackStays
    <3>5. tick'.pos - 1 = 0 /\ tick'.pos >= 1 /\ Cardinality(Undelivered(b, 0)') <= Cardinality(Feedback(b)')
      BY <1>5, <3>3, <3>4
    <3> QED
      BY <1>5, <3>1, <3>5 DEF InHand
  <2> QED
    BY <1>2, <1>5, <2>1, <2>2 DEF Accounted
<1> QED
  BY <1>7, <1>8, <1>9, <1>11 DEF TickStrong

(* One message more: it is in its place, or a feedback of its own is.      *)
LEMMA DeliverMessageStrong ==
    ASSUME TickStrong, DeliverMessage
    PROVE  TickStrong'
<1>0. Types /\ SeatsHandedOn /\ Accounted /\ StampsOrdered
  BY DEF TickStrong
<1>1. /\ tick.pc = "deliver" /\ tick.sending # NoSeat /\ tick.pos <= Len(Outbox)
      /\ tick' = [tick EXCEPT !.pos = @ + 1]
      /\ UNCHANGED <<review, lines, stamps, day, seq, reply, unheard, spent>>
  BY DEF DeliverMessage, Sending, At
<1>2. PICK a \in Seats : a = tick.sending /\ a \in tick.todo /\ a \in DOMAIN tick.out
  BY <1>0, <1>1 DEF SeatsHandedOn, Types, TickTyped
<1>3. PICK n \in Nat : n = tick.pos
  BY <1>0 DEF Types, TickTyped
<1>4. PICK m : m = tick.out[a][n]
  OBVIOUS
<1>5. PICK date \in 1 .. MaxDay : date = tick.date
  BY <1>0, <1>1 DEF Types, TickTyped
<1>6. date \in Nat
  BY TickBounds
<1>7. Deliver(a, m, date)
  BY <1>2, <1>3, <1>4, <1>5 DEF DeliverMessage, Outbox
<1>8. /\ IsTick(tick)' /\ tick'.pc = "deliver" /\ tick'.copy = tick.copy /\ tick'.date = tick.date
      /\ tick'.batch = tick.batch /\ tick'.running = tick.running
      /\ tick'.out = tick.out /\ tick'.todo = tick.todo /\ tick'.failed = tick.failed
      /\ tick'.invoked = tick.invoked /\ tick'.sending = tick.sending
      /\ tick'.mem = tick.mem /\ tick'.stampedAt = tick.stampedAt /\ tick'.pos = n + 1
      /\ tick'.num = tick.num
  BY <1>0, <1>1, <1>3 DEF Types, TickTyped, IsTick
<1>9. TickTyped'
  BY <1>0, <1>1, <1>8 DEF Types, TickTyped, Steps
<1>10. /\ InboxTyped' /\ TicketsTyped' /\ inbox \subseteq inbox'
       /\ DOMAIN tickets \subseteq DOMAIN tickets'
       /\ \A k \in DOMAIN tickets : tickets[k].state = "done" => tickets'[k].state = "done"
       /\ \A f \in inbox' \ inbox : f.name[1] = "notify"
       /\ Delivered(a, m)'
  <2>1. CASE DeliverNotify(m, date)
    <3>1. m.type = "NOTIFY" /\ inbox' = inbox \cup {Item(m.to, NotifyName(m, date), date)}
          /\ tickets' = tickets
      BY <2>1 DEF DeliverNotify
    <3>2. NotifyName(m, date)[1] = "notify"
      BY DEF NotifyName
    <3>3. InboxTyped'
      BY <1>0, <3>1, <3>2, AddItem DEF Types, FilesTyped
    <3>4. \A x, y, z : Item(x, y, z).to = x /\ Item(x, y, z).name = y
      BY DEF Item
    <3>5. \E f \in inbox' : f.to = m.to /\ f.name = NotifyName(m, date)
      BY <3>1, <3>4
    <3>6. Delivered(a, m)'
      BY <1>5, <1>8, <3>1, <3>5 DEF Delivered, FileExists, NotifyName
    <3>7. \A f \in inbox' \ inbox : f.name[1] = "notify"
      BY <3>1, <3>2, <3>4
    <3> QED
      BY <1>0, <3>1, <3>3, <3>6, <3>7 DEF Types, FilesTyped, TicketsTyped
  <2>2. CASE DeliverRequest(a, m, date)
    <3>1. m.type = "REQUEST" /\ inbox' = inbox
      BY <2>2 DEF DeliverRequest
    <3>2. /\ TicketsTyped'
          /\ TicketKey(m, date) \in DOMAIN tickets'
          /\ DOMAIN tickets \subseteq DOMAIN tickets'
          /\ \A j \in DOMAIN tickets : tickets'[j] = tickets[j]
      BY <1>0, <1>6, <1>7, <2>2, RequestTyped DEF Deliver, Types, FilesTyped
    <3>3. Delivered(a, m)'
      BY <1>5, <1>8, <3>1, <3>2 DEF Delivered, TicketKey
    <3> QED
      BY <1>0, <3>1, <3>2, <3>3 DEF Types, FilesTyped, InboxTyped
  <2>3. CASE DeliverReply(m)
    <3>1. m.type = "REPLY" /\ inbox' = inbox
      BY <2>3 DEF DeliverReply
    <3>2. PICK k \in TicketsOf(m.ticket) :
             k \in DOMAIN tickets /\ k.to = a /\ tickets[k].state = "open" /\ SetState(k, "done")
      BY <1>0, <1>6, <1>7, <2>3, ReplyTyped DEF Deliver, Types, FilesTyped
    <3>3. /\ TicketsTyped'
          /\ DOMAIN tickets' = DOMAIN tickets
          /\ tickets'[k].state = "done"
          /\ \A j \in DOMAIN tickets : j # k => tickets'[j] = tickets[j]
      BY <1>0, <3>2, SetStateTyped DEF Types, FilesTyped, Terminal
    <3>4. Delivered(a, m)'
      <4>1. k.id = m.ticket /\ k \in DOMAIN tickets'
        BY <3>2, <3>3 DEF TicketsOf
      <4> QED
        BY <3>1, <3>2, <3>3, <4>1 DEF Delivered, TicketsOf
    <3> QED
      BY <1>0, <3>1, <3>3, <3>4 DEF Types, FilesTyped, InboxTyped
  <2> QED
    BY <1>7, <2>1, <2>2, <2>3 DEF Deliver
<1>11. Types'
  BY <1>0, <1>1, <1>9, <1>10 DEF Types, FilesTyped
<1>12. SeatsHandedOn' /\ OneDepth' /\ NoticesSent' /\ CopiesAreOpen'
  BY <1>0, <1>1, <1>8, <1>10, DeliveryFrame DEF SeatsHandedOn
<1>13. StampsOrdered'
  BY <1>0, <1>1, <1>8 DEF StampsOrdered, Heard
<1>14. NothingTakenBack
  BY <1>8, <1>10 DEF NothingTakenBack, InboxTyped
<1>15. Accounted'
  <2>1. ASSUME NEW b \in DOMAIN tick.out \ tick.todo
        PROVE  Settled(b)'
    BY <1>0, <1>1, <1>8, <1>14, SettledStays DEF Accounted
  <2>2. InHand(a)'
    <3>1. InHand(a) /\ n >= 1
      BY <1>0, <1>1, <1>2, <1>3 DEF Accounted, InHand
    <3>2. \A f \in Feedback(a)' : f.name[3] < tick'.num
      <4>1. Feedback(a)' \subseteq Feedback(a)
        BY <1>8, <1>10 DEF Feedback, Inbox
      <4> QED
        BY <1>8, <3>1, <4>1 DEF InHand
    <3>3. n - 1 \in Nat /\ (n + 1) - 1 = n
      BY <3>1
    <3>4. PICK p \in Nat : p = n - 1
      BY <3>3
    <3>5. Undelivered(a, n)' \subseteq Undelivered(a, p)'
      <4>1. ASSUME NEW i \in 1 .. n, i \notin 1 .. p
            PROVE  Delivered(a, tick.out[a][i])'
        <5>1. i = n /\ m = tick'.out[a][i]
          BY <1>4, <1>8, <3>1, <3>4, <4>1
        <5> QED
          BY <1>10, <5>1
      <4> QED
        BY <4>1 DEF Undelivered
    <3>6. /\ Undelivered(a, p)' \subseteq Undelivered(a, p) /\ IsFiniteSet(Undelivered(a, p))
          /\ Cardinality(Undelivered(a, p)) \in Nat
      BY <1>14, UndeliveredShrinks
    <3>7. Cardinality(Undelivered(a, n)') <= Cardinality(Undelivered(a, p))
      BY <3>5, <3>6, FS_Subset
    <3>8. Cardinality(Undelivered(a, p)) <= Cardinality(Feedback(a))
      BY <1>3, <3>1, <3>4 DEF InHand
    <3>9. Cardinality(Feedback(a)) <= Cardinality(Feedback(a)') /\ Cardinality(Feedback(a)) \in Nat
          /\ Cardinality(Feedback(a)') \in Nat /\ Cardinality(Undelivered(a, n)') \in Nat
      BY <1>14, FeedbackStays, UndeliveredShrinks
    <3>10. Cardinality(Undelivered(a, n)') <= Cardinality(Feedback(a)')
      BY <3>6, <3>7, <3>8, <3>9
    <3>11. n = tick'.pos - 1 /\ tick'.pos >= 1
      BY <1>8, <3>1
    <3> QED
      BY <3>2, <3>10, <3>11 DEF InHand
  <2> QED
    BY <1>2, <1>8, <2>1, <2>2 DEF Accounted
<1> QED
  BY <1>11, <1>12, <1>13, <1>15 DEF TickStrong

LEMMA RejectMessageStrong ==
    ASSUME TickStrong, RejectMessage
    PROVE  TickStrong'
<1>0. Types /\ SeatsHandedOn /\ Accounted /\ StampsOrdered
  BY DEF TickStrong
<1>1. /\ tick.pc = "deliver" /\ tick.sending # NoSeat /\ tick.pos <= Len(Outbox)
      /\ tick' = [tick EXCEPT !.pos = @ + 1, !.num = @ + 1]
      /\ UNCHANGED <<tickets, review, lines, stamps, day, seq, reply, unheard, spent>>
  BY DEF RejectMessage, Sending, At
<1>2. PICK a \in Seats : a = tick.sending /\ a \in tick.todo /\ a \in DOMAIN tick.out
  BY <1>0, <1>1 DEF SeatsHandedOn, Types, TickTyped
<1>3. PICK n \in Nat : n = tick.pos
  BY <1>0 DEF Types, TickTyped
<1>4. PICK j \in Nat : j = tick.num
  BY <1>0 DEF Types, TickTyped
<1>5. PICK date \in 1 .. MaxDay : date = tick.date
  BY <1>0, <1>1 DEF Types, TickTyped
<1> DEFINE name == <<"rejected", date, j>>
           x    == Item(a, name, date)
<1>6. name = RejectedName(tick.num) /\ name[1] = "rejected" /\ name[2] = date /\ name[3] = j
  BY <1>4, <1>5 DEF RejectedName
<1>7. x.to = a /\ x.name = name
  BY DEF Item
<1>8. InHand(a) /\ n >= 1
  BY <1>0, <1>1, <1>2, <1>3 DEF Accounted, InHand
<1> HIDE DEF name, x
<1>9. ~FileExists(a, name)
  <2> SUFFICES ASSUME NEW f \in inbox, f.to = a, f.name = name
               PROVE  FALSE
    BY DEF FileExists
  <2>1. f \in Feedback(a)
    BY <1>5, <1>6 DEF Feedback, Inbox
  <2>2. f.name[3] < j
    BY <1>4, <1>8, <2>1 DEF InHand
  <2> QED
    BY <1>6, <2>2
<1>10. inbox' = inbox \cup {x}
  <2>1. inbox' = IF FileExists(tick.sending, RejectedName(tick.num)) THEN inbox
                 ELSE inbox \cup {Item(tick.sending, RejectedName(tick.num), tick.date)}
    BY DEF RejectMessage
  <2> QED
    BY <1>2, <1>5, <1>6, <1>9, <2>1 DEF x
<1>11. InboxTyped'
  BY <1>0, <1>6, <1>10, AddItem DEF Types, FilesTyped, x
<1>12. /\ IsTick(tick)' /\ tick'.pc = "deliver" /\ tick'.copy = tick.copy /\ tick'.date = tick.date
       /\ tick'.batch = tick.batch /\ tick'.running = tick.running
       /\ tick'.out = tick.out /\ tick'.todo = tick.todo /\ tick'.failed = tick.failed
       /\ tick'.invoked = tick.invoked /\ tick'.sending = tick.sending
       /\ tick'.mem = tick.mem /\ tick'.stampedAt = tick.stampedAt /\ tick'.pos = n + 1
       /\ tick'.num = j + 1
  BY <1>0, <1>1, <1>3, <1>4 DEF Types, TickTyped, IsTick
<1>13. TickTyped'
  BY <1>0, <1>1, <1>12, SMTT(60) DEF Types, TickTyped, Steps
<1>14. Types'
  BY <1>0, <1>1, <1>11, <1>13 DEF Types, FilesTyped, TicketsTyped
<1>15. SeatsHandedOn' /\ OneDepth' /\ NoticesSent' /\ CopiesAreOpen'
  BY <1>0, <1>1, <1>12, DeliveryFrame DEF SeatsHandedOn
<1>16. StampsOrdered'
  BY <1>0, <1>1, <1>12 DEF StampsOrdered, Heard
<1>17. NothingTakenBack
  BY <1>1, <1>10, <1>11, <1>12 DEF NothingTakenBack, InboxTyped
<1>18. Accounted'
  <2>1. ASSUME NEW b \in DOMAIN tick.out \ tick.todo
        PROVE  Settled(b)'
    BY <1>0, <1>1, <1>12, <1>17, SettledStays DEF Accounted
  <2>2. InHand(a)'
    <3>1. Feedback(a)' = Feedback(a) \cup {x} /\ x \notin Feedback(a)
      <4>1. x \notin inbox
        BY <1>7, <1>9 DEF FileExists
      <4> QED
        BY <1>5, <1>6, <1>7, <1>10, <1>12, <4>1 DEF Feedback, Inbox
    <3>2. \A f \in Feedback(a)' : f.name[3] < j + 1
      <4>1. ASSUME NEW f \in Feedback(a)
            PROVE  f.name[3] < j + 1
        <5>1. f.name[3] \in Nat /\ f.name[3] < j
          BY <1>0, <1>4, <1>8
          DEF InHand, Feedback, Inbox, Types, FilesTyped, InboxTyped, IsRejected
        <5> QED
          BY <5>1
      <4> QED
        BY <1>6, <1>7, <3>1, <4>1
    <3>3. PICK p \in Nat : p = n - 1
      BY <1>8
    <3>4. Undelivered(a, n)' \subseteq Undelivered(a, p)' \cup {n}
      BY <1>8, <3>3 DEF Undelivered
    <3>5. /\ Undelivered(a, p)' \subseteq Undelivered(a, p) /\ IsFiniteSet(Undelivered(a, p))
          /\ Cardinality(Undelivered(a, p)) \in Nat
      BY <1>17, UndeliveredShrinks
    <3>6. /\ IsFiniteSet(Undelivered(a, p) \cup {n})
          /\ Cardinality(Undelivered(a, p) \cup {n}) <= Cardinality(Undelivered(a, p)) + 1
      BY <3>5, FS_AddElement, SMTT(60)
    <3>7. Cardinality(Undelivered(a, n)') <= Cardinality(Undelivered(a, p) \cup {n})
      BY <3>4, <3>5, <3>6, FS_Subset
    <3>8. Cardinality(Undelivered(a, p)) <= Cardinality(Feedback(a))
      BY <1>3, <1>8, <3>3 DEF InHand
    <3>9. Cardinality(Feedback(a)') = Cardinality(Feedback(a)) + 1 /\ Cardinality(Feedback(a)) \in Nat
      <4>1. IsFiniteSet(Feedback(a)')
        BY <1>17, FeedbackStays
      <4>2. IsFiniteSet(Feedback(a))
        BY <3>1, <4>1, FS_Subset
      <4> QED
        BY <3>1, <4>2, FS_AddElement, FS_CardinalityType
    <3>10. Cardinality(Undelivered(a, p) \cup {n}) \in Nat /\ Cardinality(Undelivered(a, n)') \in Nat
      BY <1>17, <3>6, FS_CardinalityType, UndeliveredShrinks
    <3>11. Cardinality(Undelivered(a, n)') <= Cardinality(Feedback(a)')
      BY <3>5, <3>6, <3>7, <3>8, <3>9, <3>10
    <3>12. n = tick'.pos - 1 /\ tick'.pos >= 1
      BY <1>8, <1>12
    <3> QED
      BY <1>12, <3>2, <3>11, <3>12 DEF InHand
  <2> QED
    BY <1>2, <1>12, <2>1, <2>2 DEF Accounted
<1> QED
  BY <1>14, <1>15, <1>16, <1>18 DEF TickStrong

(* The end of an outbox: nothing of it is left to send.                    *)
LEMMA CloseOutboxStrong ==
    ASSUME TickStrong, CloseOutbox
    PROVE  TickStrong'
<1>0. Types /\ SeatsHandedOn /\ Accounted /\ StampsOrdered
  BY DEF TickStrong
<1>1. /\ tick.pc = "deliver" /\ tick.sending # NoSeat /\ tick.pos > Len(Outbox)
      /\ UNCHANGED <<disk, day, seq, reply, unheard, spent>>
  BY DEF CloseOutbox, At
<1>2. PICK a \in Seats : a = tick.sending /\ a \in tick.todo /\ a \in DOMAIN tick.out
  BY <1>0, <1>1 DEF SeatsHandedOn, Types, TickTyped
<1> DEFINE mem == [tick.mem EXCEPT ![a] = tick.stampedAt]
<1>3. mem \in [Seats -> Stamp] /\ mem[a] = tick.stampedAt
      /\ \A b \in Seats : b # a => mem[b] = tick.mem[b]
  BY <1>0 DEF Types, TickTyped
<1>4. tick' = [tick EXCEPT !.mem = mem, !.todo = @ \ {a}, !.sending = NoSeat, !.pos = 1, !.num = 1]
  BY <1>2 DEF CloseOutbox
<1> HIDE DEF mem
<1>5. /\ IsTick(tick)' /\ tick'.pc = "deliver" /\ tick'.copy = tick.copy /\ tick'.date = tick.date
      /\ tick'.batch = tick.batch /\ tick'.running = tick.running
      /\ tick'.out = tick.out /\ tick'.todo = tick.todo \ {a} /\ tick'.failed = tick.failed
      /\ tick'.invoked = tick.invoked /\ tick'.sending = NoSeat
      /\ tick'.mem = mem /\ tick'.stampedAt = tick.stampedAt /\ tick'.pos = 1
      /\ tick'.num = 1
  BY <1>0, <1>1, <1>4 DEF Types, TickTyped, IsTick
<1>6. TickTyped'
  BY <1>0, <1>1, <1>3, <1>5 DEF Types, TickTyped, Steps
<1>7. Types'
  BY <1>0, <1>1, <1>6, TypesKept
<1>8. SeatsHandedOn' /\ OneDepth' /\ NoticesSent' /\ CopiesAreOpen'
  BY <1>1, <1>5, DeliveryFrame DEF disk
<1>9. StampsOrdered'
  <2>1. mem = [b \in Seats |-> IF b \in DOMAIN tick.out \ (tick.todo \ {a})
                               THEN tick.stampedAt ELSE stamps[b]]
    <3>1. tick.mem = [b \in Seats |-> IF b \in DOMAIN tick.out \ tick.todo
                                      THEN tick.stampedAt ELSE stamps[b]]
      BY <1>0, <1>1 DEF StampsOrdered
    <3> QED
      BY <1>2, <3>1 DEF mem
  <2> QED
    BY <1>0, <1>1, <1>5, <2>1 DEF StampsOrdered, Heard, disk
<1>10. NothingTakenBack
  BY <1>0, <1>1, <1>5 DEF NothingTakenBack, disk, Types, FilesTyped, InboxTyped
<1>11. Accounted'
  <2>1. ASSUME NEW b \in DOMAIN tick.out \ tick.todo
        PROVE  Settled(b)'
    <3>1. b # a /\ b \in Seats
      BY <1>0, <1>2 DEF Types, TickTyped
    <3> QED
      BY <1>0, <1>1, <1>3, <1>5, <1>10, <3>1, SettledStays DEF Accounted
  <2>2. Settled(a)'
    <3>1. PICK p \in Nat : p = tick.pos - 1
      BY <1>0, <1>1 DEF Accounted, InHand, Types, TickTyped
    <3>2. PICK n \in Nat : n = Len(tick.out[a])
      BY <1>0, <1>2 DEF Types, TickTyped
    <3>3. n <= p
      BY <1>0, <1>1, <1>2, <3>1, <3>2 DEF Outbox, Types, TickTyped
    <3>4. Cardinality(Undelivered(a, p)) <= Cardinality(Feedback(a))
      BY <1>0, <1>1, <1>2, <3>1 DEF Accounted, InHand
    <3>5. Undelivered(a, n)' \subseteq Undelivered(a, p)'
      BY <3>3 DEF Undelivered
    <3>6. /\ Undelivered(a, p)' \subseteq Undelivered(a, p) /\ IsFiniteSet(Undelivered(a, p))
          /\ Cardinality(Undelivered(a, p)) \in Nat
      BY <1>10, UndeliveredShrinks
    <3>7. Cardinality(Undelivered(a, n)') <= Cardinality(Undelivered(a, p))
      BY <3>5, <3>6, FS_Subset
    <3>8. Cardinality(Feedback(a)) <= Cardinality(Feedback(a)') /\ Cardinality(Feedback(a)) \in Nat
          /\ Cardinality(Feedback(a)') \in Nat /\ Cardinality(Undelivered(a, n)') \in Nat
      BY <1>10, FeedbackStays, UndeliveredShrinks
    <3>9. Cardinality(Undelivered(a, n)') <= Cardinality(Feedback(a)')
      BY <3>4, <3>6, <3>7, <3>8
    <3>10. n = Len(tick'.out[a]) /\ tick'.mem[a] = tick'.stampedAt
      BY <1>3, <1>5, <3>2
    <3> QED
      BY <3>9, <3>10 DEF Settled
  <2> QED
    BY <1>5, <2>1, <2>2 DEF Accounted
<1> QED
  BY <1>7, <1>8, <1>9, <1>11 DEF TickStrong
-----------------------------------------------------------------------------
(* The stamps: a batch is of one depth and stamped later than all before,  *)
(* so the parents of its seats are behind them.                            *)
LEMMA TruncateStampsStrong ==
    ASSUME TickStrong, TruncateStamps
    PROVE  TickStrong'
<1>0. Types /\ SeatsHandedOn /\ CopiesAreOpen /\ Accounted /\ StampsOrdered /\ OneDepth
  BY DEF TickStrong
<1>1. /\ tick.pc = "deliver" /\ tick.todo = {} /\ stamps' = Torn
      /\ tick' = [tick EXCEPT !.pc = "write"]
      /\ UNCHANGED <<inbox, tickets, review, lines, day, seq, reply, unheard, spent>>
  BY DEF TruncateStamps, At
<1>2. tick.sending = NoSeat
  BY <1>0, <1>1 DEF SeatsHandedOn
<1>3. /\ IsTick(tick)' /\ tick'.pc = "write" /\ tick'.copy = tick.copy /\ tick'.date = tick.date
      /\ tick'.batch = tick.batch /\ tick'.running = tick.running
      /\ tick'.out = tick.out /\ tick'.todo = tick.todo /\ tick'.failed = tick.failed
      /\ tick'.invoked = tick.invoked /\ tick'.sending = tick.sending
      /\ tick'.mem = tick.mem /\ tick'.stampedAt = tick.stampedAt /\ tick'.pos = tick.pos
      /\ tick'.num = tick.num
  BY <1>0, <1>1 DEF Types, TickTyped, IsTick
<1>4. TickTyped'
  BY <1>0, <1>1, <1>3 DEF Types, TickTyped, Steps
<1>5. Types'
  BY <1>0, <1>1, <1>4 DEF Types, FilesTyped, InboxTyped, TicketsTyped
<1>6. SeatsHandedOn' /\ OneDepth' /\ NoticesSent'
  BY <1>0, <1>1, <1>2, <1>3 DEF SeatsHandedOn, OneDepth, NoticesSent
<1>7. CopiesAreOpen'
  BY <1>0, <1>1, <1>3 DEF CopiesAreOpen
<1>8. Accounted'
  <2>1. NothingTakenBack
    BY <1>0, <1>1, <1>3 DEF NothingTakenBack, Types, FilesTyped, InboxTyped
  <2>2. ASSUME NEW b \in DOMAIN tick.out \ tick.todo
        PROVE  Settled(b)'
    BY <1>0, <1>1, <1>3, <2>1, SettledStays DEF Accounted
  <2> QED
    BY <1>2, <1>3, <2>2 DEF Accounted
<1>9. StampsOrdered'
  <2> DEFINE out == DOMAIN tick.out
  <2>1. /\ stamps # Torn /\ Heard(stamps, unheard)
        /\ tick.stampedAt \in Stamp /\ tick.stampedAt.seq = seq /\ seq \in Nat
        /\ stamps \in [Seats -> Stamp]
        /\ \A a \in Seats : stamps[a].seq < seq
        /\ \A a \in Seats : tick.mem[a] = IF a \in out THEN tick.stampedAt ELSE stamps[a]
    BY <1>0, <1>1 DEF StampsOrdered, Types, TickTyped, FilesTyped
  <2>2. \A a \in Seats : stamps[a].seq \in Nat /\ tick.mem[a].seq <= seq
    BY <2>1 DEF Stamp
  <2>3. \A a \in Seats : Later(tick.stampedAt, stamps[a])
    <3>1. ASSUME NEW a \in Seats PROVE tick.stampedAt # Never
      BY <2>1, <2>2 DEF Never
    <3> QED
      BY <2>1, <2>2, <3>1 DEF Later
  <2>4. out \subseteq Seats /\ unheard \subseteq Seats \ {Root}
    BY <1>0 DEF Types, TickTyped
  <2> HIDE DEF out
  <2>5. ASSUME NEW c \in unheard, Parent[c] \notin out
        PROVE  Later(tick.mem[c], tick.mem[Parent[c]])
    <3>1. c \in Seats /\ Parent[c] \in Seats
      BY <2>4, ParentsAreAbove
    <3>2. tick.mem[Parent[c]] = stamps[Parent[c]]
      BY <2>1, <2>5, <3>1
    <3>3. Later(stamps[c], stamps[Parent[c]])
      BY <2>1 DEF Heard
    <3> QED
      BY <2>1, <2>3, <3>1, <3>2, <3>3
  <2>6. ASSUME NEW c \in out \ {Root}
        PROVE  Later(tick.mem[c], tick.mem[Parent[c]])
    <3>1. c \in Seats /\ Parent[c] \in Seats /\ Depth(Parent[c]) # Depth(c)
      BY <2>4, ParentsAreAbove
    <3>2. Parent[c] \notin out
      BY <1>0, <1>1, <3>1 DEF OneDepth, out
    <3> QED
      BY <2>1, <2>3, <3>1, <3>2
  <2>7. Heard(tick.mem, {c \in unheard : Parent[c] \notin out} \cup (out \ {Root}))
    BY <2>5, <2>6 DEF Heard
  <2> QED
    BY <1>1, <1>3, <2>2, <2>7 DEF StampsOrdered, Heard, out
<1> QED
  BY <1>5, <1>6, <1>7, <1>8, <1>9 DEF TickStrong

LEMMA WriteStampsStrong ==
    ASSUME TickStrong, WriteStamps
    PROVE  TickStrong'
<1>0. Types /\ SeatsHandedOn /\ CopiesAreOpen /\ StampsOrdered
  BY DEF TickStrong
<1> DEFINE rest == {c \in unheard : Parent[c] \notin DOMAIN tick.out} \cup (DOMAIN tick.out \ {Root})
<1>1. /\ tick.pc = "write" /\ stamps' = tick.mem
      /\ tick' = [tick EXCEPT !.pc = "plan", !.round = @ + 1]
      /\ UNCHANGED <<inbox, tickets, review, lines, day, seq, reply, spent>>
  BY DEF WriteStamps, At
<1>2. unheard' = rest
  BY DEF WriteStamps
<1>3. /\ IsTick(tick)' /\ tick'.pc = "plan" /\ tick'.copy = tick.copy /\ tick'.date = tick.date
      /\ tick'.batch = tick.batch /\ tick'.running = tick.running
      /\ tick'.out = tick.out /\ tick'.todo = tick.todo /\ tick'.failed = tick.failed
      /\ tick'.invoked = tick.invoked /\ tick'.sending = tick.sending
      /\ tick'.mem = tick.mem /\ tick'.stampedAt = tick.stampedAt /\ tick'.pos = tick.pos
      /\ tick'.num = tick.num
  BY <1>0, <1>1 DEF Types, TickTyped, IsTick
<1>4. TickTyped'
  BY <1>0, <1>1, <1>3 DEF Types, TickTyped, Steps
<1>5. tick.mem \in [Seats -> Stamp] /\ rest \subseteq Seats \ {Root}
  BY <1>0 DEF Types, TickTyped
<1>6. Types'
  BY <1>0, <1>1, <1>2, <1>4, <1>5 DEF Types, FilesTyped, InboxTyped, TicketsTyped
<1>7. SeatsHandedOn' /\ OneDepth' /\ NoticesSent' /\ Accounted'
  BY <1>0, <1>1, <1>3 DEF SeatsHandedOn, OneDepth, NoticesSent, Accounted
<1>8. CopiesAreOpen'
  BY <1>0, <1>1, <1>3 DEF CopiesAreOpen
<1>9. StampsOrdered'
  <2>1. tick.mem # Torn
    BY <1>5, FirstOrg DEF Stamp
  <2>2. Heard(tick.mem, rest) /\ \A a \in Seats : tick.mem[a].seq <= seq
    BY <1>0, <1>1 DEF StampsOrdered
  <2> HIDE DEF rest
  <2> QED
    BY <1>1, <1>2, <1>3, <2>1, <2>2 DEF StampsOrdered, Heard
<1> QED
  BY <1>6, <1>7, <1>8, <1>9 DEF TickStrong
-----------------------------------------------------------------------------
LEMMA StepStrong ==
    ASSUME TickStrong, [Next]_vars
    PROVE  TickStrong'
<1>1. CASE StartTick
  BY <1>1, StartTickStrong
<1>2. CASE ReadOverdue
  BY <1>2, ReadOverdueStrong
<1>3. CASE WriteExpired
  BY <1>3, WriteExpiredStrong
<1>4. CASE Notify
  BY <1>4, NotifyStrong
<1>5. CASE Plan
  BY <1>5, PlanStrong
<1>6. CASE StartWake
  BY <1>6, StartWakeStrong
<1>7. CASE WakeReturns
  BY <1>7, WakeReturnsStrong
<1>8. CASE WakeFails
  BY <1>8, WakeFailsStrong
<1>9. CASE StampBatch
  BY <1>9, StampBatchStrong
<1>10. CASE OpenOutbox
  BY <1>10, OpenOutboxStrong
<1>11. CASE DeliverMessage
  BY <1>11, DeliverMessageStrong
<1>12. CASE RejectMessage
  BY <1>12, RejectMessageStrong
<1>13. CASE DeliveryThrows
  BY <1>13, AbortStrong DEF DeliveryThrows
<1>14. CASE CloseOutbox
  BY <1>14, CloseOutboxStrong
<1>15. CASE TruncateStamps
  BY <1>15, TruncateStampsStrong
<1>16. CASE WriteStamps
  BY <1>16, WriteStampsStrong
<1>17. CASE EndTick
  BY <1>17, EndTickStrong
<1>18. CASE Crash
  BY <1>18, CrashStrong
<1>19. CASE NextDay
  BY <1>19, NextDayStrong
<1>20. CASE ReadForReply
  BY <1>20, ReadForReplyStrong
<1>21. CASE WriteReply
  BY <1>21, WriteReplyStrong
<1>22. CASE UNCHANGED vars
  BY <1>22, StutterStrong
<1> QED
  BY <1>1, <1>2, <1>3, <1>4, <1>5, <1>6, <1>7, <1>8, <1>9, <1>10, <1>11, <1>12, <1>13, <1>14,
     <1>15, <1>16, <1>17, <1>18, <1>19, <1>20, <1>21, <1>22
  DEF Next, TickNext

(* The inductive invariant of the scheduler.                               *)
THEOREM TickIsStrong == Spec => []TickStrong
<1>1. Init => TickStrong
  BY InitStrong
<1>2. TickStrong /\ [Next]_vars => TickStrong'
  BY StepStrong
<1> QED
  BY <1>1, <1>2, PTL DEF Spec

(* The types of the org's files and of a tick, and no parent left out:     *)
(* between ticks, and after a crash anywhere in one, a parent that has not *)
(* been woken since a child's stamped wake is due (evaluateTriggers() of   *)
(* src/org/scheduler.ts), however many seats, ticks and crashes.           *)
THEOREM NoParentLeftOut == Spec => []TickInv
<1>1. TickStrong => TickInv
  <2> SUFFICES ASSUME TickStrong PROVE TickInv
    OBVIOUS
  <2>1. Types /\ SeatsHandedOn /\ StampsOrdered
    BY DEF TickStrong
  <2>2. OrgTypeOK
    <3>1. \A k \in DOMAIN tickets : tickets[k].state \in Terminal \cup {"open"}
      BY <2>1 DEF Types, FilesTyped, TicketsTyped, Ticket
    <3> QED
      BY <2>1, <3>1 DEF OrgTypeOK, Types, FilesTyped, InboxTyped, SeatsHandedOn
  <2>3. ParentHears
    <3> SUFFICES ASSUME stamps # Torn, NEW c \in unheard
                 PROVE  Parent[c] \in Due(day, stamps)
      BY DEF ParentHears
    <3>1. c \in Seats \ {Root} /\ Parent[c] \in Seats
      BY <2>1, ParentsAreAbove DEF Types
    <3>2. Later(stamps[c], stamps[Parent[c]])
      BY <2>1 DEF StampsOrdered, Heard
    <3>3. DependencyDue(Parent[c], stamps)
      BY <3>1, <3>2, SMTT(60) DEF DependencyDue, Children, Later
    <3> QED
      BY <3>1, <3>3 DEF Due
  <2> QED
    BY <2>2, <2>3 DEF TickInv
<1> QED
  BY <1>1, TickIsStrong, PTL

(* Every step of a tick, by its name.                                      *)
LEMMA StampsAreWritten ==
    ASSUME TickStrong, Next, stamps = Torn, stamps' # Torn
    PROVE  WriteStamps
BY DEF Next, TickNext, StartTick, ReadOverdue, WriteExpired, Notify, Plan, StartWake, WakeReturns,
       WakeFails, Works, StampBatch, OpenOutbox, DeliverMessage, RejectMessage, DeliveryThrows,
       CloseOutbox, TruncateStamps, EndTick, Crash, NextDay, ReadForReply, WriteReply, disk

(* A seat is stamped on disk only when every message of its outbox is in   *)
(* its place or answered by a feedback of its own (deliverWakeOutbox() and *)
(* writeLastWakeState()).                                                  *)
THEOREM DeliveredBeforeStamped == Spec => StampMeansDelivered
<1>1. TickStrong /\ [Next]_vars =>
        [stamps = Torn /\ stamps' # Torn =>
           \A a \in DOMAIN tick.out :
             LET o == tick.out[a]
                 undelivered == {i \in 1..Len(o) : ~Delivered(a, o[i])}
             IN  /\ stamps'[a] = tick.stampedAt
                 /\ Cardinality(undelivered) <= Cardinality(Feedback(a))]_vars
  <2> SUFFICES ASSUME TickStrong, Next, stamps = Torn, stamps' # Torn, NEW a \in DOMAIN tick.out
               PROVE  /\ stamps'[a] = tick.stampedAt
                      /\ Cardinality({i \in 1..Len(tick.out[a]) : ~Delivered(a, tick.out[a][i])})
                           <= Cardinality(Feedback(a))
    BY DEF vars, disk
  <2>1. tick.pc = "write" /\ stamps' = tick.mem
    BY StampsAreWritten DEF WriteStamps, At
  <2>2. Settled(a)
    BY <2>1 DEF TickStrong, SeatsHandedOn, Accounted
  <2> QED
    BY <2>1, <2>2 DEF Settled, Undelivered
<1> QED
  BY <1>1, TickIsStrong, PTL DEF Spec, StampMeansDelivered

(* A tick that goes on to wake seats has told the author of every ticket   *)
(* it has expired (expireTickets()).                                       *)
THEOREM AuthorsAreTold == Spec => ExpiryReported
<1>1. TickStrong /\ [Next]_vars =>
        [tick.pc = "expire" /\ tick'.pc \in {"wake", "post"} =>
           \A k \in tick.expired : FileExists(tickets[k].from, ExpiredName(k))]_vars
  <2> SUFFICES ASSUME TickStrong, Next, tick.pc = "expire", tick'.pc \in {"wake", "post"}
               PROVE  \A k \in tick.expired : FileExists(tickets[k].from, ExpiredName(k))
    BY DEF vars, disk
  <2>0. IsTick(tick)
    BY DEF TickStrong, Types, TickTyped
  <2>1. Plan
    <3>1. CASE StartTick \/ Crash \/ EndTick \/ DeliveryThrows \/ StartWake \/ WakeReturns \/ WakeFails
                 \/ StampBatch \/ OpenOutbox \/ DeliverMessage \/ RejectMessage \/ CloseOutbox
                 \/ TruncateStamps \/ WriteStamps
      <4>1. tick'.pc = "idle" \/ tick.pc # "expire"
        BY <3>1 DEF StartTick, Crash, EndTick, DeliveryThrows, StartWake, WakeReturns, WakeFails,
                    StampBatch, OpenOutbox, DeliverMessage, RejectMessage, CloseOutbox,
                    TruncateStamps, WriteStamps, At, Sending, Idle
      <4> QED
        BY <4>1
    <3>2. CASE NextDay \/ ReadForReply \/ WriteReply
      BY <3>2 DEF NextDay, ReadForReply, WriteReply
    <3>3. CASE ReadOverdue \/ WriteExpired \/ Notify
      <4>1. tick'.pc = "idle" \/ tick'.pc = tick.pc
        <5>1. Idle.pc = "idle"
          BY DEF Idle
        <5>2. CASE ReadOverdue
          BY <2>0, <5>1, <5>2 DEF ReadOverdue, Abort, IsTick
        <5>3. CASE WriteExpired
          BY <2>0, <5>3 DEF WriteExpired, IsTick
        <5>4. CASE Notify
          BY <2>0, <5>1, <5>4 DEF Notify, Abort, IsTick
        <5> QED
          BY <3>3, <5>2, <5>3, <5>4
      <4> QED
        BY <4>1
    <3> QED
      BY <3>1, <3>2, <3>3 DEF Next, TickNext
  <2>2. tick.notices = {}
    BY <2>1 DEF Plan, At
  <2> QED
    BY <2>2 DEF TickStrong, NoticesSent
<1> QED
  BY <1>1, TickIsStrong, PTL DEF Spec, ExpiryReported

(* A closed ticket stays as it is, unless by a writer that had read it     *)
(* while it was open (transition() of src/org/tickets.ts).                 *)
THEOREM ClosedTicketsStay == Spec => ClosedUnlessRaced
<1> DEFINE Stays == \A k \in DOMAIN tickets :
                      /\ k \in DOMAIN tickets'
                      /\ tickets[k].state \in Terminal /\ tickets'[k] # tickets[k] =>
                           \E w \in Writers : w.key = k
<1>1. TickStrong /\ [Next]_vars => [Stays]_vars
  <2> SUFFICES ASSUME TickStrong, Next, NEW k \in DOMAIN tickets
               PROVE  /\ k \in DOMAIN tickets'
                      /\ tickets[k].state \in Terminal /\ tickets'[k] # tickets[k] =>
                           \E w \in Writers : w.key = k
    BY DEF vars, disk
  <2>0. Types /\ SeatsHandedOn /\ CopiesAreOpen /\ TicketsTyped
    BY DEF TickStrong, Types, FilesTyped
  <2>1. CASE UNCHANGED tickets
    BY <2>1
  <2>2. CASE WriteExpired
    <3>1. tick.copy # NoCopy /\ tick.copy.state = "open" /\ tick.copy.key \in DOMAIN tickets
      BY <2>0, <2>2 DEF WriteExpired, At, CopiesAreOpen
    <3>2. tickets' = [tickets EXCEPT ![tick.copy.key].state = "expired"]
      BY <2>2 DEF WriteExpired, SetState
    <3>3. tick.copy \in Writers
      BY <3>1 DEF Writers
    <3> QED
      BY <2>0, <3>1, <3>2, <3>3 DEF TicketsTyped
  <2>3. CASE WriteReply
    <3>1. reply # NoCopy /\ reply.state = "open" /\ reply.key \in DOMAIN tickets
      BY <2>0, <2>3 DEF WriteReply, CopiesAreOpen
    <3>2. tickets' = [tickets EXCEPT ![reply.key].state = "done"]
      BY <2>3 DEF WriteReply, SetState
    <3>3. reply \in Writers
      BY <3>1 DEF Writers
    <3> QED
      BY <2>0, <3>1, <3>2, <3>3 DEF TicketsTyped
  <2>4. CASE DeliverMessage
    <3>1. PICK a \in Seats : a = tick.sending
      BY <2>0, <2>4 DEF DeliverMessage, Sending, SeatsHandedOn, Types, TickTyped
    <3>2. PICK date \in Nat : date = tick.date
      BY <2>0 DEF Types, TickTyped
    <3>3. PICK m : m = Outbox[tick.pos]
      OBVIOUS
    <3>4. Deliver(a, m, date)
      BY <2>4, <3>1, <3>2, <3>3 DEF DeliverMessage
    <3>5. CASE DeliverNotify(m, date)
      BY <2>1, <3>5 DEF DeliverNotify
    <3>6. CASE DeliverRequest(a, m, date)
      BY <2>0, <3>4, <3>6, RequestTyped DEF Deliver
    <3>7. CASE DeliverReply(m)
      <4>1. PICK j \in TicketsOf(m.ticket) :
              j \in DOMAIN tickets /\ tickets[j].state = "open" /\ SetState(j, "done")
        BY <2>0, <3>4, <3>7, ReplyTyped DEF Deliver
      <4>2. DOMAIN tickets' = DOMAIN tickets
            /\ \A i \in DOMAIN tickets : i # j => tickets'[i] = tickets[i]
        BY <2>0, <4>1, SetStateTyped DEF Terminal
      <4> QED
        BY <4>1, <4>2 DEF Terminal
    <3> QED
      BY <3>4, <3>5, <3>6, <3>7 DEF Deliver
  <2> QED
    BY <2>1, <2>2, <2>3, <2>4
    DEF Next, TickNext, StartTick, ReadOverdue, Notify, Plan, StartWake, WakeReturns, WakeFails, Works,
        StampBatch, OpenOutbox, RejectMessage, DeliveryThrows, CloseOutbox, TruncateStamps,
        WriteStamps, EndTick, Crash, NextDay, ReadForReply, disk
<1> HIDE DEF Stays
<1>2. Spec => [][Stays]_vars
  BY <1>1, TickIsStrong, PTL DEF Spec
<1> QED
  BY <1>2 DEF ClosedUnlessRaced, Stays
=============================================================================
