------------------------------ MODULE OrgRouter ------------------------------
(* The files by which the seats of an org talk to each other                *)
(* (src/org/router.ts, src/org/tickets.ts): inbox items and tickets.        *)
(*                                                                         *)
(* A seat is an agent directory; seats form a tree of three levels, root,  *)
(* groups and entities.  An inbox item is a file [to, name, received]; its *)
(* name is all that tells it from another one of the same inbox.  A ticket *)
(* is a file tickets[[to, id]].  Bodies, subjects beyond the slug of a     *)
(* generated name, and the append-only ledger are not kept.                *)
EXTENDS Naturals, Sequences, FiniteSets, TLC

CONSTANTS
    Seats,       \* the agents of scanOrg()
    Root,        \* the root agent, "."
    Parent,      \* Parent[a]: the agent above a, for a # Root
    Infra,       \* INFRASTRUCTURE_SENDERS
    DeadlineDays \* DEFAULT_DEADLINE_DAYS

ASSUME SeatsFormATree ==
    /\ Root \in Seats /\ IsFiniteSet(Seats)
    /\ Parent \in [Seats \ {Root} -> Seats]
    /\ \A a \in Seats \ {Root} : Parent[a] = Root \/ Parent[Parent[a]] = Root
    /\ Infra \cap Seats = {}
    /\ DeadlineDays \in Nat

VARIABLES
    inbox,    \* the inbox files of all agents
    tickets   \* the ticket files of all agents

Children(a) == {c \in Seats \ {Root} : Parent[c] = a}

Depth(a) == IF a = Root THEN 0 ELSE IF Parent[a] = Root THEN 1 ELSE 2

IsProperPrefix(p, a) == a \in Seats \ {Root} /\ p # a /\ p \in {Root, Parent[a]}

Terminal == {"done", "declined", "expired"}
Ticket == [from : Seats \cup Infra, state : Terminal \cup {"open"}, deadline : Nat]

(* findUniqueTicket(): the tickets of that id, whoever they are for.       *)
TicketsOf(id) == {k \in DOMAIN tickets : k.id = id}

FileExists(to, name) == \E f \in inbox : f.to = to /\ f.name = name

Item(to, name, date) == [to |-> to, name |-> name, received |-> date]

(* generatedDeliveryId() and generatedTicketId(): the date and the slug of *)
(* the subject, without the sender.                                        *)
NotifyName(m, date) == <<"notify", date, m.subject>>
TicketKey(m, date)  == [to |-> m.to, id |-> <<date, m.subject>>]
-----------------------------------------------------------------------------
(* authorize() and authorizeReply(): what the routing rules refuse.  A     *)
(* reply is read against its ticket first, so one that names no ticket, or *)
(* a closed one, or another agent's, is refused here too.                  *)
Violates(from, m) ==
    \/ m.type = "NOTIFY" /\ from \notin Infra /\ IsProperPrefix(m.to, from)
    \/ m.type = "REQUEST" /\ from \notin Infra /\ ~IsProperPrefix(from, m.to)
    \/ m.type = "REPLY" /\ m.ticket = <<>>
    \/ /\ m.type = "REPLY"
       /\ \E k \in TicketsOf(m.ticket) :
            /\ TicketsOf(m.ticket) = {k}
            /\ tickets[k].state # "open" \/ k.to # from

(* What deliver() throws besides: the file is there already (flag "wx"), or *)
(* the ticket of a reply is not found or ambiguous.                        *)
Throws(m, date) ==
    \/ m.type = "NOTIFY" /\ FileExists(m.to, NotifyName(m, date))
    \/ m.type = "REQUEST" /\ TicketKey(m, date) \in DOMAIN tickets
    \/ m.type = "REPLY" /\ m.ticket # <<>> /\ Cardinality(TicketsOf(m.ticket)) # 1

DeliverNotify(m, date) ==
    /\ m.type = "NOTIFY"
    /\ inbox' = inbox \cup {Item(m.to, NotifyName(m, date), date)}
    /\ UNCHANGED tickets

DeliverRequest(from, m, date) ==
    /\ m.type = "REQUEST"
    /\ LET k == TicketKey(m, date)
           new == [from |-> from, state |-> "open", deadline |-> date + DeadlineDays]
       IN  tickets' = [j \in DOMAIN tickets \cup {k} |-> IF j = k THEN new ELSE tickets[j]]
    /\ UNCHANGED inbox

SetState(k, state) == tickets' = [tickets EXCEPT ![k].state = state]

DeliverReply(m) ==
    /\ m.type = "REPLY"
    /\ \E k \in TicketsOf(m.ticket) : SetState(k, "done")
    /\ UNCHANGED inbox

(* deliver(), for a message it accepts.                                    *)
Deliver(from, m, date) ==
    /\ ~Violates(from, m)
    /\ ~Throws(m, date)
    /\ DeliverNotify(m, date) \/ DeliverRequest(from, m, date) \/ DeliverReply(m)
=============================================================================
