------------------------------ MODULE MCOrgTick ------------------------------
EXTENDS OrgTick

\* One group of two entities under the root.
MCSeats == {".", "a", "a/x", "a/y"}
MCParent == ("a" :> ".") @@ ("a/x" :> "a") @@ ("a/y" :> "a")

MCRank == ("." :> 0) @@ ("a" :> 1) @@ ("a/x" :> 2) @@ ("a/y" :> 3)

MCNotify(to, subject) == [type |-> "NOTIFY", to |-> to, subject |-> subject]
MCRequest(to, subject) == [type |-> "REQUEST", to |-> to, subject |-> subject]
MCReply(id) == [type |-> "REPLY", to |-> "a", ticket |-> id]

MCTicket == [to |-> "a/x", id |-> <<0, "s">>]

\* Up-tree, lateral and colliding notifications, requests with one subject,
\* replies to a ticket, to none, and to one that may be closed.
MCOutboxes ==
    ("." :> {<<>>})
    @@ ("a" :> {<<>>, <<MCRequest("a/x", "q"), MCRequest("a/y", "q")>>})
    @@ ("a/x" :> {<<>>, <<MCNotify("a", "n"), MCReply(<<0, "s">>)>>})
    @@ ("a/y" :> {<<>>, <<MCNotify("a/x", "n")>>})

MCReviews == {[a \in MCSeats |-> IF a = "a/y" THEN 1 ELSE NoDate]}
\* Nothing, or one ticket that falls due on day 2.
MCTickets ==
    {[k \in K |-> [from |-> "a", state |-> "open", deadline |-> 1]] : K \in {{}, {MCTicket}}}
=============================================================================
