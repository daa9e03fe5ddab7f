------------------------------- MODULE OrgLint -------------------------------
(* org-lint (src/org/lint.ts) as a tick runs it over its own changes        *)
(* (postTick() of src/org/scheduler.ts): what it reads, and whom it accuses. *)
(*                                                                         *)
(* Files are kept as far as lint tells them apart: the inbox items, by      *)
(* seat and name, and the memory of a seat as one.                          *)
EXTENDS Naturals, FiniteSets

CONSTANT Seats   \* the agents of loadInventory()

VARIABLES
    inbox,   \* the inbox items on disk, [to, name, ...]
    head,    \* the inbox items of the last commit
    edited,  \* the seats whose memory differs from the last commit
    broken,  \* the seats with a file validateAgents() refuses
    logged,  \* logged[a]: the last cycle a's LOG.md mentions, or 0
    told     \* told[a]: the last cycle with a ledger row delivered to a, or 0

tree == <<inbox, head, edited, broken, logged, told>>

Path(f) == [owner |-> f.to, name |-> f.name]
Memory(a) == [owner |-> a, name |-> <<"memory">>]
Owners(paths) == {p.owner : p \in paths}

(* A write of these items, over those that have their names.               *)
Over(items, new) == {f \in items : \A g \in new : Path(f) # Path(g)} \cup new

(* `git status --short -uall`: a file that was written and deleted since    *)
(* the commit is not listed.                                               *)
GitStatus == {Memory(a) : a \in edited}
                \cup {Path(f) : f \in (inbox \ head) \cup (head \ inbox)}

(* validateLiveness(): who ran, or got anything in this cycle, must have    *)
(* logged it.                                                              *)
Silent(cycle, invoked) ==
    {a \in Seats : logged[a] # cycle /\ (a \in invoked \/ told[a] = cycle)}

(* validateSingleWriter().                                                 *)
Trespassed(diff, invoked) == Owners(diff) \ invoked

(* validateAgents(), whose rules on the text of a file are not looked into. *)
Invalid == broken

(* The seats of the ERROR findings of lintTree().  A tick without a         *)
(* successful wake passes neither cycle nor diff.                           *)
Accused(cycle, diff, invoked) ==
    Invalid \cup IF invoked = {} THEN {}
                ELSE Silent(cycle, invoked) \cup Trespassed(diff, invoked)
=============================================================================
