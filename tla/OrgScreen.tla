----------------------------- MODULE OrgScreen -----------------------------
(* The Org tab (src/tui/OrgView.tsx, src/tui/orgFiles.ts, src/tui/org.ts): *)
(* a screen reads an organisation's files, which its agents and its user   *)
(* write, and stamps the briefs that it shows in a file which every screen *)
(* rewrites as a whole.  A reading is not atomic: the fingerprint is taken *)
(* first, then the inventory is read, and of every file the text before    *)
(* the time.  Of another screen on the same files only the stamping is     *)
(* followed.                                                               *)
(*                                                                         *)
(* The text of a brief is the time at which it was written, in             *)
(* milliseconds.  A write comes at least two of them after what was there  *)
(* before it.  Of a seat's other files the snapshot's facts are kept; not  *)
(* all of what they depend on is in the fingerprint.                       *)
EXTENDS SequencesExt

CONSTANTS
    Seats,       \* the agents there may be, sorted: the root is the first
    Parent,      \* Parent[a], of an agent that is not the root
    Facts,       \* what the other files of an agent may amount to
    FactsAtFirst,
    Busy,        \* bound: whose files change, and whose briefs the other screen stamps
    MaxWrites,   \* bound: writes of the agents and of the user
    MaxStamps, MaxOthers,   \* bound: the stampings, and those of the other screen
    MaxOrgKeys   \* bound: the keys pressed

Root     == Head(Seats)
AllSeats == Range(Seats)

(* Parents come before their children, as their paths do; the directory of *)
(* an agent is one below that of its parent.                               *)
ASSUME OrgScreenBounds ==
    /\ Seats \in Seq(AllSeats) /\ Seats # << >> /\ IsInjective(Seats)
    /\ \A n \in {MaxWrites, MaxStamps, MaxOthers, MaxOrgKeys} : n \in Nat
    /\ FactsAtFirst \in Facts /\ Busy \subseteq AllSeats
    /\ Parent \in [AllSeats \ {Root} -> AllSeats]
    /\ \A i \in DOMAIN Seats : i > 1 => \E j \in 1..(i - 1) : Seats[j] = Parent[Seats[i]]
    /\ \A f \in Facts : f.severity \in 0..3 /\ {f.inbox, f.tickets, f.overdue} \subseteq Nat

VARIABLES
    coverage,  \* coverage.toml: [seats, readable, at]
    files,     \* files[a]: [brief, facts, at, past], the time of the brief, what the others
               \* amount to, and when that last changed: at in the fingerprint, past outside
    visits,    \* briefs-read.json: [of, at], of[a] = 0 without a stamp
    clock,
    load,      \* the OrgSnapshotLoad: a sequence, empty before the first
    step,      \* where a reading or stamping stands
    other,     \* and that of the other screen
    ui,        \* the state of the OrgView
    seen,      \* seen[a]: the last brief of a that a screen has shown
    budget     \* [writes, stamps, others, keys] that are left

orgVars == <<coverage, files, visits, clock, load, step, other, ui, seen, budget>>

Idle == [at |-> "idle"]
Mounted(tab) == [tab |-> tab, view |-> "tree", brief |-> Root, sel |-> Root,
                 expanded |-> AllSeats, marked |-> <<Root, 0>>]

OrgInit ==
    /\ clock = 2
    /\ coverage = [seats |-> AllSeats, readable |-> TRUE, at |-> clock]
    /\ files = [a \in AllSeats |-> [brief |-> clock, facts |-> FactsAtFirst,
                                   at |-> clock, past |-> clock]]
    /\ visits = [of |-> [a \in AllSeats |-> 0], at |-> 0]
    /\ load = << >> /\ step = Idle /\ other = Idle
    /\ ui = Mounted("other")
    /\ seen = [a \in AllSeats |-> 0]
    /\ budget = [writes |-> MaxWrites, stamps |-> MaxStamps, others |-> MaxOthers, keys |-> MaxOrgKeys]

Spend(what) == budget[what] > 0 /\ budget' = [budget EXCEPT ![what] = @ - 1]
-----------------------------------------------------------------------------
(* loadInventory(): the agents of coverage.toml, or, when it cannot be     *)
(* parsed, the directories that hold the files of an agent.                *)
Scaffolded(a) == files[a].brief # 0

Inventory ==
    LET group(a) == Parent[a] = Root
    IN  IF coverage.readable THEN coverage.seats
        ELSE {a \in AllSeats : a = Root \/ (Scaffolded(a) /\ (group(a) \/ Scaffolded(Parent[a])))}

(* briefIsUnread().                                                        *)
Unread(brief, visited) == brief # 0 /\ (visited = 0 \/ brief > visited + 1)

(* Mutant: only the briefs are in the fingerprint.                         *)
FingerprintOfBriefs == [a \in Inventory |-> files[a].brief]

(* orgSourceFingerprint(): of a seat, the files of its role, and 200 each  *)
(* of its inbox and its tickets.                                           *)
Fingerprint ==
    [coverage |-> coverage.at, visits |-> visits.at,
     files |-> [a \in Inventory |-> <<files[a].brief, files[a].at>>]]

(* Agents in the order of their paths.                                     *)
Position(a) == CHOOSE i \in DOMAIN Seats : Seats[i] = a

Sorted(S) ==
    [k \in 1..Cardinality(S) |->
       CHOOSE a \in S : Cardinality({b \in S : Position(b) < Position(a)}) = k - 1]

(* A snapshot of the texts and times that were read.                       *)
Holds     == load # << >>
Snapshot  == Head(load)
Children(l, a) == Sorted({c \in l.seats \ {Root} : Parent[c] = a})
UnreadIn(l)  == {a \in l.seats : Unread(l.times[a], l.visits[a])}

(* unreadBriefs: the latest first.                                         *)
UnreadBriefs(l) ==
    LET unread    == UnreadIn(l)
        before(a) == {b \in unread : \/ l.times[b] > l.times[a]
                                     \/ l.times[b] = l.times[a] /\ Position(b) < Position(a)}
    IN  [k \in 1..Cardinality(unread) |-> CHOOSE a \in unread : Cardinality(before(a)) = k - 1]
-----------------------------------------------------------------------------
(* buildOrgTreeRows(): the tree from the root, then every agent that was   *)
(* not reached, those under a folded one included.                         *)
RowsFrom(l, open, top) ==
    LET rows[a \in AllSeats] ==
          LET below == IF a \in open THEN Children(l, a) ELSE << >>
          IN  <<a>> \o FlattenSeq([i \in DOMAIN below |-> rows[below[i]]])
    IN  rows[top]

(* Mutant: agents that were reached are visited again.                     *)
TreeRowsTwice(l, open) ==
    LET agents == Sorted(l.seats)
    IN  FlattenSeq([i \in DOMAIN agents |-> RowsFrom(l, open, agents[i])])

TreeRows(l, open) ==
    LET agents == Sorted(l.seats)
        upTo[k \in 0..Len(agents)] ==
          IF k = 0 THEN << >>
          ELSE IF Contains(upTo[k - 1], agents[k]) THEN upTo[k - 1]
          ELSE upTo[k - 1] \o RowsFrom(l, open, agents[k])
    IN  upTo[Len(agents)]

(* defaultOrgSelectedPath(): what was selected, or the first agent with    *)
(* something material, or else with something that waits.                  *)
DefaultSelected(l, open, sel) ==
    LET rows == TreeRows(l, open)
        firstOf(set) == rows[CHOOSE i \in DOMAIN rows :
                               rows[i] \in set /\ \A j \in 1..(i - 1) : rows[j] \notin set]
        material  == {a \in l.seats : l.facts[a].severity >= 2}
        attention == {a \in l.seats : l.facts[a].inbox + l.facts[a].tickets + l.facts[a].overdue > 0}
    IN  IF sel \in l.seats THEN sel
        ELSE IF material # {} THEN firstOf(material)
        ELSE IF attention # {} THEN firstOf(attention) ELSE Root

(* The state of the view after a new snapshot.                             *)
Shown(u, l) ==
    [u EXCEPT !.expanded = IF @ = AllSeats THEN @ ELSE @ \cap l.seats,
              !.sel = DefaultSelected(l, u.expanded, u.sel),
              !.brief = IF @ \in l.seats THEN @ ELSE Root]
-----------------------------------------------------------------------------
(* The files.                                                              *)
WriteBrief ==
    /\ Spend("writes") /\ clock' = clock + 2
    /\ \E a \in Busy : files' = [files EXCEPT ![a].brief = clock']
    /\ UNCHANGED <<coverage, visits, load, step, other, ui>>

WriteOthers ==
    /\ Spend("writes") /\ clock' = clock + 2
    /\ \E a \in Busy, facts \in Facts : facts # files[a].facts /\
         files' = [files EXCEPT ![a].facts = facts, ![a].at = clock']
    /\ UNCHANGED <<coverage, visits, load, step, other, ui>>

(* The facts are read from every *.md of the seat, from all its tickets,   *)
(* and depend on the day, which may end: a file outside the list of the    *)
(* role, or past the 200th, changes nothing else.                          *)
WriteUnwatched ==
    /\ Spend("writes") /\ clock' = clock + 2
    /\ \E a \in Busy, facts \in Facts :
         /\ facts # files[a].facts
         /\ facts.severity = files[a].facts.severity /\ facts.inbox = files[a].facts.inbox
         /\ files' = [files EXCEPT ![a].facts = facts, ![a].past = clock']
    /\ UNCHANGED <<coverage, visits, load, step, other, ui>>

WriteCoverage ==
    /\ Spend("writes") /\ clock' = clock + 2
    /\ \/ coverage' = [coverage EXCEPT !.readable = ~@, !.at = clock']
       \/ \E a \in AllSeats \ {Root} :
            LET under == {c \in AllSeats \ {Root} : c = a \/ Parent[c] = a}
            IN  coverage' = [coverage EXCEPT !.at = clock',
                               !.seats = IF a \in @ THEN @ \ under ELSE @ \cup under]
    /\ UNCHANGED <<files, visits, load, step, other, ui>>
-----------------------------------------------------------------------------
(* The screen reads.                                                       *)
OnOrg == ui.tab = "org"

(* The key of the mark of what the briefs view shows.                      *)
MarkKey == <<ui.brief, Snapshot.times[ui.brief]>>

(* An effect runs before the next key or tick.                             *)
MarkDue == OnOrg /\ ui.view = "briefs" /\ Holds /\ ui.marked # MarkKey

Ready == step.at = "idle" /\ ~MarkDue

Reading == step' = [at |-> "seats", fp |-> Fingerprint']

(* refreshOrgSnapshot(), every two seconds.                                *)
Refresh ==
    /\ Ready /\ OnOrg
    /\ Holds => Snapshot.fp # Fingerprint
    /\ UNCHANGED <<coverage, files, visits, clock, load, other, ui, budget>>
    /\ Reading

(* loadOrgSnapshotReads() loads the inventory again.                       *)
ReadSeats ==
    /\ step.at = "seats"
    /\ step' = [at |-> "texts", fp |-> step.fp, seats |-> Inventory]
    /\ UNCHANGED <<coverage, files, visits, clock, load, other, ui, budget>>

ReadTexts ==
    /\ step.at = "texts"
    /\ step' = [at |-> "times", fp |-> step.fp, seats |-> step.seats, read |-> clock,
                briefs |-> [a \in step.seats |-> files[a].brief],
                facts  |-> [a \in step.seats |-> files[a].facts]]
    /\ UNCHANGED <<coverage, files, visits, clock, load, other, ui, budget>>

(* readBriefReadState(): nothing, when the file is read while the other    *)
(* screen writes it.                                                       *)
VisitsRead(writer) ==
    {visits.of} \cup (IF writer.at = "stamping" THEN {[a \in AllSeats |-> 0]} ELSE {})

TakeTimes(fp) ==
    /\ step.at = "times" /\ step' = Idle
    /\ \E of \in VisitsRead(other) :
         LET l == [fp |-> fp, seats |-> step.seats, read |-> step.read, briefs |-> step.briefs,
                   facts |-> step.facts, visits |-> of,
                   times |-> [a \in step.seats |-> files[a].brief]]
         IN  load' = <<l>> /\ ui' = Shown(ui, l)
    /\ UNCHANGED <<coverage, files, visits, clock, other, budget>>

(* Mutant: the fingerprint is that of the end of the reading.              *)
ReadTimesLate == TakeTimes(Fingerprint)

ReadTimes == TakeTimes(step.fp)

(* markOrgBriefRead(): all stamps are read, and written with a new one.    *)
Stamping(of, a) == [at |-> "stamping", of |-> [of EXCEPT ![a] = clock], brief |-> a]

MarkReads ==
    /\ step.at = "idle" /\ MarkDue /\ Spend("stamps")
    /\ ui' = [ui EXCEPT !.marked = MarkKey]
    /\ \E of \in VisitsRead(other) : step' = Stamping(of, ui.brief)
    /\ UNCHANGED <<coverage, files, visits, clock, load, other>>

(* A state file that cannot be written is passed over.                     *)
MarkFails ==
    /\ step.at = "idle" /\ MarkDue
    /\ ui' = [ui EXCEPT !.marked = MarkKey]
    /\ UNCHANGED <<coverage, files, visits, clock, load, step, other, budget>>

Stamp(of) == visits' = [of |-> of, at |-> visits.at + 1]

(* Mutant: what changed is left to the next tick.                          *)
MarkWritesOnly ==
    /\ step.at = "stamping" /\ Stamp(step.of) /\ step' = Idle
    /\ UNCHANGED <<coverage, files, clock, load, other, ui, budget>>

(* The write, and onChanged(): everything is read again.                   *)
MarkWrites ==
    /\ step.at = "stamping" /\ Stamp(step.of)
    /\ UNCHANGED <<coverage, files, clock, load, other, ui, budget>>
    /\ Reading

(* The other screen; what it reads again it shows.                         *)
OtherReads ==
    /\ other.at = "idle" /\ Spend("others")
    /\ \E a \in Busy \cap Inventory, of \in VisitsRead(step) : other' = Stamping(of, a)
    /\ UNCHANGED <<coverage, files, visits, clock, load, step, ui>>

OtherWrites ==
    /\ other.at = "stamping" /\ Stamp(other.of) /\ other' = Idle
    /\ UNCHANGED <<coverage, files, clock, load, step, ui, budget>>
-----------------------------------------------------------------------------
(* useInput(), and the keys of the tabs, which unmount the view.           *)
OrgKey ==
    Ready /\ Spend("keys") /\ UNCHANGED <<coverage, files, visits, clock, load, step, other>>

NextView == [tree |-> "ops", ops |-> "briefs", briefs |-> "tree"]

ViewKey ==
    /\ OrgKey /\ OnOrg /\ Holds
    /\ ui' = [ui EXCEPT !.view = NextView[@]]

LeaveKey ==
    /\ OrgKey
    /\ ui' = Mounted(IF OnOrg THEN "other" ELSE "org")

(* indexOf(), with the first place for what is not there.                  *)
PlaceIn(seq, a) ==
    IF Contains(seq, a) THEN Min({i \in DOMAIN seq : seq[i] = a}) ELSE 1

MoveInTree ==
    /\ OrgKey /\ OnOrg /\ Holds /\ ui.view = "tree"
    /\ LET rows == TreeRows(Snapshot, ui.expanded)
       IN  \E delta \in {-1, 1} :
             LET next == PlaceIn(rows, ui.sel) + delta
             IN  next \in DOMAIN rows /\ ui' = [ui EXCEPT !.sel = rows[next]]

ToggleKey ==
    /\ OrgKey /\ OnOrg /\ Holds /\ ui.view = "tree"
    /\ Children(Snapshot, ui.sel) # << >>
    /\ ui' = [ui EXCEPT !.expanded = SymDiff(@, {ui.sel})]

(* moveBrief(): around the queue of the root and the unread briefs; from a *)
(* brief that is no longer in it as from the root.                         *)
MoveInBriefs ==
    /\ OrgKey /\ OnOrg /\ Holds /\ ui.view = "briefs"
    /\ LET queue == <<Root>> \o UnreadBriefs(Snapshot)
       IN  \E delta \in {-1, 1} :
             ui' = [ui EXCEPT !.brief = queue[1 + ((PlaceIn(queue, ui.brief) - 1 + delta) % Len(queue))]]
-----------------------------------------------------------------------------
(* OrgBriefsView(): the brief on the screen.                               *)
OnDisplay(a) == OnOrg /\ ui.view = "briefs" /\ Holds /\ ui.brief = a

(* What is seen: what is on the screen, and what the other screen shows    *)
(* after a stamp.  The brief of an agent that is not covered is nobody's   *)
(* to read.                                                                *)
Sees ==
    seen' = [a \in AllSeats |->
               Max({seen[a]} \cup {b \in {files'[a].brief} :
                                     a \notin Inventory' \/ (other # other' /\ other' = Idle /\ other.brief = a)}
                             \cup {Snapshot'.briefs[b] : b \in {b \in {a} : OnDisplay(b)'}})]

ScreenReads == Refresh \/ ReadSeats \/ ReadTexts \/ ReadTimes \/ MarkReads \/ MarkFails \/ MarkWrites

OrgScreenNext ==
    /\ \/ WriteBrief \/ WriteOthers \/ WriteUnwatched \/ WriteCoverage \/ OtherReads \/ OtherWrites
       \/ ScreenReads
       \/ ViewKey \/ LeaveKey \/ MoveInTree \/ ToggleKey \/ MoveInBriefs
    /\ Sees
-----------------------------------------------------------------------------
OrgTypeOK ==
    /\ coverage.seats \subseteq AllSeats /\ Root \in coverage.seats
    /\ \A a \in AllSeats : files[a].brief <= clock /\ files[a].at <= clock /\ files[a].past <= clock
                         /\ visits.of[a] <= clock
    /\ step.at \in {"idle", "seats", "texts", "times", "stamping"} /\ other.at \in {"idle", "stamping"}
    /\ ui.tab \in {"org", "other"} /\ ui.view \in DOMAIN NextView

(* The tree has every agent of the snapshot in exactly one row, whatever   *)
(* is folded, and what is selected or shown is one of them.                *)
TreeSound ==
    Holds /\ OnOrg =>
      LET rows == TreeRows(Snapshot, ui.expanded)
      IN  /\ Range(rows) = Snapshot.seats /\ IsInjective(rows)
          /\ ui.sel \in Range(rows) /\ ui.brief \in Range(rows)

(* A brief that counts as read has been on a screen as it is now: never is *)
(* one taken for read that was written while its predecessor was shown,    *)
(* up to the reading that follows a stamp.                                 *)
NothingReadUnseen ==
    \A a \in AllSeats :
      \/ Unread(files[a].brief, visits.of[a])
      \/ seen[a] = files[a].brief
      \/ step.at \in {"seats", "texts", "times"} /\ OnDisplay(a)

(* A screen that stays on the tab comes to show the files as they are, and *)
(* has tried to stamp the brief that it shows.  A change outside the       *)
(* fingerprint it shows only if it read the files after it: until one of   *)
(* those in the fingerprint changes, it is not looked for.                 *)
UpToDate ==
    /\ Holds /\ ~MarkDue
    /\ Snapshot.seats = Inventory /\ Snapshot.visits = visits.of
    /\ \A a \in Snapshot.seats :
         /\ Snapshot.briefs[a] = files[a].brief
         /\ Snapshot.facts[a] = files[a].facts \/ files[a].past > Snapshot.read

OrgScreenSettles == OnOrg ~> (~OnOrg \/ UpToDate)
=============================================================================
