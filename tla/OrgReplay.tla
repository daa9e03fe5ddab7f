------------------------------ MODULE OrgReplay ------------------------------
(* `ultracodex org replay` (src/org/replay.ts) over ticks of the scheduler   *)
(* with their lint, repair and commit (postTick() of src/org/scheduler.ts),  *)
(* and `org audit` (src/org/audit.ts), which may write at any time.          *)
(*                                                                         *)
(* A replay takes the rows of the ingest ledger that no replay has marked,  *)
(* bends them by its faults, and day by day writes their items, marks them  *)
(* in the ledger and runs a tick.  `org tick` runs the same tick by itself. *)
(* Within a tick, whom the triggers wake beside the seats with mail, and    *)
(* what a wake does, are free; OrgTick has the detail.                      *)
EXTENDS OrgLint, Sequences, FiniteSetsExt

CONSTANTS
    Ledger,     \* the original rows of the ledger, in order: [id, to, date, name]
    Commands,   \* the replays that may be asked for: [faults, window, pristine],
                \* faults [drop, late, dup, days], window [from, to] or Whole
    Whole,
    TickModes,  \* the --commit and --repair of `org tick`: [commit, repair]
    Others,     \* the sets of seats that other triggers may wake
    Outcomes,   \* what a wake may come to
    Reports,    \* what an audit may find: [grade, seats], seats in order
    NoRow, NoSeat,
    MaxReplays, MaxTicks, MaxAudits, MaxCrashes

ASSUME ReplayBounds ==
    /\ \A n \in {MaxReplays, MaxTicks, MaxAudits, MaxCrashes} : n \in Nat
    /\ \A i \in DOMAIN Ledger : Ledger[i].to \in Seats /\ Ledger[i].date \in Nat
    /\ Outcomes \subseteq {"works", "sloppy", "fails", "half"}

(* No item that an ingest row names has the name of an audit's finding.    *)
ASSUME ReplayInputs ==
    /\ DOMAIN Ledger \subseteq Nat \ {0}
    /\ \A i \in DOMAIN Ledger :
         Ledger[i].id \in Nat /\ Ledger[i].name[1] # "audit" /\ Ledger[i] # NoRow
    /\ \A c \in Commands : c.faults.days \in Nat
    /\ Others \subseteq SUBSET Seats

VARIABLES
    cycles,   \* the greatest cycle of last-wake.json
    marks,    \* the replayed rows of the ledger
    job,      \* the replay or tick that runs
    audit,    \* the audit that runs
    graded,   \* the rows of audit-history.jsonl
    seen,     \* [key, n, dup]: the deliveries of replay n that a tick found
    exposed,  \* the keys that lay in an inbox, unmarked, when their replay died
    died,     \* the replays that did not end well
    spent

vars == <<tree, cycles, marks, job, audit, graded, seen, exposed, died, spent>>
-----------------------------------------------------------------------------
Plain == [commit |-> FALSE, repair |-> FALSE]

Idle == [pc |-> "idle", n |-> 0, plan |-> {}, days |-> {}, cycle |-> 0,
         invoked |-> {}, ok |-> {}, runtime |-> {}, posts |-> {}, diff |-> {}, round |-> 0,
         mode |-> Plain, blame |-> {}, late |-> {}]

NoAudit == [pc |-> "idle", report |-> << >>, i |-> 1]

(* memoryContent(): a LOG.md with an entry of cycle 0.                     *)
StubLogs == [a \in Seats |-> 0]

Init ==
    /\ inbox = {} /\ head = {} /\ edited = {} /\ broken = {}
    /\ logged = StubLogs
    /\ told = [a \in Seats |-> 0]
    /\ cycles = 0
    /\ marks = {}
    /\ job = Idle
    /\ audit = NoAudit
    /\ graded = {} /\ seen = {} /\ exposed = {} /\ died = {}
    /\ spent = [replays |-> 0, ticks |-> 0, audits |-> 0, crashes |-> 0]

At(label) == job.pc = label
Spend(what, bound) ==
    /\ spent[what] < bound
    /\ spent' = [spent EXCEPT ![what] = @ + 1]

(* The replay or tick ends with an error.                                  *)
Fail ==
    /\ job' = Idle
    /\ died' = died \cup ({job.n} \ {0})
-----------------------------------------------------------------------------
(* corpusKey().                                                            *)
Key(r) == <<r.id, r.to, r.date>>

(* replayMarkerKey(), of the rows that say "replay": true.                 *)
Replayed == {m.key : m \in marks}

(* deriveReplayCorpus(): the first row of every key that is not marked.    *)
Corpus ==
    {Ledger[i] : i \in {i \in DOMAIN Ledger :
       /\ Key(Ledger[i]) \notin Replayed
       /\ \A j \in 1..(i - 1) : Key(Ledger[j]) # Key(Ledger[i])}}

(* applyReplayFaults().                                                    *)
Deliveries(rows, f) ==
    LET kept == {r \in rows : r.id \notin f.drop}
        Day(r) == r.date + (IF r.id \in f.late THEN f.days ELSE 0)
    IN  {[row |-> r, date |-> Day(r), dup |-> FALSE] : r \in kept}
          \cup {[row |-> r, date |-> Day(r) + 1, dup |-> TRUE] : r \in {r \in kept : r.id \in f.dup}}

(* windowReplayDays().                                                     *)
DaysOf(ds, w) ==
    IF w # Whole THEN w.from .. w.to
    ELSE IF ds = {} THEN {}
    ELSE LET dates == {d.date : d \in ds} IN Min(dates) .. Max(dates)

(* runOrgReplay(), up to its first write.                                  *)
StartReplay ==
    /\ At("idle")
    /\ Spend("replays", MaxReplays)
    /\ \E c \in Commands :
         LET ds == Deliveries(Corpus, c.faults)
             days == DaysOf(ds, c.window)
         IN  /\ days # {} \/ c.pristine
             /\ job' = [Idle EXCEPT !.pc = IF c.pristine THEN "scaffold" ELSE "reset",
                          !.n = spent.replays + 1, !.days = days,
                          !.plan = {d \in ds : d.date \in days}]
    /\ UNCHANGED <<tree, cycles, marks, audit, graded, seen, exposed, died>>

(* scaffold() with resetMemory: every memory file is written over.         *)
Scaffold ==
    /\ At("scaffold")
    /\ edited' = Seats
    /\ broken' = {}
    /\ logged' = StubLogs
    /\ job' = [job EXCEPT !.pc = "reset"]
    /\ UNCHANGED <<inbox, head, told, cycles, marks, audit, graded, seen, exposed, died, spent>>

(* resetAgentInboxes(): whatever lies there, replayed or not.              *)
ResetInboxes ==
    /\ At("reset")
    /\ inbox' = {}
    /\ job' = [job EXCEPT !.pc = "day"]
    /\ UNCHANGED <<head, edited, broken, logged, told, cycles, marks, audit, graded,
                   seen, exposed, died, spent>>

Today == {d \in job.plan : d.date = Min(job.days)}

(* Of two deliveries of a day to one file, compareDeliveries() puts the    *)
(* one that stays last.                                                    *)
Outlasts(e, d) ==
    /\ e.row.to = d.row.to /\ e.row.name = d.row.name
    /\ e.row.id > d.row.id \/ (e.row.id = d.row.id /\ e.dup /\ ~d.dup)
Landing(ds) == {d \in ds : ~\E e \in ds : Outlasts(e, d)}

ReplayItem(d) == [to |-> d.row.to, name |-> d.row.name, row |-> d.row, n |-> job.n, dup |-> d.dup]

(* Mutant: an item of the same name is left as it is.                      *)
WriteDayFirstWins ==
    /\ At("day") /\ job.days # {}
    /\ LET new == {ReplayItem(d) : d \in Landing(Today)}
       IN  inbox' = {g \in new : \A f \in inbox : Path(f) # Path(g)} \cup inbox
    /\ job' = [job EXCEPT !.pc = "mark", !.cycle = cycles + 1]
    /\ UNCHANGED <<head, edited, broken, logged, told, cycles, marks, audit, graded,
                   seen, exposed, died, spent>>

(* nextTickCycle() and writeReplayDayInboxItems().                         *)
WriteDay ==
    /\ At("day") /\ job.days # {}
    /\ inbox' = Over(inbox, {ReplayItem(d) : d \in Landing(Today)})
    /\ job' = [job EXCEPT !.pc = "mark", !.cycle = cycles + 1]
    /\ UNCHANGED <<head, edited, broken, logged, told, cycles, marks, audit, graded,
                   seen, exposed, died, spent>>

(* Mutant: the mark carries the day the item was delivered.                *)
MarkAsDelivered(d) ==
    [key |-> <<d.row.id, d.row.to, d.date>>, of |-> Key(d.row), n |-> job.n, date |-> d.date,
     dup |-> d.dup, lands |-> d \in Landing(Today)]

(* The ledger row of a delivery, with the key replayMarkerKey() reads from *)
(* it: originalDate, where the date was shifted.  What follows the key is  *)
(* for the properties.                                                     *)
Mark(d) ==
    [key |-> Key(d.row), of |-> Key(d.row), n |-> job.n, date |-> d.date,
     dup |-> d.dup, lands |-> d \in Landing(Today)]

(* appendReplayLedgerRows(): one append.                                   *)
MarkDay ==
    /\ At("mark")
    /\ marks' = marks \cup {Mark(d) : d \in Today}
    /\ told' = [a \in Seats |-> IF \E d \in Today : d.row.to = a THEN job.cycle ELSE told[a]]
    /\ job' = [job EXCEPT !.pc = "wake", !.days = @ \ {Min(@)}, !.plan = @ \ Today,
                 !.blame = Owners(GitStatus)]
    /\ UNCHANGED <<inbox, head, edited, broken, logged, cycles, audit, graded,
                   seen, exposed, died, spent>>

EndReplay ==
    /\ At("day") /\ job.days = {}
    /\ job' = Idle
    /\ UNCHANGED <<tree, cycles, marks, audit, graded, seen, exposed, died, spent>>
-----------------------------------------------------------------------------
StartTick ==
    /\ At("idle")
    /\ Spend("ticks", MaxTicks)
    /\ \E mode \in TickModes :
         job' = [Idle EXCEPT !.pc = "wake", !.mode = mode, !.cycle = cycles + 1,
                             !.blame = Owners(GitStatus)]
    /\ UNCHANGED <<tree, cycles, marks, audit, graded, seen, exposed, died>>

HasMail(a) == \E f \in inbox : f.to = a

(* A round: the seats with mail and any others that are due, and have not  *)
(* been invoked, are woken and have their way with their files.  One that  *)
(* works deletes its items and logs the cycle; a sloppy one forgets the    *)
(* log and leaves a file that is not valid; one that fails has done        *)
(* nothing or, by half, its work.                                          *)
Wake ==
    /\ At("wake")
    /\ \E others \in Others :
         LET due == ({a \in Seats : HasMail(a)} \cup others) \ job.invoked
         IN  /\ due # {}
             /\ \E did \in [due -> Outcomes] :
                  LET of(kinds) == {a \in due : did[a] \in kinds}
                      active == of({"works", "sloppy", "half"})
                  IN  /\ inbox' = {f \in inbox : f.to \notin active}
                      /\ edited' = edited \cup active
                      /\ broken' = (broken \ of({"works", "half"})) \cup of({"sloppy"})
                      /\ logged' = [a \in Seats |-> IF a \in of({"works", "half"}) THEN job.cycle ELSE logged[a]]
                      /\ job' = [job EXCEPT !.pc = "deliver", !.invoked = @ \cup due,
                                   !.ok = @ \cup of({"works", "sloppy"}),
                                   !.posts = of({"works"}), !.blame = @ \cup of({"half"})]
    /\ seen' = seen \cup {[key |-> Key(f.row), n |-> f.n, dup |-> f.dup] : f \in {f \in inbox : f.row # NoRow}}
    /\ UNCHANGED <<head, told, cycles, marks, audit, graded, exposed, died, spent>>

Notice(a, b) == [to |-> b, name |-> <<"notify", a>>, row |-> NoRow, n |-> 0, dup |-> FALSE]

(* Mutant: the paths of the deliveries are not kept for the lint.          *)
DeliverUnrecorded ==
    /\ At("deliver")
    /\ \E to \in [job.posts -> Seats \cup {NoSeat}] :
         LET new == {Notice(a, to[a]) : a \in {a \in job.posts : to[a] # NoSeat}}
         IN  /\ \A f \in new : f.name # <<"notify", f.to>> /\ \A g \in inbox : Path(g) # Path(f)
             /\ inbox' = inbox \cup new
             /\ told' = [b \in Seats |-> IF \E f \in new : f.to = b THEN job.cycle ELSE told[b]]
    /\ cycles' = IF job.ok = {} THEN cycles ELSE job.cycle
    /\ job' = [job EXCEPT !.pc = "wake", !.posts = {}]
    /\ UNCHANGED <<head, edited, broken, logged, marks, audit, graded, seen, exposed, died, spent>>

(* The outboxes of the round, at most a NOTIFY each, and its stamps.       *)
DeliverAndStamp ==
    /\ At("deliver")
    /\ \E to \in [job.posts -> Seats \cup {NoSeat}] :
         LET new == {Notice(a, to[a]) : a \in {a \in job.posts : to[a] # NoSeat}}
         IN  /\ \A f \in new : f.name # <<"notify", f.to>> /\ \A g \in inbox : Path(g) # Path(f)
             /\ inbox' = inbox \cup new
             /\ told' = [b \in Seats |-> IF \E f \in new : f.to = b THEN job.cycle ELSE told[b]]
             /\ job' = [job EXCEPT !.pc = "wake", !.posts = {}, !.runtime = @ \cup {Path(f) : f \in new}]
    /\ cycles' = IF job.ok = {} THEN cycles ELSE job.cycle
    /\ UNCHANGED <<head, edited, broken, logged, marks, audit, graded, seen, exposed, died, spent>>

(* The tick returns: to the replay, or to `org tick`.                      *)
Return ==
    job' = IF job.n = 0 THEN Idle
           ELSE [Idle EXCEPT !.pc = "day", !.n = job.n, !.plan = job.plan, !.days = job.days]

(* Nothing is due any more: a tick without wakes ends here, another reads  *)
(* git status for its lint.                                                *)
StartPost ==
    /\ At("wake")
    /\ \A a \in Seats : HasMail(a) => a \in job.invoked
    /\ IF job.invoked = {} THEN Return
       ELSE job' = [job EXCEPT !.pc = "lint", !.late = {},
                      !.diff = IF job.ok = {} THEN {} ELSE GitStatus \ job.runtime]
    /\ UNCHANGED <<tree, cycles, marks, audit, graded, seen, exposed, died, spent>>

Findings == Accused(job.cycle, job.diff, job.ok)

LintPasses ==
    /\ At("lint") /\ Findings = {}
    /\ IF job.mode.commit THEN job' = [job EXCEPT !.pc = "commit"] ELSE Return
    /\ UNCHANGED <<tree, cycles, marks, audit, graded, seen, exposed, died, spent>>

(* Mutant: after the last repair nobody asks what it left.                 *)
LintFailsUnrepaired ==
    /\ At("lint") /\ Findings # {}
    /\ ~job.mode.repair \/ job.round = 2
    /\ IF job.mode.repair /\ job.mode.commit
       THEN job' = [job EXCEPT !.pc = "commit"] /\ UNCHANGED died
       ELSE Fail
    /\ UNCHANGED <<tree, cycles, marks, audit, graded, seen, exposed, spent>>

(* "org-lint failed after tick".                                           *)
LintFails ==
    /\ At("lint") /\ Findings # {}
    /\ ~job.mode.repair \/ job.round = 2
    /\ Fail
    /\ UNCHANGED <<tree, cycles, marks, audit, graded, seen, exposed, spent>>

(* runRepair(): the seats with findings, warned ones too, are asked to     *)
(* mend their files; some do.  They count as invoked from then on.         *)
Repair ==
    /\ At("lint") /\ Findings # {} /\ job.mode.repair /\ job.round < 2
    /\ \E asked \in SUBSET Seats : \E mended \in SUBSET asked :
         /\ Findings \subseteq asked
         /\ edited' = edited \cup mended
         /\ broken' = broken \ mended
         /\ logged' = [a \in Seats |-> IF a \in mended THEN job.cycle ELSE logged[a]]
         /\ job' = [job EXCEPT !.pc = "status", !.ok = @ \cup asked, !.round = @ + 1]
    /\ UNCHANGED <<inbox, head, told, cycles, marks, audit, graded, seen, exposed, died, spent>>

(* The run of the repair workflow exits nonzero: some have mended their    *)
(* files, and some left them half mended.                                  *)
RepairThrows ==
    /\ At("lint") /\ Findings # {} /\ job.mode.repair /\ job.round < 2
    /\ Fail
    /\ \E touched \in SUBSET Seats : \E mended \in SUBSET touched :
         /\ edited' = edited \cup touched
         /\ broken' = (broken \cup touched) \ mended
         /\ logged' = [a \in Seats |-> IF a \in mended THEN job.cycle ELSE logged[a]]
    /\ UNCHANGED <<inbox, head, told, cycles, marks, audit, graded, seen, exposed, spent>>

ReadStatus ==
    /\ At("status")
    /\ job' = [job EXCEPT !.pc = "lint", !.diff = GitStatus \ job.runtime, !.late = {}]
    /\ UNCHANGED <<tree, cycles, marks, audit, graded, seen, exposed, died, spent>>

(* `git add -A` and `git commit`: all that is there.                       *)
Commit ==
    /\ At("commit")
    /\ head' = inbox
    /\ edited' = {}
    /\ Return
    /\ UNCHANGED <<inbox, broken, logged, told, cycles, marks, audit, graded, seen, exposed, died, spent>>
-----------------------------------------------------------------------------
(* appendAuditHistory(): a row of the day, unless there is one like it.    *)
AppendHistory(grade) == graded' = graded \cup {grade}

(* runOrgAudit(), once the workflow has returned.                          *)
StartAudit ==
    /\ audit.pc = "idle"
    /\ Spend("audits", MaxAudits)
    /\ \E r \in Reports :
         /\ AppendHistory(r.grade)
         /\ audit' = IF r.seats = << >> THEN NoAudit
                     ELSE [pc |-> "deliver", report |-> r.seats, i |-> 1]
    /\ UNCHANGED <<tree, cycles, marks, job, seen, exposed, died>>

Finding(seat, i) == [to |-> seat, name |-> <<"audit", i>>, row |-> NoRow, n |-> 0, dup |-> FALSE]

(* deliverFindings(): a finding overwrites that of an audit of the day     *)
(* that had its number.                                                    *)
DeliverFinding ==
    /\ audit.pc = "deliver"
    /\ LET seat == audit.report[audit.i]
       IN  /\ inbox' = Over(inbox, {Finding(seat, audit.i)})
           /\ job' = IF At("idle") THEN job
                     ELSE [job EXCEPT !.blame = @ \cup {seat}, !.late = @ \cup {seat}]
    /\ audit' = IF audit.i = Len(audit.report) THEN NoAudit ELSE [audit EXCEPT !.i = @ + 1]
    /\ UNCHANGED <<head, edited, broken, logged, told, cycles, marks, graded, seen, exposed, died, spent>>

(* A process is killed.                                                    *)
CrashJob ==
    /\ ~At("idle")
    /\ Spend("crashes", MaxCrashes)
    /\ Fail
    /\ exposed' = exposed \cup (IF At("mark") THEN {Key(d.row) : d \in Today} ELSE {})
    /\ UNCHANGED <<tree, cycles, marks, audit, graded, seen>>

CrashAudit ==
    /\ audit.pc # "idle"
    /\ Spend("crashes", MaxCrashes)
    /\ audit' = NoAudit
    /\ UNCHANGED <<tree, cycles, marks, job, graded, seen, exposed, died>>

Next ==
    \/ StartReplay \/ Scaffold \/ ResetInboxes \/ WriteDay \/ MarkDay \/ EndReplay
    \/ StartTick \/ Wake \/ DeliverAndStamp \/ StartPost
    \/ LintPasses \/ LintFails \/ Repair \/ RepairThrows \/ ReadStatus \/ Commit
    \/ StartAudit \/ DeliverFinding \/ CrashJob \/ CrashAudit

Spec == Init /\ [][Next]_vars
-----------------------------------------------------------------------------
ReplayTypeOK ==
    /\ \A f, g \in inbox : Path(f) = Path(g) => f = g
    /\ edited \cup broken \subseteq Seats
    /\ logged \in [Seats -> 0..(cycles + 1)]
    /\ told \in [Seats -> 0..(cycles + 1)]
    /\ job.ok \subseteq Seats /\ job.invoked \subseteq Seats
    /\ job.pc = "idle" => job = Idle
    /\ died \subseteq 1..spent.replays

(* What replay n has marked, and no tick ever found.                       *)
Unseen(n) ==
    {m \in marks : /\ m.n = n /\ m.lands
                   /\ [key |-> m.of, n |-> n, dup |-> m.dup] \notin seen}

(* An item a replay has marked as replayed was found by the tick of its    *)
(* day.  Only a replay that died loses some, and those of one day, the one *)
(* it was at: the rest of its window is left for the next replay.          *)
NothingLost ==
    \A n \in 1..spent.replays :
        /\ Unseen(n) # {} => n \in died \/ (job.n = n /\ At("wake") /\ job.invoked = {})
        /\ \A m, k \in Unseen(n) : m.date = k.date

(* However often replays of whatever windows and faults are run, crash and *)
(* are run again, no row is put before a tick twice, but as the duplicate  *)
(* a fault asks for, or after a crash between its item and its mark.       *)
ReplayedOnce ==
    \A r \in {s.key : s \in seen} \ exposed :
        Cardinality({s.n : s \in {s \in seen : s.key = r /\ ~s.dup}}) <= 1

ReplayInv == ReplayTypeOK /\ NothingLost /\ ReplayedOnce

(* Lint accuses no seat of trespass for what the tick itself wrote, its    *)
(* deliveries and what its seats did: only where the tree was dirty when   *)
(* it began, an audit wrote meanwhile, or a failed wake left half a work.  *)
NoFalseTrespass ==
    At("lint") => Trespassed(job.diff, job.ok) \subseteq job.blame

(* A commit after which some seat has run holds the work of seats that ran *)
(* or were asked to mend theirs, all valid and logged, the deliveries, and *)
(* what came in since git status was read.                                 *)
CommitIsLinted ==
    [][At("commit") /\ <<head, edited>>' # <<head, edited>> /\ job.ok # {} =>
         /\ Owners(GitStatus \ job.runtime) \subseteq job.ok \cup job.late
         /\ broken = {}
         /\ \A a \in job.ok : logged[a] = job.cycle]_vars
=============================================================================
