------------------------------ MODULE HomeView ------------------------------
(***************************************************************************)
(* The Schedules tab of the TUI (src/tui/HomeView.tsx with                 *)
(* ScheduleDetail.tsx and scheduleActions.ts) over the schedules of        *)
(* ScheduleDesk: what it shows is a snapshot it re-reads when the          *)
(* fingerprint of the directory has changed, and keys act on what is       *)
(* selected in that snapshot while others change the files.                *)
(*                                                                         *)
(* A key handler runs to its end before the next key or tick, but other    *)
(* processes run between its system calls: at[Tui] is "idle" between       *)
(* handlers and "list" between a fingerprint and the reading of the specs. *)
(***************************************************************************)
EXTENDS ScheduleDesk

CONSTANTS
    NoOne,      \* no schedule
    MaxKeys     \* bound: see Spared

ASSUME KeysAssumption == MaxKeys \in Nat /\ NoOne \notin Names

VARIABLES
    tab,        \* the tab shown
    mode,       \* list, a prompt, a schedule's details, or the form
    shown,      \* the schedule the prompt or the details are about
    sel,        \* selIdx, from 1
    rows,       \* the rows of the snapshot, sorted
    print,      \* the snapshot's fingerprint, or NoSpec before the first
    taken,      \* the fingerprint of the snapshot being read
    aim,        \* the schedule to select once it is read
    detail,     \* what the details last read of the spec
    keys        \* keys pressed that change a schedule

uiVars == <<tab, mode, shown, sel, rows, print, taken, aim, detail, keys>>
vars == <<deskVars, uiVars>>

Tabs == <<"runs", "schedules", "org">>

Rows == [name : Names, spec : Specs, log : Nat]

Init ==
    /\ DeskInit
    /\ tab = "runs" /\ mode = "list" /\ shown = NoOne
    /\ sel = 1 /\ rows = <<>>
    /\ print = NoSpec /\ taken = NoSpec /\ aim = NoOne
    /\ detail = NoSpec
    /\ keys = 0

(* Mutant: files are compared by their size only, which is the same for    *)
(* "active" and "paused".                                                  *)
FingerprintBySize ==
    [n \in Names |-> <<IF Readable(n) THEN "full" ELSE spec[n], log[n]>>]

(* scheduleDirFingerprint(): of each file there is, its size and time.     *)
Fingerprint ==
    [n \in Names |-> <<IF spec[n] = NoSpec THEN NoSpec ELSE stamp[n], log[n]>>]

(* compareScheduleSpecsForDisplay(): active, paused, retired.  Among the   *)
(* active ones the next to fire is first, which the time decides.          *)
Rank(row) ==
    CASE row.spec.status = "active" -> 0
      [] row.spec.status = "paused" -> 1
      [] row.spec.status = "retired" -> 2

Sorted(listed) ==
    {order \in SetToSeqs(listed) :
        \A i, j \in DOMAIN order : i < j => Rank(order[i]) <= Rank(order[j])}

(* buildRows() of safeListScheduleSpecs(): one spec that cannot be read    *)
(* empties the list.                                                       *)
Listed ==
    IF \E n \in Names : spec[n] = Torn THEN {}
    ELSE {[name |-> n, spec |-> spec[n], log |-> log[n]] : n \in {m \in Names : Readable(m)}}

Lesser(a, b) == IF a <= b THEN a ELSE b
Selected == rows[Lesser(sel, Len(rows))]

Idle == at[Tui] = "idle"
On(m) == Idle /\ mode = m
AtRow == tab = "schedules" /\ rows # <<>>

(* reloadSchedules(): the fingerprint first, then the specs.               *)
Reload(name) ==
    /\ Go(Tui, "list")
    /\ taken' = Fingerprint
    /\ aim' = name
    /\ UNCHANGED <<sel, rows, print>>

(* The specs are read one after the other; a change between two of them is *)
(* one after the fingerprint like any other.                               *)
ListSpecs ==
    /\ at[Tui] = "list" /\ Go(Tui, "idle")
    /\ rows' \in Sorted(Listed)
    /\ print' = taken
    /\ sel' = IF aim = NoOne THEN sel
              ELSE IF \E i \in DOMAIN rows' : rows'[i].name = aim
              THEN CHOOSE i \in DOMAIN rows' : rows'[i].name = aim
              ELSE 1
    /\ aim' = NoOne /\ taken' = NoSpec
    /\ UNCHANGED <<fileVars, job, copy, text, pastVars, tab, mode, shown, detail, keys>>

(* refreshScheduleSnapshot(), every two seconds and when the tab opens: an *)
(* unchanged fingerprint keeps the rows, in the order of the moment.       *)
Refresh ==
    IF print = Fingerprint
    THEN /\ rows' \in Sorted(Range(rows))
         /\ UNCHANGED <<at, taken, aim, sel, print>>
    ELSE Reload(NoOne)

Tick ==
    /\ Idle /\ tab = "schedules"
    /\ Refresh
    /\ UNCHANGED <<fileVars, job, copy, text, pastVars, tab, mode, shown, detail, keys>>

Turn(t) ==
    /\ tab' = t /\ sel' = 1
    /\ IF t = "schedules" /\ print # Fingerprint
       THEN Go(Tui, "list") /\ taken' = Fingerprint
       ELSE UNCHANGED <<at, taken>>
    /\ UNCHANGED <<fileVars, job, copy, text, pastVars, mode, shown, rows, print, aim, detail, keys>>

PressTab ==
    /\ On("list")
    /\ \E i \in 1..3 : tab = Tabs[i] /\ Turn(Tabs[(i % 3) + 1])

PressEscape == On("list") /\ tab # "runs" /\ Turn("runs")

Move ==
    /\ On("list") /\ AtRow
    /\ sel' \in {i \in 1..Len(rows) : i - Lesser(sel, Len(rows)) \in {-1, 1}}
    /\ UNCHANGED <<deskVars, tab, mode, shown, rows, print, taken, aim, detail, keys>>

(* A change of what is shown that touches no file.                         *)
Show(m, n) ==
    /\ mode' = m /\ shown' = n
    /\ UNCHANGED <<deskVars, tab, sel, rows, print, taken, aim, keys>>

(* readDetailState() of a spec.                                            *)
Peek(n) == IF Readable(n) THEN spec[n] ELSE NoSpec

OpenForm   == On("list") /\ tab = "runs" /\ Show("form", NoOne) /\ UNCHANGED detail
CloseForm  == On("form") /\ Show("list", NoOne) /\ UNCHANGED detail
OpenDetail == /\ On("list") /\ AtRow
              /\ Show("detail", Selected.name) /\ detail' = Peek(Selected.name)
PollDetail == Idle /\ mode \in {"detail", "sure"} /\ Show(mode, shown) /\ detail' = Peek(shown)
AskRemove  == /\ On("list") /\ AtRow
              /\ Show("confirm", Selected.name) /\ UNCHANGED detail
AskInDetail == On("detail") /\ Show("sure", shown) /\ UNCHANGED detail
AnswerNo   == \/ On("confirm") /\ Show("list", NoOne) /\ UNCHANGED detail
              \/ On("sure") /\ Show("detail", shown) /\ UNCHANGED detail

(* Bound: keys that change a schedule, changes the user makes to his       *)
(* crontab, and crontab commands that fail under another program, in all.  *)
Spared == keys + edits + faults < MaxKeys

(* A handler that begins a job on the files, or goes straight to what      *)
(* follows when the job is refused.                                        *)
Begin(started) ==
    /\ Spared
    /\ keys' = keys + 1
    /\ started
    /\ UNCHANGED <<tab, mode, shown, sel, rows, print, taken, aim, detail>>

Refused(o, n) ==
    /\ Go(Tui, "failed")
    /\ job' = [job EXCEPT ![Tui] = [op |-> o, name |-> n]]
    /\ UNCHANGED <<fileVars, copy, text, pastVars>>

ToggleOrRefuse(n) ==
    \/ Toggle(Tui, n)
    \/ /\ ~(Readable(n) /\ spec[n].status # "retired")
       /\ Refused("toggle", n)

(* p, on a row or in the details.                                          *)
PressToggle ==
    /\ \/ On("list") /\ AtRow /\ Begin(ToggleOrRefuse(Selected.name))
       \/ On("detail") /\ detail # NoSpec /\ Begin(ToggleOrRefuse(shown))

RemoveOrRefuse(n) == TakeOut(Tui, n) \/ (~Readable(n) /\ Refused("rm", n))

(* Mutant: the answer removes what is selected by now.                     *)
PressYesSelected ==
    \/ On("confirm") /\ AtRow /\ Begin(RemoveOrRefuse(Selected.name))
    \/ On("sure") /\ detail # NoSpec /\ Begin(RemoveOrRefuse(shown))

(* y, at the prompt: the schedule the prompt was opened for.               *)
PressYes ==
    \/ On("confirm") /\ Begin(RemoveOrRefuse(shown))
    \/ On("sure") /\ detail # NoSpec /\ Begin(RemoveOrRefuse(shown))

(* The form's submit.  A draft it finds invalid, like a name that is       *)
(* taken, changes nothing.                                                 *)
Submit == On("form") /\ Begin(\E n \in Names : Add(Tui, n))

(* What the handler does after its job, done or refused: where it leads,   *)
(* and which schedule is selected there.                                   *)
Leave(m, t, n, aimed) ==
    /\ mode' = m /\ tab' = t /\ shown' = n
    /\ Reload(aimed)
    /\ detail' = IF m = "detail" THEN Peek(n) ELSE NoSpec

Settle ==
    /\ at[Tui] \in {"over", "failed"}
    /\ \/ mode = "list" /\ Leave("list", tab, NoOne, Name(Tui))
       \/ mode = "confirm" /\ Leave("list", tab, NoOne, NoOne)
       \/ mode = "detail" /\ Leave("detail", tab, shown, shown)
       \/ mode = "sure" /\ at[Tui] = "over" /\ Leave("list", "schedules", NoOne, NoOne)
       \/ mode = "sure" /\ at[Tui] = "failed" /\ Leave("detail", tab, shown, shown)
       \/ mode = "form" /\ at[Tui] = "over" /\ Leave("list", "schedules", NoOne, Name(Tui))
       \/ /\ mode = "form" /\ at[Tui] = "failed" /\ Go(Tui, "idle")
          /\ UNCHANGED <<tab, mode, shown, sel, rows, print, taken, aim, detail>>
    /\ job' = [job EXCEPT ![Tui] = NoJob]
    /\ copy' = [copy EXCEPT ![Tui] = NewSpec]
    /\ text' = [text EXCEPT ![Tui] = Closed(<<>>)]
    /\ UNCHANGED <<fileVars, pastVars, keys>>

(* Handlers without a job of their own: e starts an execution, a process   *)
(* like those cron starts; the details are left; a removal is confirmed of *)
(* a spec that could not be read.                                          *)
Jobless(m, t, n, aimed) ==
    /\ Leave(m, t, n, aimed)
    /\ UNCHANGED <<fileVars, job, copy, text, pastVars, keys>>

PressExec ==
    \/ On("list") /\ AtRow /\ Selected.spec.status = "active"
       /\ Jobless("list", tab, NoOne, Selected.name)
    \/ On("detail") /\ detail # NoSpec /\ detail.status = "active"
       /\ Jobless("detail", tab, shown, shown)

Back     == On("detail") /\ Jobless("list", "schedules", NoOne, shown)
Vanished == On("sure") /\ detail = NoSpec /\ Jobless("list", "schedules", NoOne, NoOne)

Key ==
    \/ PressTab \/ PressEscape \/ Move
    \/ OpenForm \/ CloseForm \/ OpenDetail \/ AskRemove \/ AskInDetail \/ AnswerNo
    \/ PressToggle \/ PressYes \/ Submit \/ PressExec \/ Back \/ Vanished

Handler == ListSpecs \/ Settle \/ (EditStep(Tui) /\ UNCHANGED uiVars)

Next ==
    \/ DeskNext /\ UNCHANGED uiVars /\ (<<edits, faults>>' # <<edits, faults>> => Spared)
    \/ Handler \/ Tick \/ PollDetail \/ Key

Spec == Init /\ [][Next]_vars

(* Programs run, and the two-second timer fires whatever keys are pressed. *)
Fairness ==
    /\ WF_vars(Handler) /\ SF_vars(Tick)
    /\ \A c \in Cmds : WF_vars(CommandStep(c) /\ UNCHANGED uiVars)
FairSpec == Spec /\ Fairness
-----------------------------------------------------------------------------
(* The TUI removes the schedule its prompt named, though the rows are      *)
(* sorted anew under the cursor while the prompt waits.                    *)
RemovesConfirmed ==
    [][\A n \in Names :
          at[Tui] = "unlink" /\ Name(Tui) = n /\ at'[Tui] # "unlink"
             => mode \in {"confirm", "sure"} /\ shown = n]_vars

(* What the tab shows is what the files say.                               *)
ShowsFiles == Range(rows) = Listed

(* A snapshot never hides a change for good: once the files are left alone *)
(* and the tab stays open, it shows them.  (Not if a crontab command       *)
(* failed: the spec that an add takes back leaves no trace, and a snapshot *)
(* whose fingerprint is from before that add and whose rows are from its   *)
(* midst is never replaced.)                                               *)
ScreenCatchesUp == <>[](tab = "schedules" /\ faults = 0) => <>[]ShowsFiles
=============================================================================
