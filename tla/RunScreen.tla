----------------------------- MODULE RunScreen -----------------------------
(* A run and the screen that follows it (src/tui/RunView.tsx): the runner  *)
(* writes its journal (src/runtime.ts, src/runner.ts), the screen folds it *)
(* (RunFold), asks every two seconds whether the runner is still there,    *)
(* and sends what is pressed through the control file.                     *)
(*                                                                         *)
(* told is the fold of the whole journal.  A reading of the journal takes  *)
(* all that is new, so what the screen has read is told at some time; the  *)
(* reading and the flush after it, at most a tenth of a second later, are  *)
(* one step.  How a wait, a kill and the pid file meet is RunLife's.       *)
EXTENDS RunFold, Viewport

CONSTANTS
    AgentCount,  \* the agents of the run are 1..AgentCount
    Titles,      \* the phases its body may name
    PhasesOf,    \* PhasesOf[n]: the phases agent n may be started in
    Declared,    \* meta.phases
    MaxActs,     \* bound: usages reported, phase() and log() calls, keys
    MaxUnread,   \* bound: lines of the journal an open screen has not read
    Rows,        \* the rows the terminal may have
    LineRows,    \* the rows that text may take in it that is not truncated
    CardTierMax, RowTierMax, NarratorTail, ResultTailMax

ASSUME RunScreenBounds ==
    /\ \A n \in {AgentCount, MaxActs, MaxUnread, CardTierMax, RowTierMax,
                 NarratorTail, ResultTailMax} : n \in Nat
    /\ Rows \subseteq Nat /\ LineRows \subseteq Nat
    /\ NoPhase \notin Titles /\ Declared \in Seq(Titles)
    /\ PhasesOf \in [1..AgentCount -> SUBSET (Titles \cup {NoPhase})]

VARIABLES
    runner,    \* where the runner stands
    ledger,    \* ledger[n]: the output tokens agent n has reported
    throttle,  \* throttle[n]: the Throttle of n's usage lines
    paused, stopped, \* the controller's
    aborted,   \* the agents whose calls were aborted
    pid,       \* [file, taken]: the pid file; its pid names a foreign process
    told,      \* the fold of the journal
    control,   \* the lines of the control file that the runner has not read
    toggled,   \* the last of "pause" and "resume" that was sent
    shown,     \* the state the screen shows
    unread,    \* how many lines it has not read
    dead,      \* runnerDead
    late,      \* five seconds have passed since run_start, or else the opening
    mode, aim, \* the mode, and the agent it is about
    sel, tab,  \* selIdx and phaseIdx
    acts       \* what MaxActs bounds

calls   == <<ledger, throttle, aborted>>
runVar  == <<runner, paused, stopped, calls>>
journal == <<told, unread>>
sent    == <<control, toggled>>
keys    == <<mode, aim, sel, tab>>
screen  == <<shown, dead, late, keys>>
runVars == <<runVar, pid, journal, sent, screen, acts>>

Act == acts < MaxActs /\ acts' = acts + 1

Agents == 1..AgentCount

RunInit ==
    /\ runner = "boot"
    /\ ledger = [n \in Agents |-> 0] /\ throttle = [n \in Agents |-> "open"]
    /\ paused = FALSE /\ stopped = FALSE /\ aborted = {}
    /\ pid = [file |-> FALSE, taken |-> FALSE]
    /\ told = InitialState
    /\ control = << >> /\ toggled = "none"
    /\ shown = InitialState /\ unread = 0 /\ dead = FALSE /\ late = FALSE
    /\ mode = "away" /\ aim = 0 /\ sel = 0 /\ tab = 0
    /\ acts = 0

Journal(ev) ==
    /\ mode # "away" => unread < MaxUnread
    /\ told' = Reduce(told, ev)
    /\ unread' = IF mode = "away" THEN 0 ELSE unread + 1
Alive == runner \in {"boot", "begun", "live", "draining", "over"}
-----------------------------------------------------------------------------
(* The runner.                                                             *)
RunStart ==
    /\ runner = "boot" /\ runner' = "begun"
    /\ Journal([t |-> "run_start", titles |-> Declared])
    /\ UNCHANGED <<calls, paused, stopped, pid, sent, screen, acts>>

(* A script that cannot be loaded; or executors that cannot be made, after *)
(* the start of the run was journaled.                                     *)
LoadFails ==
    /\ runner \in {"boot", "begun"} /\ runner' = "gone"
    /\ Journal([t |-> "run_end", status |-> "failed", spent |-> 0])
    /\ UNCHANGED <<calls, paused, stopped, pid, sent, screen, acts>>

WritePid ==
    /\ runner = "begun" /\ runner' = "live"
    /\ pid' = [pid EXCEPT !.file = TRUE]
    /\ UNCHANGED <<calls, paused, stopped, journal, sent, screen, acts>>

(* phase() and log(); a body that is stopped may go on until run_end.      *)
BodyTells ==
    /\ runner \in {"live", "draining"} /\ Act
    /\ \/ \E title \in Titles : title # told.current /\ Journal([t |-> "phase", title |-> title])
       \/ told.narrator < NarratorMax /\ Journal([t |-> "log"])
    /\ UNCHANGED <<runVar, pid, sent, screen>>

(* An agent call that has got its slot, or was aborted while it waited.    *)
AgentStarts ==
    /\ runner \in {"live", "draining"} /\ (paused => stopped)
    /\ \E n \in Agents \ DOMAIN told.agents : \E phase \in PhasesOf[n] :
         /\ \A m \in 1..(n - 1) : m \in DOMAIN told.agents
         /\ Journal([t |-> "agent_start", n |-> n, phase |-> phase])
         /\ aborted' = IF stopped THEN aborted \cup {n} ELSE aborted
    /\ UNCHANGED <<runner, ledger, throttle, paused, stopped, pid, sent, screen, acts>>

Spent == SumFunction(ledger)

Usage(n) == [t |-> "agent_usage", n |-> n, used |-> ledger'[n]]

(* onUsage(): the ledger at once, the journal not more often than the      *)
(* throttle lets through.                                                  *)
Ticks ==
    /\ runner \in {"live", "draining"} /\ Act
    /\ \E n \in Running(told) :
         /\ ledger' = [ledger EXCEPT ![n] = @ + 1]
         /\ throttle' = [throttle EXCEPT ![n] = IF @ = "open" THEN "closed" ELSE "armed"]
         /\ IF throttle[n] = "open" THEN Journal(Usage(n)) ELSE UNCHANGED journal
    /\ UNCHANGED <<runner, paused, stopped, aborted, pid, sent, screen>>

(* Mutant: what came while the throttle was closed is dropped.             *)
IntervalDrops ==
    /\ runner \in {"live", "draining"}
    /\ \E n \in Running(told) :
         /\ throttle[n] # "open"
         /\ throttle' = [throttle EXCEPT ![n] = "open"]
    /\ UNCHANGED <<runner, ledger, paused, stopped, aborted, pid, journal, sent, screen, acts>>

(* The interval is over: what is pending is written, and the next begins.  *)
IntervalEnds ==
    /\ runner \in {"live", "draining"}
    /\ \E n \in Running(told) :
         \/ /\ throttle[n] = "closed"
            /\ throttle' = [throttle EXCEPT ![n] = "open"]
            /\ UNCHANGED <<ledger, journal>>
         \/ /\ throttle[n] = "armed"
            /\ throttle' = [throttle EXCEPT ![n] = "closed"]
            /\ UNCHANGED ledger
            /\ Journal(Usage(n))
    /\ UNCHANGED <<runner, paused, stopped, aborted, pid, sent, screen, acts>>

(* end(): the throttle is cancelled, and the usage of the outcome, which   *)
(* may be more or less than was reported, is that of the line.             *)
AgentEnds ==
    /\ runner \in {"live", "draining"}
    /\ \E n \in Running(told), used \in 0..MaxActs :
         /\ \/ used <= ledger[n] /\ UNCHANGED acts
            \/ used = ledger[n] + 1 /\ Act
         /\ \E status \in IF n \in aborted THEN {"skipped"} ELSE {"ok", "failed"} :
              Journal([t |-> "agent_end", n |-> n, status |-> status, used |-> used])
         /\ ledger' = [ledger EXCEPT ![n] = used]
         /\ throttle' = [throttle EXCEPT ![n] = "open"]
         /\ aborted' = aborted \ {n}
    /\ UNCHANGED <<runner, paused, stopped, pid, sent, screen>>

StopAll == stopped' = TRUE /\ aborted' = Running(told)

(* Mutant: the first pause is obeyed, and no command after it.             *)
ObeyPauseOnce ==
    /\ runner \in {"live", "draining"} /\ control # << >>
    /\ control' = Tail(control)
    /\ LET cmd == Head(control)
       IN  \/ /\ cmd.cmd = "pause" /\ ~paused /\ paused' = TRUE /\ Journal([t |-> "paused"])
              /\ UNCHANGED <<stopped, aborted>>
           \/ /\ ~(cmd.cmd = "pause" /\ ~paused)
              /\ UNCHANGED <<paused, stopped, aborted, journal>>
    /\ UNCHANGED <<runner, ledger, throttle, pid, toggled, screen, acts>>

(* tailControl() and the controller's pause(), resume(), skip() and        *)
(* stop(); a pause of a paused run, and any of them once the run is being  *)
(* stopped, change nothing.                                                *)
Obey ==
    /\ runner \in {"live", "draining"} /\ control # << >>
    /\ control' = Tail(control)
    /\ LET cmd == Head(control)
           pauses == cmd.cmd = "pause" /\ ~paused /\ ~stopped
           resumes == cmd.cmd = "resume" /\ paused /\ ~stopped
       IN  \/ /\ pauses /\ paused' = TRUE /\ Journal([t |-> "paused"])
              /\ UNCHANGED <<stopped, aborted>>
           \/ /\ resumes /\ paused' = FALSE /\ Journal([t |-> "resumed"])
              /\ UNCHANGED <<stopped, aborted>>
           \/ /\ cmd.cmd = "skip" /\ aborted' = aborted \cup ({cmd.n} \cap Running(told))
              /\ UNCHANGED <<paused, stopped, journal>>
           \/ /\ cmd.cmd = "stop" /\ StopAll
              /\ UNCHANGED <<paused, journal>>
           \/ /\ cmd.cmd \in {"pause", "resume"} /\ ~pauses /\ ~resumes
              /\ UNCHANGED <<paused, stopped, aborted, journal>>
    /\ UNCHANGED <<runner, ledger, throttle, pid, toggled, screen, acts>>

(* The body settles, or a stop or a signal overtakes it: the agents in     *)
(* flight are aborted and waited for.                                      *)
Teardown ==
    /\ runner = "live" /\ runner' = "draining"
    /\ StopAll
    /\ UNCHANGED <<ledger, throttle, paused, pid, journal, sent, screen, acts>>

(* All agents have ended, or the drain has timed out.                      *)
RunEnd ==
    /\ runner = "draining" /\ runner' = "over"
    /\ \E status \in {"ok", "failed", "stopped"} :
         Journal([t |-> "run_end", status |-> status, spent |-> Spent])
    /\ UNCHANGED <<calls, paused, stopped, pid, sent, screen, acts>>

Exit ==
    /\ runner = "over" /\ runner' = "gone"
    /\ pid' = [pid EXCEPT !.file = FALSE]
    /\ UNCHANGED <<calls, paused, stopped, journal, sent, screen, acts>>

Crash ==
    /\ Alive /\ runner' = "gone"
    /\ UNCHANGED <<calls, paused, stopped, pid, journal, sent, screen, acts>>

(* The system gives the pid of the runner that is gone to another process. *)
PidTaken ==
    /\ runner = "gone" /\ pid.file /\ ~pid.taken
    /\ pid' = [pid EXCEPT !.taken = TRUE]
    /\ UNCHANGED <<runVar, journal, sent, screen, acts>>

RunnerNext ==
    \/ RunStart \/ LoadFails \/ WritePid \/ BodyTells \/ AgentStarts \/ Ticks \/ IntervalEnds
    \/ AgentEnds \/ Obey \/ Teardown \/ RunEnd \/ Exit \/ Crash \/ PidTaken
-----------------------------------------------------------------------------
(* The screen.                                                             *)
Open == mode # "away"

(* Mutant: without a pid file the runner is taken to be starting.          *)
LooksDeadByPid(lateNow) == pid.file /\ ~(Alive \/ pid.taken)

(* runnerLooksDead(): the pid is gone; or there is no pid file five        *)
(* seconds after run_start, or after the screen was opened.  pidAlive()    *)
(* takes any process of that pid for the runner.                           *)
LooksDead(lateNow) == IF pid.file THEN ~(Alive \/ pid.taken) ELSE lateNow

Banner(s, lateNow) == s.status = "running" /\ LooksDead(lateNow)

(* useJournalState() on attach: the journal is replayed, then shown.  The  *)
(* run may have started long before.                                       *)
OpenScreen ==
    /\ ~Open
    /\ mode' = "main"
    /\ \E lateNow \in {FALSE, told.started /\ ~pid.file} :
         late' = lateNow /\ dead' = Banner(told, lateNow)
    /\ shown' = told /\ unread' = 0
    /\ UNCHANGED <<runVar, pid, told, sent, aim, sel, tab, acts>>

(* The flush; the check runs again at once when what it depends on has     *)
(* changed.                                                                *)
Flush ==
    /\ Open /\ unread > 0
    /\ shown' = told /\ unread' = 0
    /\ LET same == told.started = shown.started
       IN  /\ late' = (late /\ same)
           /\ dead' = IF same /\ told.status = shown.status THEN dead
                      ELSE Banner(told, late /\ same)
    /\ UNCHANGED <<runVar, pid, told, sent, keys, acts>>

(* The check of every two seconds.                                         *)
CheckRunner ==
    /\ Open /\ shown.status = "running"
    /\ dead' = Banner(shown, late)
    /\ UNCHANGED <<runVar, pid, journal, sent, shown, late, keys, acts>>

(* Five seconds pass, which matters only without a pid file.               *)
GracePasses ==
    /\ Open /\ ~pid.file
    /\ late' = TRUE
    /\ UNCHANGED <<runVar, pid, journal, sent, shown, dead, keys, acts>>
-----------------------------------------------------------------------------
(* What is listed and selected: tabs of phases, and of many agents only    *)
(* those that run or have failed.                                          *)
Finished == shown.status # "running"
PhaseSel == ClampPhaseFilter(tab, Len(shown.phases))
Visible  == AgentsUnder(shown, PhaseSel)

Tier == LET n == Len(Visible)
        IN  IF n <= CardTierMax THEN "cards"
            ELSE IF n <= RowTierMax THEN "rows" ELSE "aggregate"

Selectable ==
    IF Tier = "aggregate"
    THEN InOrder({n \in Range(Visible) : shown.agents[n].status \in {"running", "failed"}})
    ELSE Visible

Sel == AtMost(sel, AtLeast(0, Len(Selectable) - 1))
HasSelected == Sel < Len(Selectable)
Selected == Selectable[Sel + 1]

ControlsEnabled == ~Finished /\ ~dead
-----------------------------------------------------------------------------
(* useInput().                                                             *)
Send(line) == control' = Append(control, line)
Main == mode = "main"

MoveKey ==
    /\ Main /\ Act
    /\ \E next \in {AtLeast(0, Sel - 1), AtMost(AtLeast(0, Len(Selectable) - 1), Sel + 1)} :
         next # sel /\ sel' = next
    /\ UNCHANGED <<runVar, pid, journal, sent, shown, dead, late, mode, aim, tab>>

TabKey ==
    /\ Main /\ Act
    /\ \E step \in {-1, 1} :
         LET next == ClampPhaseFilter(PhaseSel + step, Len(shown.phases))
         IN  next # PhaseSel /\ tab' = next
    /\ sel' = Sel
    /\ UNCHANGED <<runVar, pid, journal, sent, shown, dead, late, mode, aim>>

(* To the detail of the selected agent or to the timeline, which replace   *)
(* the screen and take its keys.                                           *)
LookKey ==
    /\ Main /\ Act
    /\ mode' = "over"
    /\ UNCHANGED <<runVar, pid, journal, sent, shown, dead, late, aim, sel, tab>>

PauseKey ==
    /\ Main /\ ControlsEnabled /\ Act
    /\ LET line == IF shown.paused THEN "resume" ELSE "pause"
       IN  Send([cmd |-> line]) /\ toggled' = line
    /\ UNCHANGED <<runVar, pid, journal, shown, dead, late, mode, aim, sel, tab>>

AskKey ==
    /\ Main /\ ControlsEnabled /\ Act
    /\ \/ mode' = "stop" /\ UNCHANGED aim
       \/ /\ HasSelected /\ shown.agents[Selected].status = "running"
          /\ mode' = "skip" /\ aim' = Selected
    /\ UNCHANGED <<runVar, pid, journal, sent, shown, dead, late, sel, tab>>

AnswerKey ==
    /\ mode \in {"stop", "skip"} /\ Act
    /\ mode' = "main" /\ aim' = 0
    /\ \/ mode = "stop" /\ Send([cmd |-> "stop"])
       \/ mode = "skip" /\ Send([cmd |-> "skip", n |-> aim])
       \/ UNCHANGED control
    /\ UNCHANGED <<runVar, pid, journal, toggled, shown, dead, late, sel, tab>>

(* Back to the screen, or from it to the list of runs, which unmounts it.  *)
BackKey ==
    /\ mode \in {"main", "over"} /\ Act
    /\ aim' = 0
    /\ IF Main
       THEN /\ mode' = "away" /\ sel' = 0 /\ tab' = 0
            /\ shown' = InitialState /\ unread' = 0 /\ dead' = FALSE /\ late' = FALSE
       ELSE mode' = "main" /\ UNCHANGED <<sel, tab, shown, unread, dead, late>>
    /\ UNCHANGED <<runVar, pid, told, sent>>

KeyNext == MoveKey \/ TabKey \/ LookKey \/ PauseKey \/ AskKey \/ AnswerKey \/ BackKey

RunScreenNext == RunnerNext \/ OpenScreen \/ Flush \/ CheckRunner \/ GracePasses \/ KeyNext
-----------------------------------------------------------------------------
(* The layout in a terminal of `rows' rows, which may be resized at any    *)
(* time: what of the list is on the screen, and how many rows it takes.    *)
NarratorLines == AtMost(NarratorTail, shown.narrator)
Fixed         == Chrome(dead /\ ~Finished, NarratorLines)
ListContent(rows) == Content(rows, dead /\ ~Finished, NarratorLines)
SummaryLines  == IF Tier = "aggregate" THEN Len(shown.phases) ELSE 0
ListRows(rows) ==
    AtLeast(0, AgentRows(ListContent(rows), Finished, ResultTailMax) - SummaryLines)
LineHeight    == IF Tier = "cards" THEN 2 ELSE 1
ItemCapacity(rows) == AtLeast(1, ListRows(rows) \div LineHeight)

OnScreen(rows) == Window(Len(Selectable), Sel, ItemCapacity(rows))

(* A card of a running agent has a second line, of its activity.           *)
ListLines(rows) ==
    LET w == OnScreen(rows)
        list == Selectable
        tall == {i \in w.first..(w.last - 1) :
                   shown.agents[list[i + 1]].status = "running"}
    IN  Rendered(w) + SummaryLines + (IF Tier = "cards" THEN Cardinality(tall) ELSE 0)

TailRows(rows) == ResultRows(ListContent(rows), Finished, ResultTailMax)

(* ResultPane(): its tail, the error of a failed run, and the hint.  The   *)
(* error is taken for one row of the tail, whatever it is; an empty one is *)
(* not shown.                                                              *)
ResultLines(rows, tall) ==
    LET error == IF shown.status = "failed" THEN tall.error ELSE 0
        cap == AtLeast(0, TailRows(rows) - AtMost(1, error))
        hintRows == IF cap < ResultTailMax THEN 1 ELSE 0
    IN  IF ~Finished THEN 0
        ELSE ResultChrome + error + hintRows
               + AtLeast(0, AtMost(ResultTailMax, cap - hintRows))

(* The lines that are not truncated: how many rows the error takes, and    *)
(* how many the strip and the lines of the phases take besides their own.  *)
Heights == [error : LineRows, phases : LineRows]

(* All that is written, and the rows of it that the layout does not know.  *)
Written(rows, tall) ==
    Fixed + ListLines(rows) + ResultLines(rows, tall)
      + (IF shown.phases # << >> THEN tall.phases ELSE 0)

Unreckoned(tall) ==
    (IF shown.status = "failed" THEN AtLeast(0, tall.error - 1) ELSE 0)
      + (IF shown.phases # << >> THEN tall.phases ELSE 0)
-----------------------------------------------------------------------------
RunTypeOK ==
    /\ runner \in {"boot", "begun", "live", "draining", "over", "gone"}
    /\ ledger \in [Agents -> 0..MaxActs]
    /\ throttle \in [Agents -> {"open", "closed", "armed"}]
    /\ aborted \subseteq Agents /\ DOMAIN told.agents \subseteq Agents
    /\ mode \in {"away", "main", "over", "stop", "skip"}
    /\ aim \in 0..AgentCount /\ sel \in 0..AgentCount

(* The header's tokens are what the budget counts, up to the ticks that    *)
(* wait for their line; of an ended run too, unless agents were left open: *)
(* their last usage is then counted twice.                                 *)
TokensAddUp ==
    LET waiting == {n \in Running(told) : throttle[n] = "armed"}
    IN  \/ told.status # "running" /\ Running(told) # {}
        \/ /\ LiveOutputTokens(told) <= Spent
           /\ waiting = {} => LiveOutputTokens(told) = Spent

(* Every agent of a phase is counted once in it, no phase is listed twice, *)
(* and when a run has ended with all its agents, no phase is still active. *)
PhasesAddUp ==
    /\ \A i, j \in DOMAIN told.phases : told.phases[i].title = told.phases[j].title => i = j
    /\ \A n \in DOMAIN told.agents : told.agents[n].phase \in Range(PhaseTitles(told)) \cup {NoPhase}
    /\ told.phases = ComputePhases(PhaseTitles(told), told.agents)
    /\ \A i \in DOMAIN told.phases :
         LET p == told.phases[i]
         IN  /\ p.done + p.running + p.failed = p.total
             /\ told.status # "running" /\ Running(told) = {} =>
                  Glyph(told, p) = IF p.total > 0 THEN "finished" ELSE "waiting"

(* The list has rows for one item, and a finished run's pane for an error *)
(* and the hint.                                                           *)
Roomy(rows) == ListRows(rows) >= LineHeight /\ (Finished => TailRows(rows) >= 2)

(* The selected agent is on the screen, and what the screen writes in a    *)
(* terminal with room exceeds its rows by no more than what an error, or a *)
(* phase's title, wraps into (by that it does, though RunView.tsx:66 says  *)
(* "so we never overflow them").                                           *)
SelectionOnScreen ==
    Main /\ HasSelected =>
        \A rows \in Rows :
          /\ LET w == OnScreen(rows) IN Sel \in w.first..(w.last - 1)
          /\ Roomy(rows) =>
               \A tall \in Heights : Written(rows, tall) <= rows + Unreckoned(tall)

(* The last of the pauses and resumes that were sent is what the run does, *)
(* and what its journal says, once the runner has read them: also when     *)
(* they were pressed before the screen showed the effect of the last one.  *)
LastToggleWins ==
    runner = "live" /\ control = << >> /\ ~stopped =>
        /\ toggled # "none" => paused = (toggled = "pause")
        /\ told.paused = paused

(* Once the runner is gone the screen comes to show all it wrote, and if   *)
(* that is no end of the run, the banner, unless its pid is taken; and a   *)
(* banner over a live runner goes away.                                    *)
CaughtUp ==
    /\ shown = told
    /\ shown.status = "running" => dead \/ pid.taken
RunScreenSettles ==
    /\ (Open /\ runner = "gone") ~> (~Open \/ CaughtUp)
    /\ (Open /\ dead) ~> (~Open \/ ~dead \/ runner # "live")
=============================================================================
