------------------------------ MODULE RunFold ------------------------------
(* The fold by which a screen follows a run (src/tui/reducer.ts): reduce() *)
(* over the lines of the journal, and what the screen derives from the     *)
(* state it leaves (src/tui/format.ts, src/tui/RunView.tsx).               *)
(*                                                                         *)
(* The state keeps what the derived figures need: of an agent its phase,   *)
(* status and output tokens, of the narrator the number of its entries, of *)
(* the backends one.  Texts, times and references are left out.            *)
EXTENDS SequencesExt

CONSTANTS
    NoPhase,      \* the phase of an agent outside all phases
    NarratorMax   \* NARRATOR_MAX

ASSUME NarratorBound == NarratorMax \in Nat

NoAgents == [n \in {} |-> 0]

InitialState ==
    [started |-> FALSE, status |-> "running", paused |-> FALSE, current |-> NoPhase,
     phases |-> << >>, agents |-> NoAgents, spent |-> 0, narrator |-> 0]

With(agents, n, a) == [m \in DOMAIN agents \cup {n} |-> IF m = n THEN a ELSE agents[m]]

Counting(agents, statuses) == Cardinality({n \in DOMAIN agents : agents[n].status \in statuses})

(* Of a phase without agents every count is zero.                          *)
ComputePhases(titles, agents) ==
    LET count(title) ==
          LET its == {n \in DOMAIN agents : agents[n].phase = title}
              mine == [n \in its |-> agents[n]]
          IN  [title   |-> title,
               running |-> Counting(mine, {"running"}),
               failed  |-> Counting(mine, {"failed"}),
               done    |-> Counting(mine, {"ok", "skipped"}),
               total   |-> Cardinality(its)]
    IN  [i \in DOMAIN titles |-> count(titles[i])]

(* The members of a set of numbers in their order.                         *)
InOrder(S) ==
    [k \in 1..Cardinality(S) |-> CHOOSE n \in S : Cardinality({m \in S : m < n}) = k - 1]

(* Each title once, where it is first named.                               *)
Distinct(titles) ==
    LET firsts == InOrder({i \in DOMAIN titles : \A j \in 1..(i - 1) : titles[j] # titles[i]})
    IN  [k \in DOMAIN firsts |-> titles[firsts[k]]]

PhaseTitles(s) == [i \in DOMAIN s.phases |-> s.phases[i].title]

Including(titles, title) == IF Contains(titles, title) THEN titles ELSE Append(titles, title)
-----------------------------------------------------------------------------
(* The cases of reduce().  A phase named by an agent or by phase() that    *)
(* the script did not declare gets its place at the end.                   *)
OnRunStart(s, ev) ==
    [s EXCEPT !.started = TRUE, !.status = "running",
              !.phases = ComputePhases(Distinct(ev.titles), s.agents)]

OnPhase(s, ev) ==
    [s EXCEPT !.current = ev.title,
              !.phases = ComputePhases(Including(PhaseTitles(s), ev.title), s.agents)]

OnAgentStart(s, ev) ==
    LET agents == With(s.agents, ev.n, [phase |-> ev.phase, status |-> "running", used |-> 0])
        titles == IF ev.phase = NoPhase THEN PhaseTitles(s)
                  ELSE Including(PhaseTitles(s), ev.phase)
    IN  [s EXCEPT !.agents = agents, !.phases = ComputePhases(titles, agents)]

OnAgentUsage(s, ev) ==
    IF ev.n \in DOMAIN s.agents THEN [s EXCEPT !.agents[ev.n].used = ev.used] ELSE s

(* Mutant: the usage of the end is not added to the total.                 *)
OnAgentEndUncounted(s, ev) ==
    IF ev.n \notin DOMAIN s.agents THEN s
    ELSE LET agents == [s.agents EXCEPT ![ev.n].status = ev.status, ![ev.n].used = ev.used]
         IN  [s EXCEPT !.agents = agents, !.phases = ComputePhases(PhaseTitles(s), agents)]

OnAgentEnd(s, ev) ==
    IF ev.n \notin DOMAIN s.agents THEN s
    ELSE LET agents == [s.agents EXCEPT ![ev.n].status = ev.status, ![ev.n].used = ev.used]
         IN  [s EXCEPT !.agents = agents, !.spent = @ + ev.used,
                       !.phases = ComputePhases(PhaseTitles(s), agents)]

OnLog(s) == [s EXCEPT !.narrator = IF @ = NarratorMax THEN @ ELSE @ + 1]

(* The totals of the runner take the place of what was added up.           *)
OnRunEnd(s, ev) == [s EXCEPT !.status = ev.status, !.current = NoPhase, !.spent = ev.spent]

Reduce(s, ev) ==
    CASE ev.t = "run_start"   -> OnRunStart(s, ev)
      [] ev.t = "phase"       -> OnPhase(s, ev)
      [] ev.t = "agent_start" -> OnAgentStart(s, ev)
      [] ev.t = "agent_usage" -> OnAgentUsage(s, ev)
      [] ev.t = "agent_end"   -> OnAgentEnd(s, ev)
      [] ev.t = "log"         -> OnLog(s)
      [] ev.t = "paused"      -> [s EXCEPT !.paused = TRUE]
      [] ev.t = "resumed"     -> [s EXCEPT !.paused = FALSE]
      [] ev.t = "run_end"     -> OnRunEnd(s, ev)
-----------------------------------------------------------------------------
(* What the screen shows of it.                                            *)
Running(s) == {n \in DOMAIN s.agents : s.agents[n].status = "running"}

(* liveOutputTokens(): what ended agents used, and the last usage of those *)
(* that still run.                                                         *)
LiveOutputTokens(s) == s.spent + SumFunction([n \in Running(s) |-> s.agents[n].used])

(* PhaseStrip(): the glyph of a phase.                                     *)
Glyph(s, p) ==
    IF p.total > 0 /\ p.running = 0 /\ p.done + p.failed = p.total /\ p.title # s.current
    THEN "finished"
    ELSE IF p.running > 0 \/ p.title = s.current THEN "active" ELSE "waiting"

(* clampPhaseFilter() and filterAgentsByPhase(); 0 is the tab "All".       *)
(* Agents are numbered in the order in which they start.                   *)
ClampPhaseFilter(i, count) == IF i < 0 THEN 0 ELSE IF i > count THEN count ELSE i

AgentsUnder(s, filter) ==
    LET phase == IF filter = 0 THEN NoPhase ELSE s.phases[filter].title
    IN  InOrder({n \in DOMAIN s.agents : filter = 0 \/ s.agents[n].phase = phase})
=============================================================================
