--------------------------- MODULE OrgReplay_proofs ---------------------------
(* Proofs about OrgReplay: for every ledger, any replays, ticks, audits and *)
(* crashes, and whatever the agents do.                                    *)
EXTENDS OrgReplay, FiniteSetTheorems, TLAPS

Steps == {"idle", "scaffold", "reset", "day", "mark", "wake", "deliver", "lint", "status", "commit"}
Between == {"scaffold", "reset", "day", "mark"}
Ticking == {"wake", "deliver", "lint", "status", "commit"}

IsJob(j) ==
    j = [pc |-> j.pc, n |-> j.n, plan |-> j.plan, days |-> j.days, cycle |-> j.cycle,
         invoked |-> j.invoked, ok |-> j.ok, runtime |-> j.runtime, posts |-> j.posts,
         diff |-> j.diff, round |-> j.round, mode |-> j.mode, blame |-> j.blame, late |-> j.late]

Types ==
    /\ spent \in [{"replays", "ticks", "audits", "crashes"} -> Nat]
    /\ cycles \in Nat
    /\ \A f, g \in inbox : Path(f) = Path(g) => f = g
    /\ edited \cup broken \subseteq Seats
    /\ logged \in [Seats -> 0 .. (cycles + 1)]
    /\ told \in [Seats -> 0 .. (cycles + 1)]
    /\ died \subseteq 1 .. spent.replays

(* A job: the tick of a replay or by itself, or what a replay does between *)
(* ticks.                                                                  *)
JobTyped ==
    /\ IsJob(job)
    /\ job.pc \in Steps
    /\ job.pc = "idle" => job = Idle
    /\ job.n \in 0 .. spent.replays
    /\ job.n # 0 => job.n \notin died
    /\ job.ok \subseteq Seats /\ job.invoked \subseteq Seats
    /\ job.pc = "deliver" => job.invoked # {}
    /\ job.pc \in Between => job.n # 0 /\ job.invoked = {} /\ job.ok = {} /\ job.runtime = {}
    /\ job.pc \in {"mark"} \cup Ticking => job.cycle \in {cycles, cycles + 1}

(* What a replay has planned comes from the ledger, and two deliveries to  *)
(* one file on one day come one after the other or are one.                *)
PlanFromLedger ==
    /\ \A d \in job.plan : d.row \in {Ledger[i] : i \in DOMAIN Ledger} /\ d.dup \in BOOLEAN
    /\ \A d, e \in job.plan :
         d.row.id = e.row.id /\ d.row.to = e.row.to /\ d.date = e.date /\ d.dup = e.dup
           => d.row = e.row

(* One replay marks a key, and only the one that runs may mark what it has *)
(* planned.                                                                *)
MarkedOnce ==
    /\ \A m, k \in marks : m.key = k.key => m.n = k.n
    /\ \A m \in marks : m.key = m.of /\ m.n \in 1 .. spent.replays
    /\ \A m \in marks, d \in job.plan : m.key = Key(d.row) => m.n = job.n

(* An item of a replay, and one that a tick has found, is marked, or lies  *)
(* there since a crash, or is about to be marked.                          *)
MarkedBy(key, n) == key \in exposed \/ \E m \in marks : m.key = key /\ m.n = n

ItemsMarked ==
    /\ \A f \in inbox : f.row # NoRow =>
         \/ MarkedBy(Key(f.row), f.n)
         \/ job.pc = "mark" /\ f.n = job.n /\ \E d \in Today : Key(d.row) = Key(f.row)
    /\ \A s \in seen : MarkedBy(s.key, s.n)

(* What a replay has marked lies in an inbox until a tick has found it.    *)
Lies(m) ==
    \E f \in inbox : /\ f.row # NoRow /\ f.to \in Seats /\ f.name[1] # "audit"
                     /\ Key(f.row) = m.of /\ f.n = m.n /\ f.dup = m.dup

ItemsThere ==
    /\ job.pc = "mark" => \A d \in Landing(Today) : ReplayItem(d) \in inbox
    /\ job.pc = "wake" /\ job.invoked = {} => \A m \in Unseen(job.n) : Lies(m)
    /\ \A n \in 1 .. spent.replays :
         /\ Unseen(n) # {} => n \in died \/ (job.n = n /\ job.pc = "wake" /\ job.invoked = {})
         /\ \A m, k \in Unseen(n) : m.date = k.date

(* Whose files have changed, as far as the tick did not write them itself. *)
Blamed ==
    /\ job.pc \in Ticking => Owners(GitStatus \ job.runtime) \subseteq job.ok \cup job.blame
    /\ job.pc = "lint" => Owners(job.diff) \subseteq job.ok \cup job.blame

(* What lint has read is what there is, but for what has come in since.    *)
Linted ==
    /\ job.pc \in {"lint", "commit"} /\ job.ok # {} =>
         Owners(GitStatus \ job.runtime) \subseteq Owners(job.diff) \cup job.late
    /\ job.pc = "commit" /\ job.ok # {} =>
         /\ Owners(job.diff) \subseteq job.ok
         /\ broken = {}
         /\ \A a \in job.ok : logged[a] = job.cycle

ReplayStrong ==
    Types /\ JobTyped /\ PlanFromLedger /\ MarkedOnce /\ ItemsMarked /\ ItemsThere /\ Blamed /\ Linted
-----------------------------------------------------------------------------
(* Lemmas: the end of a job, and what a step leaves as it was.             *)
LEMMA IdleIsTyped ==
    /\ IsJob(Idle)
    /\ Idle.pc = "idle" /\ Idle.n = 0 /\ Idle.plan = {} /\ Idle.days = {}
    /\ Idle.invoked = {} /\ Idle.ok = {} /\ Idle.runtime = {}
BY DEF Idle, IsJob

LEMMA IdleTyped ==
    ASSUME job' = Idle, spent'.replays \in Nat
    PROVE  JobTyped'
<1>1. 0 \in 0 .. spent'.replays
  OBVIOUS
<1> QED
  BY <1>1, IdleIsTyped DEF JobTyped, Steps, Between, Ticking, IsJob, Idle

LEMMA ReturnTyped ==
    ASSUME ReplayStrong, Return, UNCHANGED <<spent, died>>
    PROVE  /\ JobTyped'
           /\ job'.pc \in {"idle", "day"} /\ job'.invoked = {}
           /\ job'.plan = {} \/ (job'.n = job.n /\ job'.plan = job.plan)
<1>0. Types /\ JobTyped
  BY DEF ReplayStrong
<1>1. CASE job.n = 0
  <2>1. job' = Idle
    BY <1>1 DEF Return
  <2>2. JobTyped'
    BY <1>0, <2>1, IdleTyped DEF Types
  <2> QED
    BY <2>1, <2>2, IdleIsTyped
<1>2. CASE job.n # 0
  <2>1. job' = [Idle EXCEPT !.pc = "day", !.n = job.n, !.plan = job.plan, !.days = job.days]
    BY <1>2 DEF Return
  <2>2. /\ IsJob(job)' /\ job'.pc = "day" /\ job'.n = job.n /\ job'.plan = job.plan
        /\ job'.invoked = {} /\ job'.ok = {} /\ job'.runtime = {}
    BY <2>1, IdleIsTyped DEF IsJob
  <2>3. JobTyped'
    BY <1>0, <1>2, <2>2 DEF JobTyped, Steps, Between, Ticking
  <2> QED
    BY <2>2, <2>3
<1> QED
  BY <1>1, <1>2

LEMMA FailTyped ==
    ASSUME ReplayStrong, Fail, spent'.replays = spent.replays
    PROVE  /\ JobTyped' /\ job'.pc = "idle" /\ job'.plan = {} /\ job'.n = 0
           /\ died \subseteq died' /\ died' \subseteq 1 .. spent.replays
           /\ job.n # 0 => job.n \in died'
<1>0. Types /\ JobTyped
  BY DEF ReplayStrong
<1>1. spent.replays \in Nat
  BY <1>0 DEF Types
<1>2. job.n # 0 => job.n \in 1 .. spent.replays
  BY <1>0, <1>1 DEF JobTyped
<1>3. JobTyped'
  BY <1>1, IdleTyped DEF Fail
<1> QED
  BY <1>0, <1>2, <1>3, IdleIsTyped DEF Fail, Types

(* Outside a tick lint has nothing to say.                                 *)
LEMMA NotTicking ==
    ASSUME job'.pc \notin Ticking
    PROVE  Blamed' /\ Linted'
BY DEF Ticking, Blamed, Linted

LEMMA NoMarksOfZero ==
    ASSUME MarkedOnce, Types
    PROVE  Unseen(0) = {}
BY DEF MarkedOnce, Types, Unseen

(* A step that marks nothing and lays no item of a replay.                 *)
LEMMA ReplayKept ==
    ASSUME ReplayStrong, UNCHANGED <<marks, seen, exposed>>, spent'.replays = spent.replays,
           job.pc # "mark", job'.pc # "mark",
           \A f \in inbox' : f.row # NoRow => f \in inbox,
           job'.plan = {} \/ (job'.n = job.n /\ job'.plan \subseteq job.plan),
           died \subseteq died',
           job'.pc = "wake" /\ job'.invoked = {} => job'.n = 0,
           job.pc = "wake" /\ job.invoked = {} =>
             Unseen(job.n) = {} \/ job.n = 0 \/ job.n \in died'
    PROVE  PlanFromLedger' /\ MarkedOnce' /\ ItemsMarked' /\ ItemsThere'
<1>0. Types /\ PlanFromLedger /\ MarkedOnce /\ ItemsMarked /\ ItemsThere
  BY DEF ReplayStrong
<1>1. PlanFromLedger'
  BY <1>0 DEF PlanFromLedger
<1>2. MarkedOnce'
  BY <1>0 DEF MarkedOnce
<1>3. \A key, n : MarkedBy(key, n)' <=> MarkedBy(key, n)
  BY DEF MarkedBy
<1>4. ItemsMarked'
  <2>1. \A f \in inbox' : f.row # NoRow => MarkedBy(Key(f.row), f.n)
    BY <1>0 DEF ItemsMarked
  <2>2. \A s \in seen : MarkedBy(s.key, s.n)
    BY <1>0 DEF ItemsMarked
  <2> QED
    BY <2>1, <2>2 DEF ItemsMarked, MarkedBy, Key
<1>5. \A n : Unseen(n)' = Unseen(n)
  BY DEF Unseen
<1>6. ItemsThere'
  <2>1. ASSUME job'.n = 0 PROVE \A m \in Unseen(job.n)' : Lies(m)'
    <3>1. Unseen(0)' = {}
      BY <1>0, <1>5, NoMarksOfZero
    <3> QED
      BY <2>1, <3>1 DEF Unseen
  <2>2. ASSUME NEW n \in 1 .. spent.replays
        PROVE  Unseen(n) # {} => n \in died'
    <3>1. n # 0
      BY <1>0 DEF Types
    <3> QED
      BY <1>0, <3>1 DEF ItemsThere
  <2>3. \A n \in 1 .. spent'.replays :
          /\ Unseen(n)' # {} => n \in died'
          /\ \A m, k \in Unseen(n)' : m.date = k.date
    BY <1>0, <1>5, <2>2 DEF ItemsThere
  <2> QED
    BY <2>1, <2>3 DEF ItemsThere
<1> QED
  BY <1>1, <1>2, <1>4, <1>6
-----------------------------------------------------------------------------
LEMMA InitStrong ==
    ASSUME Init
    PROVE  ReplayStrong
<1>1. spent \in [{"replays", "ticks", "audits", "crashes"} -> Nat] /\ spent.replays = 0
  BY DEF Init
<1>2. Types
  BY <1>1 DEF Init, Types, StubLogs
<1>3. JobTyped
  <2>1. 0 \in 0 .. 0
    OBVIOUS
  <2> QED
    BY <1>1, <2>1, IdleIsTyped DEF Init, JobTyped, Steps, Between, Ticking
<1>4. PlanFromLedger /\ MarkedOnce /\ ItemsMarked
  BY IdleIsTyped DEF Init, PlanFromLedger, MarkedOnce, ItemsMarked
<1>5. ItemsThere
  BY IdleIsTyped DEF Init, ItemsThere, Unseen
<1>6. Blamed /\ Linted
  BY IdleIsTyped DEF Init, Blamed, Linted, Ticking
<1> QED
  BY <1>2, <1>3, <1>4, <1>5, <1>6 DEF ReplayStrong

(* A replay's plan.                                                        *)
LEMMA CorpusIsKeyed ==
    /\ Corpus \subseteq {Ledger[i] : i \in DOMAIN Ledger}
    /\ \A r \in Corpus : Key(r) \notin Replayed
    /\ \A r, s \in Corpus : Key(r) = Key(s) => r = s
<1> DEFINE I == {i \in DOMAIN Ledger :
                   /\ Key(Ledger[i]) \notin Replayed
                   /\ \A j \in 1..(i - 1) : Key(Ledger[j]) # Key(Ledger[i])}
<1>1. Corpus = {Ledger[i] : i \in I}
  BY DEF Corpus
<1>2. ASSUME NEW i \in I, NEW j \in I, Key(Ledger[i]) = Key(Ledger[j])
      PROVE  i = j
  <2>1. i \in Nat \ {0} /\ j \in Nat \ {0}
    BY ReplayInputs
  <2>2. ~(i < j) /\ ~(j < i)
    BY <1>2, <2>1
  <2> QED
    BY <2>1, <2>2
<1> QED
  BY <1>1, <1>2

LEMMA PlanIsSound ==
    ASSUME NEW f, f.days \in Nat
    PROVE  /\ \A d \in Deliveries(Corpus, f) : d.row \in Corpus /\ d.dup \in BOOLEAN
           /\ \A d, e \in Deliveries(Corpus, f) :
                d.row.id = e.row.id /\ d.row.to = e.row.to /\ d.date = e.date /\ d.dup = e.dup
                  => d.row = e.row
<1> DEFINE Late(r) == IF r.id \in f.late THEN f.days ELSE 0
           Day(r)  == r.date + Late(r)
<1>1. \A d \in Deliveries(Corpus, f) :
        /\ d.row \in Corpus
        /\ \/ d.dup = FALSE /\ d.date = Day(d.row)
           \/ d.dup = TRUE /\ d.date = Day(d.row) + 1
  BY DEF Deliveries
<1>2. \A r \in Corpus : r.date \in Nat /\ Late(r) \in Nat
  BY CorpusIsKeyed, ReplayBounds
<1>3. ASSUME NEW d \in Deliveries(Corpus, f), NEW e \in Deliveries(Corpus, f),
             d.row.id = e.row.id, d.row.to = e.row.to, d.date = e.date, d.dup = e.dup
      PROVE  d.row = e.row
  <2>1. Day(d.row) = Day(e.row)
    BY <1>1, <1>2, <1>3
  <2>2. Late(d.row) = Late(e.row)
    BY <1>3
  <2>3. d.row.date = e.row.date
    BY <1>1, <1>2, <2>1, <2>2
  <2>4. Key(d.row) = Key(e.row)
    BY <1>3, <2>3 DEF Key
  <2> QED
    BY <1>1, <2>4, CorpusIsKeyed
<1> QED
  BY <1>1, <1>3

LEMMA StartReplayStrong ==
    ASSUME ReplayStrong, StartReplay
    PROVE  ReplayStrong'
<1>0. Types /\ JobTyped /\ MarkedOnce /\ ItemsMarked /\ ItemsThere
  BY DEF ReplayStrong
<1>1. /\ job.pc = "idle" /\ spent' = [spent EXCEPT !["replays"] = @ + 1]
      /\ UNCHANGED <<tree, cycles, marks, audit, graded, seen, exposed, died>>
  BY DEF StartReplay, At, Spend
<1>2. UNCHANGED <<inbox, head, edited, broken, logged, told>>
  BY <1>1 DEF tree
<1>3. PICK c \in Commands : \E plan \in SUBSET Deliveries(Corpus, c.faults) : \E days :
        job' = [Idle EXCEPT !.pc = IF c.pristine THEN "scaffold" ELSE "reset",
                            !.n = spent.replays + 1, !.days = days, !.plan = plan]
  <2>1. PICK c \in Commands :
          LET ds == Deliveries(Corpus, c.faults)
              days == DaysOf(ds, c.window)
          IN  job' = [Idle EXCEPT !.pc = IF c.pristine THEN "scaffold" ELSE "reset",
                        !.n = spent.replays + 1, !.days = days,
                        !.plan = {d \in ds : d.date \in days}]
    BY DEF StartReplay
  <2>2. {d \in Deliveries(Corpus, c.faults) : d.date \in DaysOf(Deliveries(Corpus, c.faults), c.window)}
          \in SUBSET Deliveries(Corpus, c.faults)
    OBVIOUS
  <2> QED
    BY <2>1, <2>2, ZenonT(60)
<1>4. PICK plan \in SUBSET Deliveries(Corpus, c.faults) : \E days :
        job' = [Idle EXCEPT !.pc = IF c.pristine THEN "scaffold" ELSE "reset",
                            !.n = spent.replays + 1, !.days = days, !.plan = plan]
  BY <1>3
<1>5. /\ IsJob(job)' /\ job'.pc \in {"scaffold", "reset"} /\ job'.n = spent.replays + 1
      /\ job'.plan = plan /\ job'.invoked = {} /\ job'.ok = {} /\ job'.runtime = {}
  BY <1>4, IdleIsTyped DEF IsJob
<1>6. /\ spent.replays \in Nat /\ spent'.replays = spent.replays + 1
      /\ spent' \in [{"replays", "ticks", "audits", "crashes"} -> Nat]
  BY <1>0, <1>1 DEF Types
<1>7. Types'
  <2>1. died' \subseteq 1 .. spent'.replays
    BY <1>0, <1>1, <1>6 DEF Types
  <2> QED
    BY <1>0, <1>1, <1>2, <1>6, <2>1 DEF Types, Path
<1>8. JobTyped'
  <2>1. job'.n \in 0 .. spent'.replays /\ job'.n # 0 /\ job'.n \notin died'
    BY <1>0, <1>1, <1>5, <1>6 DEF Types
  <2> QED
    BY <1>5, <2>1 DEF JobTyped, Steps, Between, Ticking
<1>9. PlanFromLedger'
  BY <1>5, PlanIsSound, CorpusIsKeyed, ReplayInputs DEF PlanFromLedger
<1>10. MarkedOnce'
  <2>1. \A m \in marks : m.n \in 1 .. spent'.replays
    BY <1>0, <1>6 DEF MarkedOnce
  <2>2. ASSUME NEW m \in marks, NEW d \in plan PROVE m.key # Key(d.row)
    <3>1. d.row \in Corpus
      BY PlanIsSound, ReplayInputs
    <3>2. Key(d.row) \notin Replayed
      BY <3>1, CorpusIsKeyed
    <3> QED
      BY <3>2 DEF Replayed
  <2> QED
    BY <1>0, <1>1, <1>5, <2>1, <2>2 DEF MarkedOnce, Key
<1>11. ItemsMarked'
  <2>1. \A f \in inbox : f.row # NoRow => MarkedBy(Key(f.row), f.n)
    BY <1>0, <1>1 DEF ItemsMarked
  <2> QED
    BY <1>0, <1>1, <1>2, <2>1 DEF ItemsMarked, MarkedBy, Key
<1>12. ItemsThere'
  <2>1. \A n : Unseen(n)' = Unseen(n)
    BY <1>1 DEF Unseen
  <2>2. ASSUME NEW n \in 1 .. spent'.replays
        PROVE  /\ Unseen(n) # {} => n \in died
               /\ \A m, k \in Unseen(n) : m.date = k.date
    <3>1. CASE n \in 1 .. spent.replays
      BY <1>0, <1>1, <3>1 DEF ItemsThere
    <3>2. CASE n \notin 1 .. spent.replays
      <4>1. Unseen(n) = {}
        BY <1>0, <3>2 DEF MarkedOnce, Unseen
      <4> QED
        BY <4>1
    <3> QED
      BY <3>1, <3>2
  <2> QED
    BY <1>1, <1>5, <2>1, <2>2 DEF ItemsThere
<1>13. Blamed' /\ Linted'
  BY <1>5, NotTicking DEF Ticking
<1> QED
  BY <1>7, <1>8, <1>9, <1>10, <1>11, <1>12, <1>13 DEF ReplayStrong
-----------------------------------------------------------------------------
(* A replay between its ticks.                                             *)
LEMMA ScaffoldStrong ==
    ASSUME ReplayStrong, Scaffold
    PROVE  ReplayStrong'
<1>0. Types /\ JobTyped
  BY DEF ReplayStrong
<1>1. /\ job.pc = "scaffold" /\ job' = [job EXCEPT !.pc = "reset"]
      /\ edited' = Seats /\ broken' = {} /\ logged' = StubLogs
      /\ UNCHANGED <<inbox, head, told, cycles, marks, audit, graded, seen, exposed, died, spent>>
  BY DEF Scaffold, At
<1>2. /\ IsJob(job)' /\ job'.pc = "reset" /\ job'.n = job.n /\ job'.plan = job.plan
      /\ job'.invoked = job.invoked /\ job'.ok = job.ok /\ job'.runtime = job.runtime
  BY <1>0, <1>1 DEF JobTyped, IsJob
<1>3. Types'
  <2>1. logged' \in [Seats -> 0 .. (cycles + 1)]
    BY <1>0, <1>1 DEF Types, StubLogs
  <2> QED
    BY <1>0, <1>1, <2>1 DEF Types, Path
<1>4. JobTyped'
  BY <1>0, <1>1, <1>2 DEF JobTyped, Steps, Between, Ticking
<1>5. PlanFromLedger' /\ MarkedOnce' /\ ItemsMarked' /\ ItemsThere'
  BY <1>1, <1>2, ReplayKept
<1>6. Blamed' /\ Linted'
  BY <1>2, NotTicking DEF Ticking
<1> QED
  BY <1>3, <1>4, <1>5, <1>6 DEF ReplayStrong

LEMMA ResetInboxesStrong ==
    ASSUME ReplayStrong, ResetInboxes
    PROVE  ReplayStrong'
<1>0. Types /\ JobTyped
  BY DEF ReplayStrong
<1>1. /\ job.pc = "reset" /\ job' = [job EXCEPT !.pc = "day"] /\ inbox' = {}
      /\ UNCHANGED <<head, edited, broken, logged, told, cycles, marks, audit, graded,
                     seen, exposed, died, spent>>
  BY DEF ResetInboxes, At
<1>2. /\ IsJob(job)' /\ job'.pc = "day" /\ job'.n = job.n /\ job'.plan = job.plan
      /\ job'.invoked = job.invoked /\ job'.ok = job.ok /\ job'.runtime = job.runtime
  BY <1>0, <1>1 DEF JobTyped, IsJob
<1>3. Types'
  BY <1>0, <1>1 DEF Types
<1>4. JobTyped'
  BY <1>0, <1>1, <1>2 DEF JobTyped, Steps, Between, Ticking
<1>5. PlanFromLedger' /\ MarkedOnce' /\ ItemsMarked' /\ ItemsThere'
  BY <1>1, <1>2, ReplayKept
<1>6. Blamed' /\ Linted'
  BY <1>2, NotTicking DEF Ticking
<1> QED
  BY <1>3, <1>4, <1>5, <1>6 DEF ReplayStrong

LEMMA EndReplayStrong ==
    ASSUME ReplayStrong, EndReplay
    PROVE  ReplayStrong'
<1>0. Types
  BY DEF ReplayStrong
<1>1. /\ job.pc = "day" /\ job' = Idle
      /\ UNCHANGED <<inbox, head, edited, broken, logged, told>>
      /\ UNCHANGED <<cycles, marks, audit, graded, seen, exposed, died, spent>>
  BY DEF EndReplay, At, tree
<1>2. Types'
  BY <1>0, <1>1 DEF Types, Path
<1>3. JobTyped'
  BY <1>0, <1>1, IdleTyped DEF Types
<1>4. PlanFromLedger' /\ MarkedOnce' /\ ItemsMarked' /\ ItemsThere'
  BY <1>1, IdleIsTyped, ReplayKept
<1>5. Blamed' /\ Linted'
  BY <1>1, IdleIsTyped, NotTicking DEF Ticking
<1> QED
  BY <1>2, <1>3, <1>4, <1>5 DEF ReplayStrong

(* A tick begins with the blame for what is dirty already.                 *)
LEMMA StartTickStrong ==
    ASSUME ReplayStrong, StartTick
    PROVE  ReplayStrong'
<1>0. Types /\ JobTyped
  BY DEF ReplayStrong
<1> DEFINE owners == Owners(GitStatus)
<1>1. /\ job.pc = "idle"
      /\ UNCHANGED <<inbox, head, edited, broken, logged, told>>
      /\ UNCHANGED <<cycles, marks, audit, graded, seen, exposed, died>>
      /\ spent' = [spent EXCEPT !["ticks"] = @ + 1]
  BY DEF StartTick, At, tree, Spend
<1>2. PICK mode \in TickModes :
        job' = [Idle EXCEPT !.pc = "wake", !.mode = mode, !.cycle = cycles + 1, !.blame = owners]
  BY DEF StartTick
<1> HIDE DEF owners
<1>3. /\ IsJob(job)' /\ job'.pc = "wake" /\ job'.n = 0 /\ job'.plan = {}
      /\ job'.invoked = {} /\ job'.ok = {} /\ job'.runtime = {} /\ job'.cycle = cycles + 1
      /\ job'.blame = owners
  BY <1>2, IdleIsTyped DEF IsJob
<1>4. spent'.replays = spent.replays /\ spent' \in [{"replays", "ticks", "audits", "crashes"} -> Nat]
  BY <1>0, <1>1 DEF Types
<1>5. Types'
  BY <1>0, <1>1, <1>4 DEF Types, Path
<1>6. JobTyped'
  <2>1. 0 \in 0 .. spent'.replays
    BY <1>0, <1>4 DEF Types
  <2> QED
    BY <1>1, <1>3, <2>1 DEF JobTyped, Steps, Between, Ticking
<1>7. PlanFromLedger' /\ MarkedOnce' /\ ItemsMarked' /\ ItemsThere'
  BY <1>1, <1>3, <1>4, ReplayKept
<1>8. Blamed' /\ Linted'
  <2>1. GitStatus' = GitStatus
    BY <1>1 DEF GitStatus, Memory, Path
  <2>2. Owners(GitStatus \ job.runtime)' \subseteq owners
    BY <2>1 DEF Owners, owners
  <2> QED
    BY <1>3, <2>2 DEF Blamed, Linted, Ticking
<1> QED
  BY <1>5, <1>6, <1>7, <1>8 DEF ReplayStrong

(* Two deliveries of one day that land have two places.                    *)
LEMMA LandingsDiffer ==
    ASSUME PlanFromLedger, NEW d \in Landing(Today), NEW e \in Landing(Today),
           Path(ReplayItem(d)) = Path(ReplayItem(e))
    PROVE  ReplayItem(d) = ReplayItem(e)
<1>1. d \in job.plan /\ e \in job.plan /\ d.date = e.date
  BY DEF Landing, Today
<1>2. d.row.to = e.row.to /\ d.row.name = e.row.name
  BY DEF ReplayItem, Path
<1>3. d.row.id \in Nat /\ e.row.id \in Nat /\ d.dup \in BOOLEAN /\ e.dup \in BOOLEAN
  BY <1>1, ReplayInputs DEF PlanFromLedger
<1>4. ~Outlasts(e, d) /\ ~Outlasts(d, e)
  BY DEF Landing
<1>5. d.row.id = e.row.id
  BY <1>2, <1>3, <1>4 DEF Outlasts
<1>6. d.dup = e.dup
  BY <1>2, <1>3, <1>4, <1>5 DEF Outlasts
<1>7. d.row = e.row
  BY <1>1, <1>2, <1>5, <1>6 DEF PlanFromLedger
<1> QED
  BY <1>6, <1>7 DEF ReplayItem
-----------------------------------------------------------------------------
LEMMA WriteDayStrong ==
    ASSUME ReplayStrong, WriteDay
    PROVE  ReplayStrong'
<1>0. Types /\ JobTyped /\ PlanFromLedger /\ MarkedOnce /\ ItemsMarked /\ ItemsThere
  BY DEF ReplayStrong
<1> DEFINE new == {ReplayItem(d) : d \in Landing(Today)}
<1>1. /\ job.pc = "day" /\ inbox' = Over(inbox, new)
      /\ job' = [job EXCEPT !.pc = "mark", !.cycle = cycles + 1]
      /\ UNCHANGED <<head, edited, broken, logged, told, cycles, marks, audit, graded,
                     seen, exposed, died, spent>>
  BY DEF WriteDay, At
<1>2. /\ IsJob(job)' /\ job'.pc = "mark" /\ job'.n = job.n /\ job'.plan = job.plan
      /\ job'.days = job.days /\ job'.cycle = cycles + 1
      /\ job'.invoked = job.invoked /\ job'.ok = job.ok /\ job'.runtime = job.runtime
  BY <1>0, <1>1 DEF JobTyped, IsJob
<1>3. \A f \in new : \E d \in Landing(Today) : f = ReplayItem(d)
  OBVIOUS
<1>4. \A d \in Landing(Today) : ReplayItem(d) \in new
  OBVIOUS
<1> HIDE DEF new
<1>5. \A f \in inbox' : f \in inbox \/ f \in new
  BY <1>1 DEF Over
<1>6. new \subseteq inbox'
  BY <1>1 DEF Over
<1>7. Types'
  <2>1. ASSUME NEW f \in inbox', NEW g \in inbox', Path(f) = Path(g) PROVE f = g
    <3>1. CASE f \in new /\ g \in new
      BY <1>0, <1>3, <2>1, <3>1, LandingsDiffer
    <3>2. CASE f \notin new /\ g \notin new
      BY <1>0, <1>5, <2>1, <3>2 DEF Types
    <3>3. CASE f \in new /\ g \notin new
      BY <1>1, <2>1, <3>3 DEF Over
    <3>4. CASE f \notin new /\ g \in new
      BY <1>1, <2>1, <3>4 DEF Over
    <3> QED
      BY <3>1, <3>2, <3>3, <3>4
  <2> QED
    BY <1>0, <1>1, <2>1 DEF Types, Path
<1>8. JobTyped'
  BY <1>0, <1>1, <1>2 DEF JobTyped, Steps, Between, Ticking
<1>9. PlanFromLedger' /\ MarkedOnce'
  BY <1>0, <1>1, <1>2 DEF PlanFromLedger, MarkedOnce, Key
<1>10. Landing(Today)' = Landing(Today) /\ Today' = Today
  BY <1>2 DEF Landing, Today, Outlasts
<1>11. ItemsMarked'
  <2>1. ASSUME NEW f \in inbox', f.row # NoRow
        PROVE  \/ MarkedBy(Key(f.row), f.n)
               \/ f.n = job.n /\ \E d \in Today : Key(d.row) = Key(f.row)
    <3>1. CASE f \in inbox
      BY <1>0, <1>1, <2>1, <3>1 DEF ItemsMarked
    <3>2. CASE f \in new
      <4>1. PICK d \in Landing(Today) : f = ReplayItem(d)
        BY <1>3, <3>2
      <4>2. d \in Today /\ f.row = d.row /\ f.n = job.n
        BY <4>1 DEF Landing, ReplayItem
      <4> QED
        BY <4>2
    <3> QED
      BY <1>5, <3>1, <3>2
  <2>2. \A s \in seen : MarkedBy(s.key, s.n)
    BY <1>0 DEF ItemsMarked
  <2>3. \A key, n : MarkedBy(key, n)' <=> MarkedBy(key, n)
    BY <1>1 DEF MarkedBy
  <2>4. \A r : Key(r)' = Key(r)
    BY DEF Key
  <2>5. \A f \in inbox' : f.row # NoRow =>
          \/ MarkedBy(Key(f.row), f.n)'
          \/ job'.pc = "mark" /\ f.n = job'.n /\ \E d \in Today' : Key(d.row) = Key(f.row)
    BY <1>2, <1>10, <2>1, <2>3
  <2>6. \A s \in seen' : MarkedBy(s.key, s.n)'
    BY <1>1, <2>2, <2>3
  <2> QED
    BY <2>5, <2>6 DEF ItemsMarked, Key
<1>12. ItemsThere'
  <2>1. \A n : Unseen(n)' = Unseen(n)
    BY <1>1 DEF Unseen
  <2>2. \A d \in Landing(Today)' : ReplayItem(d)' \in inbox'
    BY <1>2, <1>4, <1>6, <1>10 DEF ReplayItem
  <2>3. \A n \in 1 .. spent'.replays :
          /\ Unseen(n)' # {} => n \in died'
          /\ \A m, k \in Unseen(n)' : m.date = k.date
    BY <1>0, <1>1, <2>1 DEF ItemsThere
  <2> QED
    BY <1>2, <2>2, <2>3 DEF ItemsThere
<1>13. Blamed' /\ Linted'
  BY <1>2, NotTicking DEF Ticking
<1> QED
  BY <1>7, <1>8, <1>9, <1>11, <1>12, <1>13 DEF ReplayStrong

(* The day is marked: no mark of this replay was unseen, and each new one  *)
(* has its item.                                                           *)
LEMMA MarkDayStrong ==
    ASSUME ReplayStrong, MarkDay
    PROVE  ReplayStrong'
<1>0. Types /\ JobTyped /\ PlanFromLedger /\ MarkedOnce /\ ItemsMarked /\ ItemsThere
  BY DEF ReplayStrong
<1> DEFINE owners == Owners(GitStatus)
           today == Today
           days == job.days \ {Min(job.days)}
<1>1. /\ job.pc = "mark" /\ marks' = marks \cup {Mark(d) : d \in today}
      /\ told' = [a \in Seats |-> IF \E d \in today : d.row.to = a THEN job.cycle ELSE told[a]]
      /\ job' = [job EXCEPT !.pc = "wake", !.days = days, !.plan = job.plan \ today,
                            !.blame = owners]
      /\ UNCHANGED <<inbox, head, edited, broken, logged, cycles, audit, graded,
                     seen, exposed, died, spent>>
  BY DEF MarkDay, At
<1>2. \A d \in today : d \in job.plan /\ d.date = Min(job.days)
  BY DEF Today
<1> HIDE DEF owners, today, days
<1>3. /\ IsJob(job)' /\ job'.pc = "wake" /\ job'.n = job.n /\ job'.plan = job.plan \ today
      /\ job'.blame = owners /\ job'.cycle = job.cycle
      /\ job'.invoked = job.invoked /\ job'.ok = job.ok /\ job'.runtime = job.runtime
  BY <1>0, <1>1 DEF JobTyped, IsJob
<1>4. /\ job.n # 0 /\ job.invoked = {} /\ job.ok = {} /\ job.runtime = {}
      /\ job.n \in 1 .. spent.replays /\ job.n \notin died
  <2>1. spent.replays \in Nat
    BY <1>0 DEF Types
  <2> QED
    BY <1>0, <1>1, <2>1 DEF JobTyped, Between
<1>5. \A m \in marks' : m \in marks \/ \E d \in today : m = Mark(d)
  BY <1>1
<1>6. \A d : /\ Mark(d).key = Key(d.row) /\ Mark(d).of = Key(d.row) /\ Mark(d).n = job.n
             /\ Mark(d).date = d.date /\ Mark(d).dup = d.dup
             /\ Mark(d).lands = (d \in Landing(Today))
  BY DEF Mark
<1>7. Types'
  <2>1. told' \in [Seats -> 0 .. (cycles + 1)]
    BY <1>0, <1>1 DEF Types, JobTyped
  <2> QED
    BY <1>0, <1>1, <2>1 DEF Types, Path
<1>8. JobTyped'
  BY <1>0, <1>1, <1>3, <1>4 DEF JobTyped, Steps, Between, Ticking
<1>9. PlanFromLedger'
  BY <1>0, <1>3 DEF PlanFromLedger
<1>10. MarkedOnce'
  <2>1. ASSUME NEW m \in marks', NEW d \in job.plan, m.key = Key(d.row)
        PROVE  m.n = job.n
    BY <1>0, <1>5, <1>6, <2>1 DEF MarkedOnce
  <2>2. ASSUME NEW m \in marks', NEW k \in marks', m.key = k.key
        PROVE  m.n = k.n
    <3>1. CASE m \in marks /\ k \in marks
      BY <1>0, <2>2, <3>1 DEF MarkedOnce
    <3>2. CASE \E d \in today : m = Mark(d)
      BY <1>2, <1>6, <2>1, <2>2, <3>2
    <3>3. CASE \E d \in today : k = Mark(d)
      BY <1>2, <1>6, <2>1, <2>2, <3>3
    <3> QED
      BY <1>5, <3>1, <3>2, <3>3
  <2>3. ASSUME NEW m \in marks' PROVE m.key = m.of /\ m.n \in 1 .. spent.replays
    BY <1>0, <1>4, <1>5, <1>6 DEF MarkedOnce
  <2> QED
    BY <1>1, <1>3, <2>1, <2>2, <2>3 DEF MarkedOnce, Key
<1>11. ItemsMarked'
  <2>1. ASSUME NEW key, NEW n, MarkedBy(key, n) PROVE MarkedBy(key, n)'
    BY <1>1, <2>1 DEF MarkedBy
  <2>2. ASSUME NEW f \in inbox, f.row # NoRow PROVE MarkedBy(Key(f.row), f.n)'
    <3>1. CASE MarkedBy(Key(f.row), f.n)
      BY <2>1, <3>1 DEF MarkedBy, Key
    <3>2. CASE f.n = job.n /\ \E d \in Today : Key(d.row) = Key(f.row)
      <4>1. PICK d \in today : Key(d.row) = Key(f.row)
        BY <3>2 DEF today
      <4>2. Mark(d) \in marks'
        BY <1>1
      <4> QED
        BY <1>6, <3>2, <4>1, <4>2 DEF MarkedBy, Key
    <3> QED
      BY <1>0, <2>2, <3>1, <3>2 DEF ItemsMarked
  <2>3. \A s \in seen : MarkedBy(s.key, s.n)
    BY <1>0 DEF ItemsMarked
  <2> QED
    BY <1>1, <2>1, <2>2, <2>3 DEF ItemsMarked, MarkedBy, Key
<1>12. Unseen(job.n) = {}
  BY <1>0, <1>1, <1>4 DEF ItemsThere
<1>13. ASSUME NEW m \in Unseen(job.n)'
       PROVE  \E d \in today : m = Mark(d) /\ d \in Landing(Today)
  <2>1. m \in marks' /\ m.n = job.n /\ m.lands /\ [key |-> m.of, n |-> job.n, dup |-> m.dup] \notin seen
    BY <1>1, <1>3, <1>13 DEF Unseen
  <2>2. m \notin marks
    BY <1>12, <2>1 DEF Unseen
  <2> QED
    BY <1>5, <1>6, <2>1, <2>2
<1>14. ItemsThere'
  <2>1. ASSUME NEW m \in Unseen(job.n)' PROVE Lies(m)'
    <3>1. PICK d \in today : m = Mark(d) /\ d \in Landing(Today)
      BY <1>13, <2>1
    <3>2. PICK i \in DOMAIN Ledger : d.row = Ledger[i]
      BY <1>0, <1>2 DEF PlanFromLedger
    <3>3. ReplayItem(d) \in inbox
      BY <1>0, <1>1, <3>1 DEF ItemsThere
    <3>4. d.row # NoRow /\ d.row.to \in Seats /\ d.row.name[1] # "audit"
      BY <3>2, ReplayInputs, ReplayBounds
    <3> QED
      BY <1>1, <1>6, <3>1, <3>3, <3>4 DEF Lies, ReplayItem, Key
  <2>2. ASSUME NEW n \in 1 .. spent.replays
        PROVE  /\ Unseen(n)' # {} => n \in died \/ n = job.n
               /\ \A m, k \in Unseen(n)' : m.date = k.date
    <3>1. CASE n = job.n
      <4>1. ASSUME NEW m \in Unseen(job.n)' PROVE m.date = Min(job.days)
        BY <1>2, <1>6, <1>13, <4>1
      <4>2. Unseen(n)' = Unseen(job.n)'
        BY <1>3, <3>1 DEF Unseen
      <4> QED
        BY <3>1, <4>1, <4>2
    <3>2. CASE n # job.n
      <4>1. Unseen(n)' = Unseen(n)
        BY <1>1, <1>5, <1>6, <3>2 DEF Unseen
      <4> QED
        BY <1>0, <3>2, <4>1 DEF ItemsThere
    <3> QED
      BY <3>1, <3>2
  <2> QED
    BY <1>1, <1>3, <1>4, <2>1, <2>2 DEF ItemsThere, Unseen
<1>15. Blamed' /\ Linted'
  <2>1. GitStatus' = GitStatus
    BY <1>1 DEF GitStatus, Memory, Path
  <2>2. Owners(GitStatus \ job.runtime)' \subseteq owners
    BY <2>1 DEF Owners, owners
  <2> QED
    BY <1>3, <2>2 DEF Blamed, Linted, Ticking
<1> QED
  BY <1>7, <1>8, <1>9, <1>10, <1>11, <1>14, <1>15 DEF ReplayStrong
-----------------------------------------------------------------------------
(* Git status grows by what a step writes: the files of the seats in E, and *)
(* the paths in P.                                                         *)
LEMMA StatusGrows ==
    ASSUME NEW E, NEW P, UNCHANGED head, edited' \subseteq edited \cup E,
           \A f \in inbox' : f \in inbox \/ f.to \in E \/ Path(f) \in P,
           \A f \in inbox : f \in inbox' \/ f.to \in E
    PROVE  \A p \in GitStatus' : p \in GitStatus \/ p.owner \in E \/ p \in P
<1> SUFFICES ASSUME NEW p \in GitStatus'
             PROVE  p \in GitStatus \/ p.owner \in E \/ p \in P
  OBVIOUS
<1>1. CASE \E a \in edited' : p = Memory(a)
  BY <1>1 DEF GitStatus, Memory
<1>2. CASE \E f \in inbox' \ head : p = Path(f)
  BY <1>2 DEF GitStatus, Path
<1>3. CASE \E f \in head \ inbox' : p = Path(f)
  BY <1>3 DEF GitStatus, Path
<1> QED
  BY <1>1, <1>2, <1>3 DEF GitStatus, Memory, Path

LEMMA WakeStrong ==
    ASSUME ReplayStrong, Wake
    PROVE  ReplayStrong'
<1>0. Types /\ JobTyped /\ PlanFromLedger /\ MarkedOnce /\ ItemsMarked /\ ItemsThere /\ Blamed
  BY DEF ReplayStrong
<1> DEFINE found == {[key |-> Key(f.row), n |-> f.n, dup |-> f.dup] : f \in {f \in inbox : f.row # NoRow}}
           Due(others) == ({a \in Seats : HasMail(a)} \cup others) \ job.invoked
           Of(due, did, kinds) == {a \in due : did[a] \in kinds}
<1>1. /\ job.pc = "wake" /\ seen' = seen \cup found
      /\ UNCHANGED <<head, told, cycles, marks, audit, graded, exposed, died, spent>>
  BY SMTT(60) DEF Wake, At
<1>2. PICK others \in Others :
        /\ Due(others) # {}
        /\ \E did \in [Due(others) -> Outcomes] :
             LET active == Of(Due(others), did, {"works", "sloppy", "half"})
             IN  /\ inbox' = {f \in inbox : f.to \notin active}
                 /\ edited' = edited \cup active
                 /\ broken' = (broken \ Of(Due(others), did, {"works", "half"}))
                                \cup Of(Due(others), did, {"sloppy"})
                 /\ logged' = [a \in Seats |-> IF a \in Of(Due(others), did, {"works", "half"})
                                               THEN job.cycle ELSE logged[a]]
                 /\ job' = [job EXCEPT !.pc = "deliver", !.invoked = @ \cup Due(others),
                              !.ok = @ \cup Of(Due(others), did, {"works", "sloppy"}),
                              !.posts = Of(Due(others), did, {"works"}),
                              !.blame = @ \cup Of(Due(others), did, {"half"})]
  BY DEF Wake
<1>3. PICK due : due = Due(others)
  OBVIOUS
<1>4. due # {} /\ due \subseteq Seats /\ \A f \in inbox : f.to \in Seats => f.to \in due \cup job.invoked
  BY <1>2, <1>3, ReplayInputs DEF HasMail
<1> HIDE DEF Due, Of
<1>5. \E did \in [due -> Outcomes] :
             LET active == Of(due, did, {"works", "sloppy", "half"})
             IN  /\ inbox' = {f \in inbox : f.to \notin active}
                 /\ edited' = edited \cup active
                 /\ broken' = (broken \ Of(due, did, {"works", "half"})) \cup Of(due, did, {"sloppy"})
                 /\ logged' = [a \in Seats |-> IF a \in Of(due, did, {"works", "half"})
                                               THEN job.cycle ELSE logged[a]]
                 /\ job' = [job EXCEPT !.pc = "deliver", !.invoked = @ \cup due,
                              !.ok = @ \cup Of(due, did, {"works", "sloppy"}),
                              !.posts = Of(due, did, {"works"}),
                              !.blame = @ \cup Of(due, did, {"half"})]
  BY <1>2, <1>3, ZenonT(60)
<1> USE DEF Of
<1>6. \E works, sloppy, half \in SUBSET due :
        /\ inbox' = {f \in inbox : f.to \notin works \cup sloppy \cup half}
        /\ edited' = edited \cup (works \cup sloppy \cup half)
        /\ broken' \subseteq broken \cup sloppy
        /\ \E mine : logged' = [a \in Seats |-> IF a \in mine THEN job.cycle ELSE logged[a]]
        /\ job' = [job EXCEPT !.pc = "deliver", !.invoked = job.invoked \cup due,
                     !.ok = job.ok \cup (works \cup sloppy), !.posts = works, !.blame = job.blame \cup half]
  <2>1. PICK did \in [due -> Outcomes] :
             LET active == Of(due, did, {"works", "sloppy", "half"})
             IN  /\ inbox' = {f \in inbox : f.to \notin active}
                 /\ edited' = edited \cup active
                 /\ broken' = (broken \ Of(due, did, {"works", "half"})) \cup Of(due, did, {"sloppy"})
                 /\ logged' = [a \in Seats |-> IF a \in Of(due, did, {"works", "half"})
                                               THEN job.cycle ELSE logged[a]]
                 /\ job' = [job EXCEPT !.pc = "deliver", !.invoked = @ \cup due,
                              !.ok = @ \cup Of(due, did, {"works", "sloppy"}),
                              !.posts = Of(due, did, {"works"}),
                              !.blame = @ \cup Of(due, did, {"half"})]
    BY <1>5
  <2>2. PICK w, s, h, wh \in SUBSET due :
          /\ w = Of(due, did, {"works"}) /\ s = Of(due, did, {"sloppy"}) /\ h = Of(due, did, {"half"})
          /\ wh = Of(due, did, {"works", "half"})
    OBVIOUS
  <2>3. /\ Of(due, did, {"works", "sloppy", "half"}) = w \cup s \cup h
        /\ Of(due, did, {"works", "sloppy"}) = w \cup s
    BY <2>2
  <2> HIDE DEF Of
  <2>4. /\ inbox' = {f \in inbox : f.to \notin w \cup s \cup h}
        /\ edited' = edited \cup (w \cup s \cup h)
        /\ broken' \subseteq broken \cup s
        /\ logged' = [a \in Seats |-> IF a \in wh THEN job.cycle ELSE logged[a]]
        /\ job' = [job EXCEPT !.pc = "deliver", !.invoked = job.invoked \cup due,
                     !.ok = job.ok \cup (w \cup s), !.posts = w, !.blame = job.blame \cup h]
    BY <2>1, <2>2, <2>3
  <2> QED
    BY <2>4
<1> HIDE DEF Of
<1>7. PICK works, sloppy, half \in SUBSET due :
        /\ inbox' = {f \in inbox : f.to \notin works \cup sloppy \cup half}
        /\ edited' = edited \cup (works \cup sloppy \cup half)
        /\ broken' \subseteq broken \cup sloppy
        /\ \E mine : logged' = [a \in Seats |-> IF a \in mine THEN job.cycle ELSE logged[a]]
        /\ job' = [job EXCEPT !.pc = "deliver", !.invoked = job.invoked \cup due,
                     !.ok = job.ok \cup (works \cup sloppy), !.posts = works, !.blame = job.blame \cup half]
  BY <1>6
<1>8. /\ IsJob(job)' /\ job'.pc = "deliver" /\ job'.n = job.n /\ job'.plan = job.plan
      /\ job'.cycle = job.cycle /\ job'.runtime = job.runtime /\ job'.invoked = job.invoked \cup due
      /\ job'.ok = job.ok \cup (works \cup sloppy) /\ job'.blame = job.blame \cup half
  BY <1>0, <1>7 DEF JobTyped, IsJob
<1>9. Types'
  <2>1. logged' \in [Seats -> 0 .. (cycles + 1)]
    BY <1>0, <1>1, <1>7 DEF Types, JobTyped, Ticking
  <2>2. edited' \cup broken' \subseteq Seats
    BY <1>0, <1>4, <1>7 DEF Types
  <2>3. \A f, g \in inbox' : Path(f) = Path(g) => f = g
    BY <1>0, <1>7 DEF Types
  <2> QED
    BY <1>0, <1>1, <2>1, <2>2, <2>3 DEF Types, Path
<1>10. JobTyped'
  <2>1. job'.ok \subseteq Seats /\ job'.invoked \subseteq Seats /\ job'.invoked # {}
    BY <1>0, <1>4, <1>8 DEF JobTyped
  <2> QED
    BY <1>0, <1>1, <1>8, <2>1 DEF JobTyped, Steps, Between, Ticking
<1>11. PlanFromLedger' /\ MarkedOnce'
  BY <1>0, <1>1, <1>8 DEF PlanFromLedger, MarkedOnce, Key
<1>12. ItemsMarked'
  <2>1. \A key, n : MarkedBy(key, n)' <=> MarkedBy(key, n)
    BY <1>1 DEF MarkedBy
  <2>2. \A f \in inbox : f.row # NoRow => MarkedBy(Key(f.row), f.n)
    BY <1>0, <1>1 DEF ItemsMarked
  <2>3. \A s \in seen' : MarkedBy(s.key, s.n)'
    <3>1. ASSUME NEW s \in found PROVE MarkedBy(s.key, s.n)
      BY <2>2
    <3>2. \A s \in seen : MarkedBy(s.key, s.n)
      BY <1>0 DEF ItemsMarked
    <3> QED
      BY <1>1, <2>1, <3>1, <3>2
  <2>4. \A f \in inbox' : f.row # NoRow => MarkedBy(Key(f.row), f.n)'
    BY <1>7, <2>1, <2>2
  <2> QED
    BY <2>3, <2>4 DEF ItemsMarked, Key
<1>13. ItemsThere'
  <2>1. ASSUME NEW n PROVE Unseen(n)' \subseteq Unseen(n)
    BY <1>1 DEF Unseen
  <2>2. ASSUME job.invoked = {} PROVE Unseen(job.n)' = {}
    <3>1. SUFFICES ASSUME NEW m \in Unseen(job.n)' PROVE FALSE
      BY <1>8 DEF Unseen
    <3>2. m \in Unseen(job.n) /\ m.n = job.n /\ [key |-> m.of, n |-> job.n, dup |-> m.dup] \notin seen'
      BY <1>8, <2>1 DEF Unseen
    <3>3. PICK f \in inbox : f.row # NoRow /\ Key(f.row) = m.of /\ f.n = m.n /\ f.dup = m.dup
      BY <1>0, <1>1, <2>2, <3>2 DEF ItemsThere, Lies
    <3>4. [key |-> m.of, n |-> job.n, dup |-> m.dup] \in found
      BY <3>2, <3>3
    <3> QED
      BY <1>1, <3>2, <3>4
  <2>3. ASSUME NEW n \in 1 .. spent.replays
        PROVE  /\ Unseen(n)' # {} => n \in died
               /\ \A m, k \in Unseen(n)' : m.date = k.date
    <3>1. CASE n = job.n /\ job.invoked = {}
      <4>1. Unseen(n)' = {}
        BY <1>8, <2>2, <3>1 DEF Unseen
      <4> QED
        BY <4>1
    <3>2. CASE n # job.n \/ job.invoked # {}
      BY <1>0, <2>1, <3>2 DEF ItemsThere
    <3> QED
      BY <3>1, <3>2
  <2> QED
    BY <1>1, <1>8, <2>3 DEF ItemsThere
<1>14. Blamed' /\ Linted'
  <2>1. \A p \in GitStatus' : p \in GitStatus \/ p.owner \in works \cup sloppy \cup half
    <3>1. \A p \in GitStatus' : p \in GitStatus \/ p.owner \in works \cup sloppy \cup half \/ p \in {}
      <4>1. \A f \in inbox' : f \in inbox
        BY <1>7
      <4>2. \A f \in inbox : f \in inbox' \/ f.to \in works \cup sloppy \cup half
        BY <1>7
      <4>3. edited' \subseteq edited \cup (works \cup sloppy \cup half) /\ UNCHANGED head
        BY <1>1, <1>7
      <4> QED
        BY <4>1, <4>2, <4>3, StatusGrows
    <3> QED
      BY <3>1
  <2>2. \A p \in GitStatus \ job.runtime : p.owner \in job.ok \cup job.blame
    BY <1>0, <1>1 DEF Blamed, Ticking, Owners
  <2>3. \A p \in GitStatus' \ job'.runtime : p.owner \in job'.ok \cup job'.blame
    BY <1>8, <2>1, <2>2
  <2> QED
    BY <1>8, <2>3 DEF Blamed, Linted, Owners
<1> QED
  BY <1>9, <1>10, <1>11, <1>12, <1>13, <1>14 DEF ReplayStrong
LEMMA DeliverAndStampStrong ==
    ASSUME ReplayStrong, DeliverAndStamp
    PROVE  ReplayStrong'
<1>0. Types /\ JobTyped /\ Blamed
  BY DEF ReplayStrong
<1> DEFINE New(to) == {Notice(a, to[a]) : a \in {a \in job.posts : to[a] # NoSeat}}
           Paths(to) == {Path(f) : f \in New(to)}
<1>1. /\ job.pc = "deliver" /\ cycles' = IF job.ok = {} THEN cycles ELSE job.cycle
      /\ UNCHANGED <<head, edited, broken, logged, marks, audit, graded, seen, exposed, died, spent>>
  BY DEF DeliverAndStamp, At
<1>2. PICK to \in [job.posts -> Seats \cup {NoSeat}] :
        /\ \A f \in New(to) : f.name # <<"notify", f.to>> /\ \A g \in inbox : Path(g) # Path(f)
        /\ inbox' = inbox \cup New(to)
        /\ told' = [b \in Seats |-> IF \E f \in New(to) : f.to = b THEN job.cycle ELSE told[b]]
        /\ job' = [job EXCEPT !.pc = "wake", !.posts = {}, !.runtime = @ \cup Paths(to)]
  BY Zenon DEF DeliverAndStamp, New, Paths
<1>3. /\ \A f \in New(to) : f.row = NoRow
      /\ \A f, g \in New(to) : Path(f) = Path(g) => f = g
      /\ \A f \in New(to) : Path(f) \in Paths(to)
  <2>1. \A f \in New(to) : \E a \in job.posts : f = Notice(a, to[a])
    OBVIOUS
  <2>2. \A f \in New(to) : \A g \in New(to) : Path(f) = Path(g) => f = g
    <3>1. SUFFICES ASSUME NEW f \in New(to), NEW g \in New(to), Path(f) = Path(g) PROVE f = g
      OBVIOUS
    <3>2. PICK a \in job.posts : f = Notice(a, to[a])
      BY <2>1
    <3>3. PICK b \in job.posts : g = Notice(b, to[b])
      BY <2>1
    <3>4. <<"notify", a>> = <<"notify", b>>
      BY <3>1, <3>2, <3>3 DEF Notice, Path
    <3>5. a = b
      BY <3>4
    <3> QED
      BY <3>2, <3>3, <3>5
  <2>3. \A f \in New(to) : f.row = NoRow
    BY <2>1 DEF Notice
  <2> QED
    BY <2>2, <2>3
<1> HIDE DEF New, Paths
<1>4. /\ IsJob(job)' /\ job'.pc = "wake" /\ job'.n = job.n /\ job'.plan = job.plan
      /\ job'.cycle = job.cycle /\ job'.runtime = job.runtime \cup Paths(to)
      /\ job'.invoked = job.invoked /\ job'.ok = job.ok /\ job'.blame = job.blame
  BY <1>0, <1>2 DEF JobTyped, IsJob
<1>5. /\ cycles \in Nat /\ cycles' \in {cycles, cycles + 1} /\ job.cycle \in {cycles, cycles + 1}
      /\ job.cycle \in {cycles', cycles' + 1}
  <2>1. cycles \in Nat /\ job.cycle \in {cycles, cycles + 1}
    BY <1>0, <1>1 DEF Types, JobTyped, Ticking
  <2> QED
    BY <1>1, <2>1
<1>6. Types'
  <2>1. \A f, g \in inbox' : Path(f) = Path(g) => f = g
    BY <1>0, <1>2, <1>3 DEF Types
  <2>2. 0 .. (cycles + 1) \subseteq 0 .. (cycles' + 1)
    <3>1. CASE cycles' = cycles
      BY <3>1
    <3>2. CASE cycles' = cycles + 1
      BY <1>5, <3>2
    <3> QED
      BY <1>5, <3>1, <3>2
  <2>3. told' \in [Seats -> 0 .. (cycles' + 1)]
    BY <1>0, <1>2, <1>5, <2>2 DEF Types
  <2>4. logged' \in [Seats -> 0 .. (cycles' + 1)]
    BY <1>0, <1>1, <2>2 DEF Types
  <2> QED
    BY <1>0, <1>1, <1>5, <2>1, <2>3, <2>4 DEF Types, Path
<1>7. JobTyped'
  BY <1>0, <1>1, <1>4, <1>5 DEF JobTyped, Steps, Between, Ticking
<1>8. PlanFromLedger' /\ MarkedOnce' /\ ItemsMarked' /\ ItemsThere'
  <2>1. job.invoked # {}
    BY <1>0, <1>1 DEF JobTyped
  <2>2. \A f \in inbox' : f.row # NoRow => f \in inbox
    BY <1>2, <1>3
  <2> QED
    BY <1>1, <1>4, <2>1, <2>2, ReplayKept
<1>9. Blamed' /\ Linted'
  <2>1. \A p \in GitStatus' : p \in GitStatus \/ p \in Paths(to)
    <3>0. PICK none : none = {}
      OBVIOUS
    <3>1. \A f \in inbox' : f \in inbox \/ f.to \in none \/ Path(f) \in Paths(to)
      BY <1>2, <1>3
    <3>2. \A f \in inbox : f \in inbox' \/ f.to \in none
      BY <1>2
    <3>3. edited' \subseteq edited \cup none /\ UNCHANGED head
      BY <1>1
    <3>4. \A p \in GitStatus' : p \in GitStatus \/ p.owner \in none \/ p \in Paths(to)
      BY <3>1, <3>2, <3>3, StatusGrows
    <3> QED
      BY <3>0, <3>4
  <2>2. \A p \in GitStatus \ job.runtime : p.owner \in job.ok \cup job.blame
    BY <1>0, <1>1 DEF Blamed, Ticking, Owners
  <2>3. \A p \in GitStatus' \ job'.runtime : p.owner \in job'.ok \cup job'.blame
    BY <1>4, <2>1, <2>2
  <2> QED
    BY <1>4, <2>3 DEF Blamed, Linted, Owners
<1> QED
  BY <1>6, <1>7, <1>8, <1>9 DEF ReplayStrong
-----------------------------------------------------------------------------
(* After the last round.                                                   *)
LEMMA StartPostStrong ==
    ASSUME ReplayStrong, StartPost
    PROVE  ReplayStrong'
<1>0. Types /\ JobTyped /\ ItemsThere /\ Blamed
  BY DEF ReplayStrong
<1> DEFINE paths == IF job.ok = {} THEN {} ELSE GitStatus \ job.runtime
<1>1. /\ job.pc = "wake" /\ \A a \in Seats : HasMail(a) => a \in job.invoked
      /\ IF job.invoked = {} THEN Return
         ELSE job' = [job EXCEPT !.pc = "lint", !.late = {}, !.diff = paths]
      /\ UNCHANGED <<inbox, head, edited, broken, logged, told>>
      /\ UNCHANGED <<cycles, marks, audit, graded, seen, exposed, died, spent>>
  BY DEF StartPost, At, tree
<1>2. GitStatus' = GitStatus
  BY <1>1 DEF GitStatus, Memory, Path
<1>3. Types'
  BY <1>0, <1>1 DEF Types, Path
<1>4. CASE job.invoked = {}
  <2>1. Return
    BY <1>1, <1>4
  <2>2. /\ JobTyped' /\ job'.pc \in {"idle", "day"} /\ job'.invoked = {}
        /\ job'.plan = {} \/ (job'.n = job.n /\ job'.plan = job.plan)
    BY <1>1, <2>1, ReturnTyped
  <2>3. Unseen(job.n) = {}
    BY <1>0, <1>1, <1>4 DEF ItemsThere, Lies, HasMail
  <2>4. PlanFromLedger' /\ MarkedOnce' /\ ItemsMarked' /\ ItemsThere'
    BY <1>1, <2>2, <2>3, ReplayKept
  <2>5. Blamed' /\ Linted'
    BY <2>2, NotTicking DEF Ticking
  <2> QED
    BY <1>3, <2>2, <2>4, <2>5 DEF ReplayStrong
<1>5. CASE job.invoked # {}
  <2>1. job' = [job EXCEPT !.pc = "lint", !.late = {}, !.diff = paths]
    BY <1>1, <1>5
  <2>2. \A p \in paths : p \in GitStatus \ job.runtime
    OBVIOUS
  <2>3. job.ok # {} => paths = GitStatus \ job.runtime
    OBVIOUS
  <2> HIDE DEF paths
  <2>4. /\ IsJob(job)' /\ job'.pc = "lint" /\ job'.n = job.n /\ job'.plan = job.plan
        /\ job'.cycle = job.cycle /\ job'.runtime = job.runtime /\ job'.diff = paths
        /\ job'.invoked = job.invoked /\ job'.ok = job.ok /\ job'.blame = job.blame /\ job'.late = {}
    BY <1>0, <2>1 DEF JobTyped, IsJob
  <2>5. JobTyped'
    BY <1>0, <1>1, <2>4 DEF JobTyped, Steps, Between, Ticking
  <2>6. PlanFromLedger' /\ MarkedOnce' /\ ItemsMarked' /\ ItemsThere'
    BY <1>1, <1>5, <2>4, ReplayKept
  <2>7. Blamed'
    BY <1>0, <1>1, <1>2, <2>2, <2>4 DEF Blamed, Ticking, Owners
  <2>8. Linted'
    BY <1>2, <2>3, <2>4 DEF Linted, Owners
  <2> QED
    BY <1>3, <2>5, <2>6, <2>7, <2>8 DEF ReplayStrong
<1> QED
  BY <1>4, <1>5

LEMMA LintPassesStrong ==
    ASSUME ReplayStrong, LintPasses
    PROVE  ReplayStrong'
<1>0. Types /\ JobTyped /\ Blamed /\ Linted
  BY DEF ReplayStrong
<1>1. /\ job.pc = "lint" /\ Findings = {}
      /\ IF job.mode.commit THEN job' = [job EXCEPT !.pc = "commit"] ELSE Return
      /\ UNCHANGED <<inbox, head, edited, broken, logged, told>>
      /\ UNCHANGED <<cycles, marks, audit, graded, seen, exposed, died, spent>>
  BY DEF LintPasses, At, tree
<1>2. GitStatus' = GitStatus
  BY <1>1 DEF GitStatus, Memory, Path
<1>3. Types'
  BY <1>0, <1>1 DEF Types, Path
<1>4. CASE ~job.mode.commit
  <2>1. Return
    BY <1>1, <1>4
  <2>2. /\ JobTyped' /\ job'.pc \in {"idle", "day"} /\ job'.invoked = {}
        /\ job'.plan = {} \/ (job'.n = job.n /\ job'.plan = job.plan)
    BY <1>1, <2>1, ReturnTyped
  <2>3. PlanFromLedger' /\ MarkedOnce' /\ ItemsMarked' /\ ItemsThere'
    BY <1>1, <2>2, ReplayKept
  <2>4. Blamed' /\ Linted'
    BY <2>2, NotTicking DEF Ticking
  <2> QED
    BY <1>3, <2>2, <2>3, <2>4 DEF ReplayStrong
<1>5. CASE job.mode.commit
  <2>1. job' = [job EXCEPT !.pc = "commit"]
    BY <1>1, <1>5
  <2>2. /\ IsJob(job)' /\ job'.pc = "commit" /\ job'.n = job.n /\ job'.plan = job.plan
        /\ job'.cycle = job.cycle /\ job'.runtime = job.runtime /\ job'.diff = job.diff
        /\ job'.invoked = job.invoked /\ job'.ok = job.ok /\ job'.blame = job.blame
        /\ job'.late = job.late
    BY <1>0, <2>1 DEF JobTyped, IsJob
  <2>3. JobTyped'
    BY <1>0, <1>1, <2>2 DEF JobTyped, Steps, Between, Ticking
  <2>4. PlanFromLedger' /\ MarkedOnce' /\ ItemsMarked' /\ ItemsThere'
    BY <1>1, <2>2, ReplayKept
  <2>5. Blamed'
    BY <1>0, <1>1, <1>2, <2>2 DEF Blamed, Ticking, Owners
  <2>6. Linted'
    <3>1. SUFFICES ASSUME job.ok # {}
                   PROVE  /\ Owners(GitStatus \ job.runtime) \subseteq Owners(job.diff) \cup job.late
                          /\ Owners(job.diff) \subseteq job.ok
                          /\ broken = {}
                          /\ \A a \in job.ok : logged[a] = job.cycle
      BY <1>1, <1>2, <2>2 DEF Linted, Owners
    <3>2. Owners(GitStatus \ job.runtime) \subseteq Owners(job.diff) \cup job.late
      BY <1>0, <1>1, <3>1 DEF Linted
    <3>3. Owners(job.diff) \subseteq job.ok
      BY <1>1, <3>1 DEF Findings, Accused, Trespassed
    <3>4. broken = {}
      BY <1>1 DEF Findings, Accused, Invalid
    <3>5. \A a \in job.ok : logged[a] = job.cycle
      BY <1>0, <1>1, <3>1 DEF Findings, Accused, Silent, JobTyped
    <3> QED
      BY <3>2, <3>3, <3>4, <3>5
  <2> QED
    BY <1>3, <2>3, <2>4, <2>5, <2>6 DEF ReplayStrong
<1> QED
  BY <1>4, <1>5

(* LintFails, RepairThrows: whatever a repair has left of the seats' files.*)
LEMMA FailStrong ==
    ASSUME ReplayStrong, job.pc = "lint", Fail,
           UNCHANGED <<inbox, head, told, cycles, marks, audit, graded, seen, exposed, spent>>,
           edited' \subseteq Seats, broken' \subseteq Seats,
           logged' \in [Seats -> 0 .. (cycles + 1)]
    PROVE  ReplayStrong'
<1>0. Types
  BY DEF ReplayStrong
<1>1. UNCHANGED <<inbox, head, told, cycles, marks, seen, exposed, spent>>
  OBVIOUS
<1>2. /\ JobTyped' /\ job'.pc = "idle" /\ job'.plan = {}
      /\ died \subseteq died' /\ died' \subseteq 1 .. spent.replays
  BY <1>1, FailTyped
<1>3. Types'
  BY <1>0, <1>1, <1>2 DEF Types, Path
<1>4. PlanFromLedger' /\ MarkedOnce' /\ ItemsMarked' /\ ItemsThere'
  BY <1>1, <1>2, ReplayKept
<1>5. Blamed' /\ Linted'
  BY <1>2, NotTicking DEF Ticking
<1> QED
  BY <1>2, <1>3, <1>4, <1>5 DEF ReplayStrong

LEMMA RepairStrong ==
    ASSUME ReplayStrong, Repair
    PROVE  ReplayStrong'
<1>0. Types /\ JobTyped /\ Blamed
  BY DEF ReplayStrong
<1>1. /\ job.pc = "lint"
      /\ UNCHANGED <<inbox, head, told, cycles, marks, audit, graded, seen, exposed, died, spent>>
  BY DEF Repair, At
<1>2. PICK asked \in SUBSET Seats : \E mended \in SUBSET asked :
        /\ edited' = edited \cup mended
        /\ broken' = broken \ mended
        /\ logged' = [a \in Seats |-> IF a \in mended THEN job.cycle ELSE logged[a]]
        /\ job' = [job EXCEPT !.pc = "status", !.ok = @ \cup asked, !.round = @ + 1]
  BY DEF Repair
<1>3. PICK mended \in SUBSET asked :
        /\ edited' = edited \cup mended
        /\ broken' = broken \ mended
        /\ logged' = [a \in Seats |-> IF a \in mended THEN job.cycle ELSE logged[a]]
        /\ job' = [job EXCEPT !.pc = "status", !.ok = @ \cup asked, !.round = @ + 1]
  BY <1>2
<1>4. /\ IsJob(job)' /\ job'.pc = "status" /\ job'.n = job.n /\ job'.plan = job.plan
      /\ job'.cycle = job.cycle /\ job'.runtime = job.runtime
      /\ job'.invoked = job.invoked /\ job'.ok = job.ok \cup asked /\ job'.blame = job.blame
  BY <1>0, <1>3 DEF JobTyped, IsJob
<1>5. Types'
  <2>1. logged' \in [Seats -> 0 .. (cycles + 1)]
    BY <1>0, <1>1, <1>3 DEF Types, JobTyped, Ticking
  <2> QED
    BY <1>0, <1>1, <1>3, <2>1 DEF Types, Path
<1>6. JobTyped'
  <2>1. job'.ok \subseteq Seats
    BY <1>0, <1>4 DEF JobTyped
  <2> QED
    BY <1>0, <1>1, <1>4, <2>1 DEF JobTyped, Steps, Between, Ticking
<1>7. PlanFromLedger' /\ MarkedOnce' /\ ItemsMarked' /\ ItemsThere'
  BY <1>1, <1>4, ReplayKept
<1>8. Blamed' /\ Linted'
  <2>1. \A p \in GitStatus' : p \in GitStatus \/ p.owner \in mended \/ p \in {}
    BY <1>1, <1>3, StatusGrows
  <2>2. \A p \in GitStatus \ job.runtime : p.owner \in job.ok \cup job.blame
    BY <1>0, <1>1 DEF Blamed, Ticking, Owners
  <2>3. \A p \in GitStatus' \ job'.runtime : p.owner \in job'.ok \cup job'.blame
    BY <1>4, <2>1, <2>2
  <2> QED
    BY <1>4, <2>3 DEF Blamed, Linted, Owners
<1> QED
  BY <1>5, <1>6, <1>7, <1>8 DEF ReplayStrong
LEMMA ReadStatusStrong ==
    ASSUME ReplayStrong, ReadStatus
    PROVE  ReplayStrong'
<1>0. Types /\ JobTyped /\ Blamed
  BY DEF ReplayStrong
<1> DEFINE paths == GitStatus \ job.runtime
<1>1. /\ job.pc = "status" /\ job' = [job EXCEPT !.pc = "lint", !.diff = paths, !.late = {}]
      /\ UNCHANGED <<inbox, head, edited, broken, logged, told>>
      /\ UNCHANGED <<cycles, marks, audit, graded, seen, exposed, died, spent>>
  BY DEF ReadStatus, At, tree
<1>2. GitStatus' = GitStatus
  BY <1>1 DEF GitStatus, Memory, Path
<1>3. paths = GitStatus \ job.runtime
  OBVIOUS
<1> HIDE DEF paths
<1>4. /\ IsJob(job)' /\ job'.pc = "lint" /\ job'.n = job.n /\ job'.plan = job.plan
      /\ job'.cycle = job.cycle /\ job'.runtime = job.runtime /\ job'.diff = paths
      /\ job'.invoked = job.invoked /\ job'.ok = job.ok /\ job'.blame = job.blame
  BY <1>0, <1>1 DEF JobTyped, IsJob
<1>5. Types'
  BY <1>0, <1>1 DEF Types, Path
<1>6. JobTyped'
  BY <1>0, <1>1, <1>4 DEF JobTyped, Steps, Between, Ticking
<1>7. PlanFromLedger' /\ MarkedOnce' /\ ItemsMarked' /\ ItemsThere'
  BY <1>1, <1>4, ReplayKept
<1>8. Blamed'
  BY <1>0, <1>1, <1>2, <1>3, <1>4 DEF Blamed, Ticking, Owners
<1>9. Linted'
  BY <1>2, <1>3, <1>4 DEF Linted, Owners
<1> QED
  BY <1>5, <1>6, <1>7, <1>8, <1>9 DEF ReplayStrong

LEMMA CommitStrong ==
    ASSUME ReplayStrong, Commit
    PROVE  ReplayStrong'
<1>0. Types
  BY DEF ReplayStrong
<1>1. /\ job.pc = "commit" /\ edited' = {} /\ Return
      /\ UNCHANGED <<inbox, broken, logged, told, cycles, marks, audit, graded, seen, exposed, died, spent>>
  BY DEF Commit, At
<1>2. Types'
  BY <1>0, <1>1 DEF Types, Path
<1>3. /\ JobTyped' /\ job'.pc \in {"idle", "day"} /\ job'.invoked = {}
      /\ job'.plan = {} \/ (job'.n = job.n /\ job'.plan = job.plan)
  BY <1>1, ReturnTyped
<1>4. PlanFromLedger' /\ MarkedOnce' /\ ItemsMarked' /\ ItemsThere'
  BY <1>1, <1>3, ReplayKept
<1>5. Blamed' /\ Linted'
  BY <1>3, NotTicking DEF Ticking
<1> QED
  BY <1>2, <1>3, <1>4, <1>5 DEF ReplayStrong
-----------------------------------------------------------------------------
(* StartAudit, CrashAudit, and a step that is none.                        *)
LEMMA QuietStrong ==
    ASSUME ReplayStrong, UNCHANGED <<tree, cycles, marks, job, seen, exposed, died>>,
           spent' \in [{"replays", "ticks", "audits", "crashes"} -> Nat],
           spent'.replays = spent.replays
    PROVE  ReplayStrong'
<1>0. Types /\ JobTyped /\ PlanFromLedger /\ MarkedOnce /\ ItemsMarked /\ ItemsThere /\ Blamed /\ Linted
  BY DEF ReplayStrong
<1>1. UNCHANGED <<inbox, head, edited, broken, logged, told, cycles, marks, job, seen, exposed, died>>
  BY DEF tree
<1>2. GitStatus' = GitStatus
  BY <1>1 DEF GitStatus, Memory, Path
<1>3. Types'
  BY <1>0, <1>1 DEF Types, Path
<1>4. JobTyped'
  BY <1>0, <1>1 DEF JobTyped, IsJob, Idle
<1>5. PlanFromLedger' /\ MarkedOnce'
  BY <1>0, <1>1 DEF PlanFromLedger, MarkedOnce, Key
<1>6. ItemsMarked'
  BY <1>0, <1>1 DEF ItemsMarked, MarkedBy, Key, Today
<1>7. ItemsThere'
  <2>1. \A n : Unseen(n)' = Unseen(n)
    BY <1>1 DEF Unseen
  <2>2. Unseen(job.n)' = Unseen(job.n)
    BY <1>1 DEF Unseen
  <2>3. Landing(Today)' = Landing(Today)
    BY <1>1 DEF Today, Landing, Outlasts
  <2>4. \A d : ReplayItem(d)' = ReplayItem(d)
    BY <1>1 DEF ReplayItem
  <2>5. \A m : Lies(m)' <=> Lies(m)
    BY <1>1 DEF Lies, Key
  <2> QED
    BY <1>0, <1>1, <2>1, <2>2, <2>3, <2>4, <2>5 DEF ItemsThere
<1>8. Blamed' /\ Linted'
  BY <1>0, <1>1, <1>2 DEF Blamed, Linted, Owners
<1> QED
  BY <1>3, <1>4, <1>5, <1>6, <1>7, <1>8 DEF ReplayStrong

(* A finding comes at any time, over no item of a replay.                  *)
LEMMA DeliverFindingStrong ==
    ASSUME ReplayStrong, DeliverFinding
    PROVE  ReplayStrong'
<1>0. Types /\ JobTyped /\ PlanFromLedger /\ MarkedOnce /\ ItemsMarked /\ ItemsThere /\ Blamed /\ Linted
  BY DEF ReplayStrong
<1>1. PICK seat : seat = audit.report[audit.i]
  OBVIOUS
<1>2. PICK item : item = Finding(seat, audit.i)
  OBVIOUS
<1>3. /\ inbox' = Over(inbox, {item})
      /\ job' = IF job.pc = "idle" THEN job
                ELSE [job EXCEPT !.blame = @ \cup {seat}, !.late = @ \cup {seat}]
      /\ UNCHANGED <<head, edited, broken, logged, told, cycles, marks, graded, seen, exposed, died, spent>>
  BY <1>1, <1>2 DEF DeliverFinding, At
<1>4. item.to = seat /\ item.row = NoRow /\ item.name[1] = "audit"
  BY <1>2 DEF Finding
<1>5. /\ IsJob(job)' /\ job'.pc = job.pc /\ job'.n = job.n /\ job'.plan = job.plan
      /\ job'.days = job.days /\ job'.cycle = job.cycle /\ job'.runtime = job.runtime
      /\ job'.diff = job.diff /\ job'.invoked = job.invoked /\ job'.ok = job.ok
      /\ job.pc = "idle" => job' = job
      /\ job.pc # "idle" => job'.blame = job.blame \cup {seat} /\ job'.late = job.late \cup {seat}
  <2>1. CASE job.pc = "idle"
    BY <1>0, <1>3, <2>1 DEF JobTyped, IsJob
  <2>2. CASE job.pc # "idle"
    <3>1. job' = [job EXCEPT !.blame = @ \cup {seat}, !.late = @ \cup {seat}]
      BY <1>3, <2>2
    <3> QED
      BY <1>0, <2>2, <3>1 DEF JobTyped, IsJob
  <2> QED
    BY <2>1, <2>2
<1>6. /\ \A f \in inbox' : f \in inbox \/ f = item
      /\ \A f \in inbox : f \in inbox' \/ Path(f) = Path(item)
  BY <1>3 DEF Over
<1>7. Types'
  <2>1. ASSUME NEW f \in inbox', NEW g \in inbox', Path(f) = Path(g) PROVE f = g
    BY <1>0, <1>3, <2>1 DEF Types, Over
  <2> QED
    BY <1>0, <1>3, <2>1 DEF Types, Path
<1>8. JobTyped'
  <2>1. job'.pc = "idle" => job' = Idle'
    BY <1>0, <1>5 DEF JobTyped, Idle
  <2> QED
    BY <1>0, <1>3, <1>5, <2>1 DEF JobTyped, Steps, Between, Ticking
<1>9. PlanFromLedger' /\ MarkedOnce'
  BY <1>0, <1>3, <1>5 DEF PlanFromLedger, MarkedOnce, Key
<1>10. Today' = Today /\ Landing(Today)' = Landing(Today)
  BY <1>5 DEF Today, Landing, Outlasts
<1>11. ItemsMarked'
  <2>1. \A key, n : MarkedBy(key, n)' <=> MarkedBy(key, n)
    BY <1>3 DEF MarkedBy
  <2>2. \A f \in inbox' : f.row # NoRow => f \in inbox
    BY <1>4, <1>6
  <2>3. \A f \in inbox' : f.row # NoRow =>
          \/ MarkedBy(Key(f.row), f.n)'
          \/ job'.pc = "mark" /\ f.n = job'.n /\ \E d \in Today' : Key(d.row) = Key(f.row)
    BY <1>0, <1>5, <1>10, <2>1, <2>2 DEF ItemsMarked
  <2>4. \A s \in seen' : MarkedBy(s.key, s.n)'
    BY <1>0, <1>3, <2>1 DEF ItemsMarked
  <2> QED
    BY <2>3, <2>4 DEF ItemsMarked, Key
<1>12. \A f \in inbox : f.name[1] # "audit" => f \in inbox'
  BY <1>4, <1>6 DEF Path
<1>13. ItemsThere'
  <2>1. \A n : Unseen(n)' = Unseen(n)
    BY <1>3 DEF Unseen
  <2>2. \A m : Lies(m) => Lies(m)'
    BY <1>12 DEF Lies, Key
  <2>3. ASSUME job.pc = "mark", NEW d \in Landing(Today) PROVE ReplayItem(d) \in inbox'
    <3>1. PICK i \in DOMAIN Ledger : d.row = Ledger[i]
      BY <1>0 DEF PlanFromLedger, Landing, Today
    <3>2. ReplayItem(d).name[1] # "audit"
      BY <3>1, ReplayInputs DEF ReplayItem
    <3> QED
      BY <1>0, <1>12, <2>3, <3>2 DEF ItemsThere
  <2>4. job'.pc = "mark" => \A d \in Landing(Today)' : ReplayItem(d)' \in inbox'
    BY <1>5, <1>10, <2>3 DEF ReplayItem
  <2>5. job'.pc = "wake" /\ job'.invoked = {} => \A m \in Unseen(job.n) : Lies(m)'
    BY <1>0, <1>5, <2>2 DEF ItemsThere
  <2>6. Unseen(job.n)' = Unseen(job.n)
    BY <1>5, <2>1 DEF Unseen
  <2>7. \A n \in 1 .. spent'.replays :
         /\ Unseen(n)' # {} => n \in died' \/ (job'.n = n /\ job'.pc = "wake" /\ job'.invoked = {})
         /\ \A m, k \in Unseen(n)' : m.date = k.date
    BY <1>0, <1>3, <1>5, <2>1 DEF ItemsThere
  <2> QED
    BY <2>4, <2>5, <2>6, <2>7 DEF ItemsThere
<1>14. Blamed' /\ Linted'
  <2>1. PICK one : one = {seat}
    OBVIOUS
  <2>2. PICK none : none = {}
    OBVIOUS
  <2>3. \A p \in GitStatus' : p \in GitStatus \/ p.owner \in one \/ p \in none
    <3>1. \A f \in inbox' : f \in inbox \/ f.to \in one \/ Path(f) \in none
      BY <1>4, <1>6, <2>1
    <3>2. \A f \in inbox : f \in inbox' \/ f.to \in one
      BY <1>4, <1>6, <2>1 DEF Path
    <3>3. edited' \subseteq edited \cup one /\ UNCHANGED head
      BY <1>3
    <3> QED
      BY <3>1, <3>2, <3>3, StatusGrows
  <2>4. \A p \in GitStatus' : p \in GitStatus \/ p.owner = seat
    BY <2>1, <2>2, <2>3
  <2>5. Blamed'
    BY <1>0, <1>5, <2>4 DEF Blamed, Ticking, Owners
  <2>6. Linted'
    BY <1>0, <1>3, <1>5, <2>4 DEF Linted, Owners
  <2> QED
    BY <2>5, <2>6
<1> QED
  BY <1>7, <1>8, <1>9, <1>11, <1>13, <1>14 DEF ReplayStrong

LEMMA CrashJobStrong ==
    ASSUME ReplayStrong, CrashJob
    PROVE  ReplayStrong'
<1>0. Types /\ JobTyped /\ MarkedOnce /\ ItemsMarked /\ ItemsThere
  BY DEF ReplayStrong
<1>1. /\ Fail /\ spent' = [spent EXCEPT !["crashes"] = @ + 1]
      /\ exposed' = exposed \cup (IF job.pc = "mark" THEN {Key(d.row) : d \in Today} ELSE {})
      /\ UNCHANGED <<inbox, head, edited, broken, logged, told>>
      /\ UNCHANGED <<cycles, marks, audit, graded, seen>>
  BY DEF CrashJob, At, Spend, tree
<1>2. spent'.replays = spent.replays /\ spent' \in [{"replays", "ticks", "audits", "crashes"} -> Nat]
  BY <1>0, <1>1 DEF Types
<1>3. /\ JobTyped' /\ job'.pc = "idle" /\ job'.plan = {}
      /\ died \subseteq died' /\ died' \subseteq 1 .. spent.replays
      /\ job.n # 0 => job.n \in died'
  BY <1>1, <1>2, FailTyped
<1>4. Types'
  BY <1>0, <1>1, <1>2, <1>3 DEF Types, Path
<1>5. PlanFromLedger' /\ MarkedOnce'
  BY <1>0, <1>1, <1>2, <1>3 DEF PlanFromLedger, MarkedOnce, Key
<1>6. ItemsMarked'
  <2>1. \A key, n : MarkedBy(key, n) => MarkedBy(key, n)'
    BY <1>1 DEF MarkedBy
  <2>2. ASSUME NEW f \in inbox, f.row # NoRow PROVE MarkedBy(Key(f.row), f.n)'
    <3>1. CASE MarkedBy(Key(f.row), f.n)
      BY <2>1, <3>1 DEF MarkedBy, Key
    <3>2. CASE job.pc = "mark" /\ \E d \in Today : Key(d.row) = Key(f.row)
      <4>1. Key(f.row) \in exposed'
        BY <1>1, <3>2
      <4> QED
        BY <4>1 DEF MarkedBy, Key
    <3> QED
      BY <1>0, <2>2, <3>1, <3>2 DEF ItemsMarked
  <2>3. \A s \in seen : MarkedBy(s.key, s.n)'
    BY <1>0, <2>1 DEF ItemsMarked
  <2> QED
    BY <1>1, <2>2, <2>3 DEF ItemsMarked, MarkedBy, Key
<1>7. ItemsThere'
  <2>1. \A n : Unseen(n)' = Unseen(n)
    BY <1>1 DEF Unseen
  <2>2. ASSUME NEW n \in 1 .. spent.replays, Unseen(n) # {} PROVE n \in died'
    <3>1. n # 0
      BY <1>0 DEF Types
    <3> QED
      BY <1>0, <1>3, <2>2, <3>1 DEF ItemsThere
  <2>3. \A n \in 1 .. spent.replays : \A m, k \in Unseen(n) : m.date = k.date
    BY <1>0 DEF ItemsThere
  <2> QED
    BY <1>2, <1>3, <2>1, <2>2, <2>3 DEF ItemsThere
<1>8. Blamed' /\ Linted'
  BY <1>3, NotTicking DEF Ticking
<1> QED
  BY <1>3, <1>4, <1>5, <1>6, <1>7, <1>8 DEF ReplayStrong
-----------------------------------------------------------------------------
(* The invariant that the promises below rest on: where the items, the     *)
(* marks and the dirty files of a replay stand between any two steps.      *)
THEOREM ReplayIsStrong == Spec => []ReplayStrong
<1>1. Init => ReplayStrong
  BY InitStrong
<1>2. ASSUME ReplayStrong, [Next]_vars PROVE ReplayStrong'
  <2>0. Types
    BY <1>2 DEF ReplayStrong
  <2>1. CASE StartReplay \/ Scaffold \/ ResetInboxes \/ WriteDay \/ MarkDay \/ EndReplay
    BY <1>2, <2>1, StartReplayStrong, ScaffoldStrong, ResetInboxesStrong, WriteDayStrong,
       MarkDayStrong, EndReplayStrong
  <2>2. CASE StartTick \/ Wake \/ DeliverAndStamp \/ StartPost
    BY <1>2, <2>2, StartTickStrong, WakeStrong, DeliverAndStampStrong, StartPostStrong
  <2>3. CASE LintPasses \/ Repair \/ ReadStatus \/ Commit
    BY <1>2, <2>3, LintPassesStrong, RepairStrong, ReadStatusStrong, CommitStrong
  <2>4. CASE LintFails
    <3>1. job.pc = "lint" /\ Fail /\ UNCHANGED <<tree, cycles, marks, audit, graded, seen, exposed, spent>>
      BY <2>4 DEF LintFails, At
    <3>2. edited \subseteq Seats /\ broken \subseteq Seats /\ logged \in [Seats -> 0 .. (cycles + 1)]
      BY <2>0 DEF Types
    <3>3. /\ UNCHANGED <<inbox, head, told, cycles, marks, audit, graded, seen, exposed, spent>>
          /\ edited' \subseteq Seats /\ broken' \subseteq Seats
          /\ logged' \in [Seats -> 0 .. (cycles + 1)]
      BY <3>1, <3>2 DEF tree
    <3> QED
      BY <1>2, <3>1, <3>3, FailStrong
  <2>5. CASE RepairThrows
    <3>1. job.pc = "lint" /\ Fail
          /\ UNCHANGED <<inbox, head, told, cycles, marks, audit, graded, seen, exposed, spent>>
      BY <2>5 DEF RepairThrows, At
    <3>2. PICK touched \in SUBSET Seats : \E mended \in SUBSET touched :
            /\ edited' = edited \cup touched
            /\ broken' = (broken \cup touched) \ mended
            /\ logged' = [a \in Seats |-> IF a \in mended THEN job.cycle ELSE logged[a]]
      BY <2>5 DEF RepairThrows
    <3>3. job.cycle \in 0 .. (cycles + 1)
      BY <1>2, <2>0, <3>1 DEF ReplayStrong, JobTyped, Types, Ticking
    <3>4. edited' \subseteq Seats /\ broken' \subseteq Seats /\ logged' \in [Seats -> 0 .. (cycles + 1)]
      BY <2>0, <3>2, <3>3 DEF Types
    <3> QED
      BY <1>2, <3>1, <3>4, FailStrong
  <2>6. CASE DeliverFinding \/ CrashJob
    BY <1>2, <2>6, DeliverFindingStrong, CrashJobStrong
  <2>7. CASE StartAudit \/ CrashAudit \/ UNCHANGED vars
    <3>1. UNCHANGED <<tree, cycles, marks, job, seen, exposed, died>>
      BY <2>7 DEF StartAudit, CrashAudit, vars
    <3>2. \/ spent' = spent
          \/ spent' = [spent EXCEPT !["audits"] = @ + 1]
          \/ spent' = [spent EXCEPT !["crashes"] = @ + 1]
      BY <2>7 DEF StartAudit, CrashAudit, vars, Spend
    <3>3. /\ spent' \in [{"replays", "ticks", "audits", "crashes"} -> Nat]
          /\ spent'.replays = spent.replays
      BY <2>0, <3>2 DEF Types
    <3> QED
      BY <1>2, <3>1, <3>3, QuietStrong
  <2> QED
    BY <1>2, <2>1, <2>2, <2>3, <2>4, <2>5, <2>6, <2>7 DEF Next
<1> QED
  BY <1>1, <1>2, PTL DEF Spec

(* Nothing a replay has marked is lost, but a day of one that died, and no *)
(* row is put before a tick by two replays, but after a crash between its  *)
(* item and its mark: whatever the ledger, the faults, the windows and the *)
(* order of replays, ticks, audits and crashes.                            *)
THEOREM ReplaysLoseAndRepeatNothing == Spec => []ReplayInv
<1>1. ASSUME ReplayStrong PROVE ReplayInv
  <2>0. Types /\ JobTyped /\ MarkedOnce /\ ItemsMarked /\ ItemsThere
    BY <1>1 DEF ReplayStrong
  <2>1. ReplayTypeOK
    BY <2>0 DEF Types, JobTyped, ReplayTypeOK
  <2>2. NothingLost
    BY <2>0 DEF ItemsThere, NothingLost, At
  <2>3. ASSUME NEW r \in {s.key : s \in seen} \ exposed
        PROVE  Cardinality({s.n : s \in {s \in seen : s.key = r /\ ~s.dup}}) <= 1
    <3> DEFINE by == {s.n : s \in {s \in seen : s.key = r /\ ~s.dup}}
    <3>1. ASSUME NEW n \in by PROVE \E m \in marks : m.key = r /\ m.n = n
      <4>1. PICK s \in seen : s.key = r /\ s.n = n
        BY <3>1
      <4> QED
        BY <2>0, <2>3, <4>1 DEF ItemsMarked, MarkedBy
    <3>2. \A n, k \in by : n = k
      BY <2>0, <3>1 DEF MarkedOnce
    <3> HIDE DEF by
    <3>3. Cardinality(by) <= 1
      <4>1. CASE by = {}
        BY <4>1, FS_EmptySet
      <4>2. CASE by # {}
        <5>1. PICK n : n \in by
          BY <4>2
        <5>2. by = {n}
          BY <3>2, <5>1
        <5> QED
          BY <5>2, FS_Singleton
      <4> QED
        BY <4>1, <4>2
    <3> QED
      BY <3>3 DEF by
  <2>4. ReplayedOnce
    BY <2>3 DEF ReplayedOnce
  <2> QED
    BY <2>1, <2>2, <2>4 DEF ReplayInv
<1> QED
  BY <1>1, ReplayIsStrong, PTL

(* The lint of a tick accuses no seat for what the tick itself wrote.      *)
THEOREM LintAccusesFairly == Spec => []NoFalseTrespass
<1>1. ASSUME ReplayStrong PROVE NoFalseTrespass
  BY <1>1 DEF ReplayStrong, Blamed, NoFalseTrespass, At, Trespassed
<1> QED
  BY <1>1, ReplayIsStrong, PTL

(* What is committed after wakes has been linted, but for what an audit    *)
(* wrote since.                                                            *)
THEOREM CommitsAreLinted == Spec => CommitIsLinted
<1>1. ASSUME ReplayStrong
      PROVE  At("commit") /\ <<head, edited>>' # <<head, edited>> /\ job.ok # {} =>
               /\ Owners(GitStatus \ job.runtime) \subseteq job.ok \cup job.late
               /\ broken = {}
               /\ \A a \in job.ok : logged[a] = job.cycle
  BY <1>1 DEF ReplayStrong, Linted, At
<1> QED
  BY <1>1, ReplayIsStrong, PTL DEF CommitIsLinted
=============================================================================
