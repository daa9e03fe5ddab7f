# Formal model of ultracodex

ultracodex runs agent workflows: a JavaScript script calls `agent()` any number of times, each call is
handed to an executor (Codex, Claude Code or OpenCode) under a concurrency limit and a token budget, and
a detached runner process journals what happens while other processes control it through a file. On top
of it there are recurring schedules (cron) and an "org" of seats that wake, file tickets and mail each
other. This directory holds TLA+ models of that program, the TLC runs that check them and the proofs TLAPS
checks. `PROJECT.json` maps every definition to the source lines it stands for.

## 1. Inventory

| Component | State | Operations | What is hard |
|---|---|---|---|
| Semaphore (`src/runtime.ts:61-125`) | free slots, pause gate, closed flag, FIFO queue of promises | acquire, abort of a queued entry, release, pause, resume, close | slots leaked or granted twice, forgotten promises, lost wake-ups, overtaking |
| Agent calls (`runtime.ts:246-521`) | call counter, one AbortController, slot, ledger, worktree and journal entry per call | agent(), executor callbacks, skip/stop, teardown grace | abort racing completion, stale budget checks across awaits, worktree and slot clean-up on every path |
| Run controller (`runtime.ts:602-643`) | paused, stopped | pause, resume, skip, stop | commands of one chunk run before the continuations they resolve |
| Runner (`src/runner.ts`) | the race of body and external stop, the drain deadline | start, dispatch, teardown, seal the journal | fire-and-forget calls, drain against deadline, spinning scripts |
| Control file (`src/control.ts`), journal (`src/journal.ts`), run directory (`src/rundir.ts`) | byte offsets, append-only lines, pid file | tail, append, replay, liveness test | partial lines, crash of the runner, pid reuse |
| Run commands (`src/cli.ts`: run, ls, show, watch, pause, resume, skip, kill) | what each has read so far | read, wait, append, signal | a pid verified before a wait and used after it, a run that ends between two reads |
| Executors (`src/executor/*`) | one session per call | run, abort, usage, result | timeouts against late answers, wire fallback, repair, kill escalation |
| App-server client and turn (`src/appserver/*`) | request table, child process, one turn's timers and items | request, notification, interrupt, close | notifications before the response, inferred completion, exit with pending requests |
| Schedules (`src/schedule/*`) | one spec file, lock file and crontab line per schedule | add, exec, pause, resume, rm | the exec lock with stale-lock reaping, read-modify-write of specs and crontab, run ceilings |
| Org scheduler, router, tickets (`src/org/scheduler.ts`, `wake.ts`, `state.ts`, `router.ts`, `tickets.ts`) | tickets, inboxes, last-wake stamps, the tick's outboxes | tick, wake, deliver, reply, expire | a tick takes no lock, crashes between its durable steps, reply against expiry |
| Org lint, replay, audit (`src/org/lint.ts`, `replay.ts`, `audit.ts`, `scaffold.ts`) | git status and HEAD, ledger of inputs with replay marks, LOG.md cycles | lint, repair, commit, replay with faults, audit, reset | replays killed half-way, whose change is charged to whom |
| Terminal UI: Schedules tab (`src/tui/HomeView.tsx`, `ScheduleDetail.tsx`, `scheduleActions.ts`) | rows, cursor, prompts, fingerprint of the directory | keys, 2 s refresh | keys act on a snapshot while files change |
| Terminal UI: run view (`src/tui/RunView.tsx`, `reducer.ts`, `format.ts`, `hooks.ts`) | fold of the journal, selection, banner | follow, check the runner, controls | totals under late usage, stale checks, the window around the selection |
| Terminal UI: Org tab (`src/tui/OrgView.tsx`, `orgFiles.ts`, `org.ts`) | snapshot, tree, briefs, read stamps | refresh, keys, stamp | a brief rewritten while it is read, two screens on one stamp file |
| Configuration, loader, validation, skills, schedule times and logs, result schema | none | pure computation on one input | not modelled, see section 6 |

The components meet in few places. A script calls `agent()`, which asks the semaphore for a slot and then
calls an executor; the executor calls back with usage and settles a promise. Other processes append lines
to the control file, which the runner tails and turns into controller calls. The runner journals; every
reader (UI, scheduler, org) reads the journal. A schedule's cron line starts a process that takes the exec
lock and starts a runner or an org tick. A tick starts wakes, which are runs; the seats it wakes change
their own directories, and everything between seats goes through files. The UI reads all of these files and
writes specs, the crontab, control lines and its own stamp file, as the commands do.

What makes each correct:

* **Semaphore**: conservation of slots, FIFO, no lost wake-up, nothing granted through a shut gate.
* **Agent calls, controller**: an abort before the answer wins; nothing starts after stop or over
  budget; slots, worktrees and journal entries are accounted for on every path.
* **Runner**: it ends, within its deadline, and its journal is complete unless it says it timed out.
* **Run commands**: a run called dead is dead, no foreign process is signalled, a wait ends, a command that
  reports success takes effect.
* **Turn, client, executors**: every call settles once, also when its process dies; a turn is not cut short;
  tokens are neither lost nor charged twice.
* **Schedules**: one execution at a time, no run beyond the ceiling, specs and crontab lines agree.
* **Org**: a wake that failed stays due, a ticket leaves its state once, one failure does not stop a tick,
  nothing said is forgotten; a replay loses and repeats nothing; lint accuses nobody falsely.
* **UI**: what is shown becomes what is on disk; a key acts on what its prompt named; totals add up.

## 2. Modules

| Module | Models |
|---|---|
| `Semaphore` | class Semaphore; one action per method, including the abort listener of a queued entry |
| `AgentCalls` | the abstract contract of `agent()`: what the script, the journal and the budget are promised |
| `AgentRuntime` | `runAgent`, the controller and the runner's life, on top of `Semaphore` (EXTENDS) |
| `ScheduleLock` | the exec lock of a schedule: acquire, steal, release, one action per system call |
| `ScheduleExec` | executions and management commands of one schedule, on top of `ScheduleLock` (EXTENDS) |
| `ExecutorContract` | the abstract contract of `Executor.run()` (docs/executor-contract.md) |
| `ExecutorCall` | what every adapter shares: the call as its caller sees it, the process, fallback and repair loop |
| `AppServerClient`, `Turn`, `CodexExecutor` | the codex adapter: requests and close, one turn, the session (each EXTENDS the one before) |
| `ClaudeExecutor`, `OpencodeExecutor` | the other two adapters |
| `Executors` | a call on any adapter; implements `ExecutorContract` |
| `OrgRouter` | inboxes and tickets: authorize, deliver, create, reply, expire |
| `OrgTick` | a tick with its triggers, batches, wakes and stamps, on top of `OrgRouter` |
| `OrgLint` | what lint reads and whom it accuses |
| `OrgReplay` | replays, the lint, repair and commit at the end of a tick, audits, on top of `OrgLint` |
| `RunLife` | a runner's process, its three files, and the commands that read, wait for and signal it |
| `Crontab` | the user's crontab as a text of lines, its reading and editing |
| `ScheduleDesk` | all editors of several schedules, and the user, over one crontab, a system call at a step |
| `HomeView` | the Schedules tab as one more editor, on top of `ScheduleDesk` |
| `RunFold`, `Viewport` | pure: the reducer of the run view and the geometry of its lists |
| `RunScreen` | a run and the screen that follows it, on top of both |
| `OrgScreen` | the Org tab over files that agents and a second screen write |
| `Tui` | the two views with the one that has the keyboard |
| `MCAgentRuntime`, `MCScheduleLock`, `MCScheduleExec`, `MCExecutors`, `MCOrgTick`, `MCOrgReplay`, `MCRunLife`, `MCHomeView`, `MCTui` | instances for TLC |
| `AgentRuntime_proofs` (the semaphore's too), `ScheduleExec_proofs` (the lock's too), `Executors_proofs`, `HomeView_proofs` (the schedule desk's too), `RunLife_proofs`, `OrgTick_proofs`, `OrgReplay_proofs`, `Tui_proofs` | theorems and their proofs |

### How AgentRuntime corresponds to the code

JavaScript runs code up to its next `await` without interruption, so **one action is one such piece of
code**, with everything it does: `End` journals, charges, settles the promise, drops the controller and
releases the slot (which may grant others), because the code does so in one turn.

The order of the event loop is kept, because it matters:

* `batch` counts the commands left of the chunk of control lines being dispatched (`control.ts:47-58`); no
  continuation runs while it is positive. Commands already in the file when the tail attaches are
  replayed before the body starts, so `batch` starts anywhere up to its bound.
* `Microtask`: promise continuations, such as the code after `await sem.acquire()` (`Ready`), the script
  (`awake`) and the runner's race (`RaceDecided`), run in any order.
* `Idle`: timers, child processes and new chunks get their turn only when no continuation is left.

`acq[n]` is the promise of `acquire()`: waiting, granted (true) or denied (false). `pc[n]` is where
`runAgent` stands: `acquiring` (awaiting the slot), `creating` (awaiting git), `running` (awaiting the race
of executor and abort), `grace` (aborted, awaiting the executor or the teardown deadline), `cleanup`
(awaiting git to look at the worktree), `settled`. `exec[n]` is the executor itself, which may outlive the
call when the deadline passed. `stopped` and `closed`, and the two `paused` flags, are each one variable
since the code sets them in the same synchronous handler.

Abstractions: prompts, labels, backends and results are left out; a call's tokens are one number, of which an
executor tells whatever it likes, also less than before, and so all ledgers are one function; activity events and the
throttles only affect informational journal lines. The script is any program: it may call `agent()`
whenever it can run, await at any time, and return or throw at any time. git and executors may answer
in any way at any time, or never.

### How ScheduleLock and ScheduleExec correspond to the code

Processes that execute a schedule share only files, so **one action is one system call**: `pc[p]` is the
call process `p` makes next. `lock` and `claim` are the contents of `<name>.lock` and `<name>.lock.steal`: a
pid, something without a pid (`Pidless`), or `Missing`. A file is written under a temporary name and
linked, so it appears with its contents. `seen[p]` is what `p` read last, which it probes, compares or acts
upon one or more calls later: that is where the races are. A read without a pid is repeated once
(`LOCK_SETTLE_MS`). `verdict[p]` is what `acquireLock()` returns, or whether it loops, once its `finally` has
released the claim. `live` are the processes `pidAlive()` finds; `Crash` removes one anywhere and leaves its
files, `NoSpace` is a temporary file that cannot be written. A lock or claim that a process killed earlier
left is `Former`'s, in the initial state.

Abstractions: claim tokens (a process has one claim at a time and only claims of dead processes are
reaped, so pid and token say the same), the log, and pid reuse. A process executes the schedule once.

`ScheduleExec` adds what an execution does before the lock (`Begin` reads the spec) and under it (run,
read the spec again, retire, write), and `add`, `pause`, `resume` and `rm`, which take no lock. A spec is
written by emptying the file and then writing it, two steps: another process can read it `Torn`, write into
it in between, or unlink it so that the write is lost. The crontab is read and rewritten in one step, as
only this schedule's line is modelled. A manager may stop anywhere, which is also its crash. The TUI's
toggle and removal do the same as the commands.

### How the executors' modules correspond

The adapters share nothing but the caller's view, so `Executors` composes them by a variable `backend` fixed
at the start; each adapter's actions leave the others' variables alone. An action is a handler: a line of
output, a timer, an exit, the signal, or the continuation of an awaited promise. `answer` is the settled
promise whose continuation has not run yet: lines that came in the same chunk are handled before it, nothing
else is, which is how node orders them. In `Turn` the closure of `runTurn()` is one record and every handler
an operator from record to record (notifications that come before the response naming the turn
are buffered in it). The servers are modelled as far as the code relies on them: `open` and `work` are what they still run,
`spent` what it cost. They may chatter, die, spawn subagents, answer late, or never. A script may pass any object as a
schema: `compiles` says whether ajv takes it, and `Uncompiled` is the throw of `createValidator()`, which codex and
opencode catch and claude does not. `ExecutorContract` has a variable `mayReject` for the calls excused from
never rejecting; `Executors` gives it those of claude with such a schema and no other.

### How the org's modules correspond

One action is one durable step of the tick: a write of a ticket, an item or the stamps, with the reads and
decisions up to the next one. `tick` is the local state of `executeTick()`, lost by `Crash`, which may come
anywhere; files stay. The stamps are written by truncation, so a crash in between leaves `Torn`, with which
no later tick starts. `ReadForReply` and
`WriteReply` are `ultracodex org send` beside the tick, which reads a ticket and writes it later. What an agent does in its directory during a wake is free within its instructions.
`OrgReplay` keeps of the same tick what lint and commit need (`edited`, `broken`, `logged`, the inboxes on disk
and in HEAD) and leaves triggers and wakes free, so that the steps around them (items of a day, marks in the
ledger, repair, commit, audit) can be interleaved with kills and with each other.

A repair that throws may have touched any seat's files, mended some and left others broken (`RepairThrows`).

### How RunLife corresponds

`runner` is the runner's place between spawn and exit; what happens inside a live run is `AgentRuntime`'s.
`cmd[o]` is what command `o` has read and where it goes next, a system call at a step. `owner` is what the
runner's pid names: nothing, the runner, or a foreign process. The last line of the journal may be half visible
(`size`).
`verdict` is what a command reports.

### How the UI's modules correspond

In `ScheduleDesk`, `UserEdits` is the user, or a program of his, changing his own lines of the crontab at any moment.
`own` is what he last left, `late` the editors that read the crontab before that and have yet to write it, and `lost`
says that one of them has.

In `HomeView`, a handler runs to its end before the next key, but other processes run between its system
calls; `at[Tui]` is where it stands. `rows` and `print` are the snapshot and the fingerprint it was filed
under. In `RunScreen`, `told` is the fold of the whole journal and `shown` of what the screen has read; the
journal itself is not kept. A check of the runner is one step with what it found, and a key acts on `shown` and
the last check. Of what a screen writes, most lines are truncated to their row. The error of a failed run, the strip of
the phases and the phases' own lines of a large run are not: `LineRows` are the rows such a text may take, and `Written`
adds up what is written, whatever the layout took it for. The narrator's, footer and flash lines are taken to fit their row.

In `OrgScreen`, a reading is four steps (fingerprint, inventory, texts, times), and the stamp file is read
and rewritten whole by every screen. The fingerprint covers the files of a seat's role and 200 entries each of inbox
and tickets, while the snapshot is made of every `*.md`, all tickets and the date. So a file has two times: `at`, of
what the fingerprint covers, and `past`, of what lies outside it, changed by `WriteUnwatched`. A day that ends during a
reading is one that ends before or after it, since the date is taken once. `Tui` lets one view act at a time; the view that is left is unmounted
(mode `away`, tab `other`), and so a run of `Tui` fixes which one it follows and checks the sum of both.

## 3. Runs

| Run | Bounds | Checks |
|---|---|---|
| `runtime` | 2 calls (one in a worktree), 1 slot, cap 2, budget 1, 1 token per call, chunks of up to 2 commands | `TypeOK`, `ExecutorOutlivesNothing`, `WorktreesAccounted`, `CompleteUnlessTimedOut`, `ConcurrencyBounded`, `NoOvertaking`, `AbortWins`, `StopAdmitsNothing`, `BudgetGatesStart`; refines `AgentCalls!Contract` and `SemSpec`; `NothingHangs` under `FairSpec` |
| `schedule_lock` | 2 processes, any lock and any claim left (none, dead or unreadable), 1 crash | `NothingLeftBehind`; `LockAnswers` under `LockFairSpec` |
| `schedule_exec` | 2 executions, 1 management command, ceiling 2 with until-done, a stale lock, 1 crash, 1 crontab failure | `SlowRunsNeverOverlap`, `ExecInv`, `LockSpec`; `LockGivenBack` under `FairSpec` |
| `executors` | one call on each adapter, with any schema or none; 1 schema retry, 2 tokens, 2 turns, 2 subagent turns, 5 lines of chatter, 3 stream events, 1 line buffered before the response | `CallInv`, `CompletionIsOwn`; implements `ContractSpec`; `CallSettles` |
| `org_tick` | root, a group and two entities; 2 days, 2 ticks, 1 reply beside them, concurrency 2, 2 rounds, 1 wake per seat | `TickInv`, `StampMeansDelivered`, `ExpiryReported`, `ClosedUnlessRaced` |
| `org_replay` | 2 seats, a ledger of 4 rows (one key twice, two rows with one name), 3 kinds of replay, 2 replays, a tick with commit or repair, 1 audit, 1 kill | `ReplayInv`, `NoFalseTrespass`, `CommitIsLinted` |
| `run_life` | 2 commands (ls or kill; show, watch or pause), 2 dead checks, a crash, a torn line, a pid given away | `DeadIsFinal`, `ForeignSpared`; `WatchReturns`, `CommandsTakeEffect` under `FairSpec` |
| `home_view` | 2 schedules, 1 line of the user's, 1 command; 1 key that changes files, change by the user or crontab command failing under another program in all (`Spared`), 1 crontab command failing in all | `DeskInv`, `CrontabKept`, `RemovesConfirmed`; `ScreenCatchesUp` under `FairSpec` |
| `tui` | 2 agents, 2 controls sent and 1 unread, terminals of 8 and 14 rows, untruncated texts of 0, 1 or 3 rows; 3 seats, 1 write, 2 stamps, 1 of another screen, 4 keys | `TuiInv`, `NothingReadUnseen`; `ScreensSettle` |
| `runtime_stop_null`, `schedule_lock_overlap`, `org_retry` | as above, or smaller | expected violations, see Findings |

Several properties are conjunctions, one per module, of parts that have names of their own:

* `NothingHangs`: the run ends once it is stopped or its body has settled (`RunEnds`), and every call settles
  then (`CallsSettle`). `LockAnswers`: every `acquireLock()` returns (`AcquireReturns`), with the lock if nobody
  else is alive (`StaleNeverBlocks`). `ScreensSettle`: what each screen shows becomes what is on disk.
* `ExecInv`: types, exact counts, and no schedule active past its ceiling. `CallInv`: types, usage that was spent,
  and no call that waits for a process that is gone.
* `TickInv`: types, and a parent that has not seen a child's finished work is due. `ReplayInv`: what a replay
  marked was found by a tick, and no row is put before a tick twice. `DeskInv`: types, and crontab lines match
  the specs when nobody is at work and nobody interfered.
* `TuiInv`: tokens and phases add up, the selection is in its window, what is written exceeds a terminal with room by
  no more than what the untruncated texts wrap into (`SelectionOnScreen`), the last toggle wins, the org tree has every
  seat once. `Roomy` is such a terminal: the list has rows for one item, and a finished run's result has two.

Why these bounds are enough to see something. In `runtime` two calls on one slot make the second wait while the
first spends the budget, is skipped or is given up; one call has the extra awaits of a worktree; a chunk of two is
what an interesting order of commands needs (`resume` then `stop`). A longer queue and more slots would add nothing
new to prove: the semaphore's invariants, `NoOvertaking` and `ConcurrencyBounded` are theorems for every number of
calls and slots, and so are the lock's for every number of processes. Three processes are what the lock's race
needs, and `schedule_lock_overlap` has them; `ExecInv` holds for two executions, where the lock excludes, which says
that the update is right wherever it does. `executors` has a fallback or a repair after the first turn, tokens in
both, and a subagent turn that outlives its parent's messages. `org_tick` has a batch of two children whose group
must be woken after them, colliding names, a forbidden message, and a ticket that is answered while it expires; the
second tick is the one that sees what the first left. The ledger of `org_replay` has what confuses keys: one row
repeated under its key, and two rows whose items collide. `run_life` pairs commands whose steps touch: `ls` takes a
pid file away, `kill` ends the runner and writes the control file, the others wait or write. `home_view` has two
schedules since a wrong row needs another one, and a command that runs between the steps of the tab's handler. At
first the schedules' lines are in one order (`InOrder`). The user changes his line before, between or after the
steps of the command; a key beside a failing command or a change by the user, more editors and more changes are left
to the theorems `SpecsAndLinesAgree` and `UsersLinesSurvive`. `tui` has an agent in no phase and one in an
undeclared phase, and terminals in which nothing, one line, or all fits.

Deadlock checking is off in every run: processes exit, a call settles, a script may await something that never
comes, and bounded editors run out of jobs.

`StopAdmitsNothing`, `AbortWins` and `BudgetGatesStart` each name an exception (a worktree already being created or
cleaned); it is what the code does, not slack. So do `early` in `DeadIsFinal`, `overlap` and `stranded` in
`DeskInv`, `lost` in `CrontabKept`, `mayReject` in `ExecutorContract`, `Unreckoned` in `SelectionOnScreen`, `past` in
`UpToDate`, `blame` in `NoFalseTrespass` and `exposed` in `ReplayedOnce`: what they exempt is listed under
Observations.

### Fairness

`LoopFairness` of `AgentRuntime` says what the event loop guarantees and no more. Weak fairness: continuations run,
a chunk of commands is finished, the script comes to its next await (a script that never awaits blocks
the whole process, in the code as in the model), and the runner sees its race decided. Strong fairness on
the timers (`TeardownDeadline`, `Drained`, `DrainDeadline`): they need an idle event loop, which a looping
script or a stream of commands interrupts again and again, and each iteration of the loop visits its
timers. `RunEnds` needs only this. Executors and git are other programs: that they answer
(`ExternalFairness`) is the hypothesis of `CallsSettle` and not part of the specification.

* `LockFairSpec` and `ScheduleExec!FairSpec`: the operating system runs each execution's process. `LockFairSpec`
  does not assume that a command returns; `FairSpec` does, which is the hypothesis of `LockGivenBack`. Nothing is
  assumed of managers, crashes or wakes.
* `Executors!Spec`: continuations run, timers fire, a killed process ends. A server owes nothing: it may stay
  silent for ever. So `CallSettles` claims settlement without an abort only where the code has a timer of its
  own, which claude and opencode over stdio do not.
* `OrgTick` and `OrgReplay` assume nothing; their properties are safety.
* `RunLife!FairSpec`: the runner's own steps, the teardown once it was stopped (the drain has a deadline), and the
  commands' steps. How long a body takes is not assumed, nor that a wait was long enough.
* `HomeView!FairSpec`: weak fairness for handlers and commands, strong for the two-second tick, which a stream of
  keys may interrupt.
* `TuiSpec`: while a flush, a check, a timer, a reading or a stamping is possible, one of them happens. Nothing is
  assumed of the runner, the agents and the user.

### Findings

`runtime_stop_null` checks what `docs/agent-script-spec.md:92` says, "After stop, pending and subsequent
agent calls resolve `null`". A `resume` and a `stop` that reach the runner in one chunk of the control file
break it: the resume grants a queued call, the stop follows before the call's continuation
(`control.ts:49`), and the continuation throws the budget error (`runtime.ts:288`) if the budget was spent
while it waited. The same happens with `skip` in place of `stop`.

`schedule_lock_overlap` checks what `docs/schedule.md:103` says of the exec lock ("already prevents a slow
execution from stacking up with the next cron wake"). Three wakes and no crash break it: P1 is about to
release its lock when P2 reads it. P1 exits, P2 finds its pid dead, takes the claim, reads the lock as
missing, twice, and is about to remove it. P3 creates the lock and runs its command. P2 removes P3's lock
(`exec.ts:198`), creates its own and runs the command too. The claim does not help, since P3 needs none to
create a lock that is missing.

`org_retry` checks the comment at `scheduler.ts:184-186`, a failed wake "stays due and retries next tick". A seat is
due by its files. An agent that has deleted the inbox items it processed, as instructed, and then exits
nonzero or returns an invalid result leaves nothing that makes its seat due.

### Observations

What else the modelling showed of the code, where no statement of the repository is checked by a run. The
properties above are stated around these; where an exemption is named, a run without it shows the case.

Schedules and the Schedules tab:

* `execSchedule()` reads the spec before it takes the lock (`exec.ts:425`) and does not look again: a wake that reads
  it while the last run is being recorded takes the lock afterwards and runs the command once more, against the
  "hard lifetime ceiling" of `docs/schedule.md:106`. (`RetiresInTime` is about the spec, not about how often the command ran.)
* `docs/schedule.md:133-136` says "Other schedules and foreign crontab lines are preserved byte-for-byte". A change that
  the user, or the edit of another schedule, makes between a command's `crontab -l` and its `crontab -`
  (`crontab.ts:106`) is lost: a line he added is gone, one he removed is back. `lost` in `CrontabKept` exempts the user's
  lines in exactly this case, and nothing else harms them; `overlap` in `DeskInv` exempts the other schedules. In the same way pause, resume or rm beside an execution loses one of two
  writes of the spec. `stranded` is a retirement whose `crontab -` failed.
* An `add` that fails between the tab's fingerprint and its reading of the specs leaves a row for a schedule that does
  not exist until something else changes (`faults = 0` in `ScreenCatchesUp`). One unreadable spec empties the tab. The
  detail view with an unreadable spec says "removed" on x, y and removes nothing. The form accepts intervals
  that `addSchedule()` refuses. A schedule resumed after a long pause is at once overdue.

Executors:

* `docs/executor-contract.md:56` says "`run()` must **never reject** in normal operation". claude's `run()` compiles the
  schema before anything else and outside of any `try` (`claude.ts:177`, `schema.ts:155`): a call whose schema is no valid
  JSON schema rejects, and on codex and opencode resolves to a failure. `mayReject` excuses these calls of claude from
  the contract, and no others. The runtime takes the rejection for a failed call.
* Line 127 of the same document asks for "a final usage consistent with the last tick", and `tests/executor-kit/kit.ts:300`
  tests it of calls that succeed. opencode's `fail()` returns the usage of the finished messages (`opencode.ts:605-610`),
  below what was ticked while the last one ran. The runtime charges what it is told in the end (`runtime.ts:478`, 483), so
  tokens that the budget had counted are given back. `UsageHonest` is about codex and claude; the contract of the
  runtime allows a charge to fall and says when it is settled.

Runs:

* `ls` calls a run dead that is still starting (`rundir.ts:251-267` against 133-136 and `docs/operations.md:177`):
  `early`. A SIGTERM in the finalisation, after the handlers are off (`runner.ts:162-192`), ends the runner before
  `run_end` (cf. `docs/internal/module_api.md:318`). `kill` reports "stopped gracefully" when the runner crashed.
  A pause is lost if the runner stops listening after the command found it alive. When a full read finds
  `run_end`, `watch` emits only that line and skips those before it that it had not read.
* The header of the run view counts agents twice that were left open at `run_end` (a drain that timed out); hence the
  first disjunct of `TokensAddUp`. Two comments of `format.ts` are not what it does: the list may get no row at all
  (content of 8 rows, against line 215), and at capacity 2 both markers are dropped, not only at 1 (lines 242-245).
* "So we never overflow them", says `RunView.tsx:66` of the terminal's rows. A failed run's error is given one row (line 529)
  and written without truncation (line 547), so one of several lines makes the screen taller than the terminal; so do
  titles that make the strip of the phases wrap (lines 341-375). `Unreckoned` in `SelectionOnScreen` is how many rows too many.
* `docs/internal/product_context.md:336` says controls of a dead runner should say so; the check is up to 2 s old, and a confirmed stop
  is sent without another.

Org:

* Tickets wake nobody by themselves; the expiry notice of a ticket from `user` goes to an inbox nobody reads; the wake
  result's schema has no ticket id for a REPLY; a material line written on the day of its parent's stamp, but
  after it, is no trigger. A crash between expiring a ticket and the notice loses the notice.
* `org replay` passes no options to its ticks (`cli.ts:678`): they lint without committing, so the second day of a
  replay with other recipients, and most `--pristine` replays, end with "org-lint failed after tick" (cf.
  `docs/org.md:205-231`). `blame` in `NoFalseTrespass` is this: changes a tick found, an audit or a failed wake made.
* A tick whose wakes all failed advances neither the cycle nor the diff and commits half-done work
  (`job.ok # {}` in `CommitIsLinted`). A rerun after a tick that failed does not deliver what was marked and not yet
  processed; with a duplicate fault the mark is set although only the copy lies in the window; items late beyond the
  window are neither delivered nor marked; two items of a day with one path overwrite each other; a
  replay killed between an item and its mark delivers it again (`exposed`). A replay without `--pristine` also clears all inboxes. A second audit of a day overwrites unread findings
  of the first. Replays and ticks do not exclude each other.
* The Org tab looks for changes by a fingerprint of the files of each role and 200 entries of inbox and tickets
  (`orgFiles.ts:98-132`, 266-271), but shows overdue reviews from every `*.md` and today's date and counts all tickets
  (`orgFiles.ts:137`, `org.ts:284-307`): a review that falls due at midnight does not show until some file changes. No
  document says when it should; `UpToDate` exempts what changed outside the fingerprint after the reading.
* A brief dropped from `coverage.toml` between a snapshot and its stamp counts as read unseen. Two screens lose each
  other's stamps, which only makes a brief unread again. The queue lists the root twice when its brief is
  unread, so `j` stays at it if the stamp cannot be written. Folding hides nothing
  (`docs/internal/v0.6-backlog.md:113`); so `TreeSound` holds whatever is folded.

## 4. Proofs

`AgentRuntime_proofs` first proves of the semaphore, for every finite set of calls and every configured concurrency (also zero and
negative), `SemSpec => []SemInv` where `SemInv` is the conjunction of the type invariant,
`QueueHoldsPending`, `SlotsConserved` and `NoLostWakeup`. It is inductive as a whole: conservation through a
flush needs the queue to be free of duplicates (`PrefixCardinality`: its first k entries are k calls), and
that needs the queue to hold exactly the waiting calls. `FlushKeeps` carries both through the loop of
`flush()`; each operation has a lemma of its own. The action properties `NoOvertaking` and `GateHolds`
follow from `SemStepGrants`.

It then shows that every step of a run is one semaphore operation or none
(`RunStepIsSemStep`), so `Spec => SemSpec` and the semaphore's theorems carry over, and proves
`Spec => []Inv`, with `Inv == TypeOK /\ SemInv /\ RunInv`, for any number of calls, any set of isolated
calls, any cap, budget, usage and chunk size. `RunInv` is needed because none of the stated properties is
inductive: `CallConsistent(n)` ties the position of a call to its slot, worktree, executor, outcome and
journal entry, and `RunConsistent` ties the runner's phase to the stopped flag and the aborted calls. Most
actions concern one call; `OneCallStep` reduces them to that call, given that others at most move from
waiting to granted. From `Inv` follow `TypeOK`, `ConcurrencyBounded`, `ExecutorOutlivesNothing`,
`WorktreesAccounted` and `CompleteUnlessTimedOut`, and as action properties `AbortWins`,
`StopAdmitsNothing` and `BudgetGatesStart`. `RuntimeKeepsItsPromises` is the refinement: a run implements
`AgentCalls!Contract`; each action maps to one step of it or to a stutter. The contract does not assume that
usage grows: an executor may tell any, and its answer less than before. It promises that a call ends charged with the
answer's usage, or with what was last told if the answer has none or does not come, and that the charge then stays. It
needs two facts more (`ContractInv`): no ordinal below the counter is unused, and a usage that waits for the clean-up
of a worktree is that of an executor which can tell nothing more (`UsageKept`).

`ScheduleExec_proofs` proves `LockSpec => []LockInv` for any set of processes, any leftovers and any number
of crashes. `FilesHaveOwners` says whose the files are and gives `NothingLeftBehind`. `SlowRunsNeverOverlap` is far from
inductive: it needs that a stale lock has one thief at a time. `OneThief` says why: while the lock has no
living owner no claim has been released, so nobody can have seen a claim vanish and nobody reaps one;
hence who believes to hold the claim does. `HeldIsRespected` says that once the lock has an owner,
whoever reads it under the claim sees that owner; `MissingIsExplained` that the lock is missing only in the
thief's hands. All three hold while `Calm` does, and `CalmPast` shows that `Calm` cannot come back.
It then proves that executions and managers implement `LockSpec` (`StepIsLockStep`), so both
properties hold of them. `ExecInv`, exact counts and retirement, is proved under a hypothesis, and the theorem says so:
`Spec /\ []MutualExclusion => []ExecInv`. It cannot be dropped, since two holders overwrite each other's counts
and the lock does have two holders with three wakes (`schedule_lock_overlap`). With two executions and no claim left behind it is not
needed: what disturbs the calm of `SlowRunsNeverOverlap` was done by one of them, which does not hold the lock any more, so two
exclude each other (`TwoExclude`) and nothing of `ExecInv` is lost, for any number of managers (`TwoKeepCount`). `ExecStrong` adds whose update of the spec is under way (`OneUpdate`:
a torn file is in the hands of one who writes it, and whoever updates it carries what it will say) and what stands on
disk while an exhausted schedule is taken off the crontab and retired (`RetirementUnderWay`).

`Executors_proofs` proves, for any number of turns, repairs, subagent turns, tokens, items, messages and stream events,
that a call's usage was spent and that it waits for no process that is gone (`CallInv`), that each adapter implements
`ExecutorContract` (`ContractKept`, with the one excuse `mayReject` makes for claude), and that no codex turn is cut short (`CompletionIsOwn`). `ExecStrong` is the
inductive invariant:

* `CallAgrees`: at each await, what the call has counted and which result it may settle with. `ClaudeAgrees`,
  `OpencodeAgrees` and `CodexAgrees` tie each adapter's await to its process, and `AwaitsTurn` to who can still settle it.
* `Metered`: a turn's usage and its baseline are within what the server spent. `NothingAhead`: the server has done nothing
  for turns that have not begun.
* `Follows`: a running turn knows of every item and subagent turn that the server announced and has not ended. It is why
  a turn with nothing active has nothing left to run, hence `CompletionIsOwn`.
* `Foreseen`: before the response nothing of this holds of the closure, whose messages wait in the buffer. It holds of what
  routing the buffer *will* make of it, whether an abort comes before or not. A message that is buffered is then one more
  `Route` of what is foreseen (`RoutedAppend`), and the response merely makes it so. `BufferFits` keeps the buffer bounded
  although a completion may always be buffered.

`Routed`, the routing of a buffer of any length, is a recursive function; its laws are again proved by a shortest buffer
that breaks them (`LeastNumber`). What one `Route` does is stated once per kind of message (`RouteItem` to `RouteChild`).

`HomeView_proofs` proves, for any number of schedules, lines of the user's own and commands beside the TUI, that the
user's lines are as he last left them unless an editor wrote the crontab it had read before (`CrontabKept`), that specs and lines agree (`DeskInv`) and that a removal is
of the schedule its prompt named (`RemovesConfirmed`). `DeskStrong` is the inductive invariant:

* `TextsSound`: every text of the crontab, on disk or in an editor's memory, has a schedule's line at most once and is
  empty only if it is closed (else a new line would be joined to a line that is not there); and what an editor
  that is not `late` is about to write has the user's own lines as he left them.
* `JobsAgree`: which job can stand where, and what status its copy of the spec carries there. `RunsCounted`: a spec, on disk or
  in memory, counts at most the executions that have returned; it bounds `runs`, so it is what makes the types inductive.
* `OneAtWork`: until two editors have overlapped, one is at work, every schedule that is not its own agrees with its line, and
  its own is as far as `GotSoFar` says for each place in each job, a failed `crontab` command included.
* `ScreenAgrees`: a removal under way is of `shown`, the schedule of the prompt, which stays up until it is over.

What `removeTaggedChunks()` and `installScheduleCrontabLine()` do to a text of any length needs induction over sequences.
The library's induction theorems cannot be used (they are about an arbitrary predicate), so it is done by
hand: if a law failed, take a shortest sequence that breaks it (`LeastNumber`, `AppendInduction`). `Keep`, the filter, is
defined by the places of the lines it keeps; `KeepAppend`, `KeepPrepend` and `KeepTwice` are its laws, `RemoveFacts` and
`InstallFacts` what the two edits do to the user's lines and to each schedule's.

`RunLife_proofs` proves, for any commands beside the runner, that a run a command called dead stays so
(`DeadRunsAreDead`) and that no process is signalled but the runner (`ForeignersAreSpared`). Both are about what a
command found out one or more steps ago, so `LifeInv` says for each place in a command what its local answers still
mean there (`PidTells`, `ListingTells`, `NotAlive`, `PidStillOurs`); the facts about the runner that they are
built from only ever grow (`Advances`: a runner that left its start does not return to it, a journal that ended stays
so, a pid given away stays away), and one lemma carries them through any step. The journal's size on disk
and its whole lines are related by `VisibleExist`.

`OrgTick_proofs` proves all four properties of a tick for any org that is a tree, any triggers, messages, replies and crashes.
`TickStrong` is the inductive invariant:

* `SeatsHandedOn`: a seat is in the batch, with a worker or in the outboxes, in this order, and woken once.
* `CopiesAreOpen`: what the tick and a reply beside it hold of a ticket was open when read and is not expired since. From it
  follows `ClosedUnlessRaced`.
* `NoticesSent`: a ticket expired in this tick has its notice on disk, or it is the next to be written. It
  gives `ExpiryReported`.
* `Accounted`: of each outbox done with, the undelivered messages are at most the feedback items of its author; of the
  open one, the same up to its position. Since a failed delivery writes one feedback item under a fresh name,
  both sides grow together; that is `StampMeansDelivered`. Counting needs finite inboxes and that delivered messages stay
  (`NothingTakenBack`).
* `StampsOrdered`: stamps in memory and on disk, and who has not been heard: the stamp of a batch is later than
  all before, so a parent whose child is stamped after it is due. `OneDepth`: a batch is of one depth, hence no parent is
  stamped along with its child. Together they give the second half of `TickInv`.

`OrgReplay_proofs` proves the properties of replays, lint and commit for any ledger, faults, windows, audits and crashes.
`ReplayStrong` says who marked a ledger row (`MarkedOnce`: one replay per key, and only the one that runs can mark what
it has planned), where the item of a marked row lies until a tick has found it (`ItemsThere`), that an
item in an inbox is marked, about to be, or left by a crash (`ItemsMarked`), whose files are dirty (`Blamed`) and what lint
has read (`Linted`). `ItemsMarked` and `MarkedOnce` give `ReplayedOnce`; `ItemsThere` gives `NothingLost`. The order within
a day matters: items that collide on a path are planned from rows with different ids or are copies, so the one that
stays is determined (`LandingsDiffer`). `StatusGrows` bounds git status by what a step writes, for every action.

`Tui_proofs` proves facts of the run view's arithmetic for lists, selections and terminals of every size:
the selected item is in the window (`SelectionShown`), the window and its markers fit the capacity
(`WindowFits`), a marker is there exactly for what is hidden, from capacity 3 on (`MarkersReport`), and the panes
never need more rows than the terminal has once the list's and the result's are taken from it
(`PanesNeverOverflow`). `SettledSlots` is the reason: the slots depend on the markers and these on the slots, and two
passes of the code reach a fixed point. `WindowInList` carries this to the run screen.

It then proves everything that `TuiInv` says, for every journal, number of agents and phases, terminal and organisation
(`ScreensAreSound`). On the run screen, `RunStrong` is the inductive invariant:

* `FoldSound`, of the journal's fold and of the part of it that is shown: the phases are listed once each, with the counts
  that their agents give, and every agent's phase is one of them or none. `FoldsRunStart` to `FoldsOthers` say what each
  kind of line does to a sound state; a line is a step of the specification, so no induction over the journal is needed.
* `Books`: the ledger has for every agent in flight at least what the journal last told of it, exactly that unless its
  throttle holds a tick back, and its sum is what the fold has spent plus what is in flight (after the run, what it has
  spent). Sums are the community modules' recursive fold; `SumLaws` and `SumChange` (one value of a sum changes) are proved
  for finite sets by a smallest set that breaks them.
* `LastToggle`: a pause or resume that the user sent last either waits in the control file with no later one behind it,
  or the runner has obeyed it.
* `Screened`: what is shown is sound, and the key state within its bounds. `SelectionFits` combines it with the facts of the
  geometry.

The tree of the Org tab is a recursive function over the children of a seat, with the agents not reached appended to it
(`TreeIs`: every agent of the snapshot has exactly one row, whatever is folded). That the function exists is shown from the last
seat back (`RowsThere`): children come after their parents. `GrownFrom` says that the rows of a seat begin
with it and that every other has its parent among them; two such lists that do not hold each other's tops are disjoint
(`GrownApart`, by the first seat in both), which is why nothing is listed twice. `FlatIs` is what `FlattenSeq` does for a
sequence of any length. `SelectedThere` (what is selected is a seat of the snapshot) completes `OrgStrong` to `TreeSound`.

It also proves, for any organisation, that the Org tab never takes for read what nobody has seen
(`NothingUnseenIsRead`). `OrgStrong` is the invariant. `StampsSafe` says it of the stamps on disk and of those that
a screen has in hand between its reading and its writing, each for the briefs it does not mark itself: the two screens
write back what they read, so a stamp can return that was overtaken. A stamp is safe if it is none, if it is older than the
brief by more than the tolerance of one, if the brief was seen as it is, or if the screen is about to show it
(`Rereads`: a stamp is followed by a reading, and until this has read the brief, it may change under the stamp).
`UncoveredSeen` closes the gap of seats outside the inventory, which are never shown. One lemma (`FaithfulKeeps`) says what a step
owes each seat; each action is then shown to be faithful. `Ranked` is why the queue of unread briefs, which the model
defines by rank, has every unread brief, for a finite set and any order.

Assumptions: `ExecutorAssumption`, `AnswersAssumption`, `TurnBounds` and `EventBound` (the bounds are naturals, and no usage, no answer
and a pending result are none; `Init` lets `MaxTurns` bound what fallback and repairs can add up to), `FilesAssumption` and `SpecFileAssumption` (what a lock file and a spec file may contain besides a pid and a
spec differs from these), `ExecAssumption` (managers are not processes, processes are finitely many, and there is at least one
run), `OrgScreenBounds` (the paths of an organisation are a finite sequence without repetition, the root first and parents
before their children), `CallsAssumption` (finite), `SlotsAssumption` (an integer), `CallsAreOrdinals` and `BoundsAssumption`
(naturals), `SeatsFormATree` (finitely many seats: the root, groups under it, and seats under these),
`LinesAssumption`, `DeskAssumption` and `HomeView`'s assumptions (tags are no lines of the user's; schedules, lines
and commands are finitely many; the TUI is none of the commands; a missing or torn file is no spec),
`FirstOrg` and `TickBounds` (the files of the first day are typed, a wake returns one of its results), and `ReplayBounds`
and `ReplayInputs` (rows of the ledger are for seats, ids are ordered, and no ingest row names an item as an audit
names its findings: one that did could be overwritten by a finding). TLC evaluates them in every run.

Only model-checked:

* liveness only (`NothingHangs`, `LockAnswers`, `LockGivenBack`, `CallSettles`, `WatchReturns`, `CommandsTakeEffect`,
  `ScreenCatchesUp`, `ScreensSettle`), which the prover cannot do. Every safety property of a passing run is a theorem.

## 5. Plan

Done: every module of section 2. Left, in this order:

1. Two ticks at once, and a tick beside a replay: nothing in the code excludes them. What is right then is not
   stated anywhere, so this is a model to learn from before it is one to check.
2. `RunLife` under `AgentRuntime`, so that teardown's order and the file readers meet in one model.

## 6. Not modelled

* Configuration, loader, script validation, skills, schedule times and logs, and the validation of results against
  a schema: computations on one input, with no state and nothing concurrent.
* The script's combinators (`parallel`, `pipeline`, nested workflows): they only arrange `agent()` calls, which the
  model makes in any order.
* The UI's agent detail, timeline and launcher form, and all wording, colours and sorting of lines; of the
  org tab the figures derived from a seat's other files.
* What `scaffold` creates, the text rules of lint, the check of the branch, a ledger that does not parse; `org ask`,
  the `.thread` file and messages by `org send` that violate a rule; two ticks at once (the model runs
  one, as one schedule under its exec lock does).
* Reuse of the pid of a dead lock owner (`ScheduleLock`), and a process whose command line cannot be read (`RunLife`).
* The contents of prompts, results and journal lines beyond the events named above: data no property distinguishes.
