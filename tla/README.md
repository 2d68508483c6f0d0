# ai-dev-swarm in TLA+

A verification project for the orchestrator of ai-dev-swarm: TLA+ modules for
the state machines, the milestone graph, the tick, the worker pool, the build
step with its agents, ideation, the operator's commands, settings and
confirmations, and the transcript on its way to the web page; TLC runs over small
instances, and proofs by TLAPS for instances of every size. Source paths are relative to `src/src/aidevswarm/`
unless they start with `src/`.

## 1. The system

ai-dev-swarm turns ideas into shipped repositories. A *project* is planned into
an ordered graph of *milestones*; each milestone is built by crews of agents,
checked by CI and by a reviewer, and between milestones the rest of the plan is
reconsidered. All of it runs in one process: an asyncio loop with a pool of
workers, each of which advances one project by one *tick* in a thread of its own;
an HTTP API and a Telegram bot whose commands run in other threads; Postgres for
what must last, Redis for the kill flags.

| Component | State it keeps | Operations | Talks to |
| --- | --- | --- | --- |
| State machine (`schemas/state_machine.py`, `schemas/project.py`) | none: two tables of legal successors | `assert_legal_project`, `assert_legal_milestone` | every writer of a state |
| Milestone repository (`db/repositories.py`) | rows: ordinal, state, retry_count, spec | `create_many`, `next_pending`, `update_state`, `record_attempt`, `requeue_stale_building`, `reset_retry_count`, `update_spec`, `replace_with`, `insert_after`, one transaction each | tick, router, start-up |
| Project repository, token ledger (`db/repositories.py`) | projects.state, is_paused, github_repo; token_log | `update_state`, `set_paused`, sums over the ledger | tick, pool, router, budget |
| Tick (`orchestrator/tick.py` with `consolidation.py`, `auto_split.py`) | none between ticks; local copies within one | `advance_project`: plan, build one milestone, replan, integrate | both repositories, crews, sandbox, kill switch, budget |
| Project pool (`orchestrator/scheduler.py`) | `_claimed`, `_transient_fails`, `_cooldown_until`, in memory | claim, run a tick, classify what it raised, back off or block, release | tick, project repository |
| Command router (`orchestrator/command_router.py`) | none | Approve, Pause, Resume, Abort, Drop, Switch, KillSwitch, SubmitIdea, IdeateNow, UpdateSetting, steering commands | project and milestone repositories, kill switch |
| Kill switch (`tools/kill_switch.py`) | global and per-project flags in Redis; pause flag in Postgres | trip, reset, pause, unpause | read at the start of each tick |
| Budget guard (`tools/budget.py`) | none: reads the ledger | `can_spend` for the day and for a milestone | tick, build crew |
| Build crew (`crews/build/crew.py`), SDK tools (`tools/claude_agent_sdk_tool.py`, `db/sessions.py`) | SDK sessions per milestone and role | Developer, Tester, CI and its repair, Reviewer; resume, fall back, ledger | ledger, steering notes, sandbox |
| Publishing (`tools/github_tool.py`, `tools/workspace.py`) | git workspace, its remote, the GitHub repository | create or look up, wire, record, commit, push | tick |
| Planning and replanning crews (`crews/`) | none | one reply each | ledger, steering notes |
| Steering notes (`steering/`) | notes and deliveries | add, pull once per role | router, crews, SDK hooks |
| Ideation (`crews/ideation/`, `orchestrator/orchestrator.py`) | one asyncio lock; idea_evaluations | cron and IdeateNow: look for work, rounds of the crew, prior-art search, comparison with our history, create a project | project repository, router |
| Orchestrator process (`orchestrator/orchestrator.py`) | the wiring | start-up recovery, ideation job | all of the above |
| Operator settings (`db/settings_store.py`) | override rows, the live Settings object | validate, apply, store; apply all at start | router |
| Front doors (`api/server.py`, `telegram/bot.py`) | rate-limit window; pending confirmations | guard, dispatch; echo, Yes, No | router |
| Transcript (`observability/event_bridge.py`, `db/transcript.py`, `frontend/src/hooks.ts`) | transcript rows, one bounded queue per stream, the page's entries | publish, dispatch, subscribe, history, push | everything that speaks |

What is hard here is not any single handler but what falls between two of its
calls:

* **Stale copies.** A tick is handed a copy of the project row and may run for
  hours. `_move` judges legality by that copy and then writes over whatever the
  row holds. A router handler reads, decides, and writes in another transaction.
* **Crashes between two commits.** Planning stores rows and moves the project in
  two transactions; a build is three; a failed attempt is recorded before the
  project is blocked. A restart loses the pool's memory.
* **A graph that changes under its builder.** Splits delete a row, insert others
  and shift the rest; consolidations are inserted on a cadence computed from the
  table alone.
* **Three ways to stop** (pause, abort, global kill) in two stores, read one after
  the other at the start of a tick.
* **Termination.** Retries, splits, consolidations and back-off can feed each other.
* **Paid calls that fail half way.** A CLI session dies, drops its stream or cannot be
  resumed after it has used tokens, consumed notes and edited the workspace.
* **Best effort.** Pushes, evaluation rows, ledger lines, transcript rows and stored
  settings may fail without failing what they belong to.
* **Two readers of one stream of events.** A page reads the stored history and the live
  stream at once, in either order.

What makes each modelled component correct:

* state machine: every row follows the table although nobody holds a lock;
* milestone repository: ordinals stay 0, 1, 2, ...; done rows are never touched; the cadence
  never inserts a consolidation too soon after another;
* tick: milestones are built in order, nothing is shipped unfinished, writes are
  legal for the row they hit, retries and the graph stay bounded, no milestone is
  built before its plan is approved, and the project settles;
* pool: claims are exclusive and the oldest ready project is served;
* router and kill switch: a command has the effect its documentation gives it,
  whatever step of a tick it meets;
* build step: every token is counted, the milestone's cap is passed by a bounded
  amount, a note is told at most once and lost only with a failed call, and what
  GitHub shows has passed CI and review;
* ideation: one unforced project at a time, no idea twice, each explained;
* front doors: a confirmed command runs once, good requests are not crowded out by
  bad ones, live and stored settings agree;
* transcript: the page shows its own project, nothing twice, and misses nothing without a reason.

`PROJECT.json` lists every component with its status and every hazard with its
line and the properties aimed at it.

## 2. The modules

Three systems that share the code base and little state, and the building step
opened up:

    StateMachine      the transition tables
    Milestones        one project's milestone table, one operator per transaction
    Swarm             the shared variables, TypeOK, Init
      Tick            one worker's tick, one action per call
      ProjectPool     claim, release, crash handling
      CommandRouter   the operators' handlers
    Orchestrator      their composition, restarts, fairness, properties
    ProjectLifecycle  the abstract specification of a project

    BuildState        the variables of one project's building, TypeOK, Init
      Steering        notes and their delivery to each role
        AgentSession  one paid call of the Developer or the Tester
          BuildCrew   CI, repairs, budget checks, the Reviewer
      Publishing      repository, remote, push
    MilestoneBuild    their composition: the build step and integration of a tick,
                      restarts, resumes, properties

    Ideation          lock, guard, rounds, creation of projects, SubmitIdea
    ControlPlane      confirmations, rate limit, settings
    Transcript        publishers, event loop, stream, page

    MCOrchestrator, MCMilestoneBuild, MCIdeation, MCControlPlane, MCTranscript
                      for TLC (symmetry)
    MilestonesProofs  lemmas about the table operators
    OrchestratorProofs
                      types, claims, legal writes, done work
      MilestoneGraphProofs
                      order, spacing and growth of the graph
        LifecycleProofs
                      shipping, retries, the gate, the refinement of ProjectLifecycle
    MilestoneBuildProofs, IdeationProofs, ControlPlaneProofs, TranscriptProofs
                      the other systems

The composition of `Orchestrator` with `MilestoneBuild` would be out of reach of
TLC, so each takes the other's part as one step: `Tick` has the crew's run as one
action with its outcomes, `MilestoneBuild` has one project whose graph does not
change. What ties them is written in both: a build ends passed, failed, pending
again or in an exception, and leaves the project where `Tick` says.

### Orchestrator

| Variable (Swarm) | Code |
| --- | --- |
| `state`, `paused` | columns `state`, `is_paused` of projects |
| `ms` | the milestone table of each project; state `"none"` is a row that is not there |
| `killed`, `halted` | Redis: per-project and global kill flag |
| `claimed`, `fails`, `cooldown` | `ProjectPool._claimed`, `_transient_fails`, `_cooldown_until` |
| `dayOver`, `costly`, and `over` of a row | what the ledger answers: day's budget spent, project past its cost cap, milestone past its token cap |
| `pc`, `job` | the next call of each worker, and what its tick holds in local variables |
| `op` | the next call of each operator handler |
| `approved` | history: was the plan ever approved |
| `faults` | how many faults have happened, bounded by `MaxFaults` |

**Grain.** An action is the stretch of a handler up to and including one call
that commits to a store or one read whose result is acted upon later. So a
command, another worker's tick or a restart can fall between any two calls:
between the kill check and the pause check, between `next_pending`, the two
budget checks and `update_state`, between `record_attempt` and `_move`. Two things
are one step although they make several calls: a claim and a release run on the
event loop without an await inside the lock, so nothing else of the pool runs in
between (an operator's write could fall between the five queries of a claim; the
tick then holds an older copy, as it also does if the write falls right after the
claim); and the reclaim's row-by-row commits, whose intermediate tables the same
step would reach again after a crash.

**Data.** Of a milestone's spec the model keeps `note`: which of the two markers that
the orchestrator reads back `technical_note` contains, `consol` ("[CONSOLIDATION]") and
`auto` ("[AUTO-SPLIT"). Nothing filters the text of a crew, so a plan, the children of a
crew's split and an amended milestone may carry either, both or none (`CrewNote`); only the children of an
automatic split have their note computed, the parent's with `auto` added. An amend may
also leave the note alone, and may change what `hot` says (the criteria to bisect). A third mark,
`cadence`, is history: the note is as `build_consolidation_spec` wrote it; an amend that
rewrites the note and a split take it away. Sessions are kept as `hot`, "the latest sessions passed an
auto-split cap and there is enough to bisect"; the ledger as `over`, `costly` and
`dayOver`. A crew's run may leave `hot` either way, may raise `over` and `costly`
and never lowers them. For a done row `hot` and `over` are dropped because they
are never asked for again. What the diagnostician and the replanner spend is
part of the crew's step.

**Choices left open.** How many milestones a plan has, how a build ends (passed,
failed, budget gone, exception), whether the CI gate of the integration passes,
which reply the replanner gives, and whether an exception is transient or fatal
(the code reads it off the type's name and the message). A replanner's reply names
a milestone by id; ids never appear in its prompt, so it names the next one or one
that is not there.

**Faults.** `CallRaises` (a database or Redis call raises, nothing committed),
`BlockLost` (writing the block of a crashed project fails too), `Restart`
(memory lost, start-up recovery runs), `RedisLost` (a container reset wipes the
flags); together at most `MaxFaults`. A commit whose acknowledgement is lost is
not modelled.

**What raises no action.** `assert_legal_project` and `assert_legal_milestone` raise
on an illegal move. The actions have the check as a guard, and `WritesLegal`
shows, and section 5 proves, that the guard never refuses: the raise is dead code.

Operators named `<definition>_<bug>` are variants with a plausible bug, used
only to see that a property notices it.

### MilestoneBuild

| Variable (BuildState) | Code |
| --- | --- |
| `target`, `delivered` | tables `steering_notes`, `steering_note_deliveries` |
| `hand`, `hook`, `told` | notes a pull has returned to a prompt; the rows a hook's SELECT returned; history: what each role's agent has read |
| `latest` | newest row of `milestone_sessions` per SDK role, and whether the CLI still has that conversation |
| `spent`, `unledgered`, `dayOver` | token_log of the milestone; history: tokens used outside it; the day's budget |
| `dirty`, `headOk` | the working tree against HEAD; history: did what HEAD holds pass CI and review |
| `exists`, `wired`, `recorded`, `remote`, `announced` | the GitHub repository, git's `origin`, `projects.github_repo`, GitHub's main, the shipped message |
| `stage`, `done`, `retry` | `projects.state`, finished milestones, `retry_count` of the next |
| `pc`, `att` | the next call of the tick, and its local variables |

A call of an agent is four steps: open (the options are built, which pulls the
notes), start (the agent has them before it), stream, end. It may end with a
result (a session row and a ledger line with the exact cost), as a stream that
closes without one (estimated spend), as a CLI that dies, or as a resume that
finds no conversation, which is tried once more afresh. While it streams, hooks
pull in threads of their own: SELECT and INSERT are separate steps of each.
Agents may edit the tree, or commit themselves since they have a shell. Tokens
are small numbers up to `MaxCall` per call. A fault is a call that raises, a CLI that
dies, a failing write of the ledger, a failing push or GitHub call, or a restart.

### Ideation

`proj` is the projects table as `get_active` and `list_by_state` see it (planning to
integration are one state, `active`), `evals` the accepted rows of idea_evaluations,
`queue` the coroutines at the asyncio lock (its head has it), `step`, `round`,
`todo`, `scored` what the head holds, `op` the router's threads. The three queries
of `_swarm_has_work` and of the router's `_has_active_work` are three steps. Ideas are
alike when equal: similarity of titles and summaries is a judgement on text. A rejected idea
keeps a total of at most `RejectedCap` (50 in the code), which need not be below the gate, an
operator's setting: what keeps it out is its reason for rejection.

### ControlPlane

`pending`, `status`, `age` are the bot's store and what became of each confirmation. The store is
a dictionary in the order of insertion; tokens are numbered in the order they are asked for, so
that a set of them says the same, and the oldest is the smallest;
`start`, `count` the API's fixed window; `live`, `stored`, `saving` one setting in memory, in
its row, and between the two. The bot handles one update at a time (python-telegram-bot's
default), API dispatches run in threads. Time is an action, `Clock`, that ages what is timed.

### Transcript

An entry is stored by its publisher's thread, then put on the event loop
(`loop`), then dispatched into the queue of an open stream of its project. The page (`view`,
`fetch`, `shown`, `seen`) asks for history and opens the stream at once, and may move on before
either answers. One page and one stream: streams do not share queues. An entry is numbered in
the step that stores it, so `seq` has the order of the numbers and a history is a set, which the page
takes `InOrder`; what the page shows is a sequence, because frames and history mix in it.

## 3. The runs

| Run | Question | Checks |
| --- | --- | --- |
| `lifecycle` | Is every write legal, every claim exclusive, nothing shipped unfinished, no gate opened, whatever interleaves? | `TypeOK ClaimsExclusive ShipsComplete RetriesBounded WritesLegal SnapshotCurrent ApprovalGateUnlessFault`, `LegalTransitions`, `ImplementsLifecycle` |
| `graph` | Does the milestone graph survive splits, amends, consolidations, retries and a crash, whatever crews write into their notes, and does an unattended project come to rest? | `OrdinalsContiguous BuildsInOrder ConsolidationsSpaced GraphBounded`, `Settles` |
| `abort` | Does an abort stop a project that can advance, is an attempt left behind taken up again, and does the project come to rest under an operator too? | `AbortStops Settles AttemptsResolved` |
| `fifo` | Is the oldest ready project served? | `OldestServed` |
| `build` | What do failed calls, lost sessions, concurrent hooks, half-done publishing and resumes do to notes, ledger, workspace and GitHub? | `TypeOK ToldOnce SpendBounded LedgerComplete PushVerified PublishedUnlessFault`, `LostWithFailedCall RaisesOnlyOnFault StepEnds` |
| `ideation` | Can ideation repeat itself, crowd the swarm, lose its reasons or its lock? | `TypeOK NeverRepitched Explained`, `OneAtATime LockPassesOn` |
| `control` | Do confirmations, rate limit and settings keep their word? | `TypeOK Answerable RefusedOnlyWhenFull LiveIsStored`, `RunOnce` |
| `transcript` | Does the page show the right entries, whatever order they come in? | `TypeOK PageSound NothingMissed` |
| `abort_parked`, `starvation`, `approval_crash`, `lost_note` | Is it as a document or comment says? | one property each, violated: section 6 |

**Bounds.** Every unbounded choice has a named constant: `MaxPlan` milestones in a
plan, `MaxChildren` children of a split, `CrewNotes`, the notes crews write,
`MaxFaults` faults, and the finite set
`MilestoneId`, which is large enough that it never runs out before the scope cap
stops the graph (`Placements(...) # {}` guards the insertions). Numbers that
the code gets from settings are small: a retry limit of 2 distinguishes "again"
from "at the limit", a cadence of 1 makes a consolidation follow every
milestone, a scope cap of 2 or 3 is passed by one split.

* `lifecycle`: two workers (to contend for a claim), one operator, one project, one
  fault; a plan of at most two milestones, splits and consolidations to six. One project is
  enough: workers and handlers of different projects share only the pool's
  maps, the flags and the day's budget, and the proofs of section 5 hold for any number.
* `graph`: one worker and no operator, so that the space goes into the graph: plans of up to two, a
  scope cap of 3, cadence 1, one fault; six ids, one more than `GraphBounded` allows. `CrewNotes` has the note without a marker
  and the one with [CONSOLIDATION], in each place where a crew writes one: planned and inserted consolidations
  meet at once. The other two notes differ in [AUTO-SPLIT, which only suppresses a split that need not come anyway.
* `abort`: one operator, so Pause, Resume and Abort alternate with the tick; a plan of two with consolidations; a
  limit of two transient failures (one back-off), the daily throttle coming and going, one fault. The retry limit is 1,
  so that a failed milestone waits for the operator; what the replanning crew does to one that failed is in `graph`.
  `Settles` is here for back-off, throttle and resumes, in `graph` for retries and the growing graph.
* `fifo`: two projects and one worker, the smallest contention; single milestones
  and no splits, because only the claim order matters.

* `build`: two milestones (the repository is made in the first tick and found in the
  second), one repair, retry limit 2, a cap of one token and calls of at most one, so that
  every call can be the one that passes it; one note, for every role or for all, and two
  hooks, the smallest race of two pulls; one fault, which may also be the one restart that
  loses the sessions. More notes only multiply independent copies of the same race.
* `lost_note`: one hook and one milestone are enough for the restart that loses the session.
* `ideation`: two ideas, one of them published, room for two projects, one operator, two triggers
  (one waits while the other runs), two rounds, two grades (below and at the gate), one fault.
* `control`: three confirmations for a store of two (one eviction), a time to live of one tick
  of the clock, a limit of two requests in a window of two, three texts of which one is invalid,
  updates from the bot and one API thread, one fault.
* `transcript`: four entries by two threads about two projects, a queue of one, a history of two
  and a page of two, so that each of the three overflows; the page looks at two projects.

Deadlock is checked where the environment never stops; the runs that turn it off
(`graph`, `ideation`, `transcript`) end legitimately: a project that is done or parked with
nobody to command, a table with no room left, an entry bound reached. Symmetry (workers,
hooks, ideas nobody published, threads, page's projects) is used where only safety is checked;
ids of milestones are not symmetric for TLC because `FreshIds` chooses.

**Fairness.** In `Orchestrator`, weak fairness of each worker's step (a worker task loops for ever, its
calls return: CI, HTTP and database calls carry timeouts, an SDK call a limit of
turns), of a handler that has begun, of each cooldown and of the day's end
(clocks advance). None for commands, faults, or the day's budget running out.
Weak fairness suffices: once a worker is inside a tick only its own steps move it on.
`Settles` assumes besides that the daily throttle is eventually lifted for good,
since a day that is over at every check lets no project advance. In `MilestoneBuild`, weak
fairness of the tick's thread and of a hook's query; `StepEnds` says that the crew's loops
are bounded. In `Ideation`, weak fairness of the run that has the lock (the crew's call
returns); operators, cron and pool may do nothing.

**The abstract specification.** `ProjectLifecycle` says what a project is to its
owner: a phase that follows the table, and work that is planned while planning,
finished while building and reopened only while replanning; building and
replanning need a plan, integration and done need finished work.
`ImplementsLifecycle` checks that every step of the orchestrator, under
`work <- WorkOf(ms[p])`, is such a step or invisible.

## 4. What the properties mean

* `ClaimsExclusive`: `_claimed` is exactly the set of projects a worker is inside,
  one worker each. The reclaim of orphans is only sound because of it.
* `ShipsComplete`: integration and done only with a non-empty plan, all of it done.
* `RetriesBounded`: no more failures than the limit between two resumes, plus one per fault.
* `WritesLegal`: a tick never writes a milestone or project state the tables refuse.
* `SnapshotCurrent`: until a tick moves its project, the row holds the state it was claimed in.
* `LegalTransitions`: the row itself follows the table, although writers check copies.
* `ApprovalGateUnlessFault`: no milestone is touched before the plan is approved; a
  fault at one place breaks this (run `approval_crash`).
* `OrdinalsContiguous`, `BuildsInOrder`, `GraphBounded`: the graph. `DoneStaysDone` (no step reopens, fails or
  deletes a finished milestone) is only proved.
* `ConsolidationsSpaced`: between a consolidation that the cadence inserted and the nearest one
  before it, whoever wrote that, N other milestones were finished. It is about what the scheduler
  inserts: two milestones a crew marked may well stand side by side, for instance the children of a split
  consolidation. That one comes no later than promised is not so:
  section 6.
* `Settles`, `AttemptsResolved`, `AbortStops`, `OldestServed`: liveness.

* `ToldOnce`, `LostWithFailedCall`: no agent hears a note twice; a note that is marked
  delivered and heard by nobody was on its way in a call that failed.
* `SpendBounded`: a milestone's spend passes its cap by at most three calls (two
  Reviewer kickoffs and the Diagnostician come without asking again), over any number of
  retries and resumes. `LedgerComplete`: every token is in the ledger, but for one call
  per fault.
* `PushVerified`: whenever GitHub's main equals HEAD, HEAD's tree passed CI and review
  in the attempt that committed it. (CI may itself leave files behind; the model's gate does not.)
* `PublishedUnlessFault`: without faults each finished milestone is on GitHub when its tick ends.
* `RaisesOnlyOnFault`: no tick crashes over something an earlier fault left behind. `StepEnds`: a build step ends.
* `NeverRepitched`, `Explained`, `OneAtATime`, `LockPassesOn`: ideation. The lock covers two
  ideations, not SubmitIdea and not the pool: `OneAtATime` says that an unforced ideation adds a
  project beside a live one only if that one was submitted, or moved by the pool, after it began to look.
  Both happen: the three queries can miss a project that moves from queued to active, or from
  blocked back to building, between them.
* `RunOnce`, `Answerable`, `RefusedOnlyWhenFull`, `LiveIsStored`: the front doors. `LiveIsStored`
  excludes, until the next restart, a write that failed and two updates that overlap: either can
  leave one value live and the other stored.
* `PageSound`, `NothingMissed`: the page. `gap` collects what may be missing, each with its reason.

`SnapshotCurrent` and `LegalTransitions` need a single operator handler at a time: two handlers
that both read a parked state write one after the other, with ticks in between, and the second
write takes the project from wherever it is by then.

## 5. What is proved

Every invariant and every action property that a passing run checks is also a theorem, and so is
the refinement; only liveness is left to TLC. Each theorem holds for every value of the constants
that satisfies the module's assumptions (types of the settings, at least one project, milestone id
or idea, a line and a store with room for one), which TLC evaluates in every run. Six theorems
have a hypothesis of their own:

* `CurrentCorrect`, `LegalTransitionsCorrect`, `RetriesBoundedCorrect`,
  `ApprovalGateUnlessFaultCorrect`, `ImplementsLifecycleCorrect` assume `SingleOperator`: one
  operator handler at a time, with any number of projects, workers and faults. The first two
  are false with two (section 4); the proofs of the other three rest on the first.
* `GraphBoundedCorrect` assumes `MaxChildren >= 2`, since an automatic split always makes two.

### Claims, writes and finished work

`OrchestratorProofs` (with lemmas on the table operators in `MilestonesProofs`), for all sets
of projects, workers, operators and ids, all settings and all bounds:

| Theorem | Says |
| --- | --- |
| `TypeCorrect` | `Safety => []TypeOK` |
| `ClaimsCorrect` | `Safety => []ClaimsExclusive` |
| `FitsCorrect` | `Safety => []Fits` |
| `WritesLegalCorrect` | `Safety => []WritesLegal` |
| `CurrentCorrect` | `SnapshotCurrent`, given a single operator handler |
| `LegalTransitionsCorrect` | `LegalTransitions`, given a single operator handler |
| `DoneStaysDoneCorrect` | `Safety => DoneStaysDone` |

The argument. `TypeOK` is inductive; the work is in the table operators, each of
which maps tables to tables (`ReplaceWithType` needs that `FreshIds` numbers the new
rows 0 .. n-1). `ClaimsExclusive` is inductive with `TypeOK`: `StepKinds` sorts the
steps into those that leave claims and places of other workers alone, a claim,
a release and a restart. `WritesLegal` is not inductive: that a build may record
"done" depends on its row still being in building. `Fits` adds what a tick knows
at each of its steps, `JobFits` (which snapshot state can lead to this step, and
which goals a move may have) and `RowFits` (the state of the row it holds), and
it needs `ClaimsExclusive`: other ticks work on other tables, and handlers and
the throttle change no milestone state (`OtherRowsKeepState`). `Current` adds to
`SnapshotCurrent` what a handler knows (`HandlersCurrent`: between its read and its
write the project stays parked), which holds because the pool claims no parked project
and a second handler is excluded. `LegalTransitions` follows from `Fits` and `Current`:
what is legal for the copy is legal for the row. `DoneStaysDone` needs `Fits` for the
writes of a tick and the lemmas `InsertionsKeepDone` and `RowUpdatesKeepDone`.

### The milestone graph

`MilestoneGraphProofs`, for any number of workers and operators:

| Theorem | Says |
| --- | --- |
| `OrderlyCorrect` | `Safety => []Orderly`, the inductive invariant of the next two |
| `OrdinalsContiguousCorrect`, `BuildsInOrderCorrect` | `Safety => []P` |
| `StridesCorrect` | `Safety => []Strides`, the inductive invariant of the next |
| `ConsolidationsSpacedCorrect` | `Safety => []ConsolidationsSpaced` |
| `GraphBoundedCorrect` | `[]GraphBounded`, given `MaxChildren >= 2` |

The steps of a tick are first sorted by what they write (`Effect`: a plan, a reclaim, a pick, an
attempt, its record, a consolidation, a reply, a split), so that each invariant is proved once per
kind of effect and once for everything that happens elsewhere.

* *Order.* That the building milestone is the first not yet done cannot be read off the table when
  it begins: the tick picked it several calls earlier. `Tracks` says that from the reclaim to the start of an
  attempt nothing is under construction and the milestone in hand is the first that waits, and during an
  attempt that nothing else is being built; `SettledQuiet` that a project past its build step has nothing
  under construction; `Loose` how far the row may have left the copy. For tables the lemmas are that
  `ShiftAfter` keeps the order of the rows and leaves room for just what is inserted, so that
  the ordinals stay 0 .. n-1, and that finished rows stay in front.
* *Spacing.* What lies before a consolidation must not change once it is inserted, although any crew may mark,
  unmark or split a milestone. `InStride` says why: `InTurn`, every row before a cadence row is done, and
  finished rows come first, so that what is amended or split lies behind each cadence row (or is one, and stops
  being one). `PastKeptSpaced` carries the count over every step that keeps the rows before a cadence row as
  they were (`SamePast`); at an insertion, what the cadence counted (`ConsolidationCount`) is what the property counts.
* *Growth.* `GraphBounded` is not inductive: at its bound a split would break it. `Grown` says why there
  is none: a graph beyond the cap has nothing under construction and its next milestone was never tried,
  so that it will not be split automatically, and the scope guard lets no tick begin it; there is room for one more
  consolidation unless one already waits. `Scoped` adds that a worker past the guard holds a project within the cap.

### Shipping, retries, the gate, and the abstract lifecycle

`LifecycleProofs`:

| Theorem | Says |
| --- | --- |
| `ShipsCompleteCorrect` (from `BackedCorrect`) | `Safety => []ShipsComplete`, for any operators |
| `RetriesBoundedCorrect`, `ApprovalGateUnlessFaultCorrect` | `Safety => []P`, given a single operator handler |
| `ImplementsLifecycleCorrect` | `Safety => ImplementsLifecycle`, given a single operator handler |

* `Backed` says what each state, each decision a tick has taken and each write a handler is about to
  make stand on: a plan, and for integration finished work. A handler's plan cannot go away, because no
  operation empties a table.
* `Retried` says that where a milestone has used up its retries the project is blocked or its tick is
  about to block it, until a resume has given the retries back. Each fault that falls between the record and the block raises
  the cap by one. Two handlers would break it: one gives back the retries and the other lets the project
  build again before it is blocked.
* `Gated` says that a project whose plan nobody approved has none, or waits for approval untouched, or
  is one step from asking for it.
* For the refinement every action of the orchestrator is shown to be, for every project, a step of `ProjectLifecycle`
  or to leave its phase and work alone; `Backed` gives the guards, `Orderly` that a reclaim reopens nothing.

### The build step

`MilestoneBuildProofs`, for plans of any length, any number of hooks, notes and faults, any caps:

| Theorem | Says |
| --- | --- |
| `TypeCorrect`, `ToldOnceCorrect`, `SpendBoundedCorrect`, `LedgerCompleteCorrect`, `PushVerifiedCorrect`, `PublishedUnlessFaultCorrect` | `Spec => []P` for the invariant of that name |
| `LostWithFailedCallCorrect`, `RaisesOnlyOnFaultCorrect` | the action properties |

None of these invariants is inductive by itself. The inductive one has a part per
concern, each kept by every step given the parts before it:

* `Place`: agents run only in a building project that still has a milestone to build, and
  integration has none left;
* `Notes`: what a call has in its hand was claimed for the role it is about to start and told to
  nobody, and what is not claimed was never told. So a claim that another pull won is never told
  by the loser, and a note that stops being in a hand without being told was in a call that failed;
* `Spending`: how far past the cap each step may already be. After a check, nothing; after one
  paid call, one; the second Reviewer kickoff and the Diagnostician add one each;
* `Verified`: what the attempt's gate holds at each step of the crew, and that HEAD is verified
  wherever the tick may push;
* `Published`: without faults the repository is recorded before the crew starts, and main is behind
  only between the commit and the push.

`LedgerComplete` is inductive with `TypeOK`; its product is kept closed behind a definition, so
that the step needs only that one more fault makes room for one more call.

### Ideation

`IdeationProofs` proves `TypeOK`, `NeverRepitched`, `Explained` and `OneAtATime` for any number of ideas,
triggers, operators and rounds.

* `Novel` says what the round in progress knows of its ideas: those not yet
  compared are unpublished, those compared are new to ideation too. It stays true up to the
  insert because the lock keeps other ideations out and because neither an operator's submission
  nor a move of the pool adds to what ideation has pitched.
* `Looked` says, query by query, that a live project in a state already asked for has been stirred since.
* `Chosen` and `Accounted` are behind `Explained`: at the record step the idea in hand is that of the
  newest project ideation made, and that project is the only one without its row. New ids are greater than
  old ones (`InLine`), whoever takes them, so the id the record looks up is that project even if an older
  one has the same idea or the operator has submitted others meanwhile.
* `RunBounds` has the types that depend on arithmetic: the line of triggers, the rounds, the scores.

### The front doors

`ControlPlaneProofs`, for any number of confirmations, requests, API threads and faults:

* `TypeCorrect`, `AnswerableCorrect`, `RunOnceCorrect` from `StoreInv`: what is in the store is open, confirmations are
  asked for in order, of what is open and young only the oldest are missing, and `ran` is the number of
  Yes answers. With `MaxPending` newer ones asked for since, eviction may take a token; never before.
* `RefusedOnlyWhenFullCorrect` from `WindowInv`: the history of accepted requests is ordered by age and its last
  `Accepted` entries fall into the running window, whenever that began.
* `LiveIsStoredCorrect` from `SettingInv`: while nothing was torn, at most one door is between applying and
  storing, and it stores what is live.

### The transcript

`TranscriptProofs` proves `TypeOK`, `PageSound` and `NothingMissed` for any number of projects, threads, entries
and views, and queues and pages of any size. `Current` says that whatever can still reach the page in this view is of
the view's project: the stream's queue, the replies to this view's request, and what has been seen; replies to an
older view are told apart by the view they were asked in. `Covered` is `NothingMissed` before the history is there:
each published entry of the project has been seen, is in a reply or will be in one not yet read, is in
the queue or on its way to it, or has its reason in `gap`. `InOrderCorrect` says that a history is put in order without
loss or repetition (its ranks are a bijection).

### Model-checked only

The liveness properties `Settles`, `AttemptsResolved`, `AbortStops`, `OldestServed`, `StepEnds` and `LockPassesOn`,
which need fairness and ENABLED; and the four disagreements of section 6, which are counterexamples.

## 6. Where code and documents disagree

The first four are runs that expect a violation; `PROJECT.json` quotes the lines.

* `abort_parked`: an abort of a parked project never takes effect.
* `starvation`: a paused older project keeps younger ones from being served.
* `approval_crash`: a crash while a plan is stored opens the approval gate.
* `lost_note`: a note pulled for a session that cannot be resumed is told to nobody, although
  the call succeeds on its second try ("Each note is delivered exactly once per role").

Further disagreements that the models show but no run keeps:

* Resuming a project past its scope cap (`tick.py:304`, "resume to continue") blocks it again
  at the next build step.
* A well-formed reply of the replanner that splits an unknown milestone raises out of the tick
  (`tick.py:538`), although any unusable reply is said to degrade to Noop.
* The day's budget running out between the two checks of a build step (`tick.py:206`, `:214`) is
  recorded as a failed attempt of a milestone within its own cap.
* Two router threads at once can move a project outside the transition table (`command_router.py:162`).
* "After every Nth (default 5) successful milestone the scheduler injects" a consolidation (`consolidation.py:3`).
  The cadence is asked by a replanning tick only, and answers only while the count is an exact multiple of N
  (`consolidation.py:45`). After a crash between the record of the Nth success and the move to replanning
  (`tick.py:273-282`) the project is still in building, the next milestone is built, and no consolidation comes before 2N.
* "One consolidation at a time" (`consolidation.py:35`) holds for what the scheduler inserts; the crew may split
  a consolidation into several, and a planned milestone whose note contains the marker suspends the
  cadence until it is done. No text speaks of notes crews write, so neither is a finding.
* `settings_store.py:239` accepts `nan` for a float setting: it is neither below the minimum nor above the maximum.

## 7. What is not modelled

Out of reach or without control of its own: prompts and the parsing of replies, the
similarity of texts and the scoring of ideas, the redaction of secrets, the handlers that
turn CrewAI's events into entries, containers and virtual environments of the CI sandbox
(its gate is the conjunction of its steps), git itself, the reports the dashboard reads
(spend, ideas, settings), status texts and notifications, the finance voice, the allow-list of the
bot and the parsing of free text, database migrations, wiring, and the web client but for
`useTranscript`. Settings are constants in `Orchestrator` and `MilestoneBuild`; that they may change
while a tick runs is not explored. Rejected evaluation rows, cost in dollars and the
per-project cost cap inside a build step are left out.

## 8. Plan

* That `MilestoneBuild` implements the build step of `Tick`: the step `crew` with its outcomes as the abstract
  specification of one tick of `MilestoneBuild`, so that the two halves are tied by a theorem and not by a comment.
* `RetriesBounded`, `ApprovalGateUnlessFault` and `ImplementsLifecycle` for several operators, with what two handlers may
  break stated as the exception.
* The uncovered parts of the settings store (several settings at once) and the Telegram allow-list.
