-------------------------------- MODULE Swarm --------------------------------
(***************************************************************************)
(* The state the parts of the orchestrator share: the project rows and     *)
(* their milestone tables (Postgres), the kill flags (Redis), the pool's   *)
(* in-memory claims and back-off, and where each worker and each operator  *)
(* handler stands between two of its calls.                                *)
(***************************************************************************)
EXTENDS Milestones

CONSTANTS
  Project,              \* project ids; a smaller one was created earlier
  Worker,               \* the pool's workers
  Operator,             \* threads that run CommandRouter.dispatch
  RequireApproval,      \* settings.require_approval
  RetryLimit,           \* settings.milestone_retry_limit
  ConsolidationEvery,   \* settings.consolidation_every, 0 = off
  MaxProjectMilestones, \* settings.max_project_milestones, 0 = off
  CostCap,              \* is settings.max_project_cost_usd above 0
  DailyCap,             \* can the daily token budget run out
  MaxTransientFails,    \* scheduler._MAX_TRANSIENT_FAILS
  MaxPlan,              \* bound: milestones in a plan
  MaxChildren,          \* bound: children of one split
  CrewNotes,            \* bound: the notes crews write, of those they can write
  MaxFaults             \* bound: restarts, failed calls and lost Redis data

ASSUME IdAssumption ==
  /\ Project \subseteq Nat /\ Project # {}
  /\ MilestoneId # {}

ASSUME SettingAssumption ==
  /\ RetryLimit \in Nat /\ ConsolidationEvery \in Nat
  /\ MaxProjectMilestones \in Nat /\ MaxTransientFails \in Nat
  /\ RequireApproval \in BOOLEAN /\ CostCap \in BOOLEAN /\ DailyCap \in BOOLEAN
  /\ MaxPlan \in Nat /\ MaxChildren \in Nat /\ MaxFaults \in Nat
  /\ CrewNotes \subseteq CrewNote /\ CrewNotes # {}

VARIABLES
  state,      \* projects.state
  paused,     \* projects.is_paused
  approved,   \* history: was the project's plan ever approved
  ms,         \* the milestone table of each project
  costly,     \* has the project's spend passed the cost cap
  killed,     \* Redis: per-project kill flag
  halted,     \* Redis: global kill flag
  dayOver,    \* is today's token budget spent
  claimed,    \* ProjectPool._claimed
  fails,      \* ProjectPool._transient_fails
  cooldown,   \* is the project before its ProjectPool._cooldown_until
  pc,         \* the next step of each worker
  job,        \* what the worker's current tick holds in local variables
  op,         \* the next step of each operator handler, and its project
  faults      \* faults so far

projectVars == <<state, paused, approved>>
redisVars   == <<killed, halted>>
poolVars    == <<claimed, fails, cooldown>>
envVars     == <<dayOver, faults>>
workerVars  == <<pc, job>>
vars == <<projectVars, ms, costly, redisVars, envVars, poolVars, workerVars, op>>

(***************************************************************************)
(* A worker's program counter.  Between two labels lies one call that      *)
(* commits to a store, or one read whose result the tick acts on later.    *)
(***************************************************************************)
TickSteps ==
  {"entry", "pause_check", "plan", "reclaim", "pick", "cap", "trip", "start",
   "crew", "success", "failure", "unbuild", "consolidate", "replan", "split", "amend",
   "integrate", "move"}

WorkerSteps == {"idle", "return", "crashed"} \cup TickSteps

\* project.id and project.state as claimed; the milestone, its retry_count and
\* the child count as read; the state _move is about to write.
Job == [p: Project, snap: ProjectState, m: MilestoneId, retry: Nat,
        kids: Nat, auto: BOOLEAN, goal: ProjectState]

NoJob == [p |-> CHOOSE p \in Project : TRUE, snap |-> "queued",
          m |-> CHOOSE m \in MilestoneId : TRUE, retry |-> 0,
          kids |-> 0, auto |-> FALSE, goal |-> "queued"]

OperatorSteps == {"idle", "approve", "resume_read", "resume_plan",
                  "resume_reset", "resume_build"}

NoOp == [step |-> "idle", p |-> CHOOSE p \in Project : TRUE]

TypeOK ==
  /\ state \in [Project -> ProjectState]
  /\ paused \in [Project -> BOOLEAN]
  /\ approved \in [Project -> BOOLEAN]
  /\ ms \in [Project -> Table]
  /\ costly \in [Project -> BOOLEAN]
  /\ killed \in [Project -> BOOLEAN]
  /\ halted \in BOOLEAN
  /\ dayOver \in BOOLEAN
  /\ claimed \subseteq Project
  /\ fails \in [Project -> Nat]
  /\ cooldown \in [Project -> BOOLEAN]
  /\ pc \in [Worker -> WorkerSteps]
  /\ job \in [Worker -> Job]
  /\ op \in [Operator -> [step: OperatorSteps, p: Project]]
  /\ faults \in 0 .. MaxFaults

Init ==
  /\ state = [p \in Project |-> "queued"]
  /\ paused = [p \in Project |-> FALSE]
  /\ approved = [p \in Project |-> FALSE]
  /\ ms = [p \in Project |-> [m \in MilestoneId |-> NoRow]]
  /\ costly = [p \in Project |-> FALSE]
  /\ killed = [p \in Project |-> FALSE]
  /\ halted = FALSE
  /\ dayOver = FALSE
  /\ claimed = {}
  /\ fails = [p \in Project |-> 0]
  /\ cooldown = [p \in Project |-> FALSE]
  /\ pc = [i \in Worker |-> "idle"]
  /\ job = [i \in Worker |-> NoJob]
  /\ op = [o \in Operator |-> NoOp]
  /\ faults = 0

\* DefaultTokenBudget.can_spend: today's budget, then the milestone's cap.
CanSpend(p, m) == ~dayOver /\ ~ms[p][m].over
=============================================================================
