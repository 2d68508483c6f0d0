------------------------------ MODULE BuildState ------------------------------
(***************************************************************************)
(* What the building steps of one project share: the steering notes, the   *)
(* CLI sessions of the milestone being built, the ledger, the git          *)
(* workspace, the GitHub repository, and where the tick's thread stands.   *)
(* Milestones are built in order, so one milestone's rows are live.        *)
(***************************************************************************)
EXTENDS Integers, FiniteSets

CONSTANTS
  Note,             \* ids of steering notes, in the order they are written
  Hook,             \* PreToolUse hooks that can run at one time
  MilestoneCount,   \* milestones in the project's plan
  CiRepairAttempts, \* settings.ci_repair_attempts
  RetryLimit,       \* settings.milestone_retry_limit
  TokenCap,         \* settings.per_milestone_token_budget
  MaxCall,          \* bound: tokens one LLM call can use
  GithubToken,      \* is settings.github_token set
  MaxFaults         \* bound: failed calls and restarts

ASSUME BuildAssumption ==
  /\ Note \subseteq Nat
  /\ MilestoneCount \in Nat /\ CiRepairAttempts \in Nat /\ RetryLimit \in Nat
  /\ TokenCap \in Nat /\ MaxCall \in Nat /\ MaxFaults \in Nat
  /\ GithubToken \in BOOLEAN

VARIABLES
  target,     \* steering_notes: the role a note is for, "all", or "none" yet
  delivered,  \* steering_note_deliveries
  hand,       \* notes read for a call whose agent has not started
  told,       \* history: how often each note was put before each role
  hook,       \* what each running hook has selected
  latest,     \* the latest milestone_sessions row of each SDK role
  spent,      \* token_log: the milestone's tokens
  unledgered, \* history: tokens used that never reached the token_log
  dayOver,    \* is today's token budget spent
  dirty,      \* does the working tree differ from HEAD
  headOk,     \* had HEAD's tree passed CI and review when it was committed
  exists,     \* does the GitHub repository exist
  wired,      \* does the workspace have the remote "origin"
  recorded,   \* is projects.github_repo set
  remote,     \* GitHub's main: "none", "old", or "new" when it equals HEAD
  announced,  \* has "shipped to ..." been sent
  stage,      \* projects.state
  done,       \* milestones that are done
  retry,      \* retry_count of the milestone being built
  pc,         \* the next step of the tick's thread
  att,        \* what the current build step holds in local variables
  faults      \* faults so far

noteVars   == <<target, delivered, hand, told, hook>>
ledgerVars == <<spent, unledgered>>
treeVars   == <<dirty, headOk>>
repoVars   == <<exists, wired, recorded, remote, announced>>
rowVars    == <<stage, done, retry>>
vars == <<noteVars, latest, ledgerVars, dayOver, treeVars, repoVars, rowVars,
          pc, att, faults>>

SdkRole == {"Developer", "Tester"}
Role == SdkRole \cup {"Reviewer"}

\* milestone_sessions holds the id of a session the CLI still has, or has lost.
Session == {"none", "alive", "dead"}

BuildSteps == {"create", "wire", "record", "call", "session", "retry", "stream", "budget",
               "ci", "review", "kick", "commit", "done", "push", "failed",
               "attempt", "ship"}

Stages == {"developer", "tester", "repair", "reviewer"}

\* retry_count and github_repo as read when the tick began; the crew's stage;
\* the session being resumed; CI repairs and Reviewer kickoffs so far; what the
\* working tree has passed in this attempt since it was last edited.
Attempt == [retry: Nat, repo: BOOLEAN, stage: Stages, resume: Session,
            repairs: Nat, kicks: 0 .. 1, gate: SUBSET {"ci", "review"}]

NoAttempt == [retry |-> 0, repo |-> FALSE, stage |-> "developer",
              resume |-> "none", repairs |-> 0, kicks |-> 0, gate |-> {}]

TypeOK ==
  /\ target \in [Note -> Role \cup {"all", "none"}]
  /\ delivered \subseteq Note \X Role
  /\ hand \subseteq delivered
  /\ told \in [Note \X Role -> Nat]
  /\ hook \in [Hook -> SUBSET Note]
  /\ latest \in [SdkRole -> Session]
  /\ spent \in Nat /\ unledgered \in Nat
  /\ dayOver \in BOOLEAN
  /\ dirty \in BOOLEAN /\ headOk \in BOOLEAN
  /\ exists \in BOOLEAN /\ wired \in BOOLEAN /\ recorded \in BOOLEAN
  /\ remote \in {"none", "old", "new"}
  /\ announced \in BOOLEAN
  /\ stage \in {"building", "integration", "done", "blocked"}
  /\ done \in 0 .. MilestoneCount
  /\ retry \in Nat
  /\ pc \in BuildSteps \cup {"idle", "raised"}
  /\ att \in Attempt
  /\ faults \in 0 .. MaxFaults

\* A freshly approved project: its workspace holds the bootstrap commit; a
\* repository of its name may be left from an earlier project.
Init ==
  /\ target = [n \in Note |-> "none"]
  /\ delivered = {} /\ hand = {}
  /\ told = [x \in Note \X Role |-> 0]
  /\ hook = [h \in Hook |-> {}]
  /\ latest = [r \in SdkRole |-> "none"]
  /\ spent = 0 /\ unledgered = 0
  /\ dayOver = FALSE
  /\ dirty = FALSE /\ headOk = TRUE
  /\ exists \in BOOLEAN
  /\ wired = FALSE /\ recorded = FALSE /\ remote = "none" /\ announced = FALSE
  /\ stage = "building" /\ done = 0 /\ retry = 0
  /\ pc = "idle"
  /\ att = NoAttempt
  /\ faults = 0

Goto(label) == pc' = label

\* The tick returns or is gone, and its local variables with it.
Leave == pc' = "idle" /\ att' = NoAttempt

\* DefaultTokenBudget.can_spend, for the milestone.
CanSpend == ~dayOver /\ spent <= TokenCap

\* A call of this step fails: it is one of the run's faults.
Fault == faults < MaxFaults /\ faults' = faults + 1
=============================================================================
