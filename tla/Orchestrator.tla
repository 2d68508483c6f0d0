---------------------------- MODULE Orchestrator ----------------------------
(***************************************************************************)
(* The orchestrator process: pool workers running ticks, operator handlers *)
(* and the environment, and the properties of their composition.           *)
(***************************************************************************)
EXTENDS Tick, ProjectPool, CommandRouter

(***************************************************************************)
(* The process dies and starts again: memory is lost, requeue_stale_building*)
(* runs before the pool does.                                              *)
(***************************************************************************)
Restart ==
  /\ faults < MaxFaults
  /\ faults' = faults + 1
  /\ claimed' = {}
  /\ fails' = [p \in Project |-> 0]
  /\ cooldown' = [p \in Project |-> FALSE]
  /\ pc' = [i \in Worker |-> "idle"]
  /\ job' = [i \in Worker |-> NoJob]
  /\ op' = [o \in Operator |-> NoOp]
  /\ ms' = [p \in Project |-> requeue_stale_building(ms[p])]
  /\ UNCHANGED <<projectVars, costly, redisVars, dayOver>>

\* A container reset wipes the Redis keys.
RedisLost ==
  /\ faults < MaxFaults
  /\ halted \/ \E p \in Project : killed[p]
  /\ faults' = faults + 1
  /\ killed' = [p \in Project |-> FALSE]
  /\ halted' = FALSE
  /\ UNCHANGED <<projectVars, ms, costly, dayOver, poolVars, workerVars, op>>

\* Spend anywhere in the swarm uses up the day's budget; at midnight UTC the
\* ledger's day starts again.
DaySpent ==
  /\ DailyCap /\ ~dayOver
  /\ dayOver' = TRUE
  /\ UNCHANGED <<projectVars, ms, costly, redisVars, faults, poolVars, workerVars, op>>

DayRolls ==
  /\ dayOver
  /\ dayOver' = FALSE
  /\ UNCHANGED <<projectVars, ms, costly, redisVars, faults, poolVars, workerVars, op>>

WorkerStep(i) == TickStep(i) \/ PoolStep(i)

Next ==
  \/ \E i \in Worker : WorkerStep(i) \/ CallRaises(i) \/ BlockLost(i)
  \/ \E o \in Operator : Command(o) \/ HandlerStep(o)
  \/ \E p \in Project : CooldownElapses(p)
  \/ Restart \/ RedisLost \/ DaySpent \/ DayRolls

Safety == Init /\ [][Next]_vars

(***************************************************************************)
(* A worker task never stops looping and its calls return (CI, HTTP and    *)
(* database calls carry timeouts, an SDK call a limit on its turns); a     *)
(* handler that began runs on; clocks advance.  No operator is obliged to  *)
(* issue a command, and no fault to happen.                                *)
(***************************************************************************)
Fairness ==
  /\ \A i \in Worker : WF_vars(WorkerStep(i))
  /\ \A o \in Operator : WF_vars(HandlerStep(o))
  /\ \A p \in Project : WF_vars(CooldownElapses(p))
  /\ WF_vars(DayRolls)

Spec == Safety /\ Fairness

-----------------------------------------------------------------------------
Busy(i) == pc[i] # "idle"

(***************************************************************************)
(* ProjectPool._claimed holds exactly the projects some worker is inside,  *)
(* and never two workers inside one: the premise of "a single worker       *)
(* builds one project at a time" that the orphan reclaim relies on.        *)
(***************************************************************************)
ClaimsExclusive ==
  /\ \A i, j \in Worker : Busy(i) /\ Busy(j) /\ job[i].p = job[j].p => i = j
  /\ claimed = {job[i].p : i \in {k \in Worker : Busy(k)}}

(***************************************************************************)
(* The ordinals of a project's milestones are 0, 1, 2, ... without a gap   *)
(* or a duplicate, whatever splits and insertions have moved.              *)
(***************************************************************************)
OrdinalsContiguous ==
  \A p \in Project : \A a \in Rows(ms[p]) :
    /\ \A b \in Rows(ms[p]) : ms[p][a].ordinal = ms[p][b].ordinal => a = b
    /\ ms[p][a].ordinal > 0 =>
         \E b \in Rows(ms[p]) : ms[p][b].ordinal + 1 = ms[p][a].ordinal

(***************************************************************************)
(* A milestone is under construction only when every milestone before it   *)
(* is done: no crash, budget pause, split or insertion leaves a hole.      *)
(***************************************************************************)
BuildsInOrder ==
  \A p \in Project : \A a, b \in Rows(ms[p]) :
    ms[p][a].state = "building" /\ ms[p][b].ordinal < ms[p][a].ordinal
      => ms[p][b].state = "done"

(***************************************************************************)
(* A project in integration or done has a plan, and all of it is done: a   *)
(* resume of a project blocked before planning never reaches integration   *)
(* on an empty repository, and no orphaned milestone is shipped around.    *)
(***************************************************************************)
ShipsComplete ==
  \A p \in Project : state[p] \in {"integration", "done"} =>
    Rows(ms[p]) # {} /\ AllDone(ms[p])

(***************************************************************************)
(* No milestone fails more than milestone_retry_limit times between two    *)
(* resumes, except once more for each fault: one that falls between        *)
(* record_attempt and the block leaves the project buildable.  (A limit of *)
(* zero acts like one.)                                                    *)
(***************************************************************************)
RetriesBounded ==
  \A p \in Project, m \in MilestoneId :
    ms[p][m].retry_count <= (IF RetryLimit = 0 THEN 1 ELSE RetryLimit) + faults

(***************************************************************************)
(* No write of a tick is ever refused by assert_legal_milestone or         *)
(* assert_legal_project: what it is about to write is legal for the row as *)
(* it is then, however long ago the row was read.                          *)
(***************************************************************************)
WritesLegal ==
  \A i \in Worker :
    LET s == ms[job[i].p][job[i].m].state IN
    /\ pc[i] \in {"trip", "failure"} => s # "none" /\ LegalMilestone(s, "failed")
    /\ pc[i] = "start"   => s # "none" /\ LegalMilestone(s, "building")
    /\ pc[i] = "unbuild" => s # "none" /\ LegalMilestone(s, "pending")
    /\ pc[i] = "success" => s # "none" /\ LegalMilestone(s, "done")
    /\ pc[i] = "move"    => LegalProject(job[i].snap, job[i].goal)

(***************************************************************************)
(* Until a tick has moved its project or raised, the row still holds the   *)
(* state the project was claimed in: what the tick decides by an old copy  *)
(* of the row, and writes without looking again, is decided by the row.    *)
(***************************************************************************)
SnapshotCurrent ==
  \A i \in Worker :
    pc[i] \notin {"idle", "return"} => state[job[i].p] = job[i].snap

(***************************************************************************)
(* Between a consolidation milestone the cadence inserted and the one      *)
(* before it, whoever wrote that, at least consolidation_every other       *)
(* milestones were finished: a replanning step that a fault makes run      *)
(* twice, and the notes crews write into plans, children and amends, never *)
(* make the cadence run ahead.  (What a crew makes of an inserted          *)
(* consolidation is the crew's: its children and its amended note.)        *)
(***************************************************************************)
ConsolidationsSpaced ==
  \A p \in Project :
    LET t == ms[p]
        Earlier(b) == {c \in Rows(t) : "consol" \in t[c].note /\ t[c].ordinal < t[b].ordinal}
        Since(b) == {m \in Rows(t) :
                       /\ t[m].state = "done" /\ "consol" \notin t[m].note
                       /\ t[m].ordinal < t[b].ordinal
                       /\ \A c \in Earlier(b) : t[c].ordinal < t[m].ordinal}
    IN  \A b \in Rows(t) :
          "cadence" \in t[b].note => Cardinality(Since(b)) >= ConsolidationEvery

(***************************************************************************)
(* With the scope cap on, splitting and consolidating cannot grow a        *)
(* project's graph beyond one insertion and one split past the cap (or the *)
(* plan), however often it fails, crashes and is resumed.                  *)
(***************************************************************************)
GraphBounded ==
  \A p \in Project : MaxProjectMilestones > 0 =>
    LET base == IF MaxPlan > MaxProjectMilestones THEN MaxPlan ELSE MaxProjectMilestones
    IN  Cardinality(Rows(ms[p])) <= base + MaxChildren

(***************************************************************************)
(* require_approval: no milestone is touched before the operator approved  *)
(* the plan.                                                               *)
(***************************************************************************)
ApprovalGate ==
  RequireApproval => \A p \in Project, m \in MilestoneId :
    ms[p][m].state \in {"building", "done", "failed"} => approved[p]

(***************************************************************************)
(* Pauses, aborts, resumes and crews that raise never open the gate: it    *)
(* takes a fault between the planning crew's rows and the tick's move.     *)
(***************************************************************************)
ApprovalGateUnlessFault == faults = 0 => ApprovalGate

(***************************************************************************)
(* A project's row only ever follows PROJECT_TRANSITIONS, although every   *)
(* writer checks a copy read earlier or nothing at all.                    *)
(***************************************************************************)
LegalTransition(p) ==
  state'[p] # state[p] => LegalProject(state[p], state'[p])

LegalTransitions == [][\A p \in Project : LegalTransition(p)]_vars

\* DONE stays terminal for a milestone: it is never reopened nor deleted.
DoneStaysDone ==
  [][\A p \in Project, m \in MilestoneId :
       ms[p][m].state = "done" => ms'[p][m].state = "done"]_vars

(***************************************************************************)
(* The rows of a project seen as the work of ProjectLifecycle.             *)
(***************************************************************************)
WorkOf(t) ==
  CASE Rows(t) = {} -> "none"
    [] Rows(t) # {} /\ AllDone(t) -> "finished"
    [] OTHER -> "open"

Lifecycle == INSTANCE ProjectLifecycle
               WITH phase <- state, work <- [p \in Project |-> WorkOf(ms[p])]

(***************************************************************************)
(* The orchestrator implements ProjectLifecycle: every step of a worker,   *)
(* handler or restart is a legal move, a legal change of the project's     *)
(* work, or invisible.                                                     *)
(***************************************************************************)
ImplementsLifecycle == Lifecycle!LifecycleSpec

Advanceable(p) == state[p] \in ADVANCEABLE_STATES

(***************************************************************************)
(* With the daily throttle eventually lifted, a project nobody pauses or   *)
(* halts does not circle between building and replanning forever: it is    *)
(* done, killed, or parked for the operator.                               *)
(***************************************************************************)
Settles ==
  <>[](~dayOver) =>
    \A p \in Project : Advanceable(p) ~> (~Advanceable(p) \/ paused[p] \/ halted)

(***************************************************************************)
(* A milestone left in building by a crash, a restart or a budget pause is *)
(* taken up again, or its project is parked.                               *)
(***************************************************************************)
AttemptsResolved ==
  \A p \in Project, m \in MilestoneId :
    ms[p][m].state = "building"
      ~> (ms[p][m].state # "building" \/ ~Advanceable(p) \/ paused[p] \/ halted)

(***************************************************************************)
(* An abort stops a project that could advance, paused or not, once its    *)
(* turn comes: an older project may hold a worker, as OldestServed allows. *)
(***************************************************************************)
AbortStops ==
  \A p \in Project :
    killed[p] /\ Advanceable(p)
      ~> \/ ~Advanceable(p) \/ ~killed[p] \/ halted
         \/ \E q \in Project : q < p /\ Advanceable(q)

(***************************************************************************)
(* "Terminal - the project becomes killed": an abort that nobody takes     *)
(* back kills the project, whatever state it finds it in.                  *)
(***************************************************************************)
AbortKills ==
  \A p \in Project :
    killed[p] ~> (state[p] \in TERMINAL_PROJECT_STATES \/ ~killed[p] \/ halted)

(***************************************************************************)
(* First come, first served: a project that stays ready while no older one *)
(* is advanceable is claimed again and again, whatever the younger ones do.*)
(***************************************************************************)
OldestServed ==
  \A p \in Project :
    <>[](/\ Advanceable(p) /\ ~cooldown[p]
         /\ \A q \in Project : q < p => ~Advanceable(q))
      => []<>(p \in claimed)

(***************************************************************************)
(* Stopping one project does not disturb the others: a project that stays  *)
(* ready while every other one stays paused is claimed again and again.    *)
(***************************************************************************)
PausedDoNotDisturb ==
  \A p \in Project :
    <>[](/\ Advanceable(p) /\ ~paused[p] /\ ~cooldown[p] /\ ~halted
         /\ \A q \in Project \ {p} : paused[q])
      => []<>(p \in claimed)
=============================================================================
