------------------------- MODULE OrchestratorProofs -------------------------
(***************************************************************************)
(* Theorems about the orchestrator, for every set of projects, workers,    *)
(* operators and milestone ids and every value of the settings and bounds. *)
(***************************************************************************)
EXTENDS Orchestrator, MilestonesProofs

USE IdAssumption, SettingAssumption DEF projectVars, redisVars, poolVars, envVars, workerVars

-----------------------------------------------------------------------------
(* Types *)

\* The job of an idle worker is of the right type.
LEMMA NoJobType == NoJob \in Job
<1>1. /\ (CHOOSE p \in Project : TRUE) \in Project
      /\ (CHOOSE m \in MilestoneId : TRUE) \in MilestoneId
  OBVIOUS
<1> QED
  BY <1>1 DEF NoJob, Job, ProjectState

\* The initial place of a handler is of the right type.
LEMMA NoOpType == NoOp \in [step: OperatorSteps, p: Project]
<1>1. (CHOOSE p \in Project : TRUE) \in Project
  OBVIOUS
<1> QED
  BY <1>1 DEF NoOp, OperatorSteps

\* Going on to another step keeps the places well typed.
LEMMA GotoType ==
  ASSUME TypeOK, NEW i \in Worker, NEW label \in WorkerSteps, Goto(i, label)
  PROVE  pc' \in [Worker -> WorkerSteps]
BY DEF TypeOK, Goto

\* Deciding on a state to move to keeps places and jobs well typed.
LEMMA ToMoveType ==
  ASSUME TypeOK, NEW i \in Worker, NEW s \in ProjectState, ToMove(i, s)
  PROVE  pc' \in [Worker -> WorkerSteps] /\ job' \in [Worker -> Job]
<1>1. pc' \in [Worker -> WorkerSteps]
  BY DEF TypeOK, ToMove, WorkerSteps, TickSteps
<1>2. job[i] \in Job
  BY DEF TypeOK
<1>3. [job[i] EXCEPT !.goal = s] \in Job
  BY <1>2 DEF Job
<1>4. job' = [job EXCEPT ![i] = [job[i] EXCEPT !.goal = s]]
  BY DEF ToMove
<1> QED
  BY <1>1, <1>3, <1>4 DEF TypeOK

\* The initial state is well typed.
LEMMA InitType == Init => TypeOK
<1> SUFFICES ASSUME Init PROVE TypeOK
  OBVIOUS
<1>1. ms \in [Project -> Table]
  BY NoRowType DEF Init, Table
<1>2. job \in [Worker -> Job] /\ op \in [Operator -> [step: OperatorSteps, p: Project]]
  BY NoJobType, NoOpType DEF Init
<1>3. 0 \in 0 .. MaxFaults
  OBVIOUS
<1> QED
  BY <1>1, <1>2, <1>3 DEF Init, TypeOK, ProjectState, WorkerSteps

\* The table a tick writes for its own project leaves every table a table.
LEMMA TableWriteType ==
  ASSUME TypeOK, NEW p \in Project, NEW t \in Table, ms' = [ms EXCEPT ![p] = t]
  PROVE  ms' \in [Project -> Table]
BY DEF TypeOK

\* Spend leaves costly a flag per project.
LEMMA SpendsType ==
  ASSUME TypeOK, NEW p \in Project, Spends(p)
  PROVE  costly' \in [Project -> BOOLEAN]
BY DEF TypeOK, Spends

\* The notes a tick writes: what its crew may, or what the row has.
LEMMA AmendNotesType ==
  ASSUME TypeOK, NEW i \in Worker, NEW note \in AmendNotes(i)
  PROVE  note \in Note /\ (note \in CrewNote \/ note = ms[job[i].p][job[i].m].note)
<1>1. ms[job[i].p][job[i].m] \in Row
  BY RowFacts DEF TypeOK, Job
<1> QED
  BY <1>1, SettingAssumption DEF AmendNotes, Row, Note

\* A split's children have notes a crew can write, copied or not: a half does
\* not inherit that its parent was the cadence's.
LEMMA ChildNotesType ==
  ASSUME TypeOK, NEW i \in Worker, NEW notes \in ChildNotes(i)
  PROVE  notes \in [0 .. job[i].kids - 1 -> CrewNote]
<1> DEFINE own == ms[job[i].p][job[i].m].note
<1>1. ms[job[i].p][job[i].m] \in Row
  BY RowFacts DEF TypeOK, Job
<1>2. own \in Note
  BY <1>1 DEF Row
<1>3. (own \ {"cadence"}) \cup {"auto"} \in CrewNote
  BY <1>2 DEF Note, CrewNote, CadenceNote
<1> QED
  BY <1>3, SettingAssumption DEF ChildNotes

\* Every step of a tick preserves the types.
LEMMA TickType ==
  ASSUME TypeOK, NEW i \in Worker, TickStep(i)
  PROVE  TypeOK'
<1> DEFINE p == job[i].p
           j == job[i]
<1> USE DEF WorkerSteps, TickSteps, ProjectState
<1>0. j \in Job /\ p \in Project /\ j.m \in MilestoneId /\ ms[p] \in Table
  BY DEF TypeOK, Job
<1>1. CASE CheckKill(i)
  BY <1>1, GotoType, ToMoveType DEF CheckKill, TypeOK
<1>2. CASE CheckPause(i)
  <2>1. HandlerOf(j.snap) \in WorkerSteps
    BY DEF HandlerOf
  <2>2. pc' \in [Worker -> WorkerSteps]
    BY <1>2, <2>1, GotoType DEF CheckPause
  <2>3. job' \in [Worker -> Job]
    BY <1>2, <1>0 DEF CheckPause, TypeOK, Job
  <2> QED
    BY <1>2, <2>2, <2>3 DEF CheckPause, TypeOK
<1>3. ASSUME NEW n \in 1 .. MaxPlan, NEW notes \in [0 .. n - 1 -> CrewNotes],
             StorePlan(i, n, notes) PROVE TypeOK'
  <2>n. n \in Nat /\ notes \in [0 .. n - 1 -> Note]
    BY SettingAssumption DEF Note
  <2>1. create_many(ms[p], FreshIds(ms[p], n), notes) \in Table
    BY <1>0, <1>3, <2>n, FreshIdsPlaced, CreateManyType DEF StorePlan
  <2>2. ms' \in [Project -> Table]
    BY <1>0, <1>3, <2>1, TableWriteType DEF StorePlan
  <2>3. pc' \in [Worker -> WorkerSteps] /\ job' \in [Worker -> Job]
    BY <1>3, ToMoveType DEF StorePlan
  <2>4. costly' \in [Project -> BOOLEAN]
    BY <1>0, <1>3, SpendsType DEF StorePlan
  <2> QED
    BY <1>3, <2>2, <2>3, <2>4 DEF StorePlan, TypeOK
<1>4. CASE PlanRefused(i)
  BY <1>0, <1>4, GotoType, SpendsType DEF PlanRefused, TypeOK
<1>5. CASE Reclaim(i)
  <2>1. ms' \in [Project -> Table]
    BY <1>0, <1>5, AllRowsUpdateType, TableWriteType DEF Reclaim
  <2>2. pc' \in [Worker -> WorkerSteps] /\ job' \in [Worker -> Job]
    BY <1>5, GotoType, ToMoveType DEF Reclaim, TypeOK
  <2> QED
    BY <1>5, <2>1, <2>2 DEF Reclaim, TypeOK
<1>6. CASE NothingToBuild(i)
  BY <1>6, ToMoveType DEF NothingToBuild, TypeOK
<1>7. ASSUME NEW m \in MilestoneId, PickMilestone(i, m) PROVE TypeOK'
  <2>1. ms[p][m].retry_count \in Nat
    BY <1>0, RowFacts DEF Row
  <2> DEFINE r == [j EXCEPT !.m = m, !.retry = ms[p][m].retry_count]
  <2>2. r \in Job
    BY <1>0, <2>1 DEF Job
  <2>3. job' = [job EXCEPT ![i] = r] \/ job' = job
    BY <1>7 DEF PickMilestone
  <2> HIDE DEF r
  <2>4. job' \in [Worker -> Job]
    BY <2>2, <2>3 DEF TypeOK
  <2>5. pc' \in [Worker -> WorkerSteps]
    BY <1>7, GotoType DEF PickMilestone
  <2> QED
    BY <1>7, <2>4, <2>5 DEF PickMilestone, TypeOK
<1>cap. CASE CheckCap(i)
  BY <1>cap, GotoType DEF CheckCap, TypeOK
<1>8. CASE RecordFailure(i)
  <2>1. ms' \in [Project -> Table]
    BY <1>0, <1>8, RecordAttemptType, TableWriteType DEF RecordFailure
  <2>2. pc' \in [Worker -> WorkerSteps] /\ job' \in [Worker -> Job]
    BY <1>8, ToMoveType DEF RecordFailure, AfterFailure
  <2> QED
    BY <1>8, <2>1, <2>2 DEF RecordFailure, TypeOK
<1>9. CASE StartBuild(i)
  <2>1. ms' \in [Project -> Table]
    BY <1>0, <1>9, UpdateStateType, TableWriteType DEF StartBuild, MilestoneState
  <2> QED
    BY <1>9, <2>1, GotoType DEF StartBuild, TypeOK
<1>10. ASSUME NEW hot \in BOOLEAN, NEW over \in BOOLEAN, CrewSpends(i, hot, over),
              pc' \in [Worker -> WorkerSteps]
       PROVE  TypeOK'
  <2>4. ms' \in [Project -> Table]
    BY <1>0, <1>10, ChargeType, TableWriteType DEF CrewSpends
  <2>5. costly' \in [Project -> BOOLEAN]
    BY <1>10, <1>0, SpendsType DEF CrewSpends
  <2> QED
    BY <1>10, <2>4, <2>5 DEF CrewSpends, TypeOK
<1>11. ASSUME NEW hot \in BOOLEAN, NEW over \in BOOLEAN,
              \/ CrewSucceeds(i, hot, over) \/ CrewFails(i, hot, over)
              \/ CrewBudgetExceeded(i, hot, over) \/ CrewRaises(i, hot, over)
       PROVE  TypeOK'
  BY <1>10, <1>11, GotoType
     DEF CrewSucceeds, CrewFails, CrewBudgetExceeded, CrewRaises
<1>12. CASE Unbuild(i)
  <2>1. ms' \in [Project -> Table]
    BY <1>0, <1>12, UpdateStateType, TableWriteType DEF Unbuild, MilestoneState
  <2> QED
    BY <1>12, <2>1, GotoType DEF Unbuild, TypeOK
<1>13. CASE RecordSuccess(i)
  <2>1. ms' \in [Project -> Table]
    BY <1>0, <1>13, RecordAttemptType, TableWriteType DEF RecordSuccess
  <2>2. pc' \in [Worker -> WorkerSteps] /\ job' \in [Worker -> Job]
    BY <1>13, ToMoveType DEF RecordSuccess
  <2> QED
    BY <1>13, <2>1, <2>2 DEF RecordSuccess, TypeOK
<1>14. CASE Consolidate(i)
  <2>1. ms' \in [Project -> Table]
    BY <1>0, <1>14, FreshIdsPlaced, InsertAfterType, TableWriteType DEF Consolidate, TypeOK
  <2> QED
    BY <1>14, <2>1, GotoType DEF Consolidate, TypeOK
<1>15. CASE NothingToReplan(i)
  BY <1>15, ToMoveType DEF NothingToReplan, TypeOK
<1>16. ASSUME NEW m \in MilestoneId, NEW n \in Nat, NEW auto \in BOOLEAN,
              ToSplit(i, m, n, auto)
       PROVE  pc' \in [Worker -> WorkerSteps] /\ job' \in [Worker -> Job]
  BY <1>0, <1>16, GotoType DEF ToSplit, TypeOK, Job
<1>17. ASSUME NEW m \in MilestoneId, ReplanWithoutCrew(i, m) PROVE TypeOK'
  <2>1. pc' \in [Worker -> WorkerSteps] /\ job' \in [Worker -> Job]
    BY <1>16, <1>17, ToMoveType DEF ReplanWithoutCrew
  <2> QED
    BY <1>17, <2>1 DEF ReplanWithoutCrew, TypeOK
<1>18. ASSUME NEW m \in MilestoneId, NEW reply \in ReplyActions,
              NEW n \in 2 .. MaxChildren, NEW over \in BOOLEAN,
              CrewReplies(i, m, reply, n, over)
       PROVE  TypeOK'
  <2> DEFINE row == [ms[p][m] EXCEPT !.over = over]
  <2>1. row \in Row
    BY <1>0, RowFacts DEF Row
  <2>2. ms' = [ms EXCEPT ![p] = [ms[p] EXCEPT ![m] = row]]
    BY <1>18, <1>0 DEF CrewReplies, TypeOK, Table
  <2> HIDE DEF row
  <2>3. ms' \in [Project -> Table] /\ costly' \in [Project -> BOOLEAN]
    BY <1>0, <1>18, <2>1, <2>2, RowUpdateType, TableWriteType, SpendsType DEF CrewReplies
  <2>4. CASE Goto(i, "amend") /\ job' = [job EXCEPT ![i].m = m]
    <3>1. [j EXCEPT !.m = m] \in Job
      BY <1>0 DEF Job
    <3>2. job' \in [Worker -> Job]
      BY <2>4, <3>1 DEF TypeOK
    <3>3. pc' \in [Worker -> WorkerSteps]
      BY <2>4, GotoType
    <3> QED
      BY <1>18, <2>3, <3>2, <3>3 DEF CrewReplies, TypeOK
  <2>5. CASE ToSplit(i, m, n, FALSE)
    <3>1. n \in Nat /\ FALSE \in BOOLEAN
      OBVIOUS
    <3>2. pc' \in [Worker -> WorkerSteps] /\ job' \in [Worker -> Job]
      BY <1>16, <2>5, <3>1
    <3> QED
      BY <1>18, <2>3, <3>2 DEF CrewReplies, TypeOK
  <2>6. CASE ToMove(i, "building") \/ ToMove(i, "blocked")
    BY <1>18, <2>3, <2>6, ToMoveType DEF CrewReplies, TypeOK
  <2>7. CASE Goto(i, "crashed") /\ UNCHANGED job
    BY <1>18, <2>3, <2>7, GotoType DEF CrewReplies, TypeOK
  <2> QED
    BY <1>18, <2>4, <2>5, <2>6, <2>7 DEF CrewReplies
<1>19. ASSUME NEW note \in AmendNotes(i), NEW hot \in BOOLEAN,
              AmendMilestone(i, note, hot) PROVE TypeOK'
  <2>1. ms' \in [Project -> Table]
    BY <1>0, <1>19, AmendNotesType, UpdateSpecType, TableWriteType DEF AmendMilestone
  <2>2. pc' \in [Worker -> WorkerSteps] /\ job' \in [Worker -> Job]
    BY <1>19, ToMoveType DEF AmendMilestone
  <2> QED
    BY <1>19, <2>1, <2>2 DEF AmendMilestone, TypeOK
<1>20. ASSUME NEW notes \in ChildNotes(i), SplitMilestone(i, notes) PROVE TypeOK'
  <2>1. j.kids \in Nat /\ notes \in [0 .. j.kids - 1 -> Note]
    BY <1>0, ChildNotesType DEF Job, Note
  <2>2. ms' = [ms EXCEPT ![p] =
                 replace_with(ms[p], j.m, FreshIds(ms[p], j.kids), notes)]
    BY <1>20 DEF SplitMilestone
  <2>3. FreshIds(ms[p], j.kids) \in Placements(ms[p], j.kids)
    BY <1>20, FreshIdsPlaced DEF SplitMilestone
  <2>4. ms' \in [Project -> Table]
    BY <1>0, <2>1, <2>2, <2>3, ReplaceWithType, TableWriteType
  <2>5. pc' \in [Worker -> WorkerSteps] /\ job' \in [Worker -> Job]
    BY <1>20, ToMoveType DEF SplitMilestone
  <2> QED
    BY <1>20, <2>4, <2>5 DEF SplitMilestone, TypeOK
<1>21. ASSUME NEW passed \in BOOLEAN, Integrate(i, passed) PROVE TypeOK'
  BY <1>21, ToMoveType DEF Integrate, TypeOK
<1>22. CASE Move(i)
  <2>1. state' \in [Project -> ProjectState]
    BY <1>0, <1>22 DEF Move, TypeOK, Job
  <2> QED
    BY <1>22, <2>1, GotoType DEF Move, TypeOK
<1>23. CASE ServiceRaises(i)
  BY <1>0, <1>23, GotoType, SpendsType DEF ServiceRaises, TypeOK
<1> QED
  BY <1>1, <1>2, <1>3, <1>4, <1>5, <1>6, <1>7, <1>8, <1>9, <1>11, <1>12, <1>13, <1>14,
     <1>15, <1>17, <1>18, <1>19, <1>20, <1>21, <1>22, <1>23, <1>cap
     DEF TickStep

\* Letting go of a claim keeps the pool's memory well typed.
LEMMA ReleaseType ==
  ASSUME TypeOK, NEW i \in Worker, Release(i)
  PROVE  /\ pc' \in [Worker -> WorkerSteps] /\ job' \in [Worker -> Job]
         /\ claimed' \subseteq Project
BY NoJobType DEF TypeOK, Release, WorkerSteps

\* Forgetting a crash streak keeps the pool's memory well typed.
LEMMA ClearTransientType ==
  ASSUME TypeOK, NEW p \in Project, ClearTransient(p)
  PROVE  fails' \in [Project -> Nat] /\ cooldown' \in [Project -> BOOLEAN]
BY DEF TypeOK, ClearTransient

\* Every step of the pool preserves the types.
LEMMA PoolType ==
  ASSUME TypeOK, NEW i \in Worker, PoolStep(i) \/ BlockLost(i)
  PROVE  TypeOK'
<1>0. job[i] \in Job /\ job[i].p \in Project
  BY DEF TypeOK, Job
<1>1. ASSUME NEW p \in Project, ClaimNext(i, p) PROVE TypeOK'
  <2> DEFINE r == [NoJob EXCEPT !.p = p, !.snap = state[p]]
  <2>1. r \in Job
    BY NoJobType DEF TypeOK, Job
  <2>2. job' = [job EXCEPT ![i] = r] /\ pc' = [pc EXCEPT ![i] = "entry"]
        /\ claimed' = claimed \cup {p}
    BY <1>1 DEF ClaimNext
  <2> HIDE DEF r
  <2>3. /\ job' \in [Worker -> Job] /\ pc' \in [Worker -> WorkerSteps]
        /\ claimed' \subseteq Project
    BY <2>1, <2>2 DEF TypeOK, WorkerSteps, TickSteps
  <2> QED
    BY <1>1, <2>3 DEF ClaimNext, TypeOK
<1>2. CASE CleanTick(i)
  <2>1. /\ pc' \in [Worker -> WorkerSteps] /\ job' \in [Worker -> Job]
        /\ claimed' \subseteq Project
    BY <1>2, ReleaseType DEF CleanTick
  <2>2. fails' \in [Project -> Nat] /\ cooldown' \in [Project -> BOOLEAN]
    BY <1>0, <1>2, ClearTransientType DEF CleanTick
  <2> QED
    BY <1>2, <2>1, <2>2 DEF CleanTick, TypeOK
<1>3. CASE BackOff(i)
  <2>1. /\ pc' \in [Worker -> WorkerSteps] /\ job' \in [Worker -> Job]
        /\ claimed' \subseteq Project
    BY <1>3, ReleaseType DEF BackOff
  <2> DEFINE n == fails[job[i].p] + 1
  <2>2. n \in Nat
    <3>1. fails \in [Project -> Nat]
      BY DEF TypeOK
    <3>2. fails[job[i].p] \in Nat
      BY <1>0, <3>1
    <3> QED
      BY <3>2
  <2>3. /\ fails' = [fails EXCEPT ![job[i].p] = n]
        /\ cooldown' = [cooldown EXCEPT ![job[i].p] = TRUE]
    BY <1>3 DEF BackOff
  <2> HIDE DEF n
  <2>4. fails' \in [Project -> Nat] /\ cooldown' \in [Project -> BOOLEAN]
    BY <1>0, <2>2, <2>3 DEF TypeOK
  <2> QED
    BY <1>3, <2>1, <2>4 DEF BackOff, TypeOK
<1>4. CASE BlockCrashed(i)
  <2>1. /\ pc' \in [Worker -> WorkerSteps] /\ job' \in [Worker -> Job]
        /\ claimed' \subseteq Project
    BY <1>4, ReleaseType DEF BlockCrashed
  <2>2. fails' \in [Project -> Nat] /\ cooldown' \in [Project -> BOOLEAN]
    BY <1>0, <1>4, ClearTransientType DEF BlockCrashed
  <2>3. state' \in [Project -> ProjectState]
    BY <1>0, <1>4 DEF BlockCrashed, TypeOK, ProjectState
  <2> QED
    BY <1>4, <2>1, <2>2, <2>3 DEF BlockCrashed, TypeOK
<1>5. CASE BlockLost(i)
  <2>1. /\ pc' \in [Worker -> WorkerSteps] /\ job' \in [Worker -> Job]
        /\ claimed' \subseteq Project
    BY <1>5, ReleaseType DEF BlockLost
  <2>2. fails' \in [Project -> Nat] /\ cooldown' \in [Project -> BOOLEAN]
    BY <1>0, <1>5, ClearTransientType DEF BlockLost
  <2> QED
    BY <1>5, <2>1, <2>2 DEF BlockLost, TypeOK
<1> QED
  BY <1>1, <1>2, <1>3, <1>4, <1>5 DEF PoolStep

\* A handler going on, or done, keeps the handlers' places well typed.
LEMMA OpType ==
  ASSUME TypeOK, NEW o \in Operator, NEW p \in Project, NEW step \in OperatorSteps,
         OpGoto(o, step, p) \/ OpDone(o)
  PROVE  op' \in [Operator -> [step: OperatorSteps, p: Project]]
BY NoOpType DEF TypeOK, OpGoto, OpDone

\* Every later step of a handler preserves the types.
LEMMA HandlerType ==
  ASSUME TypeOK, NEW o \in Operator, HandlerStep(o)
  PROVE  TypeOK'
<1> USE DEF OperatorSteps, ProjectState
<1> PICK p \in Project :
       ApproveWrite(o, p) \/ ResumeRead(o, p) \/ ResumeReset(o, p) \/ ResumeWrite(o, p)
  BY DEF HandlerStep
<1>1. CASE ApproveWrite(o, p)
  BY <1>1, OpType DEF ApproveWrite, TypeOK
<1>2. CASE ResumeRead(o, p)
  <2>1. AfterResumeRead(p) \in OperatorSteps
    BY DEF AfterResumeRead
  <2> QED
    BY <1>2, <2>1, OpType DEF ResumeRead, TypeOK
<1>3. CASE ResumeReset(o, p)
  <2>1. ms[p] \in Table
    BY DEF TypeOK
  <2>2. ms' \in [Project -> Table]
    BY <1>3, <2>1, AllRowsUpdateType, TableWriteType DEF ResumeReset
  <2> QED
    BY <1>3, <2>2, OpType DEF ResumeReset, TypeOK
<1>4. CASE ResumeWrite(o, p)
  BY <1>4, OpType DEF ResumeWrite, TypeOK
<1> QED
  BY <1>1, <1>2, <1>3, <1>4

\* Every operator command preserves the types.
LEMMA CommandType ==
  ASSUME TypeOK, NEW o \in Operator, Command(o)
  PROVE  TypeOK'
<1> USE DEF OperatorSteps
<1>1. ASSUME NEW p \in Project, ApproveRead(o, p) PROVE TypeOK'
  BY <1>1, OpType DEF ApproveRead, TypeOK
<1>2. ASSUME NEW p \in Project, Pause(o, p) PROVE TypeOK'
  BY <1>2 DEF Pause, TypeOK
<1>3. ASSUME NEW p \in Project, ResumeSignals(o, p) PROVE TypeOK'
  BY <1>3, OpType DEF ResumeSignals, TypeOK
<1>4. ASSUME NEW p \in Project, Abort(o, p) PROVE TypeOK'
  BY <1>4 DEF Abort, TypeOK
<1>5. CASE KillSwitch(o)
  BY <1>5 DEF KillSwitch, TypeOK
<1> QED
  BY <1>1, <1>2, <1>3, <1>4, <1>5 DEF Command

\* Restarts, lost data, failed calls and the clock preserve the types.
LEMMA EnvironmentType ==
  ASSUME TypeOK,
         \/ \E p \in Project : CooldownElapses(p)
         \/ Restart \/ RedisLost \/ DaySpent \/ DayRolls
         \/ \E i \in Worker : CallRaises(i)
  PROVE  TypeOK'
<1>1. ASSUME NEW p \in Project, CooldownElapses(p) PROVE TypeOK'
  BY <1>1 DEF CooldownElapses, TypeOK
<1>2. CASE Restart
  <2>1. ms' \in [Project -> Table]
    BY <1>2, AllRowsUpdateType DEF Restart, TypeOK
  <2>2. /\ job' \in [Worker -> Job] /\ pc' \in [Worker -> WorkerSteps]
        /\ op' \in [Operator -> [step: OperatorSteps, p: Project]]
    BY <1>2, NoJobType, NoOpType DEF Restart, WorkerSteps
  <2>3. /\ claimed' \subseteq Project /\ fails' \in [Project -> Nat]
        /\ cooldown' \in [Project -> BOOLEAN] /\ faults' \in 0 .. MaxFaults
    BY <1>2 DEF Restart, TypeOK
  <2>4. UNCHANGED <<state, paused, approved, costly, killed, halted, dayOver>>
    BY <1>2 DEF Restart
  <2> QED
    BY <2>1, <2>2, <2>3, <2>4 DEF TypeOK
<1>3. CASE RedisLost
  <2>1. killed' \in [Project -> BOOLEAN] /\ halted' \in BOOLEAN
    BY <1>3 DEF RedisLost
  <2>3. faults' \in 0 .. MaxFaults
    <3>1. faults \in Nat
      BY DEF TypeOK
    <3> QED
      BY <1>3, <3>1 DEF RedisLost
  <2>2. UNCHANGED <<projectVars, ms, costly, dayOver, poolVars, workerVars, op>>
    BY <1>3 DEF RedisLost
  <2> QED
    BY <2>1, <2>2, <2>3 DEF TypeOK
<1>4. CASE DaySpent
  BY <1>4 DEF DaySpent, TypeOK
<1>5. CASE DayRolls
  BY <1>5 DEF DayRolls, TypeOK
<1>6. ASSUME NEW i \in Worker, CallRaises(i) PROVE TypeOK'
  BY <1>6, GotoType DEF CallRaises, TypeOK, WorkerSteps
<1> QED
  BY <1>1, <1>2, <1>3, <1>4, <1>5, <1>6

\* Every step preserves the types.
LEMMA NextType == TypeOK /\ [Next]_vars => TypeOK'
<1> SUFFICES ASSUME TypeOK, [Next]_vars PROVE TypeOK'
  OBVIOUS
<1>1. CASE Next
  BY <1>1, TickType, PoolType, HandlerType, CommandType, EnvironmentType
     DEF Next, WorkerStep
<1>2. CASE UNCHANGED vars
  BY <1>2 DEF vars, TypeOK
<1> QED
  BY <1>1, <1>2

(***************************************************************************)
(* Every variable keeps its type, whatever workers, operators, crashes and *)
(* crews do: in particular no split or insertion drives an ordinal below   *)
(* zero.                                                                   *)
(***************************************************************************)
THEOREM TypeCorrect == Safety => []TypeOK
BY InitType, NextType, PTL DEF Safety

-----------------------------------------------------------------------------
(* What a step of one worker leaves alone *)

Others(i) == Worker \ {i}

(***************************************************************************)
(* A tick's step, whether it succeeds or raises, moves its own worker on   *)
(* inside the same claim and touches no other worker's place, no handler   *)
(* and no other project's milestones.                                      *)
(***************************************************************************)
TickFrame(i) ==
  /\ pc[i] # "idle" /\ pc'[i] # "idle"
  /\ job'[i].p = job[i].p /\ job'[i].snap = job[i].snap
  /\ \A k \in Others(i) : pc'[k] = pc[k] /\ job'[k] = job[k]
  /\ \A q \in Project : q # job[i].p => ms'[q] = ms[q]
  /\ claimed' = claimed /\ op' = op

\* Going on to another step touches only the worker's own place.
LEMMA GotoFrame ==
  ASSUME TypeOK, NEW i \in Worker, NEW label, label # "idle",
         Goto(i, label) /\ UNCHANGED job
  PROVE  /\ pc'[i] = label
         /\ job'[i].p = job[i].p /\ job'[i].snap = job[i].snap
         /\ \A k \in Others(i) : pc'[k] = pc[k] /\ job'[k] = job[k]
BY DEF TypeOK, Goto, Others

\* Deciding on a state touches only the worker's own place and job.
LEMMA ToMoveFrame ==
  ASSUME TypeOK, NEW i \in Worker, NEW s, ToMove(i, s)
  PROVE  /\ pc'[i] = "move"
         /\ job'[i].goal = s
         /\ job'[i].p = job[i].p /\ job'[i].snap = job[i].snap
         /\ \A k \in Others(i) : pc'[k] = pc[k] /\ job'[k] = job[k]
<1>1. job[i] \in Job
  BY DEF TypeOK
<1> QED
  BY <1>1 DEF TypeOK, ToMove, Others, Job

\* Deciding on a split touches only the worker's own place and job.
LEMMA ToSplitFrame ==
  ASSUME TypeOK, NEW i \in Worker, NEW m, NEW n, NEW auto, ToSplit(i, m, n, auto)
  PROVE  /\ pc'[i] = "split"
         /\ job'[i].p = job[i].p /\ job'[i].snap = job[i].snap
         /\ \A k \in Others(i) : pc'[k] = pc[k] /\ job'[k] = job[k]
<1>1. job[i] \in Job
  BY DEF TypeOK
<1> QED
  BY <1>1 DEF TypeOK, ToSplit, Goto, Others, Job

\* Writing one project's milestones leaves the others' alone.
LEMMA TableFrame ==
  ASSUME TypeOK, NEW p, NEW t, ms' = [ms EXCEPT ![p] = t] \/ UNCHANGED ms
  PROVE  \A q \in Project : q # p => ms'[q] = ms[q]
BY DEF TypeOK

\* Every step of a tick stays within its frame.
LEMMA TickFramed ==
  ASSUME TypeOK, NEW i \in Worker, TickStep(i) \/ CallRaises(i)
  PROVE  TickFrame(i)
<1>1. CASE CheckKill(i)
  BY <1>1, GotoFrame, ToMoveFrame DEF CheckKill, TickFrame
<1>2. CASE CheckPause(i)
  <2>1. CASE paused[job[i].p]
    BY <1>2, <2>1, GotoFrame DEF CheckPause, TickFrame
  <2>2. CASE ~paused[job[i].p]
    <3>1. HandlerOf(job[i].snap) # "idle"
      BY DEF HandlerOf
    <3>2. job[i] \in Job
      BY DEF TypeOK
    <3> QED
      BY <1>2, <2>2, <3>1, <3>2 DEF CheckPause, TickFrame, Goto, TypeOK, Job, Others
  <2> QED
    BY <2>1, <2>2
<1>3. ASSUME NEW n \in 1 .. MaxPlan, NEW notes \in [0 .. n - 1 -> CrewNotes],
             StorePlan(i, n, notes) PROVE TickFrame(i)
  BY <1>3, ToMoveFrame, TableFrame DEF StorePlan, TickFrame
<1>4. CASE PlanRefused(i)
  BY <1>4, GotoFrame DEF PlanRefused, TickFrame
<1>5. CASE Reclaim(i)
  BY <1>5, GotoFrame, ToMoveFrame, TableFrame DEF Reclaim, TickFrame
<1>6. CASE NothingToBuild(i)
  BY <1>6, ToMoveFrame DEF NothingToBuild, TickFrame
<1>7. ASSUME NEW m \in MilestoneId, PickMilestone(i, m) PROVE TickFrame(i)
  <2>1. CASE dayOver
    BY <1>7, <2>1, GotoFrame DEF PickMilestone, TickFrame
  <2>2. CASE ~dayOver
    <3>1. job[i] \in Job
      BY DEF TypeOK
    <3> QED
      BY <1>7, <2>2, <3>1 DEF PickMilestone, TickFrame, Goto, TypeOK, Job, Others
  <2> QED
    BY <2>1, <2>2
<1>cap. CASE CheckCap(i)
  BY <1>cap, GotoFrame DEF CheckCap, TickFrame
<1>8. CASE RecordFailure(i)
  BY <1>8, ToMoveFrame, TableFrame DEF RecordFailure, TickFrame
<1>9. CASE StartBuild(i)
  BY <1>9, GotoFrame, TableFrame DEF StartBuild, TickFrame
<1>10. ASSUME NEW hot \in BOOLEAN, NEW over \in BOOLEAN,
              \/ CrewSucceeds(i, hot, over) \/ CrewFails(i, hot, over)
              \/ CrewBudgetExceeded(i, hot, over) \/ CrewRaises(i, hot, over)
       PROVE  TickFrame(i)
  <2>1. CrewSpends(i, hot, over) /\ pc[i] # "idle"
    BY <1>10 DEF CrewSucceeds, CrewFails, CrewBudgetExceeded, CrewRaises
  <2>2. /\ UNCHANGED <<job, claimed, op>>
        /\ \A q \in Project : q # job[i].p => ms'[q] = ms[q]
    BY <2>1, TableFrame DEF CrewSpends
  <2>3. \/ Goto(i, "success") \/ Goto(i, "failure") \/ Goto(i, "unbuild")
        \/ Goto(i, "crashed")
    BY <1>10 DEF CrewSucceeds, CrewFails, CrewBudgetExceeded, CrewRaises
  <2> QED
    BY <2>1, <2>2, <2>3, GotoFrame DEF TickFrame
<1>11. CASE Unbuild(i)
  BY <1>11, GotoFrame, TableFrame DEF Unbuild, TickFrame
<1>12. CASE RecordSuccess(i)
  <2>1. pc[i] # "idle" /\ ToMove(i, "replanning")
    BY <1>12 DEF RecordSuccess
  <2> QED
    BY <1>12, <2>1, ToMoveFrame, TableFrame DEF RecordSuccess, TickFrame
<1>13. CASE Consolidate(i)
  <2>1. Goto(i, "replan") /\ UNCHANGED <<projectVars, job>>
    BY <1>13 DEF Consolidate
  <2>2. \A q \in Project \ {job[i].p} : ms'[q] = ms[q]
    BY <1>13, TableFrame DEF Consolidate
  <2> QED
    BY <1>13, <2>1, <2>2, GotoFrame DEF Consolidate, TickFrame
<1>14. CASE NothingToReplan(i)
  BY <1>14, ToMoveFrame DEF NothingToReplan, TickFrame
<1>15. ASSUME NEW m \in MilestoneId, ReplanWithoutCrew(i, m) PROVE TickFrame(i)
  BY <1>15, ToMoveFrame, ToSplitFrame DEF ReplanWithoutCrew, TickFrame
<1>16. ASSUME NEW m \in MilestoneId, NEW reply \in ReplyActions,
              NEW n \in 2 .. MaxChildren, NEW over \in BOOLEAN,
              CrewReplies(i, m, reply, n, over)
       PROVE  TickFrame(i)
  <2>1. \A q \in Project : q # job[i].p => ms'[q] = ms[q]
    BY <1>16 DEF CrewReplies, TypeOK
  <2>2. /\ pc[i] = "replan" /\ claimed' = claimed /\ op' = op
    BY <1>16 DEF CrewReplies
  <2>3. CASE Goto(i, "amend") /\ job' = [job EXCEPT ![i].m = m]
    <3>1. job[i] \in Job
      BY DEF TypeOK
    <3> QED
      BY <2>1, <2>2, <2>3, <3>1 DEF TickFrame, Goto, TypeOK, Job, Others
  <2>4. CASE ToSplit(i, m, n, FALSE)
    BY <2>1, <2>2, <2>4, ToSplitFrame DEF TickFrame
  <2>5. CASE ToMove(i, "building") \/ ToMove(i, "blocked")
    BY <2>1, <2>2, <2>5, ToMoveFrame DEF TickFrame
  <2>6. CASE Goto(i, "crashed") /\ UNCHANGED job
    BY <2>1, <2>2, <2>6, GotoFrame DEF TickFrame
  <2> QED
    BY <1>16, <2>3, <2>4, <2>5, <2>6 DEF CrewReplies
<1>17. ASSUME NEW note \in AmendNotes(i), NEW hot \in BOOLEAN,
              AmendMilestone(i, note, hot) PROVE TickFrame(i)
  BY <1>17, ToMoveFrame, TableFrame DEF AmendMilestone, TickFrame
<1>18. ASSUME NEW notes \in ChildNotes(i), SplitMilestone(i, notes) PROVE TickFrame(i)
  BY <1>18, ToMoveFrame, TableFrame DEF SplitMilestone, TickFrame
<1>19. ASSUME NEW passed \in BOOLEAN, Integrate(i, passed) PROVE TickFrame(i)
  BY <1>19, ToMoveFrame DEF Integrate, TickFrame
<1>20. CASE Move(i)
  BY <1>20, GotoFrame DEF Move, TickFrame
<1>21. CASE ServiceRaises(i)
  BY <1>21, GotoFrame DEF ServiceRaises, TickFrame
<1>22. CASE CallRaises(i)
  BY <1>22, GotoFrame DEF CallRaises, TickFrame, TickSteps
<1> QED
  BY <1>1, <1>2, <1>3, <1>4, <1>5, <1>6, <1>7, <1>8, <1>9, <1>10, <1>11, <1>12, <1>13,
     <1>14, <1>15, <1>16, <1>17, <1>18, <1>19, <1>20, <1>21, <1>22, <1>cap
     DEF TickStep

-----------------------------------------------------------------------------
(* Claims *)

\* What a worker that lets go of its project leaves alone.
LEMMA ReleaseFrame ==
  ASSUME TypeOK, NEW i \in Worker, Release(i)
  PROVE  /\ pc'[i] = "idle"
         /\ claimed' = claimed \ {job[i].p}
         /\ \A k \in Others(i) : pc'[k] = pc[k] /\ job'[k] = job[k]
BY DEF TypeOK, Release, Others

\* What claiming a project changes, and what it leaves alone.
LEMMA ClaimFrame ==
  ASSUME TypeOK, NEW i \in Worker, NEW p \in Project, ClaimNext(i, p)
  PROVE  /\ pc[i] = "idle" /\ pc'[i] = "entry"
         /\ job'[i].p = p /\ job'[i].snap = state[p]
         /\ state[p] \in ADVANCEABLE_STATES /\ p \notin claimed
         /\ claimed' = claimed \cup {p}
         /\ \A k \in Others(i) : pc'[k] = pc[k] /\ job'[k] = job[k]
BY NoJobType DEF TypeOK, ClaimNext, Claimable, Others, Job

\* The steps of Next, sorted by what they do to the workers.
LEMMA StepKinds ==
  ASSUME TypeOK, [Next]_vars
  PROVE  \/ \E i \in Worker : TickStep(i) \/ CallRaises(i)
         \/ \E i \in Worker, p \in Project : ClaimNext(i, p)
         \/ \E i \in Worker : /\ CleanTick(i) \/ BackOff(i) \/ BlockCrashed(i) \/ BlockLost(i)
                             /\ Release(i) /\ pc[i] \in {"return", "crashed"}
         \/ Restart
         \/ UNCHANGED <<pc, job, claimed>>
<1>1. CASE UNCHANGED vars
  BY <1>1 DEF vars
<1>2. ASSUME NEW i \in Worker, WorkerStep(i) \/ CallRaises(i) \/ BlockLost(i)
      PROVE  \/ TickStep(i) \/ CallRaises(i)
             \/ \E p \in Project : ClaimNext(i, p)
             \/ /\ CleanTick(i) \/ BackOff(i) \/ BlockCrashed(i) \/ BlockLost(i)
                /\ Release(i) /\ pc[i] \in {"return", "crashed"}
  BY <1>2 DEF WorkerStep, PoolStep, CleanTick, BackOff, BlockCrashed, BlockLost
<1>3. ASSUME NEW o \in Operator, Command(o) \/ HandlerStep(o)
      PROVE  UNCHANGED <<pc, job, claimed>>
  BY <1>3 DEF Command, HandlerStep, ApproveRead, Pause, ResumeSignals, Abort, KillSwitch,
              ApproveWrite, ResumeRead, ResumeReset, ResumeWrite
<1>4. ASSUME \/ \E p \in Project : CooldownElapses(p)
             \/ RedisLost \/ DaySpent \/ DayRolls
      PROVE  UNCHANGED <<pc, job, claimed>>
  BY <1>4 DEF CooldownElapses, RedisLost, DaySpent, DayRolls
<1> QED
  BY <1>1, <1>2, <1>3, <1>4 DEF Next

\* Every step keeps the claims exclusive.
LEMMA ClaimsStep == TypeOK /\ ClaimsExclusive /\ [Next]_vars => ClaimsExclusive'
<1> SUFFICES ASSUME TypeOK, ClaimsExclusive, [Next]_vars
             PROVE  ClaimsExclusive'
  OBVIOUS
<1> USE DEF ClaimsExclusive, Busy
<1>1. ASSUME NEW i \in Worker, TickStep(i) \/ CallRaises(i)
      PROVE  ClaimsExclusive'
  <2>1. TickFrame(i)
    BY <1>1, TickFramed
  <2>2. \A k \in Worker : (pc'[k] # "idle" <=> pc[k] # "idle") /\ job'[k].p = job[k].p
    BY <2>1 DEF TickFrame, Others
  <2> QED
    BY <2>1, <2>2 DEF TickFrame
<1>2. ASSUME NEW i \in Worker, NEW p \in Project, ClaimNext(i, p)
      PROVE  ClaimsExclusive'
  <2>1. /\ pc[i] = "idle" /\ pc'[i] # "idle" /\ job'[i].p = p
        /\ p \notin claimed /\ claimed' = claimed \cup {p}
        /\ \A k \in Worker : k # i => pc'[k] = pc[k] /\ job'[k] = job[k]
    BY <1>2, ClaimFrame DEF Others
  <2>2. \A k \in Worker : pc[k] # "idle" => job[k].p # p
    BY <2>1
  <2> QED
    BY <2>1, <2>2
<1>3. ASSUME NEW i \in Worker, Release(i), pc[i] \in {"return", "crashed"}
      PROVE  ClaimsExclusive'
  <2>1. /\ pc'[i] = "idle" /\ claimed' = claimed \ {job[i].p}
        /\ \A k \in Worker : k # i => pc'[k] = pc[k] /\ job'[k] = job[k]
    BY <1>3, ReleaseFrame DEF Others
  <2>2. \A k \in Worker : k # i /\ pc[k] # "idle" => job[k].p # job[i].p
    BY <1>3
  <2> QED
    BY <1>3, <2>1, <2>2
<1>4. CASE Restart
  BY <1>4 DEF Restart
<1>5. CASE UNCHANGED <<pc, job, claimed>>
  BY <1>5
<1> QED
  BY <1>1, <1>2, <1>3, <1>4, <1>5, StepKinds

(***************************************************************************)
(* No two workers are ever inside one project, and _claimed is exactly the *)
(* set of projects some worker is inside.                                  *)
(***************************************************************************)
THEOREM ClaimsCorrect == Safety => []ClaimsExclusive
<1>1. Init => ClaimsExclusive
  BY DEF Init, ClaimsExclusive, Busy
<1> QED
  BY <1>1, TypeCorrect, ClaimsStep, PTL DEF Safety

-----------------------------------------------------------------------------
(* Writes: what a worker's place says about its copy of the project's row  *)
(* and about the milestone it has picked                                   *)

BuildSteps == {"reclaim", "pick", "cap", "trip", "start", "crew", "success", "failure", "unbuild"}

ReplanSteps == {"consolidate", "replan", "split", "amend"}

\* The handler a tick is in is the one of the state it was handed, and what
\* it has decided to move to is a legal successor of that state.
JobFits(i) ==
  /\ Busy(i) => job[i].snap \in ADVANCEABLE_STATES
  /\ pc[i] = "plan" => job[i].snap = "planning"
  /\ pc[i] \in BuildSteps => job[i].snap = "building"
  /\ pc[i] \in ReplanSteps => job[i].snap = "replanning"
  /\ pc[i] = "integrate" => job[i].snap = "integration"
  /\ pc[i] = "move" => LegalProject(job[i].snap, job[i].goal)

\* A milestone picked is still waiting when its attempt is recorded as begun
\* or tripped or when it is split, and one being built is still in building
\* when its attempt ends.
RowFits(i) ==
  LET s == ms[job[i].p][job[i].m].state IN
  /\ pc[i] \in {"cap", "trip", "start", "split", "amend"} => s \in {"pending", "failed"}
  /\ pc[i] \in {"crew", "success", "failure", "unbuild"} => s = "building"

Fits == \A i \in Worker : JobFits(i) /\ RowFits(i)

\* A step of a tick keeps its own place and job in accord.
LEMMA TickJobFits ==
  ASSUME TypeOK, NEW i \in Worker, TickStep(i) \/ CallRaises(i), JobFits(i)
  PROVE  JobFits(i)'
<1> USE DEF JobFits, Busy, BuildSteps, ReplanSteps
<1> DEFINE j == job[i]
<1>0. TickFrame(i) /\ j \in Job /\ j.snap \in ProjectState
  BY TickFramed DEF TypeOK, Job
<1>a. ASSUME NEW s, ToMove(i, s), LegalProject(j.snap, s) PROVE JobFits(i)'
  BY <1>0, <1>a, ToMoveFrame DEF TickFrame
<1>b. ASSUME NEW label, pc'[i] = label,
             \/ label \in {"return", "crashed", "pause_check"}
             \/ label \in BuildSteps /\ j.snap = "building"
             \/ label \in ReplanSteps /\ j.snap = "replanning"
      PROVE  JobFits(i)'
  BY <1>0, <1>b DEF TickFrame
<1> USE DEF LegalProject, PROJECT_TRANSITIONS, ProjectState, ADVANCEABLE_STATES
<1>1. CASE CheckKill(i)
  BY <1>0, <1>1, <1>a, <1>b, GotoFrame DEF CheckKill
<1>2. CASE CheckPause(i)
  <2>1. CASE paused[job[i].p]
    BY <1>0, <1>2, <2>1, <1>b, GotoFrame DEF CheckPause
  <2>2. CASE ~paused[job[i].p]
    <3>1. /\ pc'[i] = HandlerOf(j.snap) /\ job'[i].snap = j.snap
          /\ j.snap = "queued" => job'[i].goal = "planning"
          /\ j.snap \in ADVANCEABLE_STATES
      BY <1>0, <1>2, <2>2 DEF CheckPause, Goto, TypeOK, Job
    <3> QED
      BY <3>1 DEF HandlerOf
  <2> QED
    BY <2>1, <2>2
<1>3. ASSUME NEW n \in 1 .. MaxPlan, NEW notes \in [0 .. n - 1 -> CrewNotes],
             StorePlan(i, n, notes) PROVE JobFits(i)'
  BY <1>0, <1>3, <1>a DEF StorePlan
<1>4. CASE PlanRefused(i)
  BY <1>4, <1>b, GotoFrame DEF PlanRefused
<1>5. CASE Reclaim(i)
  BY <1>0, <1>5, <1>a, <1>b, GotoFrame DEF Reclaim
<1>6. CASE NothingToBuild(i)
  BY <1>0, <1>6, <1>a DEF NothingToBuild
<1>7. ASSUME NEW m \in MilestoneId, PickMilestone(i, m) PROVE JobFits(i)'
  <2>1. pc'[i] \in {"return", "cap"} /\ j.snap = "building"
    BY <1>7 DEF PickMilestone, Goto, TypeOK
  <2> QED
    BY <2>1, <1>b
<1>cap. CASE CheckCap(i)
  <2>1. pc'[i] \in {"start", "trip"} /\ j.snap = "building"
    BY <1>cap DEF CheckCap, Goto, TypeOK
  <2> QED
    BY <2>1, <1>b
<1>8. CASE RecordFailure(i)
  <2>1. j.snap = "building" /\ AfterFailure(j.retry) \in {"blocked", "replanning"}
    BY <1>8 DEF RecordFailure, AfterFailure
  <2> QED
    BY <1>0, <1>8, <2>1, <1>a DEF RecordFailure
<1>9. CASE StartBuild(i)
  BY <1>9, <1>b, GotoFrame DEF StartBuild
<1>10. ASSUME NEW hot \in BOOLEAN, NEW over \in BOOLEAN,
              \/ CrewSucceeds(i, hot, over) \/ CrewFails(i, hot, over)
              \/ CrewBudgetExceeded(i, hot, over) \/ CrewRaises(i, hot, over)
       PROVE  JobFits(i)'
  <2>1. /\ pc[i] = "crew" /\ UNCHANGED job
        /\ \/ Goto(i, "success") \/ Goto(i, "failure") \/ Goto(i, "unbuild")
           \/ Goto(i, "crashed")
    BY <1>10 DEF CrewSucceeds, CrewFails, CrewBudgetExceeded, CrewRaises, CrewSpends
  <2> QED
    BY <2>1, <1>b, GotoFrame
<1>11. CASE Unbuild(i)
  BY <1>11, <1>b, GotoFrame DEF Unbuild
<1>12. CASE RecordSuccess(i)
  BY <1>0, <1>12, <1>a DEF RecordSuccess
<1>13. CASE Consolidate(i)
  BY <1>13, <1>b, GotoFrame DEF Consolidate
<1>14. CASE NothingToReplan(i)
  BY <1>0, <1>14, <1>a DEF NothingToReplan
<1>15. ASSUME NEW m \in MilestoneId, ReplanWithoutCrew(i, m) PROVE JobFits(i)'
  BY <1>0, <1>15, <1>a, <1>b, ToSplitFrame DEF ReplanWithoutCrew
<1>16. ASSUME NEW m \in MilestoneId, NEW reply \in ReplyActions,
              NEW n \in 2 .. MaxChildren, NEW over \in BOOLEAN,
              CrewReplies(i, m, reply, n, over)
       PROVE  JobFits(i)'
  <2>1. j.snap = "replanning"
    BY <1>16 DEF CrewReplies
  <2>2. \/ ToMove(i, "building") \/ ToMove(i, "blocked")
        \/ Goto(i, "amend") \/ Goto(i, "split") \/ Goto(i, "crashed")
    BY <1>16 DEF CrewReplies, ToSplit
  <2>3. ASSUME NEW label \in {"amend", "split", "crashed"}, Goto(i, label)
        PROVE  pc'[i] = label
    BY <2>3 DEF Goto, TypeOK
  <2> QED
    BY <1>0, <2>1, <2>2, <2>3, <1>a, <1>b
<1>17. ASSUME NEW note \in AmendNotes(i), NEW hot \in BOOLEAN,
              AmendMilestone(i, note, hot) PROVE JobFits(i)'
  BY <1>0, <1>17, <1>a DEF AmendMilestone
<1>18. ASSUME NEW notes \in ChildNotes(i), SplitMilestone(i, notes) PROVE JobFits(i)'
  BY <1>0, <1>18, <1>a DEF SplitMilestone
<1>19. ASSUME NEW passed \in BOOLEAN, Integrate(i, passed) PROVE JobFits(i)'
  BY <1>0, <1>19, <1>a DEF Integrate
<1>20. CASE Move(i)
  BY <1>20, <1>b, GotoFrame DEF Move
<1>21. CASE ServiceRaises(i) \/ CallRaises(i)
  BY <1>21, <1>b, GotoFrame DEF ServiceRaises, CallRaises
<1> QED
  BY <1>1, <1>2, <1>3, <1>4, <1>5, <1>6, <1>7, <1>8, <1>9, <1>10, <1>11, <1>12, <1>13,
     <1>14, <1>15, <1>16, <1>17, <1>18, <1>19, <1>20, <1>21, <1>cap
     DEF TickStep

\* Of the steps of a tick only the pick, the start, the crew and the choice
\* of a milestone to split end where RowFits asks for something.
LEMMA TickRowFits ==
  ASSUME TypeOK, NEW i \in Worker, TickStep(i) \/ CallRaises(i), RowFits(i)
  PROVE  RowFits(i)'
<1> USE DEF RowFits
<1> DEFINE j == job[i]
           Picked == {"cap", "trip", "start", "split", "amend", "crew", "success", "failure",
                      "unbuild"}
<1>0. j \in Job /\ j.p \in Project /\ j.m \in MilestoneId /\ ms[j.p] \in Table
  BY DEF TypeOK, Job
<1>1. ASSUME NEW m \in MilestoneId, PickMilestone(i, m) PROVE RowFits(i)'
  <2>1. CASE dayOver
    BY <1>1, <2>1, GotoFrame DEF PickMilestone
  <2>2. CASE ~dayOver
    <3>1. job'[i].p = j.p /\ job'[i].m = m /\ pc'[i] = "cap" /\ ms' = ms
      BY <1>0, <1>1, <2>2 DEF PickMilestone, Goto, TypeOK, Job
    <3>2. ms[j.p][m].state \in {"pending", "failed"}
      BY <1>1 DEF PickMilestone, next_pending, Waiting
    <3> QED
      BY <3>1, <3>2
  <2> QED
    BY <2>1, <2>2
<1>cap. CASE CheckCap(i)
  <2>1. /\ pc[i] = "cap" /\ pc'[i] \in {"start", "trip"}
        /\ UNCHANGED <<job, ms>>
    BY <1>cap DEF CheckCap, Goto, TypeOK
  <2> QED
    BY <2>1
<1>2. CASE StartBuild(i)
  <2>1. pc'[i] = "crew" /\ job'[i] = j
    BY <1>2 DEF StartBuild, Goto, TypeOK
  <2>2. ms'[j.p] = update_state(ms[j.p], j.m, "building")
    BY <1>0, <1>2 DEF StartBuild, TypeOK
  <2>3. ms'[j.p][j.m].state = "building"
    BY <1>0, <2>2 DEF update_state, Table, Row
  <2> QED
    BY <2>1, <2>3
<1>3. ASSUME NEW hot \in BOOLEAN, NEW over \in BOOLEAN,
             \/ CrewSucceeds(i, hot, over) \/ CrewFails(i, hot, over)
             \/ CrewBudgetExceeded(i, hot, over) \/ CrewRaises(i, hot, over)
      PROVE  RowFits(i)'
  <2>1. pc[i] = "crew" /\ CrewSpends(i, hot, over) /\ pc'[i] \notin {"cap", "trip", "start", "split", "amend"}
    BY <1>3 DEF CrewSucceeds, CrewFails, CrewBudgetExceeded, CrewRaises, Goto, TypeOK
  <2>2. job'[i] = j /\ ms'[j.p] = charge(ms[j.p], j.m, hot, over)
    BY <1>0, <2>1 DEF CrewSpends, TypeOK
  <2>3. ms'[j.p][j.m].state = ms[j.p][j.m].state
    BY <1>0, <2>2 DEF charge, Table, Row
  <2> QED
    BY <2>1, <2>2, <2>3
<1>4. ASSUME pc'[i] \notin Picked PROVE RowFits(i)'
  BY <1>4
<1>5. ASSUME NEW s, ToMove(i, s) PROVE pc'[i] \notin Picked
  BY <1>5, ToMoveFrame
<1>6. CASE CheckKill(i) \/ CheckPause(i)
  <2>1. HandlerOf(j.snap) \notin Picked
    BY DEF HandlerOf
  <2>2. pc'[i] \notin Picked
    BY <1>5, <1>6, <2>1 DEF CheckKill, CheckPause, Goto, TypeOK
  <2> QED
    BY <1>4, <2>2
<1>7. CASE \/ \E n \in 1 .. MaxPlan : \E notes \in [0 .. n - 1 -> CrewNotes] : StorePlan(i, n, notes)
           \/ NothingToBuild(i) \/ RecordFailure(i) \/ RecordSuccess(i)
           \/ NothingToReplan(i)
           \/ \E note \in AmendNotes(i), hot \in BOOLEAN : AmendMilestone(i, note, hot)
           \/ \E notes \in ChildNotes(i) : SplitMilestone(i, notes)
           \/ \E passed \in BOOLEAN : Integrate(i, passed)
  BY <1>4, <1>5, <1>7
     DEF StorePlan, NothingToBuild, RecordFailure, RecordSuccess, NothingToReplan,
         AmendMilestone, SplitMilestone, Integrate
<1>8. CASE \/ PlanRefused(i) \/ Unbuild(i) \/ Consolidate(i) \/ Move(i)
           \/ ServiceRaises(i) \/ CallRaises(i)
  <2>1. pc'[i] \notin Picked
    BY <1>8 DEF PlanRefused, Unbuild, Consolidate, Move, ServiceRaises, CallRaises, Goto, TypeOK
  <2> QED
    BY <1>4, <2>1
<1>9. CASE Reclaim(i)
  <2>1. pc'[i] \notin Picked
    BY <1>5, <1>9 DEF Reclaim, Goto, TypeOK
  <2> QED
    BY <1>4, <2>1
<1>10. ASSUME NEW m \in MilestoneId, NEW n, NEW auto,
              \/ ToSplit(i, m, n, auto)
              \/ Goto(i, "amend") /\ job' = [job EXCEPT ![i].m = m],
              next_pending(ms[j.p], m), ms'[j.p][m].state = ms[j.p][m].state
       PROVE  RowFits(i)'
  <2>1. pc'[i] \in {"split", "amend"} /\ job'[i].p = j.p /\ job'[i].m = m
    BY <1>0, <1>10 DEF ToSplit, Goto, TypeOK, Job
  <2>2. ms[j.p][m].state \in {"pending", "failed"}
    BY <1>10 DEF next_pending, Waiting
  <2> QED
    BY <1>10, <2>1, <2>2
<1>11. ASSUME NEW m \in MilestoneId, ReplanWithoutCrew(i, m) PROVE RowFits(i)'
  <2>1. CASE ToMove(i, "building")
    BY <1>4, <1>5, <2>1
  <2>2. CASE ToSplit(i, m, 2, TRUE)
    BY <1>10, <1>11, <2>2 DEF ReplanWithoutCrew
  <2> QED
    BY <1>11, <2>1, <2>2 DEF ReplanWithoutCrew
<1>12. ASSUME NEW m \in MilestoneId, NEW reply \in ReplyActions,
              NEW n \in 2 .. MaxChildren, NEW over \in BOOLEAN,
              CrewReplies(i, m, reply, n, over)
       PROVE  RowFits(i)'
  <2>1. CASE \/ ToSplit(i, m, n, FALSE)
             \/ Goto(i, "amend") /\ job' = [job EXCEPT ![i].m = m]
    <3>1. ms'[j.p][m].state = ms[j.p][m].state
      BY <1>0, <1>12 DEF CrewReplies, TypeOK, Table, Row
    <3> QED
      BY <1>10, <1>12, <2>1, <3>1 DEF CrewReplies
  <2>2. ASSUME /\ ~ToSplit(i, m, n, FALSE)
               /\ ~(Goto(i, "amend") /\ job' = [job EXCEPT ![i].m = m])
        PROVE  pc'[i] \notin Picked
    BY <1>5, <1>12, <2>2 DEF CrewReplies, Goto, TypeOK
  <2> QED
    BY <1>4, <2>1, <2>2
<1> QED
  BY <1>1, <1>2, <1>3, <1>6, <1>7, <1>8, <1>9, <1>11, <1>12, <1>cap DEF TickStep

\* No step of the pool, an operator or the environment changes the state of
\* a milestone, but for a restart, which leaves every worker idle.
LEMMA OtherRowsKeepState ==
  ASSUME TypeOK, [Next]_vars, ~Restart,
         \A i \in Worker : ~TickStep(i) /\ ~CallRaises(i)
  PROVE  \A p \in Project, m \in MilestoneId : ms'[p][m].state = ms[p][m].state
<1>1. ASSUME NEW i \in Worker, PoolStep(i) \/ BlockLost(i) PROVE UNCHANGED ms
  BY <1>1 DEF PoolStep, ClaimNext, CleanTick, BackOff, BlockCrashed, BlockLost
<1>2. ASSUME NEW o \in Operator, NEW p \in Project, ResumeReset(o, p)
      PROVE  \A q \in Project, m \in MilestoneId : ms'[q][m].state = ms[q][m].state
  <2>1. ms[p] \in Table /\ ms' = [ms EXCEPT ![p] = reset_retry_count(ms[p])]
    BY <1>2 DEF ResumeReset, TypeOK
  <2>2. \A m \in MilestoneId : reset_retry_count(ms[p])[m].state = ms[p][m].state
    BY <2>1 DEF reset_retry_count, Table, Row
  <2> QED
    BY <2>1, <2>2 DEF TypeOK
<1>3. ASSUME NEW o \in Operator, Command(o) PROVE UNCHANGED ms
  BY <1>3 DEF Command, ApproveRead, Pause, ResumeSignals, Abort, KillSwitch
<1>4. ASSUME NEW o \in Operator, NEW p \in Project,
             ApproveWrite(o, p) \/ ResumeRead(o, p) \/ ResumeWrite(o, p)
      PROVE  UNCHANGED ms
  BY <1>4 DEF ApproveWrite, ResumeRead, ResumeWrite
<1>5. ASSUME \/ \E p \in Project : CooldownElapses(p)
             \/ RedisLost \/ DaySpent \/ DayRolls \/ UNCHANGED vars
      PROVE  UNCHANGED ms
  BY <1>5 DEF CooldownElapses, RedisLost, DaySpent, DayRolls, vars
<1> QED
  BY <1>1, <1>2, <1>3, <1>4, <1>5 DEF Next, WorkerStep, HandlerStep

\* Every step keeps every worker's place, job and milestone in accord: its own
\* by the two lemmas above, the others' because claims are exclusive.
LEMMA FitsStep == TypeOK /\ ClaimsExclusive /\ Fits /\ [Next]_vars => Fits'
<1> SUFFICES ASSUME TypeOK, ClaimsExclusive, Fits, [Next]_vars
             PROVE  Fits'
  OBVIOUS
<1> USE DEF Fits
<1>0. \A k \in Worker : job[k].p \in Project /\ job[k].m \in MilestoneId
  BY DEF TypeOK, Job
<1>1. ASSUME NEW i \in Worker, TickStep(i) \/ CallRaises(i)
      PROVE  Fits'
  <2>1. JobFits(i)' /\ RowFits(i)'
    BY <1>1, TickJobFits, TickRowFits
  <2>2. ASSUME NEW k \in Worker, k # i PROVE JobFits(k)' /\ RowFits(k)'
    <3>1. pc'[k] = pc[k] /\ job'[k] = job[k] /\ pc[i] # "idle"
      BY <1>1, <2>2, TickFramed DEF TickFrame, Others
    <3>2. JobFits(k)'
      BY <3>1 DEF JobFits, Busy
    <3>3. CASE pc[k] = "idle"
      BY <3>1, <3>2, <3>3 DEF RowFits
    <3>4. CASE pc[k] # "idle"
      <4>1. job[k].p # job[i].p
        BY <2>2, <3>1, <3>4 DEF ClaimsExclusive, Busy
      <4>2. ms'[job[k].p] = ms[job[k].p]
        BY <1>0, <1>1, <4>1, TickFramed DEF TickFrame
      <4> QED
        BY <3>1, <3>2, <4>2 DEF RowFits
    <3> QED
      BY <3>3, <3>4
  <2> QED
    BY <2>1, <2>2
<1>2. CASE Restart
  BY <1>2 DEF Restart, JobFits, RowFits, Busy, BuildSteps, ReplanSteps
<1>3. ASSUME ~Restart, \A i \in Worker : ~TickStep(i) /\ ~CallRaises(i)
      PROVE  Fits'
  <2>1. \A p \in Project, m \in MilestoneId : ms'[p][m].state = ms[p][m].state
    BY <1>3, OtherRowsKeepState
  <2>2. ASSUME NEW k \in Worker, pc'[k] = pc[k], job'[k] = job[k]
        PROVE  JobFits(k)' /\ RowFits(k)'
    <3>1. JobFits(k)'
      BY <2>2 DEF JobFits, Busy
    <3>2. ms'[job[k].p][job[k].m].state = ms[job[k].p][job[k].m].state
      BY <1>0, <2>1
    <3> QED
      BY <2>2, <3>1, <3>2 DEF RowFits
  <2>3. ASSUME NEW i \in Worker, NEW p \in Project, ClaimNext(i, p)
        PROVE  Fits'
    <3>1. JobFits(i)' /\ RowFits(i)'
      BY <2>3, ClaimFrame DEF JobFits, RowFits, Busy, BuildSteps, ReplanSteps
    <3> QED
      BY <2>2, <2>3, <3>1, ClaimFrame DEF Others
  <2>4. ASSUME NEW i \in Worker, Release(i)
        PROVE  Fits'
    <3>1. JobFits(i)' /\ RowFits(i)'
      BY <2>4, ReleaseFrame DEF JobFits, RowFits, Busy, BuildSteps, ReplanSteps
    <3> QED
      BY <2>2, <2>4, <3>1, ReleaseFrame DEF Others
  <2>5. CASE UNCHANGED <<pc, job>>
    BY <2>2, <2>5
  <2> QED
    BY <1>3, <2>3, <2>4, <2>5, StepKinds
<1> QED
  BY <1>1, <1>2, <1>3

(***************************************************************************)
(* Where a worker stands, what it holds of its project and the milestone   *)
(* it has picked always agree: the handler is the one of the state it was  *)
(* handed, and nobody else has touched the milestone it is about to write. *)
(***************************************************************************)
THEOREM FitsCorrect == Safety => []Fits
<1>1. Init => Fits
  BY DEF Init, Fits, JobFits, RowFits, Busy, BuildSteps, ReplanSteps
<1> QED
  BY <1>1, TypeCorrect, ClaimsCorrect, FitsStep, PTL DEF Safety

(***************************************************************************)
(* No write of a tick is ever refused by the transition tables.            *)
(***************************************************************************)
THEOREM WritesLegalCorrect == Safety => []WritesLegal
<1>1. Fits => WritesLegal
  BY DEF Fits, JobFits, RowFits, WritesLegal, LegalMilestone, MILESTONE_TRANSITIONS,
         MilestoneState
<1> QED
  BY <1>1, FitsCorrect, PTL

-----------------------------------------------------------------------------
(* Transitions: with one operator, nobody writes a stale state             *)

SingleOperator == \A a, b \in Operator : a = b

\* What a handler read before its last write is still so.
HandlersCurrent ==
  \A o \in Operator :
    /\ op[o].step = "approve" => state[op[o].p] = "awaiting_approval"
    /\ op[o].step \in {"resume_plan", "resume_reset", "resume_build"} =>
         state[op[o].p] = "blocked"

Current == SnapshotCurrent /\ HandlersCurrent

\* The only four writers of projects.state.
LEMMA StateWriters ==
  ASSUME [Next]_vars
  PROVE  \/ UNCHANGED state
         \/ \E i \in Worker : Move(i) \/ BlockCrashed(i)
         \/ \E o \in Operator, p \in Project : ApproveWrite(o, p) \/ ResumeWrite(o, p)
<1>1. ASSUME NEW i \in Worker, TickStep(i) PROVE Move(i) \/ UNCHANGED state
  <2>1. ASSUME NEW hot \in BOOLEAN, NEW over \in BOOLEAN,
               \/ CrewSucceeds(i, hot, over) \/ CrewFails(i, hot, over)
               \/ CrewBudgetExceeded(i, hot, over) \/ CrewRaises(i, hot, over)
        PROVE  UNCHANGED state
    BY <2>1 DEF CrewSucceeds, CrewFails, CrewBudgetExceeded, CrewRaises, CrewSpends
  <2>2. CASE \/ CheckKill(i) \/ CheckPause(i)
             \/ \E n \in 1 .. MaxPlan : \E notes \in [0 .. n - 1 -> CrewNotes] : StorePlan(i, n, notes)
             \/ PlanRefused(i) \/ Reclaim(i) \/ NothingToBuild(i)
             \/ \E m \in MilestoneId : PickMilestone(i, m)
             \/ CheckCap(i) \/ RecordFailure(i) \/ StartBuild(i) \/ Unbuild(i)
             \/ RecordSuccess(i)
    BY <2>2 DEF CheckKill, CheckPause, StorePlan, PlanRefused, Reclaim, NothingToBuild,
                PickMilestone, CheckCap, RecordFailure, StartBuild, Unbuild, RecordSuccess
  <2>3. CASE \/ Consolidate(i) \/ NothingToReplan(i)
             \/ \E m \in MilestoneId : ReplanWithoutCrew(i, m)
             \/ \E m \in MilestoneId, reply \in ReplyActions,
                   n \in 2 .. MaxChildren, over \in BOOLEAN : CrewReplies(i, m, reply, n, over)
             \/ \E note \in AmendNotes(i), hot \in BOOLEAN : AmendMilestone(i, note, hot)
             \/ \E notes \in ChildNotes(i) : SplitMilestone(i, notes)
             \/ \E passed \in BOOLEAN : Integrate(i, passed)
             \/ ServiceRaises(i)
    BY <2>3 DEF Consolidate, NothingToReplan, ReplanWithoutCrew, CrewReplies,
                AmendMilestone, SplitMilestone, Integrate, ServiceRaises
  <2> QED
    BY <1>1, <2>1, <2>2, <2>3 DEF TickStep
<1>2. ASSUME NEW i \in Worker, PoolStep(i) \/ CallRaises(i) \/ BlockLost(i)
      PROVE  BlockCrashed(i) \/ UNCHANGED state
  BY <1>2 DEF PoolStep, ClaimNext, CleanTick, BackOff, CallRaises, BlockLost
<1>3. ASSUME NEW o \in Operator, Command(o) PROVE UNCHANGED state
  BY <1>3 DEF Command, ApproveRead, Pause, ResumeSignals, Abort, KillSwitch
<1>4. ASSUME NEW o \in Operator, NEW p \in Project, ResumeRead(o, p) \/ ResumeReset(o, p)
      PROVE  UNCHANGED state
  BY <1>4 DEF ResumeRead, ResumeReset
<1>5. ASSUME \/ \E p \in Project : CooldownElapses(p)
             \/ Restart \/ RedisLost \/ DaySpent \/ DayRolls \/ UNCHANGED vars
      PROVE  UNCHANGED state
  BY <1>5 DEF CooldownElapses, Restart, RedisLost, DaySpent, DayRolls, vars
<1> QED
  BY <1>1, <1>2, <1>3, <1>4, <1>5 DEF Next, WorkerStep, HandlerStep

(***************************************************************************)
(* What the four writers write: always a legal successor of what the row   *)
(* holds, and never under a tick or a handler that relies on it.           *)
(***************************************************************************)
LEMMA WriteCurrent ==
  ASSUME TypeOK, ClaimsExclusive, Fits, Current, SingleOperator, [Next]_vars
  PROVE  \A p \in Project : state'[p] # state[p] =>
           /\ LegalProject(state[p], state'[p])
           /\ \A k \in Worker : pc'[k] \notin {"idle", "return"} => job'[k].p # p
           /\ \A o \in Operator : op'[o].step \in {"idle", "resume_read"} \/ op'[o].p # p
<1> SUFFICES ASSUME NEW p \in Project, state'[p] # state[p]
             PROVE  /\ LegalProject(state[p], state'[p])
                    /\ \A k \in Worker : pc'[k] \notin {"idle", "return"} => job'[k].p # p
                    /\ \A o \in Operator :
                         op'[o].step \in {"idle", "resume_read"} \/ op'[o].p # p
  OBVIOUS
<1>0. \A o \in Operator : op[o].step \in OperatorSteps
  BY DEF TypeOK
<1>1. \A o \in Operator :
        \/ op[o].step \in {"idle", "resume_read"} \/ op[o].p # p
        \/ state[p] \in {"awaiting_approval", "blocked"}
  BY <1>0 DEF Current, HandlersCurrent, OperatorSteps
<1>2. \A k \in Worker : pc[k] \notin {"idle", "return"} /\ job[k].p = p =>
        state[p] = job[k].snap /\ state[p] \in ADVANCEABLE_STATES
  BY DEF Current, SnapshotCurrent, Fits, JobFits, Busy
<1>3. ASSUME NEW i \in Worker, Move(i) \/ BlockCrashed(i)
      PROVE  /\ LegalProject(state[p], state'[p])
             /\ \A k \in Worker : pc'[k] \notin {"idle", "return"} => job'[k].p # p
             /\ \A o \in Operator : op'[o].step \in {"idle", "resume_read"} \/ op'[o].p # p
  <2>1. /\ job[i].p = p /\ pc[i] \in {"move", "crashed"} /\ op' = op
        /\ LegalProject(job[i].snap, state'[p])
    BY <1>3 DEF Move, BlockCrashed, TypeOK
  <2>2. state[p] = job[i].snap /\ state[p] \in ADVANCEABLE_STATES
    BY <1>2, <2>1
  <2>3. /\ pc'[i] \in {"idle", "return"}
        /\ \A k \in Worker : k # i => pc'[k] = pc[k] /\ job'[k] = job[k]
    BY <1>3 DEF Move, BlockCrashed, Goto, Release, TypeOK
  <2>4. \A k \in Worker : k # i /\ pc[k] # "idle" => job[k].p # p
    BY <2>1 DEF ClaimsExclusive, Busy
  <2> QED
    BY <1>1, <2>1, <2>2, <2>3, <2>4 DEF ADVANCEABLE_STATES
<1>4. ASSUME NEW o \in Operator, NEW q \in Project, ApproveWrite(o, q) \/ ResumeWrite(o, q)
      PROVE  /\ LegalProject(state[p], state'[p])
             /\ \A k \in Worker : pc'[k] \notin {"idle", "return"} => job'[k].p # p
             /\ \A b \in Operator : op'[b].step \in {"idle", "resume_read"} \/ op'[b].p # p
  <2>1. q = p /\ UNCHANGED <<pc, job>> /\ op' = [op EXCEPT ![o] = NoOp]
    BY <1>4 DEF ApproveWrite, ResumeWrite, OpDone, TypeOK
  <2>2. \A b \in Operator : op'[b].step = "idle"
    BY <2>1 DEF SingleOperator, TypeOK, NoOp
  <2>3. \/ state[p] = "awaiting_approval" /\ state'[p] = "building"
        \/ state[p] = "blocked" /\ state'[p] \in {"building", "planning"}
    BY <1>4, <2>1 DEF ApproveWrite, ResumeWrite, At, Current, HandlersCurrent, TypeOK
  <2>4. LegalProject(state[p], state'[p])
    BY <2>3 DEF LegalProject, PROJECT_TRANSITIONS, ProjectState
  <2> QED
    BY <1>2, <2>1, <2>2, <2>3, <2>4 DEF ADVANCEABLE_STATES
<1> QED
  BY <1>3, <1>4, StateWriters

\* A tick steps from within, not after its move or its exception.
LEMMA TickFrom ==
  ASSUME NEW i \in Worker, TickStep(i) \/ CallRaises(i)
  PROVE  pc[i] \in TickSteps
BY DEF TickStep, CallRaises, TickSteps, CheckKill, CheckPause, StorePlan, PlanRefused, Reclaim,
       NothingToBuild, PickMilestone, CheckCap, RecordFailure, StartBuild, CrewSucceeds, CrewFails,
       CrewBudgetExceeded, CrewRaises, Unbuild, RecordSuccess, Consolidate, NothingToReplan,
       ReplanWithoutCrew, CrewReplies, AmendMilestone, SplitMilestone, Integrate, Move,
       ServiceRaises

\* What the handlers' steps do to their places.
LEMMA HandlerMoves ==
  ASSUME TypeOK, [Next]_vars, NEW o \in Operator
  PROVE  \/ op'[o] = op[o]
         \/ op'[o].step \in {"idle", "resume_read"}
         \/ op'[o].step = "approve" /\ state[op'[o].p] = "awaiting_approval"
         \/ /\ op'[o].step \in {"resume_plan", "resume_reset"}
            /\ state[op'[o].p] = "blocked"
         \/ /\ op'[o].step = "resume_build" /\ op[o].step = "resume_reset"
            /\ op'[o].p = op[o].p
<1> USE DEF TypeOK, OpGoto, OpDone
<1>1. ASSUME NEW b \in Operator, NEW p \in Project,
             \/ ApproveRead(b, p) \/ Pause(b, p) \/ ResumeSignals(b, p) \/ Abort(b, p)
             \/ KillSwitch(b)
      PROVE  \/ op'[o] = op[o]
             \/ op'[o].step = "resume_read"
             \/ op'[o].step = "approve" /\ state[op'[o].p] = "awaiting_approval"
  BY <1>1 DEF ApproveRead, Pause, ResumeSignals, Abort, KillSwitch
<1>2. ASSUME NEW b \in Operator, NEW p \in Project, ApproveWrite(b, p) \/ ResumeWrite(b, p)
      PROVE  op'[o] = op[o] \/ op'[o].step = "idle"
  BY <1>2 DEF ApproveWrite, ResumeWrite, NoOp
<1>3. ASSUME NEW b \in Operator, NEW p \in Project, ResumeRead(b, p)
      PROVE  \/ op'[o] = op[o] \/ op'[o].step = "idle"
             \/ /\ op'[o].step \in {"resume_plan", "resume_reset"}
                /\ state[op'[o].p] = "blocked"
  <2>1. CASE AfterResumeRead(p) = "idle"
    BY <1>3, <2>1 DEF ResumeRead, NoOp
  <2>2. CASE AfterResumeRead(p) # "idle"
    <3>1. AfterResumeRead(p) \in {"resume_plan", "resume_reset"} /\ state[p] = "blocked"
      BY <2>2 DEF AfterResumeRead
    <3>2. op' = [op EXCEPT ![b] = [step |-> AfterResumeRead(p), p |-> p]]
      BY <1>3, <2>2 DEF ResumeRead
    <3> QED
      BY <3>1, <3>2
  <2> QED
    BY <2>1, <2>2
<1>4. ASSUME NEW b \in Operator, NEW p \in Project, ResumeReset(b, p)
      PROVE  \/ op'[o] = op[o]
             \/ /\ op'[o].step = "resume_build" /\ op[o].step = "resume_reset"
                /\ op'[o].p = op[o].p
  BY <1>4 DEF ResumeReset, At
<1>5. ASSUME NEW i \in Worker, WorkerStep(i) \/ CallRaises(i) \/ BlockLost(i)
      PROVE  op' = op
  BY <1>5, TickFramed
     DEF WorkerStep, TickFrame, PoolStep, ClaimNext, CleanTick, BackOff, BlockCrashed, BlockLost
<1>6. CASE Restart
  BY <1>6 DEF Restart, NoOp
<1>7. ASSUME \/ \E p \in Project : CooldownElapses(p)
             \/ RedisLost \/ DaySpent \/ DayRolls \/ UNCHANGED vars
      PROVE  op' = op
  BY <1>7 DEF CooldownElapses, RedisLost, DaySpent, DayRolls, vars
<1>8. ASSUME NEW b \in Operator, Command(b)
      PROVE  \/ op'[o] = op[o]
             \/ op'[o].step = "resume_read"
             \/ op'[o].step = "approve" /\ state[op'[o].p] = "awaiting_approval"
  BY <1>1, <1>8, IdAssumption DEF Command
<1> QED
  BY <1>2, <1>3, <1>4, <1>5, <1>6, <1>7, <1>8 DEF Next, HandlerStep

\* Every step keeps the copies of ticks and handlers current.
LEMMA CurrentStep ==
  ASSUME TypeOK, TypeOK', ClaimsExclusive, Fits, Current, SingleOperator, [Next]_vars
  PROVE  Current'
<1>1. ASSUME NEW k \in Worker, pc'[k] \notin {"idle", "return"}
      PROVE  state'[job'[k].p] = job'[k].snap
  <2>1. job'[k].p \in Project
    BY DEF TypeOK, Job
  <2>2. state'[job'[k].p] = state[job'[k].p]
    BY <1>1, <2>1, WriteCurrent
  <2>3. ASSUME NEW i \in Worker, TickStep(i) \/ CallRaises(i)
        PROVE  state[job'[k].p] = job'[k].snap
    <3>1. TickFrame(i) /\ pc[i] \in TickSteps
      BY <2>3, TickFramed, TickFrom
    <3>2. CASE k = i
      BY <3>1, <3>2 DEF TickFrame, TickSteps, Current, SnapshotCurrent
    <3>3. CASE k # i
      BY <1>1, <3>1, <3>3 DEF TickFrame, Others, Current, SnapshotCurrent
    <3> QED
      BY <3>2, <3>3
  <2>4. ASSUME NEW i \in Worker, NEW p \in Project, ClaimNext(i, p)
        PROVE  state[job'[k].p] = job'[k].snap
    BY <1>1, <2>4, ClaimFrame DEF Others, Current, SnapshotCurrent
  <2>5. ASSUME NEW i \in Worker, Release(i)
        PROVE  state[job'[k].p] = job'[k].snap
    BY <1>1, <2>5, ReleaseFrame DEF Others, Current, SnapshotCurrent
  <2>6. ~Restart
    BY <1>1 DEF Restart
  <2>7. ASSUME UNCHANGED <<pc, job, claimed>>
        PROVE  state[job'[k].p] = job'[k].snap
    BY <1>1, <2>7 DEF Current, SnapshotCurrent
  <2>8. state[job'[k].p] = job'[k].snap
    BY <2>3, <2>4, <2>5, <2>6, <2>7, StepKinds
  <2> QED
    BY <2>2, <2>8
<1>2. ASSUME NEW o \in Operator, op'[o].step \notin {"idle", "resume_read"}
      PROVE  /\ op'[o].step = "approve" => state'[op'[o].p] = "awaiting_approval"
             /\ op'[o].step \in {"resume_plan", "resume_reset", "resume_build"} =>
                  state'[op'[o].p] = "blocked"
  <2>1. op'[o].p \in Project
    BY DEF TypeOK
  <2>2. state'[op'[o].p] = state[op'[o].p]
    BY <1>2, <2>1, WriteCurrent
  <2> QED
    BY <1>2, <2>2, HandlerMoves DEF Current, HandlersCurrent
<1> QED
  BY <1>1, <1>2 DEF Current, SnapshotCurrent, HandlersCurrent

(***************************************************************************)
(* With one operator, what a tick holds of its project's row is current    *)
(* until the tick has written it.                                          *)
(***************************************************************************)
THEOREM CurrentCorrect ==
  ASSUME SingleOperator
  PROVE  Safety => [](SnapshotCurrent /\ HandlersCurrent)
<1>1. Init => Current
  BY DEF Init, Current, SnapshotCurrent, HandlersCurrent, NoOp
<1>2. TypeOK /\ TypeOK' /\ ClaimsExclusive /\ Fits /\ Current /\ [Next]_vars => Current'
  BY CurrentStep
<1>3. Current => SnapshotCurrent /\ HandlersCurrent
  BY DEF Current
<1> QED
  BY <1>1, <1>2, <1>3, TypeCorrect, ClaimsCorrect, FitsCorrect, PTL DEF Safety

(***************************************************************************)
(* With one operator a project's row only follows PROJECT_TRANSITIONS.     *)
(***************************************************************************)
THEOREM LegalTransitionsCorrect ==
  ASSUME SingleOperator
  PROVE  Safety => LegalTransitions
<1>1. TypeOK /\ ClaimsExclusive /\ Fits /\ SnapshotCurrent /\ HandlersCurrent /\ [Next]_vars
        => [\A p \in Project : LegalTransition(p)]_vars
  BY WriteCurrent DEF Current, LegalTransition
<1> QED
  BY <1>1, TypeCorrect, ClaimsCorrect, FitsCorrect, CurrentCorrect, PTL
     DEF Safety, LegalTransitions

-----------------------------------------------------------------------------
(* Finished milestones *)

\* No step of a tick reopens or deletes a finished milestone of its project.
LEMMA TickKeepsDone ==
  ASSUME TypeOK, Fits, NEW i \in Worker, TickStep(i) \/ CallRaises(i)
  PROVE  KeepsDone(ms[job[i].p], ms'[job[i].p])
<1> DEFINE p == job[i].p
           m0 == job[i].m
           t == ms[p]
<1>0. /\ p \in Project /\ m0 \in MilestoneId /\ t \in Table /\ job[i].kids \in Nat
  BY DEF TypeOK, Job
<1>a. ASSUME NEW u, KeepsDone(t, u), ms' = [ms EXCEPT ![p] = u] PROVE KeepsDone(t, ms'[p])
  BY <1>0, <1>a DEF TypeOK
<1>b. ASSUME UNCHANGED ms PROVE KeepsDone(t, ms'[p])
  BY <1>b DEF KeepsDone
<1>1. ASSUME NEW n \in 1 .. MaxPlan, NEW notes \in [0 .. n - 1 -> CrewNotes],
             StorePlan(i, n, notes) PROVE KeepsDone(t, ms'[p])
  <2>1. FreshIds(t, n) \in Placements(t, n) /\ n \in Nat
    BY <1>1, FreshIdsPlaced DEF StorePlan
  <2> QED
    BY <1>0, <1>1, <1>a, <2>1, InsertionsKeepDone DEF StorePlan
<1>2. CASE Reclaim(i)
  BY <1>0, <1>2, <1>a, RowUpdatesKeepDone DEF Reclaim
<1>3. CASE RecordFailure(i) \/ StartBuild(i) \/ Unbuild(i) \/ RecordSuccess(i)
  <2>1. t[m0].state # "done"
    BY <1>3 DEF Fits, RowFits, RecordFailure, StartBuild, Unbuild, RecordSuccess
  <2> QED
    BY <1>0, <1>3, <1>a, <2>1, RowUpdatesKeepDone
       DEF RecordFailure, StartBuild, Unbuild, RecordSuccess
<1>4. ASSUME NEW hot \in BOOLEAN, NEW over \in BOOLEAN,
             \/ CrewSucceeds(i, hot, over) \/ CrewFails(i, hot, over)
             \/ CrewBudgetExceeded(i, hot, over) \/ CrewRaises(i, hot, over)
      PROVE  KeepsDone(t, ms'[p])
  <2>1. CrewSpends(i, hot, over)
    BY <1>4 DEF CrewSucceeds, CrewFails, CrewBudgetExceeded, CrewRaises
  <2> QED
    BY <1>0, <1>a, <2>1, RowUpdatesKeepDone DEF CrewSpends
<1>5. CASE Consolidate(i)
  <2>1. CASE UNCHANGED ms
    BY <1>b, <2>1
  <2>2. ASSUME NEW m \in MilestoneId, Placements(t, 1) # {},
               ms' = [ms EXCEPT ![p] = insert_after(t, m, FreshIds(t, 1))]
        PROVE  KeepsDone(t, ms'[p])
    <3>1. FreshIds(t, 1) \in Placements(t, 1)
      BY <2>2, FreshIdsPlaced
    <3> QED
      BY <1>0, <1>a, <2>2, <3>1, InsertionsKeepDone
  <2> QED
    BY <1>5, <2>1, <2>2 DEF Consolidate
<1>6. ASSUME NEW m \in MilestoneId, NEW reply \in ReplyActions,
             NEW n \in 2 .. MaxChildren, NEW over \in BOOLEAN,
             CrewReplies(i, m, reply, n, over)
      PROVE  KeepsDone(t, ms'[p])
  BY <1>0, <1>6 DEF CrewReplies, KeepsDone, TypeOK, Table, Row
<1>7. ASSUME NEW note \in AmendNotes(i), NEW hot \in BOOLEAN,
              AmendMilestone(i, note, hot) PROVE KeepsDone(t, ms'[p])
  BY <1>0, <1>7, <1>a, RowUpdatesKeepDone DEF AmendMilestone
<1>8. ASSUME NEW notes \in ChildNotes(i), SplitMilestone(i, notes) PROVE KeepsDone(t, ms'[p])
  <2>1. t[m0].state # "done"
    BY <1>8 DEF Fits, RowFits, SplitMilestone
  <2>2. FreshIds(t, job[i].kids) \in Placements(t, job[i].kids)
    BY <1>8, FreshIdsPlaced DEF SplitMilestone
  <2>3. ms' = [ms EXCEPT ![p] =
                 replace_with(t, m0, FreshIds(t, job[i].kids), notes)]
    BY <1>8 DEF SplitMilestone
  <2> QED
    BY <1>0, <1>a, <2>1, <2>2, <2>3, InsertionsKeepDone
<1>9. CASE \/ CheckKill(i) \/ CheckPause(i) \/ PlanRefused(i) \/ NothingToBuild(i)
           \/ \E m \in MilestoneId : PickMilestone(i, m)
           \/ CheckCap(i) \/ NothingToReplan(i)
           \/ \E m \in MilestoneId : ReplanWithoutCrew(i, m)
           \/ \E passed \in BOOLEAN : Integrate(i, passed)
           \/ Move(i) \/ ServiceRaises(i) \/ CallRaises(i)
  BY <1>9, <1>b DEF CheckKill, CheckPause, PlanRefused, NothingToBuild, PickMilestone,
       CheckCap, NothingToReplan, ReplanWithoutCrew, Integrate, Move, ServiceRaises, CallRaises
<1> QED
  BY <1>1, <1>2, <1>3, <1>4, <1>5, <1>6, <1>7, <1>8, <1>9 DEF TickStep

(***************************************************************************)
(* A finished milestone is never reopened, replanned, split away or        *)
(* overwritten, by anyone.                                                 *)
(***************************************************************************)
THEOREM DoneStaysDoneCorrect == Safety => DoneStaysDone
<1>1. ASSUME TypeOK, Fits, Next
      PROVE  \A p \in Project : KeepsDone(ms[p], ms'[p])
  <2> SUFFICES ASSUME NEW p \in Project PROVE KeepsDone(ms[p], ms'[p])
    OBVIOUS
  <2>1. ASSUME NEW i \in Worker, TickStep(i) \/ CallRaises(i) PROVE KeepsDone(ms[p], ms'[p])
    <3>1. CASE p = job[i].p
      BY <1>1, <2>1, <3>1, TickKeepsDone
    <3>2. CASE p # job[i].p
      BY <1>1, <2>1, <3>2, TickFramed DEF TickFrame, KeepsDone
    <3> QED
      BY <3>1, <3>2
  <2>2. CASE Restart
    <3>1. ms[p] \in Table /\ ms'[p] = requeue_stale_building(ms[p])
      BY <1>1, <2>2 DEF Restart, TypeOK
    <3> QED
      BY <3>1, RowUpdatesKeepDone, IdAssumption
  <2>3. CASE ~Restart /\ \A i \in Worker : ~TickStep(i) /\ ~CallRaises(i)
    BY <1>1, <2>3, OtherRowsKeepState DEF KeepsDone
  <2> QED
    BY <2>1, <2>2, <2>3
<1>2. TypeOK /\ Fits /\ [Next]_vars
        => [\A p \in Project, m \in MilestoneId :
              ms[p][m].state = "done" => ms'[p][m].state = "done"]_vars
  BY <1>1 DEF KeepsDone
<1> QED
  BY <1>2, TypeCorrect, FitsCorrect, PTL DEF Safety, DoneStaysDone
=============================================================================
