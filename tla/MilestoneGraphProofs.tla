------------------------ MODULE MilestoneGraphProofs ------------------------
(***************************************************************************)
(* Theorems about the milestone graph under the orchestrator, for any      *)
(* number of workers and operators: its ordinals, the order in which it is *)
(* built, the spacing of consolidations and the growth of the graph.       *)
(***************************************************************************)
EXTENDS OrchestratorProofs

USE DEF projectVars, redisVars, poolVars, envVars, workerVars

-----------------------------------------------------------------------------
(* What one step of a tick does, call by call                              *)

Table0(i) == ms[job[i].p]

\* The tick comes to an end, or goes on to the pause flag.
EffectStop(i) ==
  /\ pc'[i] \in {"return", "crashed", "pause_check"}
  /\ job'[i] = job[i] /\ ms'[job[i].p] = ms[job[i].p]

\* It decides on a state without writing a milestone.
EffectDecide(i) ==
  /\ pc'[i] = "move" /\ ms'[job[i].p] = ms[job[i].p]
  /\ \/ pc[i] = "entry" /\ job'[i].goal = "killed"
     \/ pc[i] = "pause_check" /\ job[i].snap = "queued" /\ job'[i].goal = "planning"
     \/ /\ pc[i] \in {"pick", "replan"} /\ Waiting(Table0(i)) = {}
        /\ job'[i].goal = "integration"
     \/ pc[i] = "replan" /\ job'[i].goal = "building"
     \/ pc[i] = "integrate" /\ job'[i].goal \in {"done", "blocked"}

\* It enters the handler of the state it was handed.
EffectEnter(i) ==
  /\ pc[i] = "pause_check" /\ job[i].snap # "queued"
  /\ pc'[i] = HandlerOf(job[i].snap) /\ job'[i] = job[i]
  /\ ms'[job[i].p] = ms[job[i].p]

\* It stores a plan.
EffectPlan(i) ==
  /\ pc[i] = "plan" /\ pc'[i] = "move"
  /\ job'[i].goal = (IF RequireApproval THEN "awaiting_approval" ELSE "building")
  /\ Rows(Table0(i)) = {}
  /\ \E n \in 1 .. MaxPlan :
       \E new \in Placements(Table0(i), n), notes \in [0 .. n - 1 -> CrewNote] :
         ms'[job[i].p] = create_many(Table0(i), new, notes)

\* It reclaims orphans and looks at the scope.
EffectReclaim(i) ==
  /\ pc[i] = "reclaim"
  /\ ms'[job[i].p] = requeue_stale_building(Table0(i))
  /\ \/ pc'[i] = "move" /\ job'[i].goal = "blocked"
     \/ pc'[i] = "pick" /\ job'[i] = job[i] /\ ~PastScope(job[i].p)

\* It picks a milestone.
EffectPick(i) ==
  /\ pc[i] = "pick" /\ pc'[i] = "cap"
  /\ next_pending(Table0(i), job'[i].m)
  /\ job'[i].retry = Table0(i)[job'[i].m].retry_count
  /\ ms'[job[i].p] = ms[job[i].p]

\* It asks for the milestone's budget.
EffectCap(i) ==
  /\ pc[i] = "cap" /\ pc'[i] \in {"start", "trip"} /\ job'[i] = job[i]
  /\ ms'[job[i].p] = ms[job[i].p]

\* It begins an attempt, or gives it up before it counts.
EffectBegin(i) ==
  /\ \/ /\ pc[i] = "start" /\ pc'[i] = "crew"
        /\ ms'[job[i].p] = update_state(Table0(i), job[i].m, "building")
     \/ /\ pc[i] = "unbuild" /\ pc'[i] = "return"
        /\ ms'[job[i].p] = update_state(Table0(i), job[i].m, "pending")
  /\ job'[i] = job[i]

\* A crew runs on the milestone.
EffectCrew(i) ==
  /\ pc[i] = "crew" /\ pc'[i] \in {"success", "failure", "unbuild", "crashed"}
  /\ job'[i] = job[i]
  /\ \E hot, over \in BOOLEAN : ms'[job[i].p] = charge(Table0(i), job[i].m, hot, over)

\* It records an attempt.
EffectRecord(i) ==
  /\ pc'[i] = "move"
  /\ \/ /\ pc[i] \in {"trip", "failure"}
        /\ ms'[job[i].p] = record_attempt(Table0(i), job[i].m, FALSE)
        /\ job'[i].goal = AfterFailure(job[i].retry)
     \/ /\ pc[i] = "success"
        /\ ms'[job[i].p] = record_attempt(Table0(i), job[i].m, TRUE)
        /\ job'[i].goal = "replanning"

\* It keeps the consolidation cadence.
EffectConsolidate(i) ==
  /\ pc[i] = "consolidate" /\ pc'[i] = "replan" /\ job'[i] = job[i]
  /\ \/ /\ ms'[job[i].p] = ms[job[i].p]
        /\ ~should_insert_consolidation(Table0(i), ConsolidationEvery)
     \/ /\ should_insert_consolidation(Table0(i), ConsolidationEvery)
        /\ \E a \in MilestoneId :
             /\ last_done(Table0(i), a)
             /\ \E new \in Placements(Table0(i), 1) :
                  ms'[job[i].p] = insert_after(Table0(i), a, new)

\* It decides to split the next milestone, because of its history ...
EffectAutoSplit(i) ==
  /\ pc[i] = "replan" /\ pc'[i] = "split"
  /\ next_pending(Table0(i), job'[i].m) /\ AutoSplit(Table0(i)[job'[i].m])
  /\ job'[i].kids = 2
  /\ ms'[job[i].p] = ms[job[i].p]

\* ... or as the replanning crew replies.
EffectReply(i) ==
  /\ pc[i] = "replan"
  /\ \E m \in MilestoneId, over \in BOOLEAN :
       /\ next_pending(Table0(i), m)
       /\ Table0(i)[m].retry_count > 0
       /\ ms'[job[i].p] = [Table0(i) EXCEPT ![m].over = over]
       /\ \/ pc'[i] = "move" /\ job'[i].goal \in {"building", "blocked"}
          \/ pc'[i] = "amend" /\ job'[i].m = m
          \/ pc'[i] = "split" /\ job'[i].m = m /\ job'[i].kids \in 2 .. MaxChildren
          \/ pc'[i] = "crashed"

\* It writes the reply's amendment or the split.
EffectApply(i) ==
  /\ pc'[i] = "move" /\ job'[i].goal = "building"
  /\ \/ /\ pc[i] = "amend"
        /\ \E note \in Note, hot \in BOOLEAN :
             /\ note \in CrewNote \/ note = Table0(i)[job[i].m].note
             /\ ms'[job[i].p] = update_spec(Table0(i), job[i].m, note, hot)
     \/ /\ pc[i] = "split"
        /\ \E new \in Placements(Table0(i), job[i].kids),
              notes \in [0 .. job[i].kids - 1 -> CrewNote] :
             ms'[job[i].p] = replace_with(Table0(i), job[i].m, new, notes)

Effect(i) ==
  \/ EffectStop(i) \/ EffectDecide(i) \/ EffectEnter(i) \/ EffectPlan(i) \/ EffectReclaim(i)
  \/ EffectPick(i) \/ EffectCap(i) \/ EffectBegin(i) \/ EffectCrew(i) \/ EffectRecord(i)
  \/ EffectConsolidate(i) \/ EffectAutoSplit(i) \/ EffectReply(i) \/ EffectApply(i)

\* Writing one project's table is seen in that table.
LEMMA TableWritten ==
  ASSUME TypeOK, NEW p \in Project, NEW u, ms' = [ms EXCEPT ![p] = u]
  PROVE  ms'[p] = u
BY DEF TypeOK

\* Where Goto leads.
LEMMA GotoPlace ==
  ASSUME TypeOK, NEW i \in Worker, NEW label, Goto(i, label)
  PROVE  pc'[i] = label
BY DEF TypeOK, Goto

(***************************************************************************)
(* Every step of a tick has one of the effects above: the actions of Tick  *)
(* as seen from the worker's place, its job and its project's table.       *)
(***************************************************************************)
LEMMA TickEffects ==
  ASSUME TypeOK, Fits, NEW i \in Worker, TickStep(i) \/ CallRaises(i)
  PROVE  Effect(i)
<1> USE DEF Table0
<1> DEFINE j == job[i]
           p == job[i].p
           t == ms[p]
<1>0. j \in Job /\ p \in Project /\ j.m \in MilestoneId /\ t \in Table
  BY DEF TypeOK, Job
<1>1. CASE CheckKill(i)
  <2>1. CASE halted \/ ~killed[p]
    <3>1. UNCHANGED <<job, ms>> /\ pc'[i] \in {"return", "pause_check"}
      BY <1>1, <2>1, GotoPlace DEF CheckKill
    <3> QED
      BY <3>1 DEF Effect, EffectStop
  <2>2. CASE ~halted /\ killed[p]
    BY <1>1, <2>2, ToMoveFrame DEF CheckKill, Effect, EffectDecide
  <2> QED
    BY <2>1, <2>2
<1>2. CASE CheckPause(i)
  <2>1. CASE paused[p]
    BY <1>2, <2>1, GotoPlace DEF CheckPause, Effect, EffectStop
  <2>2. CASE ~paused[p] /\ j.snap = "queued"
    <3>1. pc'[i] = "move" /\ job'[i].goal = "planning" /\ ms' = ms /\ pc[i] = "pause_check"
      BY <1>0, <1>2, <2>2, GotoPlace DEF CheckPause, HandlerOf, TypeOK, Job
    <3> QED
      BY <2>2, <3>1 DEF Effect, EffectDecide
  <2>3. CASE ~paused[p] /\ j.snap # "queued"
    <3>1. pc'[i] = HandlerOf(j.snap) /\ ms' = ms /\ pc[i] = "pause_check"
      BY <1>2, <2>3, GotoPlace DEF CheckPause
    <3>2. job' = [job EXCEPT ![i] = [j EXCEPT !.goal = j.goal]]
      BY <1>0, <1>2, <2>3 DEF CheckPause, TypeOK, Job
    <3>3. [j EXCEPT !.goal = j.goal] = j
      BY <1>0 DEF Job
    <3>4. job'[i] = j
      BY <3>2, <3>3 DEF TypeOK
    <3> QED
      BY <2>3, <3>1, <3>4 DEF Effect, EffectEnter
  <2> QED
    BY <2>1, <2>2, <2>3
<1>3. ASSUME NEW n \in 1 .. MaxPlan, NEW notes \in [0 .. n - 1 -> CrewNotes],
             StorePlan(i, n, notes) PROVE Effect(i)
  <2>1. FreshIds(t, n) \in Placements(t, n)
    BY <1>3, FreshIdsPlaced DEF StorePlan
  <2>2. ms'[p] = create_many(t, FreshIds(t, n), notes)
    BY <1>0, <1>3, TableWritten DEF StorePlan
  <2>3. /\ pc[i] = "plan" /\ pc'[i] = "move" /\ Rows(t) = {}
        /\ job'[i].goal = (IF RequireApproval THEN "awaiting_approval" ELSE "building")
    BY <1>3, ToMoveFrame DEF StorePlan
  <2>4. notes \in [0 .. n - 1 -> CrewNote]
    BY SettingAssumption
  <2> QED
    BY <2>1, <2>2, <2>3, <2>4 DEF Effect, EffectPlan
<1>4. CASE PlanRefused(i) \/ Move(i) \/ ServiceRaises(i) \/ CallRaises(i)
  <2>1. UNCHANGED <<job, ms>> /\ pc'[i] \in {"return", "crashed"}
    BY <1>4, GotoPlace DEF PlanRefused, Move, ServiceRaises, CallRaises
  <2> QED
    BY <2>1 DEF Effect, EffectStop
<1>5. CASE Reclaim(i)
  <2>1. ms'[p] = requeue_stale_building(t) /\ pc[i] = "reclaim"
    BY <1>0, <1>5, TableWritten DEF Reclaim
  <2>2. \/ pc'[i] = "move" /\ job'[i].goal = "blocked"
        \/ pc'[i] = "pick" /\ job'[i] = job[i] /\ ~PastScope(job[i].p)
    BY <1>5, GotoPlace, ToMoveFrame DEF Reclaim
  <2> QED
    BY <2>1, <2>2 DEF Effect, EffectReclaim
<1>6. CASE NothingToBuild(i) \/ NothingToReplan(i)
  BY <1>6, ToMoveFrame DEF NothingToBuild, NothingToReplan, Effect, EffectDecide
<1>7. ASSUME NEW m \in MilestoneId, PickMilestone(i, m) PROVE Effect(i)
  <2>1. CASE dayOver
    BY <1>7, <2>1, GotoPlace DEF PickMilestone, Effect, EffectStop
  <2>2. CASE ~dayOver
    <3>1. /\ job'[i].m = m /\ job'[i].retry = t[m].retry_count /\ ms' = ms
          /\ pc[i] = "pick" /\ pc'[i] = "cap" /\ next_pending(t, m)
      BY <1>0, <1>7, <2>2, GotoPlace DEF PickMilestone, TypeOK, Job
    <3> QED
      BY <3>1 DEF Effect, EffectPick
  <2> QED
    BY <2>1, <2>2
<1>8. CASE CheckCap(i)
  BY <1>8, GotoPlace DEF CheckCap, Effect, EffectCap
<1>9. CASE RecordFailure(i)
  <2>1. ms' = [ms EXCEPT ![p] = record_attempt(t, j.m, FALSE)] /\ pc[i] \in {"trip", "failure"}
    BY <1>9 DEF RecordFailure
  <2>2. ms'[p] = record_attempt(t, j.m, FALSE)
    BY <1>0, <2>1 DEF TypeOK
  <2>3. pc'[i] = "move" /\ job'[i].goal = AfterFailure(j.retry)
    BY <1>9, ToMoveFrame DEF RecordFailure
  <2> QED
    BY <2>1, <2>2, <2>3 DEF Effect, EffectRecord
<1>rs. CASE RecordSuccess(i)
  <2>1. ms' = [ms EXCEPT ![p] = record_attempt(t, j.m, TRUE)] /\ pc[i] = "success"
    BY <1>rs DEF RecordSuccess
  <2>2. ms'[p] = record_attempt(t, j.m, TRUE)
    BY <1>0, <2>1 DEF TypeOK
  <2>3. pc'[i] = "move" /\ job'[i].goal = "replanning"
    BY <1>rs, ToMoveFrame DEF RecordSuccess
  <2> QED
    BY <2>1, <2>2, <2>3 DEF Effect, EffectRecord
<1>10. CASE StartBuild(i) \/ Unbuild(i)
  <2>1. \/ /\ pc[i] = "start" /\ pc'[i] = "crew"
           /\ ms'[p] = update_state(t, j.m, "building")
        \/ /\ pc[i] = "unbuild" /\ pc'[i] = "return"
           /\ ms'[p] = update_state(t, j.m, "pending")
    BY <1>0, <1>10, TableWritten, GotoPlace DEF StartBuild, Unbuild
  <2>2. job'[i] = j
    BY <1>10 DEF StartBuild, Unbuild
  <2> QED
    BY <2>1, <2>2 DEF Effect, EffectBegin
<1>11. ASSUME NEW hot \in BOOLEAN, NEW over \in BOOLEAN,
              \/ CrewSucceeds(i, hot, over) \/ CrewFails(i, hot, over)
              \/ CrewBudgetExceeded(i, hot, over) \/ CrewRaises(i, hot, over)
       PROVE  Effect(i)
  <2>1. CrewSpends(i, hot, over) /\ pc[i] = "crew"
    BY <1>11 DEF CrewSucceeds, CrewFails, CrewBudgetExceeded, CrewRaises
  <2>2. pc'[i] \in {"success", "failure", "unbuild", "crashed"}
    BY <1>11, GotoPlace DEF CrewSucceeds, CrewFails, CrewBudgetExceeded, CrewRaises
  <2>3. job'[i] = j /\ ms'[p] = charge(t, j.m, hot, over)
    BY <1>0, <2>1, TableWritten DEF CrewSpends
  <2> QED
    BY <2>1, <2>2, <2>3 DEF Effect, EffectCrew
<1>12. CASE Consolidate(i)
  <2>1. pc[i] = "consolidate" /\ pc'[i] = "replan" /\ job'[i] = j
    BY <1>12, GotoPlace DEF Consolidate
  <2>2. CASE should_insert_consolidation(t, ConsolidationEvery)
    <3>1. PICK a \in MilestoneId :
            last_done(t, a) /\ ms' = [ms EXCEPT ![p] = insert_after(t, a, FreshIds(t, 1))]
      BY <1>12, <2>2 DEF Consolidate
    <3>2. FreshIds(t, 1) \in Placements(t, 1)
      BY <1>12, <2>2, FreshIdsPlaced DEF Consolidate
    <3>3. ms'[p] = insert_after(t, a, FreshIds(t, 1))
      BY <1>0, <3>1, TableWritten
    <3> QED
      BY <2>1, <2>2, <3>1, <3>2, <3>3 DEF Effect, EffectConsolidate
  <2>3. CASE ~should_insert_consolidation(t, ConsolidationEvery)
    BY <1>12, <2>1, <2>3 DEF Consolidate, Effect, EffectConsolidate
  <2> QED
    BY <2>2, <2>3
<1>13. ASSUME NEW m \in MilestoneId, ReplanWithoutCrew(i, m) PROVE Effect(i)
  <2>1. pc[i] = "replan" /\ next_pending(t, m) /\ ms' = ms
    BY <1>13 DEF ReplanWithoutCrew
  <2>2. CASE ToMove(i, "building")
    BY <2>1, <2>2, ToMoveFrame DEF Effect, EffectDecide
  <2>3. CASE AutoSplit(t[m]) /\ ToSplit(i, m, 2, TRUE)
    <3>1. pc'[i] = "split" /\ job'[i].m = m /\ job'[i].kids = 2
      BY <1>0, <2>3, GotoPlace DEF ToSplit, TypeOK, Job
    <3> QED
      BY <2>1, <2>3, <3>1 DEF Effect, EffectAutoSplit
  <2> QED
    BY <1>13, <2>2, <2>3 DEF ReplanWithoutCrew
<1>14. ASSUME NEW m \in MilestoneId, NEW reply \in ReplyActions,
              NEW n \in 2 .. MaxChildren, NEW over \in BOOLEAN,
              CrewReplies(i, m, reply, n, over)
       PROVE  Effect(i)
  <2>1. pc[i] = "replan" /\ next_pending(t, m) /\ t[m].retry_count > 0
    BY <1>14 DEF CrewReplies
  <2>2. ms'[p] = [t EXCEPT ![m].over = over]
    BY <1>0, <1>14 DEF CrewReplies, TypeOK
  <2>3. \/ pc'[i] = "move" /\ job'[i].goal \in {"building", "blocked"}
        \/ pc'[i] = "amend" /\ job'[i].m = m
        \/ pc'[i] = "split" /\ job'[i].m = m /\ job'[i].kids \in 2 .. MaxChildren
        \/ pc'[i] = "crashed"
    <3>1. CASE ToMove(i, "building") \/ ToMove(i, "blocked")
      BY <3>1, ToMoveFrame
    <3>2. CASE Goto(i, "amend") /\ job' = [job EXCEPT ![i].m = m]
      BY <1>0, <3>2, GotoPlace DEF TypeOK, Job
    <3>3. CASE ToSplit(i, m, n, FALSE)
      <4>1. pc'[i] = "split" /\ job'[i].m = m /\ job'[i].kids = n
        BY <1>0, <3>3, GotoPlace DEF ToSplit, TypeOK, Job
      <4> QED
        BY <4>1
    <3>4. CASE Goto(i, "crashed")
      BY <3>4, GotoPlace
    <3> QED
      BY <1>14, <3>1, <3>2, <3>3, <3>4 DEF CrewReplies
  <2> QED
    BY <2>1, <2>2, <2>3 DEF Effect, EffectReply
<1>15. ASSUME NEW note \in AmendNotes(i), NEW hot \in BOOLEAN,
              AmendMilestone(i, note, hot) PROVE Effect(i)
  <2>1. ms'[p] = update_spec(t, j.m, note, hot)
    BY <1>0, <1>15, TableWritten DEF AmendMilestone
  <2>2. pc[i] = "amend" /\ pc'[i] = "move" /\ job'[i].goal = "building"
    BY <1>15, ToMoveFrame DEF AmendMilestone
  <2>3. note \in Note /\ (note \in CrewNote \/ note = t[j.m].note)
    BY AmendNotesType
  <2> QED
    BY <2>1, <2>2, <2>3 DEF Effect, EffectApply
<1>16. ASSUME NEW notes \in ChildNotes(i), SplitMilestone(i, notes) PROVE Effect(i)
  <2>1. notes \in [0 .. j.kids - 1 -> CrewNote]
    BY ChildNotesType
  <2>2. ms' = [ms EXCEPT ![p] = replace_with(t, j.m, FreshIds(t, j.kids), notes)]
    BY <1>16 DEF SplitMilestone
  <2>3. FreshIds(t, j.kids) \in Placements(t, j.kids)
    BY <1>16, FreshIdsPlaced DEF SplitMilestone
  <2>4. pc[i] = "split" /\ pc'[i] = "move" /\ job'[i].goal = "building"
    BY <1>16, ToMoveFrame DEF SplitMilestone
  <2>5. ms'[p] = replace_with(t, j.m, FreshIds(t, j.kids), notes)
    BY <1>0, <2>2, TableWritten
  <2> QED
    BY <2>1, <2>3, <2>4, <2>5 DEF Effect, EffectApply
<1>17. ASSUME NEW passed \in BOOLEAN, Integrate(i, passed) PROVE Effect(i)
  BY <1>17, ToMoveFrame DEF Integrate, Effect, EffectDecide
<1> QED
  BY <1>1, <1>2, <1>3, <1>4, <1>5, <1>6, <1>7, <1>8, <1>9, <1>10, <1>11, <1>12, <1>13,
     <1>14, <1>15, <1>16, <1>17, <1>rs DEF TickStep

-----------------------------------------------------------------------------
(* Who else touches a table, and what a tick leaves to the other workers   *)

\* The writers of a project's table.
LEMMA TableWriters ==
  ASSUME TypeOK, [Next]_vars, NEW p \in Project
  PROVE  \/ \E i \in Worker : (TickStep(i) \/ CallRaises(i)) /\ job[i].p = p
         \/ Restart /\ ms'[p] = requeue_stale_building(ms[p])
         \/ \E o \in Operator : ResumeReset(o, p) /\ ms'[p] = reset_retry_count(ms[p])
         \/ ms'[p] = ms[p]
<1>1. ASSUME NEW i \in Worker, TickStep(i) \/ CallRaises(i), job[i].p # p
      PROVE  ms'[p] = ms[p]
  BY <1>1, TickFramed DEF TickFrame
<1>2. ASSUME NEW i \in Worker, PoolStep(i) \/ BlockLost(i) PROVE UNCHANGED ms
  BY <1>2 DEF PoolStep, ClaimNext, CleanTick, BackOff, BlockCrashed, BlockLost
<1>3. ASSUME NEW o \in Operator, NEW q \in Project, ResumeReset(o, q)
      PROVE  \/ ResumeReset(o, p) /\ ms'[p] = reset_retry_count(ms[p])
             \/ ms'[p] = ms[p]
  BY <1>3 DEF ResumeReset, TypeOK
<1>4. ASSUME NEW o \in Operator, Command(o) PROVE UNCHANGED ms
  BY <1>4 DEF Command, ApproveRead, Pause, ResumeSignals, Abort, KillSwitch
<1>5. ASSUME NEW o \in Operator, NEW q \in Project,
             ApproveWrite(o, q) \/ ResumeRead(o, q) \/ ResumeWrite(o, q)
      PROVE  UNCHANGED ms
  BY <1>5 DEF ApproveWrite, ResumeRead, ResumeWrite
<1>6. ASSUME \/ \E q \in Project : CooldownElapses(q)
             \/ RedisLost \/ DaySpent \/ DayRolls \/ UNCHANGED vars
      PROVE  UNCHANGED ms
  BY <1>6 DEF CooldownElapses, RedisLost, DaySpent, DayRolls, vars
<1>7. CASE Restart
  BY <1>7 DEF Restart
<1> QED
  BY <1>1, <1>2, <1>3, <1>4, <1>5, <1>6, <1>7 DEF Next, WorkerStep, HandlerStep

\* A step of one tick leaves the claims of the other workers, and the tables
\* of the projects they are in, as they are.
LEMMA TickOthers ==
  ASSUME TypeOK, ClaimsExclusive, NEW i \in Worker, TickStep(i) \/ CallRaises(i),
         NEW k \in Worker, k # i
  PROVE  /\ pc'[k] = pc[k] /\ job'[k] = job[k]
         /\ Busy(k) => job[k].p # job[i].p /\ ms'[job[k].p] = ms[job[k].p]
<1>1. pc'[k] = pc[k] /\ job'[k] = job[k] /\ Busy(i)
  BY TickFramed DEF TickFrame, Others, Busy
<1>2. ASSUME Busy(k) PROVE job[k].p # job[i].p
  BY <1>1, <1>2 DEF ClaimsExclusive
<1>3. job[k].p \in Project
  BY DEF TypeOK, Job
<1> QED
  BY <1>1, <1>2, <1>3, TickFramed DEF TickFrame

-----------------------------------------------------------------------------
(* Order: what a worker's place says about the milestones under            *)
(* construction in its project                                             *)

QuietSteps == {"pick", "cap", "trip", "start", "integrate"} \cup ReplanSteps

\* Where, and with what decision taken, nothing can be under construction.
Resting(i) ==
  \/ pc[i] \in QuietSteps
  \/ pc[i] = "move" /\ job[i].goal \in {"replanning", "integration", "done"}
  \/ Busy(i) /\ job[i].snap \in {"replanning", "integration"}

(***************************************************************************)
(* Between the reclaim and the start of an attempt nothing is under        *)
(* construction and the milestone picked is the first that waits; during   *)
(* the attempt nothing else is.                                            *)
(***************************************************************************)
Tracks(i) ==
  /\ Resting(i) => Quiet(Table0(i))
  /\ pc[i] \in {"cap", "trip", "start", "split"} => next_pending(Table0(i), job[i].m)
  /\ pc[i] \in {"crew", "success", "failure", "unbuild"} =>
       OnlyBuilding(Table0(i), job[i].m)
  /\ pc[i] = "split" => job[i].kids >= 2

\* Every step of a tick keeps its own worker on track.
LEMMA TickTracks ==
  ASSUME TypeOK, TypeOK', Fits, NEW i \in Worker, TickStep(i) \/ CallRaises(i), Tracks(i)
  PROVE  Tracks(i)'
<1> DEFINE j == job[i]
           p == job[i].p
           t == ms[p]
<1>0. /\ j \in Job /\ p \in Project /\ j.m \in MilestoneId /\ t \in Table
      /\ job'[i].p = p /\ job'[i].snap = j.snap /\ pc[i] # "idle" /\ JobFits(i) /\ RowFits(i)
  BY TickFramed DEF TypeOK, Job, TickFrame, Fits
<1> USE DEF Table0, QuietSteps, ReplanSteps, Busy
<1>a. ASSUME Quiet(ms'[p]),
             pc'[i] \notin {"cap", "trip", "start", "split", "crew", "success", "failure",
                            "unbuild"}
      PROVE  Tracks(i)'
  BY <1>0, <1>a DEF Tracks
<1>b. ASSUME pc'[i] \in {"return", "crashed", "pause_check", "plan", "reclaim", "move"},
             pc'[i] = "move" => job'[i].goal \notin {"replanning", "integration", "done"},
             Quiet(t) => Quiet(ms'[p])
      PROVE  Tracks(i)'
  <2>1. Resting(i)' => Resting(i)
    BY <1>0, <1>b DEF Resting
  <2> QED
    BY <1>0, <1>b, <2>1 DEF Tracks
<1>1. CASE EffectStop(i)
  BY <1>1, <1>b DEF EffectStop
<1>2. CASE EffectDecide(i)
  <2>1. CASE pc[i] \in {"pick", "replan", "integrate"}
    <3>1. Quiet(ms'[p]) /\ pc'[i] = "move"
      BY <1>2, <2>1 DEF EffectDecide, Tracks, Resting
    <3> QED
      BY <3>1, <1>a
  <2>2. CASE pc[i] \notin {"pick", "replan", "integrate"}
    BY <1>2, <2>2, <1>b DEF EffectDecide
  <2> QED
    BY <2>1, <2>2
<1>3. CASE EffectEnter(i)
  <2>1. j.snap \in ADVANCEABLE_STATES /\ j.snap # "queued"
    BY <1>0, <1>3 DEF EffectEnter, JobFits
  <2>2. CASE j.snap \in {"planning", "building"}
    <3>1. pc'[i] \in {"plan", "reclaim"} /\ ms'[p] = t
      BY <1>3, <2>2 DEF EffectEnter, HandlerOf
    <3> QED
      BY <3>1, <1>b
  <2>3. CASE j.snap \in {"replanning", "integration"}
    <3>1. pc'[i] \in {"consolidate", "integrate"} /\ ms'[p] = t
      BY <1>3, <2>3 DEF EffectEnter, HandlerOf
    <3>2. Quiet(t)
      BY <1>0, <2>3 DEF Tracks, Resting
    <3> QED
      BY <3>1, <3>2, <1>a
  <2> QED
    BY <2>1, <2>2, <2>3 DEF ADVANCEABLE_STATES
<1>4. CASE EffectPlan(i)
  <2>1. PICK n \in 1 .. MaxPlan :
          \E new \in Placements(t, n), notes \in [0 .. n - 1 -> CrewNote] :
            ms'[p] = create_many(t, new, notes)
    BY <1>4 DEF EffectPlan
  <2> PICK new \in Placements(t, n), notes \in [0 .. n - 1 -> CrewNote] :
            ms'[p] = create_many(t, new, notes)
    BY <2>1
  <2>2. Quiet(t)
    BY <1>4 DEF EffectPlan, Quiet, Rows
  <2>3. Quiet(ms'[p])
    <3>1. n \in Nat
      OBVIOUS
    <3> QED
      BY <1>0, <2>2, <3>1, InsertionsQuiet
  <2> QED
    BY <1>4, <2>3, <1>a DEF EffectPlan
<1>5. CASE EffectReclaim(i)
  <2>1. Quiet(ms'[p])
    BY <1>0, <1>5, UpdatesQuiet DEF EffectReclaim
  <2> QED
    BY <1>5, <2>1, <1>a DEF EffectReclaim
<1>6. CASE EffectPick(i)
  <2>1. Quiet(t)
    BY <1>6 DEF EffectPick, Tracks, Resting
  <2> QED
    BY <1>0, <1>6, <2>1 DEF EffectPick, Tracks
<1>7. CASE EffectCap(i)
  BY <1>0, <1>7 DEF EffectCap, Tracks, Resting
<1>8. CASE EffectBegin(i)
  <2>1. CASE pc[i] = "start"
    <3>1. /\ pc'[i] = "crew" /\ ms'[p] = update_state(t, j.m, "building")
          /\ job'[i] = j /\ j.snap = "building"
      BY <1>0, <1>8, <2>1 DEF EffectBegin, JobFits, BuildSteps
    <3>2. OnlyBuilding(t, j.m)
      BY <2>1 DEF Tracks, Resting, Quiet, OnlyBuilding
    <3>3. OnlyBuilding(ms'[p], j.m)
      BY <1>0, <3>1, <3>2, UpdatesQuiet
    <3> QED
      BY <3>1, <3>3 DEF Tracks, Resting
  <2>2. CASE pc[i] = "unbuild"
    <3>1. pc'[i] = "return" /\ ms'[p] = update_state(t, j.m, "pending")
      BY <1>8, <2>2 DEF EffectBegin
    <3>2. Quiet(ms'[p])
      BY <1>0, <2>2, <3>1, UpdatesQuiet DEF Tracks
    <3> QED
      BY <3>1, <3>2, <1>a
  <2> QED
    BY <1>8, <2>1, <2>2 DEF EffectBegin
<1>9. CASE EffectCrew(i)
  <2>1. SameStates(t, ms'[p])
    BY <1>0, <1>9, SideUpdatesKeepStates DEF EffectCrew
  <2>2. OnlyBuilding(ms'[p], j.m) /\ (Quiet(t) => Quiet(ms'[p]))
    BY <1>9, <2>1, SameStatesKeep DEF EffectCrew, Tracks
  <2>3. j.snap = "building" /\ job'[i] = j
    BY <1>0, <1>9 DEF EffectCrew, JobFits, BuildSteps
  <2> QED
    BY <1>9, <2>2, <2>3 DEF EffectCrew, Tracks, Resting
<1>10. CASE EffectRecord(i)
  <2>1. OnlyBuilding(t, j.m)
    BY <1>10 DEF EffectRecord, Tracks, Resting, Quiet, OnlyBuilding
  <2>2. \E success \in BOOLEAN : ms'[p] = record_attempt(t, j.m, success)
    BY <1>10 DEF EffectRecord
  <2>3. Quiet(ms'[p])
    BY <1>0, <2>1, <2>2, UpdatesQuiet
  <2> QED
    BY <1>10, <2>3, <1>a DEF EffectRecord
<1>11. CASE EffectConsolidate(i)
  <2>1. Quiet(t) /\ pc'[i] = "replan"
    BY <1>11 DEF EffectConsolidate, Tracks, Resting
  <2>2. Quiet(ms'[p])
    <3>1. \/ ms'[p] = t
          \/ \E a \in MilestoneId, new \in Placements(t, 1) : ms'[p] = insert_after(t, a, new)
      BY <1>11 DEF EffectConsolidate
    <3>2. 1 \in Nat
      OBVIOUS
    <3> QED
      BY <1>0, <2>1, <3>1, <3>2, InsertionsQuiet
  <2> QED
    BY <2>1, <2>2, <1>a
<1>12. CASE EffectAutoSplit(i)
  <2>1. Quiet(t)
    BY <1>12 DEF EffectAutoSplit, Tracks, Resting
  <2> QED
    BY <1>0, <1>12, <2>1 DEF EffectAutoSplit, Tracks
<1>13. CASE EffectReply(i)
  <2>1. Quiet(t)
    BY <1>13 DEF EffectReply, Tracks, Resting
  <2>2. PICK m \in MilestoneId :
          /\ next_pending(t, m)
          /\ \E over \in BOOLEAN : ms'[p] = [t EXCEPT ![m].over = over]
          /\ \/ pc'[i] \in {"move", "amend", "crashed"}
             \/ pc'[i] = "split" /\ job'[i].m = m /\ job'[i].kids \in 2 .. MaxChildren
    BY <1>13 DEF EffectReply
  <2>s. SameStates(t, ms'[p])
    <3>1. ASSUME NEW over, ms'[p] = [t EXCEPT ![m].over = over] PROVE SameStates(t, ms'[p])
      BY <1>0, <3>1, SideUpdatesKeepStates
    <3> QED
      BY <2>2, <3>1
  <2>3. Quiet(ms'[p]) /\ next_pending(ms'[p], m)
    BY <2>1, <2>2, <2>s, SameStatesKeep
  <2>4. CASE pc'[i] \in {"move", "amend", "crashed"}
    BY <2>3, <2>4, <1>a
  <2>5. CASE pc'[i] = "split" /\ job'[i].m = m /\ job'[i].kids \in 2 .. MaxChildren
    BY <1>0, <2>3, <2>5 DEF Tracks
  <2> QED
    BY <2>2, <2>4, <2>5
<1>14. CASE EffectApply(i)
  <2>1. Quiet(t) /\ pc'[i] = "move"
    BY <1>14 DEF EffectApply, Tracks, Resting
  <2>2. CASE pc[i] = "amend"
    <3>1. SameStates(t, ms'[p])
      BY <1>0, <1>14, <2>2, SideUpdatesKeepStates DEF EffectApply
    <3> QED
      BY <2>1, <3>1, <1>a, SameStatesKeep
  <2>3. CASE pc[i] = "split"
    <3>1. PICK new \in Placements(t, j.kids), notes \in [0 .. j.kids - 1 -> CrewNote] :
            ms'[p] = replace_with(t, j.m, new, notes)
      BY <1>14, <2>3 DEF EffectApply
    <3>2. j.m \in Rows(t) /\ j.kids \in Nat
      BY <1>0, <2>3 DEF RowFits, Rows, Job
    <3>3. Quiet(ms'[p])
      BY <1>0, <2>1, <3>1, <3>2, InsertionsQuiet
    <3> QED
      BY <2>1, <3>3, <1>a
  <2> QED
    BY <1>14, <2>2, <2>3 DEF EffectApply
<1> QED
  BY <1>1, <1>2, <1>3, <1>4, <1>5, <1>6, <1>7, <1>8, <1>9, <1>10, <1>11, <1>12, <1>13,
     <1>14, TickEffects DEF Effect

(***************************************************************************)
(* What a step of a tick does to the milestones under construction: it     *)
(* leaves none, or changes no milestone's state, or begins an attempt.     *)
(***************************************************************************)
LEMMA TickKinds ==
  ASSUME TypeOK, Fits, NEW i \in Worker, TickStep(i) \/ CallRaises(i), Tracks(i)
  PROVE  \/ Quiet(ms'[job[i].p])
         \/ SameStates(ms[job[i].p], ms'[job[i].p])
         \/ /\ pc[i] = "start" /\ next_pending(ms[job[i].p], job[i].m)
            /\ Quiet(ms[job[i].p])
            /\ ms'[job[i].p] = update_state(ms[job[i].p], job[i].m, "building")
<1> DEFINE j == job[i]
           p == job[i].p
           t == ms[p]
<1>0. j \in Job /\ p \in Project /\ j.m \in MilestoneId /\ t \in Table /\ RowFits(i)
  BY DEF TypeOK, Job, Fits
<1> USE DEF Table0, QuietSteps, ReplanSteps, Busy
<1>1. CASE EffectStop(i) \/ EffectDecide(i) \/ EffectEnter(i) \/ EffectPick(i) \/ EffectCap(i)
           \/ EffectAutoSplit(i)
  <2>1. ms'[p] = t
    BY <1>1 DEF EffectStop, EffectDecide, EffectEnter, EffectPick, EffectCap, EffectAutoSplit
  <2> QED
    BY <2>1 DEF SameStates
<1>2. CASE EffectPlan(i)
  <2>1. PICK n \in 1 .. MaxPlan :
          \E new \in Placements(t, n), notes \in [0 .. n - 1 -> CrewNote] :
            ms'[p] = create_many(t, new, notes)
    BY <1>2 DEF EffectPlan
  <2> PICK new \in Placements(t, n), notes \in [0 .. n - 1 -> CrewNote] :
            ms'[p] = create_many(t, new, notes)
    BY <2>1
  <2>2. Quiet(t) /\ n \in Nat
    BY <1>2 DEF EffectPlan, Quiet, Rows
  <2> QED
    BY <1>0, <2>2, InsertionsQuiet
<1>3. CASE EffectReclaim(i)
  BY <1>0, <1>3, UpdatesQuiet DEF EffectReclaim
<1>4. CASE EffectBegin(i)
  <2>1. CASE pc[i] = "start"
    BY <1>4, <2>1 DEF EffectBegin, Tracks, Resting
  <2>2. CASE pc[i] = "unbuild"
    BY <1>0, <1>4, <2>2, UpdatesQuiet DEF EffectBegin, Tracks
  <2> QED
    BY <1>4, <2>1, <2>2 DEF EffectBegin
<1>5. CASE EffectCrew(i)
  BY <1>0, <1>5, SideUpdatesKeepStates DEF EffectCrew
<1>6. CASE EffectRecord(i)
  <2>1. OnlyBuilding(t, j.m)
    BY <1>6 DEF EffectRecord, Tracks, Resting, Quiet, OnlyBuilding
  <2>2. \E success \in BOOLEAN : ms'[p] = record_attempt(t, j.m, success)
    BY <1>6 DEF EffectRecord
  <2> QED
    BY <1>0, <2>1, <2>2, UpdatesQuiet
<1>7. CASE EffectConsolidate(i)
  <2>1. Quiet(t)
    BY <1>7 DEF EffectConsolidate, Tracks, Resting
  <2>2. \/ ms'[p] = t
        \/ \E a \in MilestoneId, new \in Placements(t, 1) : ms'[p] = insert_after(t, a, new)
    BY <1>7 DEF EffectConsolidate
  <2>3. 1 \in Nat
    OBVIOUS
  <2> QED
    BY <1>0, <2>1, <2>2, <2>3, InsertionsQuiet
<1>8. CASE EffectReply(i)
  <2>1. PICK m \in MilestoneId :
          \E over \in BOOLEAN : ms'[p] = [t EXCEPT ![m].over = over]
    BY <1>8 DEF EffectReply
  <2>2. ASSUME NEW over, ms'[p] = [t EXCEPT ![m].over = over] PROVE SameStates(t, ms'[p])
    BY <1>0, <2>2, SideUpdatesKeepStates
  <2> QED
    BY <2>1, <2>2
<1>9. CASE EffectApply(i)
  <2>1. CASE pc[i] = "amend"
    BY <1>0, <1>9, <2>1, SideUpdatesKeepStates DEF EffectApply
  <2>2. CASE pc[i] = "split"
    <3>1. PICK new \in Placements(t, j.kids), notes \in [0 .. j.kids - 1 -> CrewNote] :
            ms'[p] = replace_with(t, j.m, new, notes)
      BY <1>9, <2>2 DEF EffectApply
    <3>2. j.m \in Rows(t) /\ j.kids \in Nat /\ Quiet(t)
      BY <1>0, <2>2 DEF RowFits, Rows, Job, Tracks, Resting
    <3> QED
      BY <1>0, <3>1, <3>2, InsertionsQuiet
  <2> QED
    BY <1>9, <2>1, <2>2 DEF EffectApply
<1> QED
  BY <1>1, <1>2, <1>3, <1>4, <1>5, <1>6, <1>7, <1>8, <1>9, TickEffects DEF Effect

\* A step of a tick keeps its project's milestones in order.
LEMMA TickInOrder ==
  ASSUME TypeOK, Fits, NEW i \in Worker, TickStep(i) \/ CallRaises(i), Tracks(i),
         InOrder(ms[job[i].p])
  PROVE  InOrder(ms'[job[i].p])
<1>1. ms[job[i].p] \in Table /\ job[i].m \in MilestoneId
  BY DEF TypeOK, Job
<1> QED
  BY <1>1, TickKinds, QuietInOrder, SameStatesKeep, BeginInOrder

(***************************************************************************)
(* Only a plan, a consolidation and a split add or move rows.              *)
(***************************************************************************)
LEMMA TickRows ==
  ASSUME TypeOK, Fits, NEW i \in Worker, TickStep(i) \/ CallRaises(i)
  PROVE  \/ EffectPlan(i) \/ EffectConsolidate(i) \/ (EffectApply(i) /\ pc[i] = "split")
         \/ SameRows(ms[job[i].p], ms'[job[i].p])
<1> DEFINE j == job[i]
           p == job[i].p
           t == ms[p]
<1>0. /\ j \in Job /\ p \in Project /\ j.m \in MilestoneId /\ t \in Table /\ RowFits(i)
  BY DEF TypeOK, Job, Fits
<1> USE DEF Table0
<1>1. CASE EffectStop(i) \/ EffectDecide(i) \/ EffectEnter(i) \/ EffectPick(i) \/ EffectCap(i)
           \/ EffectAutoSplit(i)
  <2>1. ms'[p] = t
    BY <1>1 DEF EffectStop, EffectDecide, EffectEnter, EffectPick, EffectCap, EffectAutoSplit
  <2> QED
    BY <2>1 DEF SameRows
<1>2. CASE EffectReclaim(i)
  BY <1>0, <1>2, RowUpdatesKeepRows DEF EffectReclaim
<1>3. CASE EffectBegin(i)
  <2>1. t[j.m].state # "none" /\ \E s : s # "none" /\ ms'[p] = update_state(t, j.m, s)
    BY <1>0, <1>3 DEF EffectBegin, RowFits
  <2> QED
    BY <1>0, <2>1, RowUpdatesKeepRows
<1>4. CASE EffectRecord(i)
  <2>1. /\ t[j.m].state # "none"
        /\ \E success \in BOOLEAN : ms'[p] = record_attempt(t, j.m, success)
    BY <1>0, <1>4 DEF EffectRecord, RowFits
  <2> QED
    BY <1>0, <2>1, RowUpdatesKeepRows
<1>5. CASE EffectCrew(i)
  BY <1>0, <1>5, RowUpdatesKeepRows DEF EffectCrew
<1>6. CASE EffectReply(i)
  <2>1. PICK m \in MilestoneId :
          \E over \in BOOLEAN : ms'[p] = [t EXCEPT ![m].over = over]
    BY <1>6 DEF EffectReply
  <2>2. ASSUME NEW over, ms'[p] = [t EXCEPT ![m].over = over] PROVE SameRows(t, ms'[p])
    <3>1. SameStates(t, ms'[p])
      BY <1>0, <2>2, SideUpdatesKeepStates
    <3> QED
      BY <3>1, SameStatesKeep
  <2> QED
    BY <2>1, <2>2
<1>7. CASE EffectApply(i) /\ pc[i] # "split"
  <2>1. \E note, hot : ms'[p] = update_spec(t, j.m, note, hot)
    BY <1>7 DEF EffectApply
  <2> QED
    BY <1>0, <2>1, RowUpdatesKeepRows
<1>8. CASE EffectPlan(i) \/ EffectConsolidate(i) \/ (EffectApply(i) /\ pc[i] = "split")
  BY <1>8
<1>9. Effect(i)
  BY TickEffects
<1> QED
  BY <1>1, <1>2, <1>3, <1>4, <1>5, <1>6, <1>7, <1>8, <1>9 DEF Effect

\* A step of a tick keeps its project's ordinals contiguous.
LEMMA TickContiguous ==
  ASSUME TypeOK, Fits, NEW i \in Worker, TickStep(i) \/ CallRaises(i), Tracks(i),
         Contiguous(ms[job[i].p])
  PROVE  Contiguous(ms'[job[i].p])
<1> DEFINE j == job[i]
           p == job[i].p
           t == ms[p]
<1>0. /\ j \in Job /\ p \in Project /\ j.m \in MilestoneId /\ t \in Table /\ RowFits(i)
      /\ j.kids \in Nat
  BY DEF TypeOK, Job, Fits
<1> USE DEF Table0
<1>1. CASE EffectPlan(i)
  <2>1. PICK n \in 1 .. MaxPlan :
          \E new \in Placements(t, n), notes \in [0 .. n - 1 -> CrewNote] :
            ms'[p] = create_many(t, new, notes)
    BY <1>1 DEF EffectPlan
  <2> PICK new \in Placements(t, n), notes \in [0 .. n - 1 -> CrewNote] :
            ms'[p] = create_many(t, new, notes)
    BY <2>1
  <2>2. n \in Nat /\ Rows(t) = {}
    BY <1>1 DEF EffectPlan
  <2> QED
    BY <1>0, <2>2, CreateManyContiguous
<1>2. CASE EffectConsolidate(i)
  <2>1. CASE ms'[p] = t
    BY <2>1
  <2>2. ASSUME NEW a \in MilestoneId, last_done(t, a), NEW new \in Placements(t, 1),
               ms'[p] = insert_after(t, a, new)
        PROVE  Contiguous(ms'[p])
    <3>1. a \in Rows(t)
      BY <2>2 DEF last_done, Rows
    <3> QED
      BY <1>0, <2>2, <3>1, InsertAfterContiguous
  <2> QED
    BY <1>2, <2>1, <2>2 DEF EffectConsolidate
<1>3. CASE EffectApply(i) /\ pc[i] = "split"
  <2>1. PICK new \in Placements(t, j.kids), notes \in [0 .. j.kids - 1 -> CrewNote] :
          ms'[p] = replace_with(t, j.m, new, notes)
    BY <1>3 DEF EffectApply
  <2>2. j.m \in Rows(t) /\ j.kids >= 1
    BY <1>0, <1>3 DEF RowFits, Rows, Tracks
  <2> QED
    BY <1>0, <2>1, <2>2, ReplaceWithContiguous
<1> QED
  BY <1>1, <1>2, <1>3, TickRows, SameRowsContiguous

\* A planned project stays planned, and a plan is one.
LEMMA TickStaysPlanned ==
  ASSUME TypeOK, Fits, NEW i \in Worker, TickStep(i) \/ CallRaises(i), Tracks(i),
         Rows(ms[job[i].p]) # {} \/ EffectPlan(i)
  PROVE  Rows(ms'[job[i].p]) # {}
<1> DEFINE j == job[i]
           p == job[i].p
           t == ms[p]
<1>0. /\ p \in Project /\ j.m \in MilestoneId /\ t \in Table /\ RowFits(i)
      /\ j.kids \in Nat
  BY DEF TypeOK, Job, Fits
<1> USE DEF Table0
<1>a. ASSUME NEW n \in Nat, n >= 1, NEW new \in Placements(t, n) PROVE DOMAIN new # {}
  <2>1. 0 \in 0 .. n - 1
    BY <1>a
  <2>2. \E m \in DOMAIN new : new[m] = 0
    BY <2>1, PlacementPositions
  <2> QED
    BY <2>2
<1>1. CASE EffectPlan(i)
  <2>1. PICK n \in 1 .. MaxPlan :
          \E new \in Placements(t, n), notes \in [0 .. n - 1 -> CrewNote] :
            ms'[p] = create_many(t, new, notes)
    BY <1>1 DEF EffectPlan
  <2> PICK new \in Placements(t, n), notes \in [0 .. n - 1 -> CrewNote] :
            ms'[p] = create_many(t, new, notes)
    BY <2>1
  <2>2. n \in Nat /\ n >= 1
    OBVIOUS
  <2>3. Rows(ms'[p]) = Rows(t) \cup DOMAIN new
    BY <1>0, <2>2, CreateManyRows
  <2> QED
    BY <1>a, <2>2, <2>3
<1>2. CASE EffectConsolidate(i)
  <2>1. CASE ms'[p] = t
    BY <1>2, <2>1 DEF EffectConsolidate, EffectPlan
  <2>2. ASSUME NEW a \in MilestoneId, NEW new \in Placements(t, 1),
               ms'[p] = insert_after(t, a, new)
        PROVE  Rows(ms'[p]) # {}
    <3>1. t \in Table
      BY <1>0
    <3>2. PICK c \in MilestoneId \ Rows(t) : BehindRow(t, a, c, ms'[p])
      BY <2>2, <3>1, InsertAfterRows
    <3>3. Rows(ms'[p]) = Rows(t) \cup {c}
      BY <3>2 DEF BehindRow
    <3> QED
      BY <3>3
  <2> QED
    BY <1>2, <2>1, <2>2 DEF EffectConsolidate
<1>3. CASE EffectApply(i) /\ pc[i] = "split"
  <2>1. PICK new \in Placements(t, j.kids), notes \in [0 .. j.kids - 1 -> CrewNote] :
          ms'[p] = replace_with(t, j.m, new, notes)
    BY <1>3 DEF EffectApply
  <2>2. j.m \in Rows(t) /\ j.kids >= 1
    BY <1>0, <1>3 DEF RowFits, Rows, Tracks
  <2>3. Rows(ms'[p]) = (Rows(t) \ {j.m}) \cup DOMAIN new
    BY <1>0, <2>1, <2>2, ReplaceWithRows
  <2> QED
    BY <1>0, <1>a, <2>2, <2>3
<1>4. CASE SameRows(t, ms'[p]) /\ ~EffectPlan(i)
  BY <1>4 DEF SameRows, Rows
<1> QED
  BY <1>1, <1>2, <1>3, <1>4, TickRows

-----------------------------------------------------------------------------
(* Order, as an invariant of the whole orchestrator                        *)

\* The writers of a project's state.
LEMMA StateWrites ==
  ASSUME TypeOK, [Next]_vars, NEW p \in Project
  PROVE  \/ state'[p] = state[p]
         \/ \E o \in Operator :
              /\ ApproveWrite(o, p) \/ ResumeWrite(o, p)
              /\ state'[p] \in {"building", "planning"}
              /\ UNCHANGED <<pc, job, ms>>
         \/ \E i \in Worker :
              /\ Move(i) /\ job[i].p = p /\ state'[p] = job[i].goal
              /\ pc[i] = "move" /\ pc'[i] = "return" /\ UNCHANGED <<job, ms>>
              /\ \A k \in Others(i) : pc'[k] = pc[k]
         \/ \E i \in Worker :
              /\ BlockCrashed(i) /\ job[i].p = p /\ state'[p] = "blocked"
              /\ pc[i] = "crashed" /\ pc'[i] = "idle" /\ UNCHANGED ms
              /\ \A k \in Others(i) : pc'[k] = pc[k] /\ job'[k] = job[k]
<1>1. ASSUME NEW i \in Worker, Move(i), state'[p] # state[p]
      PROVE  /\ job[i].p = p /\ state'[p] = job[i].goal
             /\ pc[i] = "move" /\ pc'[i] = "return" /\ UNCHANGED <<job, ms>>
             /\ \A k \in Others(i) : pc'[k] = pc[k]
  BY <1>1 DEF Move, Goto, TypeOK, Others
<1>2. ASSUME NEW i \in Worker, BlockCrashed(i), state'[p] # state[p]
      PROVE  /\ job[i].p = p /\ state'[p] = "blocked"
             /\ pc[i] = "crashed" /\ pc'[i] = "idle" /\ UNCHANGED ms
             /\ \A k \in Others(i) : pc'[k] = pc[k] /\ job'[k] = job[k]
  BY <1>2, ReleaseFrame DEF BlockCrashed, TypeOK
<1>3. ASSUME NEW o \in Operator, NEW q \in Project, ApproveWrite(o, q) \/ ResumeWrite(o, q),
             state'[p] # state[p]
      PROVE  /\ ApproveWrite(o, p) \/ ResumeWrite(o, p)
             /\ state'[p] \in {"building", "planning"}
             /\ UNCHANGED <<pc, job, ms>>
  <2>1. q = p
    BY <1>3 DEF ApproveWrite, ResumeWrite, TypeOK
  <2>2. state'[p] \in {"building", "planning"} /\ UNCHANGED <<pc, job, ms>>
    BY <1>3, <2>1 DEF ApproveWrite, ResumeWrite, TypeOK
  <2> QED
    BY <1>3, <2>1, <2>2
<1> QED
  BY <1>1, <1>2, <1>3, StateWriters

\* While a tick runs, its project is in the state it was claimed in or in one
\* that only an operator writes.
Loose(i) ==
  pc[i] \notin {"idle", "return"} =>
    state[job[i].p] \in {job[i].snap, "building", "planning"}

\* A project whose build step is over has nothing under construction.
SettledQuiet(p) ==
  state[p] \in {"replanning", "integration", "done"} => Quiet(ms[p])

Orderly ==
  /\ \A i \in Worker : Tracks(i) /\ Loose(i)
  /\ \A p \in Project : Contiguous(ms[p]) /\ InOrder(ms[p]) /\ SettledQuiet(p)

\* Every step keeps the ticks' copies of the state as loose as they were.
LEMMA LooseStep ==
  ASSUME TypeOK, TypeOK', ClaimsExclusive, \A i \in Worker : Loose(i), [Next]_vars
  PROVE  \A k \in Worker : Loose(k)'
<1> SUFFICES ASSUME NEW k \in Worker, pc'[k] \notin {"idle", "return"}
             PROVE  state'[job'[k].p] \in {job'[k].snap, "building", "planning"}
  BY DEF Loose
<1> DEFINE p == job'[k].p
<1>0. p \in Project
  BY DEF TypeOK, Job
<1>1. state[p] \in {job'[k].snap, "building", "planning"}
  <2>1. ASSUME NEW i \in Worker, TickStep(i) \/ CallRaises(i)
        PROVE  state[p] \in {job'[k].snap, "building", "planning"}
    <3>1. TickFrame(i) /\ pc[i] \in TickSteps
      BY <2>1, TickFramed, TickFrom
    <3>2. CASE k = i
      BY <3>1, <3>2 DEF TickFrame, TickSteps, Loose
    <3>3. CASE k # i
      BY <3>1, <3>3 DEF TickFrame, Others, Loose
    <3> QED
      BY <3>2, <3>3
  <2>2. ASSUME NEW i \in Worker, NEW q \in Project, ClaimNext(i, q)
        PROVE  state[p] \in {job'[k].snap, "building", "planning"}
    BY <2>2, ClaimFrame DEF Others, Loose
  <2>3. ASSUME NEW i \in Worker, Release(i)
        PROVE  state[p] \in {job'[k].snap, "building", "planning"}
    BY <2>3, ReleaseFrame DEF Others, Loose
  <2>4. ~Restart
    BY DEF Restart
  <2>5. ASSUME UNCHANGED <<pc, job, claimed>>
        PROVE  state[p] \in {job'[k].snap, "building", "planning"}
    BY <2>5 DEF Loose
  <2> QED
    BY <2>1, <2>2, <2>3, <2>4, <2>5, StepKinds
<1>2. CASE state'[p] = state[p]
  BY <1>1, <1>2
<1>3. CASE state'[p] \in {"building", "planning"}
  BY <1>3
<1>4. ASSUME NEW i \in Worker, job[i].p = p, pc[i] # "idle", pc'[i] \in {"idle", "return"},
             \A b \in Others(i) : pc'[b] = pc[b] /\ job'[b] = job[b]
      PROVE  FALSE
  <2>1. k \in Others(i)
    BY <1>4 DEF Others
  <2> QED
    BY <1>4, <2>1 DEF Others, ClaimsExclusive, Busy
<1> QED
  BY <1>0, <1>2, <1>3, <1>4, StateWrites DEF Others

\* Every step keeps every worker on track: its own steps by TickTracks, the
\* others because they are in other projects.
LEMMA TracksStep ==
  ASSUME TypeOK, TypeOK', ClaimsExclusive, Fits, Orderly, [Next]_vars
  PROVE  \A k \in Worker : Tracks(k)'
<1> USE DEF Table0
<1>0. \A k \in Worker : Tracks(k) /\ job[k].p \in Project
  BY DEF Orderly, TypeOK, Job
<1>i. ASSUME NEW k \in Worker, pc'[k] = "idle" PROVE Tracks(k)'
  BY <1>i DEF Tracks, Resting, Busy, QuietSteps, ReplanSteps
<1>s. ASSUME NEW k \in Worker, pc'[k] = pc[k], job'[k] = job[k],
             \/ pc[k] = "idle" \/ ms'[job[k].p] = ms[job[k].p]
             \/ SameStates(ms[job[k].p], ms'[job[k].p])
      PROVE  Tracks(k)'
  <2>1. CASE pc[k] = "idle"
    BY <1>i, <1>s, <2>1
  <2>2. CASE SameStates(ms[job[k].p], ms'[job[k].p])
    BY <1>0, <1>s, <2>2, SameStatesKeep DEF Tracks, Resting, Busy
  <2>3. CASE ms'[job[k].p] = ms[job[k].p]
    BY <1>0, <1>s, <2>3 DEF Tracks, Resting, Busy
  <2> QED
    BY <1>s, <2>1, <2>2, <2>3
<1>1. ASSUME NEW i \in Worker, TickStep(i) \/ CallRaises(i), NEW k \in Worker
      PROVE  Tracks(k)'
  <2>1. CASE k = i
    BY <1>0, <1>1, <2>1, TickTracks
  <2>2. CASE k # i
    BY <1>1, <1>s, <2>2, TickOthers DEF Busy
  <2> QED
    BY <2>1, <2>2
<1>2. CASE Restart
  BY <1>2, <1>i DEF Restart
<1>3. ASSUME ~Restart, \A i \in Worker : ~TickStep(i) /\ ~CallRaises(i), NEW k \in Worker
      PROVE  Tracks(k)'
  <2>1. ASSUME NEW p \in Project
        PROVE  ms'[p] = ms[p] \/ SameStates(ms[p], ms'[p])
    <3>1. ms[p] \in Table
      BY DEF TypeOK
    <3> QED
      BY <1>3, <3>1, TableWriters, SideUpdatesKeepStates, IdAssumption
  <2>2. ASSUME pc'[k] = pc[k], job'[k] = job[k] PROVE Tracks(k)'
    BY <1>0, <1>s, <2>1, <2>2
  <2>3. ASSUME NEW i \in Worker, NEW p \in Project, ClaimNext(i, p) PROVE Tracks(k)'
    <3>1. CASE k = i
      <4>0. ms' = ms
        BY <2>3 DEF ClaimNext
      <4>1. pc'[k] = "entry" /\ job'[k].p = p /\ job'[k].snap = state[p] /\ ms' = ms
        BY <2>3, <3>1, <4>0, ClaimFrame
      <4>2. SettledQuiet(p)
        BY DEF Orderly
      <4> QED
        BY <4>1, <4>2 DEF SettledQuiet, Tracks, Resting, Busy, QuietSteps, ReplanSteps
    <3>2. CASE k # i
      BY <2>2, <2>3, <3>2, ClaimFrame DEF Others
    <3> QED
      BY <3>1, <3>2
  <2>4. ASSUME NEW i \in Worker, Release(i) PROVE Tracks(k)'
    <3>1. CASE k = i
      BY <1>i, <2>4, <3>1, ReleaseFrame
    <3>2. CASE k # i
      BY <2>2, <2>4, <3>2, ReleaseFrame DEF Others
    <3> QED
      BY <3>1, <3>2
  <2> QED
    BY <1>3, <2>2, <2>3, <2>4, StepKinds
<1> QED
  BY <1>1, <1>2, <1>3

\* Every step leaves the projects whose build step is over quiet.
LEMMA SettledQuietStep ==
  ASSUME TypeOK, ClaimsExclusive, Fits, Orderly, [Next]_vars, NEW p \in Project
  PROVE  SettledQuiet(p)'
<1> SUFFICES ASSUME state'[p] \in {"replanning", "integration", "done"}
             PROVE  Quiet(ms'[p])
  BY DEF SettledQuiet
<1>1. ms[p] \in Table
  BY DEF TypeOK
<1>2. ASSUME state'[p] = state[p] PROVE Quiet(ms'[p])
  <2>1. Quiet(ms[p])
    BY <1>2 DEF Orderly, SettledQuiet
  <2>2. ASSUME NEW i \in Worker, TickStep(i) \/ CallRaises(i), job[i].p = p
        PROVE  Quiet(ms'[p])
    <3>1. pc[i] # "start"
      <4>1. pc[i] = "start" => job[i].snap = "building"
        BY DEF Fits, JobFits, BuildSteps
      <4>2. Loose(i)
        BY DEF Orderly
      <4> QED
        BY <1>2, <2>2, <4>1, <4>2 DEF Loose
    <3>2. Tracks(i)
      BY DEF Orderly
    <3> QED
      BY <2>1, <2>2, <3>1, <3>2, TickKinds, SameStatesKeep
  <2>3. SameStates(ms[p], reset_retry_count(ms[p])) /\ Quiet(requeue_stale_building(ms[p]))
    BY <1>1, SideUpdatesKeepStates, UpdatesQuiet, IdAssumption
  <2> QED
    BY <2>1, <2>2, <2>3, TableWriters, SameStatesKeep
<1>3. ASSUME NEW i \in Worker, job[i].p = p, state'[p] = job[i].goal, pc[i] = "move",
             UNCHANGED ms
      PROVE  Quiet(ms'[p])
  BY <1>3 DEF Orderly, Tracks, Resting, Table0
<1> QED
  BY <1>2, <1>3, StateWrites

\* Every step keeps the milestones of a project contiguous and in order.
LEMMA TablesOrderlyStep ==
  ASSUME TypeOK, Fits, Orderly, [Next]_vars, NEW p \in Project
  PROVE  Contiguous(ms'[p]) /\ InOrder(ms'[p])
<1> DEFINE t == ms[p]
<1>0. t \in Table /\ Contiguous(t) /\ InOrder(t)
  BY DEF TypeOK, Orderly
<1>1. ASSUME NEW i \in Worker, TickStep(i) \/ CallRaises(i), job[i].p = p
      PROVE  Contiguous(ms'[p]) /\ InOrder(ms'[p])
  <2>1. Tracks(i)
    BY DEF Orderly
  <2> QED
    BY <1>0, <1>1, <2>1, TickContiguous, TickInOrder
<1>2. /\ Contiguous(requeue_stale_building(t)) /\ InOrder(requeue_stale_building(t))
      /\ Contiguous(reset_retry_count(t)) /\ InOrder(reset_retry_count(t))
  <2>1. /\ SameRows(t, requeue_stale_building(t)) /\ Quiet(requeue_stale_building(t))
        /\ SameStates(t, reset_retry_count(t))
    BY <1>0, RowUpdatesKeepRows, UpdatesQuiet, SideUpdatesKeepStates, IdAssumption
  <2> QED
    BY <1>0, <2>1, SameRowsContiguous, SameStatesKeep, QuietInOrder
<1> QED
  BY <1>0, <1>1, <1>2, TableWriters

\* Every step keeps the orchestrator orderly.
LEMMA OrderlyStep ==
  TypeOK /\ TypeOK' /\ ClaimsExclusive /\ Fits /\ Orderly /\ [Next]_vars => Orderly'
<1> SUFFICES ASSUME TypeOK, TypeOK', ClaimsExclusive, Fits, Orderly, [Next]_vars
             PROVE  Orderly'
  OBVIOUS
<1>1. \A i \in Worker : Loose(i)
  BY DEF Orderly
<1>2. \A k \in Worker : Tracks(k)' /\ Loose(k)'
  BY <1>1, LooseStep, TracksStep
<1>3. ASSUME NEW p \in Project
      PROVE  Contiguous(ms'[p]) /\ InOrder(ms'[p]) /\ SettledQuiet(p)'
  BY SettledQuietStep, TablesOrderlyStep
<1> QED
  BY <1>2, <1>3 DEF Orderly

\* The orchestrator starts orderly.
LEMMA InitOrderly == Init => Orderly
<1> SUFFICES ASSUME Init PROVE Orderly
  OBVIOUS
<1>1. \A p \in Project : Contiguous(ms[p]) /\ InOrder(ms[p]) /\ SettledQuiet(p)
  BY DEF Init, NoRow, Rows, Contiguous, InOrder, SettledQuiet
<1>2. \A i \in Worker : Tracks(i) /\ Loose(i)
  BY DEF Init, Tracks, Loose, Resting, Busy, QuietSteps, ReplanSteps
<1> QED
  BY <1>1, <1>2 DEF Orderly

(***************************************************************************)
(* Order holds always: a worker's place tells what may be under            *)
(* construction, whatever commands, crashes and the other workers do.      *)
(***************************************************************************)
THEOREM OrderlyCorrect == Safety => []Orderly
BY InitOrderly, OrderlyStep, TypeCorrect, ClaimsCorrect, FitsCorrect, PTL DEF Safety

(***************************************************************************)
(* The ordinals of a project's milestones stay 0, 1, 2, ...: every split   *)
(* and insertion moves the rows behind it by exactly the room it takes.    *)
(***************************************************************************)
THEOREM OrdinalsContiguousCorrect == Safety => []OrdinalsContiguous
<1>1. Orderly => OrdinalsContiguous
  BY DEF Orderly, Contiguous, OrdinalsContiguous
<1> QED
  BY <1>1, OrderlyCorrect, PTL

(***************************************************************************)
(* A milestone is under construction only when those before it are done.   *)
(***************************************************************************)
THEOREM BuildsInOrderCorrect == Safety => []BuildsInOrder
<1>1. Orderly => BuildsInOrder
  BY DEF Orderly, InOrder, BuildsInOrder
<1> QED
  BY <1>1, OrderlyCorrect, PTL

-----------------------------------------------------------------------------
(* The spacing of consolidations                                           *)

\* What an update of rows that finishes none leaves as it was.
Unfinished(t, u) ==
  SameMarks(t, u) /\ \A m \in MilestoneId : u[m].state = "done" => t[m].state = "done"

\* A project's rows are finitely many, those finished come first, and what the
\* cadence inserted is spaced and was inserted in turn.
InStride(t) ==
  /\ IsFiniteSet(Rows(t)) /\ FinishedFirst(t)
  /\ Spaced(t, ConsolidationEvery) /\ InTurn(t)

\* Such an update keeps a project in stride.
LEMMA UnfinishedInStride ==
  ASSUME NEW t, NEW u, Unfinished(t, u), InStride(t)
  PROVE  InStride(u)
<1>1. Rows(u) = Rows(t)
  BY DEF Unfinished, SameMarks, SameRows, Rows
<1>2. FinishedFirst(u)
  BY SameFinishedFirst DEF Unfinished, SameMarks, InStride
<1>3. Spaced(u, ConsolidationEvery) /\ InTurn(u)
  BY <1>1, SameMarksPast, PastKeptSpaced, SettingAssumption DEF Unfinished, InStride
<1> QED
  BY <1>1, <1>2, <1>3 DEF InStride

\* The updates that finish no row and leave the notes alone.
LEMMA UpdatesUnfinished ==
  ASSUME NEW t \in Table, NEW a \in MilestoneId
  PROVE  /\ t[a].state \notin {"none", "done"} =>
              \A s : s \notin {"none", "done"} => Unfinished(t, update_state(t, a, s))
         /\ \A hot, over : Unfinished(t, charge(t, a, hot, over))
         /\ \A over : Unfinished(t, [t EXCEPT ![a].over = over])
         /\ Unfinished(t, requeue_stale_building(t))
         /\ Unfinished(t, reset_retry_count(t))
<1>1. ASSUME NEW over, NEW u, u = [t EXCEPT ![a].over = over] PROVE Unfinished(t, u)
  <2>0. \A m \in MilestoneId : t[m] \in Row
    BY RowFacts
  <2>1. SameStates(t, u)
    BY <1>1, SideUpdatesKeepStates
  <2>2. \A m \in MilestoneId : u[m].note = t[m].note
    BY <1>1, <2>0 DEF Table, Row
  <2> QED
    BY <2>1, <2>2, SameStatesKeep DEF SameStates, Unfinished, SameMarks, KeepsDone
<1> QED
  BY <1>1, UpdatesKeepMarks, UpdatesEase DEF Unfinished, Eased

\* An amendment of an unfinished row keeps a project in stride.
LEMMA AmendInStride ==
  ASSUME NEW t \in Table, InStride(t), NEW a \in Rows(t), t[a].state # "done",
         NEW note, note \in CrewNote \/ note = t[a].note, NEW hot
  PROVE  InStride(update_spec(t, a, note, hot))
<1> SUFFICES ASSUME NEW u, u = update_spec(t, a, note, hot) PROVE InStride(u)
  OBVIOUS
<1>1. a \in MilestoneId /\ \A m \in MilestoneId : t[m] \in Row
  BY RowFacts DEF Rows
<1>2. SameRows(t, u) /\ KeepsDone(t, u)
  BY <1>1, RowUpdatesKeepRows, RowUpdatesKeepDone
<1>3. Rows(u) = Rows(t)
  BY <1>2 DEF SameRows, Rows
<1>4. FinishedFirst(u)
  <2>1. \A m \in MilestoneId : u[m].state = t[m].state
    BY <1>1 DEF update_spec, Table, Row
  <2> QED
    BY <1>2, <2>1, SameFinishedFirst DEF InStride
<1>5. PastKept(t, u)
  BY AmendKeepsPast DEF InStride
<1>6. Spaced(u, ConsolidationEvery) /\ InTurn(u)
  BY <1>3, <1>5, PastKeptSpaced, SettingAssumption DEF InStride
<1> QED
  BY <1>3, <1>4, <1>6 DEF InStride

(***************************************************************************)
(* Every step of a tick keeps its project in stride: a milestone is        *)
(* finished in its turn, and only the cadence inserts a consolidation.     *)
(***************************************************************************)
LEMMA TickInStride ==
  ASSUME TypeOK, Fits, NEW i \in Worker, TickStep(i) \/ CallRaises(i), Tracks(i),
         Contiguous(ms[job[i].p]), InOrder(ms[job[i].p]), InStride(ms[job[i].p])
  PROVE  InStride(ms'[job[i].p])
<1> DEFINE j == job[i]
           p == job[i].p
           t == ms[p]
<1>0. /\ j \in Job /\ p \in Project /\ j.m \in MilestoneId /\ t \in Table /\ RowFits(i)
      /\ ConsolidationEvery \in Nat
  BY SettingAssumption DEF TypeOK, Job, Fits
<1> USE DEF Table0
<1>1. CASE EffectStop(i) \/ EffectDecide(i) \/ EffectEnter(i) \/ EffectPick(i) \/ EffectCap(i)
           \/ EffectAutoSplit(i)
  BY <1>1 DEF EffectStop, EffectDecide, EffectEnter, EffectPick, EffectCap, EffectAutoSplit
<1>2. CASE EffectPlan(i)
  <2>1. PICK n \in 1 .. MaxPlan :
          \E new \in Placements(t, n), notes \in [0 .. n - 1 -> CrewNote] :
            ms'[p] = create_many(t, new, notes)
    BY <1>2 DEF EffectPlan
  <2> PICK new \in Placements(t, n), notes \in [0 .. n - 1 -> CrewNote] :
            ms'[p] = create_many(t, new, notes)
    BY <2>1
  <2>2. Rows(t) = {} /\ n \in Nat
    BY <1>2 DEF EffectPlan
  <2>3. /\ Spaced(ms'[p], ConsolidationEvery) /\ InTurn(ms'[p])
        /\ FinishedFirst(ms'[p])
    BY <1>0, <2>2, PlanSpaced, PlanFinishedFirst
  <2>4. IsFiniteSet(Rows(ms'[p]))
    BY <1>0, <2>2, InsertionsCount DEF InStride
  <2> QED
    BY <2>3, <2>4 DEF InStride
<1>3. CASE EffectReclaim(i)
  BY <1>0, <1>3, UpdatesUnfinished, UnfinishedInStride DEF EffectReclaim
<1>4. CASE EffectBegin(i)
  <2>1. /\ t[j.m].state \notin {"none", "done"}
        /\ \E s : s \notin {"none", "done"} /\ ms'[p] = update_state(t, j.m, s)
    BY <1>0, <1>4 DEF EffectBegin, RowFits
  <2> QED
    BY <1>0, <2>1, UpdatesUnfinished, UnfinishedInStride
<1>5. CASE EffectCrew(i)
  BY <1>0, <1>5, UpdatesUnfinished, UnfinishedInStride DEF EffectCrew
<1>6. CASE EffectRecord(i)
  <2>1. t[j.m].state \notin {"none", "done"}
    BY <1>0, <1>6 DEF EffectRecord, RowFits
  <2>2. \/ ms'[p] = record_attempt(t, j.m, FALSE)
        \/ ms'[p] = record_attempt(t, j.m, TRUE) /\ t[j.m].state = "building"
    BY <1>0, <1>6 DEF EffectRecord, RowFits
  <2>3. SameMarks(t, ms'[p])
    <3>1. TRUE \in BOOLEAN /\ FALSE \in BOOLEAN
      OBVIOUS
    <3> QED
      BY <1>0, <2>1, <2>2, <3>1, UpdatesKeepMarks
  <2>4. FinishedFirst(ms'[p])
    <3>1. \/ Failed(t, j.m, ms'[p])
          \/ Finished(t, j.m, ms'[p]) /\ t[j.m].state = "building"
      BY <1>0, <2>2, AttemptRows
    <3> QED
      BY <1>0, <2>1, <2>3, <3>1, AttemptFinishedFirst DEF SameMarks, InStride
  <2>5. Rows(ms'[p]) = Rows(t)
    BY <2>3 DEF SameMarks, SameRows, Rows
  <2> QED
    BY <1>0, <2>3, <2>4, <2>5, SameMarksPast, PastKeptSpaced DEF InStride
<1>7. CASE EffectConsolidate(i)
  <2>1. CASE ms'[p] = t
    BY <2>1
  <2>2. ASSUME should_insert_consolidation(t, ConsolidationEvery),
               NEW a \in MilestoneId, last_done(t, a),
               NEW new \in Placements(t, 1), ms'[p] = insert_after(t, a, new)
        PROVE  InStride(ms'[p])
    <3>1. Spaced(ms'[p], ConsolidationEvery)
      BY <1>0, <2>2, ConsolidationSpaced DEF InStride
    <3>2. FinishedFirst(ms'[p])
      BY <1>0, <2>2, ConsolidationFinishedFirst DEF InStride
    <3>3. IsFiniteSet(Rows(ms'[p]))
      <4>1. 1 \in Nat
        OBVIOUS
      <4> QED
        BY <1>0, <2>2, <4>1, InsertionsCount DEF InStride
    <3>4. InTurn(ms'[p])
      BY <1>0, <2>2, ConsolidationInTurn DEF InStride, FinishedFirst
    <3> QED
      BY <3>1, <3>2, <3>3, <3>4 DEF InStride
  <2> QED
    BY <1>7, <2>1, <2>2 DEF EffectConsolidate
<1>8. CASE EffectReply(i)
  <2>1. PICK m \in MilestoneId :
          \E over \in BOOLEAN : ms'[p] = [t EXCEPT ![m].over = over]
    BY <1>8 DEF EffectReply
  <2>2. PICK over : ms'[p] = [t EXCEPT ![m].over = over]
    BY <2>1
  <2>3. Unfinished(t, ms'[p])
    <3>1. t \in Table
      BY <1>0
    <3>2. Unfinished(t, [t EXCEPT ![m].over = over])
      BY <3>1, UpdatesUnfinished
    <3> HIDE DEF t, p, j
    <3> QED
      BY <2>2, <3>2, Zenon
  <2> QED
    BY <2>3, UnfinishedInStride
<1>9. CASE EffectApply(i) /\ pc[i] # "split"
  <2>1. j.m \in Rows(t) /\ t[j.m].state # "done"
    BY <1>0, <1>9 DEF EffectApply, RowFits, Rows
  <2>2. \E note, hot : /\ note \in CrewNote \/ note = t[j.m].note
                       /\ ms'[p] = update_spec(t, j.m, note, hot)
    BY <1>9 DEF EffectApply
  <2> QED
    BY <1>0, <2>1, <2>2, AmendInStride
<1>10. CASE EffectApply(i) /\ pc[i] = "split"
  <2>1. PICK new \in Placements(t, j.kids), notes \in [0 .. j.kids - 1 -> CrewNote] :
          ms'[p] = replace_with(t, j.m, new, notes)
    BY <1>10 DEF EffectApply
  <2>2. /\ j.m \in Rows(t) /\ t[j.m].state # "done" /\ next_pending(t, j.m)
        /\ j.kids \in Nat /\ j.kids >= 1
    BY <1>0, <1>10 DEF RowFits, Rows, Tracks, Job
  <2>3. IsFiniteSet(Rows(ms'[p]))
    BY <1>0, <2>1, <2>2, InsertionsCount DEF InStride
  <2>4. FinishedFirst(ms'[p])
    BY <1>0, <2>1, <2>2, SplitFinishedFirst DEF InStride
  <2>5. PastKept(t, ms'[p])
    BY <1>0, <2>1, <2>2, SplitKeepsPast DEF InStride
  <2> QED
    BY <1>0, <2>3, <2>4, <2>5, PastKeptSpaced DEF InStride
<1> QED
  BY <1>1, <1>2, <1>3, <1>4, <1>5, <1>6, <1>7, <1>8, <1>9, <1>10, TickEffects DEF Effect

Strides == \A p \in Project : InStride(ms[p])

\* Every step of the orchestrator keeps every project in stride.
LEMMA StridesStep ==
  TypeOK /\ Fits /\ Orderly /\ Strides /\ [Next]_vars => Strides'
<1> SUFFICES ASSUME TypeOK, Fits, Orderly, Strides, [Next]_vars, NEW p \in Project
             PROVE  InStride(ms'[p])
  BY DEF Strides
<1>1. ms[p] \in Table /\ InStride(ms[p])
  BY DEF TypeOK, Strides
<1>2. ASSUME NEW i \in Worker, TickStep(i) \/ CallRaises(i), job[i].p = p
      PROVE  InStride(ms'[p])
  BY <1>1, <1>2, TickInStride DEF Orderly
<1>3. /\ InStride(requeue_stale_building(ms[p])) /\ InStride(reset_retry_count(ms[p]))
  BY <1>1, UpdatesUnfinished, UnfinishedInStride, IdAssumption
<1> QED
  BY <1>1, <1>2, <1>3, TableWriters

\* An empty table is.
LEMMA InitStrides == Init => Strides
<1> SUFFICES ASSUME Init, NEW p \in Project PROVE InStride(ms[p])
  BY DEF Strides
<1>1. Rows(ms[p]) = {}
  BY DEF Init, NoRow, Rows
<1> QED
  BY <1>1, FS_EmptySet DEF InStride, FinishedFirst, Spaced, InTurn

\* So the rows of every project are finite in number, and finished in order.
THEOREM StridesCorrect == Safety => []Strides
BY InitStrides, StridesStep, TypeCorrect, FitsCorrect, OrderlyCorrect, PTL DEF Safety

(***************************************************************************)
(* Whatever fails, is split, amended or run twice, and whatever notes the  *)
(* crews write, the cadence keeps its distance: consolidation_every other  *)
(* milestones are finished between a consolidation it inserts and the one  *)
(* before, whoever wrote that.                                             *)
(***************************************************************************)
THEOREM ConsolidationsSpacedCorrect == Safety => []ConsolidationsSpaced
<1>1. Strides => ConsolidationsSpaced
  BY DEF Strides, InStride, Spaced, Inserter, Since, Earlier, ConsolidationsSpaced
<1> QED
  BY <1>1, StridesCorrect, PTL

-----------------------------------------------------------------------------
(* The growth of the graph                                                 *)

\* The size the cap, or the plan, allows.
Base == IF MaxPlan > MaxProjectMilestones THEN MaxPlan ELSE MaxProjectMilestones

Size(t) == Cardinality(Rows(t))

\* The bounds on the size are numbers.
LEMMA BaseFacts ==
  /\ Base \in Nat /\ MaxPlan \in Nat /\ MaxChildren \in Nat
  /\ MaxPlan <= Base /\ MaxProjectMilestones <= Base
<1>1. MaxPlan \in Nat /\ MaxProjectMilestones \in Nat /\ MaxChildren \in Nat
  BY SettingAssumption
<1> QED
  BY <1>1 DEF Base

\* A consolidation waits to be built.
Consolidating(t) == \E c \in Rows(t) : "consol" \in t[c].note /\ t[c].state # "done"

(***************************************************************************)
(* A graph beyond the cap has a next milestone that nobody has tried: it   *)
(* will not be split, and no tick begins it.  There is room for one more   *)
(* consolidation, unless one is waiting.                                   *)
(***************************************************************************)
Grown(t) ==
  \/ Size(t) <= Base
  \/ /\ Quiet(t) /\ FreshNext(t)
     /\ \/ Size(t) < Base + MaxChildren
        \/ Consolidating(t) /\ Size(t) <= Base + MaxChildren

\* A worker is past the scope guard only when its project is within the cap.
ScopedSteps ==
  {"pick", "cap", "trip", "start", "crew", "success", "failure", "unbuild", "amend", "split"}

Scoped(i) ==
  /\ pc[i] \in ScopedSteps => Size(Table0(i)) <= Base
  /\ pc[i] = "split" => job[i].kids \in 2 .. MaxChildren

InScope == (\A p \in Project : Grown(ms[p])) /\ (\A i \in Worker : Scoped(i))

\* Reclaiming finds nothing to do in a quiet table.
LEMMA QuietReclaim ==
  ASSUME NEW t \in Table, Quiet(t)
  PROVE  requeue_stale_building(t) = t
BY DEF Quiet, requeue_stale_building, Table

\* Reclaiming orphans and giving retries back let no graph grow.
LEMMA SweepsGrown ==
  ASSUME NEW t \in Table, Grown(t)
  PROVE  /\ Grown(requeue_stale_building(t)) /\ Grown(reset_retry_count(t))
         /\ Size(requeue_stale_building(t)) = Size(t)
         /\ Size(reset_retry_count(t)) = Size(t)
<1>0. MilestoneId # {} /\ \A m \in MilestoneId : t[m] \in Row
  BY IdAssumption, RowFacts
<1>1. /\ Rows(requeue_stale_building(t)) = Rows(t)
      /\ Rows(reset_retry_count(t)) = Rows(t)
  BY <1>0, RowUpdatesKeepRows DEF SameRows, Rows
<1>s. /\ Size(requeue_stale_building(t)) = Size(t)
      /\ Size(reset_retry_count(t)) = Size(t)
  BY <1>1 DEF Size
<1>2. CASE Size(t) <= Base
  BY <1>1, <1>2 DEF Grown, Size
<1>3. CASE Quiet(t) /\ FreshNext(t)
  <2>1. requeue_stale_building(t) = t
    BY <1>3, QuietReclaim
  <2> SUFFICES ASSUME NEW u, u = reset_retry_count(t) PROVE Grown(u)
    BY <1>s, <2>1
  <2>2. \A m \in MilestoneId : /\ u[m].state = t[m].state /\ u[m].ordinal = t[m].ordinal
                               /\ u[m].note = t[m].note /\ u[m].hot = t[m].hot
                               /\ u[m].state # "done" => u[m].retry_count = 0
    BY <1>0 DEF reset_retry_count, Row
  <2>3. Quiet(u)
    BY <1>3, <2>2 DEF Quiet
  <2>4. FreshNext(u)
    BY <1>3, <2>2 DEF FreshNext, next_pending, Waiting
  <2>5. Consolidating(t) => Consolidating(u)
    BY <2>2 DEF Consolidating, Rows
  <2> QED
    BY <1>1, <2>3, <2>4, <2>5 DEF Grown, Size
<1> QED
  BY <1>2, <1>3 DEF Grown

\* A plan and a consolidation add their rows to the size.
LEMMA PlanSize ==
  ASSUME NEW t \in Table, IsFiniteSet(Rows(t)), NEW n \in Nat,
         NEW new \in Placements(t, n), NEW notes, NEW u, u = create_many(t, new, notes)
  PROVE  Size(u) = Size(t) + n
<1>1. PICK a \in MilestoneId : TRUE
  BY IdAssumption
<1>2. Cardinality(Rows(u)) = Cardinality(Rows(t)) + n
  BY <1>1, InsertionsCount
<1> QED
  BY <1>2, Zenon DEF Size

LEMMA ConsolidationSize ==
  ASSUME NEW t \in Table, IsFiniteSet(Rows(t)), NEW a \in MilestoneId,
         NEW new \in Placements(t, 1), NEW u, u = insert_after(t, a, new)
  PROVE  Size(u) = Size(t) + 1
<1>1. \A notes : Cardinality(Rows(u)) = Cardinality(Rows(t)) + 1
  <2> TAKE notes
  <2>1. 1 \in Nat
    OBVIOUS
  <2> QED
    BY <2>1, InsertionsCount
<1> QED
  BY <1>1, Zenon DEF Size

(***************************************************************************)
(* Every step of a tick keeps its project's graph and its worker in scope. *)
(***************************************************************************)
LEMMA TickInScope ==
  ASSUME TypeOK, Fits, MaxChildren >= 2, MaxProjectMilestones > 0,
         NEW i \in Worker, TickStep(i) \/ CallRaises(i), Tracks(i), Scoped(i),
         Contiguous(ms[job[i].p]), InStride(ms[job[i].p]), Grown(ms[job[i].p])
  PROVE  /\ Grown(ms'[job[i].p])
         /\ pc'[i] \in ScopedSteps => Size(ms'[job[i].p]) <= Base
         /\ pc'[i] = "split" => job'[i].kids \in 2 .. MaxChildren
<1> DEFINE j == job[i]
           p == job[i].p
           t == ms[p]
           Goal == /\ Grown(ms'[p])
                   /\ pc'[i] \in ScopedSteps => Size(ms'[p]) <= Base
                   /\ pc'[i] = "split" => job'[i].kids \in 2 .. MaxChildren
<1>0. /\ j \in Job /\ p \in Project /\ j.m \in MilestoneId /\ t \in Table /\ RowFits(i)
      /\ IsFiniteSet(Rows(t)) /\ Size(t) \in Nat /\ FinishedFirst(t)
  BY FS_CardinalityType DEF TypeOK, Job, Fits, InStride, Size
<1>b. MaxChildren \in Nat /\ Base \in Nat
  BY BaseFacts
<1> USE DEF Table0
<1>1. CASE EffectStop(i)
  BY <1>1 DEF EffectStop, ScopedSteps
<1>2. CASE EffectDecide(i)
  BY <1>2 DEF EffectDecide, ScopedSteps
<1>3. CASE EffectEnter(i)
  BY <1>3 DEF EffectEnter, HandlerOf, ScopedSteps
<1>4. CASE EffectPlan(i)
  <2>1. PICK n \in 1 .. MaxPlan :
          \E new \in Placements(t, n), notes \in [0 .. n - 1 -> CrewNote] :
            ms'[p] = create_many(t, new, notes)
    BY <1>4 DEF EffectPlan
  <2> PICK new \in Placements(t, n), notes \in [0 .. n - 1 -> CrewNote] :
            ms'[p] = create_many(t, new, notes)
    BY <2>1
  <2>2. Rows(t) = {} /\ n \in Nat /\ pc'[i] = "move"
    BY <1>4 DEF EffectPlan
  <2>3. Size(ms'[p]) = Size(t) + n
    <3>1. t \in Table /\ IsFiniteSet(Rows(t)) /\ j.m \in MilestoneId
      BY <1>0
    <3>2. new \in Placements(t, n) /\ ms'[p] = create_many(t, new, notes) /\ n \in Nat
      BY <2>2
    <3> HIDE DEF t, p, j
    <3> QED
      BY <3>1, <3>2, PlanSize
  <2>4. Size(t) = 0
    BY <2>2, FS_EmptySet DEF Size
  <2>5. Size(ms'[p]) <= Base
    BY <2>2, <2>3, <2>4, BaseFacts
  <2> QED
    BY <2>2, <2>5 DEF Grown, ScopedSteps
<1>5. CASE EffectReclaim(i)
  <2>1. Grown(ms'[p]) /\ Size(ms'[p]) = Size(t) /\ pc'[i] \in {"move", "pick"}
    BY <1>0, <1>5, SweepsGrown DEF EffectReclaim
  <2>2. pc'[i] = "pick" => Size(t) <= Base
    <3>1. pc'[i] = "pick" => ~(Size(t) > MaxProjectMilestones)
      BY <1>5 DEF EffectReclaim, PastScope, Size
    <3>2. MaxProjectMilestones \in Nat
      BY SettingAssumption
    <3> QED
      BY <1>0, <3>1, <3>2, BaseFacts
  <2> QED
    BY <2>1, <2>2 DEF ScopedSteps
<1>6. CASE EffectPick(i) \/ EffectCap(i)
  BY <1>6 DEF EffectPick, EffectCap, Scoped, ScopedSteps
<1>7. CASE EffectBegin(i) \/ EffectCrew(i) \/ EffectRecord(i)
  <2>1. pc[i] \in ScopedSteps /\ pc'[i] # "split" /\ t[j.m].state # "none"
    BY <1>0, <1>7 DEF EffectBegin, EffectCrew, EffectRecord, ScopedSteps, RowFits
  <2>2. SameRows(t, ms'[p])
    <3>1. CASE EffectBegin(i) \/ EffectCrew(i)
      BY <1>0, <2>1, <3>1, RowUpdatesKeepRows DEF EffectBegin, EffectCrew
    <3>2. CASE EffectRecord(i)
      <4>1. \E success \in BOOLEAN : ms'[p] = record_attempt(t, j.m, success)
        BY <3>2 DEF EffectRecord
      <4> QED
        BY <1>0, <2>1, <4>1, RowUpdatesKeepRows
    <3> QED
      BY <1>7, <3>1, <3>2
  <2>3. Rows(ms'[p]) = Rows(t)
    BY <2>2 DEF SameRows, Rows
  <2> QED
    BY <2>1, <2>3 DEF Scoped, Grown, Size
<1>8. CASE EffectConsolidate(i)
  <2>1. pc'[i] = "replan" /\ Quiet(t)
    BY <1>8 DEF EffectConsolidate, Tracks, Resting, QuietSteps, ReplanSteps
  <2>2. CASE ms'[p] = t
    BY <2>1, <2>2 DEF ScopedSteps
  <2>3. ASSUME should_insert_consolidation(t, ConsolidationEvery),
               NEW a \in MilestoneId, last_done(t, a),
               NEW new \in Placements(t, 1), ms'[p] = insert_after(t, a, new)
        PROVE  Goal
    <3>1. FreshNext(ms'[p]) /\ Consolidating(ms'[p])
      BY <1>0, <2>3, ConsolidationFinishedFirst DEF Consolidating
    <3>2. 1 \in Nat
      OBVIOUS
    <3>3. Quiet(ms'[p])
      BY <1>0, <2>1, <2>3, <3>2, InsertionsQuiet
    <3>4. Size(ms'[p]) = Size(t) + 1
      BY <1>0, <2>3, ConsolidationSize
    <3>5. ~Consolidating(t)
      BY <2>3 DEF should_insert_consolidation, Consolidating
    <3>6. Size(t) <= Base \/ Size(t) < Base + MaxChildren
      BY <3>5 DEF Grown
    <3>7. Size(ms'[p]) <= Base + MaxChildren
      BY <1>0, <1>b, <3>4, <3>6
    <3> QED
      BY <2>1, <3>1, <3>3, <3>7 DEF Grown, ScopedSteps
  <2> QED
    BY <1>8, <2>2, <2>3 DEF EffectConsolidate
<1>9. CASE EffectAutoSplit(i)
  <2>1. Size(t) <= Base
    <3>1. job'[i].m \in MilestoneId
      BY <1>9 DEF EffectAutoSplit, next_pending, Waiting
    <3>2. ~FreshNext(t)
      BY <1>9, <3>1 DEF EffectAutoSplit, FreshNext, AutoSplit
    <3> QED
      BY <3>2 DEF Grown
  <2>2. job'[i].kids \in 2 .. MaxChildren
    BY <1>9, <1>b DEF EffectAutoSplit
  <2> QED
    BY <1>9, <2>1, <2>2 DEF EffectAutoSplit
<1>10. CASE EffectReply(i)
  <2>1. PICK m \in MilestoneId :
          /\ next_pending(t, m) /\ t[m].retry_count > 0
          /\ \E over \in BOOLEAN : ms'[p] = [t EXCEPT ![m].over = over]
    BY <1>10 DEF EffectReply
  <2>2. Size(t) <= Base
    <3>1. t[m].retry_count # 0
      BY <1>0, <2>1, RowFacts DEF Row
    <3> QED
      BY <2>1, <3>1 DEF Grown, FreshNext
  <2>3. Rows(ms'[p]) = Rows(t)
    <3> PICK over : ms'[p] = [t EXCEPT ![m].over = over]
      BY <2>1
    <3>1. t \in Table
      BY <1>0
    <3>2. Rows([t EXCEPT ![m].over = over]) = Rows(t)
      BY <3>1, SideUpdatesKeepStates, SameStatesKeep
    <3> HIDE DEF t, p, j
    <3> QED
      BY <3>2, Zenon
  <2>4. pc'[i] = "split" => job'[i].kids \in 2 .. MaxChildren
    BY <1>10 DEF EffectReply
  <2> QED
    BY <2>2, <2>3, <2>4 DEF Grown, Size
<1>11. CASE EffectApply(i) /\ pc[i] = "amend"
  <2>1. \E note, hot : ms'[p] = update_spec(t, j.m, note, hot)
    BY <1>11 DEF EffectApply
  <2>2. SameStates(t, ms'[p])
    BY <1>0, <2>1, SideUpdatesKeepStates
  <2>3. Rows(ms'[p]) = Rows(t)
    BY <2>2, SameStatesKeep
  <2>4. Size(t) <= Base
    BY <1>11 DEF Scoped, ScopedSteps
  <2> QED
    BY <1>11, <2>3, <2>4 DEF EffectApply, Grown, Size, ScopedSteps
<1>12. CASE EffectApply(i) /\ pc[i] = "split"
  <2>1. PICK new \in Placements(t, j.kids), notes \in [0 .. j.kids - 1 -> CrewNote] :
          ms'[p] = replace_with(t, j.m, new, notes)
    BY <1>12 DEF EffectApply
  <2>2. /\ j.m \in Rows(t) /\ next_pending(t, j.m) /\ Quiet(t)
        /\ Size(t) <= Base /\ j.kids \in 2 .. MaxChildren
    BY <1>0, <1>12 DEF RowFits, Rows, Tracks, Resting, QuietSteps, ReplanSteps, Scoped,
                       ScopedSteps
  <2>3. j.kids \in Nat /\ j.kids >= 1 /\ j.kids <= MaxChildren
    BY <1>b, <2>2
  <2>4. FreshNext(ms'[p])
    BY <1>0, <2>1, <2>2, <2>3, SplitFinishedFirst
  <2>5. Quiet(ms'[p])
    BY <1>0, <2>1, <2>2, <2>3, InsertionsQuiet
  <2>6. Size(ms'[p]) = Size(t) + j.kids - 1
    BY <1>0, <2>1, <2>2, <2>3, InsertionsCount DEF Size
  <2>7. Size(ms'[p]) < Base + MaxChildren
    BY <1>0, <1>b, <2>2, <2>3, <2>6
  <2> QED
    BY <1>12, <2>4, <2>5, <2>7 DEF EffectApply, Grown, ScopedSteps
<1> QED
  BY <1>1, <1>2, <1>3, <1>4, <1>5, <1>6, <1>7, <1>8, <1>9, <1>10, <1>11, <1>12,
     TickEffects DEF Effect, EffectApply

\* Every step of the orchestrator keeps every graph and every worker in scope.
LEMMA InScopeStep ==
  ASSUME MaxChildren >= 2, MaxProjectMilestones > 0
  PROVE  TypeOK /\ ClaimsExclusive /\ Fits /\ Orderly /\ Strides /\ InScope /\ [Next]_vars
           => InScope'
<1> SUFFICES ASSUME TypeOK, ClaimsExclusive, Fits, Orderly, Strides, InScope, [Next]_vars
             PROVE  InScope'
  OBVIOUS
<1> USE DEF Table0
<1>0. /\ \A p \in Project : ms[p] \in Table /\ Contiguous(ms[p]) /\ InStride(ms[p])
      /\ \A p \in Project : Grown(ms[p])
      /\ \A k \in Worker : Tracks(k) /\ Scoped(k) /\ job[k].p \in Project
  BY DEF TypeOK, Job, Orderly, Strides, InScope
<1>t. ASSUME NEW i \in Worker, TickStep(i) \/ CallRaises(i)
      PROVE  /\ Grown(ms'[job[i].p])
             /\ pc'[i] \in ScopedSteps => Size(ms'[job[i].p]) <= Base
             /\ pc'[i] = "split" => job'[i].kids \in 2 .. MaxChildren
  BY <1>0, <1>t, TickInScope
<1>1. ASSUME NEW p \in Project PROVE Grown(ms'[p])
  <2>1. Grown(requeue_stale_building(ms[p])) /\ Grown(reset_retry_count(ms[p]))
    BY <1>0, SweepsGrown
  <2> QED
    BY <1>0, <1>t, <2>1, TableWriters
<1>i. ASSUME NEW k \in Worker, pc'[k] \in {"idle", "entry"} PROVE Scoped(k)'
  BY <1>i DEF Scoped, ScopedSteps
<1>s. ASSUME NEW k \in Worker, pc'[k] = pc[k], job'[k] = job[k],
             pc[k] = "idle" \/ Size(ms'[job[k].p]) = Size(ms[job[k].p])
      PROVE  Scoped(k)'
  BY <1>0, <1>s DEF Scoped, ScopedSteps
<1>2. ASSUME NEW i \in Worker, TickStep(i) \/ CallRaises(i), NEW k \in Worker
      PROVE  Scoped(k)'
  <2>1. CASE k = i
    <3>1. job'[i].p = job[i].p
      BY <1>2, TickFramed DEF TickFrame
    <3> QED
      BY <1>2, <1>t, <2>1, <3>1 DEF Scoped
  <2>2. CASE k # i
    BY <1>2, <1>s, <2>2, TickOthers DEF Busy
  <2> QED
    BY <2>1, <2>2
<1>3. ASSUME Restart, NEW k \in Worker PROVE Scoped(k)'
  BY <1>3, <1>i DEF Restart
<1>4. ASSUME ~Restart, \A i \in Worker : ~TickStep(i) /\ ~CallRaises(i), NEW k \in Worker
      PROVE  Scoped(k)'
  <2>1. Size(ms'[job[k].p]) = Size(ms[job[k].p])
    BY <1>0, <1>4, TableWriters, SweepsGrown
  <2>2. ASSUME pc'[k] = pc[k], job'[k] = job[k] PROVE Scoped(k)'
    BY <1>s, <2>1, <2>2
  <2>3. ASSUME NEW i \in Worker, NEW p \in Project, ClaimNext(i, p) PROVE Scoped(k)'
    <3>1. CASE k = i
      BY <1>i, <2>3, <3>1, ClaimFrame
    <3>2. CASE k # i
      BY <2>2, <2>3, <3>2, ClaimFrame DEF Others
    <3> QED
      BY <3>1, <3>2
  <2>4. ASSUME NEW i \in Worker, Release(i) PROVE Scoped(k)'
    <3>1. CASE k = i
      BY <1>i, <2>4, <3>1, ReleaseFrame
    <3>2. CASE k # i
      BY <2>2, <2>4, <3>2, ReleaseFrame DEF Others
    <3> QED
      BY <3>1, <3>2
  <2> QED
    BY <1>4, <2>2, <2>3, <2>4, StepKinds
<1> QED
  BY <1>1, <1>2, <1>3, <1>4 DEF InScope

\* An empty graph is in scope.
LEMMA InitInScope == Init => InScope
<1> SUFFICES ASSUME Init PROVE InScope
  OBVIOUS
<1>1. ASSUME NEW p \in Project PROVE Grown(ms[p])
  <2>1. Rows(ms[p]) = {}
    BY <1>1 DEF Init, NoRow, Rows
  <2>2. Size(ms[p]) = 0
    BY <2>1, FS_EmptySet DEF Size
  <2> QED
    BY <2>2, BaseFacts DEF Grown
<1>2. ASSUME NEW i \in Worker PROVE Scoped(i)
  BY <1>2 DEF Init, Scoped, ScopedSteps
<1> QED
  BY <1>1, <1>2 DEF InScope

(***************************************************************************)
(* A scope cap bounds the graph: _scope_guard lets a project be built only *)
(* within the cap, a split or a consolidation adds at most one insertion,  *)
(* and what was added must have failed before it can be split again.  An   *)
(* automatic split makes two children, so a reply may name two as well.    *)
(***************************************************************************)
THEOREM GraphBoundedCorrect ==
  ASSUME MaxChildren >= 2
  PROVE  Safety => []GraphBounded
<1>1. CASE MaxProjectMilestones > 0
  <2>1. TypeOK /\ Strides /\ InScope => GraphBounded
    <3> SUFFICES ASSUME Strides, InScope, NEW p \in Project
                 PROVE  Size(ms[p]) <= Base + MaxChildren
      BY DEF GraphBounded, Base, Size
    <3>1. Size(ms[p]) \in Nat
      BY FS_CardinalityType DEF Strides, InStride, Size
    <3>2. Grown(ms[p])
      BY DEF InScope
    <3> QED
      BY <3>1, <3>2, BaseFacts DEF Grown
  <2>2. TypeOK /\ ClaimsExclusive /\ Fits /\ Orderly /\ Strides /\ InScope /\ [Next]_vars
          => InScope'
    BY <1>1, InScopeStep
  <2> QED
    BY <2>1, <2>2, InitInScope, TypeCorrect, ClaimsCorrect, FitsCorrect, OrderlyCorrect,
       StridesCorrect, PTL DEF Safety
<1>2. CASE ~(MaxProjectMilestones > 0)
  <2>1. GraphBounded
    BY <1>2 DEF GraphBounded
  <2> QED
    BY <2>1, PTL
<1> QED
  BY <1>1, <1>2
=============================================================================
