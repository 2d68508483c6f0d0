-------------------------------- MODULE Tick --------------------------------
(***************************************************************************)
(* Tick.advance_project: one worker advances its claimed project by one    *)
(* state-machine step.  The tick runs in a thread of its own, so operator  *)
(* commands, the other workers and a restart fall between any two of its   *)
(* calls; each action below is the stretch up to and including one call.   *)
(***************************************************************************)
EXTENDS Swarm

Goto(i, label) == pc' = [pc EXCEPT ![i] = label]

\* The tick has decided: it goes on to _move(project, s).
ToMove(i, s) ==
  /\ pc' = [pc EXCEPT ![i] = "move"]
  /\ job' = [job EXCEPT ![i].goal = s]

CheckKill_pause_first(i) ==
  /\ pc[i] = "entry"
  /\ IF halted \/ paused[job[i].p] THEN Goto(i, "return") /\ UNCHANGED job
     ELSE IF killed[job[i].p] THEN ToMove(i, "killed")
     ELSE Goto(i, "pause_check") /\ UNCHANGED job
  /\ UNCHANGED <<projectVars, ms, costly, redisVars, envVars, poolVars, op>>

(***************************************************************************)
(* advance_project and _advance_active: the kill flags, then the pause     *)
(* flag, then the handler of the state the project was claimed in.         *)
(***************************************************************************)
CheckKill(i) ==
  /\ pc[i] = "entry"
  /\ IF halted THEN Goto(i, "return") /\ UNCHANGED job
     ELSE IF killed[job[i].p] THEN ToMove(i, "killed")
     ELSE Goto(i, "pause_check") /\ UNCHANGED job
  /\ UNCHANGED <<projectVars, ms, costly, redisVars, envVars, poolVars, op>>

HandlerOf(snap) ==
  CASE snap = "planning"    -> "plan"
    [] snap = "building"    -> "reclaim"
    [] snap = "replanning"  -> "consolidate"
    [] snap = "integration" -> "integrate"
    [] OTHER                -> "move"

CheckPause(i) ==
  /\ pc[i] = "pause_check"
  /\ IF paused[job[i].p]
       THEN Goto(i, "return") /\ UNCHANGED job
       ELSE /\ Goto(i, HandlerOf(job[i].snap))
            /\ job' = [job EXCEPT ![i].goal =
                         IF job[i].snap = "queued" THEN "planning" ELSE @]
  /\ UNCHANGED <<projectVars, ms, costly, redisVars, envVars, poolVars, op>>

\* A crew's calls leave ledger lines behind: the project's spend only grows.
Spends(p) == costly' \in {costly, [costly EXCEPT ![p] = CostCap]}

(***************************************************************************)
(* _plan: the planning crew returns n milestones and create_many stores    *)
(* them; over rows left by an earlier plan the unique index refuses them   *)
(* (PlanRefused).                                                          *)
(***************************************************************************)
StorePlan(i, n, notes) ==
  LET p == job[i].p IN
  /\ pc[i] = "plan"
  /\ Rows(ms[p]) = {}
  /\ Placements(ms[p], n) # {}
  /\ ms' = [ms EXCEPT ![p] = create_many(@, FreshIds(@, n), notes)]
  /\ ToMove(i, IF RequireApproval THEN "awaiting_approval" ELSE "building")
  /\ Spends(p)
  /\ UNCHANGED <<projectVars, redisVars, envVars, poolVars, op>>

PlanRefused(i) ==
  /\ pc[i] = "plan"
  /\ Rows(ms[job[i].p]) # {}
  /\ Goto(i, "crashed")
  /\ Spends(job[i].p)
  /\ UNCHANGED <<projectVars, ms, redisVars, envVars, poolVars, job, op>>

(***************************************************************************)
(* _reclaim_and_guard and _scope_guard: orphans of an earlier attempt go   *)
(* back to pending; a project past its milestone or cost cap is blocked.   *)
(***************************************************************************)
PastScope_by_cost_only(p) == CostCap /\ costly[p]

PastScope(p) ==
  \/ MaxProjectMilestones > 0 /\ Cardinality(Rows(ms[p])) > MaxProjectMilestones
  \/ CostCap /\ costly[p]

Reclaim(i) ==
  LET p == job[i].p IN
  /\ pc[i] = "reclaim"
  /\ ms' = [ms EXCEPT ![p] = requeue_stale_building(@)]
  /\ IF PastScope(p) THEN ToMove(i, "blocked")
                     ELSE Goto(i, "pick") /\ UNCHANGED job
  /\ UNCHANGED <<projectVars, costly, redisVars, envVars, poolVars, op>>

(***************************************************************************)
(* _build_one_milestone up to the build: pick the next milestone, unless   *)
(* none is left or today's budget is spent; then ask can_spend again, for  *)
(* the milestone: a refusal counts as its cap having tripped.              *)
(***************************************************************************)
NothingToBuild(i) ==
  /\ pc[i] = "pick"
  /\ Waiting(ms[job[i].p]) = {}
  /\ ToMove(i, "integration")
  /\ UNCHANGED <<projectVars, ms, costly, redisVars, envVars, poolVars, op>>

PickMilestone(i, m) ==
  LET t == ms[job[i].p] IN
  /\ pc[i] = "pick"
  /\ next_pending(t, m)
  /\ IF dayOver
       THEN Goto(i, "return") /\ UNCHANGED job
       ELSE /\ Goto(i, "cap")
            /\ job' = [job EXCEPT ![i].m = m, ![i].retry = t[m].retry_count]
  /\ UNCHANGED <<projectVars, ms, costly, redisVars, envVars, poolVars, op>>

CheckCap(i) ==
  /\ pc[i] = "cap"
  /\ Goto(i, IF CanSpend(job[i].p, job[i].m) THEN "start" ELSE "trip")
  /\ UNCHANGED <<projectVars, ms, costly, redisVars, envVars, poolVars, job, op>>

AfterFailure_one_too_many(retry) ==
  IF retry >= RetryLimit THEN "blocked" ELSE "replanning"

\* A failed attempt blocks the project at the limit and is replanned below it;
\* the count is the one read when the milestone was picked.
AfterFailure(retry) ==
  IF retry + 1 >= RetryLimit THEN "blocked" ELSE "replanning"

\* The circuit breaker, and _handle_build_failure.
RecordFailure(i) ==
  LET p == job[i].p IN
  /\ pc[i] \in {"trip", "failure"}
  /\ LegalMilestone(ms[p][job[i].m].state, "failed")
  /\ ms' = [ms EXCEPT ![p] = record_attempt(@, job[i].m, FALSE)]
  /\ ToMove(i, AfterFailure(job[i].retry))
  /\ UNCHANGED <<projectVars, costly, redisVars, envVars, poolVars, op>>

StartBuild(i) ==
  LET p == job[i].p IN
  /\ pc[i] = "start"
  /\ LegalMilestone(ms[p][job[i].m].state, "building")
  /\ ms' = [ms EXCEPT ![p] = update_state(@, job[i].m, "building")]
  /\ Goto(i, "crew")
  /\ UNCHANGED <<projectVars, costly, redisVars, envVars, poolVars, job, op>>

(***************************************************************************)
(* build_crew.run.  A run leaves sessions and ledger lines behind: hot is  *)
(* whatever the latest sessions say, spend only grows.  BudgetExceeded is  *)
(* raised between two SDK calls when the day's or the milestone's tokens   *)
(* are gone.                                                               *)
(***************************************************************************)
CrewSpends(i, hot, over) ==
  LET p == job[i].p IN
  /\ ms' = [ms EXCEPT ![p] = charge(@, job[i].m, hot, over)]
  /\ Spends(p)
  /\ UNCHANGED <<projectVars, redisVars, envVars, poolVars, job, op>>

CrewSucceeds(i, hot, over) ==
  /\ pc[i] = "crew"
  /\ Goto(i, "success")
  /\ CrewSpends(i, hot, over)

CrewFails(i, hot, over) ==
  /\ pc[i] = "crew"
  /\ Goto(i, "failure")
  /\ CrewSpends(i, hot, over)

CrewBudgetExceeded(i, hot, over) ==
  /\ pc[i] = "crew"
  /\ dayOver \/ over \/ ms[job[i].p][job[i].m].over
  /\ Goto(i, "unbuild")
  /\ CrewSpends(i, hot, over)

CrewRaises(i, hot, over) ==
  /\ pc[i] = "crew"
  /\ Goto(i, "crashed")
  /\ CrewSpends(i, hot, over)

\* Mid-build budget pause: back to pending, and no attempt is counted.
Unbuild(i) ==
  LET p == job[i].p IN
  /\ pc[i] = "unbuild"
  /\ LegalMilestone(ms[p][job[i].m].state, "pending")
  /\ ms' = [ms EXCEPT ![p] = update_state(@, job[i].m, "pending")]
  /\ Goto(i, "return")
  /\ UNCHANGED <<projectVars, costly, redisVars, envVars, poolVars, job, op>>

\* Commit the workspace and record the attempt.
RecordSuccess(i) ==
  LET p == job[i].p IN
  /\ pc[i] = "success"
  /\ LegalMilestone(ms[p][job[i].m].state, "done")
  /\ ms' = [ms EXCEPT ![p] = record_attempt(@, job[i].m, TRUE)]
  /\ ToMove(i, "replanning")
  /\ UNCHANGED <<projectVars, costly, redisVars, envVars, poolVars, op>>

(***************************************************************************)
(* _replan: first the consolidation cadence ...                            *)
(***************************************************************************)
Consolidate(i) ==
  LET p == job[i].p IN
  /\ pc[i] = "consolidate"
  /\ IF should_insert_consolidation(ms[p], ConsolidationEvery)
       THEN /\ Placements(ms[p], 1) # {}
            /\ \E m \in MilestoneId :
                 /\ last_done(ms[p], m)
                 /\ ms' = [ms EXCEPT ![p] = insert_after(@, m, FreshIds(@, 1))]
       ELSE UNCHANGED ms
  /\ Goto(i, "replan")
  /\ UNCHANGED <<projectVars, costly, redisVars, envVars, poolVars, job, op>>

(***************************************************************************)
(* ... then what to do about the next milestone: nothing is left; a split  *)
(* its history asks for; nothing, when it has not failed or there is no    *)
(* budget to think with; or what the replanning crew replies.              *)
(***************************************************************************)
NothingToReplan(i) ==
  /\ pc[i] = "replan"
  /\ Waiting(ms[job[i].p]) = {}
  /\ ToMove(i, "integration")
  /\ UNCHANGED <<projectVars, ms, costly, redisVars, envVars, poolVars, op>>

\* AutoSplitPredictor.predict
AutoSplit(row) == row.hot /\ "auto" \notin row.note

ToSplit(i, m, n, auto) ==
  /\ Goto(i, "split")
  /\ job' = [job EXCEPT ![i].m = m, ![i].kids = n, ![i].auto = auto]

ReplanWithoutCrew(i, m) ==
  LET p == job[i].p IN
  /\ pc[i] = "replan"
  /\ next_pending(ms[p], m)
  /\ IF AutoSplit(ms[p][m])
       THEN ToSplit(i, m, 2, TRUE)
       ELSE /\ ms[p][m].retry_count = 0 \/ ~CanSpend(p, m)
            /\ ToMove(i, "building")
  /\ UNCHANGED <<projectVars, ms, costly, redisVars, envVars, poolVars, op>>

(***************************************************************************)
(* ReplanningCrew.run and _apply_action.  An error of the crew and an      *)
(* unreadable reply count as Noop; an Amend the repository rejects is      *)
(* dropped; a Split naming a milestone there is not makes replace_with     *)
(* raise.  The reply names its milestone by id: either the next one or an  *)
(* id that is not in the table.                                            *)
(***************************************************************************)
ReplyActions == {"noop", "amend", "split", "escalate", "split_unknown"}

CrewReplies(i, m, reply, n, over) ==
  LET p == job[i].p IN
  /\ pc[i] = "replan"
  /\ next_pending(ms[p], m)
  /\ ~AutoSplit(ms[p][m]) /\ ms[p][m].retry_count > 0 /\ CanSpend(p, m)
  /\ ms' = [ms EXCEPT ![p][m].over = over]
  /\ \/ reply = "noop" /\ ToMove(i, "building")
     \/ reply = "amend" /\ Goto(i, "amend") /\ job' = [job EXCEPT ![i].m = m]
     \/ reply = "split" /\ ToSplit(i, m, n, FALSE)
     \/ reply = "escalate" /\ ToMove(i, "blocked")
     \/ reply = "split_unknown" /\ Goto(i, "crashed") /\ UNCHANGED job
  /\ Spends(p)
  /\ UNCHANGED <<projectVars, redisVars, envVars, poolVars, op>>

\* The patch rewrites technical_note or leaves it as it is.
AmendNotes(i) == CrewNotes \cup {ms[job[i].p][job[i].m].note}

AmendMilestone(i, note, hot) ==
  LET p == job[i].p IN
  /\ pc[i] = "amend"
  /\ ms' = [ms EXCEPT ![p] = update_spec(@, job[i].m, note, hot)]
  /\ ToMove(i, "building")
  /\ UNCHANGED <<projectVars, costly, redisVars, envVars, poolVars, op>>

\* Both halves of an automatic split copy the parent's technical_note and add
\* its marker; the children a crew wrote come with notes of their own.
ChildNotes(i) ==
  LET n == job[i].kids
      own == ms[job[i].p][job[i].m].note
  IN  IF job[i].auto THEN {[k \in 0 .. n - 1 |-> (own \ {"cadence"}) \cup {"auto"}]}
                     ELSE [0 .. n - 1 -> CrewNotes]

SplitMilestone(i, notes) ==
  LET p == job[i].p
      n == job[i].kids
  IN
  /\ pc[i] = "split"
  /\ Placements(ms[p], n) # {}
  /\ ms' = [ms EXCEPT ![p] = replace_with(@, job[i].m, FreshIds(@, n), notes)]
  /\ ToMove(i, "building")
  /\ UNCHANGED <<projectVars, costly, redisVars, envVars, poolVars, op>>

\* _integrate: the full-repository CI decides between done and blocked.
Integrate(i, passed) ==
  /\ pc[i] = "integrate"
  /\ ToMove(i, IF passed THEN "done" ELSE "blocked")
  /\ UNCHANGED <<projectVars, ms, costly, redisVars, envVars, poolVars, op>>

(***************************************************************************)
(* _move and _block: legality is judged by the state the tick was handed,  *)
(* then the new state is written over whatever the row holds.              *)
(***************************************************************************)
Move(i) ==
  /\ pc[i] = "move"
  /\ LegalProject(job[i].snap, job[i].goal)
  /\ state' = [state EXCEPT ![job[i].p] = job[i].goal]
  /\ Goto(i, "return")
  /\ UNCHANGED <<paused, approved, ms, costly, redisVars, envVars, poolVars, job, op>>

\* A crew or the sandbox raises before anything is stored.
ServiceRaises(i) ==
  /\ pc[i] \in {"plan", "integrate"}
  /\ Goto(i, "crashed")
  /\ IF pc[i] = "plan" THEN Spends(job[i].p) ELSE UNCHANGED costly
  /\ UNCHANGED <<projectVars, ms, redisVars, envVars, poolVars, job, op>>

\* A database or Redis call raises and commits nothing.
CallRaises(i) ==
  /\ pc[i] \in TickSteps
  /\ faults < MaxFaults
  /\ faults' = faults + 1
  /\ Goto(i, "crashed")
  /\ UNCHANGED <<projectVars, ms, costly, redisVars, dayOver, poolVars, job, op>>

TickStep(i) ==
  \/ CheckKill(i) \/ CheckPause(i)
  \/ \E n \in 1 .. MaxPlan : \E notes \in [0 .. n - 1 -> CrewNotes] : StorePlan(i, n, notes)
  \/ PlanRefused(i) \/ Reclaim(i) \/ NothingToBuild(i)
  \/ \E m \in MilestoneId : PickMilestone(i, m)
  \/ CheckCap(i) \/ RecordFailure(i) \/ StartBuild(i)
  \/ \E hot, over \in BOOLEAN :
       \/ CrewSucceeds(i, hot, over)
       \/ CrewFails(i, hot, over)
       \/ CrewBudgetExceeded(i, hot, over)
       \/ CrewRaises(i, hot, over)
  \/ Unbuild(i) \/ RecordSuccess(i) \/ Consolidate(i) \/ NothingToReplan(i)
  \/ \E m \in MilestoneId : ReplanWithoutCrew(i, m)
  \/ \E m \in MilestoneId, reply \in ReplyActions,
        n \in 2 .. MaxChildren, over \in BOOLEAN : CrewReplies(i, m, reply, n, over)
  \/ \E note \in AmendNotes(i), hot \in BOOLEAN : AmendMilestone(i, note, hot)
  \/ \E notes \in ChildNotes(i) : SplitMilestone(i, notes)
  \/ \E passed \in BOOLEAN : Integrate(i, passed)
  \/ Move(i) \/ ServiceRaises(i)
=============================================================================
