---------------------------- MODULE CommandRouter ----------------------------
(***************************************************************************)
(* The operator commands that change a project.  The API runs dispatch in  *)
(* a worker thread and the Telegram bot in its own, so a command's reads   *)
(* and writes interleave with the ticks and, with several operators, with  *)
(* other commands.  Destructive commands arrive here confirmed.            *)
(***************************************************************************)
EXTENDS Swarm

At(o, step, p) == op[o].step = step /\ op[o].p = p

OpGoto(o, step, p) == op' = [op EXCEPT ![o] = [step |-> step, p |-> p]]

OpDone(o) == op' = [op EXCEPT ![o] = NoOp]

\* _approve: read the state ...
ApproveRead(o, p) ==
  /\ op[o].step = "idle"
  /\ state[p] = "awaiting_approval"
  /\ OpGoto(o, "approve", p)
  /\ UNCHANGED <<projectVars, ms, costly, redisVars, envVars, poolVars, workerVars>>

\* ... and write the new one.
ApproveWrite(o, p) ==
  /\ At(o, "approve", p)
  /\ state' = [state EXCEPT ![p] = "building"]
  /\ approved' = [approved EXCEPT ![p] = TRUE]
  /\ OpDone(o)
  /\ UNCHANGED <<paused, ms, costly, redisVars, envVars, poolVars, workerVars>>

Pause(o, p) ==
  /\ op[o].step = "idle"
  /\ ~paused[p]
  /\ paused' = [paused EXCEPT ![p] = TRUE]
  /\ UNCHANGED <<state, approved, ms, costly, redisVars, envVars, poolVars,
                 workerVars, op>>

\* _resume: lift the pause and any kill flag ...
ResumeSignals(o, p) ==
  /\ op[o].step = "idle"
  /\ paused' = [paused EXCEPT ![p] = FALSE]
  /\ killed' = [killed EXCEPT ![p] = FALSE]
  /\ OpGoto(o, "resume_read", p)
  /\ UNCHANGED <<state, approved, ms, costly, halted, envVars, poolVars, workerVars>>

AfterResumeRead_always_build(p) ==
  IF state[p] # "blocked" THEN "idle" ELSE "resume_reset"

AfterResumeRead_any_state(p) ==
  IF Rows(ms[p]) = {} THEN "resume_plan" ELSE "resume_reset"

\* ... a blocked project is replanned from scratch if it has no milestones ...
AfterResumeRead(p) ==
  CASE state[p] # "blocked"                     -> "idle"
    [] state[p] = "blocked" /\ Rows(ms[p]) = {} -> "resume_plan"
    [] OTHER                                    -> "resume_reset"

ResumeRead(o, p) ==
  /\ At(o, "resume_read", p)
  /\ IF AfterResumeRead(p) = "idle" THEN OpDone(o)
                                    ELSE OpGoto(o, AfterResumeRead(p), p)
  /\ UNCHANGED <<projectVars, ms, costly, redisVars, envVars, poolVars, workerVars>>

\* ... and otherwise gets its retries back and continues building.
ResumeReset(o, p) ==
  /\ At(o, "resume_reset", p)
  /\ ms' = [ms EXCEPT ![p] = reset_retry_count(@)]
  /\ OpGoto(o, "resume_build", p)
  /\ UNCHANGED <<projectVars, costly, redisVars, envVars, poolVars, workerVars>>

ResumeWrite(o, p) ==
  /\ At(o, "resume_plan", p) \/ At(o, "resume_build", p)
  /\ state' = [state EXCEPT ![p] =
                 IF op[o].step = "resume_plan" THEN "planning" ELSE "building"]
  /\ OpDone(o)
  /\ UNCHANGED <<paused, approved, ms, costly, redisVars, envVars, poolVars, workerVars>>

\* _abort, _drop_and_start_new, _switch_to_idea: all they do is trip the flag.
Abort(o, p) ==
  /\ op[o].step = "idle"
  /\ ~killed[p]
  /\ killed' = [killed EXCEPT ![p] = TRUE]
  /\ UNCHANGED <<projectVars, ms, costly, halted, envVars, poolVars, workerVars, op>>

KillSwitch(o) ==
  /\ op[o].step = "idle"
  /\ ~halted
  /\ halted' = TRUE
  /\ UNCHANGED <<projectVars, ms, costly, killed, envVars, poolVars, workerVars, op>>

\* A handler that has begun and goes on to its next call.
HandlerStep(o) ==
  \E p \in Project :
    ApproveWrite(o, p) \/ ResumeRead(o, p) \/ ResumeReset(o, p) \/ ResumeWrite(o, p)

Command(o) ==
  \/ \E p \in Project :
       ApproveRead(o, p) \/ Pause(o, p) \/ ResumeSignals(o, p) \/ Abort(o, p)
  \/ KillSwitch(o)
=============================================================================
