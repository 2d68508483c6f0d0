---------------------------- MODULE StateMachine ----------------------------
(***************************************************************************)
(* The two transition tables every state change of the swarm is judged by  *)
(* (schemas/state_machine.py), and the sets of states the scheduler and    *)
(* the ideation guard sort projects into.                                  *)
(***************************************************************************)

ProjectState ==
  {"queued", "planning", "awaiting_approval", "building", "replanning",
   "integration", "done", "blocked", "killed"}

MilestoneState == {"pending", "building", "done", "failed"}

TERMINAL_PROJECT_STATES == {"done", "killed"}

\* The states a pool worker claims; a parked project (awaiting_approval,
\* blocked) waits for the operator and is never claimed.
ADVANCEABLE_STATES ==
  {"queued", "planning", "building", "replanning", "integration"}

\* Each state with the set of its legal successors.
PROJECT_TRANSITIONS ==
  [s \in ProjectState |->
     CASE s = "queued"            -> {"planning", "blocked", "killed"}
       [] s = "planning"          -> {"awaiting_approval", "building",
                                      "blocked", "killed"}
       [] s = "awaiting_approval" -> {"building", "blocked", "killed"}
       [] s = "building"          -> {"replanning", "integration",
                                      "blocked", "killed"}
       [] s = "replanning"        -> {"building", "integration",
                                      "blocked", "killed"}
       [] s = "integration"       -> {"done", "blocked", "killed"}
       [] s = "blocked"           -> {"building", "planning", "killed"}
       [] OTHER                   -> {}]

MILESTONE_TRANSITIONS_failing_once ==
  [s \in MilestoneState |->
     CASE s = "pending"  -> {"building", "failed"}
       [] s = "building" -> {"done", "failed", "pending"}
       [] s = "failed"   -> {"building"}
       [] OTHER          -> {}]

MILESTONE_TRANSITIONS ==
  [s \in MilestoneState |->
     CASE s = "pending"  -> {"building", "failed"}
       [] s = "building" -> {"done", "failed", "pending"}
       [] s = "failed"   -> {"building", "failed"}
       [] OTHER          -> {}]

LegalProject(src, dst) == dst \in PROJECT_TRANSITIONS[src]

LegalMilestone(src, dst) == dst \in MILESTONE_TRANSITIONS[src]
=============================================================================
