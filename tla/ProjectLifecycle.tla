-------------------------- MODULE ProjectLifecycle --------------------------
(***************************************************************************)
(* What the orchestrator promises about a project, with workers, claims,   *)
(* crashes and commands left out: its phase follows the transition table,  *)
(* its work is planned while planning, finished while building and         *)
(* reopened only while replanning, and the phases that need a plan or      *)
(* finished work are entered only with it.                                 *)
(***************************************************************************)
EXTENDS StateMachine

CONSTANT Project

VARIABLES
  phase,  \* the state of each project
  work    \* its milestones: none yet, some open, all finished

Work == {"none", "open", "finished"}

LifecycleInit ==
  /\ phase = [p \in Project |-> "queued"]
  /\ work = [p \in Project |-> "none"]

\* The work each phase may only be entered with.
Entry(s, w) ==
  /\ s \in {"awaiting_approval", "building", "replanning"} => w # "none"
  /\ s \in {"integration", "done"} => w = "finished"

Enter(p, s) ==
  /\ LegalProject(phase[p], s)
  /\ Entry(s, work[p])
  /\ phase' = [phase EXCEPT ![p] = s]
  /\ UNCHANGED work

\* When a project's work may change from w1 to w2.
WorkChange(s, w1, w2) ==
  \/ s = "planning"   /\ w1 = "none"     /\ w2 = "open"
  \/ s = "building"   /\ w1 = "open"     /\ w2 = "finished"
  \/ s = "replanning" /\ w1 = "finished" /\ w2 = "open"

ChangeWork(p, w) ==
  /\ WorkChange(phase[p], work[p], w)
  /\ work' = [work EXCEPT ![p] = w]
  /\ UNCHANGED phase

LifecycleNext ==
  \E p \in Project :
    \/ \E s \in ProjectState : Enter(p, s)
    \/ \E w \in Work : ChangeWork(p, w)

LifecycleSpec == LifecycleInit /\ [][LifecycleNext]_<<phase, work>>
=============================================================================
