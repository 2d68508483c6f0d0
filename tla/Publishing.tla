------------------------------ MODULE Publishing ------------------------------
(***************************************************************************)
(* The GitHub side of a tick: _ensure_repo creates, wires and records the  *)
(* repository in separate steps and gives up at the first that fails;      *)
(* _push is best effort.  Neither ever fails the build.                    *)
(***************************************************************************)
EXTENDS BuildState

CreateRepo_without_lookup ==
  /\ pc = "create"
  /\ exists' = TRUE
  /\ Goto(IF exists THEN "call" ELSE "wire")
  /\ UNCHANGED <<noteVars, latest, ledgerVars, dayOver, treeVars, wired, recorded,
                 remote, announced, rowVars, att, faults>>

\* create_repo: an existing repository of that name is looked up and taken.
CreateRepo ==
  /\ pc = "create"
  /\ exists' = TRUE
  /\ Goto("wire")
  /\ UNCHANGED <<noteVars, latest, ledgerVars, dayOver, treeVars, wired, recorded,
                 remote, announced, rowVars, att, faults>>

WireRemote ==
  /\ pc = "wire"
  /\ wired' = TRUE
  /\ Goto("record")
  /\ UNCHANGED <<noteVars, latest, ledgerVars, dayOver, treeVars, exists, recorded,
                 remote, announced, rowVars, att, faults>>

\* The row is written and this tick's copy of the project takes the new value.
RecordRepo ==
  /\ pc = "record"
  /\ recorded' = TRUE
  /\ att' = [att EXCEPT !.repo = TRUE]
  /\ Goto("call")
  /\ UNCHANGED <<noteVars, latest, ledgerVars, dayOver, treeVars, exists, wired,
                 remote, announced, rowVars, faults>>

\* Any call of _ensure_repo fails, after or before it took effect; the build
\* goes on, and the tick's copy of the project has no repository.
EnsureRepoFails ==
  /\ pc \in {"create", "wire", "record"}
  /\ Fault
  /\ \/ UNCHANGED <<exists, wired, recorded>>
     \/ /\ exists' = TRUE
        /\ wired' = (wired \/ pc = "wire")
        /\ recorded' = (recorded \/ pc = "record")
  /\ Goto("call")
  /\ UNCHANGED <<noteVars, latest, ledgerVars, dayOver, treeVars, remote, announced,
                 rowVars, att>>

\* _push looks at the tick's copy of the project and at the workspace.
Pushable == att.repo /\ wired /\ GithubToken

Pushed(ok) == remote' = IF Pushable /\ ok THEN "new" ELSE remote

\* A push that can fail does so as one of the run's faults.
PushOutcome(ok) ==
  /\ Pushed(ok)
  /\ IF ok THEN UNCHANGED faults ELSE Pushable /\ Fault

Push(ok) ==
  /\ pc = "push"
  /\ PushOutcome(ok)
  /\ Leave
  /\ UNCHANGED <<noteVars, latest, ledgerVars, dayOver, treeVars, exists, wired,
                 recorded, announced, rowVars>>

\* The end of _integrate: a final push, the announcement, the move to done.
Ship(ok) ==
  /\ pc = "ship"
  /\ PushOutcome(ok)
  /\ announced' = att.repo
  /\ stage' = "done"
  /\ Leave
  /\ UNCHANGED <<noteVars, latest, ledgerVars, dayOver, treeVars, exists, wired,
                 recorded, done, retry>>

PublishStep ==
  \/ CreateRepo \/ WireRemote \/ RecordRepo
  \/ \E ok \in BOOLEAN : Push(ok) \/ Ship(ok)
=============================================================================
