------------------------------- MODULE Steering -------------------------------
(***************************************************************************)
(* PsycopgSteeringRepo: notes for the agents of a project and their        *)
(* delivery to each role.  pull_unconsumed selects and claims in one       *)
(* transaction, so two pulls of one role can select the same notes; the    *)
(* primary key of the deliveries lets only one of them claim a note.       *)
(***************************************************************************)
EXTENDS BuildState

\* A note's id is the next of the sequence.
add_note(n, role) ==
  /\ target[n] = "none"
  /\ \A k \in Note : k < n => target[k] # "none"
  /\ target' = [target EXCEPT ![n] = role]

\* The SELECT: addressed to the role, not yet delivered to it.
Pending(role) ==
  {n \in Note : target[n] \in {"all", role} /\ <<n, role>> \notin delivered}

Claimed_without_conflict(notes, role) == notes

\* INSERT ... ON CONFLICT DO NOTHING RETURNING: the rows this pull created.
Claimed(notes, role) == {n \in notes : <<n, role>> \notin delivered}

Tell(notes, role) ==
  told' = [x \in Note \X Role |->
             IF x[2] = role /\ x[1] \in notes THEN told[x] + 1 ELSE told[x]]

pull_unconsumed_unmarked(role) ==
  /\ hand' = Pending(role) \X {role}
  /\ UNCHANGED <<target, delivered, told, hook>>

\* A pull of the tick's own thread, when no hook of the role is running: what
\* it returns goes into the prompt of the call that is being prepared.
pull_unconsumed(role) ==
  /\ delivered' = delivered \cup (Pending(role) \X {role})
  /\ hand' = Pending(role) \X {role}
  /\ UNCHANGED <<target, told, hook>>

\* The agent starts with the prompt's notes before it.
HandOver(role) ==
  /\ Tell({x[1] : x \in hand}, role)
  /\ hand' = {}
  /\ UNCHANGED <<target, delivered, hook>>

(***************************************************************************)
(* CommandRouter._inject_note, _rescope and _transform: a note for one     *)
(* role or for all of them, at any moment.                                 *)
(***************************************************************************)
InjectNote(n, role) ==
  /\ add_note(n, role)
  /\ UNCHANGED <<delivered, hand, told, hook, latest, ledgerVars, dayOver,
                 treeVars, repoVars, rowVars, pc, att, faults>>

SdkRoleOf(s) == IF s = "tester" THEN "Tester" ELSE "Developer"

(***************************************************************************)
(* The PreToolUse hook: it runs before each tool call of a streaming       *)
(* session, in a thread, and one turn can call several tools.              *)
(***************************************************************************)
HookSelect(h) ==
  /\ pc = "stream" /\ hook[h] = {}
  /\ Pending(SdkRoleOf(att.stage)) # {}
  /\ hook' = [hook EXCEPT ![h] = Pending(SdkRoleOf(att.stage))]
  /\ UNCHANGED <<target, delivered, hand, told, latest, ledgerVars, dayOver,
                 treeVars, repoVars, rowVars, pc, att, faults>>

HookClaim(h) ==
  LET role == SdkRoleOf(att.stage) IN
  /\ pc = "stream" /\ hook[h] # {}
  /\ Tell(Claimed(hook[h], role), role)
  /\ delivered' = delivered \cup (hook[h] \X {role})
  /\ hook' = [hook EXCEPT ![h] = {}]
  /\ UNCHANGED <<target, hand, latest, ledgerVars, dayOver, treeVars, repoVars,
                 rowVars, pc, att, faults>>

HooksQuiet == \A h \in Hook : hook[h] = {}

\* The session dies under its hooks: a pull that was on its way may still
\* commit, and nobody hears what it returns.
HooksDie ==
  LET role == SdkRoleOf(att.stage) IN
  /\ \/ UNCHANGED delivered
     \/ delivered' = delivered \cup ((UNION {hook[h] : h \in Hook}) \X {role})
  /\ hand' = {}
  /\ hook' = [h \in Hook |-> {}]
  /\ UNCHANGED <<target, told>>
=============================================================================
