------------------------------- MODULE BuildCrew -------------------------------
(***************************************************************************)
(* CrewaiBuildCrew.run: Developer, Tester, CI gate with repairs, Reviewer; *)
(* the budget is asked again before every paid stage but the first.        *)
(***************************************************************************)
EXTENDS AgentSession

EnsureBudget_before_review_only ==
  /\ pc = "budget"
  /\ IF ~CanSpend /\ att.stage = "reviewer" THEN Leave
     ELSE Goto(IF att.stage = "reviewer" THEN "review" ELSE "call") /\ UNCHANGED att
  /\ UNCHANGED <<noteVars, latest, ledgerVars, dayOver, treeVars, repoVars, rowVars, faults>>

\* _ensure_budget; BudgetExceeded ends the tick, the milestone is pending again.
EnsureBudget ==
  /\ pc = "budget"
  /\ IF ~CanSpend THEN Leave
     ELSE Goto(IF att.stage = "reviewer" THEN "review" ELSE "call") /\ UNCHANGED att
  /\ UNCHANGED <<noteVars, latest, ledgerVars, dayOver, treeVars, repoVars, rowVars, faults>>

(***************************************************************************)
(* The CI gate: every step of it must pass; the first that fails, or runs  *)
(* out of time, fails it.                                                  *)
(***************************************************************************)
GateSteps == {"venv", "ruff", "mypy", "bandit", "pytest"}

run_ci(outcome) == \A s \in GateSteps : outcome[s] = "pass"

CiVerdicts == {run_ci(o) : o \in [GateSteps -> {"pass", "fail", "timeout"}]}

(***************************************************************************)
(* Sandbox.run_ci judges the tree as it is; run and _repair_ci go on to    *)
(* the Reviewer, to one more repair by the Developer, or give up.          *)
(***************************************************************************)
RunCi(passed) ==
  /\ pc = "ci"
  /\ IF passed
       THEN Goto("budget") /\ att' = [att EXCEPT !.stage = "reviewer", !.gate = {"ci"}]
     ELSE IF att.repairs < CiRepairAttempts
       THEN Goto("budget") /\ att' = [att EXCEPT !.stage = "repair", !.repairs = @ + 1]
     ELSE Goto("failed") /\ UNCHANGED att
  /\ UNCHANGED <<noteVars, latest, ledgerVars, dayOver, treeVars, repoVars, rowVars, faults>>

\* _review pulls the Reviewer's notes once, for both of its attempts.
OpenReview ==
  /\ pc = "review"
  /\ pull_unconsumed("Reviewer")
  /\ Goto("kick")
  /\ UNCHANGED <<latest, ledgerVars, dayOver, treeVars, repoVars, rowVars, att, faults>>

Verdicts == {"approve", "reject", "unparseable"}

AfterVerdict_pass_when_unparseable(v) ==
  IF v = "unparseable" /\ att.kicks = 0
    THEN Goto("kick") /\ att' = [att EXCEPT !.kicks = 1]
    ELSE /\ Goto(IF v = "reject" THEN "failed" ELSE "commit")
         /\ att' = [att EXCEPT !.gate = IF v = "approve" THEN @ \cup {"review"} ELSE @]

\* An unparseable verdict is asked for once more, then it is a failure.
AfterVerdict(v) ==
  IF v = "unparseable" /\ att.kicks = 0
    THEN Goto("kick") /\ att' = [att EXCEPT !.kicks = 1]
    ELSE /\ Goto(IF v = "approve" THEN "commit" ELSE "failed")
         /\ att' = [att EXCEPT !.gate = IF v = "approve" THEN @ \cup {"review"} ELSE @]

Kick_pulling_again(v, tokens) ==
  /\ pc = "kick"
  /\ hand' = {}
  /\ Tell(Pending("Reviewer"), "Reviewer")
  /\ delivered' = delivered \cup (Pending("Reviewer") \X {"Reviewer"})
  /\ Ledger(tokens, TRUE)
  /\ AfterVerdict(v)
  /\ UNCHANGED <<target, hook, latest, dayOver, treeVars, repoVars, rowVars>>

\* _run_reviewer: one kickoff of the Reviewer, its spend and its verdict.
Kick(v, tokens) ==
  /\ pc = "kick"
  /\ HandOver("Reviewer")
  /\ Ledger(tokens, TRUE)
  /\ AfterVerdict(v)
  /\ UNCHANGED <<latest, dayOver, treeVars, repoVars, rowVars>>

CrewStep ==
  \/ SessionStep
  \/ EnsureBudget \/ OpenReview
  \/ \E passed \in CiVerdicts : RunCi(passed)
  \/ \E v \in Verdicts, tokens \in 0 .. MaxCall : Kick(v, tokens)
=============================================================================
