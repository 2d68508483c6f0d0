------------------------ MODULE MilestoneBuildProofs ------------------------
(***************************************************************************)
(* For every plan, every cap and any number of faults: what the building   *)
(* of a project never does.  The invariant has one part per concern; each  *)
(* part is kept by every step, given the parts before it.                  *)
(***************************************************************************)
EXTENDS MilestoneBuild, TLAPS

\* Where the tick stands, the project's row follows: agents only run in a project
\* that still has a milestone to build.
Place ==
  /\ pc \in BuildSteps \ {"push", "ship"} => stage = "building" /\ done < MilestoneCount
  /\ stage = "integration" \/ pc = "ship" => done = MilestoneCount

\* What a call holds in its hand was claimed for the role it is about to start,
\* and nobody heard it yet; what is not claimed was never told.
Notes ==
  /\ \A x \in hand : /\ pc \in {"session", "kick"} /\ told[x] = 0
                     /\ x[2] = IF pc = "kick" THEN "Reviewer" ELSE SdkRoleOf(att.stage)
  /\ \A x \in Note \X Role : told[x] <= 1 /\ (x \notin delivered => told[x] = 0)

\* Every step that spends does so after the budget was asked, except the second
\* Reviewer kickoff and the Diagnostician.
Spending ==
  /\ spent <= TokenCap + 3 * MaxCall
  /\ pc \in {"failed", "commit", "done"} => spent <= TokenCap + 2 * MaxCall
  /\ pc \in {"budget", "ci", "kick"} => spent <= TokenCap + MaxCall
  /\ pc \in {"create", "wire", "record", "call", "session", "stream", "retry", "review"}
       \/ (pc = "kick" /\ att.kicks = 0) => spent <= TokenCap

\* How far the tree is verified follows from where the crew stands; HEAD is
\* verified wherever it may be pushed.
Verified ==
  /\ pc \in {"review", "kick"} \/ (pc = "budget" /\ att.stage = "reviewer") => att.gate = {"ci"}
  /\ pc = "commit" => att.gate = {"ci", "review"}
  /\ pc \in {"done", "push", "ship"} \/ done = MilestoneCount \/ remote = "new" => headOk

\* While nothing fails: the repository is recorded before the crew starts, and
\* main is behind a finished milestone only until its push.
Published == GithubToken /\ faults = 0 =>
  /\ recorded \/ pc = "record" => wired
  /\ pc \in BuildSteps \ {"create", "wire", "record", "ship"} => recorded /\ att.repo
  /\ pc = "ship" => att.repo = recorded
  /\ done > 0 => recorded
  /\ done > 0 /\ headOk /\ ~dirty /\ pc \notin {"done", "push"} => remote = "new"

\* The record a tick starts with is an attempt.
LEMMA NoAttemptType == NoAttempt \in Attempt
BY DEF NoAttempt, Attempt, Stages, Session

\* What the agent does to the workspace leaves the repositories well-typed.
LEMMA EditType ==
  ASSUME TypeOK, NEW e \in Edits, Edit(e)
  PROVE  /\ dirty' \in BOOLEAN /\ headOk' \in BOOLEAN
         /\ remote' \in {"none", "old", "new"}
         /\ UNCHANGED <<exists, wired, recorded, announced>>
BY DEF TypeOK, Edit, Edits

\* Type correctness is kept by every step.
LEMMA TypeStep == ASSUME TypeOK, Place, [Next]_vars PROVE TypeOK'
<1> USE BuildAssumption DEF TypeOK, Place, Session, SdkRole, Role, BuildSteps, Goto, Leave,
        noteVars, ledgerVars, treeVars, repoVars, rowVars
<1>1. CASE OpenCall
  BY <1>1 DEF OpenCall, latest_for, pull_unconsumed, Pending, Attempt, Stages, SdkRoleOf
<1>2. CASE StartSession
  BY <1>2 DEF StartSession, HandOver, Tell, SdkRoleOf
<1>3. CASE ResumeFails
  BY <1>3 DEF ResumeFails
<1>4. CASE FreshRetry
  BY <1>4 DEF FreshRetry, pull_unconsumed, Pending, Attempt, Stages, SdkRoleOf
<1>5. ASSUME NEW success \in BOOLEAN, NEW tokens \in 0 .. MaxCall, NEW e \in Edits, SessionEnds(success, tokens, e)
      PROVE  TypeOK'
  <2>1. att' \in Attempt
    BY <1>5 DEF SessionEnds, AfterCall, GateAfter, Attempt, Stages
  <2>2. /\ dirty' \in BOOLEAN /\ headOk' \in BOOLEAN /\ remote' \in {"none", "old", "new"}
        /\ UNCHANGED <<exists, wired, recorded, announced>>
    BY <1>5, EditType DEF SessionEnds
  <2>3. spent' \in Nat /\ unledgered' \in Nat /\ faults' \in 0 .. MaxFaults
    BY <1>5 DEF SessionEnds, Ledger, log, Fault
  <2>4. latest' \in [SdkRole -> Session]
    BY <1>5 DEF SessionEnds, record, SdkRoleOf
  <2>5. /\ target' = target /\ delivered' \subseteq Note \X Role /\ hand' \subseteq delivered'
        /\ told' = told /\ hook' \in [Hook -> SUBSET Note]
    BY <1>5 DEF SessionEnds
  <2>6. /\ pc' \in BuildSteps \cup {"idle", "raised"}
        /\ UNCHANGED <<dayOver, stage, done, retry>>
    BY <1>5 DEF SessionEnds, AfterCall
  <2> QED  BY <2>1, <2>2, <2>3, <2>4, <2>5, <2>6 DEF TypeOK
<1>6. ASSUME NEW seen \in BOOLEAN, NEW tokens \in 0 .. MaxCall, NEW e \in Edits, StreamDrops(seen, tokens, e)
      PROVE  TypeOK'
  <2>1. att' \in Attempt
    BY <1>6 DEF StreamDrops, AfterCall, GateAfter, Attempt, Stages
  <2>2. /\ dirty' \in BOOLEAN /\ headOk' \in BOOLEAN /\ remote' \in {"none", "old", "new"}
        /\ UNCHANGED <<exists, wired, recorded, announced>>
    BY <1>6, EditType DEF StreamDrops
  <2>3. spent' \in Nat /\ unledgered' \in Nat /\ faults' \in 0 .. MaxFaults
    BY <1>6 DEF StreamDrops, Ledger, log, Fault
  <2>4. latest' \in [SdkRole -> Session]
    BY <1>6 DEF StreamDrops, record, SdkRoleOf
  <2>5. /\ target' = target /\ delivered' \subseteq Note \X Role /\ hand' \subseteq delivered'
        /\ told' = told /\ hook' \in [Hook -> SUBSET Note]
    BY <1>6 DEF StreamDrops, HooksDie, SdkRoleOf
  <2>6. /\ pc' \in BuildSteps \cup {"idle", "raised"}
        /\ UNCHANGED <<dayOver, stage, done, retry>>
    BY <1>6 DEF StreamDrops, AfterCall
  <2> QED  BY <2>1, <2>2, <2>3, <2>4, <2>5, <2>6 DEF TypeOK
<1>7. CASE EnsureBudget
  BY <1>7, NoAttemptType DEF EnsureBudget
<1>8. ASSUME NEW passed \in CiVerdicts, RunCi(passed)
      PROVE  TypeOK'
  <2>1. att' \in Attempt
    <3>1. CASE passed
      <4>1. [att EXCEPT !.stage = "reviewer", !.gate = {"ci"}] \in Attempt
        BY DEF Attempt, Stages
      <4> QED  BY <1>8, <3>1, <4>1 DEF RunCi
    <3>2. CASE ~passed /\ att.repairs < CiRepairAttempts
      <4>1. att.repairs + 1 \in Nat
        BY DEF Attempt
      <4> QED  BY <1>8, <3>2, <4>1 DEF RunCi, Attempt, Stages
    <3>3. CASE ~passed /\ ~(att.repairs < CiRepairAttempts)
      BY <1>8, <3>3 DEF RunCi
    <3> QED  BY <3>1, <3>2, <3>3
  <2> QED  BY <1>8, <2>1 DEF RunCi
<1>9. CASE OpenReview
  BY <1>9 DEF OpenReview, pull_unconsumed, Pending
<1>10. ASSUME NEW v \in Verdicts, NEW tokens \in 0 .. MaxCall, Kick(v, tokens)
      PROVE  TypeOK'
  BY <1>10 DEF Kick, HandOver, Tell, Ledger, log, AfterVerdict, Fault, Attempt, Stages, SdkRoleOf, Verdicts
<1>11. CASE TripBreaker
  BY <1>11 DEF TripBreaker, CountFailure
<1>12. CASE BeginBuild
  <2>1. att' \in Attempt
    <3>1. [NoAttempt EXCEPT !.retry = retry, !.repo = recorded] \in Attempt
      BY NoAttemptType DEF Attempt
    <3> QED  BY <1>12, <3>1 DEF BeginBuild
  <2> QED  BY <1>12, <2>1 DEF BeginBuild
<1>13. CASE Commit
  BY <1>13 DEF Commit
<1>14. CASE RecordDone
  BY <1>14 DEF RecordDone
<1>15. CASE CreateRepo
  BY <1>15 DEF CreateRepo
<1>16. CASE WireRemote
  BY <1>16 DEF WireRemote
<1>17. CASE RecordRepo
  BY <1>17 DEF RecordRepo, Attempt, Stages, SdkRoleOf
<1>18. ASSUME NEW ok \in BOOLEAN, Push(ok)
      PROVE  TypeOK'
  BY <1>18, NoAttemptType DEF Push, PushOutcome, Pushed, Pushable, Fault
<1>19. ASSUME NEW ok \in BOOLEAN, Ship(ok)
      PROVE  TypeOK'
  BY <1>19, NoAttemptType DEF Ship, PushOutcome, Pushed, Pushable, Fault, Attempt
<1>20. ASSUME NEW tokens \in 0 .. MaxCall, Diagnose(tokens)
      PROVE  TypeOK'
  BY <1>20 DEF Diagnose, Ledger, log, add_note, Fault
<1>21. CASE RecordFailure
  BY <1>21, NoAttemptType DEF RecordFailure, CountFailure
<1>22. CASE AllBuilt
  BY <1>22 DEF AllBuilt
<1>23. ASSUME NEW passed \in CiVerdicts, Integrate(passed)
      PROVE  TypeOK'
  BY <1>23 DEF Integrate, Attempt, Stages, SdkRoleOf, NoAttempt
<1>24. CASE TickCrashed
  BY <1>24, NoAttemptType DEF TickCrashed
<1>25. ASSUME NEW h \in Hook, HookSelect(h)
      PROVE  TypeOK'
  BY <1>25 DEF HookSelect, Pending, SdkRoleOf
<1>26. ASSUME NEW h \in Hook, HookClaim(h)
      PROVE  TypeOK'
  BY <1>26 DEF HookClaim, Claimed, Tell, SdkRoleOf
<1>27. ASSUME NEW n \in Note, NEW role \in Role \cup {"all"}, InjectNote(n, role)
      PROVE  TypeOK'
  BY <1>27 DEF InjectNote, add_note
<1>28. CASE Resume
  BY <1>28 DEF Resume
<1>29. CASE DayEnds
  BY <1>29 DEF DayEnds
<1>30. CASE CallRaises
  BY <1>30 DEF CallRaises, Fault
<1>31. CASE EnsureRepoFails
  <2>1. wired' \in BOOLEAN /\ recorded' \in BOOLEAN /\ exists' \in BOOLEAN
    BY <1>31 DEF EnsureRepoFails
  <2> QED  BY <1>31, <2>1 DEF EnsureRepoFails, Fault
<1>32. ASSUME NEW tokens \in 1 .. MaxCall, ReplanSpends(tokens)
      PROVE  TypeOK'
  BY <1>32 DEF ReplanSpends, Ledger, log, Fault
<1>33. ASSUME NEW e \in Edits, SessionDies(e)
      PROVE  TypeOK'
  <2>1. att' \in Attempt
    BY <1>33 DEF SessionDies, GateAfter, Attempt, Stages
  <2>2. /\ dirty' \in BOOLEAN /\ headOk' \in BOOLEAN /\ remote' \in {"none", "old", "new"}
        /\ UNCHANGED <<exists, wired, recorded, announced>>
    BY <1>33, EditType DEF SessionDies
  <2>3. spent' \in Nat /\ unledgered' \in Nat /\ faults' \in 0 .. MaxFaults
    BY <1>33 DEF SessionDies, Unledgered, Fault
  <2>4. latest' \in [SdkRole -> Session]
    BY <1>33 DEF SessionDies
  <2>5. /\ target' = target /\ delivered' \subseteq Note \X Role /\ hand' \subseteq delivered'
        /\ told' = told /\ hook' \in [Hook -> SUBSET Note]
    BY <1>33 DEF SessionDies, HooksDie, SdkRoleOf
  <2>6. /\ pc' \in BuildSteps \cup {"idle", "raised"}
        /\ UNCHANGED <<dayOver, stage, done, retry>>
    BY <1>33 DEF SessionDies
  <2> QED  BY <2>1, <2>2, <2>3, <2>4, <2>5, <2>6 DEF TypeOK
<1>34. ASSUME NEW wiped \in BOOLEAN, Restart(wiped)
      PROVE  TypeOK'
  BY <1>34, NoAttemptType DEF Restart, HooksDie, Unledgered, Fault, SdkRoleOf
<1>35. CASE UNCHANGED vars
  BY <1>35 DEF vars
<1> QED
  BY <1>1, <1>2, <1>3, <1>4, <1>5, <1>6, <1>7, <1>8, <1>9, <1>10, <1>11, <1>12, <1>13, <1>14, <1>15, <1>16, <1>17, <1>18, <1>19, <1>20, <1>21, <1>22, <1>23, <1>24, <1>25, <1>26, <1>27, <1>28, <1>29, <1>30, <1>31, <1>32, <1>33, <1>34, <1>35
  DEF Next, BuildTick, CrewStep, SessionStep, PublishStep, HookStep, Environment

\* A crew step is only reached from a building tick.
LEMMA PlaceStep == ASSUME TypeOK, Place, [Next]_vars PROVE Place'
<1> USE BuildAssumption DEF TypeOK, Place, BuildSteps, Goto, Leave, noteVars, ledgerVars, treeVars, repoVars, rowVars
<1>1. CASE OpenCall
  BY <1>1 DEF OpenCall
<1>2. CASE StartSession
  BY <1>2 DEF StartSession
<1>3. CASE ResumeFails
  BY <1>3 DEF ResumeFails
<1>4. CASE FreshRetry
  BY <1>4 DEF FreshRetry
<1>5. ASSUME NEW success \in BOOLEAN, NEW tokens \in 0 .. MaxCall, NEW e \in Edits, SessionEnds(success, tokens, e)
      PROVE  Place'
  BY <1>5 DEF SessionEnds, AfterCall
<1>6. ASSUME NEW seen \in BOOLEAN, NEW tokens \in 0 .. MaxCall, NEW e \in Edits, StreamDrops(seen, tokens, e)
      PROVE  Place'
  BY <1>6 DEF StreamDrops, AfterCall
<1>7. CASE EnsureBudget
  BY <1>7 DEF EnsureBudget
<1>8. ASSUME NEW passed \in CiVerdicts, RunCi(passed)
      PROVE  Place'
  BY <1>8 DEF RunCi
<1>9. CASE OpenReview
  BY <1>9 DEF OpenReview
<1>10. ASSUME NEW v \in Verdicts, NEW tokens \in 0 .. MaxCall, Kick(v, tokens)
      PROVE  Place'
  BY <1>10 DEF Kick, AfterVerdict
<1>11. CASE TripBreaker
  BY <1>11 DEF TripBreaker, CountFailure
<1>12. CASE BeginBuild
  BY <1>12 DEF BeginBuild
<1>13. CASE Commit
  BY <1>13 DEF Commit
<1>14. CASE RecordDone
  BY <1>14 DEF RecordDone
<1>15. CASE CreateRepo
  BY <1>15 DEF CreateRepo
<1>16. CASE WireRemote
  BY <1>16 DEF WireRemote
<1>17. CASE RecordRepo
  BY <1>17 DEF RecordRepo
<1>18. ASSUME NEW ok \in BOOLEAN, Push(ok)
      PROVE  Place'
  BY <1>18 DEF Push
<1>19. ASSUME NEW ok \in BOOLEAN, Ship(ok)
      PROVE  Place'
  BY <1>19 DEF Ship
<1>20. ASSUME NEW tokens \in 0 .. MaxCall, Diagnose(tokens)
      PROVE  Place'
  BY <1>20 DEF Diagnose
<1>21. CASE RecordFailure
  BY <1>21 DEF RecordFailure, CountFailure
<1>22. CASE AllBuilt
  BY <1>22 DEF AllBuilt
<1>23. ASSUME NEW passed \in CiVerdicts, Integrate(passed)
      PROVE  Place'
  BY <1>23 DEF Integrate
<1>24. CASE TickCrashed
  BY <1>24 DEF TickCrashed
<1>25. ASSUME NEW h \in Hook, HookSelect(h)
      PROVE  Place'
  BY <1>25 DEF HookSelect
<1>26. ASSUME NEW h \in Hook, HookClaim(h)
      PROVE  Place'
  BY <1>26 DEF HookClaim
<1>27. ASSUME NEW n \in Note, NEW role \in Role \cup {"all"}, InjectNote(n, role)
      PROVE  Place'
  BY <1>27 DEF InjectNote
<1>28. CASE Resume
  BY <1>28 DEF Resume
<1>29. CASE DayEnds
  BY <1>29 DEF DayEnds
<1>30. CASE CallRaises
  BY <1>30 DEF CallRaises
<1>31. CASE EnsureRepoFails
  BY <1>31 DEF EnsureRepoFails
<1>32. ASSUME NEW tokens \in 1 .. MaxCall, ReplanSpends(tokens)
      PROVE  Place'
  BY <1>32 DEF ReplanSpends
<1>33. ASSUME NEW e \in Edits, SessionDies(e)
      PROVE  Place'
  BY <1>33 DEF SessionDies
<1>34. ASSUME NEW wiped \in BOOLEAN, Restart(wiped)
      PROVE  Place'
  BY <1>34 DEF Restart
<1>35. CASE UNCHANGED vars
  BY <1>35 DEF vars
<1> QED
  BY <1>1, <1>2, <1>3, <1>4, <1>5, <1>6, <1>7, <1>8, <1>9, <1>10, <1>11, <1>12, <1>13, <1>14, <1>15, <1>16, <1>17, <1>18, <1>19, <1>20, <1>21, <1>22, <1>23, <1>24, <1>25, <1>26, <1>27, <1>28, <1>29, <1>30, <1>31, <1>32, <1>33, <1>34, <1>35
  DEF Next, BuildTick, CrewStep, SessionStep, PublishStep, HookStep, Environment

\* Between two questions to the budget at most one call is paid.
LEMMA SpendingStep == ASSUME TypeOK, Place, Spending, [Next]_vars PROVE Spending'
<1> USE BuildAssumption DEF TypeOK, Spending, Attempt, Stages, BuildSteps, Goto, Leave, noteVars, ledgerVars, treeVars, repoVars, rowVars
<1>1. CASE OpenCall
  BY <1>1 DEF OpenCall
<1>2. CASE StartSession
  BY <1>2 DEF StartSession
<1>3. CASE ResumeFails
  BY <1>3 DEF ResumeFails
<1>4. CASE FreshRetry
  BY <1>4 DEF FreshRetry
<1>5. ASSUME NEW success \in BOOLEAN, NEW tokens \in 0 .. MaxCall, NEW e \in Edits, SessionEnds(success, tokens, e)
      PROVE  Spending'
  BY <1>5 DEF SessionEnds, Ledger, log, AfterCall
<1>6. ASSUME NEW seen \in BOOLEAN, NEW tokens \in 0 .. MaxCall, NEW e \in Edits, StreamDrops(seen, tokens, e)
      PROVE  Spending'
  BY <1>6 DEF StreamDrops, Ledger, log, AfterCall
<1>7. CASE EnsureBudget
  BY <1>7 DEF EnsureBudget, CanSpend
<1>8. ASSUME NEW passed \in CiVerdicts, RunCi(passed)
      PROVE  Spending'
  BY <1>8 DEF RunCi
<1>9. CASE OpenReview
  BY <1>9 DEF OpenReview
<1>10. ASSUME NEW v \in Verdicts, NEW tokens \in 0 .. MaxCall, Kick(v, tokens)
      PROVE  Spending'
  BY <1>10 DEF Kick, Ledger, log, AfterVerdict
<1>11. CASE TripBreaker
  BY <1>11 DEF TripBreaker, CountFailure
<1>12. CASE BeginBuild
  BY <1>12 DEF BeginBuild, CanSpend
<1>13. CASE Commit
  BY <1>13 DEF Commit
<1>14. CASE RecordDone
  BY <1>14 DEF RecordDone
<1>15. CASE CreateRepo
  BY <1>15 DEF CreateRepo
<1>16. CASE WireRemote
  BY <1>16 DEF WireRemote
<1>17. CASE RecordRepo
  BY <1>17 DEF RecordRepo
<1>18. ASSUME NEW ok \in BOOLEAN, Push(ok)
      PROVE  Spending'
  BY <1>18 DEF Push
<1>19. ASSUME NEW ok \in BOOLEAN, Ship(ok)
      PROVE  Spending'
  BY <1>19 DEF Ship
<1>20. ASSUME NEW tokens \in 0 .. MaxCall, Diagnose(tokens)
      PROVE  Spending'
  BY <1>20 DEF Diagnose, Ledger, log
<1>21. CASE RecordFailure
  BY <1>21 DEF RecordFailure, CountFailure
<1>22. CASE AllBuilt
  BY <1>22 DEF AllBuilt
<1>23. ASSUME NEW passed \in CiVerdicts, Integrate(passed)
      PROVE  Spending'
  BY <1>23 DEF Integrate
<1>24. CASE TickCrashed
  BY <1>24 DEF TickCrashed
<1>25. ASSUME NEW h \in Hook, HookSelect(h)
      PROVE  Spending'
  BY <1>25 DEF HookSelect
<1>26. ASSUME NEW h \in Hook, HookClaim(h)
      PROVE  Spending'
  BY <1>26 DEF HookClaim
<1>27. ASSUME NEW n \in Note, NEW role \in Role \cup {"all"}, InjectNote(n, role)
      PROVE  Spending'
  BY <1>27 DEF InjectNote
<1>28. CASE Resume
  BY <1>28 DEF Resume
<1>29. CASE DayEnds
  BY <1>29 DEF DayEnds
<1>30. CASE CallRaises
  BY <1>30 DEF CallRaises
<1>31. CASE EnsureRepoFails
  BY <1>31 DEF EnsureRepoFails
<1>32. ASSUME NEW tokens \in 1 .. MaxCall, ReplanSpends(tokens)
      PROVE  Spending'
  BY <1>32 DEF ReplanSpends, CanSpend, Ledger, log
<1>33. ASSUME NEW e \in Edits, SessionDies(e)
      PROVE  Spending'
  BY <1>33 DEF SessionDies, Unledgered
<1>34. ASSUME NEW wiped \in BOOLEAN, Restart(wiped)
      PROVE  Spending'
  BY <1>34 DEF Restart, Unledgered
<1>35. CASE UNCHANGED vars
  BY <1>35 DEF vars
<1> QED
  BY <1>1, <1>2, <1>3, <1>4, <1>5, <1>6, <1>7, <1>8, <1>9, <1>10, <1>11, <1>12, <1>13, <1>14, <1>15, <1>16, <1>17, <1>18, <1>19, <1>20, <1>21, <1>22, <1>23, <1>24, <1>25, <1>26, <1>27, <1>28, <1>29, <1>30, <1>31, <1>32, <1>33, <1>34, <1>35
  DEF Next, BuildTick, CrewStep, SessionStep, PublishStep, HookStep, Environment

\* Claims are what keeps a note from being told twice.
LEMMA NotesStep == ASSUME TypeOK, Place, Notes, [Next]_vars PROVE Notes'
<1> USE DEF TypeOK, Notes, BuildSteps, Role, SdkRole, SdkRoleOf, Goto, Leave, noteVars, ledgerVars, treeVars, repoVars, rowVars
<1>1. CASE OpenCall
  BY <1>1 DEF OpenCall, pull_unconsumed, Pending
<1>2. CASE StartSession
  <2> DEFINE role == SdkRoleOf(att.stage)
  <2>1. \A x \in Note \X Role :
          told'[x] = IF x[2] = role /\ x[1] \in {y[1] : y \in hand} THEN told[x] + 1 ELSE told[x]
    BY <1>2 DEF StartSession, HandOver, Tell
  <2>2. \A x \in Note \X Role : x[2] = role /\ x[1] \in {y[1] : y \in hand} => x \in hand
    BY <1>2 DEF StartSession
  <2>3. hand' = {} /\ delivered' = delivered
    BY <1>2 DEF StartSession, HandOver
  <2>4. \A x \in Note \X Role : told'[x] <= 1 /\ (x \notin delivered' => told'[x] = 0)
    BY <2>1, <2>2, <2>3
  <2> QED  BY <2>3, <2>4
<1>3. CASE ResumeFails
  BY <1>3 DEF ResumeFails
<1>4. CASE FreshRetry
  BY <1>4 DEF FreshRetry, pull_unconsumed, Pending
<1>5. ASSUME NEW success \in BOOLEAN, NEW tokens \in 0 .. MaxCall, NEW e \in Edits, SessionEnds(success, tokens, e)
      PROVE  Notes'
  BY <1>5 DEF SessionEnds, AfterCall
<1>6. ASSUME NEW seen \in BOOLEAN, NEW tokens \in 0 .. MaxCall, NEW e \in Edits, StreamDrops(seen, tokens, e)
      PROVE  Notes'
  BY <1>6 DEF StreamDrops, HooksDie, AfterCall
<1>7. CASE EnsureBudget
  BY <1>7 DEF EnsureBudget
<1>8. ASSUME NEW passed \in CiVerdicts, RunCi(passed)
      PROVE  Notes'
  BY <1>8 DEF RunCi
<1>9. CASE OpenReview
  BY <1>9 DEF OpenReview, pull_unconsumed, Pending
<1>10. ASSUME NEW v \in Verdicts, NEW tokens \in 0 .. MaxCall, Kick(v, tokens)
      PROVE  Notes'
  BY <1>10 DEF Kick, HandOver, Tell, AfterVerdict
<1>11. CASE TripBreaker
  BY <1>11 DEF TripBreaker
<1>12. CASE BeginBuild
  BY <1>12 DEF BeginBuild
<1>13. CASE Commit
  BY <1>13 DEF Commit
<1>14. CASE RecordDone
  BY <1>14 DEF RecordDone
<1>15. CASE CreateRepo
  BY <1>15 DEF CreateRepo
<1>16. CASE WireRemote
  BY <1>16 DEF WireRemote
<1>17. CASE RecordRepo
  BY <1>17 DEF RecordRepo
<1>18. ASSUME NEW ok \in BOOLEAN, Push(ok)
      PROVE  Notes'
  BY <1>18 DEF Push
<1>19. ASSUME NEW ok \in BOOLEAN, Ship(ok)
      PROVE  Notes'
  BY <1>19 DEF Ship
<1>20. ASSUME NEW tokens \in 0 .. MaxCall, Diagnose(tokens)
      PROVE  Notes'
  BY <1>20 DEF Diagnose, add_note
<1>21. CASE RecordFailure
  BY <1>21 DEF RecordFailure
<1>22. CASE AllBuilt
  BY <1>22 DEF AllBuilt
<1>23. ASSUME NEW passed \in CiVerdicts, Integrate(passed)
      PROVE  Notes'
  BY <1>23 DEF Integrate
<1>24. CASE TickCrashed
  BY <1>24 DEF TickCrashed
<1>25. ASSUME NEW h \in Hook, HookSelect(h)
      PROVE  Notes'
  BY <1>25 DEF HookSelect, Pending
<1>26. ASSUME NEW h \in Hook, HookClaim(h)
      PROVE  Notes'
  BY <1>26 DEF HookClaim, Claimed, Tell
<1>27. ASSUME NEW n \in Note, NEW role \in Role \cup {"all"}, InjectNote(n, role)
      PROVE  Notes'
  BY <1>27 DEF InjectNote, add_note
<1>28. CASE Resume
  BY <1>28 DEF Resume
<1>29. CASE DayEnds
  BY <1>29 DEF DayEnds
<1>30. CASE CallRaises
  BY <1>30 DEF CallRaises
<1>31. CASE EnsureRepoFails
  BY <1>31 DEF EnsureRepoFails
<1>32. ASSUME NEW tokens \in 1 .. MaxCall, ReplanSpends(tokens)
      PROVE  Notes'
  BY <1>32 DEF ReplanSpends
<1>33. ASSUME NEW e \in Edits, SessionDies(e)
      PROVE  Notes'
  BY <1>33 DEF SessionDies, HooksDie
<1>34. ASSUME NEW wiped \in BOOLEAN, Restart(wiped)
      PROVE  Notes'
  BY <1>34 DEF Restart, HooksDie
<1>35. CASE UNCHANGED vars
  BY <1>35 DEF vars
<1> QED
  BY <1>1, <1>2, <1>3, <1>4, <1>5, <1>6, <1>7, <1>8, <1>9, <1>10, <1>11, <1>12, <1>13, <1>14, <1>15, <1>16, <1>17, <1>18, <1>19, <1>20, <1>21, <1>22, <1>23, <1>24, <1>25, <1>26, <1>27, <1>28, <1>29, <1>30, <1>31, <1>32, <1>33, <1>34, <1>35
  DEF Next, BuildTick, CrewStep, SessionStep, PublishStep, HookStep, Environment

\* Only a commit of a tree that passed both gates verifies HEAD again.
LEMMA VerifiedStep == ASSUME TypeOK, Place, Verified, [Next]_vars PROVE Verified'
<1> USE BuildAssumption DEF TypeOK, Place, Verified, Attempt, NoAttempt, BuildSteps, Goto, Leave, noteVars, ledgerVars, treeVars, repoVars, rowVars
<1>1. CASE OpenCall
  BY <1>1 DEF OpenCall
<1>2. CASE StartSession
  BY <1>2 DEF StartSession
<1>3. CASE ResumeFails
  BY <1>3 DEF ResumeFails
<1>4. CASE FreshRetry
  BY <1>4 DEF FreshRetry
<1>5. ASSUME NEW success \in BOOLEAN, NEW tokens \in 0 .. MaxCall, NEW e \in Edits, SessionEnds(success, tokens, e)
      PROVE  Verified'
  BY <1>5 DEF SessionEnds, Edit, AfterCall, GateAfter
<1>6. ASSUME NEW seen \in BOOLEAN, NEW tokens \in 0 .. MaxCall, NEW e \in Edits, StreamDrops(seen, tokens, e)
      PROVE  Verified'
  BY <1>6 DEF StreamDrops, Edit, AfterCall, GateAfter
<1>7. CASE EnsureBudget
  BY <1>7 DEF EnsureBudget, CanSpend
<1>8. ASSUME NEW passed \in CiVerdicts, RunCi(passed)
      PROVE  Verified'
  BY <1>8 DEF RunCi
<1>9. CASE OpenReview
  BY <1>9 DEF OpenReview
<1>10. ASSUME NEW v \in Verdicts, NEW tokens \in 0 .. MaxCall, Kick(v, tokens)
      PROVE  Verified'
  BY <1>10 DEF Kick, AfterVerdict
<1>11. CASE TripBreaker
  BY <1>11 DEF TripBreaker, CountFailure
<1>12. CASE BeginBuild
  BY <1>12 DEF BeginBuild, CanSpend
<1>13. CASE Commit
  BY <1>13 DEF Commit
<1>14. CASE RecordDone
  BY <1>14 DEF RecordDone
<1>15. CASE CreateRepo
  BY <1>15 DEF CreateRepo
<1>16. CASE WireRemote
  BY <1>16 DEF WireRemote
<1>17. CASE RecordRepo
  BY <1>17 DEF RecordRepo
<1>18. ASSUME NEW ok \in BOOLEAN, Push(ok)
      PROVE  Verified'
  BY <1>18 DEF Push, PushOutcome, Pushed, Pushable
<1>19. ASSUME NEW ok \in BOOLEAN, Ship(ok)
      PROVE  Verified'
  BY <1>19 DEF Ship, PushOutcome, Pushed, Pushable
<1>20. ASSUME NEW tokens \in 0 .. MaxCall, Diagnose(tokens)
      PROVE  Verified'
  BY <1>20 DEF Diagnose
<1>21. CASE RecordFailure
  BY <1>21 DEF RecordFailure, CountFailure
<1>22. CASE AllBuilt
  BY <1>22 DEF AllBuilt
<1>23. ASSUME NEW passed \in CiVerdicts, Integrate(passed)
      PROVE  Verified'
  BY <1>23 DEF Integrate
<1>24. CASE TickCrashed
  BY <1>24 DEF TickCrashed
<1>25. ASSUME NEW h \in Hook, HookSelect(h)
      PROVE  Verified'
  BY <1>25 DEF HookSelect
<1>26. ASSUME NEW h \in Hook, HookClaim(h)
      PROVE  Verified'
  BY <1>26 DEF HookClaim
<1>27. ASSUME NEW n \in Note, NEW role \in Role \cup {"all"}, InjectNote(n, role)
      PROVE  Verified'
  BY <1>27 DEF InjectNote
<1>28. CASE Resume
  BY <1>28 DEF Resume
<1>29. CASE DayEnds
  BY <1>29 DEF DayEnds
<1>30. CASE CallRaises
  BY <1>30 DEF CallRaises
<1>31. CASE EnsureRepoFails
  BY <1>31 DEF EnsureRepoFails
<1>32. ASSUME NEW tokens \in 1 .. MaxCall, ReplanSpends(tokens)
      PROVE  Verified'
  BY <1>32 DEF ReplanSpends
<1>33. ASSUME NEW e \in Edits, SessionDies(e)
      PROVE  Verified'
  BY <1>33 DEF SessionDies, Edit, GateAfter
<1>34. ASSUME NEW wiped \in BOOLEAN, Restart(wiped)
      PROVE  Verified'
  BY <1>34 DEF Restart
<1>35. CASE UNCHANGED vars
  BY <1>35 DEF vars
<1> QED
  BY <1>1, <1>2, <1>3, <1>4, <1>5, <1>6, <1>7, <1>8, <1>9, <1>10, <1>11, <1>12, <1>13, <1>14, <1>15, <1>16, <1>17, <1>18, <1>19, <1>20, <1>21, <1>22, <1>23, <1>24, <1>25, <1>26, <1>27, <1>28, <1>29, <1>30, <1>31, <1>32, <1>33, <1>34, <1>35
  DEF Next, BuildTick, CrewStep, SessionStep, PublishStep, HookStep, Environment

\* Without a fault nothing on the way to GitHub is left out.
LEMMA PublishedStep == ASSUME TypeOK, Place, Verified, Published, [Next]_vars PROVE Published'
<1> USE BuildAssumption DEF TypeOK, Place, Published, Attempt, NoAttempt, BuildSteps, Goto, Leave, Fault, noteVars, ledgerVars, treeVars, repoVars, rowVars
<1>1. CASE OpenCall
  BY <1>1 DEF OpenCall
<1>2. CASE StartSession
  BY <1>2 DEF StartSession
<1>3. CASE ResumeFails
  BY <1>3 DEF ResumeFails
<1>4. CASE FreshRetry
  BY <1>4 DEF FreshRetry
<1>5. ASSUME NEW success \in BOOLEAN, NEW tokens \in 0 .. MaxCall, NEW e \in Edits, SessionEnds(success, tokens, e)
      PROVE  Published'
  <2>1. UNCHANGED <<recorded, wired, done>> /\ (faults' = 0 => faults = 0) /\ pc = "stream"
    BY <1>5 DEF SessionEnds, Edit, Ledger, log, Fault
  <2>2. att'.repo = att.repo /\ pc' \in {"failed", "budget", "ci"}
    BY <1>5 DEF SessionEnds, AfterCall
  <2>3. headOk' /\ ~dirty' => headOk /\ ~dirty /\ remote' = remote
    <3>1. CASE e = "none"
      BY <1>5, <3>1 DEF SessionEnds, Edit
    <3>2. CASE e = "files"
      BY <1>5, <3>2 DEF SessionEnds, Edit
    <3>3. CASE e = "commit"
      BY <1>5, <3>3 DEF SessionEnds, Edit
    <3> QED  BY <3>1, <3>2, <3>3 DEF Edits
  <2> QED  BY <2>1, <2>2, <2>3
<1>6. ASSUME NEW seen \in BOOLEAN, NEW tokens \in 0 .. MaxCall, NEW e \in Edits, StreamDrops(seen, tokens, e)
      PROVE  Published'
  <2>1. UNCHANGED <<recorded, wired, done>> /\ (faults' = 0 => faults = 0) /\ pc = "stream"
    BY <1>6 DEF StreamDrops, Edit, Ledger, log, Fault
  <2>2. att'.repo = att.repo /\ pc' \in {"failed", "budget", "ci"}
    BY <1>6 DEF StreamDrops, AfterCall
  <2>3. headOk' /\ ~dirty' => headOk /\ ~dirty /\ remote' = remote
    <3>1. CASE e = "none"
      BY <1>6, <3>1 DEF StreamDrops, Edit
    <3>2. CASE e = "files"
      BY <1>6, <3>2 DEF StreamDrops, Edit
    <3>3. CASE e = "commit"
      BY <1>6, <3>3 DEF StreamDrops, Edit
    <3> QED  BY <3>1, <3>2, <3>3 DEF Edits
  <2> QED  BY <2>1, <2>2, <2>3
<1>7. CASE EnsureBudget
  BY <1>7 DEF EnsureBudget
<1>8. ASSUME NEW passed \in CiVerdicts, RunCi(passed)
      PROVE  Published'
  BY <1>8 DEF RunCi
<1>9. CASE OpenReview
  BY <1>9 DEF OpenReview
<1>10. ASSUME NEW v \in Verdicts, NEW tokens \in 0 .. MaxCall, Kick(v, tokens)
      PROVE  Published'
  BY <1>10 DEF Kick, Ledger, log, AfterVerdict
<1>11. CASE TripBreaker
  BY <1>11 DEF TripBreaker, CountFailure
<1>12. CASE BeginBuild
  BY <1>12 DEF BeginBuild
<1>13. CASE Commit
  BY <1>13 DEF Commit
<1>14. CASE RecordDone
  BY <1>14 DEF RecordDone
<1>15. CASE CreateRepo
  BY <1>15 DEF CreateRepo
<1>16. CASE WireRemote
  BY <1>16 DEF WireRemote
<1>17. CASE RecordRepo
  BY <1>17 DEF RecordRepo
<1>18. ASSUME NEW ok \in BOOLEAN, Push(ok)
      PROVE  Published'
  BY <1>18 DEF Push, PushOutcome, Pushed, Pushable
<1>19. ASSUME NEW ok \in BOOLEAN, Ship(ok)
      PROVE  Published'
  BY <1>19 DEF Ship, PushOutcome, Pushed, Pushable
<1>20. ASSUME NEW tokens \in 0 .. MaxCall, Diagnose(tokens)
      PROVE  Published'
  BY <1>20 DEF Diagnose, Ledger, log
<1>21. CASE RecordFailure
  BY <1>21 DEF RecordFailure, CountFailure
<1>22. CASE AllBuilt
  BY <1>22 DEF AllBuilt
<1>23. ASSUME NEW passed \in CiVerdicts, Integrate(passed)
      PROVE  Published'
  BY <1>23 DEF Integrate
<1>24. CASE TickCrashed
  BY <1>24 DEF TickCrashed
<1>25. ASSUME NEW h \in Hook, HookSelect(h)
      PROVE  Published'
  BY <1>25 DEF HookSelect
<1>26. ASSUME NEW h \in Hook, HookClaim(h)
      PROVE  Published'
  BY <1>26 DEF HookClaim
<1>27. ASSUME NEW n \in Note, NEW role \in Role \cup {"all"}, InjectNote(n, role)
      PROVE  Published'
  BY <1>27 DEF InjectNote
<1>28. CASE Resume
  BY <1>28 DEF Resume
<1>29. CASE DayEnds
  BY <1>29 DEF DayEnds
<1>30. CASE CallRaises
  BY <1>30 DEF CallRaises
<1>31. CASE EnsureRepoFails
  BY <1>31 DEF EnsureRepoFails
<1>32. ASSUME NEW tokens \in 1 .. MaxCall, ReplanSpends(tokens)
      PROVE  Published'
  BY <1>32 DEF ReplanSpends, Ledger, log
<1>33. ASSUME NEW e \in Edits, SessionDies(e)
      PROVE  Published'
  BY <1>33 DEF SessionDies, Unledgered, Edit, HooksDie
<1>34. ASSUME NEW wiped \in BOOLEAN, Restart(wiped)
      PROVE  Published'
  BY <1>34 DEF Restart, HooksDie, Unledgered
<1>35. CASE UNCHANGED vars
  BY <1>35 DEF vars
<1> QED
  BY <1>1, <1>2, <1>3, <1>4, <1>5, <1>6, <1>7, <1>8, <1>9, <1>10, <1>11, <1>12, <1>13, <1>14, <1>15, <1>16, <1>17, <1>18, <1>19, <1>20, <1>21, <1>22, <1>23, <1>24, <1>25, <1>26, <1>27, <1>28, <1>29, <1>30, <1>31, <1>32, <1>33, <1>34, <1>35
  DEF Next, BuildTick, CrewStep, SessionStep, PublishStep, HookStep, Environment

\* One more fault makes room for one more call.
LEMMA OneMoreFault ==
  ASSUME NEW f \in Nat, NEW m \in Nat
  PROVE  f * m \in Nat /\ (f + 1) * m = f * m + m
OBVIOUS

\* One fault hides at most one call's tokens.
LEMMA LedgerStep == ASSUME TypeOK, LedgerComplete, [Next]_vars PROVE LedgerComplete'
<1> DEFINE Hidden(f) == f * MaxCall
<1>0. /\ faults \in Nat /\ unledgered \in Nat /\ spent \in Nat /\ MaxCall \in Nat
      /\ Hidden(faults) \in Nat /\ Hidden(faults + 1) = Hidden(faults) + MaxCall
      /\ unledgered <= Hidden(faults)
  BY BuildAssumption, OneMoreFault DEF TypeOK, LedgerComplete
<1>a. SUFFICES unledgered' <= Hidden(faults')
  BY DEF LedgerComplete
<1> HIDE DEF Hidden
<1> USE <1>0 DEF Goto, Leave, noteVars, ledgerVars, treeVars, repoVars, rowVars
<1>1. CASE OpenCall
  BY <1>1 DEF OpenCall
<1>2. CASE StartSession
  BY <1>2 DEF StartSession
<1>3. CASE ResumeFails
  BY <1>3 DEF ResumeFails
<1>4. CASE FreshRetry
  BY <1>4 DEF FreshRetry
<1>5. ASSUME NEW success \in BOOLEAN, NEW tokens \in 0 .. MaxCall, NEW e \in Edits, SessionEnds(success, tokens, e)
      PROVE  unledgered' <= Hidden(faults')
  BY <1>5 DEF SessionEnds, Ledger, log, Fault
<1>6. ASSUME NEW seen \in BOOLEAN, NEW tokens \in 0 .. MaxCall, NEW e \in Edits, StreamDrops(seen, tokens, e)
      PROVE  unledgered' <= Hidden(faults')
  BY <1>6 DEF StreamDrops, Ledger, log, Fault
<1>7. CASE EnsureBudget
  BY <1>7 DEF EnsureBudget
<1>8. ASSUME NEW passed \in CiVerdicts, RunCi(passed)
      PROVE  unledgered' <= Hidden(faults')
  BY <1>8 DEF RunCi
<1>9. CASE OpenReview
  BY <1>9 DEF OpenReview
<1>10. ASSUME NEW v \in Verdicts, NEW tokens \in 0 .. MaxCall, Kick(v, tokens)
      PROVE  unledgered' <= Hidden(faults')
  BY <1>10 DEF Kick, Ledger, log, Fault
<1>11. CASE TripBreaker
  BY <1>11 DEF TripBreaker
<1>12. CASE BeginBuild
  BY <1>12 DEF BeginBuild
<1>13. CASE Commit
  BY <1>13 DEF Commit
<1>14. CASE RecordDone
  BY <1>14 DEF RecordDone
<1>15. CASE CreateRepo
  BY <1>15 DEF CreateRepo
<1>16. CASE WireRemote
  BY <1>16 DEF WireRemote
<1>17. CASE RecordRepo
  BY <1>17 DEF RecordRepo
<1>18. ASSUME NEW ok \in BOOLEAN, Push(ok)
      PROVE  unledgered' <= Hidden(faults')
  BY <1>18 DEF Push, PushOutcome, Pushed, Pushable, Fault
<1>19. ASSUME NEW ok \in BOOLEAN, Ship(ok)
      PROVE  unledgered' <= Hidden(faults')
  BY <1>19 DEF Ship, PushOutcome, Pushed, Pushable, Fault
<1>20. ASSUME NEW tokens \in 0 .. MaxCall, Diagnose(tokens)
      PROVE  unledgered' <= Hidden(faults')
  BY <1>20 DEF Diagnose, Ledger, log, Fault
<1>21. CASE RecordFailure
  BY <1>21 DEF RecordFailure
<1>22. CASE AllBuilt
  BY <1>22 DEF AllBuilt
<1>23. ASSUME NEW passed \in CiVerdicts, Integrate(passed)
      PROVE  unledgered' <= Hidden(faults')
  BY <1>23 DEF Integrate
<1>24. CASE TickCrashed
  BY <1>24 DEF TickCrashed
<1>25. ASSUME NEW h \in Hook, HookSelect(h)
      PROVE  unledgered' <= Hidden(faults')
  BY <1>25 DEF HookSelect
<1>26. ASSUME NEW h \in Hook, HookClaim(h)
      PROVE  unledgered' <= Hidden(faults')
  BY <1>26 DEF HookClaim
<1>27. ASSUME NEW n \in Note, NEW role \in Role \cup {"all"}, InjectNote(n, role)
      PROVE  unledgered' <= Hidden(faults')
  BY <1>27 DEF InjectNote
<1>28. CASE Resume
  BY <1>28 DEF Resume
<1>29. CASE DayEnds
  BY <1>29 DEF DayEnds
<1>30. CASE CallRaises
  BY <1>30 DEF CallRaises, Fault
<1>31. CASE EnsureRepoFails
  BY <1>31 DEF EnsureRepoFails, Fault
<1>32. ASSUME NEW tokens \in 1 .. MaxCall, ReplanSpends(tokens)
      PROVE  unledgered' <= Hidden(faults')
  BY <1>32 DEF ReplanSpends, Ledger, log, Fault
<1>33. ASSUME NEW e \in Edits, SessionDies(e)
      PROVE  unledgered' <= Hidden(faults')
  BY <1>33 DEF SessionDies, Unledgered, Fault
<1>34. ASSUME NEW wiped \in BOOLEAN, Restart(wiped)
      PROVE  unledgered' <= Hidden(faults')
  BY <1>34 DEF Restart, Unledgered, Fault
<1>35. CASE UNCHANGED vars
  BY <1>35 DEF vars
<1> QED
  BY <1>1, <1>2, <1>3, <1>4, <1>5, <1>6, <1>7, <1>8, <1>9, <1>10, <1>11, <1>12, <1>13, <1>14, <1>15, <1>16, <1>17, <1>18, <1>19, <1>20, <1>21, <1>22, <1>23, <1>24, <1>25, <1>26, <1>27, <1>28, <1>29, <1>30, <1>31, <1>32, <1>33, <1>34, <1>35
  DEF Next, BuildTick, CrewStep, SessionStep, PublishStep, HookStep, Environment

\* A step that loses a note to a role is a call that fails.
LEMMA LostStep ==
  ASSUME TypeOK, Notes, [Next]_vars
  PROVE  \/ Lost' \subseteq Lost \/ faults' # faults
         \/ (pc = "session" /\ pc' = "retry") \/ (pc = "stream" /\ pc' = "failed")
         \/ UNCHANGED vars
<1> DEFINE Goal == \/ Lost' \subseteq Lost \/ faults' # faults
                   \/ (pc = "session" /\ pc' = "retry") \/ (pc = "stream" /\ pc' = "failed")
                   \/ UNCHANGED vars
<1> USE DEF TypeOK, Notes, Lost, Role, SdkRole, SdkRoleOf, Goto, Leave, noteVars, ledgerVars, treeVars, repoVars, rowVars
<1>1. CASE OpenCall
  BY <1>1 DEF OpenCall, pull_unconsumed, Pending
<1>2. CASE StartSession
  BY <1>2 DEF StartSession, HandOver, Tell
<1>3. CASE ResumeFails
  BY <1>3 DEF ResumeFails
<1>4. CASE FreshRetry
  BY <1>4 DEF FreshRetry, pull_unconsumed, Pending
<1>5. ASSUME NEW success \in BOOLEAN, NEW tokens \in 0 .. MaxCall, NEW e \in Edits, SessionEnds(success, tokens, e)
      PROVE  Goal
  BY <1>5 DEF SessionEnds, AfterCall, Fault
<1>6. ASSUME NEW seen \in BOOLEAN, NEW tokens \in 0 .. MaxCall, NEW e \in Edits, StreamDrops(seen, tokens, e)
      PROVE  Goal
  BY <1>6 DEF StreamDrops, AfterCall, Fault
<1>7. CASE EnsureBudget
  BY <1>7 DEF EnsureBudget
<1>8. ASSUME NEW passed \in CiVerdicts, RunCi(passed)
      PROVE  Goal
  BY <1>8 DEF RunCi
<1>9. CASE OpenReview
  BY <1>9 DEF OpenReview, pull_unconsumed, Pending
<1>10. ASSUME NEW v \in Verdicts, NEW tokens \in 0 .. MaxCall, Kick(v, tokens)
      PROVE  Goal
  BY <1>10 DEF Kick, HandOver, Tell, Fault
<1>11. CASE TripBreaker
  BY <1>11 DEF TripBreaker
<1>12. CASE BeginBuild
  BY <1>12 DEF BeginBuild
<1>13. CASE Commit
  BY <1>13 DEF Commit
<1>14. CASE RecordDone
  BY <1>14 DEF RecordDone
<1>15. CASE CreateRepo
  BY <1>15 DEF CreateRepo
<1>16. CASE WireRemote
  BY <1>16 DEF WireRemote
<1>17. CASE RecordRepo
  BY <1>17 DEF RecordRepo
<1>18. ASSUME NEW ok \in BOOLEAN, Push(ok)
      PROVE  Goal
  BY <1>18 DEF Push, PushOutcome, Pushed, Pushable, Fault
<1>19. ASSUME NEW ok \in BOOLEAN, Ship(ok)
      PROVE  Goal
  BY <1>19 DEF Ship, PushOutcome, Pushed, Pushable, Fault
<1>20. ASSUME NEW tokens \in 0 .. MaxCall, Diagnose(tokens)
      PROVE  Goal
  BY <1>20 DEF Diagnose, add_note, Fault
<1>21. CASE RecordFailure
  BY <1>21 DEF RecordFailure
<1>22. CASE AllBuilt
  BY <1>22 DEF AllBuilt
<1>23. ASSUME NEW passed \in CiVerdicts, Integrate(passed)
      PROVE  Goal
  BY <1>23 DEF Integrate
<1>24. CASE TickCrashed
  BY <1>24 DEF TickCrashed
<1>25. ASSUME NEW h \in Hook, HookSelect(h)
      PROVE  Goal
  BY <1>25 DEF HookSelect, Pending
<1>26. ASSUME NEW h \in Hook, HookClaim(h)
      PROVE  Goal
  BY <1>26 DEF HookClaim, Claimed, Tell
<1>27. ASSUME NEW n \in Note, NEW role \in Role \cup {"all"}, InjectNote(n, role)
      PROVE  Goal
  BY <1>27 DEF InjectNote, add_note
<1>28. CASE Resume
  BY <1>28 DEF Resume
<1>29. CASE DayEnds
  BY <1>29 DEF DayEnds
<1>30. CASE CallRaises
  BY <1>30 DEF CallRaises, Fault
<1>31. CASE EnsureRepoFails
  BY <1>31 DEF EnsureRepoFails, Fault
<1>32. ASSUME NEW tokens \in 1 .. MaxCall, ReplanSpends(tokens)
      PROVE  Goal
  BY <1>32 DEF ReplanSpends, Fault
<1>33. ASSUME NEW e \in Edits, SessionDies(e)
      PROVE  Goal
  BY <1>33 DEF SessionDies, Fault
<1>34. ASSUME NEW wiped \in BOOLEAN, Restart(wiped)
      PROVE  Goal
  BY <1>34 DEF Restart, Fault
<1>35. CASE UNCHANGED vars
  BY <1>35 DEF vars
<1> QED
  BY <1>1, <1>2, <1>3, <1>4, <1>5, <1>6, <1>7, <1>8, <1>9, <1>10, <1>11, <1>12, <1>13, <1>14, <1>15, <1>16, <1>17, <1>18, <1>19, <1>20, <1>21, <1>22, <1>23, <1>24, <1>25, <1>26, <1>27, <1>28, <1>29, <1>30, <1>31, <1>32, <1>33, <1>34, <1>35
  DEF Next, BuildTick, CrewStep, SessionStep, PublishStep, HookStep, Environment

\* No step of the crew raises by itself.
LEMMA RaisesStep ==
  ASSUME TypeOK, [Next]_vars
  PROVE  pc' = "raised" /\ pc # "raised" => faults' # faults
<1> USE DEF TypeOK, Goto, Leave, noteVars, ledgerVars, treeVars, repoVars, rowVars
<1>1. CASE OpenCall
  BY <1>1 DEF OpenCall
<1>2. CASE StartSession
  BY <1>2 DEF StartSession
<1>3. CASE ResumeFails
  BY <1>3 DEF ResumeFails
<1>4. CASE FreshRetry
  BY <1>4 DEF FreshRetry
<1>5. ASSUME NEW success \in BOOLEAN, NEW tokens \in 0 .. MaxCall, NEW e \in Edits, SessionEnds(success, tokens, e)
      PROVE  pc' = "raised" /\ pc # "raised" => faults' # faults
  BY <1>5 DEF SessionEnds, AfterCall, Fault
<1>6. ASSUME NEW seen \in BOOLEAN, NEW tokens \in 0 .. MaxCall, NEW e \in Edits, StreamDrops(seen, tokens, e)
      PROVE  pc' = "raised" /\ pc # "raised" => faults' # faults
  BY <1>6 DEF StreamDrops, AfterCall, Fault
<1>7. CASE EnsureBudget
  BY <1>7 DEF EnsureBudget
<1>8. ASSUME NEW passed \in CiVerdicts, RunCi(passed)
      PROVE  pc' = "raised" /\ pc # "raised" => faults' # faults
  BY <1>8 DEF RunCi
<1>9. CASE OpenReview
  BY <1>9 DEF OpenReview
<1>10. ASSUME NEW v \in Verdicts, NEW tokens \in 0 .. MaxCall, Kick(v, tokens)
      PROVE  pc' = "raised" /\ pc # "raised" => faults' # faults
  BY <1>10 DEF Kick, AfterVerdict, Fault
<1>11. CASE TripBreaker
  BY <1>11 DEF TripBreaker
<1>12. CASE BeginBuild
  BY <1>12 DEF BeginBuild
<1>13. CASE Commit
  BY <1>13 DEF Commit
<1>14. CASE RecordDone
  BY <1>14 DEF RecordDone
<1>15. CASE CreateRepo
  BY <1>15 DEF CreateRepo
<1>16. CASE WireRemote
  BY <1>16 DEF WireRemote
<1>17. CASE RecordRepo
  BY <1>17 DEF RecordRepo
<1>18. ASSUME NEW ok \in BOOLEAN, Push(ok)
      PROVE  pc' = "raised" /\ pc # "raised" => faults' # faults
  BY <1>18 DEF Push, Fault
<1>19. ASSUME NEW ok \in BOOLEAN, Ship(ok)
      PROVE  pc' = "raised" /\ pc # "raised" => faults' # faults
  BY <1>19 DEF Ship, Fault
<1>20. ASSUME NEW tokens \in 0 .. MaxCall, Diagnose(tokens)
      PROVE  pc' = "raised" /\ pc # "raised" => faults' # faults
  BY <1>20 DEF Diagnose, Fault
<1>21. CASE RecordFailure
  BY <1>21 DEF RecordFailure
<1>22. CASE AllBuilt
  BY <1>22 DEF AllBuilt
<1>23. ASSUME NEW passed \in CiVerdicts, Integrate(passed)
      PROVE  pc' = "raised" /\ pc # "raised" => faults' # faults
  BY <1>23 DEF Integrate
<1>24. CASE TickCrashed
  BY <1>24 DEF TickCrashed
<1>25. ASSUME NEW h \in Hook, HookSelect(h)
      PROVE  pc' = "raised" /\ pc # "raised" => faults' # faults
  BY <1>25 DEF HookSelect
<1>26. ASSUME NEW h \in Hook, HookClaim(h)
      PROVE  pc' = "raised" /\ pc # "raised" => faults' # faults
  BY <1>26 DEF HookClaim
<1>27. ASSUME NEW n \in Note, NEW role \in Role \cup {"all"}, InjectNote(n, role)
      PROVE  pc' = "raised" /\ pc # "raised" => faults' # faults
  BY <1>27 DEF InjectNote
<1>28. CASE Resume
  BY <1>28 DEF Resume
<1>29. CASE DayEnds
  BY <1>29 DEF DayEnds
<1>30. CASE CallRaises
  BY <1>30 DEF CallRaises, Fault
<1>31. CASE EnsureRepoFails
  BY <1>31 DEF EnsureRepoFails, Fault
<1>32. ASSUME NEW tokens \in 1 .. MaxCall, ReplanSpends(tokens)
      PROVE  pc' = "raised" /\ pc # "raised" => faults' # faults
  BY <1>32 DEF ReplanSpends, Fault
<1>33. ASSUME NEW e \in Edits, SessionDies(e)
      PROVE  pc' = "raised" /\ pc # "raised" => faults' # faults
  BY <1>33 DEF SessionDies, Fault
<1>34. ASSUME NEW wiped \in BOOLEAN, Restart(wiped)
      PROVE  pc' = "raised" /\ pc # "raised" => faults' # faults
  BY <1>34 DEF Restart, Fault
<1>35. CASE UNCHANGED vars
  BY <1>35 DEF vars
<1> QED
  BY <1>1, <1>2, <1>3, <1>4, <1>5, <1>6, <1>7, <1>8, <1>9, <1>10, <1>11, <1>12, <1>13, <1>14, <1>15, <1>16, <1>17, <1>18, <1>19, <1>20, <1>21, <1>22, <1>23, <1>24, <1>25, <1>26, <1>27, <1>28, <1>29, <1>30, <1>31, <1>32, <1>33, <1>34, <1>35
  DEF Next, BuildTick, CrewStep, SessionStep, PublishStep, HookStep, Environment
-----------------------------------------------------------------------------
IInv == TypeOK /\ Place /\ Spending /\ Notes /\ Verified /\ Published /\ LedgerComplete

\* The invariant holds for a freshly approved project.
LEMMA Initially == Init => IInv
<1> SUFFICES ASSUME Init PROVE IInv
  OBVIOUS
<1> USE BuildAssumption, NoAttemptType DEF Init
<1>1. TypeOK
  <2>1. /\ target \in [Note -> Role \cup {"all", "none"}]
        /\ delivered \subseteq Note \X Role /\ hand \subseteq delivered
        /\ hook \in [Hook -> SUBSET Note] /\ latest \in [SdkRole -> Session]
    BY DEF Session
  <2>2. told \in [Note \X Role -> Nat]
    OBVIOUS
  <2>3. /\ spent \in Nat /\ unledgered \in Nat /\ retry \in Nat
        /\ done \in 0 .. MilestoneCount /\ faults \in 0 .. MaxFaults
    OBVIOUS
  <2>4. /\ dayOver \in BOOLEAN /\ dirty \in BOOLEAN /\ headOk \in BOOLEAN /\ exists \in BOOLEAN
        /\ wired \in BOOLEAN /\ recorded \in BOOLEAN /\ announced \in BOOLEAN
        /\ remote \in {"none", "old", "new"} /\ pc \in BuildSteps \cup {"idle", "raised"}
        /\ stage \in {"building", "integration", "done", "blocked"} /\ att \in Attempt
    OBVIOUS
  <2> QED
    BY <2>1, <2>2, <2>3, <2>4 DEF TypeOK
<1>2. Place /\ Spending /\ Notes /\ Verified
  BY DEF Place, Spending, Notes, Verified, BuildSteps
<1>3. Published
  BY DEF Published, BuildSteps
<1>4. LedgerComplete
  BY DEF LedgerComplete
<1> QED
  BY <1>1, <1>2, <1>3, <1>4 DEF IInv

\* The invariant holds throughout, whatever fails and in whatever order.
LEMMA Inductive == Spec => []IInv
<1>1. IInv /\ [Next]_vars => IInv'
  BY TypeStep, PlaceStep, SpendingStep, NotesStep, VerifiedStep, PublishedStep, LedgerStep
  DEF IInv
<1> QED
  BY Initially, <1>1, PTL DEF Spec

(***************************************************************************)
(* Type correctness of the building of a project.                          *)
(***************************************************************************)
THEOREM TypeCorrect == Spec => []TypeOK
<1>1. IInv => TypeOK
  BY DEF IInv
<1> QED  BY Inductive, <1>1, PTL

(***************************************************************************)
(* However many hooks of a turn select the same notes, and however often a *)
(* call builds its options, no agent hears a note twice.                   *)
(***************************************************************************)
THEOREM ToldOnceCorrect == Spec => []ToldOnce
<1>1. IInv => ToldOnce
  BY DEF IInv, Notes, ToldOnce
<1> QED  BY Inductive, <1>1, PTL

(***************************************************************************)
(* A note is only ever lost to a role by a call that fails under it.       *)
(***************************************************************************)
THEOREM LostWithFailedCallCorrect == Spec => LostWithFailedCall
<1>1. IInv /\ [Next]_vars =>
        [Lost' \subseteq Lost \/ faults' # faults
           \/ (pc = "session" /\ pc' = "retry") \/ (pc = "stream" /\ pc' = "failed")]_vars
  BY LostStep DEF IInv
<1> QED  BY Inductive, <1>1, PTL DEF Spec, LostWithFailedCall

(***************************************************************************)
(* For every cap and every size of a call: a milestone never passes its    *)
(* cap by more than three calls.                                           *)
(***************************************************************************)
THEOREM SpendBoundedCorrect == Spec => []SpendBounded
<1>1. IInv => SpendBounded
  BY DEF IInv, Spending, SpendBounded
<1> QED  BY Inductive, <1>1, PTL

(***************************************************************************)
(* Each fault hides at most one call's tokens from the ledger, and nothing *)
(* else hides any.                                                         *)
(***************************************************************************)
THEOREM LedgerCompleteCorrect == Spec => []LedgerComplete
<1>1. IInv => LedgerComplete
  BY DEF IInv
<1> QED  BY Inductive, <1>1, PTL

(***************************************************************************)
(* What an up-to-date main shows has passed CI and review.                 *)
(***************************************************************************)
THEOREM PushVerifiedCorrect == Spec => []PushVerified
<1>1. IInv => PushVerified
  BY DEF IInv, Verified, PushVerified
<1> QED  BY Inductive, <1>1, PTL

(***************************************************************************)
(* Without a fault, a finished milestone is on GitHub between ticks.       *)
(***************************************************************************)
THEOREM PublishedUnlessFaultCorrect == Spec => []PublishedUnlessFault
<1>1. IInv => PublishedUnlessFault
  BY DEF IInv, Published, PublishedUnlessFault
<1> QED  BY Inductive, <1>1, PTL

(***************************************************************************)
(* A tick raises only in the step in which something failed.               *)
(***************************************************************************)
THEOREM RaisesOnlyOnFaultCorrect == Spec => RaisesOnlyOnFault
<1>1. IInv /\ [Next]_vars => [pc' = "raised" /\ pc # "raised" => faults' # faults]_vars
  BY RaisesStep DEF IInv
<1> QED  BY Inductive, <1>1, PTL DEF Spec, RaisesOnlyOnFault
=============================================================================
