---------------------------- MODULE MilestoneBuild ----------------------------
(***************************************************************************)
(* The building of one project with everything a build step does: Tick's   *)
(* _build_one_milestone and _integrate around the crew, the agents'        *)
(* sessions, steering and publishing, with restarts and failing calls.     *)
(* (The step of the crew is one action in Tick; the states of milestones,  *)
(* the scope guard and the replanner's decisions are there.)               *)
(***************************************************************************)
EXTENDS BuildCrew, Publishing

\* A milestone that failed once too often blocks the project.
CountFailure(count) ==
  /\ retry' = retry + 1
  /\ stage' = IF count + 1 >= RetryLimit THEN "blocked" ELSE "building"
  /\ UNCHANGED done

(***************************************************************************)
(* A building tick: the milestone's token cap is a circuit breaker, then   *)
(* the repository is ensured unless it is there or GitHub is not used.     *)
(***************************************************************************)
TripBreaker ==
  /\ pc = "idle" /\ stage = "building" /\ done < MilestoneCount
  /\ ~dayOver /\ spent > TokenCap
  /\ CountFailure(retry)
  /\ UNCHANGED <<noteVars, latest, ledgerVars, dayOver, treeVars, repoVars, pc, att, faults>>

BeginBuild ==
  /\ pc = "idle" /\ stage = "building" /\ done < MilestoneCount
  /\ CanSpend
  /\ att' = [NoAttempt EXCEPT !.retry = retry, !.repo = recorded]
  /\ Goto(IF recorded \/ ~GithubToken THEN "call" ELSE "create")
  /\ UNCHANGED <<noteVars, latest, ledgerVars, dayOver, treeVars, repoVars, rowVars, faults>>

\* The success path: commit what the crew left, record the attempt, push.
Commit ==
  /\ pc = "commit"
  /\ dirty' = FALSE
  /\ headOk' = (att.gate = {"ci", "review"})
  /\ remote' = IF dirty /\ remote = "new" THEN "old" ELSE remote
  /\ Goto("done")
  /\ UNCHANGED <<noteVars, latest, ledgerVars, dayOver, exists, wired, recorded, announced,
                 rowVars, att, faults>>

\* record_attempt(success); the next milestone has no session and no spend.
RecordDone ==
  /\ pc = "done"
  /\ done' = done + 1
  /\ retry' = 0
  /\ latest' = [r \in SdkRole |-> "none"]
  /\ spent' = 0
  /\ Goto("push")
  /\ UNCHANGED <<noteVars, unledgered, dayOver, treeVars, repoVars, stage, att, faults>>

(***************************************************************************)
(* _handle_build_failure: the Diagnostician, if today's budget allows,     *)
(* leaves a note for every role (or, on any error, none); then the attempt *)
(* counts as failed.                                                       *)
(***************************************************************************)
Diagnose(tokens) ==
  /\ pc = "failed"
  /\ IF dayOver THEN UNCHANGED <<ledgerVars, target, faults>>
     ELSE /\ Ledger(tokens, TRUE)
          /\ UNCHANGED target \/ \E n \in Note : add_note(n, "all")
  /\ Goto("attempt")
  /\ UNCHANGED <<delivered, hand, told, hook, latest, dayOver, treeVars, repoVars,
                 rowVars, att>>

RecordFailure ==
  /\ pc = "attempt"
  /\ CountFailure(att.retry)
  /\ Leave
  /\ UNCHANGED <<noteVars, latest, ledgerVars, dayOver, treeVars, repoVars, faults>>

\* The replanning crew reads about the failed milestone before the next try.
ReplanSpends(tokens) ==
  /\ pc = "idle" /\ stage = "building" /\ retry > 0 /\ CanSpend
  /\ Ledger(tokens, TRUE)
  /\ UNCHANGED <<noteVars, latest, dayOver, treeVars, repoVars, rowVars, pc, att>>

AllBuilt ==
  /\ pc = "idle" /\ stage = "building" /\ done = MilestoneCount
  /\ stage' = "integration"
  /\ UNCHANGED <<noteVars, latest, ledgerVars, dayOver, treeVars, repoVars, done, retry,
                 pc, att, faults>>

\* _integrate: the CI gate over the whole repository.
Integrate(passed) ==
  /\ pc = "idle" /\ stage = "integration"
  /\ IF passed
       THEN Goto("ship") /\ att' = [NoAttempt EXCEPT !.repo = recorded] /\ UNCHANGED stage
       ELSE stage' = "blocked" /\ UNCHANGED <<pc, att>>
  /\ UNCHANGED <<noteVars, latest, ledgerVars, dayOver, treeVars, repoVars, done, retry, faults>>

\* The operator resumes a blocked project: its milestones get their retries
\* back, and keep what they spent.
Resume ==
  /\ stage = "blocked" /\ pc = "idle"
  /\ stage' = "building"
  /\ retry' = 0
  /\ UNCHANGED <<noteVars, latest, ledgerVars, dayOver, treeVars, repoVars, done, pc, att, faults>>

\* A call to a store, to git, to CI or to the Reviewer raises out of the tick.
CallRaises ==
  /\ pc \in {"call", "session", "retry", "budget", "ci", "review", "kick",
             "commit", "done", "attempt"}
  /\ Fault
  /\ hand' = {}
  /\ Goto("raised")
  /\ UNCHANGED <<target, delivered, told, hook, latest, ledgerVars, dayOver, treeVars,
                 repoVars, rowVars, att>>

\* The pool backs off and ticks again, or blocks the project.
TickCrashed ==
  /\ pc = "raised"
  /\ stage' \in {stage, "blocked"}
  /\ Leave
  /\ UNCHANGED <<noteVars, latest, ledgerVars, dayOver, treeVars, repoVars, done, retry, faults>>

\* The process dies with what it holds; the container's CLI sessions may go
\* with it.  Tokens of a running call are in no ledger line.
Restart(wiped) ==
  /\ Fault
  /\ IF pc = "stream" THEN HooksDie /\ Unledgered
     ELSE /\ hand' = {} /\ UNCHANGED <<target, delivered, told, hook, ledgerVars>>
  /\ latest' = IF wiped
       THEN [r \in SdkRole |-> IF latest[r] = "none" THEN "none" ELSE "dead"] ELSE latest
  /\ Leave
  /\ UNCHANGED <<dayOver, treeVars, repoVars, rowVars>>

DayEnds ==
  /\ dayOver' = ~dayOver
  /\ UNCHANGED <<noteVars, latest, ledgerVars, treeVars, repoVars, rowVars, pc, att, faults>>

BuildTick ==
  \/ TripBreaker \/ BeginBuild \/ CrewStep \/ Commit \/ RecordDone \/ PublishStep
  \/ \E tokens \in 0 .. MaxCall : Diagnose(tokens)
  \/ RecordFailure \/ AllBuilt \/ TickCrashed
  \/ \E passed \in CiVerdicts : Integrate(passed)

HookStep == \E h \in Hook : HookSelect(h) \/ HookClaim(h)

Environment ==
  \/ \E n \in Note, role \in Role \cup {"all"} : InjectNote(n, role)
  \/ Resume \/ DayEnds \/ CallRaises \/ EnsureRepoFails
  \/ \E tokens \in 1 .. MaxCall : ReplanSpends(tokens)
  \/ \E e \in Edits : SessionDies(e)
  \/ \E wiped \in BOOLEAN : Restart(wiped)

Next == BuildTick \/ HookStep \/ Environment

(***************************************************************************)
(* A worker keeps ticking, a session ends (its turns are limited) and a    *)
(* hook's query returns.                                                   *)
(***************************************************************************)
Spec == Init /\ [][Next]_vars /\ WF_vars(BuildTick) /\ WF_vars(HookStep)

-----------------------------------------------------------------------------
(***************************************************************************)
(* No agent is told a note twice, although the hooks of one turn pull at   *)
(* the same time and a call may build its options twice.                   *)
(***************************************************************************)
ToldOnce == \A x \in Note \X Role : told[x] <= 1

\* Delivered in the database, but no agent heard it or is about to.
Lost == {x \in delivered : told[x] = 0 /\ x \notin hand}

(***************************************************************************)
(* A note is lost to a role only when a call fails under it: the process   *)
(* or the CLI dies, a session cannot be resumed, or the Reviewer raises.   *)
(* No call that goes well ever loses one.                                  *)
(***************************************************************************)
LostWithFailedCall ==
  [][Lost' \subseteq Lost \/ faults' # faults
       \/ (pc = "session" /\ pc' = "retry") \/ (pc = "stream" /\ pc' = "failed")]_vars

(***************************************************************************)
(* "Each note is delivered exactly once per role" (steering/protocols.py), *)
(* also when a call falls back from a session that is gone to a fresh one: *)
(* only a call that raises and a restart can lose a note.                  *)
(***************************************************************************)
DeliveredOnce == [][Lost' \subseteq Lost \/ faults' # faults \/ pc = "stream"]_vars

(***************************************************************************)
(* The per-milestone cap: with every stage asking again, one milestone     *)
(* passes its cap by at most three calls (two Reviewer kickoffs and the    *)
(* Diagnostician), whatever fails, resumes and is retried.                 *)
(***************************************************************************)
SpendBounded == spent <= TokenCap + 3 * MaxCall

(***************************************************************************)
(* Every token is in the ledger the caps are judged by, also when a stream *)
(* drops without a result; only a call that died, a failed write of the    *)
(* ledger or a restart hides some.                                         *)
(***************************************************************************)
LedgerComplete == unledgered <= faults * MaxCall

(***************************************************************************)
(* What GitHub's main shows when it is up to date has passed CI and review *)
(* as it stands, although agents edit and commit, attempts fail half way   *)
(* and a later attempt finds what an earlier one left.                     *)
(***************************************************************************)
PushVerified == remote = "new" => headOk

(***************************************************************************)
(* Without a fault every finished milestone is on GitHub when its tick     *)
(* ends, the first one too, whose tick created the repository.             *)
(***************************************************************************)
PublishedUnlessFault ==
  GithubToken /\ faults = 0 /\ pc = "idle" /\ done > 0 /\ headOk /\ ~dirty
    => recorded /\ remote = "new"

(***************************************************************************)
(* A tick raises only in the step in which something failed: sessions lost *)
(* in an earlier restart, failed gates and unreadable verdicts never make   *)
(* it crash.                                                               *)
(***************************************************************************)
RaisesOnlyOnFault == [][pc' = "raised" /\ pc # "raised" => faults' # faults]_vars

(***************************************************************************)
(* A build step comes to an end: repairs, the fresh retry and the second   *)
(* Reviewer attempt are bounded even if nothing ever succeeds.             *)
(***************************************************************************)
StepEnds == pc # "idle" ~> pc = "idle"
=============================================================================
