----------------------------- MODULE ProjectPool -----------------------------
(***************************************************************************)
(* The pool's half of a worker: claim a project, run the tick in a thread, *)
(* handle what it raised, release the claim.  All of it runs on the event  *)
(* loop and holds it between two awaits, so a claim (five queries and the  *)
(* search through their result) and a release are each one step.           *)
(***************************************************************************)
EXTENDS Swarm

\* One pass of the loop in _claim_next over one candidate.
Claimable_ignoring_claims(p) == state[p] \in ADVANCEABLE_STATES /\ ~cooldown[p]

Claimable(p) ==
  /\ state[p] \in ADVANCEABLE_STATES
  /\ p \notin claimed
  /\ ~cooldown[p]

ClaimNext_newest(i, p) ==
  /\ pc[i] = "idle"
  /\ Claimable(p)
  /\ \A q \in Project : Claimable(q) => q <= p
  /\ claimed' = claimed \cup {p}
  /\ pc' = [pc EXCEPT ![i] = "entry"]
  /\ job' = [job EXCEPT ![i] = [NoJob EXCEPT !.p = p, !.snap = state[p]]]
  /\ UNCHANGED <<projectVars, ms, costly, redisVars, envVars, fails, cooldown, op>>

\* _claim_next: the oldest candidate that is neither claimed nor backing off.
ClaimNext(i, p) ==
  /\ pc[i] = "idle"
  /\ Claimable(p)
  /\ \A q \in Project : Claimable(q) => p <= q
  /\ claimed' = claimed \cup {p}
  /\ pc' = [pc EXCEPT ![i] = "entry"]
  /\ job' = [job EXCEPT ![i] = [NoJob EXCEPT !.p = p, !.snap = state[p]]]
  /\ UNCHANGED <<projectVars, ms, costly, redisVars, envVars, fails, cooldown, op>>

ClearTransient(p) ==
  /\ fails' = [fails EXCEPT ![p] = 0]
  /\ cooldown' = [cooldown EXCEPT ![p] = FALSE]

\* The finally clause of _step.
Release(i) ==
  /\ pc' = [pc EXCEPT ![i] = "idle"]
  /\ job' = [job EXCEPT ![i] = NoJob]
  /\ claimed' = claimed \ {job[i].p}

\* The tick came back, advanced or deliberately idle: the streak is over.
CleanTick(i) ==
  /\ pc[i] = "return"
  /\ ClearTransient(job[i].p)
  /\ Release(i)
  /\ UNCHANGED <<projectVars, ms, costly, redisVars, envVars, op>>

BackOff_without_limit(i) ==
  /\ pc[i] = "crashed"
  /\ fails' = [fails EXCEPT ![job[i].p] = 1]
  /\ cooldown' = [cooldown EXCEPT ![job[i].p] = TRUE]
  /\ Release(i)
  /\ UNCHANGED <<projectVars, ms, costly, redisVars, envVars, op>>

(***************************************************************************)
(* _handle_crash.  Whether an exception is transient is read off its type  *)
(* and message, where any exception can match; a streak of transient ones  *)
(* ends at the limit, and everything else blocks at once.                  *)
(***************************************************************************)
BackOff(i) ==
  /\ pc[i] = "crashed"
  /\ fails[job[i].p] + 1 < MaxTransientFails
  /\ fails' = [fails EXCEPT ![job[i].p] = @ + 1]
  /\ cooldown' = [cooldown EXCEPT ![job[i].p] = TRUE]
  /\ Release(i)
  /\ UNCHANGED <<projectVars, ms, costly, redisVars, envVars, op>>

BlockCrashed(i) ==
  /\ pc[i] = "crashed"
  /\ LegalProject(job[i].snap, "blocked")
  /\ state' = [state EXCEPT ![job[i].p] = "blocked"]
  /\ ClearTransient(job[i].p)
  /\ Release(i)
  /\ UNCHANGED <<paused, approved, ms, costly, redisVars, envVars, op>>

\* The block itself fails to be written; the error is logged and dropped.
BlockLost(i) ==
  /\ pc[i] = "crashed"
  /\ faults < MaxFaults
  /\ faults' = faults + 1
  /\ ClearTransient(job[i].p)
  /\ Release(i)
  /\ UNCHANGED <<projectVars, ms, costly, redisVars, dayOver, op>>

\* The monotonic clock passes _cooldown_until.
CooldownElapses(p) ==
  /\ cooldown[p]
  /\ cooldown' = [cooldown EXCEPT ![p] = FALSE]
  /\ UNCHANGED <<projectVars, ms, costly, redisVars, envVars, claimed, fails,
                 workerVars, op>>

PoolStep(i) ==
  \/ \E p \in Project : ClaimNext(i, p)
  \/ CleanTick(i) \/ BackOff(i) \/ BlockCrashed(i)
=============================================================================
