--------------------------- MODULE LifecycleProofs ---------------------------
(***************************************************************************)
(* Theorems about a project's way through its states: what it ships, what  *)
(* it retries, who opens its gate, and that it implements ProjectLifecycle.*)
(***************************************************************************)
EXTENDS MilestoneGraphProofs

USE DEF projectVars, redisVars, poolVars, envVars, workerVars

-----------------------------------------------------------------------------
(* Plans and finished work: what each state and each decision stands on    *)

\* The states only a planned project is in.
PlannedStates == {"awaiting_approval", "building", "replanning", "integration", "done"}

\* A tick that works on a plan has one, and one that ships has finished it.
JobBacked(i) ==
  /\ Busy(i) /\ job[i].snap \in PlannedStates => Rows(Table0(i)) # {}
  /\ Busy(i) /\ job[i].snap = "integration" => AllDone(Table0(i))
  /\ pc[i] = "move" /\ job[i].goal \in PlannedStates => Rows(Table0(i)) # {}
  /\ pc[i] = "move" /\ job[i].goal \in {"integration", "done"} => AllDone(Table0(i))

StateBacked(p) ==
  /\ state[p] \in PlannedStates => Rows(ms[p]) # {}
  /\ state[p] \in {"integration", "done"} => AllDone(ms[p])

\* A handler about to write building has seen a plan.
HandlerBacked(o) ==
  op[o].step \in {"approve", "resume_reset", "resume_build"} => Rows(ms[op[o].p]) # {}

Backed ==
  /\ \A i \in Worker : JobBacked(i)
  /\ \A p \in Project : StateBacked(p)
  /\ \A o \in Operator : HandlerBacked(o)

\* A tick of the integration handler writes no milestone and reopens nothing.
LEMMA IntegrationTick ==
  ASSUME TypeOK, Fits, NEW i \in Worker, TickStep(i) \/ CallRaises(i),
         job[i].snap = "integration"
  PROVE  /\ ms'[job[i].p] = ms[job[i].p]
         /\ pc'[i] = "move" => job'[i].goal \in {"killed", "done", "blocked"}
<1>1. /\ pc[i] \notin BuildSteps \cup ReplanSteps \cup {"plan"}
      /\ HandlerOf(job[i].snap) # "move"
  BY DEF Fits, JobFits, HandlerOf
<1> USE DEF BuildSteps, ReplanSteps, Table0
<1>2. EffectStop(i) \/ EffectDecide(i) \/ EffectEnter(i)
  BY <1>1, TickEffects
     DEF Effect, EffectPlan, EffectReclaim, EffectPick, EffectCap, EffectBegin, EffectCrew,
         EffectRecord, EffectConsolidate, EffectAutoSplit, EffectReply, EffectApply
<1> QED
  BY <1>1, <1>2 DEF EffectStop, EffectDecide, EffectEnter

\* Every step of a tick keeps its own decision backed.
LEMMA TickBacked ==
  ASSUME TypeOK, Fits, NEW i \in Worker, TickStep(i) \/ CallRaises(i),
         Tracks(i), JobBacked(i)
  PROVE  JobBacked(i)'
<1> DEFINE j == job[i]
           p == job[i].p
           t == ms[p]
<1>0. /\ p \in Project /\ t \in Table /\ JobFits(i)
      /\ job'[i].p = p /\ job'[i].snap = j.snap /\ pc[i] # "idle"
  BY TickFramed DEF TypeOK, Job, TickFrame, Fits
<1>1. Rows(t) # {} => Rows(ms'[p]) # {}
  BY TickStaysPlanned
<1>2. ASSUME j.snap = "integration"
      PROVE  ms'[p] = t /\ (pc'[i] = "move" => job'[i].goal \in {"killed", "done", "blocked"})
  BY <1>2, IntegrationTick
<1>3. ASSUME pc'[i] = "move", job'[i].goal \in PlannedStates
      PROVE  Rows(ms'[p]) # {}
  <2>1. CASE j.snap \in PlannedStates
    BY <1>0, <1>1, <2>1 DEF JobBacked, Busy, Table0
  <2>2. CASE j.snap \notin PlannedStates
    <3>1. j.snap \in {"queued", "planning"}
      BY <1>0, <2>2 DEF JobFits, Busy, ADVANCEABLE_STATES, PlannedStates
    <3>2. pc[i] \notin BuildSteps \cup ReplanSteps \cup {"integrate"}
      BY <1>0, <3>1 DEF JobFits
    <3>3. EffectPlan(i)
      <4> USE DEF BuildSteps, ReplanSteps, Table0, PlannedStates
      <4>1. ~EffectStop(i) /\ ~EffectDecide(i)
        BY <1>3, <3>2 DEF EffectStop, EffectDecide
      <4>2. ~EffectEnter(i)
        BY <1>3, <3>1 DEF EffectEnter, HandlerOf
      <4> QED
        BY <3>2, <4>1, <4>2, TickEffects
           DEF Effect, EffectReclaim, EffectPick, EffectCap, EffectBegin, EffectCrew,
               EffectRecord, EffectConsolidate, EffectAutoSplit, EffectReply, EffectApply
    <3> QED
      BY <3>3, TickStaysPlanned
  <2> QED
    BY <2>1, <2>2
<1>4. ASSUME pc'[i] = "move", job'[i].goal \in {"integration", "done"}
      PROVE  AllDone(ms'[p])
  <2>1. CASE j.snap = "integration"
    BY <1>0, <1>2, <2>1 DEF JobBacked, Busy, Table0
  <2>2. CASE j.snap # "integration"
    <3>1. pc[i] # "integrate"
      BY <1>0, <2>2 DEF JobFits
    <3>2. EffectDecide(i)
      <4>1. ~EffectStop(i)
        BY <1>4 DEF EffectStop
      <4>2. ~EffectEnter(i)
        BY <1>0, <1>4 DEF EffectEnter, HandlerOf, JobFits, Busy, ADVANCEABLE_STATES
      <4>3. ~EffectPlan(i) /\ ~EffectRecord(i)
        BY <1>4 DEF EffectPlan, EffectRecord, AfterFailure
      <4> QED
        BY <1>4, <4>1, <4>2, <4>3, TickEffects
           DEF Effect, EffectReclaim, EffectPick, EffectCap, EffectBegin, EffectCrew,
               EffectConsolidate, EffectAutoSplit, EffectReply, EffectApply
    <3>3. pc[i] \in {"pick", "replan"} /\ Waiting(t) = {} /\ ms'[p] = t
      BY <1>4, <3>1, <3>2 DEF EffectDecide, Table0
    <3>4. Quiet(t)
      BY <3>3 DEF Tracks, Resting, QuietSteps, ReplanSteps, Table0
    <3> QED
      BY <1>0, <3>3, <3>4, NothingLeft
  <2> QED
    BY <2>1, <2>2
<1> QED
  BY <1>0, <1>1, <1>2, <1>3, <1>4 DEF JobBacked, Busy, Table0

\* With nothing under construction a restart changes no milestone's state.
LEMMA QuietRequeue ==
  ASSUME NEW t \in Table, Quiet(t)
  PROVE  SameStates(t, requeue_stale_building(t))
<1>1. \A m \in MilestoneId : t[m] \in Row
  BY RowFacts
<1> QED
  BY <1>1 DEF Quiet, SameStates, requeue_stale_building

\* A planned project stays planned, whoever takes the step.
LEMMA StaysPlanned ==
  ASSUME TypeOK, Fits, Orderly, [Next]_vars, NEW p \in Project, Rows(ms[p]) # {}
  PROVE  Rows(ms'[p]) # {}
<1>1. ms[p] \in Table /\ Contiguous(ms[p]) /\ \A i \in Worker : Tracks(i)
  BY DEF TypeOK, Orderly
<1>2. /\ SameRows(ms[p], requeue_stale_building(ms[p]))
      /\ SameRows(ms[p], reset_retry_count(ms[p]))
  BY <1>1, RowUpdatesKeepRows, IdAssumption
<1> QED
  BY <1>1, <1>2, TableWriters, TickStaysPlanned, SameRowsContiguous

\* Every step keeps every worker's decision backed.
LEMMA JobBackedStep ==
  ASSUME TypeOK, ClaimsExclusive, Fits, Orderly, Backed, [Next]_vars
  PROVE  \A k \in Worker : JobBacked(k)'
<1> USE DEF Table0
<1>0. \A k \in Worker : JobBacked(k) /\ Tracks(k) /\ job[k].p \in Project
  BY DEF Backed, Orderly, TypeOK, Job
<1>i. ASSUME NEW k \in Worker, pc'[k] = "idle" PROVE JobBacked(k)'
  BY <1>i DEF JobBacked, Busy
<1>s. ASSUME NEW k \in Worker, pc'[k] = pc[k], job'[k] = job[k],
             \/ pc[k] = "idle" \/ ms'[job[k].p] = ms[job[k].p]
             \/ SameStates(ms[job[k].p], ms'[job[k].p])
      PROVE  JobBacked(k)'
  <2>1. CASE pc[k] = "idle"
    BY <1>i, <1>s, <2>1
  <2>2. CASE SameStates(ms[job[k].p], ms'[job[k].p])
    BY <1>0, <1>s, <2>2, SameStatesKeep DEF JobBacked, Busy
  <2>3. CASE ms'[job[k].p] = ms[job[k].p]
    BY <1>0, <1>s, <2>3 DEF JobBacked, Busy
  <2> QED
    BY <1>s, <2>1, <2>2, <2>3
<1>1. ASSUME NEW i \in Worker, TickStep(i) \/ CallRaises(i), NEW k \in Worker
      PROVE  JobBacked(k)'
  <2>1. CASE k = i
    BY <1>0, <1>1, <2>1, TickBacked
  <2>2. CASE k # i
    BY <1>1, <1>s, <2>2, TickOthers DEF Busy
  <2> QED
    BY <2>1, <2>2
<1>2. CASE Restart
  BY <1>2, <1>i DEF Restart
<1>3. ASSUME ~Restart, \A i \in Worker : ~TickStep(i) /\ ~CallRaises(i), NEW k \in Worker
      PROVE  JobBacked(k)'
  <2>1. ASSUME NEW p \in Project
        PROVE  ms'[p] = ms[p] \/ SameStates(ms[p], ms'[p])
    <3>1. ms[p] \in Table
      BY DEF TypeOK
    <3> QED
      BY <1>3, <3>1, TableWriters, SideUpdatesKeepStates, IdAssumption
  <2>2. ASSUME pc'[k] = pc[k], job'[k] = job[k] PROVE JobBacked(k)'
    BY <1>0, <1>s, <2>1, <2>2
  <2>3. ASSUME NEW i \in Worker, NEW p \in Project, ClaimNext(i, p) PROVE JobBacked(k)'
    <3>1. CASE k = i
      <4>0. ms' = ms
        BY <2>3 DEF ClaimNext
      <4>1. pc'[k] = "entry" /\ job'[k].p = p /\ job'[k].snap = state[p] /\ ms' = ms
        BY <2>3, <3>1, <4>0, ClaimFrame
      <4>2. StateBacked(p)
        BY DEF Backed
      <4> QED
        BY <4>1, <4>2 DEF StateBacked, JobBacked, Busy
    <3>2. CASE k # i
      BY <2>2, <2>3, <3>2, ClaimFrame DEF Others
    <3> QED
      BY <3>1, <3>2
  <2>4. ASSUME NEW i \in Worker, Release(i) PROVE JobBacked(k)'
    <3>1. CASE k = i
      BY <1>i, <2>4, <3>1, ReleaseFrame
    <3>2. CASE k # i
      BY <2>2, <2>4, <3>2, ReleaseFrame DEF Others
    <3> QED
      BY <3>1, <3>2
  <2> QED
    BY <1>3, <2>2, <2>3, <2>4, StepKinds
<1> QED
  BY <1>1, <1>2, <1>3

\* Every step leaves every project in a state its milestones back.
LEMMA StateBackedStep ==
  ASSUME TypeOK, Fits, Orderly, Backed, [Next]_vars, NEW p \in Project
  PROVE  StateBacked(p)'
<1> DEFINE t == ms[p]
<1>0. t \in Table /\ StateBacked(p) /\ SettledQuiet(p)
  BY DEF TypeOK, Backed, Orderly
<1>1. CASE state'[p] = state[p]
  <2>1. state'[p] \in PlannedStates => Rows(ms'[p]) # {}
    BY <1>0, <1>1, StaysPlanned DEF StateBacked
  <2>2. ASSUME state'[p] \in {"integration", "done"} PROVE AllDone(ms'[p])
    <3>1. AllDone(t) /\ Quiet(t)
      BY <1>0, <1>1, <2>2 DEF StateBacked, SettledQuiet
    <3>2. ASSUME NEW i \in Worker, TickStep(i) \/ CallRaises(i), job[i].p = p
          PROVE  ms'[p] = t
      <4>1. job[i].snap = "integration"
        <5>1. pc[i] \in TickSteps /\ Loose(i) /\ JobFits(i)
          BY <3>2, TickFrom DEF Orderly, Fits
        <5> QED
          BY <1>1, <2>2, <3>2, <5>1
             DEF Loose, JobFits, Busy, TickSteps, ADVANCEABLE_STATES
      <4> QED
        BY <3>2, <4>1, IntegrationTick
    <3>3. SameStates(t, requeue_stale_building(t)) /\ SameStates(t, reset_retry_count(t))
      BY <1>0, <3>1, QuietRequeue, SideUpdatesKeepStates, IdAssumption
    <3> QED
      BY <3>1, <3>2, <3>3, TableWriters, SameStatesKeep
  <2> QED
    BY <2>1, <2>2 DEF StateBacked
<1>2. ASSUME NEW o \in Operator, ApproveWrite(o, p) \/ ResumeWrite(o, p),
             state'[p] \in {"building", "planning"}, UNCHANGED ms
      PROVE  StateBacked(p)'
  <2>1. state'[p] = "building" => Rows(t) # {}
    <3>1. CASE ApproveWrite(o, p)
      <4>1. op[o].step = "approve" /\ op[o].p = p
        BY <3>1 DEF ApproveWrite, At
      <4> QED
        BY <4>1 DEF Backed, HandlerBacked
    <3>2. CASE ResumeWrite(o, p)
      <4>1. op[o].p = p /\ op[o].step \in {"resume_plan", "resume_build"}
        BY <3>2 DEF ResumeWrite, At
      <4>2. op[o].step = "resume_plan" => state'[p] = "planning"
        BY <3>2 DEF ResumeWrite, TypeOK
      <4> QED
        BY <4>1, <4>2 DEF Backed, HandlerBacked
    <3> QED
      BY <1>2, <3>1, <3>2
  <2> QED
    BY <1>2, <2>1 DEF StateBacked, PlannedStates
<1>3. ASSUME NEW i \in Worker, job[i].p = p, state'[p] = job[i].goal, pc[i] = "move",
             UNCHANGED ms
      PROVE  StateBacked(p)'
  BY <1>3 DEF Backed, JobBacked, StateBacked, Table0
<1>4. CASE state'[p] = "blocked"
  BY <1>4 DEF StateBacked, PlannedStates
<1> QED
  BY <1>1, <1>2, <1>3, <1>4, StateWrites

\* What a resume has seen or done when it goes on to its next call.
LEMMA ResumeMoves ==
  ASSUME TypeOK, [Next]_vars, NEW o \in Operator,
         op'[o].step \in {"resume_plan", "resume_reset", "resume_build"}, op'[o] # op[o]
  PROVE  /\ op'[o].step = "resume_plan" => Rows(ms[op'[o].p]) = {} /\ ms' = ms
         /\ op'[o].step = "resume_reset" => Rows(ms[op'[o].p]) # {}
         /\ op'[o].step = "resume_build" =>
              ms'[op'[o].p] = reset_retry_count(ms[op'[o].p])
<1> USE DEF TypeOK, OpGoto, OpDone, NoOp
<1>1. ASSUME NEW b \in Operator, NEW p \in Project, ResumeRead(b, p)
      PROVE  /\ op'[o].step = "resume_plan" => Rows(ms[op'[o].p]) = {} /\ ms' = ms
             /\ op'[o].step = "resume_reset" => Rows(ms[op'[o].p]) # {}
             /\ op'[o].step # "resume_build"
  <2>1. CASE AfterResumeRead(p) = "idle"
    BY <1>1, <2>1 DEF ResumeRead
  <2>2. CASE AfterResumeRead(p) # "idle"
    <3>1. /\ AfterResumeRead(p) = "resume_reset" => Rows(ms[p]) # {}
          /\ AfterResumeRead(p) = "resume_plan" => Rows(ms[p]) = {}
          /\ AfterResumeRead(p) # "resume_build"
      BY DEF AfterResumeRead
    <3>2. op' = [op EXCEPT ![b] = [step |-> AfterResumeRead(p), p |-> p]] /\ ms' = ms
      BY <1>1, <2>2 DEF ResumeRead
    <3> QED
      BY <3>1, <3>2
  <2> QED
    BY <2>1, <2>2
<1>2. ASSUME NEW b \in Operator, NEW p \in Project,
             \/ ApproveRead(b, p) \/ Pause(b, p) \/ ResumeSignals(b, p) \/ Abort(b, p)
             \/ KillSwitch(b) \/ ApproveWrite(b, p) \/ ResumeWrite(b, p)
      PROVE  FALSE
  BY <1>2 DEF ApproveRead, Pause, ResumeSignals, Abort, KillSwitch, ApproveWrite, ResumeWrite
<1>3. ASSUME NEW b \in Operator, NEW p \in Project, ResumeReset(b, p)
      PROVE  /\ op'[o].step = "resume_build"
             /\ ms'[op'[o].p] = reset_retry_count(ms[op'[o].p])
  BY <1>3 DEF ResumeReset
<1>4. ASSUME NEW i \in Worker, WorkerStep(i) \/ CallRaises(i) \/ BlockLost(i)
      PROVE  FALSE
  BY <1>4, TickFramed
     DEF WorkerStep, TickFrame, PoolStep, ClaimNext, CleanTick, BackOff, BlockCrashed, BlockLost
<1>5. ~Restart
  BY DEF Restart
<1>6. ~ \/ \E p \in Project : CooldownElapses(p)
        \/ RedisLost \/ DaySpent \/ DayRolls \/ UNCHANGED vars
  BY DEF CooldownElapses, RedisLost, DaySpent, DayRolls, vars
<1>7. ASSUME NEW b \in Operator, Command(b) PROVE FALSE
  BY <1>2, <1>7, IdAssumption DEF Command
<1> QED
  BY <1>1, <1>2, <1>3, <1>4, <1>5, <1>6, <1>7 DEF Next, HandlerStep

\* Every step leaves every handler over a plan it has seen.
LEMMA HandlerBackedStep ==
  ASSUME TypeOK, TypeOK', Fits, Orderly, Backed, [Next]_vars, NEW o \in Operator
  PROVE  HandlerBacked(o)'
<1> SUFFICES ASSUME op'[o].step \in {"approve", "resume_reset", "resume_build"}
             PROVE  Rows(ms'[op'[o].p]) # {}
  BY DEF HandlerBacked
<1>1. op'[o].p \in Project
  BY DEF TypeOK
<1>2. Rows(ms[op'[o].p]) # {}
  <2>1. CASE op'[o] = op[o]
    BY <2>1 DEF Backed, HandlerBacked
  <2>2. CASE op'[o].step = "approve" /\ state[op'[o].p] = "awaiting_approval"
    BY <1>1, <2>2 DEF Backed, StateBacked, PlannedStates
  <2>3. CASE op'[o].step = "resume_reset"
    BY <2>1, <2>3, ResumeMoves
  <2>4. CASE /\ op'[o].step = "resume_build" /\ op[o].step = "resume_reset"
             /\ op'[o].p = op[o].p
    BY <2>4 DEF Backed, HandlerBacked
  <2> QED
    BY <2>1, <2>2, <2>3, <2>4, HandlerMoves
<1> QED
  BY <1>1, <1>2, StaysPlanned

\* Every step keeps states, decisions and handlers backed.
LEMMA BackedStep ==
  TypeOK /\ TypeOK' /\ ClaimsExclusive /\ Fits /\ Orderly /\ Backed /\ [Next]_vars => Backed'
BY JobBackedStep, StateBackedStep, HandlerBackedStep DEF Backed

\* Nothing is claimed to be planned at the start.
LEMMA InitBacked == Init => Backed
BY DEF Init, Backed, JobBacked, StateBacked, HandlerBacked, Busy, NoOp, PlannedStates

(***************************************************************************)
(* Every state a project is in, every decision a tick has taken and every  *)
(* state a handler is about to write is backed by the milestones.          *)
(***************************************************************************)
THEOREM BackedCorrect == Safety => []Backed
BY InitBacked, BackedStep, TypeCorrect, ClaimsCorrect, FitsCorrect, OrderlyCorrect, PTL
   DEF Safety

(***************************************************************************)
(* A project reaches integration only with a plan that is done, and stays  *)
(* that way.                                                               *)
(***************************************************************************)
THEOREM ShipsCompleteCorrect == Safety => []ShipsComplete
<1>1. Backed => ShipsComplete
  BY DEF Backed, StateBacked, ShipsComplete, PlannedStates
<1> QED
  BY <1>1, BackedCorrect, PTL

-----------------------------------------------------------------------------
(* Retries *)

\* Only recording an attempt uses up a retry or finishes a milestone.
LEMMA TickEases ==
  ASSUME TypeOK, Fits, NEW i \in Worker, TickStep(i) \/ CallRaises(i)
  PROVE  EffectRecord(i) \/ Eased(ms[job[i].p], ms'[job[i].p])
<1> DEFINE j == job[i]
           p == job[i].p
           t == ms[p]
<1>0. /\ j \in Job /\ p \in Project /\ j.m \in MilestoneId /\ t \in Table /\ RowFits(i)
  BY DEF TypeOK, Job, Fits
<1> USE DEF Table0
<1>1. CASE EffectStop(i) \/ EffectDecide(i) \/ EffectEnter(i) \/ EffectPick(i) \/ EffectCap(i)
           \/ EffectAutoSplit(i)
  <2>1. ms'[p] = t
    BY <1>1 DEF EffectStop, EffectDecide, EffectEnter, EffectPick, EffectCap, EffectAutoSplit
  <2>2. \A m \in MilestoneId : t[m].retry_count \in Nat
    BY <1>0, RowFacts DEF Row
  <2> QED
    BY <2>1, <2>2 DEF Eased
<1>2. CASE EffectPlan(i)
  <2>1. PICK n \in 1 .. MaxPlan :
          \E new \in Placements(t, n), notes \in [0 .. n - 1 -> CrewNote] :
            ms'[p] = create_many(t, new, notes)
    BY <1>2 DEF EffectPlan
  <2> PICK new \in Placements(t, n), notes \in [0 .. n - 1 -> CrewNote] :
            ms'[p] = create_many(t, new, notes)
    BY <2>1
  <2>2. n \in Nat
    OBVIOUS
  <2> QED
    BY <1>0, <2>2, InsertionsEase
<1>3. CASE EffectReclaim(i)
  BY <1>0, <1>3, UpdatesEase DEF EffectReclaim
<1>4. CASE EffectBegin(i)
  <2>1. \E s : s \notin {"done", "none"} /\ ms'[p] = update_state(t, j.m, s)
    BY <1>4 DEF EffectBegin
  <2> QED
    BY <1>0, <2>1, UpdatesEase
<1>5. CASE EffectCrew(i)
  BY <1>0, <1>5, UpdatesEase DEF EffectCrew
<1>6. CASE EffectConsolidate(i)
  <2>1. \/ ms'[p] = t
        \/ \E a \in MilestoneId, new \in Placements(t, 1) : ms'[p] = insert_after(t, a, new)
    BY <1>6 DEF EffectConsolidate
  <2>2. 1 \in Nat
    OBVIOUS
  <2>3. \A m \in MilestoneId : t[m].retry_count \in Nat
    BY <1>0, RowFacts DEF Row
  <2>4. CASE ms'[p] = t
    BY <2>3, <2>4 DEF Eased
  <2> QED
    BY <1>0, <2>1, <2>2, <2>4, InsertionsEase
<1>7. CASE EffectReply(i)
  <2>1. PICK m \in MilestoneId :
          \E over \in BOOLEAN : ms'[p] = [t EXCEPT ![m].over = over]
    BY <1>7 DEF EffectReply
  <2>2. ASSUME NEW over, ms'[p] = [t EXCEPT ![m].over = over] PROVE Eased(t, ms'[p])
    BY <1>0, <2>2, UpdatesEase
  <2> QED
    BY <2>1, <2>2
<1>8. CASE EffectApply(i)
  <2>1. CASE pc[i] = "amend"
    <3>1. \E note, hot : ms'[p] = update_spec(t, j.m, note, hot)
      BY <1>8, <2>1 DEF EffectApply
    <3> QED
      BY <1>0, <3>1, UpdatesEase
  <2>2. CASE pc[i] = "split"
    <3>1. PICK new \in Placements(t, j.kids), notes \in [0 .. j.kids - 1 -> CrewNote] :
            ms'[p] = replace_with(t, j.m, new, notes)
      BY <1>8, <2>2 DEF EffectApply
    <3>2. j.m \in Rows(t) /\ j.kids \in Nat
      BY <1>0, <2>2 DEF RowFits, Rows, Job
    <3> QED
      BY <1>0, <3>1, <3>2, InsertionsEase
  <2> QED
    BY <1>8, <2>1, <2>2 DEF EffectApply
<1> QED
  BY <1>1, <1>2, <1>3, <1>4, <1>5, <1>6, <1>7, <1>8, TickEffects DEF Effect

RetryCap == (IF RetryLimit = 0 THEN 1 ELSE RetryLimit) + faults

\* A tick is about to block its project.
Blocking(i, p) == pc[i] = "move" /\ job[i].p = p /\ job[i].goal = "blocked"

AttemptSteps == {"cap", "trip", "start", "crew", "failure", "success"}

\* The count a tick judges a failure by is not below the row's.
RetryKnown(i) ==
  pc[i] \in AttemptSteps => Table0(i)[job[i].m].retry_count <= job[i].retry

(***************************************************************************)
(* Where a milestone has used up its retries, the project is blocked or    *)
(* about to be, until a resume has given them back.                        *)
(***************************************************************************)
TableRetried(p) ==
  /\ Blank(ms[p]) /\ Capped(ms[p], RetryCap)
  /\ \/ Below(ms[p], RetryCap)
     \/ state[p] = "blocked" \/ \E i \in Worker : Blocking(i, p)

Resumable(o) ==
  op[o].step \in {"resume_plan", "resume_build"} => Below(ms[op[o].p], RetryCap)

Retried ==
  /\ \A p \in Project : TableRetried(p)
  /\ \A i \in Worker : RetryKnown(i)
  /\ \A o \in Operator : Resumable(o)

\* A step is a fault, which changes no table but by requeueing and takes no
\* tick further, or it is none of the four.
LEMMA FaultsCounted ==
  ASSUME TypeOK, [Next]_vars
  PROVE  \/ faults' = faults /\ ~Restart /\ \A i \in Worker : ~CallRaises(i)
         \/ /\ faults' = faults + 1
            /\ \A p \in Project : ms'[p] = ms[p] \/ ms'[p] = requeue_stale_building(ms[p])
            /\ \A k \in Worker :
                 \/ pc'[k] \in {"idle", "crashed"}
                 \/ pc'[k] = pc[k] /\ job'[k] = job[k] /\ ms' = ms
<1>0. faults \in Nat /\ faults # faults + 1
  BY DEF TypeOK
<1>1. ASSUME NEW i \in Worker, TickStep(i) PROVE faults' = faults
  <2>1. ASSUME NEW hot \in BOOLEAN, NEW over \in BOOLEAN,
               \/ CrewSucceeds(i, hot, over) \/ CrewFails(i, hot, over)
               \/ CrewBudgetExceeded(i, hot, over) \/ CrewRaises(i, hot, over)
        PROVE  faults' = faults
    BY <2>1 DEF CrewSucceeds, CrewFails, CrewBudgetExceeded, CrewRaises, CrewSpends
  <2>2. CASE \/ CheckKill(i) \/ CheckPause(i)
             \/ \E n \in 1 .. MaxPlan : \E notes \in [0 .. n - 1 -> CrewNotes] : StorePlan(i, n, notes)
             \/ PlanRefused(i) \/ Reclaim(i) \/ NothingToBuild(i)
             \/ \E m \in MilestoneId : PickMilestone(i, m)
             \/ CheckCap(i) \/ RecordFailure(i) \/ StartBuild(i) \/ Unbuild(i)
             \/ RecordSuccess(i)
    BY <2>2 DEF CheckKill, CheckPause, StorePlan, PlanRefused, Reclaim, NothingToBuild,
                PickMilestone, CheckCap, RecordFailure, StartBuild, Unbuild, RecordSuccess
  <2>3. CASE \/ Consolidate(i) \/ NothingToReplan(i)
             \/ \E m \in MilestoneId : ReplanWithoutCrew(i, m)
             \/ \E m \in MilestoneId, reply \in ReplyActions,
                   n \in 2 .. MaxChildren, over \in BOOLEAN : CrewReplies(i, m, reply, n, over)
             \/ \E note \in AmendNotes(i), hot \in BOOLEAN : AmendMilestone(i, note, hot)
             \/ (\E notes \in ChildNotes(i) : SplitMilestone(i, notes)) \/ \E passed \in BOOLEAN : Integrate(i, passed)
             \/ Move(i) \/ ServiceRaises(i)
    BY <2>3 DEF Consolidate, NothingToReplan, ReplanWithoutCrew, CrewReplies,
                AmendMilestone, SplitMilestone, Integrate, Move, ServiceRaises
  <2> QED
    BY <1>1, <2>1, <2>2, <2>3 DEF TickStep
<1>2. ASSUME NEW i \in Worker, PoolStep(i) PROVE faults' = faults
  BY <1>2 DEF PoolStep, ClaimNext, CleanTick, BackOff, BlockCrashed
<1>3. ASSUME NEW i \in Worker, CallRaises(i)
      PROVE  /\ faults' = faults + 1 /\ ms' = ms
             /\ \A k \in Worker :
                  pc'[k] = "crashed" \/ (pc'[k] = pc[k] /\ job'[k] = job[k] /\ ms' = ms)
  BY <1>3 DEF CallRaises, Goto, TypeOK
<1>4. ASSUME NEW i \in Worker, BlockLost(i)
      PROVE  /\ faults' = faults + 1 /\ ms' = ms
             /\ \A k \in Worker :
                  pc'[k] = "idle" \/ (pc'[k] = pc[k] /\ job'[k] = job[k] /\ ms' = ms)
  BY <1>4 DEF BlockLost, Release, TypeOK
<1>5. ASSUME Restart
      PROVE  /\ faults' = faults + 1
             /\ \A p \in Project : ms'[p] = requeue_stale_building(ms[p])
             /\ \A k \in Worker : pc'[k] = "idle"
  BY <1>5 DEF Restart
<1>6. ASSUME RedisLost
      PROVE  faults' = faults + 1 /\ ms' = ms /\ pc' = pc /\ job' = job
  BY <1>6 DEF RedisLost
<1>7. ASSUME NEW o \in Operator, Command(o) \/ HandlerStep(o) PROVE faults' = faults
  BY <1>7 DEF Command, HandlerStep, ApproveRead, Pause, ResumeSignals, Abort, KillSwitch,
              ApproveWrite, ResumeRead, ResumeReset, ResumeWrite
<1>8. ASSUME \/ \E p \in Project : CooldownElapses(p)
             \/ DaySpent \/ DayRolls \/ UNCHANGED vars
      PROVE  faults' = faults
  BY <1>8 DEF CooldownElapses, DaySpent, DayRolls, vars
<1>9. CASE faults' = faults
  BY <1>0, <1>3, <1>5, <1>9
<1>10. CASE faults' # faults
  BY <1>1, <1>2, <1>3, <1>4, <1>5, <1>6, <1>7, <1>8, <1>10 DEF Next, WorkerStep
<1> QED
  BY <1>9, <1>10

\* A tick that has decided on a state only writes it.
LEMMA MoveOnly ==
  ASSUME NEW i \in Worker, TickStep(i), pc[i] = "move"
  PROVE  Move(i)
BY DEF TickStep, CheckKill, CheckPause, StorePlan, PlanRefused, Reclaim, NothingToBuild,
       PickMilestone, CheckCap, RecordFailure, StartBuild, CrewSucceeds, CrewFails,
       CrewBudgetExceeded, CrewRaises, Unbuild, RecordSuccess, Consolidate, NothingToReplan,
       ReplanWithoutCrew, CrewReplies, AmendMilestone, SplitMilestone, Integrate, ServiceRaises

\* What the cap on retries is, and how it grows.
LEMMA CapGrows ==
  ASSUME TypeOK, SettingAssumption
  PROVE  /\ RetryCap \in Nat \ {0} /\ RetryLimit \in Nat /\ RetryLimit <= RetryCap
         /\ faults' = faults => RetryCap' = RetryCap
         /\ faults' = faults + 1 => RetryCap' = RetryCap + 1
<1>1. RetryLimit \in Nat /\ faults \in Nat
  BY DEF TypeOK, SettingAssumption
<1> DEFINE r == IF RetryLimit = 0 THEN 1 ELSE RetryLimit
<1>2. r \in Nat \ {0} /\ RetryLimit <= r
  BY <1>1
<1>3. RetryCap = r + faults /\ RetryCap' = r + faults'
  BY DEF RetryCap
<1> QED
  BY <1>1, <1>2, <1>3

\* Where a tick runs with no fault, its project is not blocked, and nobody but
\* the tick itself is about to block it.
LEMMA TickUnblocked ==
  ASSUME ClaimsExclusive, Fits, Current, NEW i \in Worker, TickStep(i) \/ CallRaises(i)
  PROVE  /\ state[job[i].p] \in ADVANCEABLE_STATES /\ state[job[i].p] # "blocked"
         /\ \A k \in Worker : Blocking(k, job[i].p) => k = i
<1>1. pc[i] \in TickSteps
  BY TickFrom
<1>2. pc[i] \notin {"idle", "return"}
  BY <1>1 DEF TickSteps
<1>3. state[job[i].p] = job[i].snap /\ job[i].snap \in ADVANCEABLE_STATES
  BY <1>2 DEF Current, SnapshotCurrent, Fits, JobFits, Busy
<1>4. \A k \in Worker : Blocking(k, job[i].p) => k = i
  BY <1>2 DEF ClaimsExclusive, Busy, Blocking
<1> QED
  BY <1>3, <1>4 DEF ADVANCEABLE_STATES

\* A step of a tick leaves a project whose retries are used up blocked or about
\* to be.
LEMMA TickRetried ==
  ASSUME TypeOK, TypeOK', ClaimsExclusive, Fits, Current, Retried, SettingAssumption,
         NEW i \in Worker, TickStep(i), faults' = faults, NEW p \in Project, job[i].p = p
  PROVE  TableRetried(p)'
<1> DEFINE j == job[i]
           t == ms[p]
           u == ms'[p]
           n == RetryCap
<1> USE DEF Table0
<1>0. /\ p \in Project /\ j.m \in MilestoneId /\ t \in Table /\ u \in Table
      /\ j.retry \in Nat /\ \A m \in MilestoneId : t[m].retry_count \in Nat
  BY RowFacts DEF TypeOK, Job, Row
<1>1. n \in Nat \ {0} /\ RetryCap' = n /\ RetryLimit \in Nat /\ RetryLimit <= n
  BY CapGrows
<1> HIDE DEF n
<1>2. TableRetried(p) /\ RetryKnown(i)
  BY <1>0 DEF Retried
<1>3. Blank(t) /\ Capped(t, n)
  BY <1>2 DEF TableRetried, n
<1>4. Below(t, n) \/ (pc[i] = "move" /\ j.goal = "blocked")
  BY <1>2, TickUnblocked DEF TableRetried, Blocking, n
<1>a. ASSUME Blank(u), Capped(u, n), Below(u, n) \/ state'[p] = "blocked" \/ Blocking(i, p)'
      PROVE  TableRetried(p)'
  BY <1>1, <1>a DEF TableRetried
<1>5. CASE EffectRecord(i)
  <2>0. Below(t, n) /\ pc'[i] = "move" /\ job'[i].p = p
    BY <1>4, <1>5, TickFramed DEF EffectRecord, TickFrame
  <2>1. CASE pc[i] = "success"
    <3>1. Finished(t, j.m, u)
      BY <1>0, <1>5, <2>1, AttemptRows DEF EffectRecord
    <3>2. Below(u, n) /\ Blank(u)
      BY <1>0, <1>1, <1>3, <2>0, <3>1, AttemptCaps
    <3> QED
      BY <1>0, <1>1, <1>a, <3>2, CapsKept
  <2>2. CASE pc[i] # "success"
    <3>1. /\ Failed(t, j.m, u) /\ pc[i] \in {"trip", "failure"}
          /\ job'[i].goal = AfterFailure(j.retry)
      BY <1>0, <1>5, <2>2, AttemptRows DEF EffectRecord
    <3>2. Capped(u, n) /\ Blank(u) /\ (t[j.m].retry_count + 1 < n => Below(u, n))
      BY <1>0, <1>1, <1>3, <2>0, <3>1, AttemptCaps
    <3>3. CASE j.retry + 1 >= RetryLimit
      <4>1. Blocking(i, p)'
        BY <2>0, <3>1, <3>3 DEF AfterFailure, Blocking
      <4> QED
        BY <1>a, <3>2, <4>1
    <3>4. CASE ~(j.retry + 1 >= RetryLimit)
      <4>1. t[j.m].retry_count <= j.retry
        BY <1>2, <3>1 DEF RetryKnown, AttemptSteps
      <4>2. t[j.m].retry_count + 1 < n
        BY <1>0, <1>1, <3>4, <4>1
      <4> QED
        BY <1>a, <3>2, <4>2
    <3> QED
      BY <3>3, <3>4
  <2> QED
    BY <2>1, <2>2
<1>6. CASE Eased(t, u)
  <2>1. Blank(u) /\ Capped(u, n) /\ (Below(t, n) => Below(u, n))
    BY <1>0, <1>1, <1>3, <1>6, EasedBlank, CapsKept
  <2>2. CASE pc[i] = "move" /\ j.goal = "blocked"
    <3>1. Move(i)
      BY <2>2, MoveOnly
    <3>2. state'[p] = "blocked"
      BY <1>0, <2>2, <3>1 DEF Move, TypeOK
    <3> QED
      BY <1>a, <2>1, <3>2
  <2> QED
    BY <1>4, <1>a, <2>1, <2>2
<1> QED
  BY <1>5, <1>6, TickEases

\* Every step without a fault leaves a project whose retries are used up
\* blocked or about to be; a fault leaves every milestone a retry.
LEMMA TableRetriedStep ==
  ASSUME TypeOK, TypeOK', ClaimsExclusive, Fits, Current, Retried, SettingAssumption,
         [Next]_vars, NEW p \in Project
  PROVE  TableRetried(p)'
<1> DEFINE t == ms[p]
           u == ms'[p]
           n == RetryCap
<1>0. t \in Table /\ u \in Table /\ TableRetried(p)
  BY DEF TypeOK, Retried
<1>1. n \in Nat \ {0} /\ (faults' = faults => RetryCap' = n)
      /\ (faults' = faults + 1 => RetryCap' = n + 1)
  BY CapGrows
<1>2. Blank(t) /\ Capped(t, n)
      /\ (Below(t, n) \/ state[p] = "blocked" \/ \E i \in Worker : Blocking(i, p))
  BY <1>0 DEF TableRetried
<1> HIDE DEF n
<1>3. /\ Eased(t, requeue_stale_building(t)) /\ Eased(t, reset_retry_count(t))
      /\ u = t => Eased(t, u)
  <2>1. \A m \in MilestoneId : t[m].retry_count \in Nat
    BY <1>0, RowFacts DEF Row
  <2> QED
    BY <1>0, <2>1, UpdatesEase, IdAssumption DEF Eased
<1>4. CASE faults' = faults + 1
  <2>1. Eased(t, u)
    BY <1>3, <1>4, FaultsCounted DEF TypeOK
  <2>2. Blank(u) /\ Capped(u, n)
    BY <1>0, <1>1, <1>2, <2>1, EasedBlank, CapsKept
  <2>3. Below(u, n + 1) /\ n + 1 \in Nat
    BY <1>0, <1>1, <2>2, CapsKept
  <2>4. Capped(u, n + 1)
    BY <1>0, <2>3, CapsKept
  <2> QED
    BY <1>1, <1>4, <2>2, <2>3, <2>4 DEF TableRetried
<1>5. CASE faults' # faults + 1
  <2>0. faults' = faults /\ ~Restart /\ \A i \in Worker : ~CallRaises(i)
    BY <1>5, FaultsCounted
  <2>a. ASSUME Eased(t, u),
               Below(u, n) \/ state'[p] = "blocked" \/ \E i \in Worker : Blocking(i, p)'
        PROVE  TableRetried(p)'
    <3>1. Blank(u) /\ Capped(u, n)
      BY <1>0, <1>1, <1>2, <2>a, EasedBlank, CapsKept
    <3> QED
      BY <1>1, <2>0, <2>a, <3>1 DEF TableRetried
  <2>1. ASSUME NEW i \in Worker, TickStep(i), job[i].p = p PROVE TableRetried(p)'
    BY <2>0, <2>1, TickRetried
  <2>2. CASE u = reset_retry_count(t)
    <3>1. Eased(t, u) /\ Below(u, n)
      BY <1>0, <1>1, <1>2, <1>3, <2>2, CapsAfresh
    <3> QED
      BY <2>a, <3>1
  <2>3. CASE u = t /\ \A i \in Worker : TickStep(i) => job[i].p # p
    <3>1. CASE Below(t, n)
      BY <1>3, <2>3, <2>a, <3>1
    <3>2. CASE state[p] = "blocked" /\ ~Below(t, n)
      <4>1. ASSUME NEW o \in Operator, ApproveWrite(o, p) \/ ResumeWrite(o, p)
            PROVE  FALSE
        <5>1. op[o].p = p /\ op[o].step \in {"approve", "resume_plan", "resume_build"}
          BY <4>1 DEF ApproveWrite, ResumeWrite, At
        <5>2. op[o].step # "approve"
          BY <3>2, <5>1 DEF Current, HandlersCurrent
        <5> QED
          BY <3>2, <5>1, <5>2 DEF Retried, Resumable, n
      <4>2. ASSUME NEW i \in Worker, pc[i] = "move", job[i].p = p PROVE FALSE
        BY <3>2, <4>2 DEF Current, SnapshotCurrent, Fits, JobFits, Busy, ADVANCEABLE_STATES
      <4>3. state'[p] = "blocked"
        BY <3>2, <4>1, <4>2, StateWrites
      <4> QED
        BY <1>3, <2>3, <2>a, <4>3
    <3>3. ASSUME NEW k \in Worker, Blocking(k, p) PROVE TableRetried(p)'
      <4>1. ~TickStep(k) /\ pc[k] = "move" /\ job[k].p = p
        BY <2>3, <3>3 DEF Blocking
      <4>2. ASSUME NEW i \in Worker, TickStep(i) PROVE pc'[k] = pc[k] /\ job'[k] = job[k]
        BY <4>1, <4>2, TickOthers
      <4>3. ASSUME NEW i \in Worker, NEW q \in Project, ClaimNext(i, q)
            PROVE  pc'[k] = pc[k] /\ job'[k] = job[k]
        BY <4>1, <4>3, ClaimFrame DEF Others
      <4>4. ASSUME NEW i \in Worker, Release(i), pc[i] \in {"return", "crashed"}
            PROVE  pc'[k] = pc[k] /\ job'[k] = job[k]
        BY <4>1, <4>4, ReleaseFrame DEF Others
      <4>5. pc'[k] = pc[k] /\ job'[k] = job[k]
        BY <2>0, <4>2, <4>3, <4>4, StepKinds
      <4>6. Blocking(k, p)'
        BY <3>3, <4>5 DEF Blocking
      <4> QED
        BY <1>3, <2>3, <2>a, <4>6
    <3> QED
      BY <1>2, <3>1, <3>2, <3>3
  <2> QED
    BY <2>0, <2>1, <2>2, <2>3, TableWriters
<1> QED
  BY <1>4, <1>5

\* Every step leaves the count a tick judges by no lower than the row's.
LEMMA RetryKnownStep ==
  ASSUME TypeOK, TypeOK', ClaimsExclusive, Fits, Retried, [Next]_vars, NEW k \in Worker
  PROVE  RetryKnown(k)'
<1> USE DEF Table0, AttemptSteps
<1> DEFINE j == job[k]
           p == job[k].p
<1>0. /\ RetryKnown(k) /\ p \in Project /\ j.m \in MilestoneId /\ j.retry \in Nat
      /\ ms[p] \in Table /\ ms'[p] \in Table
      /\ \A m \in MilestoneId : ms[p][m].retry_count \in Nat /\ ms'[p][m].retry_count \in Nat
  BY RowFacts DEF Retried, TypeOK, Job, Row
<1>1. ASSUME pc'[k] = pc[k] \/ pc[k] \in AttemptSteps, job'[k] = j,
             Eased(ms[p], ms'[p]) \/ ms'[p] = ms[p]
      PROVE  RetryKnown(k)'
  BY <1>0, <1>1 DEF RetryKnown, Eased
<1>2. ASSUME NEW i \in Worker, TickStep(i) \/ CallRaises(i) PROVE RetryKnown(k)'
  <2>1. CASE k = i
    <3> SUFFICES ASSUME pc'[k] \in AttemptSteps PROVE RetryKnown(k)'
      BY DEF RetryKnown
    <3>1. job'[k].p = p /\ Eased(ms[p], ms'[p])
      BY <1>2, <2>1, TickFramed, TickEases DEF EffectRecord, TickFrame
    <3>2. CASE EffectPick(k)
      <4>1. ms'[p] = ms[p] /\ job'[k].retry = ms[p][job'[k].m].retry_count
        BY <3>2 DEF EffectPick
      <4>2. job'[k].m \in MilestoneId
        BY DEF TypeOK, Job
      <4> QED
        BY <1>0, <3>1, <4>1, <4>2 DEF RetryKnown
    <3>3. CASE EffectCap(k) \/ EffectBegin(k) \/ EffectCrew(k)
      <4>1. pc[k] \in AttemptSteps /\ job'[k] = j
        BY <3>3 DEF EffectCap, EffectBegin, EffectCrew
      <4> QED
        BY <1>1, <3>1, <4>1
    <3> QED
      BY <1>2, <2>1, <3>2, <3>3, TickEffects
         DEF Effect, EffectStop, EffectDecide, EffectEnter, HandlerOf, EffectPlan, EffectReclaim,
             EffectRecord, EffectConsolidate, EffectAutoSplit, EffectReply, EffectApply
  <2>2. CASE k # i
    <3>1. /\ pc'[k] = pc[k] /\ job'[k] = j
          /\ Busy(k) => ms'[p] = ms[p]
      BY <1>2, <2>2, TickOthers
    <3> QED
      BY <1>0, <3>1 DEF RetryKnown, Busy
  <2> QED
    BY <2>1, <2>2
<1>3. ASSUME \A i \in Worker : ~TickStep(i) /\ ~CallRaises(i) PROVE RetryKnown(k)'
  <2>1. Eased(ms[p], ms'[p]) \/ ms'[p] = ms[p]
    BY <1>0, <1>3, TableWriters, UpdatesEase
  <2>2. ASSUME NEW i \in Worker, NEW q \in Project, ClaimNext(i, q) PROVE RetryKnown(k)'
    BY <1>1, <2>1, <2>2, ClaimFrame DEF Others, RetryKnown
  <2>3. ASSUME NEW i \in Worker, Release(i) PROVE RetryKnown(k)'
    BY <1>1, <2>1, <2>3, ReleaseFrame DEF Others, RetryKnown
  <2>4. CASE Restart
    BY <2>4 DEF Restart, RetryKnown
  <2> QED
    BY <1>1, <1>3, <2>1, <2>2, <2>3, <2>4, StepKinds
<1> QED
  BY <1>2, <1>3

\* Every step leaves a resume that is about to let a project go on with its
\* retries given back.
LEMMA ResumableStep ==
  ASSUME TypeOK, TypeOK', ClaimsExclusive, Fits, Current, Retried, SettingAssumption,
         [Next]_vars, NEW o \in Operator
  PROVE  Resumable(o)'
<1> SUFFICES ASSUME op'[o].step \in {"resume_plan", "resume_build"}
             PROVE  Below(ms'[op'[o].p], RetryCap')
  BY DEF Resumable
<1> DEFINE p == op'[o].p
           t == ms[p]
           u == ms'[p]
           n == RetryCap
<1>0. p \in Project /\ t \in Table /\ u \in Table
  BY DEF TypeOK
<1>1. n \in Nat \ {0} /\ (faults' = faults => RetryCap' = n)
      /\ (faults' = faults + 1 => RetryCap' = n + 1)
  BY CapGrows
<1>2. Blank(t) /\ Capped(t, n)
  BY <1>0 DEF Retried, TableRetried
<1> HIDE DEF n
<1>3. Below(u, n)
  <2>1. CASE op'[o] = op[o]
    <3>1. Below(t, n) /\ state[p] = "blocked"
      BY <2>1 DEF Retried, Resumable, n, Current, HandlersCurrent
    <3>2. ASSUME NEW i \in Worker, TickStep(i) \/ CallRaises(i), job[i].p = p
          PROVE  FALSE
      BY <3>1, <3>2, TickUnblocked
    <3>3. u = t \/ Eased(t, u)
      BY <1>0, <3>2, TableWriters, UpdatesEase, IdAssumption
    <3> QED
      BY <1>0, <1>1, <3>1, <3>3, CapsKept
  <2>2. CASE op'[o] # op[o]
    <3>1. \/ Rows(t) = {} /\ u = t
          \/ u = reset_retry_count(t)
      BY <2>2, ResumeMoves
    <3> QED
      BY <1>0, <1>1, <1>2, <3>1, CapsAfresh
  <2> QED
    BY <2>1, <2>2
<1>4. Below(u, n + 1)
  BY <1>0, <1>1, <1>3, CapsKept
<1> QED
  BY <1>1, <1>3, <1>4, FaultsCounted

\* Every step keeps the retries accounted for.
LEMMA RetriedStep ==
  TypeOK /\ TypeOK' /\ ClaimsExclusive /\ Fits /\ Current /\ Retried /\ [Next]_vars => Retried'
BY TableRetriedStep, RetryKnownStep, ResumableStep, SettingAssumption DEF Retried

\* At the start nothing has been tried.
LEMMA InitRetried == Init => Retried
<1> SUFFICES ASSUME Init PROVE Retried
  OBVIOUS
<1>1. RetryLimit \in Nat
  BY SettingAssumption DEF SettingAssumption
<1>2. RetryCap \in Nat \ {0}
  BY <1>1 DEF Init, RetryCap
<1>3. \A p \in Project, m \in MilestoneId : ms[p][m] = NoRow
  BY DEF Init
<1>4. \A p \in Project : TableRetried(p)
  BY <1>2, <1>3 DEF TableRetried, Blank, Capped, Below, NoRow
<1>5. \A i \in Worker : RetryKnown(i)
  BY DEF Init, RetryKnown, AttemptSteps
<1>6. \A o \in Operator : Resumable(o)
  BY DEF Init, Resumable, NoOp
<1> QED
  BY <1>4, <1>5, <1>6 DEF Retried

(***************************************************************************)
(* With one operator, no milestone fails more than milestone_retry_limit   *)
(* times between two resumes, but for one more failure with each fault.    *)
(***************************************************************************)
THEOREM RetriesBoundedCorrect ==
  ASSUME SingleOperator
  PROVE  Safety => []RetriesBounded
<1>1. TypeOK /\ TypeOK' /\ ClaimsExclusive /\ Fits /\ SnapshotCurrent /\ HandlersCurrent
        /\ Retried /\ [Next]_vars => Retried'
  BY RetriedStep DEF Current
<1>2. Retried => RetriesBounded
  BY DEF Retried, TableRetried, Capped, RetryCap, RetriesBounded
<1> QED
  BY <1>1, <1>2, InitRetried, TypeCorrect, ClaimsCorrect, FitsCorrect, CurrentCorrect, PTL
     DEF Safety

-----------------------------------------------------------------------------
(* The approval gate *)

Untouched(t) == \A m \in MilestoneId : t[m].state \in {"none", "pending"}

\* A tick has stored a plan and is about to ask for its approval.
Asking(i, p) == pc[i] = "move" /\ job[i].p = p /\ job[i].goal = "awaiting_approval"

(***************************************************************************)
(* A project whose plan nobody approved has none, or waits for approval    *)
(* with every milestone as the plan left it, or is about to.               *)
(***************************************************************************)
Gated(p) ==
  \/ approved[p]
  \/ state[p] \in {"queued", "planning", "blocked", "killed"} /\ Rows(ms[p]) = {}
  \/ state[p] = "awaiting_approval" /\ Untouched(ms[p])
  \/ state[p] = "planning" /\ Untouched(ms[p]) /\ \E i \in Worker : Asking(i, p)

GateKept == RequireApproval /\ faults = 0 => \A p \in Project : Gated(p)

\* Approval is given by approve and never taken back.
LEMMA ApprovalWriters ==
  ASSUME TypeOK, [Next]_vars, NEW p \in Project
  PROVE  /\ approved[p] => approved'[p]
         /\ \A o \in Operator : ApproveWrite(o, p) => approved'[p]
<1>1. ASSUME NEW i \in Worker, TickStep(i) PROVE approved' = approved
  <2>1. ASSUME NEW hot \in BOOLEAN, NEW over \in BOOLEAN,
               \/ CrewSucceeds(i, hot, over) \/ CrewFails(i, hot, over)
               \/ CrewBudgetExceeded(i, hot, over) \/ CrewRaises(i, hot, over)
        PROVE  approved' = approved
    BY <2>1 DEF CrewSucceeds, CrewFails, CrewBudgetExceeded, CrewRaises, CrewSpends
  <2>2. CASE \/ CheckKill(i) \/ CheckPause(i)
             \/ \E n \in 1 .. MaxPlan : \E notes \in [0 .. n - 1 -> CrewNotes] : StorePlan(i, n, notes)
             \/ PlanRefused(i) \/ Reclaim(i) \/ NothingToBuild(i)
             \/ \E m \in MilestoneId : PickMilestone(i, m)
             \/ CheckCap(i) \/ RecordFailure(i) \/ StartBuild(i) \/ Unbuild(i)
             \/ RecordSuccess(i)
    BY <2>2 DEF CheckKill, CheckPause, StorePlan, PlanRefused, Reclaim, NothingToBuild,
                PickMilestone, CheckCap, RecordFailure, StartBuild, Unbuild, RecordSuccess
  <2>3. CASE \/ Consolidate(i) \/ NothingToReplan(i)
             \/ \E m \in MilestoneId : ReplanWithoutCrew(i, m)
             \/ \E m \in MilestoneId, reply \in ReplyActions,
                   n \in 2 .. MaxChildren, over \in BOOLEAN : CrewReplies(i, m, reply, n, over)
             \/ \E note \in AmendNotes(i), hot \in BOOLEAN : AmendMilestone(i, note, hot)
             \/ (\E notes \in ChildNotes(i) : SplitMilestone(i, notes)) \/ \E passed \in BOOLEAN : Integrate(i, passed)
             \/ Move(i) \/ ServiceRaises(i)
    BY <2>3 DEF Consolidate, NothingToReplan, ReplanWithoutCrew, CrewReplies,
                AmendMilestone, SplitMilestone, Integrate, Move, ServiceRaises
  <2> QED
    BY <1>1, <2>1, <2>2, <2>3 DEF TickStep
<1>2. ASSUME NEW i \in Worker, PoolStep(i) \/ CallRaises(i) \/ BlockLost(i)
      PROVE  approved' = approved
  BY <1>2 DEF PoolStep, ClaimNext, CleanTick, BackOff, BlockCrashed, CallRaises, BlockLost
<1>3. ASSUME NEW o \in Operator, Command(o) PROVE approved' = approved
  BY <1>3 DEF Command, ApproveRead, Pause, ResumeSignals, Abort, KillSwitch
<1>4. ASSUME NEW o \in Operator, NEW q \in Project,
             ResumeRead(o, q) \/ ResumeReset(o, q) \/ ResumeWrite(o, q)
      PROVE  approved' = approved
  BY <1>4 DEF ResumeRead, ResumeReset, ResumeWrite
<1>5. ASSUME NEW o \in Operator, NEW q \in Project, ApproveWrite(o, q)
      PROVE  approved' = [approved EXCEPT ![q] = TRUE]
  BY <1>5 DEF ApproveWrite
<1>6. ASSUME \/ \E q \in Project : CooldownElapses(q)
             \/ Restart \/ RedisLost \/ DaySpent \/ DayRolls \/ UNCHANGED vars
      PROVE  approved' = approved
  BY <1>6 DEF CooldownElapses, Restart, RedisLost, DaySpent, DayRolls, vars
<1>7. approved \in [Project -> BOOLEAN]
  BY DEF TypeOK
<1>8. \/ approved' = approved
      \/ \E q \in Project : approved' = [approved EXCEPT ![q] = TRUE]
  BY <1>1, <1>2, <1>3, <1>4, <1>5, <1>6 DEF Next, WorkerStep, HandlerStep
<1>9. approved[p] => approved'[p]
  BY <1>7, <1>8
<1>10. \A o \in Operator : ApproveWrite(o, p) => approved'[p]
  BY <1>5, <1>7
<1> QED
  BY <1>9, <1>10

\* A tick in a project without a plan only decides, or stores the plan.
LEMMA UnplannedTick ==
  ASSUME TypeOK, Fits, NEW i \in Worker, TickStep(i) \/ CallRaises(i),
         job[i].snap \in {"queued", "planning"}
  PROVE  ms'[job[i].p] = ms[job[i].p] \/ EffectPlan(i)
<1>1. pc[i] \notin BuildSteps \cup ReplanSteps
  BY DEF Fits, JobFits
<1> QED
  BY <1>1, TickEffects
     DEF Effect, EffectStop, EffectDecide, EffectEnter, EffectReclaim, EffectPick, EffectCap,
         EffectBegin, EffectCrew, EffectRecord, EffectConsolidate, EffectAutoSplit, EffectReply,
         EffectApply, BuildSteps, ReplanSteps

\* What a plan leaves behind is untouched.
LEMMA PlanUntouched ==
  ASSUME TypeOK, NEW i \in Worker, EffectPlan(i)
  PROVE  Untouched(ms'[job[i].p])
<1> DEFINE t == Table0(i)
           u == ms'[job[i].p]
<1>1. PICK n \in 1 .. MaxPlan :
        \E new \in Placements(t, n), notes \in [0 .. n - 1 -> CrewNote] :
            u = create_many(t, new, notes)
  BY DEF EffectPlan
<1> PICK new \in Placements(t, n), notes \in [0 .. n - 1 -> CrewNote] :
            u = create_many(t, new, notes)
  BY <1>1
<1>2. t \in Table /\ n \in Nat
  BY DEF TypeOK, Job, Table0
<1>3. \A m \in DOMAIN new : Inserted(u[m], new[m], notes[new[m]])
  BY <1>2, CreateManyRows
<1>4. \A m \in DOMAIN new : u[m].state = "pending"
  BY <1>3 DEF Inserted
<1>5. \A m \in MilestoneId \ DOMAIN new : u[m] = t[m]
  BY DEF create_many
<1>6. \A m \in MilestoneId : t[m].state = "none"
  BY DEF EffectPlan, Rows
<1> QED
  BY <1>4, <1>5, <1>6 DEF Untouched

\* A tick, as long as nothing fails, never touches an unapproved plan.
LEMMA TickGated ==
  ASSUME TypeOK, ClaimsExclusive, Fits, Current, Backed, [Next]_vars, RequireApproval,
         NEW i \in Worker, TickStep(i), NEW p \in Project, job[i].p = p, Gated(p)
  PROVE  Gated(p)'
<1> SUFFICES ASSUME ~approved'[p] PROVE Gated(p)'
  BY DEF Gated
<1>0. /\ ~approved[p] /\ \A o \in Operator : ~ApproveWrite(o, p)
  BY ApprovalWriters
<1>1. /\ state[p] = job[i].snap /\ state[p] \in ADVANCEABLE_STATES
      /\ pc[i] \in TickSteps /\ Busy(i)
      /\ \A k \in Worker : Busy(k) /\ job[k].p = p => k = i
  BY TickFrom, TickUnblocked DEF TickSteps, Current, SnapshotCurrent, ClaimsExclusive, Busy
<1>2. CASE Rows(ms[p]) = {} /\ state[p] \in {"queued", "planning"}
  <2>1. CASE pc[i] = "move"
    <3>1. Move(i)
      BY <2>1, MoveOnly
    <3>2. state'[p] = job[i].goal /\ ms' = ms
      BY <3>1 DEF Move, TypeOK
    <3>3. job[i].goal \notin PlannedStates /\ job[i].goal \in ProjectState
      BY <1>2, <2>1 DEF Backed, JobBacked, Table0, TypeOK, Job
    <3> QED
      BY <1>2, <3>2, <3>3 DEF Gated, PlannedStates, ProjectState
  <2>2. CASE pc[i] # "move"
    <3>1. ASSUME NEW o \in Operator, ResumeWrite(o, p) PROVE FALSE
      <4>1. op[o].p = p /\ op[o].step \in {"resume_plan", "resume_build"}
        BY <3>1 DEF ResumeWrite, At
      <4> QED
        BY <1>2, <4>1 DEF Current, HandlersCurrent
    <3>2. state'[p] = state[p]
      BY <1>0, <1>1, <2>2, <3>1, StateWrites DEF Busy, TickSteps
    <3>3. CASE ms'[p] = ms[p]
      BY <1>2, <3>2, <3>3 DEF Gated
    <3>4. CASE EffectPlan(i)
      <4>1. Untouched(ms'[p])
        BY <3>4, PlanUntouched
      <4>2. pc'[i] = "move" /\ job'[i].goal = "awaiting_approval" /\ job'[i].p = p
        BY <3>4, TickFramed DEF EffectPlan, TickFrame
      <4>3. state[p] = "planning"
        BY <1>1, <3>4 DEF EffectPlan, Fits, JobFits
      <4> QED
        BY <3>2, <4>1, <4>2, <4>3 DEF Gated, Asking
    <3> QED
      BY <1>1, <1>2, <3>3, <3>4, UnplannedTick
  <2> QED
    BY <2>1, <2>2
<1>3. CASE Untouched(ms[p]) /\ \E k \in Worker : Asking(k, p)
  <2>1. pc[i] = "move" /\ job[i].goal = "awaiting_approval"
    BY <1>1, <1>3 DEF Asking, Busy
  <2>2. Move(i)
    BY <2>1, MoveOnly
  <2>3. state'[p] = "awaiting_approval" /\ ms' = ms
    BY <2>1, <2>2 DEF Move, TypeOK
  <2> QED
    BY <1>3, <2>3 DEF Gated
<1> QED
  BY <1>0, <1>1, <1>2, <1>3 DEF Gated, ADVANCEABLE_STATES

\* Nor does any other step that is no fault.
LEMMA OthersGated ==
  ASSUME TypeOK, ClaimsExclusive, Fits, Current, Backed, [Next]_vars,
         NEW p \in Project, Gated(p), ~Restart, \A i \in Worker : ~CallRaises(i),
         \A i \in Worker : TickStep(i) => job[i].p # p
  PROVE  Gated(p)'
<1> SUFFICES ASSUME ~approved'[p] PROVE Gated(p)'
  BY DEF Gated
<1>0. ~approved[p] /\ \A o \in Operator : ~ApproveWrite(o, p)
  BY ApprovalWriters
<1>1. SameStates(ms[p], ms'[p])
  <2>1. ms[p] \in Table
    BY DEF TypeOK
  <2>2. ms'[p] = ms[p] \/ ms'[p] = reset_retry_count(ms[p])
    BY TableWriters
  <2> QED
    BY <2>1, <2>2, SideUpdatesKeepStates, IdAssumption DEF SameStates
<1>2. Rows(ms'[p]) = Rows(ms[p]) /\ (Untouched(ms[p]) => Untouched(ms'[p]))
  BY <1>1, SameStatesKeep DEF SameStates, Untouched
<1>3. ASSUME NEW i \in Worker, Move(i) PROVE job[i].p # p
  BY <1>3 DEF TickStep
<1>4. ASSUME NEW k \in Worker, Asking(k, p)
      PROVE  Asking(k, p)' /\ \A i \in Worker : BlockCrashed(i) => job[i].p # p
  <2>1. ~TickStep(k) /\ pc[k] = "move" /\ job[k].p = p
    BY <1>4 DEF Asking
  <2>2. ASSUME NEW i \in Worker, TickStep(i) PROVE pc'[k] = pc[k] /\ job'[k] = job[k]
    BY <2>1, <2>2, TickOthers
  <2>3. ASSUME NEW i \in Worker, NEW q \in Project, ClaimNext(i, q)
        PROVE  pc'[k] = pc[k] /\ job'[k] = job[k]
    BY <2>1, <2>3, ClaimFrame DEF Others
  <2>4. ASSUME NEW i \in Worker, Release(i), pc[i] \in {"return", "crashed"}
        PROVE  pc'[k] = pc[k] /\ job'[k] = job[k]
    BY <2>1, <2>4, ReleaseFrame DEF Others
  <2>5. pc'[k] = pc[k] /\ job'[k] = job[k]
    BY <2>2, <2>3, <2>4, StepKinds
  <2>6. ASSUME NEW i \in Worker, BlockCrashed(i) PROVE job[i].p # p
    <3>1. pc[i] = "crashed"
      BY <2>6 DEF BlockCrashed
    <3> QED
      BY <2>1, <3>1 DEF ClaimsExclusive, Busy
  <2> QED
    BY <1>4, <2>5, <2>6 DEF Asking
<1>5. CASE Rows(ms[p]) = {} /\ state[p] \in {"queued", "planning", "blocked", "killed"}
  <2>1. ASSUME NEW o \in Operator, ResumeWrite(o, p) PROVE state'[p] = "planning"
    <3>1. op[o].p = p /\ op[o].step \in {"resume_plan", "resume_build"}
      BY <2>1 DEF ResumeWrite, At
    <3>2. op[o].step = "resume_plan"
      BY <1>5, <3>1 DEF Backed, HandlerBacked
    <3> QED
      BY <2>1, <3>2 DEF ResumeWrite, TypeOK
  <2>2. state'[p] \in {state[p], "planning", "blocked"}
    BY <1>0, <1>3, <2>1, StateWrites
  <2> QED
    BY <1>2, <1>5, <2>2 DEF Gated
<1>6. ASSUME NEW o \in Operator, ResumeWrite(o, p) PROVE state[p] = "blocked"
  <2>1. op[o].p = p /\ op[o].step \in {"resume_plan", "resume_build"}
    BY <1>6 DEF ResumeWrite, At
  <2> QED
    BY <2>1 DEF Current, HandlersCurrent
<1>7. CASE state[p] = "awaiting_approval" /\ Untouched(ms[p])
  <2>1. ASSUME NEW i \in Worker, BlockCrashed(i) PROVE job[i].p # p
    <3>1. pc[i] = "crashed"
      BY <2>1 DEF BlockCrashed
    <3> QED
      BY <1>7, <3>1 DEF Current, SnapshotCurrent, Fits, JobFits, Busy, ADVANCEABLE_STATES
  <2>2. state'[p] = state[p]
    BY <1>0, <1>3, <1>6, <1>7, <2>1, StateWrites
  <2> QED
    BY <1>2, <1>7, <2>2 DEF Gated
<1>8. CASE state[p] = "planning" /\ Untouched(ms[p]) /\ \E i \in Worker : Asking(i, p)
  <2>1. PICK k \in Worker : Asking(k, p)
    BY <1>8
  <2>2. Asking(k, p)' /\ \A i \in Worker : BlockCrashed(i) => job[i].p # p
    BY <1>4, <2>1
  <2>3. state'[p] = state[p]
    BY <1>0, <1>3, <1>6, <1>8, <2>2, StateWrites
  <2> QED
    BY <1>2, <1>8, <2>2, <2>3 DEF Gated
<1> QED
  BY <1>0, <1>5, <1>7, <1>8 DEF Gated

\* Every step keeps the gate, until a fault.
LEMMA GateStep ==
  TypeOK /\ TypeOK' /\ ClaimsExclusive /\ Fits /\ Current /\ Backed /\ GateKept /\ [Next]_vars
    => GateKept'
<1> SUFFICES ASSUME TypeOK, TypeOK', ClaimsExclusive, Fits, Current, Backed, GateKept,
                    [Next]_vars, RequireApproval, faults' = 0, NEW p \in Project
             PROVE  Gated(p)'
  BY DEF GateKept
<1>1. faults \in Nat /\ faults' = faults /\ ~Restart /\ \A i \in Worker : ~CallRaises(i)
  BY FaultsCounted DEF TypeOK
<1>2. Gated(p)
  BY <1>1 DEF GateKept
<1> QED
  BY <1>1, <1>2, TickGated, OthersGated

(***************************************************************************)
(* With one operator, as long as no fault falls, no milestone is touched   *)
(* before the plan is approved: no pause, abort, resume or raising crew    *)
(* opens the gate.                                                         *)
(***************************************************************************)
THEOREM ApprovalGateUnlessFaultCorrect ==
  ASSUME SingleOperator
  PROVE  Safety => []ApprovalGateUnlessFault
<1>1. Init => GateKept
  BY DEF Init, GateKept, Gated, Rows, NoRow
<1>2. TypeOK /\ TypeOK' /\ ClaimsExclusive /\ Fits /\ SnapshotCurrent /\ HandlersCurrent
        /\ Backed /\ GateKept /\ [Next]_vars => GateKept'
  BY GateStep DEF Current
<1>3. GateKept => ApprovalGateUnlessFault
  BY DEF GateKept, Gated, Untouched, Rows, ApprovalGateUnlessFault, ApprovalGate
<1> QED
  BY <1>1, <1>2, <1>3, TypeCorrect, ClaimsCorrect, FitsCorrect, CurrentCorrect, BackedCorrect,
     PTL
     DEF Safety

-----------------------------------------------------------------------------
(* The orchestrator implements ProjectLifecycle *)

\* The three kinds of work, told apart.
LEMMA WorkKinds ==
  ASSUME NEW t
  PROVE  /\ WorkOf(t) \in {"none", "open", "finished"}
         /\ WorkOf(t) = "none" <=> Rows(t) = {}
         /\ WorkOf(t) = "finished" <=> Rows(t) # {} /\ AllDone(t)
BY DEF WorkOf

\* A row that is not done leaves the work open.
LEMMA WorkOpen ==
  ASSUME NEW t, NEW m \in MilestoneId, t[m].state \notin {"none", "done"}
  PROVE  WorkOf(t) = "open"
<1>1. m \in Rows(t) /\ ~AllDone(t)
  BY DEF Rows, AllDone
<1> QED
  BY <1>1, WorkKinds

\* Tables with the same rows done have the same work.
LEMMA WorkSame ==
  ASSUME NEW t, NEW u, SameRows(t, u),
         \A m \in MilestoneId : u[m].state = "done" <=> t[m].state = "done"
  PROVE  WorkOf(u) = WorkOf(t)
<1>1. Rows(u) = Rows(t)
  BY DEF SameRows, Rows
<1>2. AllDone(u) <=> AllDone(t)
  BY <1>1 DEF AllDone, Rows
<1> QED
  BY <1>1, <1>2 DEF WorkOf

\* Insertions leave the work open.
LEMMA InsertionsOpen ==
  ASSUME NEW t \in Table, NEW a \in Rows(t), NEW n \in Nat, n >= 1,
         NEW new \in Placements(t, n), NEW notes
  PROVE  /\ n = 1 => WorkOf(insert_after(t, a, new)) = "open"
         /\ WorkOf(replace_with(t, a, new, notes)) = "open"
<1>1. PICK c \in DOMAIN new : TRUE
  <2>1. 0 \in 0 .. n - 1
    OBVIOUS
  <2> QED
    BY <2>1, PlacementPositions
<1>2. c \in MilestoneId /\ a \in MilestoneId
  BY PlacementPositions DEF Rows
<1>3. ASSUME n = 1 PROVE WorkOf(insert_after(t, a, new)) = "open"
  <2> SUFFICES ASSUME NEW u, u = insert_after(t, a, new) PROVE WorkOf(u) = "open"
    OBVIOUS
  <2>1. PICK d \in MilestoneId \ Rows(t) : BehindRow(t, a, d, u)
    BY <1>2, <1>3, InsertAfterRows
  <2>2. u[d].state = "pending"
    BY <2>1 DEF BehindRow, Inserted
  <2> QED
    BY <2>2, WorkOpen
<1>4. WorkOf(replace_with(t, a, new, notes)) = "open"
  <2> SUFFICES ASSUME NEW u, u = replace_with(t, a, new, notes)
               PROVE  WorkOf(u) = "open"
    OBVIOUS
  <2>1. Inserted(u[c], t[a].ordinal + new[c], notes[new[c]])
    BY ReplaceWithRows
  <2>2. u[c].state = "pending"
    BY <2>1 DEF Inserted
  <2> QED
    BY <1>2, <2>2, WorkOpen
<1> QED
  BY <1>3, <1>4

\* A plan opens the work.
LEMMA PlanOpens ==
  ASSUME TypeOK, Fits, NEW i \in Worker, TickStep(i) \/ CallRaises(i), Tracks(i), EffectPlan(i)
  PROVE  WorkOf(Table0(i)) = "none" /\ WorkOf(ms'[job[i].p]) = "open"
<1> DEFINE t == Table0(i)
           u == ms'[job[i].p]
<1>1. Rows(t) = {}
  BY DEF EffectPlan
<1>2. PICK m \in Rows(u) : TRUE
  BY TickStaysPlanned
<1>3. u[m].state = "pending"
  BY <1>2, PlanUntouched DEF Untouched, Rows
<1> QED
  BY <1>1, <1>2, <1>3, WorkKinds, WorkOpen DEF Rows

\* A step of a tick changes the work of its project only as the state it was
\* handed allows.
LEMMA TickWork ==
  ASSUME TypeOK, Fits, NEW i \in Worker, TickStep(i) \/ CallRaises(i), Tracks(i),
         NEW w1, w1 = WorkOf(Table0(i)), NEW w2, w2 = WorkOf(ms'[job[i].p])
  PROVE  \/ w2 = w1
         \/ job[i].snap = "planning" /\ w1 = "none" /\ w2 = "open"
         \/ job[i].snap = "building" /\ w1 = "open" /\ w2 = "finished"
         \/ job[i].snap = "replanning" /\ w1 = "finished" /\ w2 = "open"
<1> DEFINE j == job[i]
           p == job[i].p
           t == ms[p]
           u == ms'[p]
<1>0. /\ p \in Project /\ j.m \in MilestoneId /\ t \in Table /\ RowFits(i) /\ JobFits(i)
      /\ j.kids \in Nat /\ j.snap \in ProjectState
  BY DEF TypeOK, Job, Fits
<1> USE DEF Table0
<1>1. CASE \/ EffectStop(i) \/ EffectDecide(i) \/ EffectEnter(i) \/ EffectPick(i)
           \/ EffectCap(i) \/ EffectAutoSplit(i)
  <2>1. u = t
    BY <1>1 DEF EffectStop, EffectDecide, EffectEnter, EffectPick, EffectCap, EffectAutoSplit
  <2> QED
    BY <2>1
<1>2. CASE EffectPlan(i)
  <2>1. j.snap = "planning"
    BY <1>0, <1>2 DEF EffectPlan, JobFits
  <2> QED
    BY <1>2, <2>1, PlanOpens
<1>s. ASSUME SameStates(t, u) PROVE w2 = w1
  BY <1>s, SameStatesKeep, WorkSame DEF SameStates
<1>3. CASE EffectReclaim(i)
  <2>1. SameRows(t, requeue_stale_building(t))
    BY <1>0, RowUpdatesKeepRows
  <2>2. \A m \in MilestoneId : t[m] \in Row
    BY <1>0, RowFacts
  <2>3. \A m \in MilestoneId : requeue_stale_building(t)[m].state = "done"
                                 <=> t[m].state = "done"
    BY <2>2 DEF requeue_stale_building, Row
  <2> QED
    BY <1>3, <2>1, <2>3, WorkSame DEF EffectReclaim
<1>4. CASE EffectBegin(i)
  <2>1. t[j.m].state \notin {"none", "done"}
    BY <1>0, <1>4 DEF EffectBegin, RowFits
  <2>2. \E s : s \notin {"none", "done"} /\ u = update_state(t, j.m, s)
    BY <1>4 DEF EffectBegin
  <2>3. u[j.m].state \notin {"none", "done"}
    BY <1>0, <2>2, RowFacts DEF update_state, Table, Row
  <2> QED
    BY <1>0, <2>1, <2>3, WorkOpen
<1>5. CASE EffectCrew(i)
  <2>1. \E hot, over : u = charge(t, j.m, hot, over)
    BY <1>5 DEF EffectCrew
  <2> QED
    BY <1>0, <1>s, <2>1, SideUpdatesKeepStates
<1>6. CASE EffectRecord(i)
  <2>1. t[j.m].state \notin {"none", "done"}
    BY <1>0, <1>6 DEF EffectRecord, RowFits
  <2>2. w1 = "open"
    BY <1>0, <2>1, WorkOpen
  <2>3. CASE pc[i] # "success"
    <3>1. Failed(t, j.m, u)
      BY <1>0, <1>6, <2>3, AttemptRows DEF EffectRecord
    <3>2. w2 = "open"
      BY <1>0, <3>1, WorkOpen DEF Failed
    <3> QED
      BY <2>2, <3>2
  <2>4. CASE pc[i] = "success"
    <3>1. Finished(t, j.m, u)
      BY <1>0, <1>6, <2>4, AttemptRows DEF EffectRecord
    <3>2. j.m \in Rows(u)
      BY <1>0, <3>1 DEF Finished, Rows
    <3>3. w2 \in {"open", "finished"}
      BY <3>2, WorkKinds
    <3>4. j.snap = "building"
      BY <1>0, <2>4 DEF JobFits, BuildSteps
    <3> QED
      BY <2>2, <3>3, <3>4
  <2> QED
    BY <2>3, <2>4
<1>7. CASE EffectConsolidate(i)
  <2>1. CASE u = t
    BY <2>1
  <2>2. CASE u # t
    <3>1. PICK a \in MilestoneId :
            last_done(t, a) /\ \E new \in Placements(t, 1) : u = insert_after(t, a, new)
      BY <1>7, <2>2 DEF EffectConsolidate
    <3> PICK new \in Placements(t, 1) : u = insert_after(t, a, new)
      BY <3>1
    <3>2. a \in Rows(t)
      BY <3>1 DEF last_done, Rows
    <3>3. w2 = "open"
      <4>1. WorkOf(insert_after(t, a, new)) = "open"
        BY <1>0, <3>2, InsertionsOpen
      <4> QED
        BY <4>1
    <3>4. w1 \in {"open", "finished"}
      BY <3>2, WorkKinds
    <3>5. j.snap = "replanning"
      BY <1>0, <1>7 DEF EffectConsolidate, JobFits, ReplanSteps
    <3> QED
      BY <3>3, <3>4, <3>5
  <2> QED
    BY <2>1, <2>2
<1>8. CASE EffectReply(i)
  <2>1. PICK m \in MilestoneId : \E over \in BOOLEAN : u = [t EXCEPT ![m].over = over]
    BY <1>8 DEF EffectReply
  <2>2. t \in Table
    BY <1>0
  <2>3. ASSUME NEW over, u = [t EXCEPT ![m].over = over] PROVE SameStates(t, u)
    BY <2>2, <2>3, SideUpdatesKeepStates
  <2> QED
    BY <1>s, <2>1, <2>3
<1>9. CASE EffectApply(i)
  <2>1. CASE pc[i] = "amend"
    <3>1. \E note, hot : u = update_spec(t, j.m, note, hot)
      BY <1>9, <2>1 DEF EffectApply
    <3> QED
      BY <1>0, <1>s, <3>1, SideUpdatesKeepStates
  <2>2. CASE pc[i] = "split"
    <3>1. PICK new \in Placements(t, j.kids), notes \in [0 .. j.kids - 1 -> CrewNote] :
            u = replace_with(t, j.m, new, notes)
      BY <1>9, <2>2 DEF EffectApply
    <3>2. t[j.m].state \notin {"none", "done"} /\ j.m \in Rows(t) /\ j.kids >= 2
      BY <1>0, <2>2 DEF RowFits, Rows, Tracks
    <3>3. j.kids >= 1
      BY <1>0, <3>2
    <3>4. w2 = "open"
      BY <1>0, <3>1, <3>2, <3>3, InsertionsOpen
    <3> QED
      BY <1>0, <3>2, <3>4, WorkOpen
  <2> QED
    BY <1>9, <2>1, <2>2 DEF EffectApply
<1> QED
  BY <1>1, <1>2, <1>3, <1>4, <1>5, <1>6, <1>7, <1>8, <1>9, TickEffects DEF Effect

WorkMap == [p \in Project |-> WorkOf(ms[p])]

\* A write of a project's state is a phase entered with the work it needs.
LEMMA StateStepImplements ==
  ASSUME TypeOK, TypeOK', ClaimsExclusive, Fits, Current, Backed', SingleOperator, [Next]_vars,
         state' # state
  PROVE  /\ WorkMap' = WorkMap
         /\ \E p \in Project : \E s \in ProjectState :
              /\ LegalProject(state[p], s)
              /\ s \in {"awaiting_approval", "building", "replanning"} => WorkMap[p] # "none"
              /\ s \in {"integration", "done"} => WorkMap[p] = "finished"
              /\ state' = [state EXCEPT ![p] = s]
<1>1. /\ ms' = ms
      /\ \E q \in Project : \E s : state' = [state EXCEPT ![q] = s]
  <2>1. ASSUME NEW i \in Worker, Move(i) \/ BlockCrashed(i)
        PROVE  ms' = ms /\ \E s : state' = [state EXCEPT ![job[i].p] = s]
    BY <2>1 DEF Move, BlockCrashed
  <2>2. ASSUME NEW o \in Operator, NEW q \in Project, ApproveWrite(o, q) \/ ResumeWrite(o, q)
        PROVE  ms' = ms /\ \E s : state' = [state EXCEPT ![q] = s]
    BY <2>2 DEF ApproveWrite, ResumeWrite
  <2>3. \A i \in Worker : job[i].p \in Project
    BY DEF TypeOK, Job
  <2> QED
    BY <2>1, <2>2, <2>3, StateWriters
<1>2. PICK p \in Project : \E s : state' = [state EXCEPT ![p] = s]
  BY <1>1
<1>3. state'[p] # state[p] /\ state' = [state EXCEPT ![p] = state'[p]]
  BY <1>2 DEF TypeOK
<1>4. LegalProject(state[p], state'[p]) /\ state'[p] \in ProjectState
  BY <1>3, WriteCurrent DEF TypeOK
<1>5. WorkMap' = WorkMap /\ WorkMap[p] = WorkOf(ms[p])
  BY <1>1 DEF WorkMap
<1>6. /\ state'[p] \in {"awaiting_approval", "building", "replanning"} => Rows(ms[p]) # {}
      /\ state'[p] \in {"integration", "done"} => Rows(ms[p]) # {} /\ AllDone(ms[p])
  BY <1>1 DEF Backed, StateBacked, PlannedStates
<1>7. /\ WorkOf(ms[p]) = "none" <=> Rows(ms[p]) = {}
      /\ WorkOf(ms[p]) = "finished" <=> Rows(ms[p]) # {} /\ AllDone(ms[p])
  BY WorkKinds
<1> QED
  BY <1>3, <1>4, <1>5, <1>6, <1>7

\* Every other step changes the work of at most one project, as its state
\* allows.
LEMMA WorkStepImplements ==
  ASSUME TypeOK, ClaimsExclusive, Fits, Orderly, Current, [Next]_vars, state' = state
  PROVE  \/ WorkMap' = WorkMap
         \/ \E p \in Project : \E w \in {"none", "open", "finished"} :
              /\ \/ state[p] = "planning" /\ WorkMap[p] = "none" /\ w = "open"
                 \/ state[p] = "building" /\ WorkMap[p] = "open" /\ w = "finished"
                 \/ state[p] = "replanning" /\ WorkMap[p] = "finished" /\ w = "open"
              /\ WorkMap' = [WorkMap EXCEPT ![p] = w]
<1>a. ASSUME \A p \in Project : WorkOf(ms'[p]) = WorkOf(ms[p]) PROVE WorkMap' = WorkMap
  BY <1>a DEF WorkMap
<1>1. ASSUME NEW i \in Worker, TickStep(i) \/ CallRaises(i), WorkMap' # WorkMap
      PROVE  \E p \in Project : \E w \in {"none", "open", "finished"} :
               /\ \/ state[p] = "planning" /\ WorkMap[p] = "none" /\ w = "open"
                  \/ state[p] = "building" /\ WorkMap[p] = "open" /\ w = "finished"
                  \/ state[p] = "replanning" /\ WorkMap[p] = "finished" /\ w = "open"
               /\ WorkMap' = [WorkMap EXCEPT ![p] = w]
  <2> DEFINE p == job[i].p
             w == WorkOf(ms'[p])
  <2>1. p \in Project /\ Tracks(i) /\ state[p] = job[i].snap
    BY <1>1, TickFrom DEF TypeOK, Job, Orderly, Current, SnapshotCurrent, TickSteps
  <2>2. \A q \in Project : q # p => WorkOf(ms'[q]) = WorkOf(ms[q])
    BY <1>1, TickFramed DEF TickFrame
  <2>3. w # WorkOf(ms[p])
    BY <1>1, <1>a, <2>2
  <2>4. \/ state[p] = "planning" /\ WorkOf(ms[p]) = "none" /\ w = "open"
        \/ state[p] = "building" /\ WorkOf(ms[p]) = "open" /\ w = "finished"
        \/ state[p] = "replanning" /\ WorkOf(ms[p]) = "finished" /\ w = "open"
    BY <1>1, <2>1, <2>3, TickWork DEF Table0
  <2>5. WorkMap' = [WorkMap EXCEPT ![p] = w] /\ WorkMap[p] = WorkOf(ms[p])
    BY <2>1, <2>2 DEF WorkMap
  <2> HIDE DEF w
  <2> QED
    BY <2>1, <2>4, <2>5
<1>2. ASSUME NEW p \in Project
      PROVE  /\ WorkOf(requeue_stale_building(ms[p])) = WorkOf(ms[p])
             /\ WorkOf(reset_retry_count(ms[p])) = WorkOf(ms[p])
  <2>1. ms[p] \in Table /\ \A m \in MilestoneId : ms[p][m] \in Row
    BY RowFacts DEF TypeOK
  <2>2. /\ SameRows(ms[p], requeue_stale_building(ms[p]))
        /\ SameRows(ms[p], reset_retry_count(ms[p]))
    BY <2>1, RowUpdatesKeepRows, IdAssumption
  <2>3. \A m \in MilestoneId :
          /\ requeue_stale_building(ms[p])[m].state = "done" <=> ms[p][m].state = "done"
          /\ reset_retry_count(ms[p])[m].state = "done" <=> ms[p][m].state = "done"
    BY <2>1 DEF requeue_stale_building, reset_retry_count, Row
  <2> QED
    BY <2>2, <2>3, WorkSame
<1>3. ASSUME \A i \in Worker : ~TickStep(i) /\ ~CallRaises(i) PROVE WorkMap' = WorkMap
  BY <1>2, <1>3, <1>a, TableWriters
<1> QED
  BY <1>1, <1>3

(***************************************************************************)
(* With one operator the orchestrator implements ProjectLifecycle: every   *)
(* step of a worker, a handler, the pool or a restart is a legal move, a   *)
(* legal change of a project's work, or invisible.                         *)
(***************************************************************************)
THEOREM ImplementsLifecycleCorrect ==
  ASSUME SingleOperator
  PROVE  Safety => ImplementsLifecycle
<1>1. Init => Lifecycle!LifecycleInit
  BY DEF Init, Lifecycle!LifecycleInit, WorkOf, Rows, NoRow
<1>2. ASSUME TypeOK, TypeOK', ClaimsExclusive, Fits, Orderly, SnapshotCurrent, HandlersCurrent,
             Backed', [Next]_vars
      PROVE  [Lifecycle!LifecycleNext]_<<state, [p \in Project |-> WorkOf(ms[p])]>>
  <2> USE DEF Lifecycle!LifecycleNext, Lifecycle!Enter, Lifecycle!ChangeWork, Lifecycle!Entry,
              Lifecycle!WorkChange, Lifecycle!Work, Lifecycle!LegalProject,
              Lifecycle!PROJECT_TRANSITIONS, Lifecycle!ProjectState, LegalProject,
              PROJECT_TRANSITIONS, ProjectState
  <2>1. CASE state' # state
    BY <1>2, <2>1, StateStepImplements DEF Current, WorkMap
  <2>2. CASE state' = state
    BY <1>2, <2>2, WorkStepImplements DEF Current, WorkMap
  <2> QED
    BY <2>1, <2>2
<1> QED
  BY <1>1, <1>2, TypeCorrect, ClaimsCorrect, FitsCorrect, OrderlyCorrect, CurrentCorrect,
     BackedCorrect, PTL
     DEF Safety, ImplementsLifecycle, Lifecycle!LifecycleSpec
=============================================================================
