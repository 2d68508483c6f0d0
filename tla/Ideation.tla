------------------------------ MODULE Ideation ------------------------------
(***************************************************************************)
(* How projects come to be: ideation, started by the daily cron and by the *)
(* operator's IdeateNow, and the operator's own SubmitIdea, beside a pool  *)
(* that moves projects along.  One asyncio lock serialises ideation; the   *)
(* router's worker threads do not take it.  Two ideas are alike only if    *)
(* they are equal: the token similarity of titles and summaries.           *)
(***************************************************************************)
EXTENDS Integers, Sequences, FiniteSets, FiniteSetsExt

CONSTANTS
  Idea,        \* the ideas the crew and the operator can come up with
  Published,   \* those among them somebody has published on GitHub or PyPI
  ProjectId,   \* 1 .. n, taken in order
  Operator,    \* router threads
  MaxRounds,   \* ideation_max_rounds
  MinScore,    \* ideation_min_score
  MaxScore,    \* bound on an idea's weighted total
  RejectedCap, \* what a rejected idea may still score: 50
  MaxTriggers, \* bound on ideations running or waiting
  MaxFaults    \* bound on failed lookups and writes, crew errors, restarts

ASSUME IdeationAssumption ==
  /\ Published \subseteq Idea /\ Idea # {}
  /\ Cardinality(ProjectId) \in Nat /\ ProjectId = 1 .. Cardinality(ProjectId)
  /\ {MinScore, MaxScore, RejectedCap, MaxFaults} \subseteq Nat
  /\ {MaxRounds, MaxTriggers} \subseteq Nat \ {0}

VARIABLES
  proj,     \* the projects table
  evals,    \* the idea_evaluations table: its accepted rows
  queue,    \* ideations in the order they asked for the lock: the head has it
  step,     \* where the head is
  round,    \* its round
  todo,     \* ideas the Critic scored, not yet compared with our history
  scored,   \* ideas of the round, graded
  op,       \* what each router thread is doing
  stirred,  \* history: projects submitted or moved since the head looked
  faults

tableVars == <<proj, evals>>
runVars == <<queue, step, round, todo, scored>>
vars == <<tableVars, runVars, op, stirred, faults>>

\* Planning, awaiting approval, building, replanning and integration are one
\* here: get_active does not tell them apart.
Live == {p \in ProjectId : proj[p].state \in {"queued", "active", "blocked"}}
Existing == {p \in ProjectId : proj[p].state # "none"}
InState(s) == {p \in ProjectId : proj[p].state = s}

NoProject == [state |-> "none", idea |-> CHOOSE i \in Idea : TRUE, by |-> "none"]
Idle == [doing |-> "idle", idea |-> CHOOSE i \in Idea : TRUE]

OpSteps == {"idle", "queued", "blocked", "schedule", "ask", "insert"}
RunSteps == {"free", "active", "queued", "blocked", "crew", "dedup", "create", "record"}
Graded == [idea : Idea, total : 0 .. MaxScore, rejected : BOOLEAN]

TypeOK ==
  /\ proj \in [ProjectId -> [state : {"none", "queued", "active", "blocked", "ended"},
                             idea : Idea, by : {"none", "ideation", "operator"}]]
  /\ evals \subseteq [idea : Idea, project : {0} \cup ProjectId]
  /\ queue \in Seq([force : BOOLEAN]) /\ Len(queue) <= MaxTriggers
  /\ (step = "free") = (queue = <<>>)
  /\ step \in RunSteps
  /\ round \in 0 .. MaxRounds - 1
  /\ todo \subseteq Graded /\ scored \subseteq Graded
  /\ op \in [Operator -> [doing : OpSteps, idea : Idea]]
  /\ stirred \subseteq Existing
  /\ faults \in 0 .. MaxFaults

Init ==
  /\ proj = [p \in ProjectId |-> NoProject]
  /\ evals = {}
  /\ queue = <<[force |-> FALSE]>>
  /\ step = "active" /\ round = 0 /\ todo = {} /\ scored = {}
  /\ op = [o \in Operator |-> Idle]
  /\ stirred = {}
  /\ faults = 0

Fault == faults < MaxFaults /\ faults' = faults + 1

\* ProjectRepo.create: a row of its own; nothing in the table forbids a second
\* project of the same name.
create(p, idea, by) ==
  /\ p \notin Existing /\ \A q \in ProjectId \ Existing : p <= q
  /\ proj' = [proj EXCEPT ![p] = [state |-> "queued", idea |-> idea, by |-> by]]

HasRoom == Existing # ProjectId

(***************************************************************************)
(* The lock goes to the next in line.  A forced run skips the look at the  *)
(* table, an unforced one begins with it.                                  *)
(***************************************************************************)
EnterWith(q) ==
  /\ queue' = q
  /\ step' = CASE q = <<>>      -> "free"
               [] q # <<>> /\ Head(q).force -> "crew"
               [] OTHER         -> "active"
  /\ round' = 0 /\ todo' = {} /\ scored' = {}
  /\ stirred' = {}

Finish == EnterWith(Tail(queue))

Trigger(t) ==
  /\ Len(queue) < MaxTriggers
  /\ IF queue = <<>> THEN EnterWith(<<t>>)
     ELSE queue' = Append(queue, t) /\ UNCHANGED <<step, round, todo, scored, stirred>>

\* ideation_cron; its run is like one the operator did not force.
Cron ==
  /\ Trigger([force |-> FALSE])
  /\ UNCHANGED <<tableVars, op, faults>>

\* History only: what changes while an unforced run is under way.
Stir(p) ==
  stirred' = IF queue # <<>> /\ ~Head(queue).force THEN stirred \cup {p} ELSE stirred

-----------------------------------------------------------------------------
(***************************************************************************)
(* _swarm_has_work: three queries, one after the other; the first that     *)
(* finds a project answers.                                                *)
(***************************************************************************)
AfterLook_ignoring_blocked(s) ==
  CASE s = "active"  /\ InState("active") = {} -> "queued"
    [] s = "queued"  /\ InState("queued") = {} -> "none"
    [] s = "blocked"                           -> "none"
    [] OTHER                                   -> "work"

AfterLook(s) ==
  IF InState(s) # {} THEN "work"
  ELSE CASE s = "active" -> "queued" [] s = "queued" -> "blocked" [] OTHER -> "none"

Look ==
  /\ step \in {"active", "queued", "blocked"}
  /\ CASE AfterLook(step) = "work" -> Finish
       [] AfterLook(step) = "none" ->
            step' = "crew" /\ UNCHANGED <<queue, round, todo, scored, stirred>>
       [] OTHER ->
            step' = AfterLook(step) /\ UNCHANGED <<queue, round, todo, scored, stirred>>
  /\ UNCHANGED <<tableVars, op, faults>>

Later_stuck(r) == r

Later(r) == r + 1

NextRound_inclusive ==
  IF round = MaxRounds THEN Finish
  ELSE /\ round' = Later(round) /\ step' = "crew" /\ todo' = {} /\ scored' = {}
       /\ UNCHANGED <<queue, stirred>>

\* The next round, or the end of them.
NextRound ==
  IF Later(round) = MaxRounds THEN Finish
  ELSE /\ round' = Later(round) /\ step' = "crew" /\ todo' = {} /\ scored' = {}
       /\ UNCHANGED <<queue, stirred>>

(***************************************************************************)
(* CrewaiIdeationCrew.run up to the prior-art search.  An entry that does  *)
(* not parse is left out; a reply that is no list, or a failing call, ends *)
(* the round.  NoveltyChecker.check searches GitHub and PyPI; a lookup     *)
(* that fails, is throttled three times or answers no JSON finds nothing.  *)
(* An entry the Critic itself rejects is like one below the gate.          *)
(***************************************************************************)
NoveltyCheck(idea, blind) == idea \in Published /\ ~blind

Verdict(idea, total, novel) ==
  [idea |-> idea, total |-> IF novel THEN total ELSE Min({total, RejectedCap}),
   rejected |-> ~novel]

Kickoff(entries, blind) ==
  /\ step = "crew"
  /\ IF entries = {} THEN NextRound
     ELSE /\ todo' = {Verdict(e[1], e[2], ~NoveltyCheck(e[1], blind)) : e \in entries}
          /\ step' = "dedup" /\ UNCHANGED <<queue, round, scored, stirred>>
  /\ IF blind THEN Fault /\ \E e \in entries : e[1] \in Published ELSE UNCHANGED faults
  /\ UNCHANGED <<tableVars, op>>

CrewFails ==
  /\ step = "crew" /\ Fault
  /\ NextRound
  /\ UNCHANGED <<tableVars, op>>

(***************************************************************************)
(* SelfHistoryDedup: every idea is compared with the projects we have, of  *)
(* whatever state, read again for each; a failed read finds no duplicate.  *)
(***************************************************************************)
History_live_only == {proj[p].idea : p \in Live}

History == {proj[p].idea : p \in Existing}

find_duplicate(s, history) ==
  IF s.idea \in history THEN Verdict(s.idea, s.total, FALSE) ELSE s

Dedup(s, readFails) ==
  /\ step = "dedup"
  /\ todo' = todo \ {s}
  /\ scored' = scored \cup {find_duplicate(s, IF readFails THEN {} ELSE History)}
  /\ IF readFails THEN Fault /\ s.idea \in History ELSE UNCHANGED faults
  /\ UNCHANGED <<tableVars, queue, step, round, op, stirred>>

\* The ideas at or above the gate that nothing rejected.
Passing == {s \in scored : s.total >= MinScore /\ ~s.rejected}
Best(s) == s \in Passing /\ \A t \in Passing : t.total <= s.total

\* No idea passes: the round's ideas are recorded, and the next round begins.
RecordRejected ==
  /\ step = "dedup" /\ todo = {} /\ Passing = {}
  /\ NextRound
  /\ UNCHANGED <<tableVars, op, faults>>

CreateProject(s) ==
  /\ step = "dedup" /\ todo = {} /\ Best(s)
  /\ \E p \in ProjectId : create(p, s.idea, "ideation")
  /\ step' = "record"
  /\ todo' = {s}
  /\ UNCHANGED <<evals, queue, round, scored, op, stirred, faults>>

(***************************************************************************)
(* _persist_evaluations: the project just queued explains itself by the    *)
(* one accepted row; the rejected rows are left out here.  Every write is  *)
(* best effort.                                                            *)
(***************************************************************************)
\* IdeaEvaluationRepo.record.
record(idea, p) == evals' = evals \cup {[idea |-> idea, project |-> p]}

Queued_oldest(idea) == Min({p \in Existing : proj[p].idea = idea})

\* The id of the project this round has queued.
Queued(idea) == Max({p \in Existing : proj[p].idea = idea /\ proj[p].by = "ideation"})

RecordRound(lost) ==
  /\ step = "record"
  /\ IF lost THEN Fault /\ UNCHANGED evals
     ELSE /\ \E chosen \in todo : record(chosen.idea, Queued(chosen.idea))
          /\ UNCHANGED faults
  /\ Finish
  /\ UNCHANGED <<proj, op>>

\* A query raises: the run ends and lets go of the lock.
RunRaises ==
  /\ step \in {"active", "queued", "blocked"} \/ (step = "dedup" /\ todo = {} /\ Passing # {})
  /\ Fault
  /\ Finish
  /\ UNCHANGED <<tableVars, op>>

-----------------------------------------------------------------------------
(***************************************************************************)
(* IdeateNow: unless it is forced, the router looks for work in the same   *)
(* three queries (_has_active_work) and asks the operator if there is any; *)
(* otherwise it hands a run to the event loop.                             *)
(***************************************************************************)
OpGoto(o, doing) == op' = [op EXCEPT ![o].doing = doing]

IdeateNow(o) ==
  /\ op[o].doing = "idle"
  /\ OpGoto(o, CASE AfterLook("active") = "work" -> "ask" [] OTHER -> "queued")
  /\ UNCHANGED <<tableVars, runVars, stirred, faults>>

IdeateLook(o) ==
  /\ op[o].doing \in {"queued", "blocked"}
  /\ OpGoto(o, CASE AfterLook(op[o].doing) = "work" -> "ask"
                 [] AfterLook(op[o].doing) = "none" -> "schedule"
                 [] OTHER -> "blocked")
  /\ UNCHANGED <<tableVars, runVars, stirred, faults>>

Schedule(o) ==
  /\ op[o].doing = "schedule"
  /\ Trigger([force |-> FALSE])
  /\ OpGoto(o, "idle")
  /\ UNCHANGED <<tableVars, faults>>

\* The operator answers "ideate anyway?", or lets it be.
Answer(o, yes) ==
  /\ op[o].doing = "ask"
  /\ IF yes THEN Trigger([force |-> TRUE])
            ELSE UNCHANGED <<runVars, stirred>>
  /\ OpGoto(o, "idle")
  /\ UNCHANGED <<tableVars, faults>>

\* _submit_idea: list the projects, refuse a name that is in flight ...
SubmitIdea(o, idea) ==
  /\ op[o].doing = "idle"
  /\ \A p \in Live : proj[p].idea # idea
  /\ op' = [op EXCEPT ![o] = [doing |-> "insert", idea |-> idea]]
  /\ UNCHANGED <<tableVars, runVars, stirred, faults>>

\* ... and insert the project.
SubmitInsert(o) ==
  /\ op[o].doing = "insert"
  /\ \E p \in ProjectId : create(p, op[o].idea, "operator") /\ Stir(p)
  /\ op' = [op EXCEPT ![o] = Idle]
  /\ UNCHANGED <<evals, runVars, faults>>

\* A tick, an approval, an abort or a resume moves a project along.
Moves == {<<"queued", "active">>, <<"queued", "blocked">>, <<"queued", "ended">>, <<"active", "blocked">>,
          <<"active", "ended">>, <<"blocked", "active">>, <<"blocked", "ended">>}

Move(p, s) ==
  /\ <<proj[p].state, s>> \in Moves
  /\ proj' = [proj EXCEPT ![p].state = s]
  /\ Stir(p)
  /\ UNCHANGED <<evals, runVars, op, faults>>

\* The process dies; the scheduler's first act is to run the cron job.
Restart ==
  /\ Fault
  /\ EnterWith(<<[force |-> FALSE]>>)
  /\ op' = [o \in Operator |-> Idle]
  /\ UNCHANGED tableVars

Entries == {e \in SUBSET (Idea \X (0 .. MaxScore)) : \A x, y \in e : x[1] = y[1] => x = y}

IdeationStep ==
  \/ Look
  \/ \E entries \in Entries, blind \in BOOLEAN : Kickoff(entries, blind)
  \/ CrewFails
  \/ \E s \in todo, readFails \in BOOLEAN : Dedup(s, readFails)
  \/ RecordRejected
  \/ \E lost \in BOOLEAN : RecordRound(lost)
  \/ \E s \in scored : CreateProject(s)
  \/ RunRaises

RouterStep(o) ==
  \/ IdeateNow(o) \/ IdeateLook(o) \/ Schedule(o)
  \/ \E yes \in BOOLEAN : Answer(o, yes)
  \/ \E idea \in Idea : SubmitIdea(o, idea)
  \/ SubmitInsert(o)

Next ==
  \/ IdeationStep \/ Cron \/ Restart
  \/ \E o \in Operator : RouterStep(o)
  \/ \E p \in ProjectId, s \in {"active", "blocked", "ended"} : Move(p, s)

\* A run of the crew returns, and the event loop goes on with it.
Spec == Init /\ [][Next]_vars /\ WF_vars(IdeationStep)

-----------------------------------------------------------------------------
(***************************************************************************)
(* Ideation never makes a project of an idea it has had before, nor of one *)
(* somebody has published, whichever triggers wait on one another and      *)
(* whatever became of the earlier project: only a failed lookup lets one   *)
(* pass, or a submission between the look at our history and the insert.   *)
(***************************************************************************)
NeverRepitched ==
  \A p \in Existing : proj[p].by = "ideation" /\ faults = 0 =>
    /\ proj[p].idea \notin Published
    /\ \A q \in Existing \ {p} :
         proj[q].by = "ideation" => proj[q].idea # proj[p].idea

(***************************************************************************)
(* "two concurrent triggers can't both pass the guard": an ideation nobody *)
(* forced adds a project beside a live one only if the operator submitted  *)
(* that one, or the pool moved it, after this ideation began to look.      *)
(***************************************************************************)
OneAtATime ==
  [][step' = "record" /\ ~Head(queue).force /\ step = "dedup" => Live \subseteq stirred]_vars

(***************************************************************************)
(* Every project of ideation is explained by exactly one accepted          *)
(* evaluation, of the idea it was made of, and nothing else is accepted;   *)
(* only a failed write or a restart leaves one unexplained.                *)
(***************************************************************************)
Explained ==
  faults = 0 =>
    /\ \A e \in evals : e.project \in Existing /\ proj[e.project].idea = e.idea
    /\ \A e, f \in evals : e.project = f.project => e = f
    /\ \A p \in Existing : proj[p].by = "ideation" =>
         \/ \E e \in evals : e.project = p
         \/ step = "record" /\ \A q \in Existing : proj[q].by = "ideation" => q <= p

(***************************************************************************)
(* The lock always passes on: an ideation ends even if the crew never has  *)
(* an idea that passes, so that the next in line has its turn.  (The table *)
(* of this model may fill up; the real one does not.)                      *)
(***************************************************************************)
LockPassesOn ==
  \/ []<>(step = "free" \/ ~HasRoom)
  \/ []<><<queue # <<>> /\ queue' = Tail(queue)>>_vars
=============================================================================
