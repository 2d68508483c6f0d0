---------------------------- MODULE IdeationProofs ----------------------------
(***************************************************************************)
(* For any number of ideas, projects, operators, triggers and rounds: what *)
(* the lock and the look at the history promise.                           *)
(***************************************************************************)
EXTENDS Ideation, TLAPS

\* What the proofs need to know of the types.
Shape ==
  /\ proj \in [ProjectId -> [state : {"none", "queued", "active", "blocked", "ended"},
                             idea : Idea, by : {"none", "ideation", "operator"}]]
  /\ queue \in Seq([force : BOOLEAN])
  /\ (step = "free") = (queue = <<>>)
  /\ step \in RunSteps
  /\ \A s \in todo \cup scored : s.idea \in Idea
  /\ step \notin {"dedup", "record"} => scored = {}
  /\ op \in [Operator -> [doing : OpSteps, idea : Idea]]
  /\ faults \in Nat

\* The ideas ideation has made projects of.
Pitched == {proj[p].idea : p \in {q \in Existing : proj[q].by = "ideation"}}

\* While nothing fails, an idea that is not rejected is new to the world and, once
\* it has been compared with our history, to ideation itself.
Novel == faults = 0 /\ step = "dedup" =>
  /\ \A s \in todo : s.rejected \/ s.idea \notin Published
  /\ \A s \in scored : s.rejected \/ s.idea \notin Published \cup Pitched

\* What an ideation that nobody forced has seen of the table so far: every live
\* project of the states it has asked for was moved or submitted since.
Looked ==
  queue # <<>> /\ ~Head(queue).force =>
    /\ step \in {"queued", "blocked", "crew", "dedup"} => InState("active") \subseteq stirred
    /\ step \in {"blocked", "crew", "dedup"} => InState("queued") \subseteq stirred
    /\ step \in {"crew", "dedup"} => InState("blocked") \subseteq stirred

\* The lock passes to a run that begins at the beginning.
LEMMA EnterShape ==
  ASSUME NEW q \in Seq([force : BOOLEAN]), EnterWith(q)
  PROVE  /\ queue' = q /\ (step' = "free") = (queue' = <<>>)
         /\ step' \in {"free", "crew", "active"}
         /\ step' = "crew" => Head(queue').force
         /\ todo' = {} /\ scored' = {} /\ stirred' = {}
BY DEF EnterWith

\* The end of a run.
LEMMA FinishShape ==
  ASSUME Shape, step # "free", Finish
  PROVE  /\ queue' \in Seq([force : BOOLEAN]) /\ (step' = "free") = (queue' = <<>>)
         /\ step' \in {"free", "crew", "active"}
         /\ step' = "crew" => Head(queue').force
         /\ todo' = {} /\ scored' = {} /\ stirred' = {}
<1>1. queue # <<>> /\ queue \in Seq([force : BOOLEAN])
  BY DEF Shape
<1>2. Tail(queue) \in Seq([force : BOOLEAN])
  BY <1>1
<1> QED
  BY <1>2, EnterShape DEF Finish

\* The end of a round: another one, or the end of the run.
LEMMA RoundShape ==
  ASSUME Shape, step # "free", NextRound
  PROVE  /\ queue' \in Seq([force : BOOLEAN]) /\ (step' = "free") = (queue' = <<>>)
         /\ step' \in {"free", "crew", "active"}
         /\ todo' = {} /\ scored' = {}
         /\ \/ step' = "crew" => Head(queue').force
            \/ UNCHANGED <<queue, stirred>>
<1>1. CASE Later(round) = MaxRounds
  BY <1>1, FinishShape DEF NextRound
<1>2. CASE Later(round) # MaxRounds
  BY <1>2 DEF NextRound, Shape
<1> QED
  BY <1>1, <1>2

\* A trigger waits in line, or takes the lock that is free.
LEMMA TriggerShape ==
  ASSUME Shape, NEW t \in [force : BOOLEAN], Trigger(t)
  PROVE  /\ queue' \in Seq([force : BOOLEAN]) /\ (step' = "free") = (queue' = <<>>)
         /\ \/ /\ step' \in {"free", "crew", "active"} /\ todo' = {} /\ scored' = {}
               /\ step' = "crew" => Head(queue').force
            \/ /\ UNCHANGED <<step, todo, scored, stirred>>
               /\ queue # <<>> /\ Head(queue') = Head(queue)
<1>1. CASE queue = <<>>
  <2>1. <<t>> \in Seq([force : BOOLEAN])
    OBVIOUS
  <2> QED
    BY <1>1, <2>1, EnterShape DEF Trigger
<1>2. CASE queue # <<>>
  <2>1. queue' = Append(queue, t) /\ UNCHANGED <<step, todo, scored, stirred>>
    BY <1>2 DEF Trigger
  <2>2. Append(queue, t) \in Seq([force : BOOLEAN]) /\ Append(queue, t) # <<>>
        /\ Head(Append(queue, t)) = Head(queue)
    BY <1>2 DEF Shape
  <2> QED
    BY <1>2, <2>1, <2>2 DEF Shape
<1> QED
  BY <1>1, <1>2

\* A new row is queued; the others stay.
LEMMA CreateRow ==
  ASSUME Shape, NEW p \in ProjectId, NEW idea \in Idea,
         NEW by \in {"ideation", "operator"}, create(p, idea, by)
  PROVE  /\ proj' \in [ProjectId -> [state : {"none", "queued", "active", "blocked", "ended"},
                                     idea : Idea, by : {"none", "ideation", "operator"}]]
         /\ p \notin Existing /\ Existing' = Existing \cup {p}
         /\ proj'[p] = [state |-> "queued", idea |-> idea, by |-> by]
         /\ \A q \in ProjectId \ {p} : proj'[q] = proj[q]
BY DEF Shape, create, Existing

\* A row that moves keeps its idea and its maker.
LEMMA MoveRow ==
  ASSUME Shape, NEW p \in ProjectId, NEW s \in {"active", "blocked", "ended"}, Move(p, s)
  PROVE  /\ proj' \in [ProjectId -> [state : {"none", "queued", "active", "blocked", "ended"},
                                     idea : Idea, by : {"none", "ideation", "operator"}]]
         /\ proj[p].state # "none" /\ proj'[p].state = s
         /\ Existing' = Existing
         /\ \A q \in ProjectId : proj'[q].idea = proj[q].idea /\ proj'[q].by = proj[q].by
         /\ \A q \in ProjectId \ {p} : proj'[q] = proj[q]
<1>1. proj[p].state # "none" /\ proj' = [proj EXCEPT ![p].state = s]
  BY DEF Move, Moves
<1>2. \A q \in ProjectId \ {p} : proj'[q] = proj[q]
  BY <1>1 DEF Shape
<1>3. proj'[p] = [proj[p] EXCEPT !.state = s]
  BY <1>1 DEF Shape
<1>4. /\ proj' \in [ProjectId -> [state : {"none", "queued", "active", "blocked", "ended"},
                                  idea : Idea, by : {"none", "ideation", "operator"}]]
      /\ proj'[p].state = s /\ proj'[p].idea = proj[p].idea /\ proj'[p].by = proj[p].by
  <2>1. proj[p] \in [state : {"none", "queued", "active", "blocked", "ended"},
                     idea : Idea, by : {"none", "ideation", "operator"}]
    BY DEF Shape
  <2>2. /\ proj'[p] \in [state : {"none", "queued", "active", "blocked", "ended"},
                         idea : Idea, by : {"none", "ideation", "operator"}]
        /\ proj'[p].state = s /\ proj'[p].idea = proj[p].idea /\ proj'[p].by = proj[p].by
    BY <1>3, <2>1
  <2> QED
    BY <1>1, <2>2 DEF Shape
<1> QED
  BY <1>1, <1>2, <1>4 DEF Existing

\* The types are kept by every step.
LEMMA ShapeStep == ASSUME Shape, [Next]_vars PROVE Shape'
<1> USE DEF tableVars, runVars
<1>1. CASE Look
  <2>1. step \in {"active", "queued", "blocked"} /\ step # "free" /\ scored = {}
    BY <1>1 DEF Look, Shape
  <2>2. CASE AfterLook(step) = "work"
    BY <1>1, <2>1, <2>2, FinishShape DEF Look, Shape, RunSteps
  <2>3. CASE AfterLook(step) = "none"
    BY <1>1, <2>1, <2>3 DEF Look, Shape, RunSteps
  <2>4. CASE AfterLook(step) \notin {"work", "none"}
    <3>1. AfterLook(step) \in {"queued", "blocked"}
      BY <2>1, <2>4 DEF AfterLook
    <3>2. step' = AfterLook(step) /\ UNCHANGED <<queue, round, todo, scored, stirred, tableVars, op, faults>>
      BY <1>1, <2>4 DEF Look
    <3> QED
      BY <2>1, <3>1, <3>2 DEF Shape, RunSteps
  <2> QED
    BY <2>2, <2>3, <2>4
<1>2. ASSUME NEW entries \in Entries, NEW blind \in BOOLEAN, Kickoff(entries, blind)
      PROVE  Shape'
  <2>1. \A x \in entries : x[1] \in Idea
    BY DEF Entries
  <2>2. CASE entries = {}
    BY <1>2, <2>2, RoundShape DEF Kickoff, Shape, RunSteps, Fault
  <2>3. CASE entries # {}
    <3>1. \A x \in todo' : x.idea \in Idea
      <4>1. todo' = {Verdict(x[1], x[2], ~NoveltyCheck(x[1], blind)) : x \in entries}
        BY <1>2, <2>3 DEF Kickoff
      <4>2. \A x \in entries : Verdict(x[1], x[2], ~NoveltyCheck(x[1], blind)).idea = x[1]
        BY DEF Verdict
      <4> QED
        BY <2>1, <4>1, <4>2
    <3> QED
      BY <1>2, <2>3, <3>1 DEF Kickoff, Shape, RunSteps, Fault
  <2> QED
    BY <2>2, <2>3
<1>3. CASE CrewFails
  BY <1>3, RoundShape DEF CrewFails, Shape, RunSteps, Fault
<1>4. ASSUME NEW s \in todo, NEW readFails \in BOOLEAN, Dedup(s, readFails)
      PROVE  Shape'
  BY <1>4 DEF Dedup, Shape, Fault, find_duplicate, Verdict
<1>5. CASE RecordRejected
  BY <1>5, RoundShape DEF RecordRejected, Shape, RunSteps, Fault
<1>6. ASSUME NEW lost \in BOOLEAN, RecordRound(lost)
      PROVE  Shape'
  BY <1>6, FinishShape DEF RecordRound, Shape, RunSteps, Fault
<1>7. ASSUME NEW s \in scored, CreateProject(s)
      PROVE  Shape'
  BY <1>7, CreateRow DEF CreateProject, Shape, RunSteps
<1>8. CASE RunRaises
  BY <1>8, FinishShape DEF RunRaises, Shape, RunSteps, Fault
<1>9. CASE Cron
  BY <1>9, TriggerShape DEF Cron, Shape, RunSteps
<1>10. CASE Restart
  <2>1. <<[force |-> FALSE]>> \in Seq([force : BOOLEAN])
    OBVIOUS
  <2>2. Idle \in [doing : OpSteps, idea : Idea]
    BY IdeationAssumption DEF Idle, OpSteps
  <2> QED
    <3>1. op' \in [Operator -> [doing : OpSteps, idea : Idea]] /\ faults' \in Nat
      BY <1>10, <2>2 DEF Restart, Shape, Fault
    <3>2. /\ queue' \in Seq([force : BOOLEAN]) /\ (step' = "free") = (queue' = <<>>)
          /\ step' \in RunSteps /\ todo' = {} /\ scored' = {}
      BY <1>10, <2>1, EnterShape DEF Restart, RunSteps
    <3> QED
      BY <1>10, <3>1, <3>2 DEF Restart, Shape
<1>11. ASSUME NEW o \in Operator, IdeateNow(o)
      PROVE  Shape'
  BY <1>11 DEF IdeateNow, Shape, OpGoto, OpSteps
<1>12. ASSUME NEW o \in Operator, IdeateLook(o)
      PROVE  Shape'
  BY <1>12 DEF IdeateLook, Shape, OpGoto, OpSteps
<1>13. ASSUME NEW o \in Operator, Schedule(o)
      PROVE  Shape'
  BY <1>13, TriggerShape DEF Schedule, Shape, RunSteps, OpGoto, OpSteps
<1>14. ASSUME NEW o \in Operator, NEW yes \in BOOLEAN, Answer(o, yes)
      PROVE  Shape'
  BY <1>14, TriggerShape DEF Answer, Shape, RunSteps, OpGoto, OpSteps
<1>15. ASSUME NEW o \in Operator, NEW idea \in Idea, SubmitIdea(o, idea)
      PROVE  Shape'
  BY <1>15 DEF SubmitIdea, Shape, OpSteps
<1>16. ASSUME NEW o \in Operator, SubmitInsert(o)
      PROVE  Shape'
  <2>1. op[o].idea \in Idea /\ Idle \in [doing : OpSteps, idea : Idea]
    BY IdeationAssumption DEF Shape, Idle, OpSteps
  <2> QED
    BY <1>16, <2>1, CreateRow DEF SubmitInsert, Shape
<1>17. ASSUME NEW p \in ProjectId, NEW s \in {"active", "blocked", "ended"}, Move(p, s)
      PROVE  Shape'
  BY <1>17, MoveRow DEF Move, Shape
<1>18. CASE UNCHANGED vars
  BY <1>18 DEF vars, Shape
<1> QED
  BY <1>1, <1>2, <1>3, <1>4, <1>5, <1>6, <1>7, <1>8, <1>9, <1>10, <1>11, <1>12, <1>13, <1>14, <1>15, <1>16, <1>17, <1>18
  DEF Next, IdeationStep, RouterStep

\* Another ideation cannot come between a look at the history and the project made
\* of it, and nothing else that happens to a project makes an idea new again.
LEMMA NovelStep ==
  ASSUME Shape, Novel, NeverRepitched, [Next]_vars
  PROVE  Novel' /\ NeverRepitched'
<1> USE DEF tableVars, runVars
<1>1. CASE Look
  BY <1>1, FinishShape DEF Look, AfterLook, Shape, Novel, NeverRepitched, Existing
<1>2. ASSUME NEW entries \in Entries, NEW blind \in BOOLEAN, Kickoff(entries, blind)
      PROVE  Novel' /\ NeverRepitched'
  <2>1. NeverRepitched'
    BY <1>2 DEF Kickoff, Shape, Fault, NeverRepitched, Existing
  <2>2. CASE entries = {}
    BY <1>2, <2>1, <2>2, RoundShape DEF Kickoff, Novel
  <2>3. ASSUME entries # {}, faults' = 0 PROVE \A x \in todo' : x.rejected \/ x.idea \notin Published
    <3>1. ~blind
      BY <1>2, <2>3 DEF Kickoff, Shape, Fault
    <3> QED
      <4>1. todo' = {Verdict(x[1], x[2], ~NoveltyCheck(x[1], blind)) : x \in entries}
        BY <1>2, <2>3 DEF Kickoff
      <4>2. \A x \in entries :
              LET v == Verdict(x[1], x[2], ~NoveltyCheck(x[1], blind))
              IN  v.rejected \/ v.idea \notin Published
        BY <3>1 DEF Verdict, NoveltyCheck
      <4> QED
        BY <4>1, <4>2
  <2>4. CASE entries # {}
    <3>1. scored' = {} /\ step' = "dedup"
      BY <1>2, <2>4 DEF Kickoff, Shape
    <3> QED
      BY <2>1, <2>3, <2>4, <3>1 DEF Novel
  <2> QED
    BY <2>2, <2>4
<1>3. CASE CrewFails
  BY <1>3, RoundShape DEF CrewFails, Shape, Fault, Novel, NeverRepitched, Existing
<1>4. ASSUME NEW s \in todo, NEW readFails \in BOOLEAN, Dedup(s, readFails)
      PROVE  Novel' /\ NeverRepitched'
  <2>1. NeverRepitched' /\ Pitched' = Pitched
    BY <1>4 DEF Dedup, Shape, Fault, NeverRepitched, Pitched, Existing
  <2>2. ASSUME faults' = 0
        PROVE  \A x \in scored' : x.rejected \/ x.idea \notin Published \cup Pitched
    <3>1. faults = 0 /\ scored' = scored \cup {find_duplicate(s, History)}
      BY <1>4, <2>2 DEF Dedup, Shape, Fault
    <3>2. Pitched \subseteq History
      BY DEF Pitched, History
    <3>3. LET d == find_duplicate(s, History) IN d.rejected \/ d.idea \notin Published \cup Pitched
      BY <1>4, <3>1, <3>2 DEF Dedup, Novel, find_duplicate, Verdict
    <3> QED
      BY <1>4, <3>1, <3>3 DEF Dedup, Novel
  <2> QED
    BY <1>4, <2>1, <2>2 DEF Dedup, Shape, Fault, Novel
<1>5. CASE RecordRejected
  BY <1>5, RoundShape DEF RecordRejected, Novel, NeverRepitched, Existing
<1>6. ASSUME NEW lost \in BOOLEAN, RecordRound(lost)
      PROVE  Novel' /\ NeverRepitched'
  BY <1>6, FinishShape DEF RecordRound, Shape, Fault, Novel, NeverRepitched, Existing
<1>7. ASSUME NEW s \in scored, CreateProject(s)
      PROVE  Novel' /\ NeverRepitched'
  <2>1. PICK p \in ProjectId : create(p, s.idea, "ideation")
    BY <1>7 DEF CreateProject
  <2>2. /\ p \notin Existing /\ Existing' = Existing \cup {p}
        /\ proj'[p].idea = s.idea
        /\ \A q \in ProjectId \ {p} : proj'[q] = proj[q]
    <3>1. s.idea \in Idea
      BY DEF Shape
    <3> QED
      BY <2>1, <3>1 DEF create, Shape, Existing
  <2>3. faults' = 0 => s.idea \notin Published \cup Pitched
    BY <1>7 DEF CreateProject, Best, Passing, Novel
  <2>4. NeverRepitched'
    BY <1>7, <2>2, <2>3 DEF CreateProject, NeverRepitched, Pitched, Existing
  <2> QED
    BY <1>7, <2>4 DEF CreateProject, Novel
<1>8. CASE RunRaises
  BY <1>8, FinishShape DEF RunRaises, Shape, Fault, Novel, NeverRepitched, Existing
<1>9. CASE Cron
  BY <1>9, TriggerShape DEF Cron, Novel, NeverRepitched, Pitched, Existing
<1>10. CASE Restart
  BY <1>10 DEF Restart, Shape, Fault, Novel, NeverRepitched
<1>11. ASSUME NEW o \in Operator, IdeateNow(o)
      PROVE  Novel' /\ NeverRepitched'
  BY <1>11 DEF IdeateNow, Shape, Novel, NeverRepitched, Pitched, Existing
<1>12. ASSUME NEW o \in Operator, IdeateLook(o)
      PROVE  Novel' /\ NeverRepitched'
  BY <1>12 DEF IdeateLook, Shape, Novel, NeverRepitched, Pitched, Existing
<1>13. ASSUME NEW o \in Operator, Schedule(o)
      PROVE  Novel' /\ NeverRepitched'
  BY <1>13, TriggerShape DEF Schedule, Novel, NeverRepitched, Pitched, Existing
<1>14. ASSUME NEW o \in Operator, NEW yes \in BOOLEAN, Answer(o, yes)
      PROVE  Novel' /\ NeverRepitched'
  BY <1>14, TriggerShape DEF Answer, Novel, NeverRepitched, Pitched, Existing
<1>15. ASSUME NEW o \in Operator, NEW idea \in Idea, SubmitIdea(o, idea)
      PROVE  Novel' /\ NeverRepitched'
  BY <1>15 DEF SubmitIdea, Shape, Novel, NeverRepitched, Pitched, Existing
<1>16. ASSUME NEW o \in Operator, SubmitInsert(o)
      PROVE  Novel' /\ NeverRepitched'
  <2>1. PICK p \in ProjectId : create(p, op[o].idea, "operator")
    BY <1>16 DEF SubmitInsert
  <2>2. /\ p \notin Existing /\ Existing' = Existing \cup {p}
        /\ proj'[p].by = "operator"
        /\ \A q \in ProjectId \ {p} : proj'[q] = proj[q]
    <3>1. op[o].idea \in Idea
      BY DEF Shape
    <3> QED
      BY <2>1, <3>1 DEF create, Shape, Existing
  <2>3. Pitched' = Pitched
    BY <2>2 DEF Pitched, Existing
  <2>4. UNCHANGED <<step, todo, scored, faults>>
    BY <1>16 DEF SubmitInsert
  <2>5. Novel'
    BY <2>3, <2>4 DEF Novel
  <2> QED
    BY <2>2, <2>4, <2>5 DEF NeverRepitched, Existing
<1>17. ASSUME NEW p \in ProjectId, NEW s \in {"active", "blocked", "ended"}, Move(p, s)
      PROVE  Novel' /\ NeverRepitched'
  <2>1. Existing' = Existing /\ \A q \in ProjectId : proj'[q].idea = proj[q].idea /\ proj'[q].by = proj[q].by
    BY <1>17, MoveRow
  <2>2. Pitched' = Pitched
    BY <2>1 DEF Pitched, Existing
  <2>3. UNCHANGED <<step, todo, scored, faults>>
    BY <1>17 DEF Move
  <2>4. Novel'
    BY <2>2, <2>3 DEF Novel
  <2> QED
    BY <2>1, <2>3, <2>4 DEF NeverRepitched, Existing
<1>18. CASE UNCHANGED vars
  BY <1>18 DEF vars, Novel, NeverRepitched, Pitched, Existing
<1> QED
  BY <1>1, <1>2, <1>3, <1>4, <1>5, <1>6, <1>7, <1>8, <1>9, <1>10, <1>11, <1>12, <1>13, <1>14, <1>15, <1>16, <1>17, <1>18
  DEF Next, IdeationStep, RouterStep

\* What a run has not found stays away or is stirred; a new run has seen nothing.
LEMMA LookedStep == ASSUME Shape, Looked, [Next]_vars PROVE Looked'
<1> USE DEF tableVars, runVars
<1>1. CASE Look
  <2>1. CASE AfterLook(step) = "work"
    BY <1>1, <2>1, FinishShape DEF Look, Looked
  <2>2. CASE AfterLook(step) = "none"
    BY <1>1, <2>2 DEF Look, AfterLook, Looked, InState
  <2>3. CASE AfterLook(step) \notin {"work", "none"}
    <3>1. \/ step = "active" /\ InState("active") = {} /\ AfterLook(step) = "queued"
          \/ step = "queued" /\ InState("queued") = {} /\ AfterLook(step) = "blocked"
      BY <1>1, <2>3 DEF Look, AfterLook
    <3>2. step' = AfterLook(step) /\ UNCHANGED <<queue, stirred, proj>>
      BY <1>1, <2>3 DEF Look
    <3> QED
      BY <3>1, <3>2 DEF Looked, InState
  <2> QED
    BY <2>1, <2>2, <2>3
<1>2. ASSUME NEW entries \in Entries, NEW blind \in BOOLEAN, Kickoff(entries, blind)
      PROVE  Looked'
  BY <1>2, RoundShape DEF Kickoff, Looked, InState
<1>3. CASE CrewFails
  BY <1>3, RoundShape DEF CrewFails, Looked, InState
<1>4. ASSUME NEW s \in todo, NEW readFails \in BOOLEAN, Dedup(s, readFails)
      PROVE  Looked'
  BY <1>4 DEF Dedup, Shape, Looked, InState
<1>5. CASE RecordRejected
  BY <1>5, RoundShape DEF RecordRejected, Looked, InState
<1>6. ASSUME NEW lost \in BOOLEAN, RecordRound(lost)
      PROVE  Looked'
  BY <1>6, FinishShape DEF RecordRound, Looked, InState
<1>7. ASSUME NEW s \in scored, CreateProject(s)
      PROVE  Looked'
  BY <1>7 DEF CreateProject, Looked
<1>8. CASE RunRaises
  BY <1>8, FinishShape DEF RunRaises, Looked, InState
<1>9. CASE Cron
  BY <1>9, TriggerShape DEF Cron, Looked, InState
<1>10. CASE Restart
  BY <1>10 DEF Restart, EnterWith, Looked
<1>11. ASSUME NEW o \in Operator, IdeateNow(o)
      PROVE  Looked'
  BY <1>11 DEF IdeateNow, Shape, Looked, InState
<1>12. ASSUME NEW o \in Operator, IdeateLook(o)
      PROVE  Looked'
  BY <1>12 DEF IdeateLook, Shape, Looked, InState
<1>13. ASSUME NEW o \in Operator, Schedule(o)
      PROVE  Looked'
  BY <1>13, TriggerShape DEF Schedule, Looked, InState
<1>14. ASSUME NEW o \in Operator, NEW yes \in BOOLEAN, Answer(o, yes)
      PROVE  Looked'
  BY <1>14, TriggerShape DEF Answer, Looked, InState
<1>15. ASSUME NEW o \in Operator, NEW idea \in Idea, SubmitIdea(o, idea)
      PROVE  Looked'
  BY <1>15 DEF SubmitIdea, Shape, Looked, InState
<1>16. ASSUME NEW o \in Operator, SubmitInsert(o)
      PROVE  Looked'
  <2>1. PICK p \in ProjectId : create(p, op[o].idea, "operator") /\ Stir(p)
    BY <1>16 DEF SubmitInsert
  <2>2. \A q \in ProjectId \ {p} : proj'[q] = proj[q]
    BY <2>1, CreateRow DEF Shape
  <2> QED
    BY <1>16, <2>1, <2>2 DEF SubmitInsert, Stir, Looked, InState
<1>17. ASSUME NEW p \in ProjectId, NEW s \in {"active", "blocked", "ended"}, Move(p, s)
      PROVE  Looked'
  <2>1. \A q \in ProjectId \ {p} : proj'[q] = proj[q]
    BY <1>17, MoveRow
  <2> QED
    BY <1>17, <2>1 DEF Move, Stir, Looked, InState
<1>18. CASE UNCHANGED vars
  BY <1>18 DEF vars, Looked, InState
<1> QED
  BY <1>1, <1>2, <1>3, <1>4, <1>5, <1>6, <1>7, <1>8, <1>9, <1>10, <1>11, <1>12, <1>13, <1>14, <1>15, <1>16, <1>17, <1>18
  DEF Next, IdeationStep, RouterStep

-----------------------------------------------------------------------------
\* What the types bound of the run under way, and of the rest.
RunBounds ==
  /\ Len(queue) <= MaxTriggers
  /\ round \in 0 .. MaxRounds - 1
  /\ todo \subseteq Graded /\ scored \subseteq Graded

TableBounds ==
  /\ evals \subseteq [idea : Idea, project : {0} \cup ProjectId]
  /\ stirred \subseteq Existing
  /\ faults \in 0 .. MaxFaults

\* A rejection lowers a total at most to the cap, and never raises it.
LEMMA VerdictGraded ==
  ASSUME NEW idea \in Idea, NEW total \in 0 .. MaxScore, NEW novel \in BOOLEAN
  PROVE  Verdict(idea, total, novel) \in Graded
<1> DEFINE low == Min({total, RejectedCap})
<1>1. low \in 0 .. MaxScore
  <2>1. total \in Int /\ RejectedCap \in Nat /\ MaxScore \in Nat
    BY IdeationAssumption
  <2>2. PICK x \in {total, RejectedCap} : \A y \in {total, RejectedCap} : x <= y
    BY <2>1
  <2>3. low \in {total, RejectedCap} /\ \A y \in {total, RejectedCap} : low <= y
    BY <2>2 DEF Min
  <2> HIDE DEF low
  <2> QED
    BY <2>1, <2>3
<1> HIDE DEF low
<1>2. (IF novel THEN total ELSE low) \in 0 .. MaxScore
  BY <1>1
<1>3. (~novel) \in BOOLEAN
  OBVIOUS
<1> DEFINE graded == IF novel THEN total ELSE low
<1>4. Verdict(idea, total, novel) = [idea |-> idea, total |-> graded, rejected |-> ~novel]
  BY DEF Verdict, low
<1> HIDE DEF graded
<1>5. [idea |-> idea, total |-> graded, rejected |-> ~novel] \in Graded
  BY <1>2, <1>3, Zenon DEF Graded, graded
<1> QED
  BY <1>4, <1>5, Zenon

\* A run begins within the bounds.
LEMMA EnterBounds ==
  ASSUME NEW q \in Seq([force : BOOLEAN]), Len(q) <= MaxTriggers, EnterWith(q)
  PROVE  RunBounds' /\ stirred' = {}
<1>1. 0 \in 0 .. MaxRounds - 1
  BY IdeationAssumption
<1> QED
  BY <1>1 DEF EnterWith, RunBounds

\* The end of a run makes room for a trigger.
LEMMA FinishBounds ==
  ASSUME Shape, RunBounds, step # "free", Finish
  PROVE  RunBounds' /\ stirred' = {}
<1>1. queue # <<>> /\ queue \in Seq([force : BOOLEAN])
  BY DEF Shape
<1>2. Tail(queue) \in Seq([force : BOOLEAN]) /\ Len(Tail(queue)) = Len(queue) - 1 /\ Len(queue) \in Nat
  BY <1>1
<1>3. Len(Tail(queue)) <= MaxTriggers
  BY <1>2, IdeationAssumption DEF RunBounds
<1> QED
  BY <1>2, <1>3, EnterBounds DEF Finish

\* There are no more rounds than the setting says.
LEMMA RoundBounds ==
  ASSUME Shape, RunBounds, step # "free", NextRound
  PROVE  RunBounds' /\ stirred' \subseteq stirred
<1>1. CASE Later(round) = MaxRounds
  BY <1>1, FinishBounds DEF NextRound
<1>2. CASE Later(round) # MaxRounds
  <2>1. round + 1 \in 0 .. MaxRounds - 1
    BY <1>2, IdeationAssumption DEF Later, RunBounds
  <2> QED
    BY <1>2, <2>1 DEF NextRound, Later, RunBounds
<1> QED
  BY <1>1, <1>2

\* A trigger asks for the lock only while there is room in line.
LEMMA TriggerBounds ==
  ASSUME Shape, RunBounds, NEW t \in [force : BOOLEAN], Trigger(t)
  PROVE  RunBounds' /\ stirred' \subseteq stirred
<1>1. CASE queue = <<>>
  <2>1. <<t>> \in Seq([force : BOOLEAN]) /\ Len(<<t>>) = 1
    OBVIOUS
  <2>2. Len(<<t>>) <= MaxTriggers
    BY <2>1, IdeationAssumption
  <2> QED
    BY <1>1, <2>1, <2>2, EnterBounds DEF Trigger
<1>2. CASE queue # <<>>
  <2>1. queue' = Append(queue, t) /\ UNCHANGED <<step, round, todo, scored, stirred>>
    BY <1>2 DEF Trigger
  <2>2. Len(queue) < MaxTriggers /\ Len(queue) \in Nat /\ Len(Append(queue, t)) = Len(queue) + 1
    BY DEF Trigger, Shape
  <2>3. Len(queue') <= MaxTriggers
    BY <2>1, <2>2, IdeationAssumption
  <2> QED
    BY <2>1, <2>3 DEF RunBounds
<1> QED
  BY <1>1, <1>2

\* A fault is counted up to the bound.
LEMMA FaultBounds == ASSUME faults \in 0 .. MaxFaults, Fault PROVE faults' \in 0 .. MaxFaults
BY IdeationAssumption DEF Fault

\* The rows an ideation writes name the project its idea became.
LEMMA QueuedRow ==
  ASSUME NEW idea, NEW p \in Existing, proj[p].idea = idea, proj[p].by = "ideation",
         \A q \in Existing : proj[q].by = "ideation" => q <= p
  PROVE  Queued(idea) = p
<1> DEFINE S == {q \in Existing : proj[q].idea = idea /\ proj[q].by = "ideation"}
<1>1. p \in S /\ \A q \in S : q \in Int /\ q <= p
  BY IdeationAssumption DEF Existing
<1>2. Queued(idea) = CHOOSE x \in S : \A y \in S : x >= y
  BY DEF Queued, Max
<1> HIDE DEF S
<1>3. PICK m \in S : m = Queued(idea) /\ \A y \in S : m >= y
  BY <1>1, <1>2
<1> QED
  BY <1>1, <1>3

\* The projects of ideation, and the newest of them.
Made == {p \in Existing : proj[p].by = "ideation"}
Newest(p) == p \in Made /\ \A q \in Made : q <= p

\* Ids are taken in order, so that a new project is newer than any other.
InLine == \A p \in Existing, q \in ProjectId : q < p => q \in Existing

\* What is about to be recorded is the idea the newest project was made of.
Chosen == step = "record" =>
  \E s \in todo, p \in ProjectId : todo = {s} /\ Newest(p) /\ proj[p].idea = s.idea

\* Every project of ideation but the one about to be recorded has its row.
Accounted == faults = 0 =>
  /\ \A e \in evals : e.project \in Made /\ proj[e.project].idea = e.idea
  /\ \A e, f \in evals : e.project = f.project => e = f
  /\ \A p \in Made : (\E e \in evals : e.project = p) <=> ~(step = "record" /\ Newest(p))

\* The row an ideation writes names the project its idea became.
LEMMA RecordedRow ==
  ASSUME Shape, Chosen, step = "record", NEW chosen \in todo, record(chosen.idea, Queued(chosen.idea))
  PROVE  \E p \in ProjectId :
           /\ Newest(p) /\ proj[p].idea = chosen.idea /\ chosen.idea \in Idea
           /\ evals' = evals \cup {[idea |-> chosen.idea, project |-> p]}
<1>1. PICK p \in ProjectId : Newest(p) /\ proj[p].idea = chosen.idea
  BY DEF Chosen
<1>2. Queued(chosen.idea) = p
  BY <1>1, QueuedRow DEF Newest, Made
<1> QED
  BY <1>1, <1>2 DEF record, Shape

\* The bounds are kept by every step.
LEMMA BoundsStep ==
  ASSUME Shape, Chosen, RunBounds, TableBounds, [Next]_vars
  PROVE  RunBounds' /\ TableBounds'
<1> USE DEF tableVars, runVars
<1>0. faults \in 0 .. MaxFaults /\ (Fault => faults' \in 0 .. MaxFaults)
  BY FaultBounds DEF TableBounds
<1>1. CASE Look
  <2>1. step # "free" /\ UNCHANGED <<proj, evals, faults>>
    BY <1>1 DEF Look
  <2>2. RunBounds' /\ stirred' \subseteq stirred
    <3>1. CASE AfterLook(step) = "work"
      BY <1>1, <2>1, <3>1, FinishBounds DEF Look
    <3>2. CASE AfterLook(step) # "work"
      BY <1>1, <3>2 DEF Look, RunBounds
    <3> QED
      BY <3>1, <3>2
  <2> QED
    BY <2>1, <2>2 DEF TableBounds, Existing
<1>2. ASSUME NEW entries \in Entries, NEW blind \in BOOLEAN, Kickoff(entries, blind)
      PROVE  RunBounds' /\ TableBounds'
  <2>1. step = "crew" /\ UNCHANGED <<proj, evals>> /\ (Fault \/ UNCHANGED faults)
    BY <1>2 DEF Kickoff
  <2>2. RunBounds' /\ stirred' \subseteq stirred
    <3>1. CASE entries = {}
      BY <1>2, <2>1, <3>1, RoundBounds DEF Kickoff
    <3>2. CASE entries # {}
      <4>1. \A x \in entries : x[1] \in Idea /\ x[2] \in 0 .. MaxScore
        BY DEF Entries
      <4>2. \A x \in entries : (~NoveltyCheck(x[1], blind)) \in BOOLEAN
        OBVIOUS
      <4>3. \A x \in entries : Verdict(x[1], x[2], ~NoveltyCheck(x[1], blind)) \in Graded
        BY <4>1, <4>2, VerdictGraded, Zenon
      <4>4. /\ todo' = {Verdict(x[1], x[2], ~NoveltyCheck(x[1], blind)) : x \in entries}
            /\ UNCHANGED <<queue, round, scored, stirred>>
        BY <1>2, <3>2 DEF Kickoff
      <4>5. todo' \subseteq Graded
        BY <4>3, <4>4, Zenon
      <4> QED
        BY <4>4, <4>5 DEF RunBounds
    <3> QED
      BY <3>1, <3>2
  <2> QED
    BY <1>0, <2>1, <2>2 DEF TableBounds, Existing
<1>3. CASE CrewFails
  <2>1. RunBounds' /\ stirred' \subseteq stirred
    BY <1>3, RoundBounds DEF CrewFails
  <2> QED
    BY <1>0, <1>3, <2>1 DEF CrewFails, TableBounds, Existing
<1>4. ASSUME NEW s \in todo, NEW readFails \in BOOLEAN, Dedup(s, readFails)
      PROVE  RunBounds' /\ TableBounds'
  <2>1. s \in Graded
    BY DEF RunBounds
  <2>2. \A history : find_duplicate(s, history) \in Graded
    <3>1. s.idea \in Idea /\ s.total \in 0 .. MaxScore /\ FALSE \in BOOLEAN
      BY <2>1 DEF Graded
    <3>2. Verdict(s.idea, s.total, FALSE) \in Graded
      BY <3>1, VerdictGraded, Zenon
    <3> QED
      BY <2>1, <3>2, Zenon DEF find_duplicate
  <2>3. /\ todo' \subseteq todo
        /\ scored' = scored \cup {find_duplicate(s, IF readFails THEN {} ELSE History)}
        /\ UNCHANGED <<proj, evals, queue, round, stirred>> /\ (Fault \/ UNCHANGED faults)
    BY <1>4 DEF Dedup
  <2>4. RunBounds'
    BY <2>2, <2>3 DEF RunBounds
  <2> QED
    BY <1>0, <2>3, <2>4 DEF TableBounds, Existing
<1>5. CASE RecordRejected
  <2>1. RunBounds' /\ stirred' \subseteq stirred
    BY <1>5, RoundBounds DEF RecordRejected
  <2> QED
    BY <1>0, <1>5, <2>1 DEF RecordRejected, TableBounds, Existing
<1>6. ASSUME NEW lost \in BOOLEAN, RecordRound(lost)
      PROVE  RunBounds' /\ TableBounds'
  <2>1. RunBounds' /\ stirred' = {}
    BY <1>6, FinishBounds DEF RecordRound
  <2>2. evals' \subseteq [idea : Idea, project : {0} \cup ProjectId]
    <3>1. CASE lost
      BY <1>6, <3>1 DEF RecordRound, TableBounds
    <3>2. CASE ~lost
      <4>1. PICK chosen \in todo : record(chosen.idea, Queued(chosen.idea))
        BY <1>6, <3>2 DEF RecordRound
      <4>2. step = "record"
        BY <1>6 DEF RecordRound
      <4> QED
        BY <4>1, <4>2, RecordedRow DEF TableBounds
    <3> QED
      BY <3>1, <3>2
  <2> QED
    BY <1>0, <1>6, <2>1, <2>2 DEF RecordRound, TableBounds, Existing
<1>7. ASSUME NEW s \in scored, CreateProject(s)
      PROVE  RunBounds' /\ TableBounds'
  <2>1. PICK p \in ProjectId : create(p, s.idea, "ideation")
    BY <1>7 DEF CreateProject
  <2>2. s \in Graded /\ s.idea \in Idea
    BY DEF RunBounds, Shape
  <2>3. Existing \subseteq Existing'
    BY <2>1, <2>2, CreateRow
  <2> QED
    BY <1>0, <1>7, <2>2, <2>3 DEF CreateProject, RunBounds, TableBounds
<1>8. CASE RunRaises
  <2>1. RunBounds' /\ stirred' = {}
    BY <1>8, FinishBounds DEF RunRaises
  <2> QED
    BY <1>0, <1>8, <2>1 DEF RunRaises, TableBounds, Existing
<1>9. CASE Cron
  <2>1. RunBounds' /\ stirred' \subseteq stirred
    BY <1>9, TriggerBounds DEF Cron
  <2> QED
    BY <1>0, <1>9, <2>1 DEF Cron, TableBounds, Existing
<1>10. CASE Restart
  <2>1. <<[force |-> FALSE]>> \in Seq([force : BOOLEAN]) /\ Len(<<[force |-> FALSE]>>) = 1
    OBVIOUS
  <2>2. Len(<<[force |-> FALSE]>>) <= MaxTriggers
    BY <2>1, IdeationAssumption
  <2>3. RunBounds' /\ stirred' = {}
    BY <1>10, <2>1, <2>2, EnterBounds DEF Restart
  <2> QED
    BY <1>0, <1>10, <2>3 DEF Restart, TableBounds, Existing
<1>11. ASSUME NEW o \in Operator, IdeateNow(o) \/ IdeateLook(o)
      PROVE  RunBounds' /\ TableBounds'
  BY <1>11 DEF IdeateNow, IdeateLook, RunBounds, TableBounds, Existing
<1>13. ASSUME NEW o \in Operator, Schedule(o)
      PROVE  RunBounds' /\ TableBounds'
  <2>1. RunBounds' /\ stirred' \subseteq stirred
    BY <1>13, TriggerBounds DEF Schedule
  <2> QED
    BY <1>0, <1>13, <2>1 DEF Schedule, TableBounds, Existing
<1>14. ASSUME NEW o \in Operator, NEW yes \in BOOLEAN, Answer(o, yes)
      PROVE  RunBounds' /\ TableBounds'
  <2>1. RunBounds' /\ stirred' \subseteq stirred
    BY <1>14, TriggerBounds DEF Answer, RunBounds
  <2> QED
    BY <1>0, <1>14, <2>1 DEF Answer, TableBounds, Existing
<1>15. ASSUME NEW o \in Operator, NEW idea \in Idea, SubmitIdea(o, idea)
      PROVE  RunBounds' /\ TableBounds'
  BY <1>15 DEF SubmitIdea, RunBounds, TableBounds, Existing
<1>16. ASSUME NEW o \in Operator, SubmitInsert(o)
      PROVE  RunBounds' /\ TableBounds'
  <2>1. op[o].idea \in Idea
    BY DEF Shape
  <2>2. PICK p \in ProjectId : create(p, op[o].idea, "operator") /\ Stir(p)
    BY <1>16 DEF SubmitInsert
  <2>3. Existing' = Existing \cup {p}
    BY <2>1, <2>2, CreateRow
  <2>4. stirred' \subseteq stirred \cup {p}
    BY <2>2 DEF Stir
  <2> QED
    BY <1>0, <1>16, <2>3, <2>4 DEF SubmitInsert, RunBounds, TableBounds
<1>17. ASSUME NEW p \in ProjectId, NEW s \in {"active", "blocked", "ended"}, Move(p, s)
      PROVE  RunBounds' /\ TableBounds'
  <2>1. p \in Existing /\ Existing' = Existing
    BY <1>17, MoveRow DEF Existing
  <2>2. stirred' \subseteq stirred \cup {p}
    BY <1>17 DEF Move, Stir
  <2> QED
    BY <1>0, <1>17, <2>1, <2>2 DEF Move, RunBounds, TableBounds
<1>18. CASE UNCHANGED vars
  BY <1>18 DEF vars, RunBounds, TableBounds, Existing
<1> QED
  BY <1>1, <1>2, <1>3, <1>4, <1>5, <1>6, <1>7, <1>8, <1>9, <1>10, <1>11, <1>13, <1>14, <1>15, <1>16, <1>17, <1>18
  DEF Next, IdeationStep, RouterStep

\* Ids are taken in order by whoever takes them.
LEMMA InLineStep == ASSUME Shape, InLine, [Next]_vars PROVE InLine'
<1> USE DEF tableVars, runVars
<1>1. ASSUME NEW p \in ProjectId, NEW idea \in Idea, NEW by \in {"ideation", "operator"}, create(p, idea, by)
      PROVE  InLine'
  <2>1. Existing' = Existing \cup {p}
    BY <1>1, CreateRow
  <2>2. \A q \in ProjectId \ Existing : p <= q
    BY <1>1 DEF create
  <2>3. \A q \in ProjectId : q \in Int
    BY IdeationAssumption
  <2> QED
    BY <2>1, <2>2, <2>3 DEF InLine, Existing
<1>2. ASSUME NEW s \in scored, CreateProject(s)
      PROVE  InLine'
  BY <1>1, <1>2 DEF CreateProject, Shape
<1>3. ASSUME NEW o \in Operator, SubmitInsert(o)
      PROVE  InLine'
  BY <1>1, <1>3 DEF SubmitInsert, Shape
<1>4. ASSUME NEW p \in ProjectId, NEW s \in {"active", "blocked", "ended"}, Move(p, s)
      PROVE  InLine'
  BY <1>4, MoveRow DEF InLine
<1>5. ASSUME UNCHANGED proj
      PROVE  InLine'
  BY <1>5 DEF InLine, Existing
<1> QED
  BY <1>2, <1>3, <1>4, <1>5
  DEF Next, IdeationStep, RouterStep, Look, Kickoff, CrewFails, Dedup, RecordRejected, RecordRound,
      RunRaises, Cron, Restart, IdeateNow, IdeateLook, Schedule, Answer, SubmitIdea, vars

\* A step that neither makes nor records a project of ideation.
LEMMA StillAccounted ==
  ASSUME Shape, Chosen, Accounted, Made' = Made, \A p \in Made : proj'[p].idea = proj[p].idea,
         evals' = evals, (step' = "record") = (step = "record"), step = "record" => todo' = todo,
         faults' = 0 => faults = 0
  PROVE  Chosen' /\ Accounted'
<1>1. \A p : Newest(p)' <=> Newest(p)
  BY DEF Newest
<1>2. Chosen'
  BY <1>1 DEF Chosen, Newest
<1>3. Accounted'
  BY <1>1 DEF Accounted
<1> QED
  BY <1>2, <1>3

\* The same, of a step that leaves the table of projects alone.
LEMMA SameTable ==
  ASSUME Shape, Chosen, Accounted, proj' = proj, evals' = evals, (step' = "record") = (step = "record"),
         step = "record" => todo' = todo, faults' = 0 => faults = 0
  PROVE  Chosen' /\ Accounted'
<1>1. Made' = Made
  BY DEF Made, Existing
<1> QED
  BY <1>1, StillAccounted

\* A trigger that finds the lock taken leaves the record alone.
LEMMA TriggerRecord ==
  ASSUME Shape, NEW t \in [force : BOOLEAN], Trigger(t)
  PROVE  (step' = "record") = (step = "record") /\ (step = "record" => todo' = todo)
<1>1. CASE queue = <<>>
  <2>1. <<t>> \in Seq([force : BOOLEAN]) /\ step = "free"
    BY <1>1 DEF Shape
  <2> QED
    BY <1>1, <2>1, EnterShape DEF Trigger
<1>2. CASE queue # <<>>
  BY <1>2 DEF Trigger
<1> QED
  BY <1>1, <1>2

\* The rows of ideation and its projects stay in step.
LEMMA AccountedStep ==
  ASSUME Shape, InLine, Chosen, Accounted, [Next]_vars
  PROVE  Chosen' /\ Accounted'
<1> USE DEF tableVars, runVars
<1>1. CASE Look
  <2>1. step \in {"active", "queued", "blocked"} /\ step' # "record"
    <3>1. CASE AfterLook(step) = "work"
      BY <1>1, <3>1, FinishShape DEF Look
    <3>2. CASE AfterLook(step) # "work"
      BY <1>1, <3>2 DEF Look, AfterLook
    <3> QED
      BY <1>1, <3>1, <3>2 DEF Look
  <2> QED
    BY <1>1, <2>1, SameTable DEF Look
<1>2. ASSUME NEW entries \in Entries, NEW blind \in BOOLEAN, Kickoff(entries, blind)
      PROVE  Chosen' /\ Accounted'
  <2>1. step = "crew" /\ step' # "record"
    BY <1>2, RoundShape DEF Kickoff
  <2> QED
    BY <1>2, <2>1, SameTable DEF Kickoff, Shape, Fault
<1>3. CASE CrewFails
  <2>1. step = "crew" /\ step' # "record"
    BY <1>3, RoundShape DEF CrewFails
  <2> QED
    BY <1>3, <2>1, SameTable DEF CrewFails, Shape, Fault
<1>4. ASSUME NEW s \in todo, NEW readFails \in BOOLEAN, Dedup(s, readFails)
      PROVE  Chosen' /\ Accounted'
  BY <1>4, SameTable DEF Dedup, Shape, Fault
<1>5. CASE RecordRejected
  <2>1. step = "dedup" /\ step' # "record"
    BY <1>5, RoundShape DEF RecordRejected
  <2> QED
    BY <1>5, <2>1, SameTable DEF RecordRejected
<1>6. ASSUME NEW lost \in BOOLEAN, RecordRound(lost)
      PROVE  Chosen' /\ Accounted'
  <2>1. step = "record" /\ step' # "record" /\ Made' = Made /\ proj' = proj
    BY <1>6, FinishShape DEF RecordRound, Made, Existing
  <2>2. Chosen'
    BY <2>1 DEF Chosen
  <2>3. CASE lost
    <3>1. faults' # 0
      BY <1>6, <2>3 DEF RecordRound, Fault, Shape
    <3> QED
      BY <2>2, <3>1 DEF Accounted
  <2>4. CASE ~lost
    <3>1. faults' = faults
      BY <1>6, <2>4 DEF RecordRound
    <3>2. PICK chosen \in todo : record(chosen.idea, Queued(chosen.idea))
      BY <1>6, <2>4 DEF RecordRound
    <3>3. PICK p \in ProjectId :
            /\ Newest(p) /\ proj[p].idea = chosen.idea
            /\ evals' = evals \cup {[idea |-> chosen.idea, project |-> p]}
      BY <2>1, <3>2, RecordedRow
    <3>4. \A q : Newest(q) => q = p
      BY <3>3, IdeationAssumption DEF Newest, Made, Existing
    <3> DEFINE row == [idea |-> chosen.idea, project |-> p]
    <3>5. row.idea = proj[p].idea /\ row.project = p /\ p \in Made
      BY <3>3 DEF Newest
    <3> HIDE DEF row
    <3>6. evals' = evals \cup {row}
      BY <3>3 DEF row
    <3>7. ASSUME faults' = 0 PROVE \A e \in evals : e.project # p
      BY <2>1, <3>1, <3>3, <3>5, <3>7 DEF Accounted
    <3>8. Accounted'
      BY <2>1, <3>1, <3>3, <3>4, <3>5, <3>6, <3>7 DEF Accounted
    <3> QED
      BY <2>2, <3>8
  <2> QED
    BY <2>2, <2>3, <2>4
<1>7. ASSUME NEW s \in scored, CreateProject(s)
      PROVE  Chosen' /\ Accounted'
  <2>1. PICK p \in ProjectId : create(p, s.idea, "ideation")
    BY <1>7 DEF CreateProject
  <2>2. /\ p \notin Existing /\ Existing' = Existing \cup {p}
        /\ proj'[p].idea = s.idea /\ proj'[p].by = "ideation"
        /\ \A q \in ProjectId \ {p} : proj'[q] = proj[q]
    <3>1. s.idea \in Idea
      BY DEF Shape
    <3> QED
      BY <2>1, <3>1 DEF create, Shape, Existing
  <2>3. Made' = Made \cup {p} /\ p \notin Made /\ \A q \in Made : proj'[q] = proj[q]
    BY <2>2 DEF Made, Existing
  <2>4. \A q \in Made : q < p
    BY <2>2, IdeationAssumption DEF InLine, Made, Existing
  <2>5. \A q : Newest(q)' <=> q = p
    <3>1. p \in Int /\ \A q \in Made : q \in Int
      BY IdeationAssumption DEF Made, Existing
    <3> QED
      BY <2>3, <2>4, <3>1 DEF Newest
  <2>6. step = "dedup" /\ step' = "record" /\ todo' = {s} /\ UNCHANGED <<evals, faults>>
    BY <1>7 DEF CreateProject
  <2>7. Chosen'
    BY <2>2, <2>5, <2>6 DEF Chosen
  <2>8. Accounted'
    BY <2>2, <2>3, <2>5, <2>6 DEF Accounted
  <2> QED
    BY <2>7, <2>8
<1>8. CASE RunRaises
  <2>1. step # "record" /\ step' # "record"
    BY <1>8, FinishShape DEF RunRaises
  <2> QED
    BY <1>8, <2>1, SameTable DEF RunRaises, Shape, Fault
<1>9. CASE Cron
  BY <1>9, TriggerRecord, SameTable DEF Cron
<1>10. CASE Restart
  <2>1. step' # "record"
    BY <1>10 DEF Restart, EnterWith
  <2>2. faults' # 0
    BY <1>10 DEF Restart, Fault, Shape
  <2> QED
    BY <2>1, <2>2 DEF Chosen, Accounted
<1>11. ASSUME NEW o \in Operator, IdeateNow(o)
      PROVE  Chosen' /\ Accounted'
  BY <1>11, SameTable DEF IdeateNow
<1>12. ASSUME NEW o \in Operator, IdeateLook(o)
      PROVE  Chosen' /\ Accounted'
  BY <1>12, SameTable DEF IdeateLook
<1>13. ASSUME NEW o \in Operator, Schedule(o)
      PROVE  Chosen' /\ Accounted'
  BY <1>13, TriggerRecord, SameTable DEF Schedule
<1>14. ASSUME NEW o \in Operator, NEW yes \in BOOLEAN, Answer(o, yes)
      PROVE  Chosen' /\ Accounted'
  BY <1>14, TriggerRecord, SameTable DEF Answer
<1>15. ASSUME NEW o \in Operator, NEW idea \in Idea, SubmitIdea(o, idea)
      PROVE  Chosen' /\ Accounted'
  BY <1>15, SameTable DEF SubmitIdea
<1>16. ASSUME NEW o \in Operator, SubmitInsert(o)
      PROVE  Chosen' /\ Accounted'
  <2>1. PICK p \in ProjectId : create(p, op[o].idea, "operator")
    BY <1>16 DEF SubmitInsert
  <2>2. /\ p \notin Existing /\ Existing' = Existing \cup {p} /\ proj'[p].by = "operator"
        /\ \A q \in ProjectId \ {p} : proj'[q] = proj[q]
    <3>1. op[o].idea \in Idea
      BY DEF Shape
    <3> QED
      BY <2>1, <3>1 DEF create, Shape, Existing
  <2>3. Made' = Made /\ \A q \in Made : proj'[q] = proj[q]
    BY <2>2 DEF Made, Existing
  <2> QED
    BY <1>16, <2>3, StillAccounted DEF SubmitInsert
<1>17. ASSUME NEW p \in ProjectId, NEW s \in {"active", "blocked", "ended"}, Move(p, s)
      PROVE  Chosen' /\ Accounted'
  <2>1. Made' = Made /\ \A q \in Made : proj'[q].idea = proj[q].idea
    BY <1>17, MoveRow DEF Made, Existing
  <2> QED
    BY <1>17, <2>1, StillAccounted DEF Move
<1>18. CASE UNCHANGED vars
  BY <1>18, SameTable DEF vars
<1> QED
  BY <1>1, <1>2, <1>3, <1>4, <1>5, <1>6, <1>7, <1>8, <1>9, <1>10, <1>11, <1>12, <1>13, <1>14, <1>15, <1>16, <1>17, <1>18
  DEF Next, IdeationStep, RouterStep

-----------------------------------------------------------------------------
IInv ==
  /\ Shape /\ RunBounds /\ TableBounds
  /\ Novel /\ NeverRepitched
  /\ Looked
  /\ InLine /\ Chosen /\ Accounted

\* The invariant holds when the process starts on an empty table.
LEMMA Initially == Init => IInv
<1> SUFFICES ASSUME Init PROVE IInv
  OBVIOUS
<1>1. Shape
  <2>1. NoProject \in [state : {"none", "queued", "active", "blocked", "ended"},
                       idea : Idea, by : {"none", "ideation", "operator"}]
    BY IdeationAssumption DEF NoProject
  <2>2. Idle \in [doing : OpSteps, idea : Idea]
    BY IdeationAssumption DEF Idle, OpSteps
  <2> QED
    BY <2>1, <2>2 DEF Init, Shape, RunSteps
<1>2. Existing = {}
  BY DEF Init, Existing, NoProject
<1>3. Novel /\ NeverRepitched /\ Looked
  BY <1>2 DEF Init, Novel, NeverRepitched, Looked
<1>4. RunBounds /\ TableBounds
  <2>1. 1 <= MaxTriggers /\ 0 \in 0 .. MaxRounds - 1 /\ 0 \in 0 .. MaxFaults
    BY IdeationAssumption
  <2>2. Len(queue) = 1
    BY DEF Init
  <2>3. RunBounds
    BY <2>1, <2>2 DEF Init, RunBounds
  <2> QED
    BY <2>1, <2>3 DEF Init, TableBounds
<1>5. InLine /\ Chosen /\ Accounted
  BY <1>2 DEF Init, InLine, Chosen, Accounted, Made
<1> QED
  BY <1>1, <1>3, <1>4, <1>5 DEF IInv

\* The invariant holds throughout.
LEMMA Inductive == Spec => []IInv
<1>1. IInv /\ [Next]_vars => IInv'
  BY ShapeStep, NovelStep, LookedStep, BoundsStep, InLineStep, AccountedStep DEF IInv
<1> QED
  BY Initially, <1>1, PTL DEF Spec

(***************************************************************************)
(* However many triggers wait for the lock and whatever the pool does, no  *)
(* idea is pitched twice, nor one that is published, while no call fails.  *)
(***************************************************************************)
THEOREM NeverRepitchedCorrect == Spec => []NeverRepitched
<1>1. IInv => NeverRepitched
  BY DEF IInv
<1> QED
  BY Inductive, <1>1, PTL

(***************************************************************************)
(* With any number of triggers and operators, an ideation nobody forced    *)
(* adds a project beside a live one only if that one was submitted or      *)
(* moved after it had begun to look.                                       *)
(***************************************************************************)
THEOREM OneAtATimeCorrect == Spec => OneAtATime
<1>1. IInv /\ [Next]_vars =>
        [step' = "record" /\ ~Head(queue).force /\ step = "dedup" => Live \subseteq stirred]_vars
  <2> SUFFICES ASSUME IInv, step = "dedup", ~Head(queue).force
               PROVE  Live \subseteq stirred
    OBVIOUS
  <2> QED
    BY DEF IInv, Shape, Looked, Live, InState
<1> QED
  BY Inductive, <1>1, PTL DEF Spec, OneAtATime

(***************************************************************************)
(* However many rounds and triggers, the rows, ideas and scores are of     *)
(* their types: a rejection never takes a total below zero, the line of    *)
(* triggers and the rounds stay within their bounds, and an accepted row   *)
(* names a project.                                                        *)
(***************************************************************************)
THEOREM TypeCorrect == Spec => []TypeOK
<1>1. IInv => TypeOK
  BY DEF IInv, Shape, RunBounds, TableBounds, TypeOK
<1> QED
  BY Inductive, <1>1, PTL

(***************************************************************************)
(* With any number of triggers and of projects submitted meanwhile, what   *)
(* ideation made is explained by one accepted row, and nothing else is.    *)
(***************************************************************************)
THEOREM ExplainedCorrect == Spec => []Explained
<1>1. IInv => Explained
  BY DEF IInv, Accounted, Explained, Newest, Made
<1> QED
  BY Inductive, <1>1, PTL
===============================================================================
