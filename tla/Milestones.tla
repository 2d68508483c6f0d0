----------------------------- MODULE Milestones -----------------------------
(***************************************************************************)
(* One project's rows of the milestones table and what the milestone       *)
(* repository does to them.  A table is a function from milestone ids to   *)
(* rows; a row whose state is "none" is not in the table.  Every operator  *)
(* here is one database transaction, so it is a function of the table.     *)
(*                                                                         *)
(* Of a row's columns the model keeps ordinal, state and retry_count.  Of  *)
(* its spec it keeps, in note, which of the two markers that the           *)
(* orchestrator reads back technical_note contains (consol:                *)
(* "[CONSOLIDATION]", auto: "[AUTO-SPLIT"), and of its sessions and ledger *)
(* lines what is asked of them: hot, the latest sessions passed an         *)
(* auto-split cap and the spec can be bisected; over, the tokens spent on  *)
(* it passed the per-milestone cap.  The third mark, cadence, is history:  *)
(* the note is as build_consolidation_spec wrote it.                       *)
(***************************************************************************)
EXTENDS Integers, FiniteSets, StateMachine

CONSTANT MilestoneId

\* The notes a crew can write, into a plan, a split's children or an amend's
\* patch: a marker in its text counts like one of the orchestrator's own.
CrewNote == SUBSET {"consol", "auto"}

CadenceNote == {"consol", "cadence"}

Note == CrewNote \cup {CadenceNote}

Row == [ordinal: Nat, state: MilestoneState \cup {"none"}, retry_count: Nat,
        note: Note, hot: BOOLEAN, over: BOOLEAN]

Table == [MilestoneId -> Row]

NoRow == [ordinal |-> 0, state |-> "none", retry_count |-> 0,
          note |-> {}, hot |-> FALSE, over |-> FALSE]

NewRow(ordinal, note) ==
  [ordinal |-> ordinal, state |-> "pending", retry_count |-> 0,
   note |-> note, hot |-> FALSE, over |-> FALSE]

\* list_for_project: the ids of the rows there are.
Rows(t) == {m \in MilestoneId : t[m].state # "none"}

AllDone(t) == \A m \in Rows(t) : t[m].state = "done"

(***************************************************************************)
(* The database draws a fresh id for each inserted row.  A placement of n  *)
(* rows maps n unused ids onto 0 .. n-1, their positions in the insertion. *)
(***************************************************************************)
Placements(t, n) ==
  {f \in UNION {[S -> 0 .. n - 1] :
                  S \in {Q \in SUBSET (MilestoneId \ Rows(t)) : Cardinality(Q) = n}} :
     /\ \A a, b \in DOMAIN f : f[a] = f[b] => a = b
     /\ \A k \in 0 .. n - 1 : \E a \in DOMAIN f : f[a] = k}

FreshIds(t, n) == CHOOSE f \in Placements(t, n) : TRUE

\* create_many: the planned milestones at ordinals 0, 1, ..., with their notes.
create_many(t, new, notes) ==
  [m \in MilestoneId |->
     IF m \in DOMAIN new THEN NewRow(new[m], notes[new[m]]) ELSE t[m]]

\* The rows next_pending chooses from, and the one it returns.
Waiting(t) == {m \in MilestoneId : t[m].state \in {"pending", "failed"}}

next_pending(t, m) ==
  /\ m \in Waiting(t)
  /\ \A k \in Waiting(t) : t[m].ordinal <= t[k].ordinal

update_state(t, m, s) == [t EXCEPT ![m].state = s]

\* record_attempt: done, or failed with one more retry on the count.  What a
\* done row's sessions and ledger lines say is never asked again.
record_attempt(t, m, success) ==
  [t EXCEPT ![m].state = IF success THEN "done" ELSE "failed",
            ![m].retry_count = IF success THEN @ ELSE @ + 1,
            ![m].hot = @ /\ ~success,
            ![m].over = @ /\ ~success]

requeue_nothing(t) == t

\* requeue_stale_building at startup, and the reclaim at the top of a build
\* step: a row found in building is an orphan and goes back to pending.
requeue_stale_building(t) ==
  [m \in MilestoneId |->
     IF t[m].state = "building" THEN [t[m] EXCEPT !.state = "pending"] ELSE t[m]]

\* reset_retry_count: a resumed project's unfinished rows start afresh.
reset_retry_count(t) ==
  [m \in MilestoneId |->
     IF t[m].state # "done" THEN [t[m] EXCEPT !.retry_count = 0] ELSE t[m]]

\* What a crew's run adds to its milestone's sessions and ledger lines: the
\* latest sessions count, and spend only grows.
charge(t, m, hot, over) ==
  [t EXCEPT ![m].hot = hot, ![m].over = @ \/ over]

\* Every row behind ordinal o moves n places down.
ShiftAfter(t, o, n) ==
  [m \in MilestoneId |->
     IF m \in Rows(t) /\ t[m].ordinal > o
       THEN [t[m] EXCEPT !.ordinal = @ + n] ELSE t[m]]

replace_with_short_shift(t, parent, new, notes) ==
  LET o == t[parent].ordinal
      s == ShiftAfter(t, o, Cardinality(DOMAIN new) - 2)
  IN  [m \in MilestoneId |->
         CASE m \in DOMAIN new -> NewRow(o + new[m], notes[new[m]])
           [] m = parent       -> NoRow
           [] OTHER            -> s[m]]

replace_with_one_early(t, parent, new, notes) ==
  LET o == t[parent].ordinal
      s == ShiftAfter(t, o, Cardinality(DOMAIN new) - 1)
  IN  [m \in MilestoneId |->
         CASE m \in DOMAIN new -> NewRow(o - 1 + new[m], notes[new[m]])
           [] m = parent       -> NoRow
           [] OTHER            -> s[m]]

(***************************************************************************)
(* replace_with: the later rows make room, the parent is deleted and its   *)
(* children take its ordinal and the ones after it.                        *)
(***************************************************************************)
replace_with(t, parent, new, notes) ==
  LET o == t[parent].ordinal
      s == ShiftAfter(t, o, Cardinality(DOMAIN new) - 1)
  IN  [m \in MilestoneId |->
         CASE m \in DOMAIN new -> NewRow(o + new[m], notes[new[m]])
           [] m = parent       -> NoRow
           [] OTHER            -> s[m]]

\* insert_after: one consolidation row directly behind row a.
insert_after(t, a, new) ==
  LET o == t[a].ordinal
      s == ShiftAfter(t, o, 1)
  IN  [m \in MilestoneId |->
         IF m \in DOMAIN new THEN NewRow(o + 1, CadenceNote) ELSE s[m]]

\* update_spec: a patch can rewrite technical_note, and the acceptance criteria
\* that decide whether the spec can be bisected.
update_spec(t, m, note, hot) == [t EXCEPT ![m].note = note, ![m].hot = hot]

\* _last_done: the done row of the highest ordinal.
last_done(t, m) ==
  /\ t[m].state = "done"
  /\ \A k \in MilestoneId : t[k].state = "done" => t[k].ordinal <= t[m].ordinal

(***************************************************************************)
(* should_insert_consolidation: none is in flight, and the milestones done *)
(* behind the last one are a positive multiple of the cadence.             *)
(***************************************************************************)
DoneSinceConsolidation(t) ==
  {m \in MilestoneId :
     /\ t[m].state = "done" /\ "consol" \notin t[m].note
     /\ \A c \in Rows(t) : "consol" \in t[c].note => t[c].ordinal < t[m].ordinal}

count_never_restarts(t, every) ==
  /\ every > 0
  /\ \A m \in Rows(t) : "consol" \in t[m].note => t[m].state = "done"
  /\ LET n == Cardinality({m \in MilestoneId :
                           t[m].state = "done" /\ "consol" \notin t[m].note})
     IN  n > 0 /\ n % every = 0

should_insert_consolidation(t, every) ==
  /\ every > 0
  /\ \A m \in Rows(t) : "consol" \in t[m].note => t[m].state = "done"
  /\ LET n == Cardinality(DoneSinceConsolidation(t))
     IN  n > 0 /\ n % every = 0
=============================================================================
