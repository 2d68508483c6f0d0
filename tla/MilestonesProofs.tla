-------------------------- MODULE MilestonesProofs --------------------------
(***************************************************************************)
(* Facts about the milestone repository's operators: what an insertion is  *)
(* handed by the database, and that every transaction turns a table into a *)
(* table.                                                                  *)
(***************************************************************************)
EXTENDS Milestones, Functions, FiniteSetTheorems, TLAPS

(***************************************************************************)
(* The ids an insertion of n rows is given are n unused ones, placed at    *)
(* the positions 0 .. n-1: create_many, replace_with and insert_after      *)
(* overwrite no row.                                                       *)
(***************************************************************************)
LEMMA PlacementFacts ==
  ASSUME NEW t, NEW n \in Nat, NEW new \in Placements(t, n)
  PROVE  /\ new \in [DOMAIN new -> 0 .. n - 1]
         /\ DOMAIN new \subseteq MilestoneId \ Rows(t)
         /\ IsFiniteSet(DOMAIN new)
         /\ Cardinality(DOMAIN new) = n
<1>1. /\ new \in [DOMAIN new -> 0 .. n - 1]
      /\ DOMAIN new \subseteq MilestoneId \ Rows(t)
  BY DEF Placements
<1>2. new \in Injection(DOMAIN new, 0 .. n - 1)
  BY <1>1 DEF Placements, Injection, IsInjective
<1>3. new \in Surjection(DOMAIN new, 0 .. n - 1)
  BY <1>1 DEF Placements, Surjection
<1>4. IsFiniteSet(0 .. n - 1) /\ Cardinality(0 .. n - 1) = n
  BY FS_Interval
<1>5. /\ IsFiniteSet(DOMAIN new)
      /\ Cardinality(DOMAIN new) = Cardinality(0 .. n - 1)
  BY <1>2, <1>3, <1>4, FS_Injection
<1> QED
  BY <1>1, <1>4, <1>5

\* The ids chosen for n new rows are distinct and not in the table.
LEMMA FreshIdsPlaced ==
  ASSUME NEW t, NEW n, Placements(t, n) # {}
  PROVE  FreshIds(t, n) \in Placements(t, n)
BY DEF FreshIds

\* A row is found where its state says it is.
LEMMA RowFacts ==
  ASSUME NEW t \in Table, NEW m \in MilestoneId
  PROVE  t[m] \in Row
BY DEF Table

\* A row as first inserted is a row.
LEMMA NewRowType ==
  ASSUME NEW o \in Nat, NEW note \in Note
  PROVE  NewRow(o, note) \in Row
BY DEF NewRow, Row, MilestoneState

\* So is the absence of one.
LEMMA NoRowType == NoRow \in Row
<1>1. {} \in Note
  BY DEF Note, CrewNote
<1> QED
  BY <1>1 DEF NoRow, Row

\* create_many stores a plan in an empty table.
LEMMA CreateManyType ==
  ASSUME NEW t \in Table, NEW n \in Nat, NEW new \in Placements(t, n),
         NEW notes \in [0 .. n - 1 -> Note]
  PROVE  create_many(t, new, notes) \in Table
<1> SUFFICES ASSUME NEW m \in MilestoneId
             PROVE  create_many(t, new, notes)[m] \in Row
  BY DEF create_many, Table
<1>1. CASE m \in DOMAIN new
  <2>1. new[m] \in Nat /\ notes[new[m]] \in Note
    BY <1>1, PlacementFacts
  <2> QED
    BY <1>1, <2>1, NewRowType DEF create_many
<1>2. CASE m \notin DOMAIN new
  BY <1>2 DEF create_many, Table
<1> QED
  BY <1>1, <1>2

\* Making room for n more rows keeps every ordinal a natural number, for a
\* shift of -1 too: only ordinals above zero move.
LEMMA ShiftAfterType ==
  ASSUME NEW t \in Table, NEW o \in Nat, NEW n \in Int, n >= -1
  PROVE  ShiftAfter(t, o, n) \in Table
<1> SUFFICES ASSUME NEW m \in MilestoneId
             PROVE  ShiftAfter(t, o, n)[m] \in Row
  BY DEF ShiftAfter, Table
<1>1. t[m] \in Row
  BY RowFacts
<1> QED
  BY <1>1 DEF ShiftAfter, Row

\* A split leaves a table behind.
LEMMA ReplaceWithType ==
  ASSUME NEW t \in Table, NEW parent \in MilestoneId, NEW n \in Nat,
         NEW new \in Placements(t, n), NEW notes \in [0 .. n - 1 -> Note]
  PROVE  replace_with(t, parent, new, notes) \in Table
<1> DEFINE o == t[parent].ordinal
           s == ShiftAfter(t, o, Cardinality(DOMAIN new) - 1)
<1>1. o \in Nat
  BY RowFacts DEF Row
<1>2. s \in Table
  <2>1. Cardinality(DOMAIN new) - 1 \in Int /\ Cardinality(DOMAIN new) - 1 >= -1
    BY PlacementFacts
  <2> HIDE DEF o
  <2> QED
    BY <1>1, <2>1, ShiftAfterType
<1> SUFFICES ASSUME NEW m \in MilestoneId
             PROVE  replace_with(t, parent, new, notes)[m] \in Row
  BY DEF replace_with, Table
<1>3. replace_with(t, parent, new, notes)[m] =
        CASE m \in DOMAIN new -> NewRow(o + new[m], notes[new[m]])
          [] m = parent       -> NoRow
          [] OTHER            -> s[m]
  BY DEF replace_with
<1> HIDE DEF o, s
<1>4. m \in DOMAIN new => NewRow(o + new[m], notes[new[m]]) \in Row
  <2> SUFFICES ASSUME m \in DOMAIN new
               PROVE  NewRow(o + new[m], notes[new[m]]) \in Row
    OBVIOUS
  <2>1. o + new[m] \in Nat /\ notes[new[m]] \in Note
    BY <1>1, PlacementFacts
  <2> QED
    BY <2>1, NewRowType
<1>5. m \notin Rows(t) \/ m \notin DOMAIN new
  BY PlacementFacts
<1>6. s[m] \in Row
  BY <1>2, RowFacts
<1>7. CASE m \in DOMAIN new /\ m = parent
  BY <1>3, <1>4, <1>7, NoRowType
<1>8. CASE m \in DOMAIN new /\ m # parent
  BY <1>3, <1>4, <1>8
<1>9. CASE m \notin DOMAIN new
  BY <1>3, <1>6, <1>9, NoRowType
<1> QED
  BY <1>7, <1>8, <1>9

\* So does the insertion of a consolidation milestone.
LEMMA InsertAfterType ==
  ASSUME NEW t \in Table, NEW a \in MilestoneId, NEW new \in Placements(t, 1)
  PROVE  insert_after(t, a, new) \in Table
<1> DEFINE o == t[a].ordinal
           s == ShiftAfter(t, o, 1)
<1>1. o \in Nat
  BY RowFacts DEF Row
<1>2. s \in Table
  BY <1>1, ShiftAfterType
<1>3. NewRow(o + 1, CadenceNote) \in Row
  <2> HIDE DEF o
  <2>1. o + 1 \in Nat /\ CadenceNote \in Note
    BY <1>1 DEF Note
  <2> QED
    BY <2>1, NewRowType
<1> SUFFICES ASSUME NEW m \in MilestoneId
             PROVE  insert_after(t, a, new)[m] \in Row
  BY DEF insert_after, Table
<1>4. insert_after(t, a, new)[m] = IF m \in DOMAIN new THEN NewRow(o + 1, CadenceNote)
                                                       ELSE s[m]
  BY DEF insert_after
<1> HIDE DEF o, s
<1> QED
  BY <1>2, <1>3, <1>4, RowFacts

\* And so do the transactions that touch one row, or every row alike.
LEMMA RowUpdateType ==
  ASSUME NEW t \in Table, NEW m \in MilestoneId, NEW row \in Row
  PROVE  [t EXCEPT ![m] = row] \in Table
BY DEF Table

\* update_state: one row to a state of its own enumeration.
LEMMA UpdateStateType ==
  ASSUME NEW t \in Table, NEW m \in MilestoneId, NEW s \in MilestoneState
  PROVE  update_state(t, m, s) \in Table
<1> DEFINE row == [t[m] EXCEPT !.state = s]
<1>1. t[m] \in Row
  BY RowFacts
<1>2. row \in Row
  BY <1>1 DEF Row
<1>3. update_state(t, m, s) = [t EXCEPT ![m] = row]
  BY DEF update_state
<1> QED
  BY <1>2, <1>3, RowUpdateType

\* record_attempt: one row done, or failed once more.
LEMMA RecordAttemptType ==
  ASSUME NEW t \in Table, NEW m \in MilestoneId, NEW success \in BOOLEAN
  PROVE  record_attempt(t, m, success) \in Table
<1> DEFINE s == IF success THEN "done" ELSE "failed"
           n == IF success THEN t[m].retry_count ELSE t[m].retry_count + 1
           h == t[m].hot /\ ~success
           v == t[m].over /\ ~success
           row == [t[m] EXCEPT !.state = s, !.retry_count = n, !.hot = h, !.over = v]
<1>1. t[m] \in Row
  BY RowFacts
<1>2. s \in MilestoneState \cup {"none"} /\ n \in Nat
  BY <1>1 DEF Row, MilestoneState
<1>3. h \in BOOLEAN /\ v \in BOOLEAN
  OBVIOUS
<1>4. record_attempt(t, m, success) = [t EXCEPT ![m] = row]
  BY DEF record_attempt
<1> HIDE DEF s, n, h, v
<1>5. row \in Row
  BY <1>1, <1>2, <1>3 DEF Row
<1> HIDE DEF row
<1> QED
  BY <1>4, <1>5, RowUpdateType

\* A crew run charged to one row.
LEMMA ChargeType ==
  ASSUME NEW t \in Table, NEW m \in MilestoneId, NEW hot \in BOOLEAN, NEW over \in BOOLEAN
  PROVE  charge(t, m, hot, over) \in Table
<1> DEFINE v == t[m].over \/ over
           row == [t[m] EXCEPT !.hot = hot, !.over = v]
<1>1. t[m] \in Row /\ v \in BOOLEAN
  BY RowFacts
<1>2. charge(t, m, hot, over) = [t EXCEPT ![m] = row]
  BY DEF charge
<1> HIDE DEF v
<1>3. row \in Row
  BY <1>1 DEF Row
<1> HIDE DEF row
<1> QED
  BY <1>2, <1>3, RowUpdateType

\* update_spec: one row amended.
LEMMA UpdateSpecType ==
  ASSUME NEW t \in Table, NEW m \in MilestoneId, NEW note \in Note, NEW hot \in BOOLEAN
  PROVE  update_spec(t, m, note, hot) \in Table
<1> DEFINE row == [t[m] EXCEPT !.note = note, !.hot = hot]
<1>1. t[m] \in Row
  BY RowFacts
<1>2. row \in Row
  BY <1>1 DEF Row
<1>3. update_spec(t, m, note, hot) = [t EXCEPT ![m] = row]
  BY DEF update_spec
<1> QED
  BY <1>2, <1>3, RowUpdateType

\* requeue_stale_building and reset_retry_count: every row alike.
LEMMA AllRowsUpdateType ==
  ASSUME NEW t \in Table
  PROVE  requeue_stale_building(t) \in Table /\ reset_retry_count(t) \in Table
<1>1. \A m \in MilestoneId : t[m] \in Row
  BY RowFacts
<1>2. \A m \in MilestoneId : requeue_stale_building(t)[m] \in Row
  BY <1>1 DEF requeue_stale_building, Row, MilestoneState
<1>3. \A m \in MilestoneId : reset_retry_count(t)[m] \in Row
  BY <1>1 DEF reset_retry_count, Row
<1> QED
  BY <1>2, <1>3 DEF requeue_stale_building, reset_retry_count, Table

(***************************************************************************)
(* What each transaction does to the rows that are done: nothing, if the   *)
(* row it is about to fail, reopen or replace is not one of them.          *)
(***************************************************************************)
KeepsDone(t, u) ==
  \A m \in MilestoneId : t[m].state = "done" => u[m].state = "done"

\* Plans, splits and consolidations insert around finished rows.
LEMMA InsertionsKeepDone ==
  ASSUME NEW t \in Table, NEW n \in Nat, NEW new \in Placements(t, n),
         NEW a \in MilestoneId, NEW notes
  PROVE  /\ KeepsDone(t, create_many(t, new, notes))
         /\ KeepsDone(t, insert_after(t, a, new))
         /\ t[a].state # "done" => KeepsDone(t, replace_with(t, a, new, notes))
<1>1. \A m \in DOMAIN new : m \in MilestoneId /\ t[m].state = "none"
  BY PlacementFacts DEF Rows
<1>2. \A m \in MilestoneId : \A o, k : ShiftAfter(t, o, k)[m].state = t[m].state
  <2> SUFFICES ASSUME NEW m \in MilestoneId, NEW o, NEW k
               PROVE  ShiftAfter(t, o, k)[m].state = t[m].state
    OBVIOUS
  <2>1. t[m] \in Row
    BY RowFacts
  <2> QED
    BY <2>1 DEF ShiftAfter, Row
<1>3. KeepsDone(t, create_many(t, new, notes))
  BY <1>1 DEF KeepsDone, create_many
<1>4. KeepsDone(t, insert_after(t, a, new))
  <2> SUFFICES ASSUME NEW m \in MilestoneId, t[m].state = "done"
               PROVE  insert_after(t, a, new)[m].state = "done"
    BY DEF KeepsDone
  <2>1. m \notin DOMAIN new
    BY <1>1
  <2> QED
    BY <1>2, <2>1 DEF insert_after
<1>5. ASSUME t[a].state # "done" PROVE KeepsDone(t, replace_with(t, a, new, notes))
  <2> SUFFICES ASSUME NEW m \in MilestoneId, t[m].state = "done"
               PROVE  replace_with(t, a, new, notes)[m].state = "done"
    BY DEF KeepsDone
  <2>1. m \notin DOMAIN new /\ m # a
    BY <1>1, <1>5
  <2> QED
    BY <1>2, <2>1 DEF replace_with
<1> QED
  BY <1>3, <1>4, <1>5

\* Updates of one row reach no finished one, and updates of all spare them.
LEMMA RowUpdatesKeepDone ==
  ASSUME NEW t \in Table, NEW a \in MilestoneId
  PROVE  /\ t[a].state # "done" => \A s : KeepsDone(t, update_state(t, a, s))
         /\ t[a].state # "done" => \A success : KeepsDone(t, record_attempt(t, a, success))
         /\ \A note, hot : KeepsDone(t, update_spec(t, a, note, hot))
         /\ \A hot, over : KeepsDone(t, charge(t, a, hot, over))
         /\ KeepsDone(t, requeue_stale_building(t))
         /\ KeepsDone(t, reset_retry_count(t))
<1>0. \A m \in MilestoneId : t[m] \in Row
  BY RowFacts
<1>1. t[a].state # "done" => \A s : KeepsDone(t, update_state(t, a, s))
  BY <1>0 DEF KeepsDone, update_state, Table
<1>2. t[a].state # "done" => \A success : KeepsDone(t, record_attempt(t, a, success))
  BY <1>0 DEF KeepsDone, record_attempt, Table
<1>3. \A note, hot : KeepsDone(t, update_spec(t, a, note, hot))
  BY <1>0 DEF KeepsDone, update_spec, Table, Row
<1>4. \A hot, over : KeepsDone(t, charge(t, a, hot, over))
  BY <1>0 DEF KeepsDone, charge, Table, Row
<1>5. KeepsDone(t, requeue_stale_building(t))
  BY DEF KeepsDone, requeue_stale_building
<1>6. KeepsDone(t, reset_retry_count(t))
  BY <1>0 DEF KeepsDone, reset_retry_count
<1> QED
  BY <1>1, <1>2, <1>3, <1>4, <1>5, <1>6

-----------------------------------------------------------------------------
(* What an insertion leaves behind, row by row *)

\* The ids an insertion is given, one for each position.
LEMMA PlacementPositions ==
  ASSUME NEW t, NEW n \in Nat, NEW new \in Placements(t, n)
  PROVE  /\ \A m \in DOMAIN new : m \in MilestoneId \ Rows(t) /\ new[m] \in 0 .. n - 1
         /\ \A a, b \in DOMAIN new : new[a] = new[b] => a = b
         /\ \A k \in 0 .. n - 1 : \E m \in DOMAIN new : new[m] = k
BY DEF Placements

\* ShiftAfter changes one column of the rows behind o.
LEMMA ShiftAfterRows ==
  ASSUME NEW t \in Table, NEW o \in Nat, NEW n \in Int, NEW m \in MilestoneId
  PROVE  /\ ShiftAfter(t, o, n)[m].ordinal =
              IF m \in Rows(t) /\ t[m].ordinal > o THEN t[m].ordinal + n ELSE t[m].ordinal
         /\ ShiftAfter(t, o, n)[m].state = t[m].state
         /\ ShiftAfter(t, o, n)[m].retry_count = t[m].retry_count
         /\ ShiftAfter(t, o, n)[m].note = t[m].note
         /\ ShiftAfter(t, o, n)[m].hot = t[m].hot
<1>1. t[m] \in Row
  BY RowFacts
<1> QED
  BY <1>1 DEF ShiftAfter, Row

\* A row as first inserted, column by column.
Inserted(x, o, note) ==
  /\ x.ordinal = o /\ x.state = "pending" /\ x.retry_count = 0
  /\ x.note = note /\ ~x.hot

\* That is what NewRow makes.
LEMMA NewRowInserted ==
  ASSUME NEW o, NEW note, NEW x, x = NewRow(o, note)
  PROVE  Inserted(x, o, note)
BY DEF NewRow, Inserted

\* A kept row of an insertion: all that may change is its ordinal.
Kept(x, y) ==
  /\ y.state = x.state /\ y.retry_count = x.retry_count
  /\ y.note = x.note /\ y.hot = x.hot

(***************************************************************************)
(* create_many, row by row: over an empty table, the plan and nothing else.*)
(***************************************************************************)
LEMMA CreateManyRows ==
  ASSUME NEW t \in Table, NEW n \in Nat, NEW new \in Placements(t, n), NEW notes,
         NEW u, u = create_many(t, new, notes)
  PROVE  /\ \A m \in DOMAIN new : Inserted(u[m], new[m], notes[new[m]])
         /\ \A m \in MilestoneId \ DOMAIN new : u[m] = t[m]
         /\ Rows(u) = Rows(t) \cup DOMAIN new
<1>1. \A m \in DOMAIN new : m \in MilestoneId \ Rows(t)
  BY PlacementPositions
<1>2. ASSUME NEW m \in DOMAIN new PROVE Inserted(u[m], new[m], notes[new[m]])
  <2>1. u[m] = NewRow(new[m], notes[new[m]])
    BY <1>1 DEF create_many
  <2> QED
    BY <2>1, NewRowInserted
<1>3. \A m \in MilestoneId \ DOMAIN new : u[m] = t[m]
  BY DEF create_many
<1>4. \A m \in DOMAIN new : u[m].state # "none"
  BY <1>2 DEF Inserted
<1> QED
  BY <1>1, <1>2, <1>3, <1>4 DEF Rows

(***************************************************************************)
(* replace_with, row by row: n children at the parent's ordinal and behind *)
(* it, the parent gone, the later rows n - 1 places down, the rest as it   *)
(* was.                                                                    *)
(***************************************************************************)
LEMMA ReplaceWithRows ==
  ASSUME NEW t \in Table, NEW parent \in Rows(t), NEW n \in Nat,
         NEW new \in Placements(t, n), NEW notes,
         NEW u, u = replace_with(t, parent, new, notes)
  PROVE  /\ \A m \in DOMAIN new : Inserted(u[m], t[parent].ordinal + new[m], notes[new[m]])
         /\ u[parent] = NoRow
         /\ \A m \in MilestoneId : m # parent /\ m \notin DOMAIN new =>
              /\ Kept(t[m], u[m])
              /\ u[m].ordinal = IF m \in Rows(t) /\ t[m].ordinal > t[parent].ordinal
                                  THEN t[m].ordinal + (n - 1) ELSE t[m].ordinal
         /\ Rows(u) = (Rows(t) \ {parent}) \cup DOMAIN new
<1> DEFINE o == t[parent].ordinal
           s == ShiftAfter(t, o, Cardinality(DOMAIN new) - 1)
<1>1. /\ \A m \in DOMAIN new : m \in MilestoneId \ Rows(t)
      /\ Cardinality(DOMAIN new) = n
      /\ parent \in MilestoneId /\ parent \notin DOMAIN new
  BY PlacementPositions, PlacementFacts DEF Rows
<1>2. o \in Nat
  BY <1>1, RowFacts DEF Row
<1>3. \A m \in MilestoneId :
        u[m] = CASE m \in DOMAIN new -> NewRow(o + new[m], notes[new[m]])
                 [] m = parent       -> NoRow
                 [] OTHER            -> s[m]
  BY DEF replace_with
<1>4. \A m \in MilestoneId : /\ Kept(t[m], s[m])
                             /\ s[m].ordinal = IF m \in Rows(t) /\ t[m].ordinal > o
                                                 THEN t[m].ordinal + (n - 1) ELSE t[m].ordinal
  <2> HIDE DEF o
  <2> QED
    BY <1>1, <1>2, ShiftAfterRows DEF Kept
<1> HIDE DEF s
<1>5. ASSUME NEW m \in DOMAIN new
      PROVE  Inserted(u[m], t[parent].ordinal + new[m], notes[new[m]])
  <2>1. u[m] = NewRow(t[parent].ordinal + new[m], notes[new[m]])
    BY <1>1, <1>3
  <2> QED
    BY <2>1, NewRowInserted
<1>6. u[parent] = NoRow
  BY <1>1, <1>3
<1>7. \A m \in MilestoneId : m # parent /\ m \notin DOMAIN new => u[m] = s[m]
  BY <1>3
<1>8. Rows(u) = (Rows(t) \ {parent}) \cup DOMAIN new
  <2>1. \A m \in DOMAIN new : u[m].state # "none"
    BY <1>5 DEF Inserted
  <2>2. u[parent].state = "none"
    BY <1>6 DEF NoRow
  <2>3. \A m \in MilestoneId : m # parent /\ m \notin DOMAIN new => u[m].state = t[m].state
    BY <1>4, <1>7 DEF Kept
  <2> QED
    BY <1>1, <2>1, <2>2, <2>3 DEF Rows
<1> QED
  BY <1>4, <1>5, <1>6, <1>7, <1>8

\* Row c of u is a consolidation row put behind row a of t.
BehindRow(t, a, c, u) ==
  /\ Inserted(u[c], t[a].ordinal + 1, CadenceNote)
  /\ \A m \in MilestoneId \ {c} :
       /\ Kept(t[m], u[m])
       /\ u[m].ordinal = IF m \in Rows(t) /\ t[m].ordinal > t[a].ordinal
                           THEN t[m].ordinal + 1 ELSE t[m].ordinal
  /\ Rows(u) = Rows(t) \cup {c}

(***************************************************************************)
(* insert_after, row by row: one consolidation row behind row a, the later *)
(* rows one place down.                                                    *)
(***************************************************************************)
LEMMA InsertAfterRows ==
  ASSUME NEW t \in Table, NEW a \in MilestoneId, NEW new \in Placements(t, 1),
         NEW u, u = insert_after(t, a, new)
  PROVE  \E c \in MilestoneId \ Rows(t) : BehindRow(t, a, c, u)
<1> DEFINE o == t[a].ordinal
           s == ShiftAfter(t, o, 1)
<1>1. PICK c \in DOMAIN new : new[c] = 0
  BY PlacementPositions
<1>2. c \in MilestoneId \ Rows(t) /\ \A m \in DOMAIN new : m = c
  BY <1>1, PlacementPositions
<1>3. o \in Nat
  BY RowFacts DEF Row
<1>4. \A m \in MilestoneId : /\ Kept(t[m], s[m])
                             /\ s[m].ordinal = IF m \in Rows(t) /\ t[m].ordinal > o
                                                 THEN t[m].ordinal + 1 ELSE t[m].ordinal
  <2> HIDE DEF o
  <2> QED
    BY <1>3, ShiftAfterRows DEF Kept
<1>5. \A m \in MilestoneId :
        u[m] = IF m \in DOMAIN new THEN NewRow(o + 1, CadenceNote) ELSE s[m]
  BY DEF insert_after
<1> HIDE DEF s
<1>6. Inserted(u[c], t[a].ordinal + 1, CadenceNote)
  <2>1. u[c] = NewRow(t[a].ordinal + 1, CadenceNote)
    BY <1>1, <1>2, <1>5
  <2> QED
    BY <2>1, NewRowInserted
<1>7. \A m \in MilestoneId \ {c} : u[m] = s[m]
  BY <1>1, <1>2, <1>5
<1>8. Rows(u) = Rows(t) \cup {c}
  <2>1. u[c].state # "none"
    BY <1>6 DEF Inserted
  <2>2. \A m \in MilestoneId \ {c} : u[m].state = t[m].state
    BY <1>4, <1>7 DEF Kept
  <2> QED
    BY <1>2, <2>1, <2>2 DEF Rows
<1> QED
  BY <1>2, <1>4, <1>6, <1>7, <1>8 DEF BehindRow

-----------------------------------------------------------------------------
(* Ordinals *)

\* The ordinals of a table are 0, 1, 2, ... without a gap or a duplicate.
Contiguous(t) ==
  \A a \in Rows(t) :
    /\ \A b \in Rows(t) : t[a].ordinal = t[b].ordinal => a = b
    /\ t[a].ordinal > 0 => \E b \in Rows(t) : t[b].ordinal + 1 = t[a].ordinal

\* The same rows at the same places.
SameRows(t, u) ==
  \A m \in MilestoneId :
    u[m].ordinal = t[m].ordinal /\ (u[m].state = "none" <=> t[m].state = "none")

\* What updates rows without moving, adding or deleting one.
LEMMA RowUpdatesKeepRows ==
  ASSUME NEW t \in Table, NEW a \in MilestoneId
  PROVE  /\ t[a].state # "none" =>
              \A s : s # "none" => SameRows(t, update_state(t, a, s))
         /\ t[a].state # "none" =>
              \A success \in BOOLEAN : SameRows(t, record_attempt(t, a, success))
         /\ \A note, hot : SameRows(t, update_spec(t, a, note, hot))
         /\ \A hot, over : SameRows(t, charge(t, a, hot, over))
         /\ SameRows(t, requeue_stale_building(t))
         /\ SameRows(t, reset_retry_count(t))
<1>0. \A m \in MilestoneId : t[m] \in Row
  BY RowFacts
<1>1. t[a].state # "none" => \A s : s # "none" => SameRows(t, update_state(t, a, s))
  BY <1>0 DEF SameRows, update_state, Table, Row
<1>2. t[a].state # "none" =>
        \A success \in BOOLEAN : SameRows(t, record_attempt(t, a, success))
  BY <1>0 DEF SameRows, record_attempt, Table, Row
<1>3. \A note, hot : SameRows(t, update_spec(t, a, note, hot))
  BY <1>0 DEF SameRows, update_spec, Table, Row
<1>4. \A hot, over : SameRows(t, charge(t, a, hot, over))
  BY <1>0 DEF SameRows, charge, Table, Row
<1>5. SameRows(t, requeue_stale_building(t))
  BY <1>0 DEF SameRows, requeue_stale_building, Row
<1>6. SameRows(t, reset_retry_count(t))
  BY <1>0 DEF SameRows, reset_retry_count, Row
<1> QED
  BY <1>1, <1>2, <1>3, <1>4, <1>5, <1>6

\* They leave the ordinals as they were.
LEMMA SameRowsContiguous ==
  ASSUME NEW t, NEW u, SameRows(t, u), Contiguous(t)
  PROVE  Contiguous(u) /\ Rows(u) = Rows(t)
<1>1. Rows(u) = Rows(t)
  BY DEF SameRows, Rows
<1>2. \A m \in Rows(t) : u[m].ordinal = t[m].ordinal
  BY DEF SameRows, Rows
<1> QED
  BY <1>1, <1>2 DEF Contiguous

\* A plan is numbered from zero.
LEMMA CreateManyContiguous ==
  ASSUME NEW t \in Table, Rows(t) = {}, NEW n \in Nat, NEW new \in Placements(t, n),
         NEW notes
  PROVE  Contiguous(create_many(t, new, notes))
<1> SUFFICES ASSUME NEW u, u = create_many(t, new, notes)
             PROVE  Contiguous(u)
  OBVIOUS
<1>1. Rows(u) = DOMAIN new /\ \A m \in DOMAIN new : u[m].ordinal = new[m]
  <2>1. \A m \in DOMAIN new : Inserted(u[m], new[m], notes[new[m]])
    BY CreateManyRows
  <2>2. Rows(u) = DOMAIN new
    BY CreateManyRows
  <2> QED
    BY <2>1, <2>2 DEF Inserted
<1>2. \A a \in DOMAIN new : new[a] > 0 => \E b \in DOMAIN new : new[b] + 1 = new[a]
  <2> SUFFICES ASSUME NEW a \in DOMAIN new, new[a] > 0
               PROVE  \E b \in DOMAIN new : new[b] + 1 = new[a]
    OBVIOUS
  <2>1. new[a] - 1 \in 0 .. n - 1
    BY PlacementPositions
  <2>2. PICK b \in DOMAIN new : new[b] = new[a] - 1
    BY <2>1, PlacementPositions
  <2>3. new[a] \in Nat
    BY PlacementPositions
  <2> QED
    BY <2>2, <2>3
<1>3. \A a, b \in DOMAIN new : new[a] = new[b] => a = b
  BY PlacementPositions
<1> QED
  BY <1>1, <1>2, <1>3 DEF Contiguous

(***************************************************************************)
(* A consolidation row leaves no gap and takes nobody's place: the rows    *)
(* behind it have all moved one down.                                      *)
(***************************************************************************)
LEMMA InsertAfterContiguous ==
  ASSUME NEW t \in Table, Contiguous(t), NEW a \in Rows(t), NEW new \in Placements(t, 1)
  PROVE  Contiguous(insert_after(t, a, new))
<1> SUFFICES ASSUME NEW u, u = insert_after(t, a, new)
             PROVE  Contiguous(u)
  OBVIOUS
<1> DEFINE o == t[a].ordinal
           Moved(x) == IF x > o THEN x + 1 ELSE x
<1>0. a \in MilestoneId /\ \A m \in Rows(t) : t[m].ordinal \in Nat
  BY RowFacts DEF Rows, Row
<1>1. PICK c \in MilestoneId \ Rows(t) :
        /\ u[c].ordinal = o + 1
        /\ \A m \in Rows(t) : u[m].ordinal = Moved(t[m].ordinal)
        /\ Rows(u) = Rows(t) \cup {c}
  <2>1. PICK c \in MilestoneId \ Rows(t) : BehindRow(t, a, c, u)
    BY <1>0, InsertAfterRows
  <2>2. \A m \in Rows(t) : m \in MilestoneId \ {c}
    BY DEF Rows
  <2>3. u[c].ordinal = o + 1
    BY <2>1 DEF BehindRow, Inserted
  <2> QED
    BY <2>1, <2>2, <2>3 DEF BehindRow
<1>2. ASSUME NEW x \in Rows(u), NEW y \in Rows(u), u[x].ordinal = u[y].ordinal
      PROVE  x = y
  BY <1>0, <1>1, <1>2 DEF Contiguous
<1>3. ASSUME NEW x \in Rows(u), u[x].ordinal > 0
      PROVE  \E y \in Rows(u) : u[y].ordinal + 1 = u[x].ordinal
  <2>1. CASE x = c
    BY <1>0, <1>1, <2>1
  <2>2. CASE x \in Rows(t) /\ t[x].ordinal = o + 1
    BY <1>0, <1>1, <2>2
  <2>3. CASE x \in Rows(t) /\ t[x].ordinal # o + 1
    <3>1. t[x].ordinal > 0
      BY <1>0, <1>1, <1>3, <2>3
    <3>2. PICK y \in Rows(t) : t[y].ordinal + 1 = t[x].ordinal
      BY <2>3, <3>1 DEF Contiguous
    <3>3. u[y].ordinal + 1 = u[x].ordinal
      BY <1>0, <1>1, <2>3, <3>2
    <3> QED
      BY <1>1, <3>2, <3>3
  <2> QED
    BY <1>1, <2>1, <2>2, <2>3
<1> QED
  BY <1>2, <1>3 DEF Contiguous

(***************************************************************************)
(* A split neither: the children fill the parent's place and the places    *)
(* the later rows have made free.                                          *)
(***************************************************************************)
LEMMA ReplaceWithContiguous ==
  ASSUME NEW t \in Table, Contiguous(t), NEW parent \in Rows(t), NEW n \in Nat, n >= 1,
         NEW new \in Placements(t, n), NEW notes
  PROVE  Contiguous(replace_with(t, parent, new, notes))
<1> SUFFICES ASSUME NEW u, u = replace_with(t, parent, new, notes)
             PROVE  Contiguous(u)
  OBVIOUS
<1> DEFINE o == t[parent].ordinal
           Moved(x) == IF x > o THEN x + (n - 1) ELSE x
           Old == Rows(t) \ {parent}
<1>0. \A m \in Rows(t) : t[m].ordinal \in Nat
  BY RowFacts DEF Rows, Row
<1>1. /\ \A m \in DOMAIN new : u[m].ordinal = o + new[m]
      /\ \A m \in Old : u[m].ordinal = Moved(t[m].ordinal)
      /\ Rows(u) = Old \cup DOMAIN new
  <2>1. /\ \A m \in DOMAIN new : Inserted(u[m], t[parent].ordinal + new[m], notes[new[m]])
        /\ \A m \in MilestoneId : m # parent /\ m \notin DOMAIN new =>
              u[m].ordinal = IF m \in Rows(t) /\ t[m].ordinal > t[parent].ordinal
                               THEN t[m].ordinal + (n - 1) ELSE t[m].ordinal
        /\ Rows(u) = Old \cup DOMAIN new
    BY ReplaceWithRows
  <2>2. \A m \in Old : m \in MilestoneId /\ m # parent /\ m \notin DOMAIN new
    BY PlacementPositions DEF Rows
  <2>3. \A m \in DOMAIN new : u[m].ordinal = o + new[m]
    BY <2>1 DEF Inserted
  <2> QED
    BY <2>1, <2>2, <2>3
<1>2. \A m \in DOMAIN new : new[m] \in 0 .. n - 1
  BY PlacementPositions
<1>3. \A m \in Old : t[m].ordinal # o
  BY DEF Contiguous
<1>4. ASSUME NEW x \in Rows(u), NEW y \in Rows(u), u[x].ordinal = u[y].ordinal
      PROVE  x = y
  <2>1. CASE x \in Old /\ y \in Old
    <3>1. t[x].ordinal = t[y].ordinal
      BY <1>0, <1>1, <1>4, <2>1
    <3> QED
      BY <2>1, <3>1 DEF Contiguous
  <2>2. CASE x \in DOMAIN new /\ y \in DOMAIN new
    <3>1. new[x] = new[y]
      BY <1>0, <1>1, <1>2, <1>4, <2>2
    <3> QED
      BY <2>2, <3>1, PlacementPositions
  <2>3. ASSUME NEW a \in Old, NEW b \in DOMAIN new PROVE u[a].ordinal # u[b].ordinal
    BY <1>0, <1>1, <1>2, <1>3, <2>3
  <2> QED
    BY <1>1, <1>4, <2>1, <2>2, <2>3
<1>5. ASSUME NEW x \in Rows(u), u[x].ordinal > 0
      PROVE  \E y \in Rows(u) : u[y].ordinal + 1 = u[x].ordinal
  <2>1. ASSUME NEW k \in 0 .. n - 1, u[x].ordinal = o + k + 1
        PROVE  \E y \in Rows(u) : u[y].ordinal + 1 = u[x].ordinal
    <3>1. PICK y \in DOMAIN new : new[y] = k
      BY PlacementPositions
    <3> QED
      BY <1>0, <1>1, <2>1, <3>1
  <2>2. ASSUME NEW z \in Rows(t), t[z].ordinal <= o, t[z].ordinal = u[x].ordinal
        PROVE  \E y \in Rows(u) : u[y].ordinal + 1 = u[x].ordinal
    <3>1. PICK y \in Rows(t) : t[y].ordinal + 1 = t[z].ordinal
      BY <1>5, <2>2 DEF Contiguous
    <3>2. y \in Old /\ u[y].ordinal = t[y].ordinal
      BY <1>0, <1>1, <2>2, <3>1
    <3> QED
      BY <1>1, <2>2, <3>1, <3>2
  <2>3. CASE x \in DOMAIN new
    <3>1. CASE new[x] = 0
      BY <1>0, <1>1, <2>2, <2>3, <3>1
    <3>2. CASE new[x] # 0
      <4>1. new[x] - 1 \in 0 .. n - 1 /\ u[x].ordinal = o + (new[x] - 1) + 1
        BY <1>0, <1>1, <1>2, <2>3, <3>2
      <4> QED
        BY <2>1, <4>1
    <3> QED
      BY <3>1, <3>2
  <2>4. CASE x \in Old /\ t[x].ordinal < o
    BY <1>0, <1>1, <2>2, <2>4
  <2>5. CASE x \in Old /\ t[x].ordinal = o + 1
    <3>1. n - 1 \in 0 .. n - 1 /\ u[x].ordinal = o + (n - 1) + 1
      BY <1>0, <1>1, <2>5
    <3> QED
      BY <2>1, <3>1
  <2>6. CASE x \in Old /\ t[x].ordinal > o + 1
    <3>1. t[x].ordinal > 0
      BY <1>0, <2>6
    <3>2. PICK y \in Rows(t) : t[y].ordinal + 1 = t[x].ordinal
      BY <2>6, <3>1 DEF Contiguous
    <3>3. y \in Old /\ u[y].ordinal + 1 = u[x].ordinal
      BY <1>0, <1>1, <2>6, <3>2
    <3> QED
      BY <1>1, <3>3
  <2>7. x \in Old => t[x].ordinal < o \/ t[x].ordinal = o + 1 \/ t[x].ordinal > o + 1
    BY <1>0, <1>3
  <2> QED
    BY <1>1, <2>3, <2>4, <2>5, <2>6, <2>7
<1> QED
  BY <1>4, <1>5 DEF Contiguous

-----------------------------------------------------------------------------
(* Milestones under construction *)

Quiet(t) == \A m \in MilestoneId : t[m].state # "building"

OnlyBuilding(t, a) == \A m \in MilestoneId : t[m].state = "building" => m = a

\* The rows before a row under construction are done.
InOrder(t) ==
  \A a, b \in Rows(t) :
    t[a].state = "building" /\ t[b].ordinal < t[a].ordinal => t[b].state = "done"

\* The same states at the same places.
SameStates(t, u) ==
  \A m \in MilestoneId : u[m].ordinal = t[m].ordinal /\ u[m].state = t[m].state

\* Charges, amendments and the retries given back change neither.
LEMMA SideUpdatesKeepStates ==
  ASSUME NEW t \in Table, NEW a \in MilestoneId
  PROVE  /\ \A note, hot : SameStates(t, update_spec(t, a, note, hot))
         /\ \A hot, over : SameStates(t, charge(t, a, hot, over))
         /\ \A over : SameStates(t, [t EXCEPT ![a].over = over])
         /\ SameStates(t, reset_retry_count(t))
<1>0. \A m \in MilestoneId : t[m] \in Row
  BY RowFacts
<1>1. \A note, hot : SameStates(t, update_spec(t, a, note, hot))
  BY <1>0 DEF SameStates, update_spec, Table, Row
<1>2. \A hot, over : SameStates(t, charge(t, a, hot, over))
  BY <1>0 DEF SameStates, charge, Table, Row
<1>3. \A over : SameStates(t, [t EXCEPT ![a].over = over])
  BY <1>0 DEF SameStates, Table, Row
<1>4. SameStates(t, reset_retry_count(t))
  BY <1>0 DEF SameStates, reset_retry_count, Row
<1> QED
  BY <1>1, <1>2, <1>3, <1>4

\* What depends on states and ordinals alone survives them.
LEMMA SameStatesKeep ==
  ASSUME NEW t, NEW u, SameStates(t, u)
  PROVE  /\ SameRows(t, u) /\ Rows(u) = Rows(t)
         /\ Waiting(u) = Waiting(t)
         /\ \A m : next_pending(t, m) => next_pending(u, m)
         /\ Quiet(t) => Quiet(u)
         /\ \A a : OnlyBuilding(t, a) => OnlyBuilding(u, a)
         /\ InOrder(t) => InOrder(u)
         /\ AllDone(t) => AllDone(u)
<1>1. Rows(u) = Rows(t) /\ Waiting(u) = Waiting(t) /\ SameRows(t, u)
  BY DEF SameStates, SameRows, Rows, Waiting
<1>2. \A m : next_pending(t, m) => next_pending(u, m)
  BY <1>1 DEF SameStates, next_pending, Waiting
<1>3. (Quiet(t) => Quiet(u)) /\ \A a : OnlyBuilding(t, a) => OnlyBuilding(u, a)
  BY DEF SameStates, Quiet, OnlyBuilding
<1>4. InOrder(t) => InOrder(u)
  BY <1>1 DEF SameStates, InOrder, Rows
<1>5. AllDone(t) => AllDone(u)
  BY <1>1 DEF SameStates, AllDone, Rows
<1> QED
  BY <1>1, <1>2, <1>3, <1>4, <1>5

\* With nothing under construction, the order of building cannot be broken.
LEMMA QuietInOrder ==
  ASSUME NEW t, Quiet(t)
  PROVE  InOrder(t)
BY DEF Quiet, InOrder, Rows

\* A reclaim leaves nothing under construction; the other updates of rows
\* begin nothing.
LEMMA UpdatesQuiet ==
  ASSUME NEW t \in Table, NEW a \in MilestoneId
  PROVE  /\ Quiet(requeue_stale_building(t))
         /\ \A success \in BOOLEAN : OnlyBuilding(t, a) => Quiet(record_attempt(t, a, success))
         /\ \A s : s # "building" /\ OnlyBuilding(t, a) => Quiet(update_state(t, a, s))
         /\ \A s : OnlyBuilding(t, a) => OnlyBuilding(update_state(t, a, s), a)
<1>0. \A m \in MilestoneId : t[m] \in Row
  BY RowFacts
<1>1. Quiet(requeue_stale_building(t))
  BY <1>0 DEF Quiet, requeue_stale_building, Row
<1>2. \A success \in BOOLEAN : OnlyBuilding(t, a) => Quiet(record_attempt(t, a, success))
  BY <1>0 DEF Quiet, OnlyBuilding, record_attempt, Table, Row
<1>3. \A s : s # "building" /\ OnlyBuilding(t, a) => Quiet(update_state(t, a, s))
  BY <1>0 DEF Quiet, OnlyBuilding, update_state, Table, Row
<1>4. \A s : OnlyBuilding(t, a) => OnlyBuilding(update_state(t, a, s), a)
  BY <1>0 DEF OnlyBuilding, update_state, Table, Row
<1> QED
  BY <1>1, <1>2, <1>3, <1>4

\* Insertions begin nothing.
LEMMA InsertionsQuiet ==
  ASSUME NEW t \in Table, Quiet(t), NEW a \in MilestoneId, NEW n \in Nat,
         NEW new \in Placements(t, n), NEW notes
  PROVE  /\ Quiet(create_many(t, new, notes))
         /\ n = 1 => Quiet(insert_after(t, a, new))
         /\ a \in Rows(t) => Quiet(replace_with(t, a, new, notes))
<1>1. Quiet(create_many(t, new, notes))
  BY CreateManyRows DEF Quiet, Inserted
<1>2. ASSUME n = 1 PROVE Quiet(insert_after(t, a, new))
  <2> SUFFICES ASSUME NEW u, u = insert_after(t, a, new) PROVE Quiet(u)
    OBVIOUS
  <2>1. PICK c \in MilestoneId \ Rows(t) : BehindRow(t, a, c, u)
    BY <1>2, InsertAfterRows
  <2> QED
    BY <2>1 DEF BehindRow, Inserted, Kept, Quiet
<1>3. ASSUME a \in Rows(t) PROVE Quiet(replace_with(t, a, new, notes))
  <2> SUFFICES ASSUME NEW u, u = replace_with(t, a, new, notes) PROVE Quiet(u)
    OBVIOUS
  <2>1. \A m \in DOMAIN new : Inserted(u[m], t[a].ordinal + new[m], notes[new[m]])
    BY <1>3, ReplaceWithRows
  <2>2. u[a] = NoRow
    BY <1>3, ReplaceWithRows
  <2>3. \A m \in MilestoneId : m # a /\ m \notin DOMAIN new => Kept(t[m], u[m])
    BY <1>3, ReplaceWithRows
  <2> QED
    BY <2>1, <2>2, <2>3 DEF Inserted, Kept, Quiet, NoRow
<1> QED
  BY <1>1, <1>2, <1>3

(***************************************************************************)
(* To begin the next pending row of a quiet table keeps the order: every   *)
(* row before it is neither waiting nor under construction.                *)
(***************************************************************************)
LEMMA BeginInOrder ==
  ASSUME NEW t \in Table, Quiet(t), NEW m \in MilestoneId, next_pending(t, m)
  PROVE  InOrder(update_state(t, m, "building"))
<1> SUFFICES ASSUME NEW u, u = update_state(t, m, "building"),
                    NEW a \in Rows(u), NEW b \in Rows(u),
                    u[a].state = "building", u[b].ordinal < u[a].ordinal
             PROVE  u[b].state = "done"
  BY DEF InOrder
<1>0. \A k \in MilestoneId : t[k] \in Row /\ t[k].ordinal \in Nat
  BY RowFacts DEF Row
<1>1. \A k \in MilestoneId : /\ u[k].ordinal = t[k].ordinal
                             /\ k # m => u[k].state = t[k].state
  BY <1>0 DEF update_state, Table, Row
<1>2. a = m /\ b # m /\ b \in MilestoneId
  BY <1>0, <1>1 DEF Quiet, Rows
<1>3. b \notin Waiting(t)
  BY <1>0, <1>1, <1>2 DEF next_pending
<1>4. t[b].state \in MilestoneState /\ t[b].state = u[b].state
  BY <1>0, <1>1, <1>2 DEF Rows, Row
<1> QED
  BY <1>2, <1>3, <1>4 DEF Waiting, Quiet, MilestoneState

\* With nothing waiting and nothing under construction, every row is done.
LEMMA NothingLeft ==
  ASSUME NEW t \in Table, Quiet(t), Waiting(t) = {}
  PROVE  AllDone(t)
<1> SUFFICES ASSUME NEW m \in Rows(t) PROVE t[m].state = "done"
  BY DEF AllDone
<1>1. m \in MilestoneId /\ t[m].state \in MilestoneState
  BY RowFacts DEF Rows, Row
<1> QED
  BY <1>1 DEF Quiet, Waiting, MilestoneState

-----------------------------------------------------------------------------
(* Retries *)

\* A row that is not there has no retries.
Blank(t) == \A m \in MilestoneId : t[m].state = "none" => t[m].retry_count = 0

(***************************************************************************)
(* No row fails once more or is finished, and none leaves retries behind.  *)
(***************************************************************************)
Eased(t, u) ==
  \A m \in MilestoneId :
    /\ u[m].retry_count <= t[m].retry_count
    /\ u[m].state = "done" => t[m].state = "done"
    /\ u[m].state = "none" => t[m].state = "none" \/ u[m].retry_count = 0

\* So nothing new is left behind by it.
LEMMA EasedBlank ==
  ASSUME NEW t \in Table, NEW u \in Table, Eased(t, u), Blank(t)
  PROVE  Blank(u)
<1>1. \A m \in MilestoneId : t[m].retry_count \in Nat /\ u[m].retry_count \in Nat
  BY RowFacts DEF Row
<1> QED
  BY <1>1 DEF Eased, Blank

\* Every update of a row but an attempt's record eases the table.
LEMMA UpdatesEase ==
  ASSUME NEW t \in Table, NEW a \in MilestoneId
  PROVE  /\ \A s : s \notin {"done", "none"} => Eased(t, update_state(t, a, s))
         /\ \A note, hot : Eased(t, update_spec(t, a, note, hot))
         /\ \A hot, over : Eased(t, charge(t, a, hot, over))
         /\ \A over : Eased(t, [t EXCEPT ![a].over = over])
         /\ Eased(t, requeue_stale_building(t))
         /\ Eased(t, reset_retry_count(t))
<1>0. \A m \in MilestoneId : t[m] \in Row /\ t[m].retry_count \in Nat
  BY RowFacts DEF Row
<1>1. \A s : s \notin {"done", "none"} => Eased(t, update_state(t, a, s))
  BY <1>0 DEF Eased, update_state, Table, Row
<1>2. \A note, hot : Eased(t, update_spec(t, a, note, hot))
  BY <1>0 DEF Eased, update_spec, Table, Row
<1>3. \A hot, over : Eased(t, charge(t, a, hot, over))
  BY <1>0 DEF Eased, charge, Table, Row
<1>4. \A over : Eased(t, [t EXCEPT ![a].over = over])
  BY <1>0 DEF Eased, Table, Row
<1>5. Eased(t, requeue_stale_building(t))
  BY <1>0 DEF Eased, requeue_stale_building, Row
<1>6. Eased(t, reset_retry_count(t))
  BY <1>0 DEF Eased, reset_retry_count, Row
<1> QED
  BY <1>1, <1>2, <1>3, <1>4, <1>5, <1>6

\* Inserted rows have no retries, and the others keep theirs.
LEMMA InsertionsEase ==
  ASSUME NEW t \in Table, NEW a \in MilestoneId, NEW n \in Nat,
         NEW new \in Placements(t, n), NEW notes
  PROVE  /\ Eased(t, create_many(t, new, notes))
         /\ n = 1 => Eased(t, insert_after(t, a, new))
         /\ a \in Rows(t) => Eased(t, replace_with(t, a, new, notes))
<1>0. \A m \in MilestoneId : t[m].retry_count \in Nat
  BY RowFacts DEF Row
<1>1. Eased(t, create_many(t, new, notes))
  <2> SUFFICES ASSUME NEW u, u = create_many(t, new, notes) PROVE Eased(t, u)
    OBVIOUS
  <2>1. \A m \in DOMAIN new : Inserted(u[m], new[m], notes[new[m]])
    BY CreateManyRows
  <2>2. \A m \in DOMAIN new : u[m].state = "pending" /\ u[m].retry_count = 0
    BY <2>1 DEF Inserted
  <2>3. \A m \in MilestoneId \ DOMAIN new : u[m] = t[m]
    BY DEF create_many
  <2> QED
    BY <1>0, <2>2, <2>3 DEF Eased
<1>2. ASSUME n = 1 PROVE Eased(t, insert_after(t, a, new))
  <2> SUFFICES ASSUME NEW u, u = insert_after(t, a, new) PROVE Eased(t, u)
    OBVIOUS
  <2>1. PICK c \in MilestoneId \ Rows(t) : BehindRow(t, a, c, u)
    BY <1>2, InsertAfterRows
  <2>2. u[c].state = "pending" /\ u[c].retry_count = 0
    BY <2>1 DEF BehindRow, Inserted
  <2>3. \A m \in MilestoneId \ {c} : Kept(t[m], u[m])
    BY <2>1 DEF BehindRow
  <2> QED
    BY <1>0, <2>2, <2>3 DEF Eased, Kept
<1>3. ASSUME a \in Rows(t) PROVE Eased(t, replace_with(t, a, new, notes))
  <2> SUFFICES ASSUME NEW u, u = replace_with(t, a, new, notes) PROVE Eased(t, u)
    OBVIOUS
  <2>1. \A m \in DOMAIN new : Inserted(u[m], t[a].ordinal + new[m], notes[new[m]])
    BY <1>3, ReplaceWithRows
  <2>2. \A m \in DOMAIN new : u[m].state = "pending" /\ u[m].retry_count = 0
    BY <2>1 DEF Inserted
  <2>3. u[a] = NoRow
    BY <1>3, ReplaceWithRows
  <2>4. \A m \in MilestoneId : m # a /\ m \notin DOMAIN new => Kept(t[m], u[m])
    BY <1>3, ReplaceWithRows
  <2> QED
    BY <1>0, <2>2, <2>3, <2>4 DEF Kept, Eased, NoRow
<1> QED
  BY <1>1, <1>2, <1>3

\* Every row has a retry left, of n; or at least none went over, and those
\* that went to the end are not done.
Below(t, n) == \A m \in MilestoneId : t[m].retry_count < n

Capped(t, n) ==
  \A m \in MilestoneId :
    /\ t[m].retry_count <= n
    /\ t[m].state = "done" => t[m].retry_count < n

\* What keeps a table below a cap or at it.
LEMMA CapsKept ==
  ASSUME NEW t \in Table, NEW u \in Table, NEW n \in Nat
  PROVE  /\ Eased(t, u) /\ Below(t, n) => Below(u, n)
         /\ Eased(t, u) /\ Capped(t, n) => Capped(u, n)
         /\ Below(t, n) => Capped(t, n)
         /\ Capped(t, n) => Below(t, n + 1)
BY RowFacts DEF Eased, Below, Capped, Row

\* A table without rows, or with its retries given back, is below any cap
\* that its done rows are below.
LEMMA CapsAfresh ==
  ASSUME NEW t \in Table, NEW n \in Nat \ {0}
  PROVE  /\ Rows(t) = {} /\ Blank(t) => Below(t, n)
         /\ Capped(t, n) => Below(reset_retry_count(t), n)
<1>0. \A m \in MilestoneId : t[m] \in Row /\ t[m].retry_count \in Nat
  BY RowFacts DEF Row
<1>1. Rows(t) = {} /\ Blank(t) => Below(t, n)
  BY <1>0 DEF Rows, Blank, Below
<1>2. ASSUME Capped(t, n), NEW m \in MilestoneId
      PROVE  reset_retry_count(t)[m].retry_count < n
  BY <1>0, <1>2 DEF Capped, reset_retry_count, Row
<1> QED
  BY <1>1, <1>2 DEF Below

\* What a recorded attempt leaves: its row done, or failed once more.
Finished(t, a, u) ==
  /\ \A m \in MilestoneId : m # a => u[m] = t[m]
  /\ u[a].state = "done" /\ u[a].retry_count = t[a].retry_count

Failed(t, a, u) ==
  /\ \A m \in MilestoneId : m # a => u[m] = t[m]
  /\ u[a].state = "failed" /\ u[a].retry_count = t[a].retry_count + 1

\* What recording an attempt does to the rows.
LEMMA AttemptRows ==
  ASSUME NEW t \in Table, NEW a \in MilestoneId
  PROVE  /\ Finished(t, a, record_attempt(t, a, TRUE))
         /\ Failed(t, a, record_attempt(t, a, FALSE))
<1>1. t[a] \in Row
  BY RowFacts
<1>2. Finished(t, a, record_attempt(t, a, TRUE))
  BY <1>1 DEF Finished, record_attempt, Table, Row
<1>3. Failed(t, a, record_attempt(t, a, FALSE))
  BY <1>1 DEF Failed, record_attempt, Table, Row
<1> QED
  BY <1>2, <1>3

\* A success leaves every row its retries; a failure uses up one of its row.
LEMMA AttemptCaps ==
  ASSUME NEW t \in Table, NEW a \in MilestoneId, NEW u, NEW n \in Nat,
         Below(t, n), Blank(t)
  PROVE  /\ Finished(t, a, u) => Below(u, n) /\ Blank(u)
         /\ Failed(t, a, u) => Capped(u, n) /\ Blank(u)
         /\ Failed(t, a, u) /\ t[a].retry_count + 1 < n => Below(u, n)
<1>1. \A m \in MilestoneId : t[m].retry_count \in Nat
  BY RowFacts DEF Row
<1>2. Finished(t, a, u) => Below(u, n) /\ Blank(u)
  BY <1>1 DEF Finished, Below, Blank
<1>3. Failed(t, a, u) => Capped(u, n) /\ Blank(u)
  BY <1>1 DEF Failed, Below, Capped, Blank
<1>4. Failed(t, a, u) /\ t[a].retry_count + 1 < n => Below(u, n)
  BY <1>1 DEF Failed, Below
<1> QED
  BY <1>2, <1>3, <1>4

-----------------------------------------------------------------------------
(* Consolidations *)

\* The consolidation rows before row b, and what was finished between the
\* last of them and b.
Earlier(t, b) == {c \in Rows(t) : "consol" \in t[c].note /\ t[c].ordinal < t[b].ordinal}

Since(t, b) ==
  {m \in Rows(t) : /\ t[m].state = "done" /\ "consol" \notin t[m].note
                   /\ t[m].ordinal < t[b].ordinal
                   /\ \A c \in Earlier(t, b) : t[c].ordinal < t[m].ordinal}

\* Row b carries the note the cadence inserted it with.
Inserter(t, b) == "cadence" \in t[b].note

Spaced(t, every) ==
  \A b \in Rows(t) : Inserter(t, b) => Cardinality(Since(t, b)) >= every

\* What the cadence inserted has only finished rows before it.
InTurn(t) ==
  \A b, m \in Rows(t) :
    Inserter(t, b) /\ t[m].ordinal < t[b].ordinal => t[m].state = "done"

\* The rows before row b are the same in u as in t, and as many are finished.
SamePast(t, u, b) ==
  /\ b \in Rows(t) /\ u[b].ordinal = t[b].ordinal
  /\ \A m \in Rows(t) :
       t[m].ordinal < t[b].ordinal =>
         /\ m \in Rows(u) /\ u[m].ordinal = t[m].ordinal /\ u[m].note = t[m].note
         /\ t[m].state = "done" => u[m].state = "done"
  /\ \A m \in Rows(u) : u[m].ordinal < u[b].ordinal => m \in Rows(t) /\ t[m].ordinal < t[b].ordinal

\* Nothing becomes an insertion of the cadence, and none of them loses what was
\* before it.
PastKept(t, u) ==
  \A b \in Rows(u) : Inserter(u, b) => Inserter(t, b) /\ SamePast(t, u, b)

\* Then what was finished before such a row is no less than it was.
LEMMA SamePastSince ==
  ASSUME NEW t, NEW u, NEW b, SamePast(t, u, b)
  PROVE  Since(t, b) \subseteq Since(u, b)
<1> SUFFICES ASSUME NEW m \in Since(t, b) PROVE m \in Since(u, b)
  OBVIOUS
<1>1. /\ m \in Rows(t) /\ t[m].state = "done" /\ "consol" \notin t[m].note
      /\ t[m].ordinal < t[b].ordinal
      /\ \A c \in Earlier(t, b) : t[c].ordinal < t[m].ordinal
  BY DEF Since
<1>2. /\ m \in Rows(u) /\ u[m].state = "done" /\ "consol" \notin u[m].note
      /\ u[m].ordinal = t[m].ordinal /\ u[b].ordinal = t[b].ordinal
  BY <1>1 DEF SamePast
<1>3. ASSUME NEW c \in Earlier(u, b) PROVE u[c].ordinal < u[m].ordinal
  <2>1. c \in Rows(u) /\ "consol" \in u[c].note /\ u[c].ordinal < u[b].ordinal
    BY <1>3 DEF Earlier
  <2>2. /\ c \in Rows(t) /\ t[c].ordinal < t[b].ordinal
        /\ u[c].ordinal = t[c].ordinal /\ u[c].note = t[c].note
    BY <2>1 DEF SamePast
  <2> QED
    BY <1>1, <1>2, <2>1, <2>2 DEF Earlier
<1> QED
  BY <1>1, <1>2, <1>3 DEF Since

\* So the distances stay, and what is before such a row stays finished.
LEMMA PastKeptSpaced ==
  ASSUME NEW t, NEW u, NEW every \in Nat, IsFiniteSet(Rows(t)), IsFiniteSet(Rows(u)),
         PastKept(t, u), Spaced(t, every), InTurn(t)
  PROVE  Spaced(u, every) /\ InTurn(u)
<1>1. ASSUME NEW b \in Rows(u), Inserter(u, b)
      PROVE  Cardinality(Since(u, b)) >= every
  <2>1. b \in Rows(t) /\ Inserter(t, b) /\ Since(t, b) \subseteq Since(u, b)
    BY <1>1, SamePastSince DEF PastKept, SamePast
  <2>2. Cardinality(Since(t, b)) >= every
    BY <2>1 DEF Spaced
  <2>3. /\ IsFiniteSet(Since(u, b))
        /\ Since(t, b) \subseteq Rows(t) /\ IsFiniteSet(Since(t, b))
    <3>1. Since(u, b) \subseteq Rows(u) /\ Since(t, b) \subseteq Rows(t)
      BY DEF Since
    <3> QED
      BY <3>1, FS_Subset
  <2>4. Cardinality(Since(t, b)) <= Cardinality(Since(u, b))
    BY <2>1, <2>3, FS_Subset
  <2>5. Cardinality(Since(t, b)) \in Nat /\ Cardinality(Since(u, b)) \in Nat
    BY <2>3, FS_CardinalityType
  <2> QED
    BY <2>2, <2>4, <2>5
<1>2. ASSUME NEW b \in Rows(u), NEW m \in Rows(u), Inserter(u, b), u[m].ordinal < u[b].ordinal
      PROVE  u[m].state = "done"
  <2>1. Inserter(t, b) /\ SamePast(t, u, b)
    BY <1>2 DEF PastKept
  <2>2. b \in Rows(t) /\ m \in Rows(t) /\ t[m].ordinal < t[b].ordinal
    BY <1>2, <2>1 DEF SamePast
  <2>3. t[m].state = "done"
    BY <2>1, <2>2 DEF InTurn
  <2> QED
    BY <2>1, <2>2, <2>3 DEF SamePast
<1> QED
  BY <1>1, <1>2 DEF Spaced, InTurn

\* The same rows with the same notes at the same places, of which no fewer are
\* finished.
SameMarks(t, u) ==
  /\ SameRows(t, u)
  /\ KeepsDone(t, u)
  /\ \A m \in MilestoneId : u[m].note = t[m].note

\* They have the same past.
LEMMA SameMarksPast ==
  ASSUME NEW t, NEW u, SameMarks(t, u)
  PROVE  PastKept(t, u)
<1>1. Rows(u) = Rows(t) /\ \A m \in Rows(t) : m \in MilestoneId /\ u[m].ordinal = t[m].ordinal
  BY DEF SameMarks, SameRows, Rows
<1> SUFFICES ASSUME NEW b \in Rows(u), Inserter(u, b)
             PROVE  Inserter(t, b) /\ SamePast(t, u, b)
  BY DEF PastKept
<1>2. Inserter(t, b)
  BY <1>1 DEF SameMarks, Inserter
<1>3. SamePast(t, u, b)
  BY <1>1 DEF SameMarks, SamePast, KeepsDone
<1> QED
  BY <1>2, <1>3

\* Every update of rows but an amendment keeps the notes.
LEMMA UpdatesKeepMarks ==
  ASSUME NEW t \in Table, NEW a \in MilestoneId
  PROVE  /\ t[a].state \notin {"none", "done"} =>
              /\ \A s : s # "none" => SameMarks(t, update_state(t, a, s))
              /\ \A success \in BOOLEAN : SameMarks(t, record_attempt(t, a, success))
         /\ \A hot, over : SameMarks(t, charge(t, a, hot, over))
         /\ SameMarks(t, requeue_stale_building(t))
         /\ SameMarks(t, reset_retry_count(t))
<1>0. \A m \in MilestoneId : t[m] \in Row
  BY RowFacts
<1>1. ASSUME t[a].state \notin {"none", "done"}, NEW s, s # "none"
      PROVE  SameMarks(t, update_state(t, a, s))
  <2>1. \A m \in MilestoneId : update_state(t, a, s)[m].note = t[m].note
    BY <1>0 DEF update_state, Table, Row
  <2> QED
    BY <1>1, <2>1, RowUpdatesKeepRows, RowUpdatesKeepDone DEF SameMarks
<1>2. ASSUME t[a].state \notin {"none", "done"}, NEW success \in BOOLEAN
      PROVE  SameMarks(t, record_attempt(t, a, success))
  <2>1. \A m \in MilestoneId : record_attempt(t, a, success)[m].note = t[m].note
    BY <1>0 DEF record_attempt, Table, Row
  <2> QED
    BY <1>2, <2>1, RowUpdatesKeepRows, RowUpdatesKeepDone DEF SameMarks
<1>3. ASSUME NEW hot, NEW over PROVE SameMarks(t, charge(t, a, hot, over))
  <2>1. \A m \in MilestoneId : charge(t, a, hot, over)[m].note = t[m].note
    BY <1>0 DEF charge, Table, Row
  <2> QED
    BY <2>1, RowUpdatesKeepRows, RowUpdatesKeepDone DEF SameMarks
<1>4. SameMarks(t, requeue_stale_building(t))
  <2>1. \A m \in MilestoneId : requeue_stale_building(t)[m].note = t[m].note
    BY <1>0 DEF requeue_stale_building, Row
  <2> QED
    BY <2>1, RowUpdatesKeepRows, RowUpdatesKeepDone DEF SameMarks
<1>5. SameMarks(t, reset_retry_count(t))
  <2>1. \A m \in MilestoneId : reset_retry_count(t)[m].note = t[m].note
    BY <1>0 DEF reset_retry_count, Row
  <2> QED
    BY <2>1, RowUpdatesKeepRows, RowUpdatesKeepDone DEF SameMarks
<1> QED
  BY <1>1, <1>2, <1>3, <1>4, <1>5

(***************************************************************************)
(* An amendment of an unfinished row writes what a crew can write, or      *)
(* leaves the row's note as it is: it makes no insertion of the cadence,   *)
(* and none has an unfinished row before it.                               *)
(***************************************************************************)
LEMMA AmendKeepsPast ==
  ASSUME NEW t \in Table, InTurn(t), NEW a \in Rows(t), t[a].state # "done",
         NEW note, note \in CrewNote \/ note = t[a].note, NEW hot
  PROVE  PastKept(t, update_spec(t, a, note, hot))
<1> SUFFICES ASSUME NEW u, u = update_spec(t, a, note, hot),
                    NEW b \in Rows(u), Inserter(u, b)
             PROVE  Inserter(t, b) /\ SamePast(t, u, b)
  BY DEF PastKept
<1>1. a \in MilestoneId /\ \A m \in MilestoneId : t[m] \in Row
  BY RowFacts DEF Rows
<1>2. /\ \A m \in MilestoneId : u[m].state = t[m].state /\ u[m].ordinal = t[m].ordinal
      /\ \A m \in MilestoneId \ {a} : u[m].note = t[m].note
      /\ u[a].note = note
  BY <1>1 DEF update_spec, Table, Row
<1>3. Rows(u) = Rows(t) /\ \A m \in Rows(t) : m \in MilestoneId
  BY <1>2 DEF Rows
<1>4. Inserter(t, b)
  <2>1. CASE b = a
    <3>1. "cadence" \in note
      BY <1>2, <2>1 DEF Inserter
    <3>2. note \notin CrewNote
      BY <3>1 DEF CrewNote
    <3> QED
      BY <2>1, <3>1, <3>2 DEF Inserter
  <2>2. CASE b # a
    BY <1>2, <1>3, <2>2 DEF Inserter
  <2> QED
    BY <2>1, <2>2
<1>5. ~(t[a].ordinal < t[b].ordinal)
  BY <1>3, <1>4 DEF InTurn
<1>6. SamePast(t, u, b)
  BY <1>2, <1>3, <1>5 DEF SamePast
<1> QED
  BY <1>4, <1>6

\* A plan has nothing the cadence inserted.
LEMMA PlanSpaced ==
  ASSUME NEW t \in Table, Rows(t) = {}, NEW n \in Nat, NEW new \in Placements(t, n),
         NEW notes \in [0 .. n - 1 -> CrewNote], NEW every
  PROVE  Spaced(create_many(t, new, notes), every) /\ InTurn(create_many(t, new, notes))
<1> SUFFICES ASSUME NEW u, u = create_many(t, new, notes), NEW b \in Rows(u)
             PROVE  ~Inserter(u, b)
  BY DEF Spaced, InTurn
<1>1. b \in DOMAIN new /\ Inserted(u[b], new[b], notes[new[b]])
  BY CreateManyRows
<1>2. notes[new[b]] \in CrewNote
  BY <1>1, PlacementPositions
<1> QED
  BY <1>1, <1>2 DEF Inserted, Inserter, CrewNote

(***************************************************************************)
(* A split of an unfinished row keeps the past: whatever its children's    *)
(* notes say, they are not the cadence's, and what the cadence inserted    *)
(* lies before the parent.                                                 *)
(***************************************************************************)
LEMMA SplitKeepsPast ==
  ASSUME NEW t \in Table, Contiguous(t), InTurn(t),
         NEW parent \in Rows(t), t[parent].state # "done",
         NEW n \in Nat, n >= 1, NEW new \in Placements(t, n),
         NEW notes \in [0 .. n - 1 -> CrewNote]
  PROVE  PastKept(t, replace_with(t, parent, new, notes))
<1> SUFFICES ASSUME NEW u, u = replace_with(t, parent, new, notes),
                    NEW b \in Rows(u), Inserter(u, b)
             PROVE  Inserter(t, b) /\ SamePast(t, u, b)
  BY DEF PastKept
<1> DEFINE o == t[parent].ordinal
           Moved(x) == IF x > o THEN x + (n - 1) ELSE x
           Old == Rows(t) \ {parent}
<1>0. \A m \in Rows(t) : m \in MilestoneId /\ t[m].ordinal \in Nat
  BY RowFacts DEF Rows, Row
<1>1. \A m \in DOMAIN new : Inserted(u[m], o + new[m], notes[new[m]])
  BY ReplaceWithRows
<1>2. /\ \A m \in Old : Kept(t[m], u[m]) /\ u[m].ordinal = Moved(t[m].ordinal)
      /\ Rows(u) = Old \cup DOMAIN new
  <2>1. \A m \in MilestoneId : m # parent /\ m \notin DOMAIN new =>
              /\ Kept(t[m], u[m])
              /\ u[m].ordinal = IF m \in Rows(t) /\ t[m].ordinal > t[parent].ordinal
                                  THEN t[m].ordinal + (n - 1) ELSE t[m].ordinal
    BY ReplaceWithRows
  <2>2. Rows(u) = Old \cup DOMAIN new
    BY ReplaceWithRows
  <2>3. \A m \in Old : m \in MilestoneId /\ m # parent /\ m \notin DOMAIN new
    BY PlacementPositions DEF Rows
  <2> QED
    BY <2>1, <2>2, <2>3
<1>3. \A m \in DOMAIN new : new[m] \in 0 .. n - 1
  BY PlacementPositions
<1>4. b \in Old
  <2>1. ASSUME b \in DOMAIN new PROVE FALSE
    <3>1. u[b].note \in CrewNote
      BY <1>1, <1>3, <2>1 DEF Inserted
    <3> QED
      BY <3>1 DEF Inserter, CrewNote
  <2> QED
    BY <1>2, <2>1
<1>5. Inserter(t, b)
  BY <1>2, <1>4 DEF Inserter, Kept
<1>6. t[b].ordinal < o
  <2>1. ~(o < t[b].ordinal)
    BY <1>4, <1>5 DEF InTurn
  <2>2. t[b].ordinal # o
    BY <1>4 DEF Contiguous
  <2> QED
    BY <1>0, <1>4, <2>1, <2>2
<1>7. u[b].ordinal = t[b].ordinal
  BY <1>0, <1>2, <1>4, <1>6
<1>8. ASSUME NEW m \in Rows(t), t[m].ordinal < t[b].ordinal
      PROVE  /\ m \in Rows(u) /\ u[m].ordinal = t[m].ordinal /\ u[m].note = t[m].note
             /\ t[m].state = "done" => u[m].state = "done"
  <2>1. t[m].ordinal < o /\ m \in Old
    BY <1>0, <1>4, <1>6, <1>8
  <2> QED
    BY <1>0, <1>2, <2>1 DEF Kept
<1>9. ASSUME NEW m \in Rows(u), u[m].ordinal < u[b].ordinal
      PROVE  m \in Rows(t) /\ t[m].ordinal < t[b].ordinal
  <2>1. m \notin DOMAIN new
    <3>1. ASSUME m \in DOMAIN new PROVE FALSE
      <4>1. u[m].ordinal = o + new[m] /\ new[m] \in 0 .. n - 1
        BY <1>1, <1>3, <3>1 DEF Inserted
      <4>2. o \in Nat /\ t[b].ordinal \in Nat /\ o + new[m] < t[b].ordinal
        BY <1>0, <1>4, <1>7, <1>9, <4>1
      <4>3. t[b].ordinal < o
        BY <1>6
      <4> HIDE DEF o
      <4> QED
        BY <4>1, <4>2, <4>3
    <3> QED
      BY <3>1
  <2>2. m \in Old
    BY <1>2, <2>1
  <2> QED
    BY <1>0, <1>2, <1>4, <1>6, <1>7, <1>9, <2>2
<1> QED
  BY <1>4, <1>5, <1>7, <1>8, <1>9 DEF SamePast

\* A positive multiple of a number is no smaller than it.
LEMMA MultipleAtLeast ==
  ASSUME NEW n \in Nat, NEW k \in Nat, n > 0, k > 0, n % k = 0
  PROVE  n >= k
<1> SUFFICES ASSUME n < k PROVE FALSE
  OBVIOUS
<1>1. n % k = n
  BY SMT
<1> QED
  BY <1>1

(***************************************************************************)
(* A consolidation is inserted behind everything finished: what counts     *)
(* since the last one is before it, and none of the others moves behind    *)
(* it.                                                                     *)
(***************************************************************************)
LEMMA ConsolidationSpaced ==
  ASSUME NEW t \in Table, IsFiniteSet(Rows(t)), NEW every \in Nat,
         should_insert_consolidation(t, every), NEW a \in MilestoneId, last_done(t, a),
         NEW new \in Placements(t, 1), Spaced(t, every)
  PROVE  Spaced(insert_after(t, a, new), every)
<1> SUFFICES ASSUME NEW u, u = insert_after(t, a, new),
                    NEW b \in Rows(u), Inserter(u, b)
             PROVE  Cardinality(Since(u, b)) >= every
  BY DEF Spaced
<1> DEFINE o == t[a].ordinal
           Moved(x) == IF x > o THEN x + 1 ELSE x
<1>0. /\ \A m \in Rows(t) : m \in MilestoneId /\ t[m].ordinal \in Nat
      /\ a \in Rows(t)
  BY RowFacts DEF Rows, Row, last_done
<1>1. PICK c \in MilestoneId \ Rows(t) : BehindRow(t, a, c, u)
  BY InsertAfterRows
<1>2. /\ u[c].ordinal = o + 1
      /\ \A m \in Rows(t) : Kept(t[m], u[m]) /\ u[m].ordinal = Moved(t[m].ordinal)
      /\ Rows(u) = Rows(t) \cup {c}
  <2>1. \A m \in Rows(t) : m \in MilestoneId \ {c}
    BY DEF Rows
  <2> QED
    BY <1>1, <2>1 DEF BehindRow, Inserted
<1>3. \A m \in Rows(t) : t[m].state = "done" => u[m].ordinal = t[m].ordinal /\ t[m].ordinal <= o
  BY <1>0, <1>2 DEF last_done
<1>4. \A m \in Rows(t) : "consol" \in t[m].note => t[m].state = "done"
  BY DEF should_insert_consolidation
<1>5. \A m \in Rows(t) : u[m].state = t[m].state /\ u[m].note = t[m].note
  BY <1>2 DEF Kept
<1>6. IsFiniteSet(Since(u, b))
  <2>1. IsFiniteSet(Rows(u)) /\ Since(u, b) \subseteq Rows(u)
    BY <1>2, FS_AddElement DEF Since
  <2> QED
    BY <2>1, FS_Subset
<1>7. CASE b = c
  <2>1. DoneSinceConsolidation(t) \subseteq Since(u, b)
    <3> SUFFICES ASSUME NEW m \in DoneSinceConsolidation(t) PROVE m \in Since(u, b)
      OBVIOUS
    <3>1. /\ m \in Rows(t) /\ t[m].state = "done" /\ "consol" \notin t[m].note
          /\ \A k \in Rows(t) : "consol" \in t[k].note => t[k].ordinal < t[m].ordinal
      BY DEF DoneSinceConsolidation, Rows
    <3>2. u[m].ordinal < u[b].ordinal
      BY <1>0, <1>2, <1>3, <1>7, <3>1
    <3>3. ASSUME NEW k \in Earlier(u, b) PROVE u[k].ordinal < u[m].ordinal
      <4>1. k \in Rows(t) /\ "consol" \in t[k].note
        <5>1. k \in Rows(u) /\ "consol" \in u[k].note /\ u[k].ordinal < u[b].ordinal
          BY <3>3 DEF Earlier
        <5>2. k # c
          BY <1>0, <1>2, <1>7, <5>1
        <5> QED
          BY <1>2, <1>5, <5>1, <5>2
      <4> QED
        BY <1>3, <1>4, <3>1, <4>1
    <3> QED
      BY <1>2, <1>5, <3>1, <3>2, <3>3 DEF Since
  <2>2. Cardinality(DoneSinceConsolidation(t)) >= every
    <3>1. DoneSinceConsolidation(t) \subseteq Rows(t)
      BY DEF DoneSinceConsolidation, Rows
    <3>2. Cardinality(DoneSinceConsolidation(t)) \in Nat
      BY <3>1, FS_Subset, FS_CardinalityType
    <3> QED
      BY <3>2, MultipleAtLeast DEF should_insert_consolidation
  <2>3. Cardinality(DoneSinceConsolidation(t)) <= Cardinality(Since(u, b))
    BY <1>6, <2>1, FS_Subset
  <2>4. /\ Cardinality(DoneSinceConsolidation(t)) \in Nat
        /\ Cardinality(Since(u, b)) \in Nat
    BY <1>6, <2>1, FS_Subset, FS_CardinalityType
  <2> QED
    BY <2>2, <2>3, <2>4
<1>8. CASE b # c
  <2>1. b \in Rows(t) /\ Inserter(t, b)
    BY <1>2, <1>5, <1>8 DEF Inserter
  <2>2. t[b].state = "done"
    <3>1. t[b].note \in Note
      BY <1>0, <2>1, RowFacts DEF Row
    <3>2. "consol" \in t[b].note
      BY <2>1, <3>1 DEF Inserter, Note, CrewNote, CadenceNote
    <3> QED
      BY <1>4, <2>1, <3>2
  <2>3. SamePast(t, u, b)
    <3>1. u[b].ordinal = t[b].ordinal /\ t[b].ordinal <= o
      BY <1>3, <2>1, <2>2
    <3>2. ASSUME NEW m \in Rows(t), t[m].ordinal < t[b].ordinal
          PROVE  m \in Rows(u) /\ u[m].ordinal = t[m].ordinal
      BY <1>0, <1>2, <2>1, <3>1, <3>2
    <3>3. ASSUME NEW m \in Rows(u), u[m].ordinal < u[b].ordinal
          PROVE  m \in Rows(t) /\ t[m].ordinal < t[b].ordinal
      <4>1. m # c
        BY <1>0, <1>2, <2>1, <3>1, <3>3
      <4> QED
        BY <1>0, <1>2, <2>1, <3>1, <3>3, <4>1
    <3> QED
      BY <1>5, <2>1, <3>1, <3>2, <3>3 DEF SamePast
  <2>4. Since(t, b) \subseteq Since(u, b)
    BY <2>3, SamePastSince
  <2>5. Cardinality(Since(t, b)) >= every
    BY <2>1 DEF Spaced
  <2>6. /\ Cardinality(Since(t, b)) <= Cardinality(Since(u, b))
        /\ Cardinality(Since(t, b)) \in Nat /\ Cardinality(Since(u, b)) \in Nat
    BY <1>6, <2>4, FS_Subset, FS_CardinalityType
  <2> QED
    BY <2>4, <2>5, <2>6
<1> QED
  BY <1>7, <1>8

(***************************************************************************)
(* It has only finished rows before it, and so have the others: none of    *)
(* them is waiting.                                                        *)
(***************************************************************************)
LEMMA ConsolidationInTurn ==
  ASSUME NEW t \in Table, Contiguous(t), NEW every,
         should_insert_consolidation(t, every), NEW a \in MilestoneId, last_done(t, a),
         \A x, y \in Rows(t) :
           t[x].state = "done" /\ t[y].ordinal < t[x].ordinal => t[y].state = "done",
         NEW new \in Placements(t, 1)
  PROVE  InTurn(insert_after(t, a, new))
<1> SUFFICES ASSUME NEW u, u = insert_after(t, a, new), NEW b \in Rows(u), Inserter(u, b),
                    NEW m \in Rows(u), u[m].ordinal < u[b].ordinal
             PROVE  u[m].state = "done"
  BY DEF InTurn
<1> DEFINE o == t[a].ordinal
           Moved(x) == IF x > o THEN x + 1 ELSE x
<1>0. /\ \A k \in Rows(t) : k \in MilestoneId /\ t[k].ordinal \in Nat
      /\ a \in Rows(t)
  BY RowFacts DEF Rows, Row, last_done
<1>1. PICK c \in MilestoneId \ Rows(t) : BehindRow(t, a, c, u)
  BY InsertAfterRows
<1>2. /\ u[c].ordinal = o + 1
      /\ \A k \in Rows(t) : /\ u[k].state = t[k].state /\ u[k].note = t[k].note
                            /\ u[k].ordinal = Moved(t[k].ordinal)
      /\ Rows(u) = Rows(t) \cup {c}
  <2>1. \A k \in Rows(t) : k \in MilestoneId \ {c}
    BY DEF Rows
  <2> QED
    BY <1>1, <2>1 DEF BehindRow, Inserted, Kept
<1>3. b = c \/ (b \in Rows(t) /\ t[b].state = "done" /\ t[b].ordinal <= o)
  <2> SUFFICES ASSUME b # c PROVE b \in Rows(t) /\ t[b].state = "done" /\ t[b].ordinal <= o
    OBVIOUS
  <2>1. b \in Rows(t) /\ "cadence" \in t[b].note /\ t[b].note \in Note
    BY <1>0, <1>2, RowFacts DEF Inserter, Row
  <2>2. "consol" \in t[b].note
    BY <2>1 DEF Note, CrewNote, CadenceNote
  <2> QED
    BY <1>0, <2>1, <2>2 DEF should_insert_consolidation, last_done
<1>4. m \in Rows(t) /\ t[m].ordinal <= o
  <2>1. u[b].ordinal <= o + 1
    BY <1>0, <1>2, <1>3
  <2>2. u[b].ordinal \in Nat /\ (m \in Rows(t) => u[m].ordinal \in Nat)
    BY <1>0, <1>2, <1>3
  <2> QED
    BY <1>0, <1>2, <2>1, <2>2
<1>5. t[m].state = "done"
  <2>1. CASE m = a
    BY <2>1 DEF last_done
  <2>2. CASE m # a
    <3>1. t[m].ordinal # o
      BY <1>0, <1>4, <2>2 DEF Contiguous
    <3> QED
      BY <1>0, <1>4, <3>1 DEF last_done
  <2> QED
    BY <2>1, <2>2
<1> QED
  BY <1>2, <1>4, <1>5

-----------------------------------------------------------------------------
(* What is finished comes first, and what is next has not failed *)

FinishedFirst(t) ==
  \A a, b \in Rows(t) :
    t[a].state = "done" /\ t[b].ordinal < t[a].ordinal => t[b].state = "done"

\* It stays so while nothing moves and nothing is finished ...
LEMMA SameFinishedFirst ==
  ASSUME NEW t, NEW u, SameRows(t, u), KeepsDone(t, u), FinishedFirst(t),
         \A m \in MilestoneId : u[m].state = "done" => t[m].state = "done"
  PROVE  FinishedFirst(u)
<1>1. Rows(u) = Rows(t) /\ \A m \in Rows(t) : m \in MilestoneId /\ u[m].ordinal = t[m].ordinal
  BY DEF SameRows, Rows
<1> QED
  BY <1>1 DEF FinishedFirst, KeepsDone

\* ... when the one row under construction is, in order ...
LEMMA AttemptFinishedFirst ==
  ASSUME NEW t \in Table, NEW a \in MilestoneId, NEW u, SameRows(t, u), FinishedFirst(t)
  PROVE  /\ Finished(t, a, u) /\ t[a].state = "building" /\ InOrder(t) => FinishedFirst(u)
         /\ Failed(t, a, u) /\ t[a].state # "done" => FinishedFirst(u)
<1>0. Rows(u) = Rows(t) /\ \A m \in Rows(t) : m \in MilestoneId /\ u[m].ordinal = t[m].ordinal
  BY DEF SameRows, Rows
<1>n. \A m \in Rows(t) : t[m].ordinal \in Nat
  BY RowFacts DEF Rows, Row
<1>1. ASSUME Finished(t, a, u), t[a].state = "building", InOrder(t),
             NEW x \in Rows(u), NEW y \in Rows(u),
             u[x].state = "done", u[y].ordinal < u[x].ordinal
      PROVE  u[y].state = "done"
  <2>1. t[y].state = "done" \/ y = a
    <3>1. CASE x = a
      BY <1>0, <1>1, <3>1 DEF InOrder
    <3>2. CASE x # a
      BY <1>0, <1>1, <3>2 DEF Finished, FinishedFirst
    <3> QED
      BY <3>1, <3>2
  <2> QED
    BY <1>0, <1>1, <2>1 DEF Finished
<1>2. ASSUME Failed(t, a, u), t[a].state # "done",
             NEW x \in Rows(u), NEW y \in Rows(u),
             u[x].state = "done", u[y].ordinal < u[x].ordinal
      PROVE  u[y].state = "done"
  <2>1. x # a /\ t[y].state = "done"
    BY <1>0, <1>2 DEF Failed, FinishedFirst
  <2> QED
    BY <1>0, <1>2, <2>1 DEF Failed
<1> QED
  BY <1>1, <1>2 DEF FinishedFirst

\* The milestone next in line was not attempted, and its latest sessions do
\* not ask for a split.
FreshNext(t) ==
  \A m \in MilestoneId : next_pending(t, m) => t[m].retry_count = 0 /\ ~t[m].hot

\* ... and when a plan is stored, a consolidation is inserted behind all that
\* is finished, or the next row is split; what is next then is what was added.
LEMMA PlanFinishedFirst ==
  ASSUME NEW t \in Table, Rows(t) = {}, NEW n \in Nat, NEW new \in Placements(t, n),
         NEW notes
  PROVE  FinishedFirst(create_many(t, new, notes))
<1> SUFFICES ASSUME NEW u, u = create_many(t, new, notes), NEW b \in Rows(u)
             PROVE  u[b].state # "done"
  BY DEF FinishedFirst
<1>1. Rows(u) = Rows(t) \cup DOMAIN new /\ \A m \in DOMAIN new : Inserted(u[m], new[m], notes[new[m]])
  BY CreateManyRows
<1> QED
  BY <1>1 DEF Inserted

\* ... by a consolidation, which is then the next row ...
LEMMA ConsolidationFinishedFirst ==
  ASSUME NEW t \in Table, Contiguous(t), FinishedFirst(t), NEW a \in MilestoneId,
         last_done(t, a), NEW new \in Placements(t, 1),
         NEW u, u = insert_after(t, a, new)
  PROVE  /\ FinishedFirst(u) /\ FreshNext(u)
         /\ \E c \in Rows(u) : "consol" \in u[c].note /\ u[c].state # "done"
<1> DEFINE o == t[a].ordinal
           Moved(x) == IF x > o THEN x + 1 ELSE x
<1>0. /\ \A m \in Rows(t) : m \in MilestoneId /\ t[m].ordinal \in Nat
      /\ a \in Rows(t)
  BY RowFacts DEF Rows, Row, last_done
<1>1. PICK c \in MilestoneId \ Rows(t) : BehindRow(t, a, c, u)
  BY InsertAfterRows
<1>2. /\ u[c].ordinal = o + 1 /\ u[c].state = "pending" /\ u[c].retry_count = 0
      /\ ~u[c].hot /\ u[c].note = CadenceNote
      /\ \A m \in Rows(t) : Kept(t[m], u[m]) /\ u[m].ordinal = Moved(t[m].ordinal)
      /\ Rows(u) = Rows(t) \cup {c}
  <2>1. \A m \in Rows(t) : m \in MilestoneId \ {c}
    BY DEF Rows
  <2> QED
    BY <1>1, <2>1 DEF BehindRow, Inserted
<1>3. \A m \in Rows(t) : u[m].state = t[m].state
  BY <1>2 DEF Kept
<1>4. \A m \in Rows(t) : t[m].state = "done" => t[m].ordinal <= o /\ u[m].ordinal = t[m].ordinal
  BY <1>0, <1>2 DEF last_done
<1>5. FinishedFirst(u)
  <2> SUFFICES ASSUME NEW x \in Rows(u), NEW y \in Rows(u),
                      u[x].state = "done", u[y].ordinal < u[x].ordinal
               PROVE  u[y].state = "done"
    BY DEF FinishedFirst
  <2>1. x \in Rows(t) /\ t[x].state = "done"
    BY <1>2, <1>3
  <2>2. y \in Rows(t) /\ t[y].ordinal < t[x].ordinal
    BY <1>0, <1>2, <1>4, <2>1
  <2> QED
    BY <1>3, <2>1, <2>2 DEF FinishedFirst
<1>6. ASSUME NEW m \in MilestoneId, next_pending(u, m) PROVE m = c
  <2>1. m \in Rows(u) /\ u[m].state \in {"pending", "failed"} /\ u[m].ordinal <= o + 1
    BY <1>2, <1>6 DEF next_pending, Waiting, Rows
  <2>2. ASSUME m \in Rows(t) PROVE FALSE
    <3>1. t[m].state # "done" /\ m # a
      BY <1>3, <2>1, <2>2 DEF last_done
    <3>2. t[m].ordinal # o
      BY <1>0, <2>2, <3>1 DEF Contiguous
    <3>3. ~(t[m].ordinal < o)
      BY <1>0, <2>2, <3>1 DEF FinishedFirst, last_done
    <3> QED
      BY <1>0, <1>2, <2>1, <2>2, <3>2, <3>3
  <2> QED
    BY <1>2, <2>1, <2>2
<1> QED
  BY <1>2, <1>5, <1>6 DEF FreshNext, CadenceNote

\* ... and by a split, whose children are next.
LEMMA SplitFinishedFirst ==
  ASSUME NEW t \in Table, Contiguous(t), FinishedFirst(t), NEW parent \in Rows(t),
         next_pending(t, parent), NEW n \in Nat, n >= 1, NEW new \in Placements(t, n),
         NEW notes,
         NEW u, u = replace_with(t, parent, new, notes)
  PROVE  FinishedFirst(u) /\ FreshNext(u)
<1> DEFINE o == t[parent].ordinal
           Moved(x) == IF x > o THEN x + (n - 1) ELSE x
           Old == Rows(t) \ {parent}
<1>0. /\ \A m \in Rows(t) : m \in MilestoneId /\ t[m].ordinal \in Nat
      /\ t[parent].state # "done"
  BY RowFacts DEF Rows, Row, next_pending, Waiting
<1>1. \A m \in DOMAIN new : /\ u[m].ordinal = o + new[m] /\ u[m].state = "pending"
                            /\ u[m].retry_count = 0 /\ ~u[m].hot
  <2>1. \A m \in DOMAIN new : Inserted(u[m], o + new[m], notes[new[m]])
    BY ReplaceWithRows
  <2> QED
    BY <2>1 DEF Inserted
<1>2. /\ \A m \in Old : u[m].state = t[m].state /\ u[m].ordinal = Moved(t[m].ordinal)
      /\ Rows(u) = Old \cup DOMAIN new
  <2>1. \A m \in MilestoneId : m # parent /\ m \notin DOMAIN new =>
              /\ Kept(t[m], u[m])
              /\ u[m].ordinal = IF m \in Rows(t) /\ t[m].ordinal > t[parent].ordinal
                                  THEN t[m].ordinal + (n - 1) ELSE t[m].ordinal
    BY ReplaceWithRows
  <2>2. Rows(u) = Old \cup DOMAIN new
    BY ReplaceWithRows
  <2>3. \A m \in Old : m \in MilestoneId /\ m # parent /\ m \notin DOMAIN new
    BY PlacementPositions DEF Rows
  <2> QED
    BY <2>1, <2>2, <2>3 DEF Kept
<1>3. \A m \in DOMAIN new : new[m] \in 0 .. n - 1
  BY PlacementPositions
<1>4. \A m \in Old : t[m].state = "done" => t[m].ordinal < o
  BY <1>0 DEF FinishedFirst, Contiguous
<1>5. FinishedFirst(u)
  <2> SUFFICES ASSUME NEW x \in Rows(u), NEW y \in Rows(u),
                      u[x].state = "done", u[y].ordinal < u[x].ordinal
               PROVE  u[y].state = "done"
    BY DEF FinishedFirst
  <2>1. x \in Old /\ t[x].state = "done"
    BY <1>1, <1>2
  <2>2. u[x].ordinal = t[x].ordinal /\ t[x].ordinal < o
    BY <1>0, <1>2, <1>4, <2>1
  <2>3. y \in Old /\ t[y].ordinal < t[x].ordinal
    <3>1. /\ t[x].ordinal \in Nat /\ o \in Nat /\ u[y].ordinal < t[x].ordinal
          /\ y \in Old => t[y].ordinal \in Nat /\ u[y].ordinal = Moved(t[y].ordinal)
          /\ y \in DOMAIN new => u[y].ordinal = o + new[y] /\ new[y] \in 0 .. n - 1
      BY <1>0, <1>1, <1>2, <1>3, <2>1, <2>2
    <3>2. t[x].ordinal < o
      BY <2>2
    <3> HIDE DEF o
    <3>3. y \notin DOMAIN new
      BY <3>1, <3>2
    <3> QED
      BY <1>2, <3>1, <3>2, <3>3
  <2> QED
    BY <1>2, <2>1, <2>3 DEF FinishedFirst
<1>6. ASSUME NEW m \in MilestoneId, next_pending(u, m) PROVE m \in DOMAIN new
  <2>1. m \in Rows(u) /\ u[m].state \in {"pending", "failed"}
    BY <1>6 DEF next_pending, Waiting, Rows
  <2>2. u[m].ordinal <= o
    <3>1. 0 \in 0 .. n - 1
      OBVIOUS
    <3>2. PICK k \in DOMAIN new : new[k] = 0
      BY <3>1, PlacementPositions
    <3>3. k \in Waiting(u) /\ u[k].ordinal = o
      BY <1>0, <1>1, <3>2, PlacementPositions DEF Waiting
    <3> QED
      BY <1>6, <3>3 DEF next_pending
  <2>3. ASSUME m \in Old PROVE FALSE
    <3>1. m \in Waiting(t)
      BY <1>2, <2>1, <2>3 DEF Waiting
    <3>2. t[m].ordinal >= o /\ t[m].ordinal # o
      BY <1>0, <2>3, <3>1 DEF next_pending, Contiguous
    <3> QED
      BY <1>0, <1>2, <2>2, <2>3, <3>2
  <2> QED
    BY <1>2, <2>1, <2>3
<1> QED
  BY <1>1, <1>5, <1>6 DEF FreshNext

-----------------------------------------------------------------------------
(* The number of rows *)

\* How many rows a table has after an insertion.
LEMMA InsertionsCount ==
  ASSUME NEW t \in Table, IsFiniteSet(Rows(t)), NEW n \in Nat, NEW a \in MilestoneId,
         NEW new \in Placements(t, n), NEW notes,
         NEW u
  PROVE  /\ u = create_many(t, new, notes) =>
              /\ IsFiniteSet(Rows(u))
              /\ Cardinality(Rows(u)) = Cardinality(Rows(t)) + n
         /\ n = 1 /\ u = insert_after(t, a, new) =>
              /\ IsFiniteSet(Rows(u))
              /\ Cardinality(Rows(u)) = Cardinality(Rows(t)) + 1
         /\ a \in Rows(t) /\ u = replace_with(t, a, new, notes) =>
              /\ IsFiniteSet(Rows(u))
              /\ Cardinality(Rows(u)) = Cardinality(Rows(t)) + n - 1
<1>1. /\ IsFiniteSet(DOMAIN new) /\ Cardinality(DOMAIN new) = n
      /\ DOMAIN new \subseteq MilestoneId \ Rows(t)
      /\ Cardinality(Rows(t)) \in Nat
  BY PlacementFacts, FS_CardinalityType
<1>2. Cardinality(Rows(t) \cap DOMAIN new) = 0 /\ Cardinality((Rows(t) \ {a}) \cap DOMAIN new) = 0
  <2>1. Rows(t) \cap DOMAIN new = {} /\ (Rows(t) \ {a}) \cap DOMAIN new = {}
    BY <1>1
  <2> QED
    BY <2>1, FS_EmptySet
<1>3. ASSUME u = create_many(t, new, notes)
      PROVE  IsFiniteSet(Rows(u)) /\ Cardinality(Rows(u)) = Cardinality(Rows(t)) + n
  <2>1. Rows(u) = Rows(t) \cup DOMAIN new
    BY <1>3, CreateManyRows
  <2>2. /\ IsFiniteSet(Rows(t) \cup DOMAIN new)
        /\ Cardinality(Rows(t) \cup DOMAIN new)
             = Cardinality(Rows(t)) + Cardinality(DOMAIN new) - Cardinality(Rows(t) \cap DOMAIN new)
    BY <1>1, FS_Union
  <2> QED
    BY <1>1, <1>2, <2>1, <2>2
<1>4. ASSUME n = 1, u = insert_after(t, a, new)
      PROVE  IsFiniteSet(Rows(u)) /\ Cardinality(Rows(u)) = Cardinality(Rows(t)) + 1
  <2>1. PICK c \in MilestoneId \ Rows(t) : BehindRow(t, a, c, u)
    BY <1>4, InsertAfterRows
  <2>2. Rows(u) = Rows(t) \cup {c} /\ c \notin Rows(t)
    BY <2>1 DEF BehindRow
  <2> QED
    BY <2>2, FS_AddElement
<1>5. ASSUME a \in Rows(t), u = replace_with(t, a, new, notes)
      PROVE  IsFiniteSet(Rows(u)) /\ Cardinality(Rows(u)) = Cardinality(Rows(t)) + n - 1
  <2>1. Rows(u) = (Rows(t) \ {a}) \cup DOMAIN new
    BY <1>5, ReplaceWithRows
  <2> DEFINE Old == Rows(t) \ {a}
  <2>2. IsFiniteSet(Old) /\ Cardinality(Old) = Cardinality(Rows(t)) - 1
    BY <1>5, FS_RemoveElement
  <2>3. Cardinality(Old \cap DOMAIN new) = 0
    BY <1>2
  <2> HIDE DEF Old
  <2>4. /\ IsFiniteSet(Old \cup DOMAIN new)
        /\ Cardinality(Old \cup DOMAIN new) = Cardinality(Old) + n - 0
    BY <1>1, <2>2, <2>3, FS_Union
  <2> QED
    BY <1>1, <2>1, <2>2, <2>4 DEF Old
<1> QED
  BY <1>3, <1>4, <1>5
=============================================================================
