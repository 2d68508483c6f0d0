----------------------------- MODULE Transcript -----------------------------
(***************************************************************************)
(* The transcript on its way to the operator's page.  Agents and command   *)
(* handlers publish from their threads: an entry is stored, then handed to *)
(* the event loop, which puts it into the queue of every matching stream.  *)
(* The page asks for the stored history and opens a stream at the same     *)
(* time, and may look at another project before either answers.            *)
(***************************************************************************)
EXTENDS Integers, Sequences, FiniteSets, SequencesExt

CONSTANTS
  Project,
  None,        \* no project
  Thread,      \* the threads that publish
  MaxEntries,  \* bound on what is published
  QueueMax,    \* _QUEUE_MAXSIZE
  Limit,       \* the history's limit
  Cap,         \* the page's cap
  MaxViews,    \* bound on projects looked at, one after the other
  MaxFaults    \* bound on failed inserts and lost streams

ASSUME TranscriptAssumption ==
  /\ None \notin Project
  /\ {MaxEntries, MaxViews, MaxFaults} \subseteq Nat
  /\ {QueueMax, Limit, Cap} \subseteq Nat \ {0}

Entry == 1 .. MaxEntries

VARIABLES
  about,    \* the projects of the entries published so far, in that order
  hand,     \* what each thread has stored and not yet handed over, or 0
  table,    \* transcript_entries of all projects; seq has the order of the entries
  loop,     \* entries waiting for _dispatch on the event loop
  view,     \* the project the page shows
  views,    \* how often the page has changed it
  fetch,    \* histories on their way: the view they were asked in, the reply
  stream,   \* the page's EventSource: connecting or open
  queue,    \* its queue in the bridge
  shown,    \* the page's entries
  seen,     \* ids the page has ever shown in this view
  gap,      \* history: what this view cannot be expected to show
  faults

pubVars == <<about, hand, table, loop>>
pageVars == <<view, views, fetch, shown, seen>>
streamVars == <<stream, queue>>
vars == <<pubVars, pageVars, streamVars, gap, faults>>

Published == DOMAIN about

\* Entries on their way to the event loop's streams.
OnTheWay == ToSet(loop) \cup {hand[t] : t \in Thread}

TypeOK ==
  /\ about \in Seq(Project) /\ Len(about) <= MaxEntries
  /\ hand \in [Thread -> {0} \cup Entry]
  /\ table \subseteq Entry /\ loop \in Seq(Entry)
  /\ view \in Project \cup {None} /\ views \in 0 .. MaxViews
  /\ fetch \subseteq [asked : 0 .. MaxViews, read : BOOLEAN, reply : SUBSET Entry]
  /\ stream \in {"closed", "connecting", "open"}
  /\ queue \in Seq(Entry) /\ Len(queue) <= QueueMax
  /\ shown \in Seq(Entry) /\ Len(shown) <= Cap
  /\ seen \subseteq Entry /\ gap \subseteq Entry
  /\ faults \in 0 .. MaxFaults

Init ==
  /\ about = <<>> /\ hand = [t \in Thread |-> 0] /\ table = {} /\ loop = <<>>
  /\ view = None /\ views = 0 /\ fetch = {} /\ shown = <<>> /\ seen = {}
  /\ stream = "closed" /\ queue = <<>>
  /\ gap = {} /\ faults = 0

Fault == faults < MaxFaults /\ faults' = faults + 1

-----------------------------------------------------------------------------
(***************************************************************************)
(* PersistingTranscriptPublisher.publish: store, which is best effort ...  *)
(***************************************************************************)
append(e) == table' = table \cup {e}

Store(t, p, fails) ==
  /\ hand[t] = 0 /\ Len(about) < MaxEntries
  /\ about' = Append(about, p)
  /\ hand' = [hand EXCEPT ![t] = Len(about')]
  /\ IF fails THEN Fault /\ UNCHANGED table ELSE append(Len(about')) /\ UNCHANGED faults
  /\ UNCHANGED <<loop, pageVars, streamVars, gap>>

\* ... then EventBridge.publish: call_soon_threadsafe.
HandOver(t) ==
  /\ hand[t] # 0
  /\ loop' = Append(loop, hand[t])
  /\ hand' = [hand EXCEPT ![t] = 0]
  /\ UNCHANGED <<about, table, pageVars, streamVars, gap, faults>>

(***************************************************************************)
(* _dispatch: a stream takes the entries of its own project; a full queue  *)
(* makes room by dropping its oldest.                                      *)
(***************************************************************************)
Put_unbounded(q, e) == Append(q, e)

Put(q, e) == Append(IF Len(q) = QueueMax THEN Tail(q) ELSE q, e)

Matches(e) == stream = "open" /\ about[e] = view

\* History only: no stream takes the entry, but the view's history has it or
\* has not been read yet.
HistoryWillShow(e) ==
  \/ e \in seen
  \/ \E f \in fetch :
       /\ f.asked = views
       /\ e \in IF f.read THEN f.reply ELSE table

Dispatch ==
  /\ loop # <<>>
  /\ loop' = Tail(loop)
  /\ IF Matches(Head(loop))
       THEN /\ queue' = Put(queue, Head(loop))
            /\ gap' = IF Len(queue) = QueueMax THEN gap \cup {Head(queue)} ELSE gap
       ELSE /\ gap' = IF HistoryWillShow(Head(loop)) THEN gap ELSE gap \cup {Head(loop)}
            /\ UNCHANGED queue
  /\ UNCHANGED <<about, hand, table, pageVars, stream, faults>>

-----------------------------------------------------------------------------
(***************************************************************************)
(* useTranscript: a change of project forgets what was shown, asks for the *)
(* history and opens a stream; neither waits for the other.                *)
(***************************************************************************)
Look(p) ==
  /\ views < MaxViews /\ p # view
  /\ view' = p /\ views' = views + 1
  /\ fetch' = fetch \cup {[asked |-> views + 1, read |-> FALSE, reply |-> {}]}
  /\ shown' = <<>> /\ seen' = {}
  /\ stream' = "connecting" /\ queue' = <<>>
  /\ gap' = Published \ (table \cup OnTheWay)
  /\ UNCHANGED <<pubVars, faults>>

\* EventBridge.subscribe: what was dispatched before is not in the stream.
Connect ==
  /\ stream = "connecting"
  /\ stream' = "open"
  /\ UNCHANGED <<pubVars, pageVars, queue, gap, faults>>

\* The browser loses the stream and connects again by itself; what it held
\* and what is dispatched meanwhile is not sent again.
LoseStream ==
  /\ stream = "open" /\ Fault
  /\ stream' = "connecting" /\ queue' = <<>> /\ gap' = Entry
  /\ UNCHANGED <<pubVars, pageVars>>

\* list_for_project: the newest rows of the project.
OfProject(p) == {e \in table : about[e] = p}
Newest(rows) == {e \in rows : Cardinality({d \in rows : d > e}) < Limit}
list_for_project_oldest(p) ==
  {e \in OfProject(p) : Cardinality({d \in OfProject(p) : d < e}) < Limit}

list_for_project(p) == Newest(OfProject(p))

\* The reply is of the view it was asked in; here a view's project is known
\* only while it is the current one, and a late reply is of another.
ReadHistory(f, p) ==
  /\ f \in fetch /\ ~f.read
  /\ f.asked = views => p = view
  /\ fetch' = (fetch \ {f}) \cup {[f EXCEPT !.read = TRUE, !.reply = list_for_project(p)]}
  /\ gap' = IF f.asked # views THEN gap
            ELSE gap \cup (OfProject(p) \ Newest(OfProject(p)))
  /\ UNCHANGED <<pubVars, view, views, shown, seen, streamVars, faults>>

(***************************************************************************)
(* push: what has not been seen is appended, oldest first, and the page    *)
(* keeps the last Cap entries.                                             *)
(***************************************************************************)
InOrder(list) == [i \in 1 .. Cardinality(list) |->
                    CHOOSE e \in list : Cardinality({d \in list : d <= e}) = i]

LastCap(s) == IF Len(s) > Cap THEN SubSeq(s, Len(s) - Cap + 1, Len(s)) ELSE s

push(list) ==
  /\ shown' = LastCap(shown \o InOrder(list \ seen))
  /\ seen' = seen \cup list

\* A history that comes after the page has moved on is ignored.
Alive_always(f) == TRUE

Alive(f) == f.asked = views

ShowHistory(f) ==
  /\ f \in fetch /\ f.read
  /\ fetch' = fetch \ {f}
  /\ IF Alive(f) THEN push(f.reply) ELSE UNCHANGED <<shown, seen>>
  /\ UNCHANGED <<pubVars, view, views, streamVars, gap, faults>>

HistoryFails(f) ==
  /\ f \in fetch /\ Fault
  /\ fetch' = fetch \ {f}
  /\ gap' = IF f.asked = views THEN Entry ELSE gap
  /\ UNCHANGED <<pubVars, view, views, shown, seen, streamVars>>

\* One frame of the stream (_emit, onmessage).
Receive ==
  /\ stream = "open" /\ queue # <<>>
  /\ push({Head(queue)})
  /\ queue' = Tail(queue)
  /\ UNCHANGED <<pubVars, view, views, fetch, stream, gap, faults>>

Next ==
  \/ \E t \in Thread, p \in Project, fails \in BOOLEAN : Store(t, p, fails)
  \/ \E t \in Thread : HandOver(t)
  \/ Dispatch
  \/ \E p \in Project : Look(p)
  \/ Connect \/ LoseStream \/ Receive
  \/ \E f \in fetch : ShowHistory(f) \/ HistoryFails(f)
  \/ \E f \in fetch, p \in Project : ReadHistory(f, p)

Spec == Init /\ [][Next]_vars

-----------------------------------------------------------------------------
(***************************************************************************)
(* The page shows nothing of another project, however late the answers of  *)
(* the project it showed before arrive, and no entry twice, although one   *)
(* may come in the history and in the stream.                              *)
(***************************************************************************)
PageSound == IsInjective(shown) /\ \A e \in ToSet(shown) : about[e] = view

(***************************************************************************)
(* Once the history is there and the stream is open, nothing published is  *)
(* missing: it has been shown, or waits in the queue.  What can be missing *)
(* is what came before the newest Limit stored, what a full queue dropped  *)
(* for newer entries, and what was dispatched before the stream opened but *)
(* is not in the history (its insert failed or came after the read).       *)
(***************************************************************************)
NothingMissed ==
  (stream = "open" /\ \A f \in fetch : f.asked # views) =>
    \A e \in Published :
      about[e] = view =>
        e \in seen \cup ToSet(queue) \cup OnTheWay \cup gap
=============================================================================
