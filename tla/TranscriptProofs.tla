--------------------------- MODULE TranscriptProofs ---------------------------
(***************************************************************************)
(* For any number of projects, threads and entries, queues and pages of    *)
(* any size: what the operator's page shows and what it misses.            *)
(***************************************************************************)
EXTENDS Transcript, FiniteSetTheorems, TLAPS

-----------------------------------------------------------------------------
\* The first numbers are as many as the last of them says.
LEMMA InitialNumbers == ASSUME NEW k \in Nat PROVE IsFiniteSet(1 .. k) /\ Cardinality(1 .. k) = k
<1>1. /\ 1 <= k => Cardinality(1 .. k) = k - 1 + 1
      /\ k < 1 => Cardinality(1 .. k) = 0
      /\ IsFiniteSet(1 .. k)
  BY FS_Interval
<1> QED
  BY <1>1

\* A list is put in order without losing, adding or repeating anything.
LEMMA InOrderCorrect ==
  ASSUME NEW n \in Nat, NEW list \in SUBSET (1 .. n)
  PROVE  /\ InOrder(list) \in Seq(list)
         /\ IsInjective(InOrder(list)) /\ ToSet(InOrder(list)) = list
         /\ Len(InOrder(list)) = Cardinality(list)
<1> DEFINE upTo(e) == {d \in list : d <= e}
           rank == [e \in list |-> Cardinality(upTo(e))]
           m == Cardinality(list)
<1>1. IsFiniteSet(list) /\ m \in Nat /\ \A e \in list : e \in Nat
  <2>1. IsFiniteSet(1 .. n)
    BY InitialNumbers
  <2>2. IsFiniteSet(list)
    BY <2>1, FS_Subset
  <2> QED
    BY <2>2, FS_CardinalityType
<1>2. \A e \in list : IsFiniteSet(upTo(e)) /\ rank[e] \in Nat /\ rank[e] <= m
  <2> TAKE e \in list
  <2>1. upTo(e) \subseteq list
    OBVIOUS
  <2>2. IsFiniteSet(upTo(e)) /\ Cardinality(upTo(e)) <= m
    BY <1>1, <2>1, FS_Subset
  <2>3. Cardinality(upTo(e)) \in Nat
    BY <2>2, FS_CardinalityType
  <2> QED
    BY <2>2, <2>3
<1>3. \A e \in list : rank[e] >= 1
  <2> TAKE e \in list
  <2>1. upTo(e) # {} /\ IsFiniteSet(upTo(e))
    BY <1>1, <1>2
  <2>2. Cardinality(upTo(e)) # 0
    BY <2>1, FS_EmptySet
  <2> QED
    BY <1>2, <2>2
<1>4. \A e, d \in list : d < e => rank[d] < rank[e]
  <2> TAKE e, d \in list
  <2> SUFFICES ASSUME d < e PROVE rank[d] < rank[e]
    OBVIOUS
  <2>1. upTo(d) \subseteq upTo(e) /\ e \in upTo(e) /\ e \notin upTo(d)
    <3>1. \A c \in list : c <= d => c <= e
      OBVIOUS
    <3>2. e <= e /\ ~(e <= d)
      OBVIOUS
    <3> QED
      BY <3>1, <3>2
  <2>2. IsFiniteSet(upTo(e)) /\ upTo(d) # upTo(e)
    BY <1>2, <2>1
  <2>3. Cardinality(upTo(d)) < Cardinality(upTo(e))
    BY <2>1, <2>2, FS_Subset, FS_CardinalityType
  <2> QED
    BY <2>3
<1> HIDE DEF rank, m
<1>5. \A e, d \in list : rank[e] = rank[d] => e = d
  <2> SUFFICES ASSUME NEW e \in list, NEW d \in list, e # d PROVE rank[e] # rank[d]
    OBVIOUS
  <2>1. d < e \/ e < d
    OBVIOUS
  <2>2. rank[d] < rank[e] \/ rank[e] < rank[d]
    BY <1>4, <2>1
  <2>3. rank[d] \in Nat /\ rank[e] \in Nat
    BY <1>2
  <2> HIDE DEF upTo
  <2> QED
    BY <2>2, <2>3
<1>6. \A i \in 1 .. m : \E e \in list : rank[e] = i
  <2>1. rank \in [list -> 1 .. m]
    BY <1>1, <1>2, <1>3 DEF rank
  <2>2. rank \in Injection(list, 1 .. m)
    BY <2>1, <1>5 DEF Injection, IsInjective
  <2>3. IsFiniteSet(1 .. m) /\ Cardinality(1 .. m) = Cardinality(list)
    BY <1>1, InitialNumbers DEF m
  <2>4. rank \in Surjection(list, 1 .. m)
    BY <2>2, <2>3, FS_Injection
  <2> QED
    BY <2>4 DEF Surjection
<1> DEFINE at(i) == CHOOSE e \in list : rank[e] = i
<1>7. InOrder(list) = [i \in 1 .. m |-> at(i)]
  <2>1. \A i \in 1 .. m : at(i) = CHOOSE e \in list : Cardinality({d \in list : d <= e}) = i
    BY DEF rank
  <2> QED
    BY <2>1 DEF InOrder, m
<1>8. \A i \in 1 .. m : at(i) \in list /\ rank[at(i)] = i
  BY <1>6
<1> HIDE DEF at
<1>9. \A e \in list : rank[e] \in 1 .. m /\ at(rank[e]) = e
  <2> TAKE e \in list
  <2> HIDE DEF upTo
  <2>1. rank[e] \in 1 .. m
    BY <1>1, <1>2, <1>3
  <2>2. at(rank[e]) \in list /\ rank[at(rank[e])] = rank[e]
    BY <2>1, <1>8
  <2> QED
    BY <2>1, <2>2, <1>5
<1> DEFINE s == [i \in 1 .. m |-> at(i)]
<1>10. s \in Seq(list) /\ DOMAIN s = 1 .. m /\ Len(s) = m
  BY <1>1, <1>8
<1>11. IsInjective(s)
  BY <1>8 DEF IsInjective
<1>12. ToSet(s) = list
  BY <1>8, <1>9 DEF ToSet
<1> HIDE DEF s
<1> QED
  BY <1>7, <1>10, <1>11, <1>12 DEF s, m

\* What Append adds to a sequence.
LEMMA AppendSet ==
  ASSUME NEW S, NEW s \in Seq(S), NEW e \in S
  PROVE  /\ Append(s, e) \in Seq(S) /\ Len(Append(s, e)) = Len(s) + 1
         /\ ToSet(Append(s, e)) = ToSet(s) \cup {e}
<1> DEFINE t == Append(s, e)
<1>1. t \in Seq(S) /\ Len(t) = Len(s) + 1 /\ DOMAIN t = 1 .. Len(s) + 1 /\ DOMAIN s = 1 .. Len(s)
      /\ Len(s) \in Nat
  OBVIOUS
<1>2. t[Len(s) + 1] = e /\ \A i \in 1 .. Len(s) : t[i] = s[i]
  OBVIOUS
<1> HIDE DEF t
<1>3. ToSet(t) = ToSet(s) \cup {e}
  <2>1. \A i \in 1 .. Len(s) + 1 : i = Len(s) + 1 \/ i \in 1 .. Len(s)
    BY <1>1
  <2>2. \A i \in 1 .. Len(s) : i \in 1 .. Len(s) + 1
    BY <1>1
  <2>3. Len(s) + 1 \in 1 .. Len(s) + 1
    BY <1>1
  <2> QED
    BY <1>1, <1>2, <2>1, <2>2, <2>3 DEF ToSet
<1> QED
  BY <1>1, <1>3 DEF t

\* What taking the head leaves.
LEMMA TailSet ==
  ASSUME NEW S, NEW s \in Seq(S), s # <<>>
  PROVE  /\ Tail(s) \in Seq(S) /\ Len(Tail(s)) = Len(s) - 1
         /\ Head(s) \in S /\ ToSet(s) = {Head(s)} \cup ToSet(Tail(s))
<1> DEFINE t == Tail(s)
<1>1. t \in Seq(S) /\ Len(t) = Len(s) - 1 /\ DOMAIN t = 1 .. Len(s) - 1 /\ DOMAIN s = 1 .. Len(s)
      /\ Len(s) \in Nat \ {0}
  OBVIOUS
<1>2. Head(s) = s[1] /\ \A i \in 1 .. Len(s) - 1 : t[i] = s[i + 1]
  OBVIOUS
<1> HIDE DEF t
<1>3. ToSet(s) = {Head(s)} \cup ToSet(t)
  <2>1. \A i \in 1 .. Len(s) : i = 1 \/ (i - 1 \in 1 .. Len(s) - 1 /\ t[i - 1] = s[i])
    BY <1>1, <1>2
  <2>2. \A i \in 1 .. Len(s) - 1 : i + 1 \in 1 .. Len(s)
    BY <1>1
  <2>3. 1 \in 1 .. Len(s)
    BY <1>1
  <2>4. \A x \in ToSet(s) : x = Head(s) \/ x \in ToSet(t)
    <3> SUFFICES ASSUME NEW i \in 1 .. Len(s), s[i] # Head(s) PROVE s[i] \in ToSet(t)
      BY <1>1 DEF ToSet
    <3>1. i - 1 \in 1 .. Len(s) - 1 /\ t[i - 1] = s[i]
      BY <1>2, <2>1
    <3>2. i - 1 \in DOMAIN t
      BY <1>1, <3>1
    <3> HIDE DEF t
    <3> QED
      BY <3>1, <3>2 DEF ToSet
  <2>5. Head(s) \in ToSet(s)
    BY <1>1, <1>2, <2>3 DEF ToSet
  <2>6. \A x \in ToSet(t) : x \in ToSet(s)
    BY <1>1, <1>2, <2>2 DEF ToSet
  <2> QED
    BY <2>4, <2>5, <2>6
<1> QED
  BY <1>1, <1>2, <1>3 DEF t

\* The page keeps the last Cap entries of what it has shown.
LEMMA LastCapKeeps ==
  ASSUME NEW S, NEW s \in Seq(S), IsInjective(s)
  PROVE  /\ LastCap(s) \in Seq(S) /\ Len(LastCap(s)) <= Cap
         /\ IsInjective(LastCap(s)) /\ ToSet(LastCap(s)) \subseteq ToSet(s)
<1>1. CASE Len(s) > Cap
  <2> DEFINE t == SubSeq(s, Len(s) - Cap + 1, Len(s))
             k == Len(s) - Cap
  <2>1. Cap \in Nat /\ Len(s) \in Nat /\ k \in Nat /\ DOMAIN s = 1 .. Len(s)
    BY <1>1, TranscriptAssumption
  <2>2. t \in Seq(S) /\ Len(t) = Cap /\ DOMAIN t = 1 .. Cap
    BY <1>1, <2>1
  <2>3. \A i \in 1 .. Cap : i + k \in 1 .. Len(s) /\ t[i] = s[i + k]
    BY <1>1, <2>1
  <2> HIDE DEF t, k
  <2>4. IsInjective(t)
    <3> SUFFICES ASSUME NEW i \in 1 .. Cap, NEW j \in 1 .. Cap, t[i] = t[j] PROVE i = j
      BY <2>2 DEF IsInjective
    <3>1. i + k = j + k
      BY <2>1, <2>3 DEF IsInjective
    <3> QED
      BY <2>1, <3>1
  <2>5. ToSet(t) \subseteq ToSet(s)
    BY <2>1, <2>2, <2>3 DEF ToSet
  <2> QED
    BY <1>1, <2>1, <2>2, <2>4, <2>5 DEF LastCap, t
<1>2. CASE ~(Len(s) > Cap)
  <2>1. Len(s) <= Cap
    BY <1>2, TranscriptAssumption
  <2> QED
    BY <1>2, <2>1 DEF LastCap
<1> QED
  BY <1>1, <1>2

\* Two sequences without repetition that share nothing, one after the other.
LEMMA ConcatInjective ==
  ASSUME NEW S, NEW s \in Seq(S), NEW t \in Seq(S), IsInjective(s), IsInjective(t),
         ToSet(s) \cap ToSet(t) = {}
  PROVE  /\ s \o t \in Seq(S) /\ IsInjective(s \o t)
         /\ ToSet(s \o t) = ToSet(s) \cup ToSet(t)
<1> DEFINE c == s \o t
           m == Len(s)
           n == Len(t)
<1>1. /\ c \in Seq(S) /\ DOMAIN c = 1 .. m + n /\ m \in Nat /\ n \in Nat
      /\ DOMAIN s = 1 .. m /\ DOMAIN t = 1 .. n
  OBVIOUS
<1>2. \A i \in 1 .. m : i \in DOMAIN c /\ c[i] = s[i] /\ s[i] \in ToSet(s)
  BY DEF ToSet
<1>3. \A i \in 1 .. n : i + m \in DOMAIN c /\ c[i + m] = t[i] /\ t[i] \in ToSet(t)
  BY DEF ToSet
<1> HIDE DEF c, m, n
<1>4. \A i \in DOMAIN c : i \in 1 .. m \/ \E j \in 1 .. n : i = j + m
  <2> TAKE i \in DOMAIN c
  <2>1. i \notin 1 .. m => i - m \in 1 .. n /\ i = (i - m) + m
    BY <1>1
  <2> QED
    BY <2>1
<1>5. IsInjective(c)
  <2> SUFFICES ASSUME NEW i \in DOMAIN c, NEW j \in DOMAIN c, c[i] = c[j] PROVE i = j
    BY DEF IsInjective
  <2>1. CASE i \in 1 .. m /\ j \in 1 .. m
    BY <1>1, <1>2, <2>1 DEF IsInjective
  <2>2. CASE i \in 1 .. m /\ j \notin 1 .. m
    BY <1>2, <1>3, <1>4, <2>2
  <2>3. CASE i \notin 1 .. m /\ j \in 1 .. m
    BY <1>2, <1>3, <1>4, <2>3
  <2>4. CASE i \notin 1 .. m /\ j \notin 1 .. m
    <3>1. PICK a \in 1 .. n : i = a + m
      BY <1>4, <2>4
    <3>2. PICK b \in 1 .. n : j = b + m
      BY <1>4, <2>4
    <3>3. t[a] = t[b]
      BY <1>3, <3>1, <3>2
    <3> QED
      BY <1>1, <3>1, <3>2, <3>3 DEF IsInjective
  <2> QED
    BY <2>1, <2>2, <2>3, <2>4
<1>6. ToSet(c) = ToSet(s) \cup ToSet(t)
  <2>1. \A x \in ToSet(c) : x \in ToSet(s) \cup ToSet(t)
    <3> SUFFICES ASSUME NEW i \in DOMAIN c PROVE c[i] \in ToSet(s) \cup ToSet(t)
      BY DEF ToSet
    <3> QED
      BY <1>2, <1>3, <1>4
  <2>2. \A x \in ToSet(s) : x \in ToSet(c)
    BY <1>1, <1>2 DEF ToSet
  <2>3. \A x \in ToSet(t) : x \in ToSet(c)
    BY <1>1, <1>3 DEF ToSet
  <2> QED
    BY <2>1, <2>2, <2>3
<1> QED
  BY <1>1, <1>5, <1>6 DEF c

\* A stream's queue never holds more than it may, and takes every entry.
LEMMA PutKeeps ==
  ASSUME NEW S, NEW q \in Seq(S), Len(q) <= QueueMax, NEW e \in S
  PROVE  /\ Put(q, e) \in Seq(S) /\ Len(Put(q, e)) <= QueueMax
         /\ ToSet(Put(q, e)) \subseteq ToSet(q) \cup {e}
         /\ ToSet(q) \cup {e} \subseteq
              ToSet(Put(q, e)) \cup (IF Len(q) = QueueMax THEN {Head(q)} ELSE {})
<1>0. QueueMax \in Nat /\ QueueMax # 0 /\ Len(q) \in Nat
  BY TranscriptAssumption
<1>1. CASE Len(q) = QueueMax
  <2>1. q # <<>>
    BY <1>0, <1>1
  <2>2. /\ Tail(q) \in Seq(S) /\ Len(Tail(q)) = Len(q) - 1
        /\ ToSet(q) = {Head(q)} \cup ToSet(Tail(q))
    BY <2>1, TailSet
  <2>3. /\ Append(Tail(q), e) \in Seq(S) /\ Len(Append(Tail(q), e)) = Len(Tail(q)) + 1
        /\ ToSet(Append(Tail(q), e)) = ToSet(Tail(q)) \cup {e}
    <3> DEFINE rest == Tail(q)
    <3>1. rest \in Seq(S)
      BY <2>2
    <3> HIDE DEF rest
    <3>2. /\ Append(rest, e) \in Seq(S) /\ Len(Append(rest, e)) = Len(rest) + 1
          /\ ToSet(Append(rest, e)) = ToSet(rest) \cup {e}
      BY <3>1, AppendSet
    <3> QED
      BY <3>2 DEF rest
  <2>4. Len(Append(Tail(q), e)) <= QueueMax
    BY <1>0, <1>1, <2>2, <2>3
  <2>5. Put(q, e) = Append(Tail(q), e)
    BY <1>1 DEF Put
  <2> QED
    BY <1>1, <2>2, <2>3, <2>4, <2>5
<1>2. CASE Len(q) # QueueMax
  <2>1. /\ Append(q, e) \in Seq(S) /\ Len(Append(q, e)) = Len(q) + 1
        /\ ToSet(Append(q, e)) = ToSet(q) \cup {e}
    BY AppendSet
  <2>2. Len(Append(q, e)) <= QueueMax
    BY <1>0, <1>2, <2>1
  <2>3. Put(q, e) = Append(q, e)
    BY <1>2 DEF Put
  <2> QED
    BY <1>2, <2>1, <2>2, <2>3
<1> QED
  BY <1>1, <1>2

-----------------------------------------------------------------------------
\* The entries of the project the page shows.
OfView == {e \in Published : about[e] = view}

\* What is stored or on its way has been published.
Stored ==
  /\ hand \in [Thread -> {0} \cup Published]
  /\ table \subseteq Published
  /\ ToSet(loop) \subseteq Published

\* Whatever can still reach the page in this view is of the view's project, and
\* what the page shows it has taken note of.
Current ==
  /\ \A f \in fetch : f.asked <= views /\ (f.asked = views /\ f.read => f.reply \subseteq OfView)
  /\ ToSet(queue) \cup seen \subseteq OfView
  /\ stream # "open" => queue = <<>>
  /\ ToSet(shown) \subseteq seen /\ IsInjective(shown)

\* An entry of the view's project has been shown, or will come in the history or
\* in the stream, or there is a reason why it does not.
Covered == \A e \in OfView : HistoryWillShow(e) \/ e \in ToSet(queue) \cup OnTheWay \cup gap

\* A new entry follows the others.
LEMMA Appended ==
  ASSUME TypeOK, NEW p \in Project, about' = Append(about, p), Len(about) < MaxEntries
  PROVE  /\ about' \in Seq(Project) /\ Len(about') <= MaxEntries
         /\ Len(about') \in Entry /\ Len(about') \notin Published
         /\ Published' = Published \cup {Len(about')}
         /\ \A e \in Published : about'[e] = about[e]
<1>1. about \in Seq(Project) /\ Len(about) \in Nat /\ MaxEntries \in Nat /\ Published = 1 .. Len(about)
  BY TranscriptAssumption DEF TypeOK, Published
<1>2. about' \in Seq(Project) /\ Len(about') = Len(about) + 1 /\ Published' = 1 .. Len(about) + 1
  BY <1>1 DEF Published
<1>3. Published' = Published \cup {Len(about')}
  BY <1>1, <1>2
<1>4. \A e \in Published : about'[e] = about[e]
  BY <1>1
<1>5. Len(about') <= MaxEntries /\ Len(about') \in Entry /\ Len(about') \notin Published
  BY <1>1, <1>2 DEF Entry
<1> QED
  BY <1>2, <1>3, <1>4, <1>5

\* What has been published is an entry.
LEMMA PublishedEntry == ASSUME TypeOK PROVE Published \subseteq Entry
<1>1. Published = 1 .. Len(about) /\ Len(about) \in Nat /\ Len(about) <= MaxEntries
  BY DEF TypeOK, Published
<1> QED
  BY <1>1, TranscriptAssumption DEF Entry

\* push shows nothing twice and takes note of all it shows.
LEMMA PushKeeps ==
  ASSUME TypeOK, Current, NEW list \in SUBSET Entry, push(list)
  PROVE  /\ shown' \in Seq(Entry) /\ Len(shown') <= Cap
         /\ seen' = seen \cup list /\ ToSet(shown') \subseteq seen' /\ IsInjective(shown')
<1> DEFINE fresh == list \ seen
           added == InOrder(fresh)
           both == shown \o added
<1>1. fresh \in SUBSET (1 .. MaxEntries) /\ MaxEntries \in Nat
  BY TranscriptAssumption DEF Entry
<1>2. added \in Seq(fresh) /\ IsInjective(added) /\ ToSet(added) = fresh
  BY <1>1, InOrderCorrect
<1>3. added \in Seq(Entry)
  <2>1. fresh \subseteq Entry
    OBVIOUS
  <2> HIDE DEF fresh, added
  <2> QED
    BY <1>2, <2>1
<1>4. shown \in Seq(Entry) /\ IsInjective(shown) /\ ToSet(shown) \subseteq seen
  BY DEF TypeOK, Current
<1>5. ToSet(shown) \cap ToSet(added) = {}
  BY <1>2, <1>4
<1> HIDE DEF added
<1>6. both \in Seq(Entry) /\ IsInjective(both) /\ ToSet(both) = ToSet(shown) \cup ToSet(added)
  BY <1>2, <1>3, <1>4, <1>5, ConcatInjective
<1>7. shown' = LastCap(both) /\ seen' = seen \cup list
  BY DEF push, added
<1> HIDE DEF both
<1>8. /\ LastCap(both) \in Seq(Entry) /\ Len(LastCap(both)) <= Cap
      /\ IsInjective(LastCap(both)) /\ ToSet(LastCap(both)) \subseteq ToSet(both)
  BY <1>6, LastCapKeeps
<1> QED
  BY <1>2, <1>4, <1>6, <1>7, <1>8

\* What is in line for the event loop is on its way, and taking one from the line
\* takes nothing else.
LEMMA Unline ==
  ASSUME TypeOK, loop # <<>>, loop' = Tail(loop), hand' = hand
  PROVE  /\ loop' \in Seq(Entry) /\ Head(loop) \in Entry
         /\ ToSet(loop) = {Head(loop)} \cup ToSet(loop')
         /\ OnTheWay \subseteq OnTheWay' \cup {Head(loop)}
<1>1. /\ Tail(loop) \in Seq(Entry) /\ Head(loop) \in Entry
      /\ ToSet(loop) = {Head(loop)} \cup ToSet(Tail(loop))
  BY TailSet DEF TypeOK
<1> QED
  BY <1>1 DEF OnTheWay

\* The event loop puts an entry of the view's project into the open stream's queue.
LEMMA Dispatched ==
  ASSUME TypeOK, Dispatch
  PROVE  /\ queue' \in Seq(Entry) /\ Len(queue') <= QueueMax
         /\ ToSet(queue') \subseteq ToSet(queue) \cup (IF Matches(Head(loop)) THEN {Head(loop)} ELSE {})
         /\ gap \subseteq gap' /\ gap' \subseteq Entry
         /\ ToSet(queue) \subseteq ToSet(queue') \cup gap'
         /\ \/ Matches(Head(loop)) /\ Head(loop) \in ToSet(queue') \cup gap'
            \/ HistoryWillShow(Head(loop)) \/ Head(loop) \in gap'
<1>1. Head(loop) \in Entry /\ queue \in Seq(Entry) /\ Len(queue) <= QueueMax /\ gap \subseteq Entry
  BY Unline DEF Dispatch, TypeOK
<1>2. CASE Matches(Head(loop))
  <2>1. /\ queue' = Put(queue, Head(loop))
        /\ gap' = IF Len(queue) = QueueMax THEN gap \cup {Head(queue)} ELSE gap
    BY <1>2 DEF Dispatch
  <2>2. /\ Put(queue, Head(loop)) \in Seq(Entry) /\ Len(Put(queue, Head(loop))) <= QueueMax
        /\ ToSet(Put(queue, Head(loop))) \subseteq ToSet(queue) \cup {Head(loop)}
        /\ ToSet(queue) \cup {Head(loop)} \subseteq
             ToSet(Put(queue, Head(loop))) \cup (IF Len(queue) = QueueMax THEN {Head(queue)} ELSE {})
    BY <1>1, PutKeeps
  <2>3. Len(queue) = QueueMax => Head(queue) \in Entry
    <3>1. Len(queue) = QueueMax => queue # <<>>
      BY <1>1, TranscriptAssumption
    <3> QED
      BY <1>1, <3>1, TailSet
  <2> QED
    BY <1>1, <1>2, <2>1, <2>2, <2>3
<1>3. CASE ~Matches(Head(loop))
  <2>1. /\ queue' = queue
        /\ gap' = IF HistoryWillShow(Head(loop)) THEN gap ELSE gap \cup {Head(loop)}
    BY <1>3 DEF Dispatch
  <2> QED
    BY <1>1, <1>3, <2>1
<1> QED
  BY <1>2, <1>3

\* A history that has been read is of the view it was asked in.
LEMMA ReadRecord ==
  ASSUME NEW A, NEW B, NEW C, NEW f \in [asked : A, read : B, reply : C], NEW b \in B, NEW c \in C
  PROVE  LET g == [f EXCEPT !.read = b, !.reply = c]
         IN  g \in [asked : A, read : B, reply : C] /\ g.asked = f.asked /\ g.read = b /\ g.reply = c
OBVIOUS

\* A fault is counted up to the bound.
LEMMA FaultBounds == ASSUME TypeOK, Fault PROVE faults' \in 0 .. MaxFaults
BY TranscriptAssumption DEF TypeOK, Fault

\* The types are kept by every step.
LEMMA TypeStep == ASSUME TypeOK, Stored, Current, [Next]_vars PROVE TypeOK'
<1> USE DEF pubVars, pageVars, streamVars
<1>1. ASSUME NEW t \in Thread, NEW p \in Project, NEW fails \in BOOLEAN, Store(t, p, fails)
      PROVE  TypeOK'
  <2>1. about' = Append(about, p) /\ Len(about) < MaxEntries
    BY <1>1 DEF Store
  <2>2. about' \in Seq(Project) /\ Len(about') <= MaxEntries /\ Len(about') \in Entry
    BY <2>1, Appended
  <2>3. hand' \in [Thread -> {0} \cup Entry]
    BY <1>1, <2>2 DEF Store, TypeOK
  <2>4. table' \subseteq Entry /\ faults' \in 0 .. MaxFaults
    BY <1>1, <2>2, FaultBounds DEF Store, append, TypeOK
  <2>5. UNCHANGED <<loop, view, views, fetch, shown, seen, stream, queue, gap>>
    BY <1>1 DEF Store
  <2> QED
    BY <2>2, <2>3, <2>4, <2>5 DEF TypeOK
<1>2. ASSUME NEW t \in Thread, HandOver(t)
      PROVE  TypeOK'
  <2>1. hand[t] \in Entry
    BY <1>2 DEF HandOver, TypeOK
  <2>2. loop' \in Seq(Entry)
    BY <1>2, <2>1, AppendSet DEF HandOver, TypeOK
  <2>3. hand' \in [Thread -> {0} \cup Entry]
    BY <1>2 DEF HandOver, TypeOK
  <2> QED
    BY <1>2, <2>2, <2>3 DEF HandOver, TypeOK
<1>3. CASE Dispatch
  <2>1. loop' \in Seq(Entry)
    BY <1>3, Unline DEF Dispatch
  <2>2. queue' \in Seq(Entry) /\ Len(queue') <= QueueMax /\ gap' \subseteq Entry
    BY <1>3, Dispatched
  <2>3. UNCHANGED <<about, hand, table, view, views, fetch, shown, seen, stream, faults>>
    BY <1>3 DEF Dispatch
  <2> QED
    BY <2>1, <2>2, <2>3 DEF TypeOK
<1>4. ASSUME NEW p \in Project, Look(p)
      PROVE  TypeOK'
  <2>1. views + 1 \in 0 .. MaxViews /\ FALSE \in BOOLEAN /\ {} \in SUBSET Entry
    BY <1>4, TranscriptAssumption DEF Look, TypeOK
  <2>2. [asked |-> views + 1, read |-> FALSE, reply |-> {}]
          \in [asked : 0 .. MaxViews, read : BOOLEAN, reply : SUBSET Entry]
    BY <2>1, Zenon
  <2>3. fetch' \subseteq [asked : 0 .. MaxViews, read : BOOLEAN, reply : SUBSET Entry]
    <3> DEFINE asked == [asked |-> views + 1, read |-> FALSE, reply |-> {}]
               Fetch == [asked : 0 .. MaxViews, read : BOOLEAN, reply : SUBSET Entry]
    <3>1. fetch' = fetch \cup {asked} /\ fetch \subseteq Fetch
      BY <1>4, Zenon DEF Look, TypeOK
    <3> QED
      BY <2>2, <3>1, Zenon
  <2>4. views' \in 0 .. MaxViews /\ view' \in Project \cup {None}
    BY <1>4, <2>1 DEF Look
  <2>5. shown' \in Seq(Entry) /\ Len(shown') <= Cap /\ queue' \in Seq(Entry) /\ Len(queue') <= QueueMax
    <3>1. <<>> \in Seq(Entry) /\ Len(<<>>) = 0
      OBVIOUS
    <3> QED
      BY <1>4, <3>1, TranscriptAssumption DEF Look
  <2>6. seen' \subseteq Entry /\ gap' \subseteq Entry
    BY <1>4, PublishedEntry DEF Look
  <2>7. stream' = "connecting" /\ UNCHANGED <<about, hand, table, loop, faults>>
    BY <1>4 DEF Look
  <2> QED
    BY <2>3, <2>4, <2>5, <2>6, <2>7 DEF TypeOK
<1>5. CASE Connect
  BY <1>5 DEF Connect, TypeOK
<1>6. CASE LoseStream
  <2>1. <<>> \in Seq(Entry) /\ Len(<<>>) <= QueueMax
    BY TranscriptAssumption
  <2>2. faults' \in 0 .. MaxFaults
    BY <1>6, FaultBounds DEF LoseStream
  <2> QED
    BY <1>6, <2>1, <2>2 DEF LoseStream, TypeOK
<1>7. CASE Receive
  <2>1. queue # <<>> /\ queue \in Seq(Entry) /\ Len(queue) \in Nat
    BY <1>7 DEF Receive, TypeOK
  <2>2. Tail(queue) \in Seq(Entry) /\ Len(Tail(queue)) = Len(queue) - 1 /\ Head(queue) \in Entry
    BY <2>1, TailSet
  <2>3. queue' \in Seq(Entry) /\ Len(queue') <= QueueMax
    BY <1>7, <2>1, <2>2, TranscriptAssumption DEF Receive, TypeOK
  <2>4. {Head(queue)} \in SUBSET Entry /\ push({Head(queue)})
    BY <1>7, <2>2 DEF Receive
  <2>5. shown' \in Seq(Entry) /\ Len(shown') <= Cap /\ seen' = seen \cup {Head(queue)}
    BY <2>4, PushKeeps
  <2> QED
    BY <1>7, <2>2, <2>3, <2>5 DEF Receive, TypeOK
<1>8. ASSUME NEW f \in fetch, ShowHistory(f)
      PROVE  TypeOK'
  <2>1. f.reply \in SUBSET Entry
    BY DEF TypeOK
  <2>2. shown' \in Seq(Entry) /\ Len(shown') <= Cap /\ seen' \subseteq Entry
    <3>1. CASE Alive(f)
      <4>1. push(f.reply)
        BY <1>8, <3>1 DEF ShowHistory
      <4>2. shown' \in Seq(Entry) /\ Len(shown') <= Cap /\ seen' = seen \cup f.reply
        BY <2>1, <4>1, PushKeeps
      <4> QED
        BY <2>1, <4>2 DEF TypeOK
    <3>2. CASE ~Alive(f)
      BY <1>8, <3>2 DEF ShowHistory, TypeOK
    <3> QED
      BY <3>1, <3>2
  <2> QED
    BY <1>8, <2>2 DEF ShowHistory, TypeOK
<1>9. ASSUME NEW f \in fetch, HistoryFails(f)
      PROVE  TypeOK'
  <2>1. faults' \in 0 .. MaxFaults
    BY <1>9, FaultBounds DEF HistoryFails
  <2> QED
    BY <1>9, <2>1 DEF HistoryFails, TypeOK
<1>10. ASSUME NEW f \in fetch, NEW p \in Project, ReadHistory(f, p)
       PROVE  TypeOK'
  <2>1. list_for_project(p) \subseteq Entry /\ OfProject(p) \subseteq Entry
    BY DEF list_for_project, Newest, OfProject, TypeOK
  <2>2. fetch' \subseteq [asked : 0 .. MaxViews, read : BOOLEAN, reply : SUBSET Entry]
    <3> DEFINE Fetch == [asked : 0 .. MaxViews, read : BOOLEAN, reply : SUBSET Entry]
               g == [f EXCEPT !.read = TRUE, !.reply = list_for_project(p)]
    <3>1. f \in Fetch /\ fetch \subseteq Fetch
      BY Zenon DEF TypeOK
    <3>2. TRUE \in BOOLEAN /\ list_for_project(p) \in SUBSET Entry
      BY <2>1
    <3>3. g \in Fetch
      BY <3>1, <3>2, ReadRecord, Zenon
    <3>4. fetch' = (fetch \ {f}) \cup {g}
      BY <1>10, Zenon DEF ReadHistory
    <3> QED
      BY <3>1, <3>3, <3>4, Zenon
  <2>3. gap' \subseteq Entry
    BY <1>10, <2>1 DEF ReadHistory, TypeOK
  <2>4. UNCHANGED <<about, hand, table, loop, view, views, shown, seen, stream, queue, faults>>
    BY <1>10 DEF ReadHistory
  <2> QED
    BY <2>2, <2>3, <2>4 DEF TypeOK
<1>11. CASE UNCHANGED vars
  BY <1>11 DEF vars, TypeOK
<1> QED
  BY <1>1, <1>2, <1>3, <1>4, <1>5, <1>6, <1>7, <1>8, <1>9, <1>10, <1>11 DEF Next

\* What is on its way has been published.
LEMMA StoredStep == ASSUME TypeOK, Stored, [Next]_vars PROVE Stored'
<1> USE DEF pubVars, pageVars, streamVars
<1>1. ASSUME NEW t \in Thread, NEW p \in Project, NEW fails \in BOOLEAN, Store(t, p, fails)
      PROVE  Stored'
  <2>1. about' = Append(about, p) /\ Len(about) < MaxEntries
    BY <1>1 DEF Store
  <2>2. Published' = Published \cup {Len(about')}
    BY <2>1, Appended
  <2> QED
    BY <1>1, <2>2 DEF Store, append, Stored
<1>2. ASSUME NEW t \in Thread, HandOver(t)
      PROVE  Stored'
  <2>1. hand[t] \in Entry /\ hand[t] \in Published
    BY <1>2, PublishedEntry DEF HandOver, Stored
  <2>2. ToSet(loop') = ToSet(loop) \cup {hand[t]}
    BY <1>2, <2>1, AppendSet DEF HandOver, TypeOK
  <2> QED
    BY <1>2, <2>1, <2>2 DEF HandOver, Stored, Published
<1>3. CASE Dispatch
  <2>1. ToSet(loop') \subseteq ToSet(loop)
    BY <1>3, Unline DEF Dispatch
  <2> QED
    BY <1>3, <2>1 DEF Dispatch, Stored, Published
<1>4. ASSUME UNCHANGED pubVars
      PROVE  Stored'
  BY <1>4 DEF Stored, Published
<1> QED
  BY <1>1, <1>2, <1>3, <1>4
  DEF Next, Look, Connect, LoseStream, Receive, ShowHistory, HistoryFails, ReadHistory, vars

\* The page asks for the history of the view that begins.
LEMMA Asked ==
  ASSUME NEW p \in Project, Look(p)
  PROVE  \E g : fetch' = fetch \cup {g} /\ g.asked = views' /\ ~g.read
<1> DEFINE g == [asked |-> views + 1, read |-> FALSE, reply |-> {}]
<1>1. fetch' = fetch \cup {g} /\ views' = views + 1
  BY Zenon DEF Look
<1>2. g.asked = views + 1
  OBVIOUS
<1>3. ~g.read
  BY Zenon
<1> HIDE DEF g
<1> QED
  BY <1>1, <1>2, <1>3

\* The history of a view, when it has been read.
LEMMA HistoryRead ==
  ASSUME TypeOK, NEW f \in fetch, NEW p \in Project, ReadHistory(f, p)
  PROVE  \E g : /\ fetch' = (fetch \ {f}) \cup {g}
                /\ g.asked = f.asked /\ g.read /\ g.reply = Newest(OfProject(p))
<1> DEFINE g == [f EXCEPT !.read = TRUE, !.reply = list_for_project(p)]
<1>1. f \in [asked : 0 .. MaxViews, read : BOOLEAN, reply : SUBSET Entry]
  BY Zenon DEF TypeOK
<1>2. TRUE \in BOOLEAN /\ list_for_project(p) \in SUBSET Entry
  BY DEF list_for_project, Newest, OfProject, TypeOK
<1>3. g.asked = f.asked /\ g.read = TRUE /\ g.reply = list_for_project(p)
  BY <1>1, <1>2, ReadRecord, Zenon
<1>4. fetch' = (fetch \ {f}) \cup {g}
  BY Zenon DEF ReadHistory
<1> HIDE DEF g
<1> QED
  BY <1>3, <1>4, Zenon DEF list_for_project

\* Nothing of another project is on its way to the page.
LEMMA CurrentStep == ASSUME TypeOK, Stored, Current, [Next]_vars PROVE Current'
<1> USE DEF pubVars, pageVars, streamVars
<1>1. ASSUME NEW t \in Thread, NEW p \in Project, NEW fails \in BOOLEAN, Store(t, p, fails)
      PROVE  Current'
  <2>1. about' = Append(about, p) /\ Len(about) < MaxEntries
    BY <1>1 DEF Store
  <2>2. OfView \subseteq OfView'
    BY <1>1, <2>1, Appended DEF Store, OfView
  <2> QED
    BY <1>1, <2>2 DEF Store, Current
<1>2. ASSUME NEW t \in Thread, HandOver(t)
      PROVE  Current'
  BY <1>2 DEF HandOver, Current, OfView, Published
<1>3. CASE Dispatch
  <2>1. Head(loop) \in Published
    BY <1>3, Unline DEF Dispatch, Stored
  <2>2. ToSet(queue') \subseteq OfView
    BY <1>3, <2>1, Dispatched DEF Matches, OfView, Current
  <2>3. stream # "open" => queue' = <<>>
    BY <1>3 DEF Dispatch, Matches, Current
  <2> QED
    BY <1>3, <2>2, <2>3 DEF Dispatch, Current, OfView, Published
<1>4. ASSUME NEW p \in Project, Look(p)
      PROVE  Current'
  <2>1. PICK g : fetch' = fetch \cup {g} /\ g.asked = views' /\ ~g.read
    BY <1>4, Asked
  <2>2. \A f \in fetch : f.asked < views'
    BY <1>4 DEF Look, Current, TypeOK
  <2>3. \A f \in fetch' : f.asked <= views' /\ (f.asked = views' => ~f.read)
    <3>1. views' \in Int /\ \A f \in fetch : f.asked \in Int
      BY <1>4 DEF Look, TypeOK
    <3> QED
      BY <2>1, <2>2, <3>1
  <2>4. ToSet(<<>>) = {} /\ IsInjective(<<>>)
    BY DEF ToSet, IsInjective
  <2>5. shown' = <<>> /\ seen' = {} /\ queue' = <<>>
    BY <1>4 DEF Look
  <2> QED
    BY <2>3, <2>4, <2>5 DEF Current
<1>5. CASE Connect
  BY <1>5 DEF Connect, Current, OfView, Published
<1>6. CASE LoseStream
  <2>1. queue' = <<>> /\ ToSet(<<>>) = {}
    BY <1>6 DEF LoseStream, ToSet
  <2> QED
    BY <1>6, <2>1 DEF LoseStream, Current, OfView, Published
<1>7. CASE Receive
  <2>1. queue # <<>> /\ queue \in Seq(Entry)
    BY <1>7 DEF Receive, TypeOK
  <2>2. Head(queue) \in Entry /\ ToSet(queue) = {Head(queue)} \cup ToSet(Tail(queue))
    BY <2>1, TailSet
  <2>3. {Head(queue)} \in SUBSET Entry /\ push({Head(queue)})
    BY <1>7, <2>2 DEF Receive
  <2>4. seen' = seen \cup {Head(queue)} /\ ToSet(shown') \subseteq seen' /\ IsInjective(shown')
    BY <2>3, PushKeeps
  <2> QED
    BY <1>7, <2>2, <2>4 DEF Receive, Current, OfView, Published
<1>8. ASSUME NEW f \in fetch, ShowHistory(f)
      PROVE  Current'
  <2>1. f.reply \in SUBSET Entry /\ OfView' = OfView
    BY <1>8 DEF ShowHistory, TypeOK, OfView, Published
  <2>2. ToSet(shown') \subseteq seen' /\ IsInjective(shown') /\ seen' \subseteq OfView
    <3>1. CASE Alive(f)
      <4>1. push(f.reply) /\ f.reply \subseteq OfView
        BY <1>8, <3>1 DEF ShowHistory, Alive, Current
      <4>2. seen' = seen \cup f.reply /\ ToSet(shown') \subseteq seen' /\ IsInjective(shown')
        BY <2>1, <4>1, PushKeeps
      <4> QED
        BY <4>1, <4>2 DEF Current
    <3>2. CASE ~Alive(f)
      BY <1>8, <3>2 DEF ShowHistory, Current
    <3> QED
      BY <3>1, <3>2
  <2> QED
    BY <1>8, <2>1, <2>2 DEF ShowHistory, Current
<1>9. ASSUME NEW f \in fetch, HistoryFails(f)
      PROVE  Current'
  BY <1>9 DEF HistoryFails, Current, OfView, Published
<1>10. ASSUME NEW f \in fetch, NEW p \in Project, ReadHistory(f, p)
       PROVE  Current'
  <2>1. PICK g : /\ fetch' = (fetch \ {f}) \cup {g}
                 /\ g.asked = f.asked /\ g.read /\ g.reply = Newest(OfProject(p))
    BY <1>10, HistoryRead
  <2>2. OfView' = OfView /\ UNCHANGED <<views, queue, seen, shown, stream>>
    BY <1>10 DEF ReadHistory, OfView, Published
  <2>3. f.asked = views => g.reply \subseteq OfView
    BY <1>10, <2>1 DEF ReadHistory, Newest, OfProject, OfView, Stored
  <2> QED
    BY <2>1, <2>2, <2>3 DEF Current
<1>11. CASE UNCHANGED vars
  BY <1>11 DEF vars, Current, OfView, Published
<1> QED
  BY <1>1, <1>2, <1>3, <1>4, <1>5, <1>6, <1>7, <1>8, <1>9, <1>10, <1>11 DEF Next

\* The stream and the history between them leave nothing out without a reason.
LEMMA CoveredStep == ASSUME TypeOK, Stored, Current, Covered, [Next]_vars PROVE Covered'
<1> USE DEF pubVars, pageVars, streamVars
<1>1. ASSUME NEW t \in Thread, NEW p \in Project, NEW fails \in BOOLEAN, Store(t, p, fails)
      PROVE  Covered'
  <2>1. about' = Append(about, p) /\ Len(about) < MaxEntries
    BY <1>1 DEF Store
  <2>2. OfView' \subseteq OfView \cup {Len(about')}
    BY <1>1, <2>1, Appended DEF Store, OfView
  <2>3. \A e : HistoryWillShow(e) => HistoryWillShow(e)'
    BY <1>1 DEF Store, append, HistoryWillShow
  <2>4. OnTheWay \subseteq OnTheWay' \cup {0} /\ Len(about') \in OnTheWay'
    BY <1>1 DEF Store, OnTheWay, TypeOK
  <2>5. 0 \notin OfView
    BY PublishedEntry DEF OfView, Entry
  <2> QED
    BY <1>1, <2>2, <2>3, <2>4, <2>5 DEF Store, Covered
<1>2. ASSUME NEW t \in Thread, HandOver(t)
      PROVE  Covered'
  <2>1. hand[t] \in Entry
    BY <1>2 DEF HandOver, TypeOK
  <2>2. ToSet(loop') = ToSet(loop) \cup {hand[t]}
    BY <1>2, <2>1, AppendSet DEF HandOver, TypeOK
  <2>3. OnTheWay \subseteq OnTheWay'
    BY <1>2, <2>2 DEF HandOver, OnTheWay, TypeOK
  <2> QED
    BY <1>2, <2>3 DEF HandOver, Covered, OfView, Published, HistoryWillShow
<1>3. CASE Dispatch
  <2>1. OnTheWay \subseteq OnTheWay' \cup {Head(loop)}
    BY <1>3, Unline DEF Dispatch
  <2>2. /\ gap \subseteq gap' /\ ToSet(queue) \subseteq ToSet(queue') \cup gap'
        /\ HistoryWillShow(Head(loop)) \/ Head(loop) \in ToSet(queue') \cup gap'
    BY <1>3, Dispatched
  <2>3. OfView' = OfView /\ \A e : HistoryWillShow(e)' <=> HistoryWillShow(e)
    BY <1>3 DEF Dispatch, OfView, Published, HistoryWillShow
  <2> QED
    BY <2>1, <2>2, <2>3 DEF Covered
<1>4. ASSUME NEW p \in Project, Look(p)
      PROVE  Covered'
  <2>1. PICK g : fetch' = fetch \cup {g} /\ g.asked = views' /\ ~g.read
    BY <1>4, Asked
  <2>2. \A e \in table : HistoryWillShow(e)'
    <3>1. table' = table /\ g \in fetch'
      BY <1>4, <2>1 DEF Look
    <3> QED
      BY <2>1, <3>1 DEF HistoryWillShow
  <2>3. OfView' \subseteq Published /\ gap' = Published \ (table \cup OnTheWay) /\ OnTheWay' = OnTheWay
    BY <1>4 DEF Look, OfView, Published, OnTheWay
  <2> QED
    BY <2>2, <2>3 DEF Covered
<1>5. CASE Connect
  BY <1>5 DEF Connect, Covered, OfView, Published, HistoryWillShow, OnTheWay
<1>6. CASE LoseStream
  <2>1. gap' = Entry /\ OfView' \subseteq Published
    BY <1>6 DEF LoseStream, OfView, Published
  <2> QED
    BY <2>1, PublishedEntry DEF Covered
<1>7. CASE Receive
  <2>1. queue # <<>> /\ queue \in Seq(Entry)
    BY <1>7 DEF Receive, TypeOK
  <2>2. ToSet(queue) = {Head(queue)} \cup ToSet(Tail(queue))
    BY <2>1, TailSet
  <2>3. queue' = Tail(queue) /\ seen' = seen \cup {Head(queue)}
    BY <1>7 DEF Receive, push
  <2>4. \A e : HistoryWillShow(e) \/ e = Head(queue) => HistoryWillShow(e)'
    BY <1>7, <2>3 DEF Receive, HistoryWillShow
  <2> QED
    BY <1>7, <2>2, <2>3, <2>4 DEF Receive, Covered, OfView, Published, OnTheWay
<1>8. ASSUME NEW f \in fetch, ShowHistory(f)
      PROVE  Covered'
  <2>1. \A e : HistoryWillShow(e) => HistoryWillShow(e)'
    <3> SUFFICES ASSUME NEW e, HistoryWillShow(e) PROVE HistoryWillShow(e)'
      OBVIOUS
    <3>1. UNCHANGED <<views, table>> /\ fetch' = fetch \ {f} /\ f.read
      BY <1>8 DEF ShowHistory
    <3>2. seen \subseteq seen' /\ (f.asked = views => f.reply \subseteq seen')
      BY <1>8 DEF ShowHistory, Alive, push
    <3>3. CASE e \in seen
      BY <3>2, <3>3 DEF HistoryWillShow
    <3>4. ASSUME NEW g \in fetch, g.asked = views, e \in IF g.read THEN g.reply ELSE table
          PROVE  HistoryWillShow(e)'
      <4>1. CASE g = f
        BY <3>1, <3>2, <3>4, <4>1 DEF HistoryWillShow
      <4>2. CASE g # f
        BY <3>1, <3>4, <4>2 DEF HistoryWillShow
      <4> QED
        BY <4>1, <4>2
    <3> QED
      BY <3>3, <3>4 DEF HistoryWillShow
  <2> QED
    BY <1>8, <2>1 DEF ShowHistory, Covered, OfView, Published, OnTheWay
<1>9. ASSUME NEW f \in fetch, HistoryFails(f)
      PROVE  Covered'
  <2>1. OfView' = OfView /\ OnTheWay' = OnTheWay /\ queue' = queue
    BY <1>9 DEF HistoryFails, OfView, Published, OnTheWay
  <2>2. CASE f.asked = views
    <3>1. gap' = Entry
      BY <1>9, <2>2 DEF HistoryFails
    <3> QED
      BY <2>1, <3>1, PublishedEntry DEF Covered, OfView
  <2>3. CASE f.asked # views
    <3>1. \A e : HistoryWillShow(e) => HistoryWillShow(e)'
      BY <1>9, <2>3 DEF HistoryFails, HistoryWillShow
    <3> QED
      BY <1>9, <2>1, <2>3, <3>1 DEF HistoryFails, Covered
  <2> QED
    BY <2>2, <2>3
<1>10. ASSUME NEW f \in fetch, NEW p \in Project, ReadHistory(f, p)
       PROVE  Covered'
  <2>1. PICK g : /\ fetch' = (fetch \ {f}) \cup {g}
                 /\ g.asked = f.asked /\ g.read /\ g.reply = Newest(OfProject(p))
    BY <1>10, HistoryRead
  <2>2. /\ OfView' = OfView /\ OnTheWay' = OnTheWay /\ gap \subseteq gap'
        /\ UNCHANGED <<views, table, queue, seen>> /\ ~f.read
    BY <1>10 DEF ReadHistory, OfView, Published, OnTheWay
  <2>3. ASSUME NEW e \in OfView, HistoryWillShow(e) PROVE HistoryWillShow(e)' \/ e \in gap'
    <3>1. CASE e \in seen
      BY <2>2, <3>1 DEF HistoryWillShow
    <3>2. ASSUME NEW h \in fetch \ {f}, h.asked = views, e \in IF h.read THEN h.reply ELSE table
          PROVE  HistoryWillShow(e)'
      BY <2>1, <2>2, <3>2 DEF HistoryWillShow
    <3>3. CASE f.asked = views /\ e \in table
      <4>1. e \in OfProject(p)
        BY <1>10, <2>3, <3>3 DEF ReadHistory, OfProject, OfView
      <4>2. gap' = gap \cup (OfProject(p) \ Newest(OfProject(p)))
        BY <1>10, <3>3 DEF ReadHistory
      <4>3. e \in g.reply => HistoryWillShow(e)'
        BY <2>1, <2>2, <3>3 DEF HistoryWillShow
      <4> QED
        BY <2>1, <4>1, <4>2, <4>3
    <3> QED
      BY <2>2, <2>3, <3>1, <3>2, <3>3 DEF HistoryWillShow
  <2> QED
    BY <2>2, <2>3 DEF Covered
<1>11. CASE UNCHANGED vars
  BY <1>11 DEF vars, Covered, OfView, Published, HistoryWillShow, OnTheWay
<1> QED
  BY <1>1, <1>2, <1>3, <1>4, <1>5, <1>6, <1>7, <1>8, <1>9, <1>10, <1>11 DEF Next

-----------------------------------------------------------------------------
IInv == TypeOK /\ Stored /\ Current /\ Covered

\* The invariant holds before anything is published.
LEMMA Initially == Init => IInv
<1> SUFFICES ASSUME Init PROVE IInv
  OBVIOUS
<1>1. /\ <<>> \in Seq(Project) /\ <<>> \in Seq(Entry) /\ Len(<<>>) = 0
      /\ DOMAIN <<>> = {} /\ ToSet(<<>>) = {} /\ IsInjective(<<>>)
  BY DEF ToSet, IsInjective
<1>2. TypeOK
  BY <1>1, TranscriptAssumption DEF Init, TypeOK
<1>3. Stored /\ Current
  BY <1>1 DEF Init, Stored, Current
<1>4. Covered
  BY <1>1 DEF Init, Covered, OfView, Published
<1> QED
  BY <1>2, <1>3, <1>4 DEF IInv

\* The invariant holds throughout.
LEMMA Inductive == Spec => []IInv
<1>1. IInv /\ [Next]_vars => IInv'
  BY TypeStep, StoredStep, CurrentStep, CoveredStep DEF IInv
<1> QED
  BY Initially, <1>1, PTL DEF Spec

(***************************************************************************)
(* However many entries, threads and views: the queue of a stream and the  *)
(* page never hold more than they may, and the rest is of its type.        *)
(***************************************************************************)
THEOREM TypeCorrect == Spec => []TypeOK
<1>1. IInv => TypeOK
  BY DEF IInv
<1> QED
  BY Inductive, <1>1, PTL

(***************************************************************************)
(* Whatever the order in which the histories and the frames of any number  *)
(* of views arrive, the page shows entries of its own project only, and    *)
(* none twice.                                                             *)
(***************************************************************************)
THEOREM PageSoundCorrect == Spec => []PageSound
<1>1. IInv => PageSound
  BY DEF IInv, Current, PageSound, OfView
<1> QED
  BY Inductive, <1>1, PTL

(***************************************************************************)
(* However the threads, the event loop, the history and the stream take    *)
(* turns, what the page misses has one of the reasons it may have.         *)
(***************************************************************************)
THEOREM NothingMissedCorrect == Spec => []NothingMissed
<1>1. IInv => NothingMissed
  BY DEF IInv, Covered, NothingMissed, OfView, HistoryWillShow
<1> QED
  BY Inductive, <1>1, PTL
===============================================================================
