-------------------------- MODULE ControlPlaneProofs --------------------------
(***************************************************************************)
(* Theorems about the operator's two front doors, for any number of API    *)
(* threads, confirmations, values and faults: the bot's store of           *)
(* confirmations, the API's rate limit, and the setting behind both.       *)
(***************************************************************************)
EXTENDS ControlPlane, FiniteSetTheorems, WellFoundedInduction, TLAPS

-----------------------------------------------------------------------------
(* The store of confirmations                                              *)

\* A set of tokens is finite, and there are at most MaxTokens in it.
LEMMA TokenFinite ==
  ASSUME NEW S, S \subseteq Token
  PROVE  /\ IsFiniteSet(S) /\ Cardinality(S) \in Nat /\ Cardinality(S) <= MaxTokens
         /\ S \subseteq Nat
<1>1. MaxTokens \in Nat /\ 1 \in Int
  BY ControlAssumption
<1>2. IsFiniteSet(Token) /\ Cardinality(Token) = MaxTokens
  BY <1>1, FS_Interval DEF Token
<1>3. S \subseteq Nat
  BY DEF Token
<1> QED
  BY <1>1, <1>2, <1>3, FS_Subset, FS_CardinalityType

\* A set of tokens that is not empty has an oldest one.
LEMMA OldestToken ==
  ASSUME NEW S, S \subseteq Token, S # {}
  PROVE  \E t \in S : \A u \in S : t <= u
<1> DEFINE Before == {ss \in Nat \X Nat : ss[1] < ss[2]}
<1>1. S \subseteq Nat
  BY TokenFinite
<1>2. IsWellFoundedOn(Before, Nat)
  BY NatLessThanWellFounded DEF OpToRel
<1>3. PICK t \in S : \A u \in S : ~(<<u, t>> \in Before)
  <2> HIDE DEF Before
  <2> QED
    BY <1>1, <1>2, WFMin
<1>4. \A u \in S : ~(u < t)
  BY <1>1, <1>3
<1> QED
  BY <1>1, <1>4

\* The store never holds more than MaxPending entries.
LEMMA EvictBounds ==
  ASSUME NEW S, S \subseteq Token
  PROVE  Evict(S) \subseteq S /\ Cardinality(Evict(S)) <= MaxPending
<1> DEFINE E == Evict(S)
<1>0. E \subseteq S /\ MaxPending \in Nat \ {0}
  BY ControlAssumption DEF Evict
<1>1. CASE E = {}
  BY <1>0, <1>1, FS_EmptySet
<1>2. CASE E # {}
  <2>1. PICK t \in E : \A u \in E : t <= u
    BY <1>0, <1>2, OldestToken
  <2>2. IsFiniteSet(E) /\ IsFiniteSet(Newer(S, t)) /\ E \subseteq Nat
    <3>1. Newer(S, t) \subseteq Token
      BY DEF Newer
    <3> QED
      BY <1>0, <3>1, TokenFinite
  <2>3. E \ {t} \subseteq Newer(S, t)
    BY <1>0, <2>1, <2>2 DEF Newer
  <2>4. Cardinality(Newer(S, t)) < MaxPending
    BY <2>1 DEF Evict
  <2> HIDE DEF E
  <2>5. Cardinality(E \ {t}) = Cardinality(E) - 1
    BY <2>1, <2>2, FS_RemoveElement
  <2>6. Cardinality(E \ {t}) <= Cardinality(Newer(S, t))
    BY <2>2, <2>3, FS_Subset
  <2>7. /\ Cardinality(E) \in Nat /\ Cardinality(E \ {t}) \in Nat
        /\ Cardinality(Newer(S, t)) \in Nat
    BY <2>2, FS_RemoveElement, FS_CardinalityType
  <2> QED
    BY <1>0, <2>4, <2>5, <2>6, <2>7 DEF E
<1> QED
  BY <1>0, <1>1, <1>2

\* The confirmations answered with Yes.
Said == {t \in Token : status[t] = "yes"}

StoreTypeOK ==
  /\ pending \subseteq Token /\ Cardinality(pending) <= MaxPending
  /\ status \in [Token -> {"unasked", "open", "yes", "no", "expired", "lost"}]
  /\ age \in [Token -> 0 .. Ttl + 1]

(***************************************************************************)
(* Tokens are asked for in order; what is in the store is open; of what is *)
(* open and young only the oldest are missing from it; and the bot has run *)
(* one command for each Yes.                                               *)
(***************************************************************************)
StoreInv ==
  /\ StoreTypeOK
  /\ \A t, u \in Token : u < t /\ t \in Asked => u \in Asked
  /\ \A t \in pending : status[t] = "open"
  /\ Answerable
  /\ ran = Cardinality(Said)

\* A command that asks for confirmation becomes the newest entry of the store.
LEMMA DestructiveStores == ASSUME StoreInv, Destructive PROVE StoreInv'
<1>1. PICK t \in Token :
        /\ status[t] = "unasked" /\ \A u \in 1 .. t - 1 : status[u] # "unasked"
        /\ pending' = Evict(Prune(pending) \cup {t})
        /\ status' = [status EXCEPT ![t] = "open"]
  BY DEF Destructive
<1>2. age' = age /\ ran' = ran
  BY DEF Destructive
<1> DEFINE S == Prune(pending) \cup {t}
<1>3. /\ status' \in [Token -> {"unasked", "open", "yes", "no", "expired", "lost"}]
      /\ status'[t] = "open" /\ \A u \in Token \ {t} : status'[u] = status[u]
  BY <1>1 DEF StoreInv, StoreTypeOK
<1>4. /\ S \subseteq Token /\ pending' = Evict(S)
      /\ pending' \subseteq S /\ Cardinality(pending') <= MaxPending
  <2>1. S \subseteq Token
    BY DEF StoreInv, StoreTypeOK, Prune
  <2> QED
    BY <1>1, <2>1, EvictBounds
<1>5. \A u \in Asked : u < t
  <2>1. \A u \in Token : t < u => u \notin Asked
    BY <1>1 DEF StoreInv, Asked
  <2> QED
    BY <1>1, <2>1 DEF Asked, Token
<1>6. Asked' = Asked \cup {t} /\ Said' = Said
  BY <1>1, <1>3 DEF Asked, Said
<1>7. \A a, b \in Token : b < a /\ a \in Asked' => b \in Asked'
  <2>1. \A b \in Token : b < t => b \in Asked
    BY <1>1 DEF Asked, Token
  <2> QED
    BY <1>6, <2>1 DEF StoreInv
<1>8. \A u \in pending' : status'[u] = "open"
  BY <1>3, <1>4 DEF StoreInv, StoreTypeOK, Prune
<1>9. ASSUME NEW u \in Token, status'[u] = "open", age'[u] <= Ttl
      PROVE  u \in pending' \/ Cardinality(Newer(Asked', u)) >= MaxPending
  <2>n. /\ MaxPending \in Nat \ {0}
        /\ Newer(Asked', u) \subseteq Token /\ Newer(Asked, u) \subseteq Newer(Asked', u)
        /\ Newer(S, u) \subseteq Newer(Asked', u)
    <3>1. S \subseteq Asked'
      BY <1>3, <1>4 DEF StoreInv, StoreTypeOK, Prune, Asked
    <3> QED
      BY <1>6, <3>1, ControlAssumption DEF Newer, Asked
  <2>f. /\ IsFiniteSet(Newer(Asked', u))
        /\ \A T : T \subseteq Newer(Asked', u) =>
             /\ Cardinality(T) \in Nat
             /\ Cardinality(T) <= Cardinality(Newer(Asked', u))
    BY <2>n, TokenFinite, FS_Subset, FS_CardinalityType
  <2>1. CASE u \in S
    <3>1. u \in pending' \/ ~(Cardinality(Newer(S, u)) < MaxPending)
      BY <1>4, <2>1 DEF Evict
    <3> HIDE DEF S
    <3> QED
      BY <2>n, <2>f, <3>1
  <2>2. CASE u \notin S
    <3>1. Cardinality(Newer(Asked, u)) >= MaxPending
      BY <1>2, <1>3, <1>9, <2>2 DEF StoreInv, Answerable, Prune
    <3> QED
      BY <2>n, <2>f, <3>1
  <2> QED
    BY <2>1, <2>2
<1> QED
  BY <1>2, <1>3, <1>4, <1>6, <1>7, <1>8, <1>9 DEF StoreInv, StoreTypeOK, Answerable

\* A tap closes its confirmation and takes it out of the store.
LEMMA TapStores ==
  ASSUME StoreInv, NEW t \in Token, NEW answer \in {"yes", "no"}, Tap(t, answer)
  PROVE  StoreInv'
<1>1. /\ status[t] # "unasked" /\ age' = age
      /\ pending' = Prune(pending) \ {t}
      /\ ran' = IF t \in Prune(pending) /\ answer = "yes" THEN ran + 1 ELSE ran
      /\ status' = IF status[t] # "open" THEN status
                   ELSE [status EXCEPT ![t] =
                           IF t \in Prune(pending) \/ answer = "no" THEN answer
                           ELSE "expired"]
  BY DEF Tap, Popped, Asked
<1>2. /\ status' \in [Token -> {"unasked", "open", "yes", "no", "expired", "lost"}]
      /\ status'[t] \notin {"unasked", "open"}
      /\ \A u \in Token \ {t} : status'[u] = status[u]
  BY <1>1 DEF StoreInv, StoreTypeOK
<1>3. Asked' = Asked
  BY <1>1, <1>2 DEF Asked
<1>4. pending' \subseteq pending /\ Cardinality(pending') <= MaxPending
  <2>1. pending' \subseteq pending /\ IsFiniteSet(pending) /\ Cardinality(pending) <= MaxPending
    BY <1>1, TokenFinite DEF Prune, StoreInv, StoreTypeOK
  <2>2. /\ Cardinality(pending') <= Cardinality(pending)
        /\ Cardinality(pending') \in Nat /\ Cardinality(pending) \in Nat
    BY <2>1, FS_Subset, FS_CardinalityType
  <2> QED
    BY <2>1, <2>2, ControlAssumption
<1>5. \A u \in pending' : status'[u] = "open"
  BY <1>1, <1>2, <1>4 DEF StoreInv, StoreTypeOK
<1>6. Answerable'
  BY <1>1, <1>2, <1>3 DEF StoreInv, Answerable, Prune
<1>7. ran' = Cardinality(Said')
  <2>0. IsFiniteSet(Said) /\ Cardinality(Said) \in Nat /\ ran = Cardinality(Said)
    BY TokenFinite DEF Said, StoreInv
  <2>1. CASE t \in Prune(pending) /\ answer = "yes"
    <3>1. status[t] = "open" /\ status'[t] = "yes"
      BY <1>1, <2>1 DEF Prune, StoreInv, StoreTypeOK
    <3>2. Said' = Said \cup {t} /\ t \notin Said
      BY <1>2, <3>1 DEF Said
    <3> QED
      BY <1>1, <2>0, <2>1, <3>2, FS_AddElement
  <2>2. CASE ~(t \in Prune(pending) /\ answer = "yes")
    <3>1. status'[t] = "yes" <=> status[t] = "yes"
      BY <1>1, <2>2 DEF StoreInv, StoreTypeOK
    <3>2. Said' = Said
      BY <1>2, <3>1 DEF Said
    <3> QED
      BY <1>1, <2>0, <2>2, <3>2
  <2> QED
    BY <2>1, <2>2
<1> QED
  BY <1>1, <1>2, <1>3, <1>4, <1>5, <1>6, <1>7 DEF StoreInv, StoreTypeOK

\* A restart loses the store and what was open.
LEMMA RestartStores == ASSUME StoreInv, Restart PROVE StoreInv'
<1>1. /\ pending' = {} /\ age' = age /\ ran' = ran
      /\ \A u \in Token : status'[u] = IF status[u] = "open" THEN "lost" ELSE status[u]
      /\ status' \in [Token -> {"unasked", "open", "yes", "no", "expired", "lost"}]
  BY DEF Restart, StoreInv, StoreTypeOK
<1>2. Asked' = Asked /\ Said' = Said
  BY <1>1 DEF Asked, Said
<1>3. Cardinality(pending') <= MaxPending
  BY <1>1, FS_EmptySet, ControlAssumption
<1>4. Answerable'
  BY <1>1 DEF Answerable
<1> QED
  BY <1>1, <1>2, <1>3, <1>4 DEF StoreInv, StoreTypeOK

\* Time only makes confirmations older.
LEMMA ClockStores == ASSUME StoreInv, Clock PROVE StoreInv'
<1>1. /\ UNCHANGED <<pending, status, ran>> /\ Ttl \in Nat
      /\ age' = [t \in Token |-> IF status[t] = "unasked" THEN 0 ELSE Older(age[t], Ttl + 1)]
  BY ControlAssumption DEF Clock
<1>2. Asked' = Asked /\ Said' = Said
  BY <1>1 DEF Asked, Said
<1>3. \A t \in Token : age'[t] \in 0 .. Ttl + 1
  BY <1>1 DEF StoreInv, StoreTypeOK, Older
<1>4. \A t \in Token : status[t] # "unasked" /\ age'[t] <= Ttl => age[t] <= Ttl
  BY <1>1 DEF StoreInv, StoreTypeOK, Older
<1>5. age' \in [Token -> 0 .. Ttl + 1]
  BY <1>1, <1>3
<1>6. Answerable'
  BY <1>1, <1>2, <1>4 DEF StoreInv, Answerable
<1> QED
  BY <1>1, <1>2, <1>5, <1>6 DEF StoreInv, StoreTypeOK

\* What does not touch the bot keeps the invariant.
LEMMA OthersStore == ASSUME StoreInv, UNCHANGED botVars PROVE StoreInv'
BY DEF botVars, StoreInv, StoreTypeOK, Asked, Said, Answerable

\* Nothing is asked for at the start.
LEMMA InitStore == Init => StoreInv
<1> SUFFICES ASSUME Init PROVE StoreInv
  OBVIOUS
<1>1. Said = {} /\ Asked = {}
  BY DEF Init, Said, Asked
<1> QED
  BY <1>1, FS_EmptySet, ControlAssumption DEF Init, StoreInv, StoreTypeOK, Answerable

\* Every step keeps the invariant of the store.
LEMMA StoreStep == StoreInv /\ [Next]_vars => StoreInv'
<1> SUFFICES ASSUME StoreInv, [Next]_vars PROVE StoreInv'
  OBVIOUS
<1>1. CASE UNCHANGED vars
  BY <1>1, OthersStore DEF vars, botVars
<1>2. CASE BotStep
  BY <1>2, DestructiveStores, TapStores, OthersStore DEF BotStep, BotSets
<1>3. CASE ApiStep
  BY <1>3, OthersStore DEF ApiStep, Refuse, Answer, ApiSets
<1>4. ASSUME NEW d \in Door, NEW fails \in BOOLEAN, Upsert(d, fails) PROVE UNCHANGED botVars
  BY <1>4 DEF Upsert
<1> QED
  BY <1>1, <1>2, <1>3, <1>4, RestartStores, ClockStores, OthersStore DEF Next

\* The store of confirmations keeps its invariant.
THEOREM StoreCorrect == Spec => []StoreInv
BY InitStore, StoreStep, PTL DEF Spec

(***************************************************************************)
(* _PendingConfirmations loses the confirmation of a destructive command   *)
(* only to its time to live, to MaxPending newer ones or to a restart.     *)
(***************************************************************************)
THEOREM AnswerableCorrect == Spec => []Answerable
<1>1. StoreInv => Answerable
  BY DEF StoreInv
<1> QED
  BY <1>1, StoreCorrect, PTL

(***************************************************************************)
(* _cb_yes runs a destructive command once, and only one that was open and *)
(* young: pop gives out what is in the store, and the store holds nothing  *)
(* that was answered.                                                      *)
(***************************************************************************)
THEOREM RunOnceCorrect == Spec => RunOnce
<1> DEFINE Ran == ran' # ran =>
             /\ ran' = ran + 1
             /\ \E t \in Token : /\ status[t] = "open" /\ age[t] <= Ttl
                                 /\ status' = [status EXCEPT ![t] = "yes"]
<1>1. StoreInv /\ [Next]_vars => [Ran]_vars
  <2> SUFFICES ASSUME StoreInv, [Next]_vars, ran' # ran PROVE Ran
    BY DEF vars
  <2>1. PICK t \in Token, answer \in {"yes", "no"} : Tap(t, answer)
    BY DEF Next, BotStep, ApiStep, Destructive, BotSets, Refuse, Answer, ApiSets, Restart,
           Clock, Upsert, vars, botVars
  <2>2. t \in Prune(pending) /\ answer = "yes" /\ ran' = ran + 1
    BY <2>1 DEF Tap
  <2>3. status[t] = "open" /\ age[t] <= Ttl
    BY <2>2 DEF Prune, StoreInv
  <2>4. status' = [status EXCEPT ![t] = "yes"]
    BY <2>1, <2>2, <2>3 DEF Tap
  <2> QED
    BY <2>2, <2>3, <2>4
<1> QED
  BY <1>1, StoreCorrect, PTL DEF Spec, RunOnce

-----------------------------------------------------------------------------
(* The rate limit                                                          *)

\* What of the window's count was accepted.
Accepted == IF count < RateLimit THEN count ELSE RateLimit

(***************************************************************************)
(* The history runs from the oldest request to the newest, and its last    *)
(* Accepted entries fall into the running window.                          *)
(***************************************************************************)
WindowInv ==
  /\ start \in 0 .. Window /\ count \in Nat
  /\ recent \in Seq(0 .. Window - 1)
  /\ \A j, k \in 1 .. Len(recent) : j <= k => recent[j] >= recent[k]
  /\ start < Window =>
       /\ Accepted <= Len(recent)
       /\ \A k \in 1 .. Len(recent) : k > Len(recent) - Accepted => recent[k] <= start

\* An accepted request is counted, and is the newest of the history.
LEMMA AnswerKeepsWindow ==
  ASSUME WindowInv, ~Limited("good"), Count("good"), recent' = Append(recent, 0)
  PROVE  WindowInv'
<1>0. /\ RateLimit \in Nat /\ Window \in Nat \ {0} /\ start \in Nat /\ count \in Nat
      /\ Len(recent) \in Nat /\ recent \in Seq(0 .. Window - 1)
  BY ControlAssumption DEF WindowInv
<1>1. /\ recent' \in Seq(0 .. Window - 1) /\ Len(recent') = Len(recent) + 1
      /\ recent'[Len(recent) + 1] = 0
      /\ \A k \in 1 .. Len(recent) : recent'[k] = recent[k] /\ recent[k] \in Nat
  BY <1>0
<1>2. \A j, k \in 1 .. Len(recent') : j <= k => recent'[j] >= recent'[k]
  BY <1>0, <1>1 DEF WindowInv
<1>3. CASE RateLimit = 0
  <2>1. start' = start /\ count' = count
    BY <1>0, <1>3 DEF Count
  <2>2. Accepted = 0 /\ Accepted' = 0
    BY <1>0, <1>3, <2>1 DEF Accepted
  <2> QED
    BY <1>0, <1>1, <1>2, <2>1, <2>2 DEF WindowInv
<1>4. CASE RateLimit > 0 /\ start >= Window
  <2>1. start' = 0 /\ count' = 1
    BY <1>4 DEF Count, NextWindow, Counted
  <2>2. Accepted' = 1
    BY <1>0, <1>4, <2>1 DEF Accepted
  <2> QED
    BY <1>0, <1>1, <1>2, <2>1, <2>2 DEF WindowInv
<1>5. CASE RateLimit > 0 /\ start < Window
  <2>1. start' = start /\ count' = count + 1 /\ count + 1 <= RateLimit
    BY <1>0, <1>5 DEF Count, NextWindow, Counted, Limited
  <2>2. Accepted = count /\ Accepted' = count + 1
    BY <1>0, <2>1 DEF Accepted
  <2> QED
    BY <1>0, <1>1, <1>2, <1>5, <2>1, <2>2 DEF WindowInv
<1> QED
  BY <1>0, <1>3, <1>4, <1>5

\* A refused request is not counted, or counted beyond the limit.
LEMMA RefuseKeepsWindow ==
  ASSUME WindowInv, NEW r \in Requests, Refuse(r)
  PROVE  WindowInv'
<1>0. /\ RateLimit \in Nat /\ Window \in Nat \ {0} /\ start \in Nat /\ count \in Nat
      /\ recent' = recent
  BY ControlAssumption DEF WindowInv, Refuse
<1>1. CASE UNCHANGED <<start, count>>
  BY <1>0, <1>1 DEF WindowInv, Accepted
<1>2. CASE ~UNCHANGED <<start, count>>
  <2>1. Limited(r) /\ RateLimit > 0
    BY <1>2 DEF Refuse, Count, Counted
  <2>2. start < Window /\ count >= RateLimit
    BY <1>0, <2>1 DEF Limited, NextWindow
  <2>3. start' = start /\ count' = count + 1
    BY <1>0, <1>2, <2>2 DEF Refuse, Count, NextWindow
  <2>4. Accepted' = Accepted
    BY <1>0, <2>2, <2>3 DEF Accepted
  <2> QED
    BY <1>0, <2>3, <2>4 DEF WindowInv
<1> QED
  BY <1>1, <1>2

\* The first k numbers are k.
LEMMA InitialNumbers ==
  ASSUME NEW k \in Nat
  PROVE  IsFiniteSet(1 .. k) /\ Cardinality(1 .. k) = k
<1>1. 1 \in Int /\ k \in Int
  OBVIOUS
<1>2. IsFiniteSet(1 .. k) /\ Cardinality(1 .. k) = IF 1 > k THEN 0 ELSE k - 1 + 1
  BY <1>1, FS_Interval
<1> QED
  BY <1>2

\* A function on the first m numbers is a sequence of length m.
LEMMA FunctionSeq ==
  ASSUME NEW S, NEW m \in Nat, NEW f \in [1 .. m -> S]
  PROVE  f \in Seq(S) /\ Len(f) = m
OBVIOUS

\* What Clock drops from the history is older than any window.
LEMMA ClockKeepsWindow == ASSUME WindowInv, Clock PROVE WindowInv'
<1> DEFINE n == Len(recent)
           g == Cardinality(Passed)
<1>0. /\ RateLimit \in Nat /\ Window \in Nat \ {0} /\ start \in 0 .. Window /\ count \in Nat
      /\ n \in Nat /\ recent \in Seq(0 .. Window - 1) /\ DOMAIN recent = 1 .. n
      /\ \A k \in 1 .. n : recent[k] \in 0 .. Window - 1
  BY ControlAssumption DEF WindowInv
<1>1. Passed \subseteq 1 .. n
  BY <1>0 DEF Passed
<1>i. \A k \in Nat : IsFiniteSet(1 .. k) /\ Cardinality(1 .. k) = k
  BY InitialNumbers
<1>2. g \in Nat /\ g <= n /\ IsFiniteSet(Passed)
  <2>1. n \in Nat /\ IsFiniteSet(1 .. n) /\ Cardinality(1 .. n) = n
    BY <1>0, <1>i
  <2> HIDE DEF n
  <2>2. IsFiniteSet(Passed) /\ Cardinality(Passed) <= n
    BY <1>1, <2>1, FS_Subset
  <2> QED
    BY <2>2, FS_CardinalityType
<1>3. ASSUME NEW k \in 1 .. n, k > g PROVE recent[k] + 1 < Window
  <2> SUFFICES ASSUME ~(recent[k] + 1 < Window) PROVE FALSE
    OBVIOUS
  <2>1. 1 .. k \subseteq Passed
    BY <1>0 DEF Passed, WindowInv
  <2>2. Cardinality(1 .. k) = k /\ k \in Nat
    BY <1>0, <1>i
  <2>3. Cardinality(1 .. k) <= g
    BY <1>2, <2>1, FS_Subset
  <2> QED
    BY <1>2, <1>3, <2>2, <2>3
<1>4. recent' = [k \in 1 .. n - g |-> recent[k + g] + 1]
  BY DEF Clock, Left
<1> HIDE DEF n, g
<1>5. \A k \in 1 .. n - g : recent[k + g] + 1 \in 0 .. Window - 1
  BY <1>0, <1>2, <1>3
<1>6. n - g \in Nat
  BY <1>0, <1>2
<1>f. \A k \in 1 .. n - g : /\ k + g \in 1 .. n /\ recent[k + g] \in Int
                           /\ recent'[k] = recent[k + g] + 1
  BY <1>0, <1>2, <1>4
<1>7. recent' \in Seq(0 .. Window - 1) /\ Len(recent') = n - g
  <2>1. recent' \in [1 .. n - g -> 0 .. Window - 1]
    BY <1>4, <1>5
  <2> QED
    BY <1>6, <2>1, FunctionSeq
<1>8. \A j, k \in 1 .. n - g : j <= k => recent'[j] >= recent'[k]
  <2> SUFFICES ASSUME NEW j \in 1 .. n - g, NEW k \in 1 .. n - g, j <= k
               PROVE  recent[j + g] >= recent[k + g]
    BY <1>f
  <2>1. j + g \in 1 .. n /\ k + g \in 1 .. n /\ j + g <= k + g
    BY <1>0, <1>2
  <2> QED
    BY <2>1 DEF WindowInv, n
<1>9. start' = Older(start, Window) /\ count' = count
  BY DEF Clock
<1>10. ASSUME start' < Window
       PROVE  /\ Accepted' <= n - g
              /\ \A k \in 1 .. n - g : k > n - g - Accepted' => recent'[k] <= start'
  <2>1. start' = start + 1 /\ start < Window /\ Accepted' = Accepted /\ Accepted \in Nat
    BY <1>0, <1>9, <1>10 DEF Older, Accepted
  <2>2. /\ Accepted <= n
        /\ \A k \in 1 .. n : k > n - Accepted => recent[k] <= start
    BY <2>1 DEF WindowInv, n
  <2>3. Passed \subseteq 1 .. n - Accepted
    BY <1>0, <1>1, <1>10, <2>1, <2>2 DEF Passed
  <2>4. /\ IsFiniteSet(1 .. n - Accepted)
        /\ Cardinality(1 .. n - Accepted) = n - Accepted
    BY <1>0, <1>i, <2>1, <2>2
  <2>5. g <= n - Accepted
    BY <2>3, <2>4, FS_Subset DEF g
  <2>6. ASSUME NEW k \in 1 .. n - g, k > n - g - Accepted PROVE recent'[k] <= start'
    <3>1. k + g \in 1 .. n /\ k + g > n - Accepted
      BY <1>0, <1>2, <2>1, <2>6
    <3> QED
      BY <1>0, <1>4, <2>1, <2>2, <3>1
  <2> QED
    BY <1>0, <1>2, <2>1, <2>5, <2>6
<1>11. start' \in 0 .. Window
  BY <1>0, <1>9 DEF Older
<1> QED
  BY <1>0, <1>7, <1>8, <1>9, <1>10, <1>11 DEF WindowInv

\* What does not touch the API keeps the window.
LEMMA OthersKeepWindow == ASSUME WindowInv, UNCHANGED apiVars PROVE WindowInv'
BY DEF apiVars, WindowInv, Accepted

\* A window that is not running, with an empty history.
LEMMA FreshWindow ==
  ASSUME start = Window, count = 0, recent = <<>>
  PROVE  WindowInv
BY ControlAssumption DEF WindowInv

\* Every step keeps the window and its history in agreement.
LEMMA WindowStep == WindowInv /\ [Next]_vars => WindowInv'
<1> SUFFICES ASSUME WindowInv, [Next]_vars PROVE WindowInv'
  OBVIOUS
<1>1. CASE UNCHANGED vars
  BY <1>1, OthersKeepWindow DEF vars, apiVars
<1>2. CASE BotStep
  BY <1>2, OthersKeepWindow DEF BotStep, Destructive, Tap, BotSets
<1>3. CASE Answer
  BY <1>3, AnswerKeepsWindow DEF Answer
<1>4. ASSUME NEW d \in Thread, NEW raw \in Raw, ApiSets(d, raw) PROVE WindowInv'
  BY <1>4, AnswerKeepsWindow DEF ApiSets
<1>5. ASSUME NEW d \in Door, NEW fails \in BOOLEAN, Upsert(d, fails) PROVE WindowInv'
  BY <1>5, OthersKeepWindow DEF Upsert
<1>6. CASE Restart
  <2>1. start' = Window /\ count' = 0 /\ recent' = <<>>
    BY <1>6 DEF Restart
  <2> QED
    BY <2>1, ControlAssumption DEF WindowInv
<1> QED
  BY <1>1, <1>2, <1>3, <1>4, <1>5, <1>6, RefuseKeepsWindow, ClockKeepsWindow
     DEF Next, ApiStep

\* The API's count and the history of what it accepted agree.
THEOREM WindowCorrect == Spec => []WindowInv
<1>1. Init => WindowInv
  BY FreshWindow DEF Init
<1> QED
  BY <1>1, WindowStep, PTL DEF Spec

(***************************************************************************)
(* _auth_guard refuses a good request only when RateLimit good ones were   *)
(* accepted within the Window before it, however many bad ones there were: *)
(* those are refused before _rate_limited counts them.                     *)
(***************************************************************************)
THEOREM RefusedOnlyWhenFullCorrect == Spec => []RefusedOnlyWhenFull
<1>1. WindowInv => RefusedOnlyWhenFull
  <2> SUFFICES ASSUME WindowInv, Limited("good") PROVE Len(recent) >= RateLimit
    BY DEF RefusedOnlyWhenFull
  <2>1. RateLimit \in Nat /\ count \in Nat /\ Len(recent) \in Nat
    BY ControlAssumption DEF WindowInv
  <2>2. start < Window /\ count >= RateLimit
    BY <2>1, ControlAssumption DEF Limited, NextWindow, WindowInv
  <2>3. Accepted = RateLimit
    BY <2>1, <2>2 DEF Accepted
  <2> QED
    BY <2>1, <2>2, <2>3 DEF WindowInv
<1> QED
  BY <1>1, WindowCorrect, PTL

-----------------------------------------------------------------------------
(* The setting                                                             *)

\* What is known while an update is between its two steps.
SettingInv ==
  /\ live \in Valid /\ stored \in Raw \cup {"none"}
  /\ saving \in [Door -> Valid \cup {"none"}]
  /\ torn \in BOOLEAN
  /\ ~torn => \A d \in Door : saving[d] # "none" =>
                /\ live = saving[d]
                /\ \A e \in Door \ {d} : saving[e] = "none"
  /\ LiveIsStored

\* apply_all takes a stored value that parses as it is.
LEMMA StoredIsApplied == ASSUME NEW raw \in Valid PROVE apply_all(raw) = raw
BY ControlAssumption DEF apply_all, coerce

\* Setting the live attribute begins an update, or changes nothing.
LEMMA ApplyKeeps ==
  ASSUME SettingInv, NEW d \in Door, NEW raw \in Raw, Apply(d, raw)
  PROVE  SettingInv'
<1>1. CASE coerce(raw) = "none"
  BY <1>1 DEF Apply, SettingInv, LiveIsStored, apply_all, coerce
<1>2. CASE coerce(raw) # "none"
  <2>1. raw \in Valid /\ raw # "none"
    BY <1>2, ControlAssumption DEF coerce
  <2>2. /\ live' = raw /\ stored' = stored
        /\ saving' = [saving EXCEPT ![d] = raw]
        /\ torn' = (torn \/ \E e \in Door \ {d} : saving[e] # "none")
    BY <1>2 DEF Apply
  <2>3. saving' \in [Door -> Valid \cup {"none"}] /\ saving'[d] = raw
    BY <2>1, <2>2 DEF SettingInv
  <2>4. \A e \in Door \ {d} : saving'[e] = saving[e]
    BY <2>2 DEF SettingInv
  <2>5. stored' \in Raw \cup {"none"} /\ torn' \in BOOLEAN
    BY <2>2 DEF SettingInv
  <2>6. ASSUME ~torn' PROVE \A e \in Door \ {d} : saving'[e] = "none"
    BY <2>2, <2>4, <2>6
  <2>7. LiveIsStored'
    BY <2>1, <2>3 DEF LiveIsStored
  <2> QED BY <2>1, <2>2, <2>3, <2>4, <2>5, <2>6, <2>7 DEF SettingInv
<1> QED BY <1>1, <1>2

\* Storing the value ends the update.
LEMMA UpsertKeeps ==
  ASSUME SettingInv, NEW d \in Door, NEW fails \in BOOLEAN, Upsert(d, fails)
  PROVE  SettingInv'
<1>1. saving' = [saving EXCEPT ![d] = "none"] /\ live' = live /\ saving[d] \in Valid
  BY DEF Upsert, SettingInv
<1>2. saving' \in [Door -> Valid \cup {"none"}]
  BY <1>1 DEF SettingInv
<1>3. CASE fails
  BY <1>1, <1>2, <1>3 DEF Upsert, SettingInv, LiveIsStored
<1>4. CASE ~fails
  <2>1. stored' = saving[d] /\ torn' = torn
    BY <1>4 DEF Upsert
  <2>2. apply_all(stored') = saving[d] /\ stored' \in Raw
    BY <1>1, <2>1, StoredIsApplied, ControlAssumption
  <2>3. ASSUME ~torn' PROVE live' = saving[d] /\ \A e \in Door : saving'[e] = "none"
    BY <1>1, <2>1, <2>3 DEF Upsert, SettingInv
  <2>4. LiveIsStored'
    BY <2>2, <2>3 DEF LiveIsStored, apply_all, coerce
  <2>5. live' \in Valid /\ torn' \in BOOLEAN /\ stored' \in Raw \cup {"none"}
    BY <1>1, <2>1, <2>2 DEF SettingInv
  <2> QED BY <1>2, <2>3, <2>4, <2>5 DEF SettingInv
<1> QED BY <1>3, <1>4

\* What does not touch the setting keeps the invariant.
LEMMA OthersKeep ==
  ASSUME SettingInv, UNCHANGED settingVars
  PROVE  SettingInv'
BY DEF SettingInv, settingVars, LiveIsStored, apply_all, coerce

\* A restart makes the live value of the stored row.
LEMMA RestartKeeps == ASSUME SettingInv, Restart PROVE SettingInv'
<1>1. /\ live' = apply_all(stored) /\ stored' = stored /\ torn' = FALSE
      /\ saving' = [d \in Door |-> "none"]
  BY DEF Restart
<1>2. live' \in Valid
  BY <1>1, ControlAssumption DEF apply_all, coerce, SettingInv
<1>3. LiveIsStored'
  BY <1>1 DEF LiveIsStored, apply_all, coerce
<1> QED BY <1>1, <1>2, <1>3 DEF SettingInv

\* Every step keeps what is known of the setting.
THEOREM SettingCorrect == Spec => []SettingInv
<1>1. Init => SettingInv
  BY ControlAssumption DEF Init, SettingInv, LiveIsStored, apply_all, coerce
<1>2. SettingInv /\ [Next]_vars => SettingInv'
  <2> SUFFICES ASSUME SettingInv, [Next]_vars PROVE SettingInv'
    OBVIOUS
  <2>1. CASE UNCHANGED vars
    BY <2>1, OthersKeep DEF vars, settingVars
  <2>2. ASSUME NEW t \in Token, NEW answer \in {"yes", "no"}, Tap(t, answer)
        PROVE  SettingInv'
    BY <2>2, OthersKeep DEF Tap
  <2>3. CASE Destructive
    BY <2>3, OthersKeep DEF Destructive
  <2>4. ASSUME NEW raw \in Raw, BotSets(raw) PROVE SettingInv'
    BY <2>4, ApplyKeeps DEF BotSets, Door
  <2>5. ASSUME NEW r \in Requests, Refuse(r) PROVE SettingInv'
    BY <2>5, OthersKeep DEF Refuse
  <2>6. CASE Answer
    BY <2>6, OthersKeep DEF Answer
  <2>7. ASSUME NEW d \in Thread, NEW raw \in Raw, ApiSets(d, raw) PROVE SettingInv'
    BY <2>7, ApplyKeeps DEF ApiSets, Door
  <2>8. CASE Restart
    BY <2>8, RestartKeeps
  <2>9. CASE Clock
    BY <2>9, OthersKeep DEF Clock
  <2>10. ASSUME NEW d \in Door, NEW fails \in BOOLEAN, Upsert(d, fails) PROVE SettingInv'
    BY <2>10, UpsertKeeps
  <2> QED BY <2>1, <2>2, <2>3, <2>4, <2>5, <2>6, <2>7, <2>8, <2>9, <2>10
          DEF Next, BotStep, ApiStep
<1> QED BY <1>1, <1>2, PTL DEF Spec

(***************************************************************************)
(* CommandRouter._update_setting applies and then stores: unless a write   *)
(* failed or two updates overlapped, a restart brings back what is live.   *)
(***************************************************************************)
THEOREM LiveIsStoredCorrect == Spec => []LiveIsStored
<1>1. SettingInv => LiveIsStored
  BY DEF SettingInv
<1> QED
  BY <1>1, SettingCorrect, PTL

FaultsOK == faults \in 0 .. MaxFaults

\* No more faults happen than are allowed.
LEMMA FaultsBounded == Spec => []FaultsOK
<1>0. MaxFaults \in Nat
  BY ControlAssumption
<1>1. Init => FaultsOK
  BY <1>0 DEF Init, FaultsOK
<1>2. FaultsOK /\ [Next]_vars => FaultsOK'
  <2>1. [Next]_vars => UNCHANGED faults \/ Fault
    <3>1. \A d \in Door, fails \in BOOLEAN : Upsert(d, fails) => UNCHANGED faults \/ Fault
      BY DEF Upsert
    <3> QED
      BY <3>1 DEF Next, BotStep, ApiStep, Destructive, Tap, BotSets, Refuse, Answer,
                  ApiSets, Restart, Clock, vars
  <2> QED
    BY <1>0, <2>1 DEF Fault, FaultsOK
<1> QED
  BY <1>1, <1>2, PTL DEF Spec

\* Every variable keeps its type; the store keeps its capacity.
THEOREM TypeCorrect == Spec => []TypeOK
<1>1. StoreInv => ran \in 0 .. MaxTokens
  BY TokenFinite DEF StoreInv, Said
<1>2. StoreInv /\ WindowInv /\ SettingInv /\ FaultsOK => TypeOK
  <2> SUFFICES ASSUME StoreInv, WindowInv, SettingInv, FaultsOK
               PROVE  TypeOK
    OBVIOUS
  <2>1. saving \in [Door -> Raw \cup {"none"}]
    BY ControlAssumption DEF SettingInv
  <2> QED
    BY <1>1, <2>1 DEF StoreInv, StoreTypeOK, WindowInv, SettingInv, FaultsOK, TypeOK
<1> QED
  BY <1>2, StoreCorrect, WindowCorrect, SettingCorrect, FaultsBounded, PTL
=============================================================================
