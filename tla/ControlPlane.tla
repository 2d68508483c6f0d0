---------------------------- MODULE ControlPlane ----------------------------
(***************************************************************************)
(* The operator's two front doors and what they share: the Telegram bot    *)
(* with its confirmations, the API with its guard, and the router behind   *)
(* both, of which the settings command is followed step by step.  The bot  *)
(* handles one update at a time; the API runs every dispatch in a thread.  *)
(* Times are ages: they grow with Clock and stop where nothing tells them  *)
(* apart any more.                                                         *)
(***************************************************************************)
EXTENDS Integers, Sequences, FiniteSets

CONSTANTS
  MaxTokens,   \* bound on confirmations asked for; a token is its number
  MaxPending,  \* max_entries of the bot's store
  Ttl,         \* ttl_seconds
  Thread,      \* API threads
  RateLimit,   \* api_rate_limit_per_min; 0 disables
  Window,      \* the 60 seconds
  Raw,         \* texts an operator may send as a setting's value
  Valid,       \* those among them that parse and are in range
  Env,         \* the value the environment gives the setting
  MaxFaults    \* bound on failed writes and restarts

ASSUME ControlAssumption ==
  /\ {MaxTokens, Ttl, RateLimit, MaxFaults} \subseteq Nat
  /\ {MaxPending, Window} \subseteq Nat \ {0}
  /\ Valid \subseteq Raw /\ Env \in Valid
  /\ "none" \notin Raw /\ "bot" \notin Thread

Token == 1 .. MaxTokens
Door == Thread \cup {"bot"}
Requests == {"foreign", "no_token", "good"}

VARIABLES
  pending,  \* the bot's store: the tokens in it; a greater one is newer
  status,   \* what became of each confirmation; "lost" by a restart
  age,      \* time since it was asked for
  ran,      \* destructive commands the bot has dispatched
  start,    \* time since the API's window began
  count,    \* requests counted in it
  recent,   \* history: ages of the accepted requests of the last Window, oldest first
  live,     \* the setting in the Settings object
  stored,   \* its row in settings_overrides, or "none"
  saving,   \* the value each thread has applied and is about to store
  torn,     \* history: since the last restart, two updates overlapped or a write failed
  faults

botVars == <<pending, status, age, ran>>
apiVars == <<start, count, recent>>
settingVars == <<live, stored, saving, torn>>
vars == <<botVars, apiVars, settingVars, faults>>

TypeOK ==
  /\ pending \subseteq Token /\ Cardinality(pending) <= MaxPending
  /\ status \in [Token -> {"unasked", "open", "yes", "no", "expired", "lost"}]
  /\ age \in [Token -> 0 .. Ttl + 1]
  /\ ran \in 0 .. MaxTokens
  /\ start \in 0 .. Window /\ count \in Nat
  /\ recent \in Seq(0 .. Window - 1)
  /\ live \in Valid /\ stored \in Raw \cup {"none"}
  /\ saving \in [Door -> Raw \cup {"none"}]
  /\ torn \in BOOLEAN /\ faults \in 0 .. MaxFaults

coerce(raw) == IF raw \in Valid THEN raw ELSE "none"

\* apply_all at start-up: a row that does not parse is skipped.
apply_all(row) == IF row \in Raw /\ coerce(row) # "none" THEN row ELSE Env

Init ==
  /\ pending = {} /\ status = [t \in Token |-> "unasked"]
  /\ age = [t \in Token |-> 0] /\ ran = 0
  /\ start = Window /\ count = 0 /\ recent = <<>>
  /\ stored \in Raw \cup {"none"} /\ live = apply_all(stored)
  /\ saving = [d \in Door |-> "none"] /\ torn = FALSE
  /\ faults = 0

Fault == faults < MaxFaults /\ faults' = faults + 1

-----------------------------------------------------------------------------
(***************************************************************************)
(* _PendingConfirmations: every access first drops what has expired; the   *)
(* store holds its newest MaxPending entries.                              *)
(***************************************************************************)
Prune(S) == {t \in S : age[t] <= Ttl}

Newer(S, t) == {u \in S : u > t}

Evict_newest(S) == {t \in S : Cardinality({u \in S : u < t}) < MaxPending}

Evict_one_late(S) == {t \in S : Cardinality(Newer(S, t)) <= MaxPending}

Evict(S) == {t \in S : Cardinality(Newer(S, t)) < MaxPending}

Popped_kept(t) == Prune(pending)

Popped(t) == Prune(pending) \ {t}

Asked == {t \in Token : status[t] # "unasked"}

BotFree == saving["bot"] = "none"

(***************************************************************************)
(* A destructive command is echoed with [Yes][No] whatever the parser made *)
(* of its "confirmed" field; it is stashed before the message is sent.     *)
(***************************************************************************)
Destructive ==
  /\ BotFree
  /\ \E t \in Token :
       /\ status[t] = "unasked" /\ \A u \in 1 .. t - 1 : status[u] # "unasked"
       /\ pending' = Evict(Prune(pending) \cup {t})
       /\ status' = [status EXCEPT ![t] = "open"]
  /\ UNCHANGED <<age, ran, apiVars, settingVars, faults>>

\* A tap on a button: the buttons of old messages stay where they are.
Tap(t, answer) ==
  /\ BotFree /\ t \in Asked
  /\ pending' = Popped(t)
  /\ LET found == t \in Prune(pending) IN
     /\ ran' = IF found /\ answer = "yes" THEN ran + 1 ELSE ran
     /\ status' = IF status[t] # "open" THEN status
                  ELSE [status EXCEPT ![t] = IF found \/ answer = "no" THEN answer
                                             ELSE "expired"]
  /\ UNCHANGED <<age, apiVars, settingVars, faults>>

-----------------------------------------------------------------------------
(***************************************************************************)
(* The API's guard: a request from another origin or with the wrong token  *)
(* is refused before it is counted; the rest share a fixed window.         *)
(***************************************************************************)
NextWindow == IF start >= Window THEN <<0, 0>> ELSE <<start, count>>

Counted_always(r) == TRUE

Counted(r) == r = "good"

Limited(r) == RateLimit > 0 /\ Counted(r) /\ NextWindow[2] + 1 > RateLimit

Count(r) ==
  IF RateLimit > 0 /\ Counted(r)
    THEN start' = NextWindow[1] /\ count' = NextWindow[2] + 1
    ELSE UNCHANGED <<start, count>>

Refuse(r) ==
  /\ r # "good" \/ Limited(r)
  /\ count <= RateLimit \* more refusals in a window change nothing
  /\ Count(r)
  /\ UNCHANGED <<recent, botVars, settingVars, faults>>

\* Accepted, and answered without a write: a malformed or invalid body, a
\* destructive command that is not confirmed, or one of the other commands.
Answer ==
  /\ ~Limited("good")
  /\ Count("good")
  /\ recent' = Append(recent, 0)
  /\ UNCHANGED <<botVars, settingVars, faults>>

-----------------------------------------------------------------------------
(***************************************************************************)
(* UpdateSetting: validate, set the live attribute, then store the text.   *)
(***************************************************************************)
Apply_after_storing(d, raw) ==
  /\ stored' = raw
  /\ live' = IF coerce(raw) = "none" THEN live ELSE raw
  /\ UNCHANGED <<saving, torn>>

Apply(d, raw) ==
  /\ saving[d] = "none"
  /\ IF coerce(raw) = "none" THEN UNCHANGED <<live, saving, torn>>
     ELSE /\ live' = raw
          /\ saving' = [saving EXCEPT ![d] = raw]
          /\ torn' = (torn \/ \E e \in Door \ {d} : saving[e] # "none")
  /\ UNCHANGED stored

BotSets(raw) ==
  /\ BotFree
  /\ Apply("bot", raw)
  /\ UNCHANGED <<botVars, apiVars, faults>>

ApiSets(d, raw) ==
  /\ ~Limited("good")
  /\ Count("good")
  /\ recent' = Append(recent, 0)
  /\ Apply(d, raw)
  /\ UNCHANGED <<botVars, faults>>

Upsert(d, fails) ==
  /\ saving[d] # "none"
  /\ IF fails THEN Fault /\ torn' = TRUE /\ UNCHANGED stored
     ELSE stored' = saving[d] /\ UNCHANGED <<torn, faults>>
  /\ saving' = [saving EXCEPT ![d] = "none"]
  /\ UNCHANGED <<botVars, apiVars, live>>

-----------------------------------------------------------------------------
\* The store, the window and the applied values are in memory.
Restart ==
  /\ Fault
  /\ pending' = {}
  /\ status' = [t \in Token |-> IF status[t] = "open" THEN "lost" ELSE status[t]]
  /\ start' = Window /\ count' = 0 /\ recent' = <<>>
  /\ live' = apply_all(stored)
  /\ saving' = [d \in Door |-> "none"] /\ torn' = FALSE
  /\ UNCHANGED <<age, ran, stored>>

\* What happened Window ago or earlier is dropped from the history.
Passed == {k \in DOMAIN recent : recent[k] + 1 >= Window}

Left == [k \in 1 .. Len(recent) - Cardinality(Passed) |-> recent[k + Cardinality(Passed)] + 1]

Older(n, top) == IF n < top THEN n + 1 ELSE top

Clock ==
  /\ age' = [t \in Token |-> IF status[t] = "unasked" THEN 0 ELSE Older(age[t], Ttl + 1)]
  /\ start' = Older(start, Window)
  /\ recent' = Left
  /\ UNCHANGED <<pending, status, ran, count, settingVars, faults>>

BotStep ==
  \/ Destructive
  \/ \E t \in Token, answer \in {"yes", "no"} : Tap(t, answer)
  \/ \E raw \in Raw : BotSets(raw)

ApiStep ==
  \/ \E r \in Requests : Refuse(r)
  \/ Answer
  \/ \E d \in Thread, raw \in Raw : ApiSets(d, raw)

Next ==
  \/ BotStep \/ ApiStep \/ Restart \/ Clock
  \/ \E d \in Door, fails \in BOOLEAN : Upsert(d, fails)

Spec == Init /\ [][Next]_vars

-----------------------------------------------------------------------------
(***************************************************************************)
(* The bot runs a destructive command only in the step of a first Yes, on  *)
(* a confirmation that is younger than its time to live, was not declined  *)
(* and was asked for by this process; tapping again, tapping the buttons   *)
(* of an old message run nothing.                                          *)
(***************************************************************************)
RunOnce ==
  [][ran' # ran =>
       /\ ran' = ran + 1
       /\ \E t \in Token : /\ status[t] = "open" /\ age[t] <= Ttl
                           /\ status' = [status EXCEPT ![t] = "yes"]]_vars

(***************************************************************************)
(* The confirmation just asked for can be answered: only its time to live, *)
(* MaxPending newer ones or a restart take it away.                        *)
(***************************************************************************)
Answerable ==
  \A t \in Token : status[t] = "open" /\ age[t] <= Ttl =>
    \/ t \in pending
    \/ Cardinality(Newer(Asked, t)) >= MaxPending

(***************************************************************************)
(* "a flood of rejected calls can't exhaust the operator's own window": a  *)
(* good request is refused only if RateLimit good ones were accepted in    *)
(* the Window before it.                                                   *)
(***************************************************************************)
RefusedOnlyWhenFull ==
  Limited("good") => Len(recent) >= RateLimit

(***************************************************************************)
(* When no update is under way, the live setting is what a restart would   *)
(* make of the stored row: a refused value is in neither place, and only a *)
(* failed write or two updates at a time make them differ, until the next  *)
(* restart.                                                                *)
(***************************************************************************)
LiveIsStored ==
  (\A d \in Door : saving[d] = "none") /\ ~torn => live = apply_all(stored)
=============================================================================
