----------------------------- MODULE AgentSession -----------------------------
(***************************************************************************)
(* ClaudeAgentSDKTool.run_sync: one paid call of the Developer or the      *)
(* Tester.  A call resumes the latest session of its milestone and role if *)
(* there is one, and once afresh if that session cannot be resumed.        *)
(***************************************************************************)
EXTENDS Steering

\* What the agent does to the workspace: nothing, edits, or (it has a shell)
\* a commit of its own.
Edits == {"none", "files", "commit"}

\* Whatever the tree had passed, it has to pass again.
GateAfter(e) == IF e = "none" THEN att.gate ELSE {}

Edit(e) ==
  /\ dirty' = CASE e = "none" -> dirty [] e = "files" -> TRUE [] e = "commit" -> FALSE
  /\ headOk' = (headOk /\ e # "commit")
  /\ remote' = IF e = "commit" /\ remote = "new" THEN "old" ELSE remote
  /\ UNCHANGED <<exists, wired, recorded, announced>>

Ledger_needs_a_cost(tokens, exact) ==
  /\ spent' = IF exact THEN spent + tokens ELSE spent
  /\ unledgered' = IF exact THEN unledgered ELSE unledgered + tokens
  /\ UNCHANGED faults

\* TokenLogRepo.record: one more line of the ledger.
log(tokens) == spent' = spent + tokens

\* _ledger_usage: with the exact cost of a ResultMessage or, when the stream
\* dropped, with the usage seen on it.  A write that fails is swallowed.
Ledger(tokens, exact) ==
  \/ log(tokens) /\ UNCHANGED <<unledgered, faults>>
  \/ Fault /\ tokens > 0 /\ unledgered' = unledgered + tokens /\ UNCHANGED spent

\* Tokens of a call that ended in an exception are in no ledger line; at worst
\* it had used all a call can.
Unledgered ==
  /\ unledgered' = unledgered + MaxCall
  /\ UNCHANGED spent

\* MilestoneSessionRepo: a row for the session that ended, and the newest row of
\* the milestone and role.
record(role) == latest' = [latest EXCEPT ![role] = "alive"]

latest_for(role) == latest[role]

\* _arun: latest_for and the first build_options, which pulls the notes.
OpenCall ==
  LET role == SdkRoleOf(att.stage) IN
  /\ pc = "call"
  /\ att' = [att EXCEPT !.resume = latest_for(role)]
  /\ pull_unconsumed(role)
  /\ Goto("session")
  /\ UNCHANGED <<latest, ledgerVars, dayOver, treeVars, repoVars, rowVars, faults>>

\* The CLI starts the agent, fresh or on a session it still has.
StartSession ==
  /\ pc = "session" /\ att.resume # "dead"
  /\ HandOver(SdkRoleOf(att.stage))
  /\ Goto("stream")
  /\ UNCHANGED <<latest, ledgerVars, dayOver, treeVars, repoVars, rowVars, att, faults>>

\* `claude --resume` finds no conversation and exits.
ResumeFails_raising ==
  /\ pc = "session" /\ att.resume = "dead"
  /\ hand' = {}
  /\ Goto("raised")
  /\ UNCHANGED <<target, delivered, told, hook, latest, ledgerVars, dayOver,
                 treeVars, repoVars, rowVars, att, faults>>

ResumeFails ==
  /\ pc = "session" /\ att.resume = "dead"
  /\ hand' = {}
  /\ Goto("retry")
  /\ UNCHANGED <<target, delivered, told, hook, latest, ledgerVars, dayOver,
                 treeVars, repoVars, rowVars, att, faults>>

\* The CLI process dies: a resumed call is tried afresh, a fresh one raises.
SessionDies(e) ==
  /\ pc = "stream"
  /\ Fault
  /\ Unledgered
  /\ Edit(e)
  /\ HooksDie
  /\ Goto(IF att.resume = "none" THEN "raised" ELSE "retry")
  /\ att' = [att EXCEPT !.gate = GateAfter(e)]
  /\ UNCHANGED <<latest, dayOver, rowVars>>

FreshRetry_resuming_again ==
  /\ pc = "retry"
  /\ pull_unconsumed(SdkRoleOf(att.stage))
  /\ Goto("session")
  /\ UNCHANGED <<latest, ledgerVars, dayOver, treeVars, repoVars, rowVars, att, faults>>

\* The except branch of _arun: the options are built again, so the notes are
\* pulled again; those of the first try count as delivered and do not return.
FreshRetry ==
  /\ pc = "retry"
  /\ pull_unconsumed(SdkRoleOf(att.stage))
  /\ att' = [att EXCEPT !.resume = "none"]
  /\ Goto("session")
  /\ UNCHANGED <<latest, ledgerVars, dayOver, treeVars, repoVars, rowVars, faults>>

\* What the crew does next with a call that succeeded or failed.
AfterCall(success, e) ==
  /\ Goto(IF ~success THEN "failed"
          ELSE IF att.stage = "developer" THEN "budget" ELSE "ci")
  /\ att' = [att EXCEPT !.gate = GateAfter(e),
             !.stage = IF success /\ att.stage = "developer" THEN "tester" ELSE @]

(***************************************************************************)
(* A ResultMessage: the session row and the ledger line are written, also  *)
(* when the result is an error (turns or budget used up).                  *)
(***************************************************************************)
SessionEnds(success, tokens, e) ==
  /\ pc = "stream" /\ HooksQuiet
  /\ record(SdkRoleOf(att.stage))
  /\ Ledger(tokens, TRUE)
  /\ Edit(e)
  /\ AfterCall(success, e)
  /\ UNCHANGED <<noteVars, dayOver, rowVars>>

\* _no_result_outcome: the stream closed before a ResultMessage; a session id
\* is known if the call was resumed or a message was seen.
StreamDrops(seen, tokens, e) ==
  /\ pc = "stream"
  /\ HooksDie
  /\ IF seen \/ att.resume # "none" THEN record(SdkRoleOf(att.stage))
     ELSE UNCHANGED latest
  /\ Ledger(tokens, FALSE)
  /\ Edit(e)
  /\ AfterCall(FALSE, e)
  /\ UNCHANGED <<dayOver, rowVars>>

SessionStep ==
  \/ OpenCall \/ StartSession \/ ResumeFails \/ FreshRetry
  \/ \E tokens \in 0 .. MaxCall, e \in Edits :
       \/ \E success \in BOOLEAN : SessionEnds(success, tokens, e)
       \/ \E seen \in BOOLEAN : StreamDrops(seen, tokens, e)
=============================================================================
