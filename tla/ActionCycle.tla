---------------------------- MODULE ActionCycle ----------------------------
(***************************************************************************)
(* One run of the context-action workflow on a crash-durable effect        *)
(* journal, with the Minecraft environment as provider: a decision cycle   *)
(* turns its decision into one external action, and whatever dies in       *)
(* between, the next session of the run has to settle that action.         *)
(*   - the run session and its cycle (one thread; a session may fail, be   *)
(*     closed, or die with its process, and another one be opened)         *)
(*   - the durable journal of effect intents                               *)
(*   - the method's receipts of completed tasks                            *)
(*   - the bridge, a process of its own that executes actions against the  *)
(*     world and keeps a durable record of each; it outlives a crash of    *)
(*     the run's process                                                   *)
(*   - joint checkpoints, of which the action ledger matters here          *)
(*                                                                         *)
(* An intent is identified by its cycle and by the checkpoint the session  *)
(* stands on; the bridge and the method identify an action by its cycle.   *)
(* A step is one durable write, or a call that changes nothing durable.    *)
(* Digests are equal when what they digest is: an effect is the record of  *)
(* its certainty and of the call that produced it.  What an action does    *)
(* in the world is one event, performed; a restore that sets the world     *)
(* back does not undo the history kept here.  The bridge's record is a     *)
(* report: a handler says what it could observe, and may report either way *)
(* whether the action has taken effect, has not, or will after the report. *)
(***************************************************************************)
EXTENDS Integers, FiniteSets, Sequences

CONSTANTS
  Cycle,             \* decision cycles of the run
  None,
  MethodReconciles,  \* the method can prove a completion it committed
  MaxCheckpoints     \* bound: checkpoints captured

ASSUME CycleAssumption ==
  /\ IsFiniteSet(Cycle)
  /\ MethodReconciles \in BOOLEAN
  /\ MaxCheckpoints \in Nat

Anchor == 0..MaxCheckpoints      \* 0: the session was opened without a restore
Slot   == Cycle \X Anchor        \* identity of an effect intent

Certainty == {"CONFIRMED", "REJECTED", "NO_EFFECT", "POSSIBLE"}
Effect == [certainty : Certainty, verify : BOOLEAN, from : {"act", "handle"}]
Nonterminal == {"PREPARED", "RESULT_RECORDED", "RECONCILED"}
Phase == Nonterminal \cup {"CONSUMED", "NOT_APPLIED"}
Intent == [phase : Phase, effect : Effect \cup {None}]

Disposition == {"applied", "not_applied", "unknown"}
BridgeRecord == [anchor : Anchor, state : {"intent", "terminal"}, disposition : Disposition]

Verdict == {"verified", "rejected", "open"}

ASSUME NoneAssumption == None \notin Cycle \cup Effect \cup Intent \cup BridgeRecord \cup Verdict

VARIABLES
  journal,      \* effect intents, by slot
  committed,    \* cycles with a receipt of the method
  bridge,       \* the bridge's durable record of each action
  handler,      \* the action's handler in the bridge
  orphans,      \* handlers whose run process has died
  performed,    \* history: how often the action took effect in the world
  checkpoints,  \* snapshots of the ledger
  \* the session, gone with its process
  pc, cycle, anchor,
  ledger,       \* actions whose result this session has seen, and its verdict
  result        \* the effect receipt in hand

worldVars   == <<bridge, handler, orphans, performed>>
sessionVars == <<pc, cycle, anchor, ledger, result>>
vars == <<journal, committed, worldVars, checkpoints, sessionVars>>

NoLedger == [c \in Cycle |-> None]

Working == {"recover", "authorize", "dispatch", "acting", "received",
            "resolve", "reconcile", "complete", "consume", "checkpoint"}

Init ==
  /\ journal = [s \in Slot |-> None] /\ committed = {}
  /\ bridge = [c \in Cycle |-> None] /\ handler = [c \in Cycle |-> "none"]
  /\ orphans = {} /\ performed = [c \in Cycle |-> 0]
  /\ checkpoints = <<>>
  /\ pc = "closed" /\ cycle = None /\ anchor = 0
  /\ ledger = NoLedger /\ result = None

-----------------------------------------------------------------------------
(* The journal's transitions.                                              *)

slot == <<cycle, anchor>>

Unresolved == {s \in Slot : journal[s] # None /\ journal[s].phase \in Nonterminal}

ScopeClear(s) == Unresolved \subseteq {s}

Resolved(e) == e # None /\ ~e.verify /\ e.certainty # "POSSIBLE"

SetIntent(s, phase, effect) ==
  journal' = [journal EXCEPT ![s] = [phase |-> phase, effect |-> effect]]

\* Faulty variant of MayReconcile: only a recorded result can be reconciled.
MayReconcileRecorded(s, e) ==
  \/ journal[s].phase = "RESULT_RECORDED"
  \/ journal[s].phase = "RECONCILED" /\ journal[s].effect = e

\* effect_transition to RECONCILED.
MayReconcile(s, e) ==
  \/ journal[s].phase \in {"PREPARED", "RESULT_RECORDED"}
  \/ journal[s].phase = "RECONCILED" /\ journal[s].effect = e

\* not_applied_transition from a phase that is not terminal.
MayVoid(s, e) == /\ journal[s].phase \in Nonterminal
                 /\ Resolved(journal[s].effect) => journal[s].effect = e

\* consumed_transition.
MayConsume(s) == /\ journal[s].phase \in {"RESULT_RECORDED", "RECONCILED"}
                 /\ Resolved(journal[s].effect)
                 /\ journal[s].effect.certainty \in {"CONFIRMED", "REJECTED"}

-----------------------------------------------------------------------------
(* The bridge: records of actions, and the handlers that execute them.     *)

\* Faulty variant of SameRequest: an action is known by its id alone.
SameAction(c) == TRUE

\* The request digest covers the checkpoint the session stands on.
SameRequest(c) == bridge[c].anchor = anchor

\* Faulty variant of Proof: an action whose end is not recorded did not happen.
ProofOfAbsence(c) == IF bridge[c] = None \/ bridge[c].state = "intent" THEN "not_applied"
                     ELSE IF SameRequest(c) THEN bridge[c].disposition ELSE "error"

\* reconcile_action; "error" is a request that differs from the recorded one.
Proof(c) == IF bridge[c] = None THEN "unknown"
            ELSE IF SameRequest(c) THEN bridge[c].disposition ELSE "error"

\* Faulty variant of Fresh: a request with another digest is another action.
FreshRequest(c) == bridge[c] = None \/ ~SameRequest(c)

\* begin: an action with a record is never executed again.
Fresh(c) == bridge[c] = None

SetHandler(c, h) == handler' = [handler EXCEPT ![c] = h]

\* complete
SetTerminal(c, disposition) ==
  bridge' = [bridge EXCEPT ![c] = [anchor |-> bridge[c].anchor, state |-> "terminal",
                                   disposition |-> disposition]]

Perform(c) ==
  /\ handler[c] \in {"pending", "late"}
  /\ SetHandler(c, IF handler[c] = "pending" THEN "acted" ELSE "none")
  /\ performed' = [performed EXCEPT ![c] = @ + 1]
  /\ UNCHANGED <<journal, committed, bridge, orphans, checkpoints, sessionVars>>

\* runAction records what the handler came to.  What it sent to the server may
\* still take effect after that.
Report(c, d) ==
  /\ handler[c] \in {"pending", "acted"} /\ SetTerminal(c, d)
  /\ \/ SetHandler(c, "none")
     \/ handler[c] = "pending" /\ SetHandler(c, "late")
  /\ UNCHANGED <<journal, committed, orphans, performed, checkpoints, sessionVars>>

\* The handler returns applied or rejected, by what it observes when it is done: a
\* craft, a placed block or a shot that it did not see take effect is rejected, and
\* a target that was gone before the first shot, or food that came by itself, applied.
Finish(c) == \E d \in {"applied", "not_applied"} : Report(c, d)

\* It returns partial, throws, or exceeds its time; in the last case its promise is
\* not cancelled and may still act.
GiveUp(c) == Report(c, "unknown")

\* The bridge's process ends, or the server drops the bot.
Die(c) ==
  /\ handler[c] # "none" /\ SetHandler(c, "none")
  /\ UNCHANGED <<journal, committed, bridge, orphans, performed, checkpoints, sessionVars>>

-----------------------------------------------------------------------------
(* Run session.                                                            *)

To(where) == pc' = where

\* An exception leaves the cycle: RunState.mark_failed.
Raise == To("failed") /\ cycle' = None /\ result' = None /\ UNCHANGED <<anchor, ledger>>

Restored(k) == IF k = 0 THEN NoLedger ELSE checkpoints[k]

\* Open the run, restoring a checkpoint or not.
Open(k) ==
  /\ pc = "closed" /\ k \in 0..Len(checkpoints)
  /\ To("ready") /\ anchor' = k /\ ledger' = Restored(k)
  /\ UNCHANGED <<journal, committed, worldVars, checkpoints, cycle, result>>

EndSession == /\ To("closed") /\ cycle' = None /\ anchor' = 0
              /\ ledger' = NoLedger /\ result' = None

\* Closing the session closes its bridge.
Close ==
  /\ pc \in {"ready", "failed"} /\ EndSession
  /\ handler' = [c \in Cycle |-> IF c \in orphans THEN handler[c] ELSE "none"]
  /\ UNCHANGED <<journal, committed, bridge, orphans, performed, checkpoints>>

\* The run's process dies; its bridge does not.
Crash ==
  /\ pc # "closed" /\ EndSession
  /\ orphans' = orphans \cup {c \in Cycle : handler[c] # "none"}
  /\ UNCHANGED <<journal, committed, bridge, handler, performed, checkpoints>>

\* Any call of a cycle may raise before it changed anything: a store, a
\* participant, a bridge that died or did not answer in time.
Fail ==
  /\ pc \in Working /\ Raise
  /\ UNCHANGED <<journal, committed, worldVars, checkpoints>>

-----------------------------------------------------------------------------
(* A cycle.                                                                *)

\* preflight_slot: other intents, this intent's phase, the recovery anchor.
Admissible(c) ==
  LET s == <<c, anchor>>
  IN /\ ScopeClear(s)
     /\ journal[s] # None => journal[s].phase \in Nonterminal /\ anchor # 0

Preflight(c) ==
  /\ pc = "ready"
  /\ IF Admissible(c)
     THEN /\ cycle' = c
          /\ To(IF journal[<<c, anchor>>] = None THEN "authorize" ELSE "recover")
          /\ UNCHANGED <<anchor, ledger, result>>
     ELSE Raise
  /\ UNCHANGED <<journal, committed, worldVars, checkpoints>>

\* The cycle's intent is open and the method has not committed it.
NotCommitted ==
  /\ pc = "recover" /\ ~(MethodReconciles /\ cycle \in committed)
  /\ To("authorize")
  /\ UNCHANGED <<journal, committed, worldVars, checkpoints, cycle, anchor, ledger, result>>

FromHandle(certainty) == [certainty |-> certainty, verify |-> FALSE, from |-> "handle"]

\* try_recover_committed_cycle: the action must prove to be applied.
RecoverCommitted ==
  /\ pc = "recover" /\ MethodReconciles /\ cycle \in committed
  /\ LET e == journal[slot].effect
         confirmed == FromHandle("CONFIRMED")
         consistent == Resolved(e) => e.certainty = "CONFIRMED"
     IN IF consistent /\ Proof(cycle) = "applied"
        THEN /\ IF Resolved(e) THEN UNCHANGED journal
                ELSE SetIntent(slot, "RECONCILED", confirmed)
             /\ To("consume") /\ UNCHANGED <<cycle, anchor, ledger, result>>
        ELSE Raise /\ UNCHANGED journal
  /\ UNCHANGED <<committed, worldVars, checkpoints>>

\* Authorization checks the scope again, then prepare: a new intent or an open one.
Prepare ==
  /\ pc = "authorize"
  /\ IF ~ScopeClear(slot) THEN Raise /\ UNCHANGED journal
     ELSE /\ IF journal[slot] = None
             THEN SetIntent(slot, "PREPARED", None) /\ To("dispatch")
             ELSE UNCHANGED journal /\ To("reconcile")
          /\ UNCHANGED <<cycle, anchor, ledger, result>>
  /\ UNCHANGED <<committed, worldVars, checkpoints>>

\* Faulty variant of Receipt: the bridge's disposition is taken for the certainty.
ReceiptUntyped(disposition) ==
  [certainty |-> disposition, verify |-> disposition # "applied", from |-> "act"]

\* The receipt that act derives from the bridge's action_result.
Receipt(disposition) ==
  [certainty |-> CASE disposition = "applied" -> "CONFIRMED"
                   [] disposition = "not_applied" -> "REJECTED"
                   [] OTHER -> "POSSIBLE",
   verify |-> disposition # "applied", from |-> "act"]

Answer(disposition) ==
  /\ result' = Receipt(disposition)
  /\ ledger' = [ledger EXCEPT ![cycle] =
       CASE disposition = "applied" -> "verified"
         [] disposition = "not_applied" -> "rejected"
         [] OTHER -> "open"]
  /\ To("received") /\ UNCHANGED <<cycle, anchor>>

\* act: the ledger refuses a known action, the bridge executes a fresh one,
\* answers a repeated request from its record and refuses a different one.
Dispatch ==
  /\ pc = "dispatch"
  /\ IF ledger[cycle] = None /\ Fresh(cycle)
     THEN /\ bridge' = [bridge EXCEPT ![cycle] =
                 [anchor |-> anchor, state |-> "intent", disposition |-> "unknown"]]
          /\ SetHandler(cycle, "pending") /\ orphans' = orphans \ {cycle}
          /\ To("acting") /\ UNCHANGED <<cycle, anchor, ledger, result>>
     ELSE /\ IF ledger[cycle] = None /\ SameRequest(cycle)
             THEN Answer(bridge[cycle].disposition) ELSE Raise
          /\ UNCHANGED <<bridge, handler, orphans>>
  /\ UNCHANGED <<journal, committed, performed, checkpoints>>

\* The action_result of an action that this session's bridge has completed.
Receive ==
  /\ pc = "acting" /\ cycle \notin orphans /\ bridge[cycle].state = "terminal"
  /\ Answer(bridge[cycle].disposition)
  /\ UNCHANGED <<journal, committed, worldVars, checkpoints>>

RecordResult ==
  /\ pc = "received"
  /\ SetIntent(slot, "RESULT_RECORDED", result)
  /\ To(IF Resolved(result) THEN "complete" ELSE "resolve")
  /\ UNCHANGED <<committed, worldVars, checkpoints, cycle, anchor, ledger, result>>

\* Faulty variant of Reconciled: an unknown outcome is taken for a rejection.
ReconciledUnknown(disposition) ==
  [certainty |-> IF disposition = "applied" THEN "CONFIRMED" ELSE "NO_EFFECT",
   verify |-> FALSE, from |-> "act"]

\* session.reconcile: the receipt keeps its artifacts, its certainty is settled.
Reconciled(disposition) ==
  [certainty |-> CASE disposition = "applied" -> "CONFIRMED"
                   [] disposition = "not_applied" -> "NO_EFFECT"
                   [] OTHER -> "POSSIBLE",
   verify |-> FALSE, from |-> "act"]

\* resolve_action_result and record_reconciled: the ledger decides, or the bridge.
Resolve ==
  /\ pc = "resolve"
  /\ LET e == Reconciled(IF ledger[cycle] = "rejected" THEN "not_applied" ELSE Proof(cycle))
     IN IF Resolved(e) /\ MayReconcile(slot, e)
        THEN /\ SetIntent(slot, "RECONCILED", e) /\ result' = e
             /\ To("complete") /\ UNCHANGED <<cycle, anchor, ledger>>
        ELSE Raise /\ UNCHANGED journal
  /\ UNCHANGED <<committed, worldVars, checkpoints>>

\* _reconcile_existing: the intent is open from an earlier session.
ReconcileExisting ==
  /\ pc = "reconcile"
  /\ LET applied == FromHandle("CONFIRMED")
         void    == FromHandle("NO_EFFECT")
     IN IF Proof(cycle) = "applied" /\ MayReconcile(slot, applied)
        THEN /\ SetIntent(slot, "RECONCILED", applied) /\ result' = applied
             /\ To("complete") /\ UNCHANGED <<cycle, anchor, ledger>>
        ELSE /\ IF Proof(cycle) = "not_applied" /\ MayVoid(slot, void)
                THEN SetIntent(slot, "NOT_APPLIED", void) ELSE UNCHANGED journal
             /\ Raise
  /\ UNCHANGED <<committed, worldVars, checkpoints>>

\* method.task_completed, idempotent by its completion key.
Complete ==
  /\ pc = "complete"
  /\ committed' = committed \cup {cycle} /\ To("consume")
  /\ UNCHANGED <<journal, worldVars, checkpoints, cycle, anchor, ledger, result>>

\* confirm_trial_commit
Consume ==
  /\ pc = "consume"
  /\ IF MayConsume(slot)
     THEN /\ SetIntent(slot, "CONSUMED", journal[slot].effect)
          /\ To("checkpoint") /\ UNCHANGED <<cycle, anchor, ledger, result>>
     ELSE Raise /\ UNCHANGED journal
  /\ UNCHANGED <<committed, worldVars, checkpoints>>

\* The joint checkpoint after a cycle; the session goes on from it.
Checkpoint ==
  /\ pc = "checkpoint" /\ Len(checkpoints) < MaxCheckpoints
  /\ checkpoints' = Append(checkpoints, ledger) /\ anchor' = Len(checkpoints) + 1
  /\ To("ready") /\ cycle' = None /\ result' = None
  /\ UNCHANGED <<journal, committed, worldVars, ledger>>

-----------------------------------------------------------------------------
BridgeStep(c) == Perform(c) \/ Finish(c) \/ GiveUp(c) \/ Die(c)

CycleStep ==
  \/ \E c \in Cycle : Preflight(c)
  \/ NotCommitted \/ RecoverCommitted \/ Prepare \/ Dispatch \/ Receive
  \/ RecordResult \/ Resolve \/ ReconcileExisting \/ Complete \/ Consume \/ Checkpoint

\* A step that needs no crash and no failing call; the code may still raise in it.
Orderly ==
  \/ \E c \in Cycle : BridgeStep(c)
  \/ CycleStep
  \/ \E k \in Anchor : Open(k)
  \/ Close

Next == Orderly \/ Crash \/ Fail

Spec == Init /\ [][Next]_vars

\* Recovery as the run session asks for it: sessions are closed, the
\* checkpoint that an open intent stands on is restored, its cycle is run again.
RestoreAnchor  == \E s \in Unresolved : pc = "closed" /\ Open(s[2])
RunCycleAgain  == \E s \in Unresolved : anchor = s[2] /\ Preflight(s[1])
Proceed        == pc \in Working /\ CycleStep

RecoverySpec == /\ Spec /\ WF_vars(Close) /\ WF_vars(Proceed)
                /\ SF_vars(RestoreAnchor) /\ SF_vars(RunCycleAgain)

-----------------------------------------------------------------------------
(* Properties.                                                             *)

\* Every variable keeps its type.
TypeOK ==
  /\ journal \in [Slot -> Intent \cup {None}] /\ committed \subseteq Cycle
  /\ bridge \in [Cycle -> BridgeRecord \cup {None}]
  /\ handler \in [Cycle -> {"none", "pending", "acted", "late"}]
  /\ orphans \subseteq Cycle /\ performed \in [Cycle -> Nat]
  /\ checkpoints \in Seq([Cycle -> Verdict \cup {None}]) /\ Len(checkpoints) <= MaxCheckpoints
  /\ pc \in Working \cup {"closed", "ready", "failed"}
  /\ cycle \in Cycle \cup {None} /\ anchor \in Anchor
  /\ ledger \in [Cycle -> Verdict \cup {None}] /\ result \in Effect \cup {None}

\* An action takes effect at most once, over all sessions, restores, crashes,
\* repeated requests and bridges that outlive their session.
AtMostOnce == \A c \in Cycle : performed[c] <= 1

\* What the bridge has told of an action.
Told(c) == IF bridge[c] = None THEN "unknown" ELSE bridge[c].disposition

\* The bridge proves effect e of intent s: it holds a record of this very request,
\* made on the same checkpoint, and the record says what the effect says.
Proven(s, e) ==
  /\ bridge[s[1]] # None /\ bridge[s[1]].anchor = s[2]
  /\ Told(s[1]) = IF e.certainty = "CONFIRMED" THEN "applied" ELSE "not_applied"

\* What the journal settles is what the bridge reported of that request, and stays
\* so: no silence, lost answer or record of another checkpoint ever becomes a
\* CONFIRMED, a NO_EFFECT or a NOT_APPLIED, and no later report contradicts one.
JournalIsProven ==
  \A s \in Slot : journal[s] # None /\ Resolved(journal[s].effect) =>
    Proven(s, journal[s].effect)

\* An action that may take effect, or has, and was never reported on has an open
\* intent; one that was reported applied has an intent that is not voided.  Only an
\* effect that its own handler reported as rejected is lost to the journal.
EffectIsCovered ==
  \A c \in Cycle :
    /\ (handler[c] # "none" \/ performed[c] > 0) /\ Told(c) = "unknown" =>
         \E k \in Anchor : <<c, k>> \in Unresolved
    /\ Told(c) = "applied" =>
         \E k \in Anchor : /\ journal[<<c, k>>] # None
                           /\ journal[<<c, k>>].phase # "NOT_APPLIED"

\* While an effect of the run is uncertain no other one is begun.
OneUnresolved == Cardinality(Unresolved) <= 1

\* An effect is consumed for one intent only, whatever checkpoint the cycle is
\* run from again.
ConsumedOnce ==
  \A c \in Cycle : Cardinality({k \in Anchor :
    journal[<<c, k>>] # None /\ journal[<<c, k>>].phase = "CONSUMED"}) <= 1

\* A terminal intent never changes, the proof of a reconciled one is never
\* replaced, and a settled effect never turns into its opposite.
SettledIsFinal ==
  [][\A s \in Slot : journal[s] # None =>
       /\ journal[s].phase \notin Nonterminal => journal'[s] = journal[s]
       /\ journal[s].phase = "RECONCILED" => journal'[s].effect = journal[s].effect
       /\ Resolved(journal[s].effect) =>
            journal'[s].effect.certainty = journal[s].effect.certainty]_vars

\* An open intent whose action the bridge has decided is settled by recovery from
\* its checkpoint once crashes and failures end, unless the session that
\* rejected the action reconciled it itself (see NotAppliedIsNotCompleted).
Settleable(s) ==
  /\ pc = "closed" /\ s \in Unresolved /\ s[2] # 0
  /\ Resolved(journal[s].effect) => journal[s].effect.certainty # "NO_EFFECT"
  /\ bridge[s[1]] # None /\ bridge[s[1]].anchor = s[2]
  /\ Told(s[1]) # "unknown"

DecidedSettles ==
  <>[][Orderly]_vars => \A s \in Slot : Settleable(s) ~> s \notin Unresolved

\* A task whose action is authoritatively not applied is not completed.
NotAppliedIsNotCompleted ==
  \A s \in Slot : journal[s] # None /\ Resolved(journal[s].effect)
    /\ journal[s].effect.certainty = "NO_EFFECT" => s[1] \notin committed

\* What the journal says of a cycle's action.
VerdictOf(c) ==
  LET intents   == {journal[s] : s \in {t \in Slot : t[1] = c /\ journal[t] # None}}
      certainty == {i.effect.certainty : i \in {j \in intents : Resolved(j.effect)}}
  IN IF "CONFIRMED" \in certainty THEN "confirmed"
     ELSE IF certainty # {} THEN "refuted"
     ELSE IF intents # {} THEN "open" ELSE "none"

Log == INSTANCE EffectLog WITH
         Action <- Cycle, times <- performed,
         report <- [c \in Cycle |-> Told(c)], verdict <- [c \in Cycle |-> VerdictOf(c)]

\* The workflow, its journal and the bridge implement the effect log: whatever
\* crashes or is restored, an action is begun alone and once, happens at most once
\* and after that, is reported on at most once while its intent is open, and gets
\* one verdict, the reported one.
ImplementsEffectLog == Log!Spec
=============================================================================
