------------------------- MODULE ActionCycleProofs -------------------------
(***************************************************************************)
(* Theorems about ActionCycle for any cycles and any number of             *)
(* checkpoints: an action takes effect at most once, and the journal says  *)
(* what the bridge reported, of every action that was reported on.         *)
(***************************************************************************)
EXTENDS ActionCycle, FiniteSetTheorems, TLAPS

Decided(c) == bridge[c] # None /\ bridge[c].disposition # "unknown"

\* What the bridge records of an action, what its handler may still do and what
\* happened in the world agree; what a decided record says is left open.
BridgeIsOrderly ==
  \A c \in Cycle :
    /\ performed[c] <= 1
    /\ handler[c] \in {"pending", "late"} => performed[c] = 0
    /\ bridge[c] = None => handler[c] = "none" /\ performed[c] = 0
    /\ handler[c] \in {"pending", "acted"} => ~Decided(c)

\* Every record of the bridge has the intent it was begun for.
RecordHasIntent ==
  \A c \in Cycle : bridge[c] # None =>
    /\ journal[<<c, bridge[c].anchor>>] # None
    /\ journal[<<c, bridge[c].anchor>>].phase = "NOT_APPLIED" =>
         bridge[c].disposition = "not_applied"

\* What a phase says of the effect.
PhaseFitsEffect ==
  \A s \in Slot : journal[s] # None =>
    /\ journal[s].phase = "PREPARED" => journal[s].effect = None
    /\ journal[s].phase \in {"RECONCILED", "CONSUMED", "NOT_APPLIED"} =>
         Resolved(journal[s].effect)
    /\ journal[s].phase = "RESULT_RECORDED" /\ Resolved(journal[s].effect) =>
         journal[s].effect.certainty = "CONFIRMED"

\* A rejection that a session, or a snapshot of one, has seen is the bridge's.
RejectionIsTrue(l) ==
  \A c \in Cycle : l[c] = "rejected" =>
    bridge[c] # None /\ bridge[c].disposition = "not_applied"

LedgersAreTrue ==
  /\ RejectionIsTrue(ledger)
  /\ \A k \in 1..Len(checkpoints) : RejectionIsTrue(checkpoints[k])

\* What the position of the session in its cycle implies.
Position ==
  /\ pc \in Working => cycle \in Cycle
  /\ pc \in Working \ {"authorize", "checkpoint"} => journal[slot] # None
  /\ pc \in Working \ {"checkpoint"} /\ journal[slot] # None =>
       journal[slot].phase \in Nonterminal
  /\ pc \in {"dispatch", "acting", "received"} => journal[slot].phase = "PREPARED"
  /\ pc \in {"acting", "received", "resolve"} =>
       bridge[cycle] # None /\ bridge[cycle].anchor = anchor
  /\ pc = "received" => /\ result \in Effect
                        /\ Resolved(result) => result.certainty = "CONFIRMED" /\ Proven(slot, result)
  /\ pc = "resolve" => /\ journal[slot].phase = "RESULT_RECORDED"
                       /\ ~Resolved(journal[slot].effect)

\* At most one intent is open.
OneOpen == \A s, t \in Unresolved : s = t

IInv == /\ TypeOK /\ BridgeIsOrderly /\ RecordHasIntent /\ JournalIsProven
        /\ PhaseFitsEffect /\ LedgersAreTrue /\ Position /\ OneOpen

-----------------------------------------------------------------------------
(* Effects and records.                                                    *)

LEMMA NoneDistinct ==
  /\ None \notin Cycle /\ None \notin Effect /\ None \notin Intent
  /\ None \notin BridgeRecord /\ None \notin Verdict
BY NoneAssumption DEF NoneAssumption

LEMMA ReceiptFacts ==
  ASSUME NEW d
  PROVE  /\ Receipt(d) \in Effect
         /\ Resolved(Receipt(d)) => d = "applied" /\ Receipt(d).certainty = "CONFIRMED"
<1>1. (d # "applied") \in BOOLEAN
  OBVIOUS
<1>2. Receipt(d).certainty \in Certainty /\ Receipt(d).verify = (d # "applied")
  BY DEF Receipt, Certainty
<1>3. d = "applied" => Receipt(d).certainty = "CONFIRMED"
  BY DEF Receipt
<1>4. Receipt(d) \in Effect
  BY <1>1 DEF Receipt, Effect, Certainty
<1> QED
  BY <1>2, <1>3, <1>4 DEF Resolved

LEMMA ReconciledFacts ==
  ASSUME NEW d
  PROVE  /\ Reconciled(d) \in Effect
         /\ Resolved(Reconciled(d)) =>
              \/ d = "applied" /\ Reconciled(d).certainty = "CONFIRMED"
              \/ d = "not_applied" /\ Reconciled(d).certainty = "NO_EFFECT"
<1>1. Reconciled(d) \in Effect
  BY DEF Reconciled, Effect, Certainty
<1> QED
  BY <1>1 DEF Reconciled, Resolved

LEMMA HandleFacts ==
  ASSUME NEW x \in {"CONFIRMED", "NO_EFFECT"}
  PROVE  /\ FromHandle(x) \in Effect /\ Resolved(FromHandle(x))
         /\ FromHandle(x).certainty = x
<1>1. FromHandle(x) \in Effect
  BY DEF FromHandle, Effect, Certainty
<1>2. FromHandle(x).certainty = x /\ FromHandle(x).verify = FALSE
  BY DEF FromHandle
<1> QED
  BY <1>1, <1>2, NoneDistinct DEF Resolved

LEMMA SlotFacts ==
  ASSUME NEW c \in Cycle, NEW k \in Anchor
  PROVE  <<c, k>> \in Slot /\ <<c, k>>[1] = c /\ <<c, k>>[2] = k
BY DEF Slot

\* A bridge that proves a disposition holds a decided record of this request.
LEMMA ProofFacts ==
  ASSUME TypeOK, NEW c \in Cycle, Proof(c) \in {"applied", "not_applied"}
  PROVE  /\ bridge[c] # None /\ bridge[c].anchor = anchor
         /\ bridge[c].disposition = Proof(c)
BY DEF Proof, SameRequest

-----------------------------------------------------------------------------
(* A write to the journal of the intent at hand.                           *)

LEMMA WriteIntent ==
  ASSUME IInv, cycle \in Cycle, NEW phase \in Phase, NEW e \in Effect \cup {None},
         SetIntent(slot, phase, e), UNCHANGED bridge,
         phase = "PREPARED" => e = None,
         phase \in {"RECONCILED", "CONSUMED", "NOT_APPLIED"} => Resolved(e),
         phase = "RESULT_RECORDED" /\ Resolved(e) => e.certainty = "CONFIRMED",
         Resolved(e) => Proven(slot, e),
         phase = "NOT_APPLIED" => e.certainty = "NO_EFFECT",
         phase \in Nonterminal => ScopeClear(slot) \/ slot \in Unresolved
  PROVE  /\ journal' \in [Slot -> Intent \cup {None}]
         /\ RecordHasIntent' /\ JournalIsProven' /\ PhaseFitsEffect' /\ OneOpen'
         /\ journal'[slot] # None
         /\ journal'[slot].phase = phase /\ journal'[slot].effect = e
<1> DEFINE new == [phase |-> phase, effect |-> e]
<1>1. slot \in Slot /\ slot[1] = cycle /\ slot[2] = anchor
  BY SlotFacts DEF slot, IInv, TypeOK
<1>2. journal \in [Slot -> Intent \cup {None}]
  BY DEF IInv, TypeOK
<1>3. new \in Intent /\ new # None /\ new.phase = phase /\ new.effect = e
  <2>1. new \in Intent
    BY DEF Intent
  <2> QED
    BY <2>1, NoneDistinct
<1>4. journal' = [journal EXCEPT ![slot] = new]
  BY DEF SetIntent
<1> HIDE DEF new
<1>5. journal'[slot] = new /\ \A s \in Slot : s # slot => journal'[s] = journal[s]
  BY <1>1, <1>2, <1>4
<1>6. journal' \in [Slot -> Intent \cup {None}]
  BY <1>1, <1>2, <1>3, <1>4
<1>7. PhaseFitsEffect'
  <2> SUFFICES ASSUME NEW s \in Slot, journal'[s] # None
               PROVE  /\ journal'[s].phase = "PREPARED" => journal'[s].effect = None
                      /\ journal'[s].phase \in {"RECONCILED", "CONSUMED", "NOT_APPLIED"} =>
                           Resolved(journal'[s].effect)
                      /\ journal'[s].phase = "RESULT_RECORDED" /\ Resolved(journal'[s].effect) =>
                           journal'[s].effect.certainty = "CONFIRMED"
    BY DEF PhaseFitsEffect, Resolved
  <2>1. CASE s = slot
    BY <2>1, <1>3, <1>5
  <2>2. CASE s # slot
    BY <2>2, <1>5 DEF IInv, PhaseFitsEffect
  <2> QED
    BY <2>1, <2>2
<1>8. JournalIsProven'
  <2> SUFFICES ASSUME NEW s \in Slot, journal'[s] # None, Resolved(journal'[s].effect)
               PROVE  Proven(s, journal'[s].effect)
    BY DEF JournalIsProven, Resolved, Proven, Told
  <2>1. CASE s = slot
    BY <2>1, <1>3, <1>5
  <2>2. CASE s # slot
    BY <2>2, <1>5 DEF IInv, JournalIsProven
  <2> QED
    BY <2>1, <2>2
<1>9. RecordHasIntent'
  <2> SUFFICES ASSUME NEW c \in Cycle, bridge[c] # None
               PROVE  /\ journal'[<<c, bridge[c].anchor>>] # None
                      /\ journal'[<<c, bridge[c].anchor>>].phase = "NOT_APPLIED" =>
                           bridge[c].disposition = "not_applied"
    BY DEF RecordHasIntent
  <2> DEFINE s == <<c, bridge[c].anchor>>
  <2>1. bridge[c].anchor \in Anchor
    BY DEF IInv, TypeOK, BridgeRecord
  <2>2. s \in Slot /\ s[1] = c /\ s[2] = bridge[c].anchor
    BY <2>1, SlotFacts
  <2>3. /\ journal[s] # None
        /\ journal[s].phase = "NOT_APPLIED" => bridge[c].disposition = "not_applied"
    BY DEF IInv, RecordHasIntent
  <2> HIDE DEF s
  <2>4. CASE s = slot
    <3>1. c = cycle
      BY <2>2, <2>4, <1>1
    <3>2. phase = "NOT_APPLIED" => bridge[cycle].disposition = "not_applied"
      BY <1>1 DEF Proven, Told
    <3> QED
      BY <3>1, <3>2, <2>4, <1>3, <1>5 DEF s
  <2>5. CASE s # slot
    BY <2>2, <2>3, <2>5, <1>5 DEF s
  <2> QED
    BY <2>4, <2>5
<1>10. OneOpen'
  <2> SUFFICES ASSUME NEW s \in Unresolved', NEW t \in Unresolved' PROVE s = t
    BY DEF OneOpen
  <2>1. s \in Slot /\ t \in Slot
    BY DEF Unresolved
  <2>2. s # slot => s \in Unresolved
    BY <2>1, <1>5 DEF Unresolved
  <2>3. t # slot => t \in Unresolved
    BY <2>1, <1>5 DEF Unresolved
  <2>4. (s = slot \/ t = slot) => phase \in Nonterminal
    BY <1>3, <1>5 DEF Unresolved
  <2>5. \A u, v \in Unresolved : u = v
    BY DEF IInv, OneOpen
  <2> QED
    BY <2>2, <2>3, <2>4, <2>5 DEF ScopeClear
<1> QED
  BY <1>3, <1>5, <1>6, <1>7, <1>8, <1>9, <1>10

-----------------------------------------------------------------------------
(* A step of the bridge: a decided record stays, an undecided one keeps its *)
(* intent, and a new one has an open intent.                                *)

BridgeStable ==
  \A c \in Cycle :
    /\ bridge[c] # None => /\ bridge'[c] # None /\ bridge'[c].anchor = bridge[c].anchor
                           /\ Decided(c) => bridge'[c] = bridge[c]
    /\ bridge[c] = None /\ bridge'[c] # None =>
         /\ journal[<<c, bridge'[c].anchor>>] # None
         /\ journal[<<c, bridge'[c].anchor>>].phase # "NOT_APPLIED"

LEMMA BridgeMove ==
  ASSUME IInv, BridgeStable, UNCHANGED journal
  PROVE  RecordHasIntent' /\ JournalIsProven' /\ PhaseFitsEffect' /\ OneOpen'
<1>1. PhaseFitsEffect'
  BY DEF IInv, PhaseFitsEffect, Resolved
<1>2. OneOpen'
  BY DEF IInv, OneOpen, Unresolved
<1>3. RecordHasIntent'
  <2> SUFFICES ASSUME NEW c \in Cycle, bridge'[c] # None
               PROVE  /\ journal[<<c, bridge'[c].anchor>>] # None
                      /\ journal[<<c, bridge'[c].anchor>>].phase = "NOT_APPLIED" =>
                           bridge'[c].disposition = "not_applied"
    BY DEF RecordHasIntent
  <2>1. CASE bridge[c] = None
    BY <2>1 DEF BridgeStable
  <2>2. CASE bridge[c] # None
    BY <2>2 DEF BridgeStable, IInv, RecordHasIntent, Decided
  <2> QED
    BY <2>1, <2>2
<1>4. JournalIsProven'
  <2> SUFFICES ASSUME NEW s \in Slot, journal[s] # None, Resolved(journal[s].effect)
               PROVE  Proven(s, journal[s].effect)'
    BY DEF JournalIsProven, Resolved
  <2>1. s[1] \in Cycle
    BY DEF Slot
  <2>2. Proven(s, journal[s].effect)
    BY DEF IInv, JournalIsProven
  <2>3. Decided(s[1])
    BY <2>2 DEF Proven, Told, Decided
  <2> QED
    BY <2>1, <2>2, <2>3 DEF Proven, Told, BridgeStable
<1> QED
  BY <1>1, <1>2, <1>3, <1>4

LEMMA BridgeFrame ==
  ASSUME UNCHANGED bridge
  PROVE  BridgeStable
BY DEF BridgeStable

LEMMA RejectionStays ==
  ASSUME BridgeStable, NEW l, RejectionIsTrue(l)
  PROVE  \A c \in Cycle : l[c] = "rejected" =>
           bridge'[c] # None /\ bridge'[c].disposition = "not_applied"
BY DEF BridgeStable, RejectionIsTrue, Decided

LEMMA LedgersFrame ==
  ASSUME IInv, BridgeStable, UNCHANGED <<ledger, checkpoints>>
  PROVE  LedgersAreTrue'
BY RejectionStays DEF IInv, LedgersAreTrue, RejectionIsTrue

LEMMA NoLedgerTrue == RejectionIsTrue(NoLedger)
<1>1. None # "rejected"
  BY NoneDistinct DEF Verdict
<1> QED
  BY <1>1 DEF RejectionIsTrue, NoLedger

LEMMA NoLedgerType == NoLedger \in [Cycle -> Verdict \cup {None}]
BY DEF NoLedger

LEMMA Away ==
  ASSUME pc' \notin Working
  PROVE  Position'
BY DEF Position, Working

\* The session keeps its place while the bridge moves.
LEMMA PositionFrame ==
  ASSUME IInv, BridgeStable, UNCHANGED <<journal, pc, cycle, anchor, result>>
  PROVE  Position'
<1> USE DEF IInv, Position, slot
<1>1. pc \in {"acting", "received", "resolve"} =>
        bridge'[cycle] # None /\ bridge'[cycle].anchor = anchor
  BY DEF BridgeStable, Working
<1>2. pc = "received" /\ Resolved(result) => Proven(slot, result)'
  <2> SUFFICES ASSUME pc = "received", Resolved(result) PROVE Proven(slot, result)'
    OBVIOUS
  <2>1. Proven(slot, result) /\ cycle \in Cycle /\ slot[1] = cycle
    BY DEF Working
  <2>2. Decided(cycle)
    BY <2>1 DEF Proven, Told, Decided
  <2> QED
    BY <2>1, <2>2 DEF BridgeStable, Proven, Told
<1> QED
  BY <1>1, <1>2 DEF Resolved

-----------------------------------------------------------------------------
(* The bridge.                                                             *)

LEMMA PerformStep ==
  ASSUME IInv, NEW c \in Cycle, Perform(c)
  PROVE  IInv'
<1> USE DEF Perform, SetHandler, sessionVars
<1>1. TypeOK'
  BY DEF IInv, TypeOK
<1>2. BridgeIsOrderly'
  <2>1. performed[c] = 0 /\ bridge[c] # None
    BY DEF IInv, BridgeIsOrderly
  <2> QED
    BY <2>1 DEF IInv, TypeOK, BridgeIsOrderly, Decided
<1>3. BridgeStable
  BY BridgeFrame
<1> QED
  BY <1>1, <1>2, <1>3, BridgeMove, LedgersFrame, PositionFrame DEF IInv

LEMMA TerminalType ==
  ASSUME IInv, NEW c \in Cycle, handler[c] \in {"pending", "acted"},
         NEW d \in Disposition, SetTerminal(c, d)
  PROVE  /\ bridge' \in [Cycle -> BridgeRecord \cup {None}]
         /\ bridge' = [bridge EXCEPT ![c] =
              [anchor |-> bridge[c].anchor, state |-> "terminal", disposition |-> d]]
         /\ bridge'[c] # None /\ bridge'[c].disposition = d
         /\ BridgeStable /\ ~Decided(c)
<1> DEFINE new == [anchor |-> bridge[c].anchor, state |-> "terminal", disposition |-> d]
<1>1. bridge[c] # None /\ ~Decided(c)
  BY DEF IInv, BridgeIsOrderly
<1>2. bridge[c] \in BridgeRecord /\ bridge \in [Cycle -> BridgeRecord \cup {None}]
  BY <1>1 DEF IInv, TypeOK
<1>3. new \in BridgeRecord /\ new # None
  BY <1>2, NoneDistinct DEF BridgeRecord
<1>4. bridge' = [bridge EXCEPT ![c] = new]
  BY <1>2 DEF SetTerminal, BridgeRecord
<1>5. bridge'[c] = new /\ new.anchor = bridge[c].anchor /\ new.disposition = d
  BY <1>2, <1>4
<1>6. BridgeStable
  BY <1>1, <1>2, <1>3, <1>4, <1>5 DEF BridgeStable
<1> QED
  BY <1>1, <1>2, <1>3, <1>4, <1>5, <1>6

LEMMA ReportStep ==
  ASSUME IInv, NEW c \in Cycle, NEW d \in Disposition, Report(c, d)
  PROVE  IInv'
<1> USE DEF Report, SetHandler, sessionVars
<1>1. /\ bridge' \in [Cycle -> BridgeRecord \cup {None}] /\ BridgeStable
      /\ bridge' = [bridge EXCEPT ![c] =
           [anchor |-> bridge[c].anchor, state |-> "terminal", disposition |-> d]]
      /\ bridge'[c] # None /\ bridge'[c].disposition = d
  BY TerminalType
<1>2. TypeOK'
  BY <1>1 DEF IInv, TypeOK
<1>3. BridgeIsOrderly'
  BY <1>1 DEF IInv, TypeOK, BridgeIsOrderly, Decided
<1> QED
  BY <1>1, <1>2, <1>3, BridgeMove, LedgersFrame, PositionFrame DEF IInv

LEMMA FinishStep ==
  ASSUME IInv, NEW c \in Cycle, Finish(c) \/ GiveUp(c)
  PROVE  IInv'
BY ReportStep DEF Finish, GiveUp, Disposition

LEMMA DieStep ==
  ASSUME IInv, NEW c \in Cycle, Die(c)
  PROVE  IInv'
<1> USE DEF Die, SetHandler, sessionVars
<1>1. TypeOK'
  BY DEF IInv, TypeOK
<1>2. BridgeIsOrderly'
  BY DEF IInv, TypeOK, BridgeIsOrderly, Decided
<1>3. BridgeStable
  BY BridgeFrame
<1> QED
  BY <1>1, <1>2, <1>3, BridgeMove, LedgersFrame, PositionFrame DEF IInv

-----------------------------------------------------------------------------
(* The session, where it writes nothing durable or only its own intent.    *)

LEMMA WorldFrame ==
  ASSUME IInv, UNCHANGED <<bridge, handler, performed>>
  PROVE  BridgeIsOrderly' /\ BridgeStable
BY BridgeFrame DEF IInv, BridgeIsOrderly, Decided

LEMMA DurableFrame ==
  ASSUME IInv, UNCHANGED <<journal, bridge, handler, performed>>
  PROVE  /\ BridgeIsOrderly' /\ BridgeStable
         /\ RecordHasIntent' /\ JournalIsProven' /\ PhaseFitsEffect' /\ OneOpen'
BY WorldFrame, BridgeMove

LEMMA RaiseStep ==
  ASSUME IInv, Raise, UNCHANGED <<journal, committed, worldVars, checkpoints>>
  PROVE  IInv'
<1> USE DEF Raise, To, worldVars
<1>1. TypeOK'
  BY DEF IInv, TypeOK
<1>2. Position'
  BY Away DEF Working
<1> QED
  BY <1>1, <1>2, DurableFrame, LedgersFrame DEF IInv

LEMMA OpenStep ==
  ASSUME IInv, NEW k \in Anchor, Open(k)
  PROVE  IInv'
<1> USE DEF Open, To, worldVars
<1>1. /\ Restored(k) \in [Cycle -> Verdict \cup {None}] /\ RejectionIsTrue(Restored(k))
  <2>1. CASE k = 0
    BY <2>1, NoLedgerTrue, NoLedgerType DEF Restored
  <2>2. CASE k # 0
    <3>1. k \in 1..Len(checkpoints)
      BY <2>2, CycleAssumption DEF Anchor, CycleAssumption
    <3> QED
      BY <2>2, <3>1 DEF Restored, IInv, TypeOK, LedgersAreTrue
  <2> QED
    BY <2>1, <2>2
<1>2. TypeOK'
  BY <1>1 DEF IInv, TypeOK
<1>3. Position'
  BY Away DEF Working
<1>4. LedgersAreTrue'
  BY <1>1, RejectionStays, BridgeFrame DEF IInv, LedgersAreTrue, RejectionIsTrue
<1> QED
  BY <1>2, <1>3, <1>4, DurableFrame DEF IInv

LEMMA EndSessionFacts ==
  ASSUME IInv, EndSession, UNCHANGED <<bridge, checkpoints>>
  PROVE  /\ LedgersAreTrue' /\ Position'
         /\ pc' = "closed" /\ cycle' = None /\ anchor' \in Anchor
         /\ ledger' \in [Cycle -> Verdict \cup {None}] /\ result' = None
<1> USE DEF EndSession, To
<1>1. Position'
  BY Away DEF Working
<1>2. LedgersAreTrue'
  BY NoLedgerTrue, RejectionStays, BridgeFrame DEF IInv, LedgersAreTrue, RejectionIsTrue
<1>3. 0 \in Anchor
  BY CycleAssumption DEF Anchor, CycleAssumption
<1> QED
  BY <1>1, <1>2, <1>3, NoLedgerType

LEMMA CloseStep ==
  ASSUME IInv, Close
  PROVE  IInv'
<1> USE DEF Close
<1>1. TypeOK'
  BY EndSessionFacts DEF IInv, TypeOK
<1>2. BridgeIsOrderly'
  <2>1. \A c \in Cycle : handler'[c] \in {handler[c], "none"}
    OBVIOUS
  <2> QED
    BY <2>1 DEF IInv, BridgeIsOrderly, Decided
<1> QED
  BY <1>1, <1>2, EndSessionFacts, BridgeFrame, BridgeMove DEF IInv

LEMMA CrashStep ==
  ASSUME IInv, Crash
  PROVE  IInv'
<1> USE DEF Crash
<1>1. TypeOK'
  BY EndSessionFacts DEF IInv, TypeOK
<1> QED
  BY <1>1, EndSessionFacts, DurableFrame DEF IInv

LEMMA PreflightStep ==
  ASSUME IInv, NEW c \in Cycle, Preflight(c)
  PROVE  IInv'
<1> USE DEF Preflight, To, worldVars
<1>1. CASE ~Admissible(c)
  BY <1>1, RaiseStep
<1>2. CASE Admissible(c)
  <2>1. /\ cycle' = c /\ pc' \in {"authorize", "recover"} /\ slot' = <<c, anchor>>
        /\ pc' = "recover" => journal[<<c, anchor>>] # None
        /\ UNCHANGED <<anchor, ledger, result>>
    BY <1>2 DEF slot
  <2>2. TypeOK'
    BY <1>2, <2>1 DEF IInv, TypeOK, Working
  <2>3. Position'
    BY <1>2, <2>1 DEF Position, Working, Admissible
  <2> QED
    BY <2>1, <2>2, <2>3, DurableFrame, LedgersFrame DEF IInv
<1> QED
  BY <1>1, <1>2

LEMMA NotCommittedStep ==
  ASSUME IInv, NotCommitted
  PROVE  IInv'
<1> USE DEF NotCommitted, To, worldVars
<1>1. TypeOK'
  BY DEF IInv, TypeOK, Working
<1>2. Position'
  BY DEF IInv, Position, Working, slot
<1> QED
  BY <1>1, <1>2, DurableFrame, LedgersFrame DEF IInv

LEMMA CompleteStep ==
  ASSUME IInv, Complete
  PROVE  IInv'
<1> USE DEF Complete, To, worldVars
<1>1. TypeOK'
  BY DEF IInv, TypeOK, Position, Working
<1>2. Position'
  BY DEF IInv, Position, Working, slot
<1> QED
  BY <1>1, <1>2, DurableFrame, LedgersFrame DEF IInv

LEMMA CheckpointStep ==
  ASSUME IInv, Checkpoint
  PROVE  IInv'
<1> USE DEF Checkpoint, To, worldVars
<1>1. /\ checkpoints \in Seq([Cycle -> Verdict \cup {None}])
      /\ ledger \in [Cycle -> Verdict \cup {None}]
  BY DEF IInv, TypeOK
<1>2. /\ checkpoints' \in Seq([Cycle -> Verdict \cup {None}])
      /\ Len(checkpoints') = Len(checkpoints) + 1
      /\ \A k \in 1..Len(checkpoints) : checkpoints'[k] = checkpoints[k]
      /\ checkpoints'[Len(checkpoints) + 1] = ledger
  BY <1>1
<1>3. Len(checkpoints) \in Nat /\ MaxCheckpoints \in Nat
  BY <1>1, CycleAssumption DEF CycleAssumption
<1>4. TypeOK'
  BY <1>2, <1>3 DEF IInv, TypeOK, Anchor
<1>5. Position'
  BY Away DEF Working
<1>6. LedgersAreTrue'
  BY <1>2, <1>3, RejectionStays, BridgeFrame DEF IInv, LedgersAreTrue, RejectionIsTrue
<1> QED
  BY <1>4, <1>5, <1>6, DurableFrame DEF IInv

-----------------------------------------------------------------------------
(* The session, where it writes its intent.                                *)

\* What holds of the intent at hand.
LEMMA AtHand ==
  ASSUME IInv, pc \in Working \ {"authorize", "checkpoint"}
  PROVE  /\ cycle \in Cycle /\ slot \in Slot /\ slot[1] = cycle /\ slot[2] = anchor
         /\ journal[slot] # None /\ journal[slot] \in Intent
         /\ journal[slot].phase \in Nonterminal /\ slot \in Unresolved
         /\ journal[slot].effect \in Effect \cup {None}
<1>1. cycle \in Cycle /\ anchor \in Anchor
  BY DEF IInv, TypeOK, Position
<1>2. slot \in Slot /\ slot[1] = cycle /\ slot[2] = anchor
  BY <1>1, SlotFacts DEF slot
<1>3. journal[slot] # None /\ journal[slot].phase \in Nonterminal
  BY DEF IInv, Position
<1>4. journal[slot] \in Intent
  BY <1>2, <1>3 DEF IInv, TypeOK
<1> QED
  BY <1>1, <1>2, <1>3, <1>4 DEF Unresolved, Intent

LEMMA RecoverCommittedStep ==
  ASSUME IInv, RecoverCommitted
  PROVE  IInv'
<1> DEFINE confirmed == FromHandle("CONFIRMED")
           e == journal[slot].effect
<1>1. pc = "recover" /\ UNCHANGED <<committed, worldVars, checkpoints>>
  BY DEF RecoverCommitted
<1>2. /\ cycle \in Cycle /\ slot[1] = cycle /\ slot[2] = anchor
      /\ journal[slot] # None /\ journal[slot].phase \in Nonterminal /\ slot \in Unresolved
  BY <1>1, AtHand DEF Working
<1>3. CASE Raise /\ UNCHANGED journal
  BY <1>1, <1>3, RaiseStep
<1>4. CASE /\ Proof(cycle) = "applied" /\ To("consume") /\ UNCHANGED <<cycle, anchor, ledger, result>>
           /\ IF Resolved(e) THEN UNCHANGED journal ELSE SetIntent(slot, "RECONCILED", confirmed)
  <2> USE DEF To, worldVars
  <2>1. /\ BridgeIsOrderly' /\ BridgeStable /\ LedgersAreTrue' /\ slot' = slot
    BY <1>1, <1>4, WorldFrame, LedgersFrame DEF slot
  <2>2. /\ journal' \in [Slot -> Intent \cup {None}]
        /\ RecordHasIntent' /\ JournalIsProven' /\ PhaseFitsEffect' /\ OneOpen'
        /\ journal'[slot] # None /\ journal'[slot].phase \in Nonterminal
    <3>1. CASE Resolved(e)
      BY <1>1, <1>2, <1>4, <3>1, DurableFrame DEF IInv, TypeOK
    <3>2. CASE ~Resolved(e)
      <4>1. Proven(slot, confirmed)
        BY <1>2, <1>4, ProofFacts, HandleFacts DEF Proven, Told, IInv
      <4>2. confirmed \in Effect \cup {None} /\ Resolved(confirmed)
        BY HandleFacts
      <4>3. "RECONCILED" \in Phase /\ "RECONCILED" \in Nonterminal
        BY DEF Phase, Nonterminal
      <4> HIDE DEF confirmed, e
      <4>4. SetIntent(slot, "RECONCILED", confirmed)
        BY <1>4, <3>2
      <4> QED
        BY <1>1, <1>2, <4>1, <4>2, <4>3, <4>4, WriteIntent
    <3> QED
      BY <3>1, <3>2
  <2>3. TypeOK'
    BY <1>1, <1>4, <2>2 DEF IInv, TypeOK, Working
  <2>4. Position'
    BY <1>2, <1>4, <2>1, <2>2 DEF Position, Working
  <2> QED
    BY <2>1, <2>2, <2>3, <2>4 DEF IInv
<1> QED
  BY <1>3, <1>4 DEF RecoverCommitted

LEMMA PrepareStep ==
  ASSUME IInv, Prepare
  PROVE  IInv'
<1>1. pc = "authorize" /\ UNCHANGED <<committed, worldVars, checkpoints>> /\ cycle \in Cycle
  BY DEF Prepare, IInv, Position, Working
<1>2. CASE Raise /\ UNCHANGED journal
  BY <1>1, <1>2, RaiseStep
<1>3. CASE /\ ScopeClear(slot) /\ journal[slot] = None /\ SetIntent(slot, "PREPARED", None)
           /\ To("dispatch") /\ UNCHANGED <<cycle, anchor, ledger, result>>
  <2> USE DEF To, worldVars
  <2>1. /\ BridgeIsOrderly' /\ BridgeStable /\ LedgersAreTrue' /\ slot' = slot
    BY <1>1, <1>3, WorldFrame, LedgersFrame DEF slot
  <2>2. "PREPARED" \in Phase /\ "PREPARED" \in Nonterminal /\ ~Resolved(None)
    BY DEF Phase, Nonterminal, Resolved
  <2>3. /\ journal' \in [Slot -> Intent \cup {None}]
        /\ RecordHasIntent' /\ JournalIsProven' /\ PhaseFitsEffect' /\ OneOpen'
        /\ journal'[slot] # None /\ journal'[slot].phase = "PREPARED"
    BY <1>1, <1>3, <2>2, WriteIntent
  <2>4. TypeOK'
    BY <1>1, <1>3, <2>3 DEF IInv, TypeOK, Working
  <2>5. Position'
    BY <1>1, <1>3, <2>1, <2>2, <2>3 DEF Position, Working
  <2> QED
    BY <2>1, <2>3, <2>4, <2>5 DEF IInv
<1>4. CASE /\ journal[slot] # None /\ UNCHANGED journal
           /\ To("reconcile") /\ UNCHANGED <<cycle, anchor, ledger, result>>
  <2> USE DEF To, worldVars
  <2>1. TypeOK'
    BY <1>1, <1>4 DEF IInv, TypeOK, Working
  <2>2. Position'
    BY <1>1, <1>4 DEF IInv, Position, Working, slot
  <2> QED
    BY <1>1, <1>4, <2>1, <2>2, DurableFrame, LedgersFrame DEF IInv
<1> QED
  BY <1>2, <1>3, <1>4 DEF Prepare

LEMMA RecordResultStep ==
  ASSUME IInv, RecordResult
  PROVE  IInv'
<1> USE DEF To, worldVars
<1>1. /\ pc = "received" /\ SetIntent(slot, "RESULT_RECORDED", result)
      /\ pc' = IF Resolved(result) THEN "complete" ELSE "resolve"
      /\ UNCHANGED <<committed, worldVars, checkpoints, cycle, anchor, ledger, result>>
  BY DEF RecordResult
<1>2. cycle \in Cycle /\ slot \in Unresolved
  BY <1>1, AtHand DEF Working
<1>3. /\ result \in Effect
      /\ Resolved(result) => result.certainty = "CONFIRMED" /\ Proven(slot, result)
      /\ bridge[cycle] # None /\ bridge[cycle].anchor = anchor
  BY <1>1 DEF IInv, Position
<1>4. "RESULT_RECORDED" \in Phase /\ "RESULT_RECORDED" \in Nonterminal
  BY DEF Phase, Nonterminal
<1>5. /\ journal' \in [Slot -> Intent \cup {None}]
      /\ RecordHasIntent' /\ JournalIsProven' /\ PhaseFitsEffect' /\ OneOpen'
      /\ journal'[slot] # None
      /\ journal'[slot].phase = "RESULT_RECORDED" /\ journal'[slot].effect = result
  BY <1>1, <1>2, <1>3, <1>4, WriteIntent
<1>6. /\ BridgeIsOrderly' /\ BridgeStable /\ LedgersAreTrue' /\ slot' = slot
  BY <1>1, WorldFrame, LedgersFrame DEF slot
<1>7. TypeOK'
  BY <1>1, <1>5 DEF IInv, TypeOK, Working
<1>8. Resolved(journal'[slot].effect) = Resolved(result)
  BY <1>5
<1>9. Position'
  <2>1. CASE pc' = "complete"
    BY <1>2, <1>4, <1>5, <1>6, <1>1, <2>1 DEF Position, Working
  <2>2. CASE pc' = "resolve"
    BY <1>1, <1>2, <1>3, <1>4, <1>5, <1>6, <1>8, <2>2 DEF Position, Working, Resolved
  <2> QED
    BY <1>1, <2>1, <2>2
<1> QED
  BY <1>5, <1>6, <1>7, <1>9 DEF IInv

LEMMA ResolveStep ==
  ASSUME IInv, Resolve
  PROVE  IInv'
<1> USE DEF To, worldVars
<1> DEFINE d == IF ledger[cycle] = "rejected" THEN "not_applied" ELSE Proof(cycle)
           e == Reconciled(d)
<1>1. pc = "resolve" /\ UNCHANGED <<committed, worldVars, checkpoints>>
  BY DEF Resolve
<1>2. CASE Raise /\ UNCHANGED journal
  BY <1>1, <1>2, RaiseStep
<1>3. CASE /\ Resolved(e) /\ SetIntent(slot, "RECONCILED", e) /\ result' = e
           /\ To("complete") /\ UNCHANGED <<cycle, anchor, ledger>>
  <2>1. cycle \in Cycle /\ slot[1] = cycle /\ slot[2] = anchor /\ slot \in Unresolved
    BY <1>1, AtHand DEF Working
  <2>2. bridge[cycle] # None /\ bridge[cycle].anchor = anchor
    BY <1>1 DEF IInv, Position
  <2>3. d \in {"applied", "not_applied"} => bridge[cycle].disposition = d
    <3>1. CASE ledger[cycle] = "rejected"
      BY <2>1, <3>1 DEF IInv, LedgersAreTrue, RejectionIsTrue
    <3>2. CASE ledger[cycle] # "rejected"
      BY <2>1, <3>2, ProofFacts DEF IInv
    <3> QED
      BY <3>1, <3>2
  <2> HIDE DEF d
  <2>4. Proven(slot, e)
    BY <1>3, <2>1, <2>2, <2>3, ReconciledFacts DEF Proven, Told
  <2>5. e \in Effect
    BY ReconciledFacts
  <2>6. "RECONCILED" \in Phase /\ "RECONCILED" \in Nonterminal
    BY DEF Phase, Nonterminal
  <2> HIDE DEF e
  <2>7. /\ journal' \in [Slot -> Intent \cup {None}]
        /\ RecordHasIntent' /\ JournalIsProven' /\ PhaseFitsEffect' /\ OneOpen'
        /\ journal'[slot] # None /\ journal'[slot].phase \in Nonterminal
    BY <1>1, <1>3, <2>1, <2>4, <2>5, <2>6, WriteIntent
  <2>8. /\ BridgeIsOrderly' /\ BridgeStable /\ LedgersAreTrue' /\ slot' = slot
    BY <1>1, <1>3, WorldFrame, LedgersFrame DEF slot
  <2>9. TypeOK'
    BY <1>1, <1>3, <2>5, <2>7 DEF IInv, TypeOK, Working
  <2>10. Position'
    BY <1>3, <2>1, <2>7, <2>8 DEF Position, Working
  <2> QED
    BY <2>7, <2>8, <2>9, <2>10 DEF IInv
<1> QED
  BY <1>2, <1>3 DEF Resolve

LEMMA ReconcileExistingStep ==
  ASSUME IInv, ReconcileExisting
  PROVE  IInv'
<1> USE DEF To, worldVars
<1> DEFINE applied == FromHandle("CONFIRMED")
           void    == FromHandle("NO_EFFECT")
<1>1. pc = "reconcile" /\ UNCHANGED <<committed, worldVars, checkpoints>>
  BY DEF ReconcileExisting
<1>2. /\ cycle \in Cycle /\ slot[1] = cycle /\ slot[2] = anchor /\ slot \in Unresolved
  BY <1>1, AtHand DEF Working
<1>3. /\ applied \in Effect /\ Resolved(applied) /\ applied.certainty = "CONFIRMED"
      /\ void \in Effect /\ Resolved(void) /\ void.certainty = "NO_EFFECT"
  BY HandleFacts
<1>4. /\ Proof(cycle) = "applied" => Proven(slot, applied)
      /\ Proof(cycle) = "not_applied" => Proven(slot, void)
  BY <1>2, <1>3, ProofFacts DEF Proven, Told, IInv
<1>5. /\ "RECONCILED" \in Phase /\ "RECONCILED" \in Nonterminal
      /\ "NOT_APPLIED" \in Phase /\ "NOT_APPLIED" \notin Nonterminal
  BY DEF Phase, Nonterminal
<1>6. CASE Raise /\ UNCHANGED journal
  BY <1>1, <1>6, RaiseStep
<1>7. CASE /\ Proof(cycle) = "applied" /\ SetIntent(slot, "RECONCILED", applied)
           /\ result' = applied /\ pc' = "complete" /\ UNCHANGED <<cycle, anchor, ledger>>
  <2> HIDE DEF applied, void
  <2>1. /\ journal' \in [Slot -> Intent \cup {None}]
        /\ RecordHasIntent' /\ JournalIsProven' /\ PhaseFitsEffect' /\ OneOpen'
        /\ journal'[slot] # None /\ journal'[slot].phase \in Nonterminal
    BY <1>1, <1>2, <1>3, <1>4, <1>5, <1>7, WriteIntent
  <2>2. /\ BridgeIsOrderly' /\ BridgeStable /\ LedgersAreTrue' /\ slot' = slot
    BY <1>1, <1>7, WorldFrame, LedgersFrame DEF slot
  <2>3. TypeOK'
    BY <1>1, <1>3, <1>7, <2>1 DEF IInv, TypeOK, Working
  <2>4. Position'
    BY <1>2, <1>7, <2>1, <2>2 DEF Position, Working
  <2> QED
    BY <2>1, <2>2, <2>3, <2>4 DEF IInv
<1>8. CASE Proof(cycle) = "not_applied" /\ SetIntent(slot, "NOT_APPLIED", void) /\ Raise
  <2> HIDE DEF applied, void
  <2> USE DEF Raise
  <2>1. /\ journal' \in [Slot -> Intent \cup {None}]
        /\ RecordHasIntent' /\ JournalIsProven' /\ PhaseFitsEffect' /\ OneOpen'
    BY <1>1, <1>2, <1>3, <1>4, <1>5, <1>8, WriteIntent
  <2>2. /\ BridgeIsOrderly' /\ BridgeStable /\ LedgersAreTrue'
    BY <1>1, <1>8, WorldFrame, LedgersFrame
  <2>3. TypeOK'
    BY <1>1, <1>8, <2>1 DEF IInv, TypeOK
  <2>4. Position'
    BY <1>8, Away DEF Working
  <2> QED
    BY <2>1, <2>2, <2>3, <2>4 DEF IInv
<1> QED
  BY <1>6, <1>7, <1>8 DEF ReconcileExisting

LEMMA ConsumeStep ==
  ASSUME IInv, Consume
  PROVE  IInv'
<1> USE DEF To, worldVars
<1> DEFINE e == journal[slot].effect
<1>1. pc = "consume" /\ UNCHANGED <<committed, worldVars, checkpoints>>
  BY DEF Consume
<1>2. CASE Raise /\ UNCHANGED journal
  BY <1>1, <1>2, RaiseStep
<1>3. CASE /\ MayConsume(slot) /\ SetIntent(slot, "CONSUMED", e)
           /\ pc' = "checkpoint" /\ UNCHANGED <<cycle, anchor, ledger, result>>
  <2>1. /\ cycle \in Cycle /\ slot \in Slot /\ journal[slot] # None
        /\ e \in Effect \cup {None}
    BY <1>1, AtHand DEF Working
  <2>2. Resolved(e) /\ Proven(slot, e)
    BY <1>3, <2>1 DEF MayConsume, IInv, JournalIsProven
  <2>3. "CONSUMED" \in Phase /\ "CONSUMED" \notin Nonterminal
    BY DEF Phase, Nonterminal
  <2> HIDE DEF e
  <2>4. /\ journal' \in [Slot -> Intent \cup {None}]
        /\ RecordHasIntent' /\ JournalIsProven' /\ PhaseFitsEffect' /\ OneOpen'
    BY <1>1, <1>3, <2>1, <2>2, <2>3, WriteIntent
  <2>5. /\ BridgeIsOrderly' /\ BridgeStable /\ LedgersAreTrue'
    BY <1>1, <1>3, WorldFrame, LedgersFrame
  <2>6. TypeOK'
    BY <1>1, <1>3, <2>4 DEF IInv, TypeOK, Working
  <2>7. Position'
    BY <1>3, <2>1 DEF Position, Working
  <2> QED
    BY <2>4, <2>5, <2>6, <2>7 DEF IInv
<1> QED
  BY <1>2, <1>3 DEF Consume

LEMMA AnswerStep ==
  ASSUME IInv, pc \in {"dispatch", "acting"},
         bridge[cycle] # None, bridge[cycle].anchor = anchor,
         Answer(bridge[cycle].disposition),
         UNCHANGED <<journal, committed, worldVars, checkpoints>>
  PROVE  IInv'
<1> USE DEF To, worldVars
<1> DEFINE d == bridge[cycle].disposition
           v == CASE d = "applied" -> "verified"
                  [] d = "not_applied" -> "rejected"
                  [] OTHER -> "open"
<1>1. /\ result' = Receipt(d) /\ ledger' = [ledger EXCEPT ![cycle] = v]
      /\ pc' = "received" /\ UNCHANGED <<cycle, anchor>>
  BY DEF Answer
<1>2. v \in Verdict /\ (v = "rejected" => d = "not_applied")
  BY DEF Verdict
<1>3. /\ cycle \in Cycle /\ slot[1] = cycle /\ slot[2] = anchor /\ slot' = slot
      /\ journal[slot] # None /\ journal[slot].phase = "PREPARED"
      /\ journal[slot].phase \in Nonterminal
  BY <1>1, AtHand DEF Working, IInv, Position, slot
<1>4. ledger \in [Cycle -> Verdict \cup {None}]
  BY DEF IInv, TypeOK
<1> HIDE DEF v
<1>5. LedgersAreTrue'
  <2>1. \A c \in Cycle : ledger'[c] = "rejected" =>
          bridge[c] # None /\ bridge[c].disposition = "not_applied"
    <3> SUFFICES ASSUME NEW c \in Cycle, ledger'[c] = "rejected"
                 PROVE  bridge[c] # None /\ bridge[c].disposition = "not_applied"
      OBVIOUS
    <3>1. CASE c = cycle
      BY <1>1, <1>2, <1>4, <3>1
    <3>2. CASE c # cycle
      BY <1>1, <1>4, <3>2 DEF IInv, LedgersAreTrue, RejectionIsTrue
    <3> QED
      BY <3>1, <3>2
  <2> QED
    BY <2>1 DEF IInv, LedgersAreTrue, RejectionIsTrue
<1>6. result' \in Effect /\ Resolved(result') => d = "applied" /\ result'.certainty = "CONFIRMED"
  BY <1>1, ReceiptFacts
<1>7. result' \in Effect
  BY <1>1, ReceiptFacts
<1>8. Resolved(result)' => result'.certainty = "CONFIRMED" /\ Proven(slot, result)'
  BY <1>1, <1>3, <1>6, <1>7 DEF Resolved, Proven, Told
<1>9. TypeOK'
  BY <1>1, <1>2, <1>4, <1>7 DEF IInv, TypeOK, Working
<1>10. Position'
  BY <1>1, <1>3, <1>7, <1>8 DEF Position, Working
<1> QED
  BY <1>5, <1>9, <1>10, DurableFrame DEF IInv

LEMMA ReceiveStep ==
  ASSUME IInv, Receive
  PROVE  IInv'
BY AnswerStep DEF Receive, IInv, Position

LEMMA DispatchStep ==
  ASSUME IInv, Dispatch
  PROVE  IInv'
<1> USE DEF To, SetHandler
<1> DEFINE new == [anchor |-> anchor, state |-> "intent", disposition |-> "unknown"]
<1>1. pc = "dispatch" /\ UNCHANGED <<journal, committed, performed, checkpoints>>
  BY DEF Dispatch
<1>2. /\ cycle \in Cycle /\ slot = <<cycle, anchor>>
      /\ journal[slot] # None /\ journal[slot].phase = "PREPARED"
      /\ journal[slot].phase \in Nonterminal
  BY <1>1, AtHand DEF Working, IInv, Position, slot
<1>3. CASE /\ bridge[cycle] = None /\ bridge' = [bridge EXCEPT ![cycle] = new]
           /\ handler' = [handler EXCEPT ![cycle] = "pending"] /\ orphans' = orphans \ {cycle}
           /\ pc' = "acting" /\ UNCHANGED <<cycle, anchor, ledger, result>>
  <2>1. new \in BridgeRecord /\ new # None /\ new.anchor = anchor /\ new.disposition = "unknown"
    <3>1. new \in BridgeRecord
      BY DEF BridgeRecord, Disposition, IInv, TypeOK
    <3> QED
      BY <3>1, NoneDistinct
  <2> HIDE DEF new
  <2>2. bridge'[cycle] = new /\ \A c \in Cycle : c # cycle => bridge'[c] = bridge[c]
    BY <1>2, <1>3 DEF IInv, TypeOK
  <2>3. BridgeStable
    BY <1>2, <1>3, <2>1, <2>2 DEF BridgeStable
  <2>4. BridgeIsOrderly'
    <3>1. performed[cycle] = 0
      BY <1>2, <1>3 DEF IInv, BridgeIsOrderly
    <3>2. handler'[cycle] = "pending" /\ \A c \in Cycle : c # cycle => handler'[c] = handler[c]
      BY <1>2, <1>3 DEF IInv, TypeOK
    <3> QED
      BY <1>1, <2>1, <2>2, <3>1, <3>2 DEF IInv, BridgeIsOrderly, Decided
  <2>5. TypeOK'
    BY <1>1, <1>3, <2>1 DEF IInv, TypeOK, Working
  <2>6. Position'
    BY <1>1, <1>2, <1>3, <2>1, <2>2 DEF Position, Working, slot
  <2> QED
    BY <1>1, <1>3, <2>3, <2>4, <2>5, <2>6, BridgeMove, LedgersFrame DEF IInv
<1>4. CASE /\ bridge[cycle] # None /\ SameRequest(cycle) /\ Answer(bridge[cycle].disposition)
           /\ UNCHANGED <<bridge, handler, orphans>>
  BY <1>1, <1>4, AnswerStep DEF SameRequest, worldVars
<1>5. CASE Raise /\ UNCHANGED <<bridge, handler, orphans>>
  BY <1>1, <1>5, RaiseStep DEF worldVars
<1> QED
  BY <1>3, <1>4, <1>5 DEF Dispatch, Fresh

-----------------------------------------------------------------------------
(* The theorems.                                                           *)

LEMMA InitIInv == Init => IInv
<1> SUFFICES ASSUME Init PROVE IInv
  OBVIOUS
<1> USE DEF Init
<1>1. 0 \in Anchor /\ MaxCheckpoints \in Nat
  BY CycleAssumption DEF Anchor, CycleAssumption
<1>2. <<>> \in Seq([Cycle -> Verdict \cup {None}]) /\ Len(<<>>) = 0
  OBVIOUS
<1>3. TypeOK
  BY <1>1, <1>2, NoLedgerType DEF TypeOK
<1>4. BridgeIsOrderly /\ RecordHasIntent /\ JournalIsProven /\ PhaseFitsEffect
  BY DEF BridgeIsOrderly, RecordHasIntent, JournalIsProven, PhaseFitsEffect, Decided
<1>5. LedgersAreTrue
  BY <1>2, NoLedgerTrue DEF LedgersAreTrue
<1>6. Position
  BY DEF Position, Working
<1>7. OneOpen
  BY DEF OneOpen, Unresolved
<1> QED
  BY <1>3, <1>4, <1>5, <1>6, <1>7 DEF IInv

LEMMA StutterStep ==
  ASSUME IInv, UNCHANGED vars
  PROVE  IInv'
<1> USE DEF vars, worldVars, sessionVars
<1>1. TypeOK'
  BY DEF IInv, TypeOK
<1> QED
  BY <1>1, DurableFrame, LedgersFrame, PositionFrame DEF IInv

LEMMA NextIInv == IInv /\ [Next]_vars => IInv'
<1> SUFFICES ASSUME IInv, [Next]_vars PROVE IInv'
  OBVIOUS
<1>1. ASSUME NEW c \in Cycle, BridgeStep(c) PROVE IInv'
  BY <1>1, PerformStep, FinishStep, DieStep DEF BridgeStep
<1>2. CASE CycleStep
  BY <1>2, PreflightStep, NotCommittedStep, RecoverCommittedStep, PrepareStep, DispatchStep,
     ReceiveStep, RecordResultStep, ResolveStep, ReconcileExistingStep, CompleteStep,
     ConsumeStep, CheckpointStep DEF CycleStep
<1>3. ASSUME NEW k \in Anchor, Open(k) PROVE IInv'
  BY <1>3, OpenStep
<1>4. CASE Close
  BY <1>4, CloseStep
<1>5. CASE Crash
  BY <1>5, CrashStep
<1>6. CASE Fail
  BY <1>6, RaiseStep DEF Fail
<1>7. CASE UNCHANGED vars
  BY <1>7, StutterStep
<1> QED
  BY <1>1, <1>2, <1>3, <1>4, <1>5, <1>6, <1>7 DEF Next, Orderly

LEMMA Invariance == Spec => []IInv
<1>1. Init => IInv
  BY InitIInv
<1>2. IInv /\ [Next]_vars => IInv'
  BY NextIInv
<1> QED
  BY <1>1, <1>2, PTL DEF Spec

LEMMA AtMostOneElement ==
  ASSUME NEW S, \A x, y \in S : x = y
  PROVE  Cardinality(S) <= 1
<1>1. CASE S = {}
  <2>1. Cardinality({}) = 0
    BY FS_EmptySet
  <2> QED
    BY <1>1, <2>1
<1>2. CASE S # {}
  <2>1. PICK x \in S : S = {x}
    BY <1>2
  <2>2. Cardinality({x}) = 1
    BY FS_Singleton
  <2> QED
    BY <2>1, <2>2
<1> QED
  BY <1>1, <1>2

\* Each variable keeps its type, for any cycles and checkpoints.
THEOREM TypeCorrect == Spec => []TypeOK
<1>1. IInv => TypeOK
  BY DEF IInv
<1> QED
  BY <1>1, Invariance, PTL

\* No action takes effect twice: the guard of Dispatch (ActionRecoveryJournal.begin)
\* is enough, over every crash, restore, repeated request and orphaned bridge.
THEOREM EffectHappensOnce == Spec => []AtMostOnce
<1>1. IInv => AtMostOnce
  BY DEF IInv, BridgeIsOrderly, AtMostOnce
<1> QED
  BY <1>1, Invariance, PTL

\* Every verdict of the journal is the bridge's report of that very request: over
\* crashes, restores and repeated requests nothing but a report settles an effect
\* (reconcile in action_coordinator.py and action_recovery.js).
THEOREM JournalSaysWhatWasReported == Spec => []JournalIsProven
<1>1. IInv => JournalIsProven
  BY DEF IInv
<1> QED
  BY <1>1, Invariance, PTL

\* The journal loses no effect that its handler did not report as rejected: an
\* action without a report keeps an open intent, one reported applied is not voided.
THEOREM JournalCoversEffects == Spec => []EffectIsCovered
<1>1. ASSUME IInv, NEW c \in Cycle, bridge[c] # None
      PROVE  \E k \in Anchor : /\ k = bridge[c].anchor /\ <<c, k>> \in Slot
                               /\ journal[<<c, k>>] # None /\ journal[<<c, k>>] \in Intent
  <2>1. bridge[c].anchor \in Anchor
    BY <1>1 DEF IInv, TypeOK, BridgeRecord
  <2>2. <<c, bridge[c].anchor>> \in Slot
    BY <2>1, SlotFacts
  <2>3. journal[<<c, bridge[c].anchor>>] # None
    BY <1>1 DEF IInv, RecordHasIntent
  <2>4. journal[<<c, bridge[c].anchor>>] \in Intent
    BY <1>1, <2>2, <2>3 DEF IInv, TypeOK
  <2> QED
    BY <2>1, <2>2, <2>3, <2>4
<1>2. ASSUME IInv, NEW c \in Cycle, handler[c] # "none" \/ performed[c] > 0, Told(c) = "unknown"
      PROVE  \E k \in Anchor : <<c, k>> \in Unresolved
  <2>1. bridge[c] # None /\ bridge[c].disposition = "unknown"
    BY <1>2 DEF IInv, BridgeIsOrderly, Told
  <2>2. PICK k \in Anchor : /\ k = bridge[c].anchor /\ <<c, k>> \in Slot
                            /\ journal[<<c, k>>] # None /\ journal[<<c, k>>] \in Intent
    BY <1>1, <1>2, <2>1
  <2>3. ~Resolved(journal[<<c, k>>].effect)
    <3>1. <<c, k>>[1] = c
      BY SlotFacts
    <3> QED
      BY <1>2, <2>2, <3>1 DEF IInv, JournalIsProven, Proven, Told
  <2>4. journal[<<c, k>>].phase \notin {"CONSUMED", "NOT_APPLIED"}
    BY <1>2, <2>2, <2>3 DEF IInv, PhaseFitsEffect
  <2> QED
    BY <2>2, <2>4 DEF Unresolved, Intent, Phase
<1>3. ASSUME IInv, NEW c \in Cycle, Told(c) = "applied"
      PROVE  \E k \in Anchor : /\ journal[<<c, k>>] # None
                               /\ journal[<<c, k>>].phase # "NOT_APPLIED"
  <2>1. bridge[c] # None /\ bridge[c].disposition = "applied"
    BY <1>3 DEF Told
  <2>2. PICK k \in Anchor : k = bridge[c].anchor /\ journal[<<c, k>>] # None
    BY <1>1, <1>3, <2>1
  <2> QED
    BY <1>3, <2>1, <2>2 DEF IInv, RecordHasIntent
<1>4. IInv => EffectIsCovered
  BY <1>2, <1>3 DEF EffectIsCovered
<1> QED
  BY <1>4, Invariance, PTL

\* One uncertain effect at a time: the scope check of the preflight and of the
\* authorization (effect_intents.py) is enough, as a session does one cycle at a time.
THEOREM OneUncertainEffect == Spec => []OneUnresolved
<1>1. IInv => OneUnresolved
  BY AtMostOneElement DEF IInv, OneOpen, OneUnresolved
<1> QED
  BY <1>1, Invariance, PTL

\* An effect is consumed for one intent, whatever checkpoints were restored: the
\* request digest that the bridge compares covers the checkpoint.
THEOREM EffectConsumedOnce == Spec => []ConsumedOnce
<1>1. IInv => ConsumedOnce
  <2> SUFFICES ASSUME IInv, NEW c \in Cycle
               PROVE  Cardinality({k \in Anchor : /\ journal[<<c, k>>] # None
                                                  /\ journal[<<c, k>>].phase = "CONSUMED"}) <= 1
    BY DEF ConsumedOnce
  <2> DEFINE K == {k \in Anchor : /\ journal[<<c, k>>] # None
                                  /\ journal[<<c, k>>].phase = "CONSUMED"}
  <2>1. \A k \in K : bridge[c].anchor = k
    <3> SUFFICES ASSUME NEW k \in Anchor, journal[<<c, k>>] # None,
                        journal[<<c, k>>].phase = "CONSUMED"
                 PROVE  bridge[c].anchor = k
      OBVIOUS
    <3>1. <<c, k>> \in Slot /\ <<c, k>>[1] = c /\ <<c, k>>[2] = k
      BY SlotFacts
    <3>2. Resolved(journal[<<c, k>>].effect)
      BY <3>1 DEF IInv, PhaseFitsEffect
    <3>3. Proven(<<c, k>>, journal[<<c, k>>].effect)
      BY <3>1, <3>2 DEF IInv, JournalIsProven
    <3> QED
      BY <3>1, <3>3 DEF Proven, Told
  <2>2. \A k, l \in K : k = l
    BY <2>1
  <2> QED
    BY <2>2, AtMostOneElement
<1> QED
  BY <1>1, Invariance, PTL

-----------------------------------------------------------------------------
(* A settled intent is final.                                              *)

FinalStep ==
  \A s \in Slot : journal[s] # None =>
    /\ journal[s].phase \notin Nonterminal => journal'[s] = journal[s]
    /\ journal[s].phase = "RECONCILED" => journal'[s].effect = journal[s].effect
    /\ Resolved(journal[s].effect) =>
         journal'[s].effect.certainty = journal[s].effect.certainty

LEMMA WriteIsFinal ==
  ASSUME IInv, cycle \in Cycle, NEW phase, NEW e, SetIntent(slot, phase, e),
         journal[slot] # None =>
           /\ journal[slot].phase \in Nonterminal
           /\ journal[slot].phase = "RECONCILED" => e = journal[slot].effect
           /\ Resolved(journal[slot].effect) => e.certainty = journal[slot].effect.certainty
  PROVE  FinalStep
<1> DEFINE new == [phase |-> phase, effect |-> e]
<1>1. slot \in Slot /\ journal \in [Slot -> Intent \cup {None}]
  BY SlotFacts DEF slot, IInv, TypeOK
<1>2. journal' = [journal EXCEPT ![slot] = new] /\ new.effect = e
  BY DEF SetIntent
<1> HIDE DEF new
<1>3. journal'[slot] = new /\ \A s \in Slot : s # slot => journal'[s] = journal[s]
  BY <1>1, <1>2
<1> QED
  BY <1>2, <1>3 DEF FinalStep

LEMMA RecoverCommittedFinal ==
  ASSUME IInv, RecoverCommitted
  PROVE  FinalStep
<1>1. /\ cycle \in Cycle /\ journal[slot].phase \in Nonterminal
      /\ journal[slot].phase = "RECONCILED" => Resolved(journal[slot].effect)
  BY AtHand DEF RecoverCommitted, Working, IInv, PhaseFitsEffect
<1>2. CASE UNCHANGED journal
  BY <1>2 DEF FinalStep
<1>3. CASE ~Resolved(journal[slot].effect)
           /\ SetIntent(slot, "RECONCILED", FromHandle("CONFIRMED"))
  BY <1>1, <1>3, WriteIsFinal
<1> QED
  BY <1>2, <1>3 DEF RecoverCommitted

LEMMA RecordResultFinal ==
  ASSUME IInv, RecordResult
  PROVE  FinalStep
<1>1. cycle \in Cycle /\ slot \in Slot /\ journal[slot] # None
  BY AtHand DEF RecordResult, Working
<1>2. journal[slot].phase = "PREPARED"
  BY DEF RecordResult, IInv, Position
<1>3. ~Resolved(journal[slot].effect)
  BY <1>1, <1>2 DEF IInv, PhaseFitsEffect, Resolved
<1> QED
  BY <1>1, <1>2, <1>3, WriteIsFinal DEF RecordResult, Nonterminal

LEMMA ResolveFinal ==
  ASSUME IInv, Resolve
  PROVE  FinalStep
<1>1. /\ cycle \in Cycle /\ journal[slot].phase = "RESULT_RECORDED"
      /\ ~Resolved(journal[slot].effect)
  BY AtHand DEF Resolve, Working, IInv, Position
<1>2. CASE UNCHANGED journal
  BY <1>2 DEF FinalStep
<1>3. ASSUME NEW e, SetIntent(slot, "RECONCILED", e) PROVE FinalStep
  BY <1>1, <1>3, WriteIsFinal DEF Nonterminal
<1> QED
  BY <1>2, <1>3 DEF Resolve

LEMMA ReconcileExistingFinal ==
  ASSUME IInv, ReconcileExisting
  PROVE  FinalStep
<1> DEFINE applied == FromHandle("CONFIRMED")
           void    == FromHandle("NO_EFFECT")
<1>1. cycle \in Cycle /\ slot \in Slot /\ journal[slot] # None /\ journal[slot].phase \in Nonterminal
  BY AtHand DEF ReconcileExisting, Working
<1>2. applied.certainty = "CONFIRMED" /\ Resolved(void)
  BY HandleFacts
<1>3. /\ journal[slot].phase = "PREPARED" => ~Resolved(journal[slot].effect)
      /\ journal[slot].phase = "RECONCILED" => Resolved(journal[slot].effect)
      /\ journal[slot].phase = "RESULT_RECORDED" /\ Resolved(journal[slot].effect) =>
           journal[slot].effect.certainty = "CONFIRMED"
  BY <1>1 DEF IInv, PhaseFitsEffect, Resolved
<1> HIDE DEF applied, void
<1>4. CASE UNCHANGED journal
  BY <1>4 DEF FinalStep
<1>5. CASE MayReconcile(slot, applied) /\ SetIntent(slot, "RECONCILED", applied)
  BY <1>1, <1>2, <1>3, <1>5, WriteIsFinal DEF MayReconcile
<1>6. CASE MayVoid(slot, void) /\ SetIntent(slot, "NOT_APPLIED", void)
  BY <1>1, <1>2, <1>3, <1>6, WriteIsFinal DEF MayVoid
<1> QED
  BY <1>4, <1>5, <1>6 DEF ReconcileExisting, applied, void

LEMMA ConsumeFinal ==
  ASSUME IInv, Consume
  PROVE  FinalStep
<1>1. cycle \in Cycle /\ journal[slot].phase \in Nonterminal
  BY AtHand DEF Consume, Working
<1>2. CASE UNCHANGED journal
  BY <1>2 DEF FinalStep
<1>3. CASE SetIntent(slot, "CONSUMED", journal[slot].effect)
  BY <1>1, <1>3, WriteIsFinal
<1> QED
  BY <1>2, <1>3 DEF Consume

LEMMA PrepareFinal ==
  ASSUME IInv, Prepare
  PROVE  FinalStep
<1>1. cycle \in Cycle
  BY DEF Prepare, IInv, Position, Working
<1>2. CASE UNCHANGED journal
  BY <1>2 DEF FinalStep
<1>3. CASE journal[slot] = None /\ SetIntent(slot, "PREPARED", None)
  BY <1>1, <1>3, WriteIsFinal
<1> QED
  BY <1>2, <1>3 DEF Prepare

\* A terminal intent never changes, a reconciled proof is never replaced and a
\* settled effect never turns into its opposite (effect/api/transitions.py).
THEOREM SettledStaysSettled == Spec => SettledIsFinal
<1>1. IInv /\ [Next]_vars => [FinalStep]_vars
  <2> SUFFICES ASSUME IInv, Next PROVE FinalStep
    OBVIOUS
  <2>1. CASE UNCHANGED journal
    BY <2>1 DEF FinalStep
  <2>2. CASE RecoverCommitted \/ Prepare \/ RecordResult \/ Resolve \/ ReconcileExisting \/ Consume
    BY <2>2, RecoverCommittedFinal, PrepareFinal, RecordResultFinal, ResolveFinal,
       ReconcileExistingFinal, ConsumeFinal
  <2>3. ASSUME NEW c \in Cycle, BridgeStep(c) PROVE UNCHANGED journal
    BY <2>3 DEF BridgeStep, Perform, Report, Finish, GiveUp, Die
  <2>4. ASSUME NEW c \in Cycle, Preflight(c) PROVE UNCHANGED journal
    BY <2>4 DEF Preflight
  <2>5. CASE NotCommitted \/ Dispatch \/ Receive \/ Complete \/ Checkpoint
    BY <2>1, <2>5 DEF NotCommitted, Dispatch, Receive, Complete, Checkpoint
  <2>6. CASE (\E k \in Anchor : Open(k)) \/ Close \/ Crash \/ Fail
    BY <2>1, <2>6 DEF Open, Close, Crash, Fail
  <2> QED
    BY <2>1, <2>2, <2>3, <2>4, <2>5, <2>6 DEF Next, Orderly, CycleStep
<1> QED
  BY <1>1, Invariance, PTL DEF Spec, SettledIsFinal, FinalStep
=============================================================================
