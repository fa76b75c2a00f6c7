----------------------- MODULE ActionCycleRefinement -----------------------
(***************************************************************************)
(* ActionCycle implements EffectLog, for any cycles and any number of      *)
(* checkpoints.                                                            *)
(***************************************************************************)
EXTENDS ActionCycleProofs

Begun == {c \in Cycle : \E s \in Slot : s[1] = c /\ journal[s] # None}

Settled == {c \in Cycle : \E s \in Slot :
              s[1] = c /\ journal[s] # None /\ Resolved(journal[s].effect)}

Verdicts == [c \in Cycle |-> VerdictOf(c)]

Reports == [c \in Cycle |-> Told(c)]

\* The verdict of the refinement mapping is the report on a settled cycle.
VerdictIsReported ==
  \A c \in Cycle : Verdicts[c] =
    IF c \in Settled THEN (IF Reports[c] = "applied" THEN "confirmed" ELSE "refuted")
    ELSE IF c \in Begun THEN "open" ELSE "none"

LEMMA VerdictsChange ==
  ASSUME NEW c \in Cycle, \A d \in Cycle : d # c => Verdicts'[d] = Verdicts[d]
  PROVE  Verdicts' = [Verdicts EXCEPT ![c] = Verdicts'[c]]
<1>1. Verdicts' = [d \in Cycle |-> Verdicts'[d]]
  BY DEF Verdicts
<1>2. Verdicts = [d \in Cycle |-> Verdicts[d]]
  BY DEF Verdicts
<1> QED
  BY <1>1, <1>2

LEMMA Certainties == IInv => VerdictIsReported
<1> SUFFICES ASSUME IInv, NEW c \in Cycle
             PROVE  Verdicts[c] =
                      IF c \in Settled THEN (IF Reports[c] = "applied" THEN "confirmed" ELSE "refuted")
                      ELSE IF c \in Begun THEN "open" ELSE "none"
  BY DEF VerdictIsReported
<1> DEFINE intents   == {journal[s] : s \in {t \in Slot : t[1] = c /\ journal[t] # None}}
           certainty == {i.effect.certainty : i \in {j \in intents : Resolved(j.effect)}}
<1>1. Verdicts[c] = IF "CONFIRMED" \in certainty THEN "confirmed"
                     ELSE IF certainty # {} THEN "refuted"
                     ELSE IF intents # {} THEN "open" ELSE "none"
  BY DEF VerdictOf, Verdicts
<1>2. intents # {} <=> c \in Begun
  BY DEF Begun
<1>3. certainty # {} <=> c \in Settled
  BY DEF Settled
<1>4. \A x \in certainty : x = "CONFIRMED" <=> Reports[c] = "applied"
  <2> SUFFICES ASSUME NEW s \in Slot, s[1] = c, journal[s] # None, Resolved(journal[s].effect)
               PROVE  journal[s].effect.certainty = "CONFIRMED" <=> Reports[c] = "applied"
    OBVIOUS
  <2> QED
    BY DEF IInv, JournalIsProven, Proven, Reports
<1> HIDE DEF intents, certainty
<1> QED
  BY <1>1, <1>2, <1>3, <1>4

LEMMA CertaintiesNext == IInv' => VerdictIsReported'
BY Certainties, PTL

LogStep == [Log!Next]_(Log!vars)

\* A step that leaves the journal, the world and what is told alone is a stutter of
\* the log.
LEMMA SameLog ==
  ASSUME UNCHANGED <<journal, performed>>, Reports' = Reports
  PROVE  LogStep
BY DEF LogStep, Log!vars, VerdictOf, Resolved, Reports

LEMMA SameBridge ==
  ASSUME UNCHANGED bridge
  PROVE  Reports' = Reports
BY DEF Reports, Told

SettledIsReported == \A c \in Settled : Reports[c] # "unknown"

LEMMA Settlements == IInv => SettledIsReported
BY DEF SettledIsReported, Settled, Reports, IInv, JournalIsProven, Proven

LEMMA SettlementsNext == IInv' => SettledIsReported'
BY Settlements, PTL

\* A write to the journal begins the action of the intent at hand, settles it, or
\* is a stutter.
LEMMA WriteLog ==
  ASSUME IInv, IInv', cycle \in Cycle, UNCHANGED <<performed, bridge>>,
         NEW phase, NEW e, SetIntent(slot, phase, e),
         journal'[slot] # None, journal'[slot].effect = e,
         journal[slot] = None => ScopeClear(slot) /\ ~Resolved(e),
         journal[slot] # None /\ Resolved(journal[slot].effect) => Resolved(e)
  PROVE  LogStep
<1>1. slot \in Slot /\ slot[1] = cycle
  BY SlotFacts DEF slot, IInv, TypeOK
<1>2. \A s \in Slot : s # slot => journal'[s] = journal[s]
  BY <1>1 DEF SetIntent, IInv, TypeOK
<1>3. VerdictIsReported /\ VerdictIsReported'
  BY Certainties, CertaintiesNext
<1>4. \A c \in Cycle : c # cycle => (c \in Settled' <=> c \in Settled) /\ (c \in Begun' <=> c \in Begun)
  <2> SUFFICES ASSUME NEW c \in Cycle, c # cycle
               PROVE  (c \in Settled' <=> c \in Settled) /\ (c \in Begun' <=> c \in Begun)
    OBVIOUS
  <2>1. \A s \in Slot : s[1] = c => journal'[s] = journal[s]
    BY <1>1, <1>2
  <2> QED
    BY <2>1 DEF Settled, Begun, Resolved
<1>5. \A c \in Cycle : c # cycle => Verdicts'[c] = Verdicts[c]
  BY <1>3, <1>4, SameBridge DEF VerdictIsReported
<1>6. cycle \in Begun'
  BY <1>1 DEF Begun
<1>7. cycle \in Settled => cycle \in Settled'
  <2> SUFFICES ASSUME NEW s \in Slot, s[1] = cycle, journal[s] # None, Resolved(journal[s].effect)
               PROVE  cycle \in Settled'
    BY DEF Settled
  <2>1. CASE s = slot
    BY <2>1, <1>1 DEF Settled, Resolved
  <2>2. CASE s # slot
    BY <2>2, <1>2 DEF Settled, Resolved
  <2> QED
    BY <2>1, <2>2
<1>8. journal[slot] # None => cycle \in Begun
  BY <1>1 DEF Begun
<1>9. ASSUME Verdicts'[cycle] = Verdicts[cycle] PROVE LogStep
  <2>1. Verdicts' = [Verdicts EXCEPT ![cycle] = Verdicts[cycle]]
    BY <1>5, <1>9, VerdictsChange
  <2>2. Verdicts' = Verdicts
    BY <2>1 DEF Verdicts
  <2> QED
    BY <2>2, SameBridge DEF LogStep, Log!vars, Verdicts, Reports
<1>10. Verdicts' = [Verdicts EXCEPT ![cycle] = Verdicts'[cycle]]
  BY <1>5, VerdictsChange
<1>11. CASE cycle \in Settled
  BY <1>3, <1>7, <1>9, <1>11, SameBridge DEF VerdictIsReported
<1>12. CASE cycle \notin Settled /\ cycle \in Settled'
  <2>1. cycle \in Begun
    <3>1. PICK s \in Slot : s[1] = cycle /\ journal'[s] # None /\ Resolved(journal'[s].effect)
      BY <1>12 DEF Settled, Resolved
    <3>2. s = slot
      BY <1>2, <1>12, <3>1 DEF Settled, Resolved
    <3>3. Resolved(e)
      BY <3>1, <3>2
    <3> QED
      BY <1>8, <3>3
  <2>2. Verdicts[cycle] = "open"
    BY <1>3, <1>12, <2>1 DEF VerdictIsReported
  <2>3. Verdicts'[cycle] = IF Reports[cycle] = "applied" THEN "confirmed" ELSE "refuted"
    BY <1>3, <1>12, SameBridge DEF VerdictIsReported
  <2>4. Reports[cycle] # "unknown"
    BY <1>12, SettlementsNext, SameBridge DEF SettledIsReported
  <2>5. Log!Settle(cycle)
    BY <1>10, <2>2, <2>3, <2>4, SameBridge DEF Log!Settle, Verdicts, Reports
  <2> QED
    BY <2>5 DEF LogStep, Log!Next
<1>13. CASE cycle \notin Settled' /\ cycle \in Begun
  BY <1>3, <1>6, <1>7, <1>9, <1>13 DEF VerdictIsReported
<1>14. CASE cycle \notin Settled' /\ cycle \notin Begun
  <2>1. ScopeClear(slot) /\ journal[slot] = None
    BY <1>8, <1>14
  <2>2. Unresolved = {}
    BY <2>1 DEF ScopeClear, Unresolved
  <2>3. \A c \in Cycle : Verdicts[c] # "open"
    <3> SUFFICES ASSUME NEW c \in Cycle, c \in Begun PROVE c \in Settled
      BY <1>3 DEF VerdictIsReported
    <3>1. PICK s \in Slot : s[1] = c /\ journal[s] # None
      BY DEF Begun
    <3>2. journal[s].phase \in {"CONSUMED", "NOT_APPLIED"}
      <4>1. journal[s] \in Intent
        BY <3>1 DEF IInv, TypeOK
      <4> QED
        BY <2>2, <3>1, <4>1 DEF Unresolved, Intent, Phase
    <3>3. Resolved(journal[s].effect)
      BY <3>1, <3>2 DEF IInv, PhaseFitsEffect
    <3> QED
      BY <3>1, <3>3 DEF Settled
  <2>4. Verdicts[cycle] = "none" /\ Verdicts'[cycle] = "open"
    BY <1>3, <1>6, <1>7, <1>14 DEF VerdictIsReported
  <2>5. Verdicts' = [Verdicts EXCEPT ![cycle] = "open"]
    BY <1>10, <2>4
  <2>6. Log!Begin(cycle)
    BY <2>3, <2>4, <2>5, SameBridge DEF Log!Begin, Verdicts, Reports
  <2> QED
    BY <2>6 DEF LogStep, Log!Next
<1> QED
  BY <1>11, <1>12, <1>13, <1>14

\* A cycle whose action has a record is begun.
LEMMA RecordBegun ==
  ASSUME IInv, NEW c \in Cycle, bridge[c] # None
  PROVE  c \in Begun
<1>1. bridge[c].anchor \in Anchor
  BY DEF IInv, TypeOK, BridgeRecord
<1>2. <<c, bridge[c].anchor>> \in Slot /\ <<c, bridge[c].anchor>>[1] = c
  BY <1>1, SlotFacts
<1>3. journal[<<c, bridge[c].anchor>>] # None
  BY DEF IInv, RecordHasIntent
<1> QED
  BY <1>2, <1>3 DEF Begun

\* An action takes effect after it was begun.
LEMMA PerformLog ==
  ASSUME IInv, NEW c \in Cycle, Perform(c)
  PROVE  LogStep
<1>1. UNCHANGED <<journal, bridge>> /\ performed' = [performed EXCEPT ![c] = @ + 1]
  BY DEF Perform
<1>2. Verdicts' = Verdicts
  BY <1>1 DEF Verdicts, VerdictOf, Resolved
<1>3. performed[c] = 0 /\ bridge[c] # None
  BY DEF Perform, IInv, BridgeIsOrderly
<1>4. Verdicts[c] # "none"
  BY <1>3, RecordBegun, Certainties DEF VerdictIsReported
<1>5. performed' = [performed EXCEPT ![c] = 1]
  BY <1>1, <1>3 DEF IInv, TypeOK
<1>6. Log!Happen(c)
  BY <1>1, <1>2, <1>3, <1>4, <1>5, SameBridge DEF Log!Happen, Verdicts, Reports
<1> QED
  BY <1>6 DEF LogStep, Log!Next

\* A handler reports on an action that is open, and a partial result says nothing.
LEMMA ReportLog ==
  ASSUME IInv, NEW c \in Cycle, NEW d \in Disposition, Report(c, d)
  PROVE  LogStep
<1>1. UNCHANGED <<journal, performed>> /\ SetTerminal(c, d) /\ handler[c] \in {"pending", "acted"}
  BY DEF Report
<1>2. /\ bridge[c] # None /\ bridge[c].disposition = "unknown"
  BY <1>1 DEF IInv, BridgeIsOrderly, Decided
<1>3. /\ bridge' = [bridge EXCEPT ![c] =
           [anchor |-> bridge[c].anchor, state |-> "terminal", disposition |-> d]]
      /\ bridge'[c] # None /\ bridge'[c].disposition = d
  BY <1>1, TerminalType
<1>4. Told(c) = "unknown" /\ Told(c)' = d
  BY <1>2, <1>3 DEF Told
<1>5. \A b \in Cycle : b # c => Told(b)' = Told(b)
  BY <1>3 DEF IInv, TypeOK, Told
<1>6. Reports' = [Reports EXCEPT ![c] = d]
  BY <1>4, <1>5 DEF Reports
<1>7. CASE d = "unknown"
  <2>1. Reports' = Reports
    BY <1>4, <1>5, <1>7 DEF Reports
  <2> QED
    BY <2>1, <1>1, SameLog
<1>8. CASE d \in {"applied", "not_applied"}
  <2>1. Verdicts' = Verdicts
    BY <1>1 DEF Verdicts, VerdictOf, Resolved
  <2>2. c \notin Settled
    <3> SUFFICES ASSUME NEW s \in Slot, s[1] = c, journal[s] # None,
                        Resolved(journal[s].effect)
                 PROVE  FALSE
      BY DEF Settled
    <3> QED
      BY <1>4 DEF IInv, JournalIsProven, Proven
  <2>3. Verdicts[c] = "open"
    BY <1>2, <2>2, RecordBegun, Certainties DEF VerdictIsReported
  <2>4. Log!Tell(c)
    BY <1>1, <1>4, <1>6, <1>8, <2>1, <2>3 DEF Log!Tell, Verdicts, Reports
  <2> QED
    BY <2>4 DEF LogStep, Log!Next
<1> QED
  BY <1>7, <1>8 DEF Disposition

\* A new record says nothing yet.
LEMMA DispatchLog ==
  ASSUME IInv, Dispatch
  PROVE  LogStep
<1>1. UNCHANGED <<journal, performed>>
  BY DEF Dispatch
<1>2. CASE UNCHANGED bridge
  BY <1>1, <1>2, SameBridge, SameLog
<1>3. CASE bridge[cycle] = None /\ bridge' = [bridge EXCEPT ![cycle] =
             [anchor |-> anchor, state |-> "intent", disposition |-> "unknown"]]
  <2>1. \A c \in Cycle : Told(c)' = Told(c)
    BY <1>3 DEF IInv, TypeOK, Told
  <2>2. Reports' = Reports
    BY <2>1 DEF Reports
  <2> QED
    BY <1>1, <2>2, SameLog
<1> QED
  BY <1>2, <1>3 DEF Dispatch, Fresh

\* The steps that write the journal.
LEMMA JournalLog ==
  ASSUME IInv, IInv',
         RecoverCommitted \/ Prepare \/ RecordResult \/ Resolve \/ ReconcileExisting \/ Consume
  PROVE  LogStep
<1> DEFINE Write(phase, e) ==
      /\ SetIntent(slot, phase, e) /\ cycle \in Cycle /\ UNCHANGED <<performed, bridge>>
      /\ phase \in Phase /\ e \in Effect \cup {None}
      /\ journal[slot] = None => ScopeClear(slot) /\ ~Resolved(e)
      /\ journal[slot] # None /\ Resolved(journal[slot].effect) => Resolved(e)
<1>1. ASSUME NEW phase, NEW e, Write(phase, e) PROVE LogStep
  <2>1. slot \in Slot /\ journal \in [Slot -> Intent \cup {None}]
    BY <1>1, SlotFacts DEF slot, IInv, TypeOK
  <2>2. journal'[slot] = [phase |-> phase, effect |-> e]
    BY <1>1, <2>1 DEF SetIntent
  <2>3. [phase |-> phase, effect |-> e] \in Intent
    BY <1>1 DEF Intent
  <2>4. journal'[slot] # None
    BY <2>2, <2>3, NoneDistinct
  <2> QED
    BY <1>1, <2>2, <2>4, WriteLog
<1>2. UNCHANGED <<performed, bridge>>
  BY DEF RecoverCommitted, Prepare, RecordResult, Resolve, ReconcileExisting, Consume, worldVars
<1>3. ASSUME UNCHANGED journal PROVE LogStep
  BY <1>2, <1>3, SameBridge, SameLog
<1>4. ASSUME pc \in Working \ {"authorize", "checkpoint"}
      PROVE  cycle \in Cycle /\ journal[slot] # None /\ journal[slot].effect \in Effect \cup {None}
  BY <1>4, AtHand
<1> USE DEF Phase, Nonterminal
<1> HIDE DEF Write
<1>5. CASE RecoverCommitted
  <2>1. pc \in Working \ {"authorize", "checkpoint"}
    BY <1>5 DEF RecoverCommitted, Working
  <2>2. CASE UNCHANGED journal
    BY <2>2, <1>3
  <2>3. CASE SetIntent(slot, "RECONCILED", FromHandle("CONFIRMED"))
    <3>1. Write("RECONCILED", FromHandle("CONFIRMED"))
      BY <1>2, <1>4, <2>1, <2>3, HandleFacts DEF Write
    <3> QED
      BY <3>1, <1>1
  <2> QED
    BY <1>5, <2>2, <2>3 DEF RecoverCommitted
<1>6. CASE Prepare
  <2>1. CASE UNCHANGED journal
    BY <2>1, <1>3
  <2>2. CASE ScopeClear(slot) /\ journal[slot] = None /\ SetIntent(slot, "PREPARED", None)
    <3>1. cycle \in Cycle
      BY <1>6 DEF Prepare, IInv, Position, Working
    <3>2. Write("PREPARED", None)
      BY <1>2, <2>2, <3>1 DEF Write, Resolved
    <3> QED
      BY <3>2, <1>1
  <2> QED
    BY <1>6, <2>1, <2>2 DEF Prepare
<1>7. CASE RecordResult
  <2>1. pc \in Working \ {"authorize", "checkpoint"} /\ slot \in Slot
    BY <1>7, AtHand DEF RecordResult, Working
  <2>2. ~Resolved(journal[slot].effect)
    BY <1>4, <1>7, <2>1 DEF RecordResult, IInv, Position, PhaseFitsEffect, Resolved
  <2>3. Write("RESULT_RECORDED", result)
    BY <1>2, <1>4, <1>7, <2>1, <2>2 DEF Write, RecordResult, IInv, Position
  <2> QED
    BY <2>3, <1>1
<1>8. CASE Resolve
  <2>1. pc \in Working \ {"authorize", "checkpoint"}
    BY <1>8 DEF Resolve, Working
  <2>2. CASE UNCHANGED journal
    BY <2>2, <1>3
  <2>3. ASSUME NEW e \in Effect, Resolved(e), SetIntent(slot, "RECONCILED", e) PROVE LogStep
    <3>1. Write("RECONCILED", e)
      BY <1>2, <1>4, <2>1, <2>3 DEF Write
    <3> QED
      BY <3>1, <1>1
  <2> QED
    BY <1>8, <2>2, <2>3, ReconciledFacts DEF Resolve
<1>9. CASE ReconcileExisting
  <2>1. pc \in Working \ {"authorize", "checkpoint"}
    BY <1>9 DEF ReconcileExisting, Working
  <2>2. CASE UNCHANGED journal
    BY <2>2, <1>3
  <2>3. ASSUME NEW phase, NEW x \in {"CONFIRMED", "NO_EFFECT"},
               phase \in Phase, SetIntent(slot, phase, FromHandle(x))
        PROVE  LogStep
    <3>1. Write(phase, FromHandle(x))
      BY <1>2, <1>4, <2>1, <2>3, HandleFacts DEF Write
    <3> QED
      BY <3>1, <1>1
  <2> QED
    BY <1>9, <2>2, <2>3 DEF ReconcileExisting
<1>10. CASE Consume
  <2>1. pc \in Working \ {"authorize", "checkpoint"}
    BY <1>10 DEF Consume, Working
  <2>2. CASE UNCHANGED journal
    BY <2>2, <1>3
  <2>3. CASE SetIntent(slot, "CONSUMED", journal[slot].effect)
    <3>1. Write("CONSUMED", journal[slot].effect)
      BY <1>2, <1>4, <2>1, <2>3 DEF Write
    <3> QED
      BY <3>1, <1>1
  <2> QED
    BY <1>10, <2>2, <2>3 DEF Consume
<1> QED
  BY <1>5, <1>6, <1>7, <1>8, <1>9, <1>10

LEMMA InitLog == Init => Log!Init
<1> SUFFICES ASSUME Init PROVE Log!Init
  OBVIOUS
<1>1. IInv
  BY InitIInv
<1>2. \A c \in Cycle : Verdicts[c] = "none"
  BY <1>1, Certainties DEF VerdictIsReported, Settled, Begun, Init
<1> QED
  BY <1>2 DEF Init, Log!Init, Verdicts, Told

LEMMA NextLog == IInv /\ IInv' /\ [Next]_vars => LogStep
<1> SUFFICES ASSUME IInv, IInv', [Next]_vars PROVE LogStep
  OBVIOUS
<1>1. CASE RecoverCommitted \/ Prepare \/ RecordResult \/ Resolve \/ ReconcileExisting \/ Consume
  BY <1>1, JournalLog
<1>2. ASSUME NEW c \in Cycle, Perform(c) PROVE LogStep
  BY <1>2, PerformLog
<1>3. ASSUME NEW c \in Cycle, Finish(c) \/ GiveUp(c) PROVE LogStep
  BY <1>3, ReportLog DEF Finish, GiveUp, Disposition
<1>4. CASE Dispatch
  BY <1>4, DispatchLog
<1>5. ASSUME UNCHANGED <<journal, performed, bridge>> PROVE LogStep
  BY <1>5, SameBridge, SameLog
<1>6. ASSUME NEW c \in Cycle, Die(c) \/ Preflight(c) PROVE LogStep
  BY <1>5, <1>6 DEF Die, Preflight, worldVars
<1>7. CASE NotCommitted \/ Receive \/ Complete \/ Checkpoint
  BY <1>5, <1>7 DEF NotCommitted, Receive, Complete, Checkpoint, worldVars
<1>8. CASE (\E k \in Anchor : Open(k)) \/ Close \/ Crash \/ Fail
  BY <1>5, <1>8 DEF Open, Close, Crash, Fail, worldVars
<1>9. CASE UNCHANGED vars
  BY <1>5, <1>9 DEF vars, worldVars
<1> QED
  BY <1>1, <1>2, <1>3, <1>4, <1>6, <1>7, <1>8, <1>9 DEF Next, Orderly, BridgeStep, CycleStep

\* The workflow, its journal and the bridge implement the effect log: over every
\* crash and restore an action is begun alone and once, happens at most once and
\* after that, and gets one verdict, the one that its handler reported.
THEOREM WorkflowImplementsEffectLog == Spec => ImplementsEffectLog
<1>1. Init => Log!Init
  BY InitLog
<1>2. IInv /\ IInv' /\ [Next]_vars => [Log!Next]_(Log!vars)
  BY NextLog DEF LogStep
<1> QED
  BY <1>1, <1>2, Invariance, PTL DEF Spec, ImplementsEffectLog, Log!Spec
=============================================================================
