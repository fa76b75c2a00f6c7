----------------------------- MODULE ServiceStart -----------------------------
(***************************************************************************)
(* Starting, recovering and stopping the one process of an exact service   *)
(* (infrastructure/lifecycle/service/runtime): a supervisor state document,*)
(* a start intent per attempt with a pointer to the active one, and the    *)
(* child.  One controller works on a contract at a time.  Any call it      *)
(* makes may raise and the controller may die between any two writes; the  *)
(* child lives in a session of its own and ends when it likes.             *)
(***************************************************************************)
EXTENDS Naturals

CONSTANTS
  Child,        \* the processes that can be spawned, each with an identity of its own
  None,
  Durable,      \* the backend can find the child of a prepared start again
  MaxAttempts   \* bound on start attempts

ASSUME ServiceAssumption == None \notin Child /\ Durable \in BOOLEAN /\ MaxAttempts \in Nat

VARIABLES
  state,        \* the supervisor state document
  intent,       \* the start-intent document of each attempt
  pointer,      \* the active intent by the index, 0 when it names none
  live, origin, \* the children that run; the attempt each child was spawned for
  pc, hand,     \* the controller: its next step, the intent and the process it holds
  handoff       \* the exit of a child that is reported and not yet committed

journal == <<intent, pointer>>
children == <<live, origin>>
vars == <<state, journal, children, pc, hand, handoff>>

Attempt == 1 .. MaxAttempts
NoIntent == [phase |-> "none", process |-> None]
EmptyHand == [intent |-> 0, process |-> None, recovering |-> FALSE]
NoHandoff == [process |-> None, clean |-> TRUE]

Init ==
  /\ state = [phase |-> "none", attempt |-> 0, process |-> None]
  /\ intent = [a \in Attempt |-> NoIntent] /\ pointer = 0
  /\ live = {} /\ origin = [c \in Child |-> 0]
  /\ pc = "idle" /\ hand = EmptyHand /\ handoff = NoHandoff

\* Persisting a phase keeps what is not named; so does publishing an intent's phase.
Persist(phase) == state' = [state EXCEPT !.phase = phase]
PersistWith(phase, attempt, process) ==
  state' = [phase |-> phase, attempt |-> attempt, process |-> process]
Publish(a, phase) == intent' = [intent EXCEPT ![a].phase = phase]

Idle == pc' = "idle" /\ hand' = EmptyHand
Take(a, process, recovering) ==
  hand' = [intent |-> a, process |-> process, recovering |-> recovering]
Hold(a, process) == Take(a, process, hand.recovering)

Unresolved == {a \in Attempt : intent[a].phase \notin {"none", "complete"}}

\* Faulty variant of Found: the index is trusted, there is no scan.
FoundByPointer == {pointer} \cap Unresolved

\* What the store finds: by the pointer, or by a scan when there is none.
Found == IF pointer = 0 THEN Unresolved ELSE {pointer} \cap Unresolved

-----------------------------------------------------------------------------
(* start_exact.                                                            *)

StartExact ==
  /\ pc = "idle" /\ pc' = "lookup"
  /\ IF state.phase = "none" THEN Persist("new") ELSE UNCHANGED state
  /\ UNCHANGED <<journal, children, hand, handoff>>

\* decide_service_start_resume.
Startable ==
  \/ state.phase \in {"new", "verify", "reconcile", "exited"}
  \/ state.phase \in {"start_child", "wait_ready", "running"} /\ state.process # None

\* Without an unresolved intent a new start begins, unless the phase blocks it.  A
\* pointer to a completed intent is cleared, a missing one is set again.
Lookup ==
  /\ pc = "lookup"
  /\ \/ /\ Found = {} /\ pointer' = 0 /\ pc' = IF Startable THEN "verify" ELSE "idle"
        /\ UNCHANGED hand
     \/ \E a \in Attempt : /\ Found = {a} /\ pointer' = a /\ pc' = "recover"
                           /\ Take(a, None, TRUE)
  /\ UNCHANGED <<state, intent, children, handoff>>

Verify ==
  /\ pc = "verify" /\ Persist("verify") /\ pc' = "reconcile"
  /\ UNCHANGED <<journal, children, hand, handoff>>

ReconcilePrior ==
  /\ pc = "reconcile" /\ Persist("reconcile") /\ pc' = "existing"
  /\ UNCHANGED <<journal, children, hand, handoff>>

\* The persisted process is adopted without an intent, if it is exactly alive.
Existing ==
  /\ pc = "existing"
  /\ \/ state.process \in live /\ pc' = "wait" /\ Hold(0, state.process)
     \/ /\ state.process \notin live /\ state.attempt < MaxAttempts
        /\ pc' = "prepare" /\ Hold(state.attempt + 1, None)
  /\ UNCHANGED <<state, journal, children, handoff>>

\* create_once: the document, unless there is one, then the pointer.  A pointer to a
\* completed intent has been cleared by the lookup.
Prepare ==
  /\ pc = "prepare"
  /\ IF intent[hand.intent].phase = "none"
       THEN pointer \in {0, hand.intent} /\ Publish(hand.intent, "prepared") /\ pc' = "bind"
       ELSE pc' = "mark" /\ UNCHANGED intent
  /\ UNCHANGED <<state, pointer, children, hand, handoff>>

Bind ==
  /\ pc = "bind" /\ pointer' = hand.intent /\ pc' = "mark"
  /\ UNCHANGED <<state, intent, children, hand, handoff>>

Mark ==
  /\ pc = "mark" /\ pc' = "spawn"
  /\ PersistWith("start_child", hand.intent, None)
  /\ UNCHANGED <<journal, children, hand, handoff>>

\* start or start_prepared.  A spawn that fails has killed its child.
Spawn ==
  /\ pc = "spawn" /\ pc' = "record"
  /\ \E c \in Child : /\ origin[c] = 0 /\ origin' = [origin EXCEPT ![c] = hand.intent]
                      /\ live' = live \cup {c} /\ Hold(hand.intent, c)
  /\ UNCHANGED <<state, journal, handoff>>

\* record_process.  A recovery then verifies the process, a new start need not.
RecordProcess ==
  /\ pc = "record" /\ pc' = IF hand.recovering THEN "check" ELSE "wait"
  /\ intent' = [intent EXCEPT ![hand.intent] = [phase |-> "confirmed", process |-> hand.process]]
  /\ UNCHANGED <<state, pointer, children, hand, handoff>>

-----------------------------------------------------------------------------
(* The recovery of an unresolved intent.                                   *)

Adjacent == hand.intent \in {state.attempt, state.attempt + 1}

\* Faulty variant of RecoverPrepared: a prepared start is repeated.
RecoverPreparedAgain ==
  /\ pc = "recover" /\ Adjacent /\ intent[hand.intent].phase = "prepared" /\ Durable
  /\ pc' = "spawn"
  /\ UNCHANGED <<state, journal, children, hand, handoff>>

\* Without a durable backend a prepared start is never repeated.  With one, the
\* backend finds the child of this start or says that none runs.
RecoverPrepared ==
  /\ pc = "recover" /\ Adjacent /\ intent[hand.intent].phase = "prepared" /\ Durable
  /\ \/ \E c \in live : origin[c] = hand.intent /\ pc' = "record" /\ Hold(hand.intent, c)
     \/ (\A c \in live : origin[c] # hand.intent) /\ pc' = "spawn" /\ UNCHANGED hand
  /\ UNCHANGED <<state, journal, children, handoff>>

RecoverProcess ==
  /\ pc = "recover" /\ Adjacent /\ intent[hand.intent].phase # "prepared"
  /\ Hold(hand.intent, intent[hand.intent].process) /\ pc' = "check"
  /\ UNCHANGED <<state, journal, children, handoff>>

Check ==
  /\ pc = "check" /\ hand.process \in live /\ pc' = "wait"
  /\ UNCHANGED <<state, journal, children, hand, handoff>>

-----------------------------------------------------------------------------
(* From the process to READY, for new starts, adopted and recovered ones.  *)

\* Faulty variant of Larger: the intent's attempt is counted on top.
LargerSum(a, b) == a + b

Larger(a, b) == IF a < b THEN b ELSE a

WaitReady ==
  /\ pc = "wait" /\ pc' = IF hand.intent = 0 THEN "ready" ELSE "commit"
  /\ PersistWith("wait_ready", Larger(state.attempt, hand.intent), hand.process)
  /\ UNCHANGED <<journal, children, hand, handoff>>

StateCommitted ==
  /\ pc = "commit" /\ Publish(hand.intent, "committed") /\ pc' = "ready"
  /\ UNCHANGED <<state, pointer, children, hand, handoff>>

Ready ==
  /\ pc = "ready" /\ hand.process \in live /\ pc' = "running"
  /\ UNCHANGED <<state, journal, children, hand, handoff>>

Run ==
  /\ pc = "running" /\ Persist("running")
  /\ IF hand.intent = 0 THEN Idle ELSE pc' = "complete" /\ UNCHANGED hand
  /\ UNCHANGED <<journal, children, handoff>>

\* complete: the document first, then the pointer.
Complete ==
  /\ pc = "complete" /\ Publish(hand.intent, "complete") /\ pc' = "clear"
  /\ UNCHANGED <<state, pointer, children, hand, handoff>>

Clear ==
  /\ pc = "clear" /\ pointer' = 0 /\ Idle
  /\ UNCHANGED <<state, intent, children, handoff>>

-----------------------------------------------------------------------------
(* stop_exact.                                                             *)

\* Without a process, and without a start that may have made one.
StopNothing ==
  /\ pc = "idle" /\ state.process = None /\ state.phase \in {"new", "verify", "reconcile"}
  /\ Persist("exited")
  /\ UNCHANGED <<journal, children, pc, hand, handoff>>

\* Faulty variant of StopProcess: the process is forgotten when the stop begins.
StopForgetting ==
  /\ pc = "idle" /\ pc' = "stop"
  /\ state.process # None /\ state.phase \in {"start_child", "wait_ready", "running", "stopping"}
  /\ Take(0, state.process, FALSE) /\ PersistWith("stopping", state.attempt, None)
  /\ UNCHANGED <<journal, children, handoff>>

StopProcess ==
  /\ pc = "idle" /\ pc' = "stop"
  /\ state.process # None /\ state.phase \in {"start_child", "wait_ready", "running", "stopping"}
  /\ Take(0, state.process, FALSE) /\ Persist("stopping")
  /\ UNCHANGED <<journal, children, handoff>>

StopChild ==
  /\ pc = "stop" /\ live' = live \ {hand.process} /\ pc' = "stopped"
  /\ UNCHANGED <<state, journal, origin, hand, handoff>>

Exited ==
  /\ pc = "stopped" /\ Idle
  /\ PersistWith("exited", state.attempt, None)
  /\ UNCHANGED <<journal, children, handoff>>

-----------------------------------------------------------------------------
(* An exit that nobody asked for, its durable handoff, and faults.         *)

Watched == state.process # None /\ state.phase \in {"running", "wait_ready"}

\* The crash adapter says how the process has ended.
ReportExit(clean) ==
  /\ pc = "idle" /\ Watched /\ state.process \notin live
  /\ handoff' = [process |-> state.process, clean |-> clean]
  /\ UNCHANGED <<state, journal, children, pc, hand>>

\* Replayed until the handoff is complete; the process may not be the service's any more.
CommitExit ==
  /\ pc = "idle" /\ Watched /\ state.process = handoff.process
  /\ PersistWith(IF handoff.clean THEN "exited" ELSE "recovery_required", state.attempt, None)
  /\ UNCHANGED <<journal, children, pc, hand, handoff>>

ChildExits(c) ==
  /\ c \in live /\ live' = live \ {c}
  /\ UNCHANGED <<state, journal, origin, pc, hand, handoff>>

\* The call raises, or the controller dies.
Interrupt ==
  /\ pc # "idle" /\ Idle
  /\ UNCHANGED <<state, journal, children, handoff>>

-----------------------------------------------------------------------------
Starting ==
  \/ StartExact \/ Lookup \/ Verify \/ ReconcilePrior \/ Existing \/ Prepare \/ Bind \/ Mark
  \/ Spawn \/ RecordProcess \/ RecoverPrepared \/ RecoverProcess \/ Check
  \/ WaitReady \/ StateCommitted \/ Ready \/ Run \/ Complete \/ Clear

Stopping == StopNothing \/ StopProcess \/ StopChild \/ Exited

Next ==
  \/ Starting \/ Stopping \/ Interrupt
  \/ (\E clean \in BOOLEAN : ReportExit(clean)) \/ CommitExit
  \/ \E c \in Child : ChildExits(c)

Spec == Init /\ [][Next]_vars

-----------------------------------------------------------------------------
StatePhase == {"none", "new", "verify", "reconcile", "start_child", "wait_ready", "running",
               "stopping", "exited", "recovery_required"}
IntentPhase == {"none", "prepared", "confirmed", "committed", "complete"}
Step == {"idle", "lookup", "verify", "reconcile", "existing", "prepare", "bind", "mark", "spawn",
         "record", "recover", "check", "wait", "commit", "ready", "running", "complete", "clear",
         "stop", "stopped"}
Process == Child \cup {None}

\* Type invariant.
TypeOK ==
  /\ state \in [phase: StatePhase, attempt: 0 .. MaxAttempts, process: Process]
  /\ intent \in [Attempt -> [phase: IntentPhase, process: Process]]
  /\ pointer \in 0 .. MaxAttempts
  /\ live \subseteq Child /\ origin \in [Child -> 0 .. MaxAttempts]
  /\ pc \in Step
  /\ hand \in [intent: 0 .. MaxAttempts, process: Process, recovering: BOOLEAN]
  /\ handoff \in [process: Process, clean: BOOLEAN]

\* A service never has two children, wherever its starts, recoveries, stops and exits
\* are cut short and repeated.
AtMostOneChild == \A c, d \in live : c = d

\* No child is forgotten: one that runs is named by the supervisor state or by an
\* unresolved start intent, or it is the child of a prepared start, which is unresolved
\* itself.  So when the quiescence probe finds no unresolved intent, no process and a
\* terminal phase, nothing of the service runs.
ChildIsKnown == \A c \in live :
  \/ state.process = c
  \/ \E a \in Unresolved : \/ intent[a].process = c
                           \/ intent[a].phase = "prepared" /\ origin[c] = a

\* At most one start is unresolved, and the index never hides it, although document and
\* pointer are two files that a crash can leave apart.
IndexIsTruthful == Found = Unresolved /\ \A a, b \in Unresolved : a = b
=============================================================================
