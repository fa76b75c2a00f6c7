------------------------- MODULE ServiceStartProofs -------------------------
(***************************************************************************)
(* Proofs about ServiceStart, for any number of attempts and children:     *)
(* there is one child at most, it is never forgotten, and the index tells  *)
(* the truth.  They follow from IInv, which adds what a prepared intent    *)
(* says of the live child, how intents and attempts are ordered, that no   *)
(* identity is named before it is spawned, and what the controller may     *)
(* rely on at each of its steps.                                           *)
(***************************************************************************)
EXTENDS ServiceStart, TLAPS

\* One intent at most is unresolved, and the pointer names it or nothing.
Index == \A a \in Unresolved : pointer \in {0, a} /\ \A b \in Unresolved : a = b

\* While a start is only prepared, a child that runs is its child.
PreparedOwnsLive == \A a \in Attempt :
  intent[a].phase = "prepared" => \A c \in live : origin[c] = a

\* An intent of an attempt the state has not reached is unresolved.
Ordered == \A a \in Attempt :
  intent[a].phase # "none" => a <= state.attempt \/ a \in Unresolved

\* Who is named has been spawned, and a reported exit is one.
Spawned == {c \in Child : origin[c] # 0}
Fresh ==
  /\ live \subseteq Spawned /\ handoff.process \notin live
  /\ {state.process, hand.process, handoff.process} \subseteq Spawned \cup {None}
  /\ \A a \in Attempt : intent[a].process \in Spawned \cup {None}

\* Before the spawn nothing runs; from the intent on it is the one unresolved.
Before ==
  /\ pc \in {"verify", "reconcile", "existing", "prepare"} => Unresolved = {} /\ pointer = 0
  /\ pc \in {"prepare", "bind", "mark"} => hand.intent = state.attempt + 1
  /\ pc \in {"prepare", "bind", "mark", "spawn"} => live = {} /\ hand.intent \in Attempt
  /\ pc \in {"bind", "mark", "spawn", "record"} =>
       hand.intent \in Attempt /\ intent[hand.intent].phase = "prepared"
  /\ pc \in {"recover", "check"} => hand.intent \in Unresolved
  /\ pc = "check" => /\ intent[hand.intent].process = hand.process
                     /\ intent[hand.intent].phase # "prepared"

\* After it what runs is in hand, and the intent names it.
After ==
  /\ pc \in {"record", "wait", "commit", "ready", "running", "complete"} =>
       live \subseteq {hand.process}
  /\ pc \in {"wait", "ready", "running"} /\ hand.intent = 0 => Unresolved = {}
  /\ pc \in {"wait", "commit", "ready", "running", "complete"} /\ hand.intent # 0 =>
       /\ hand.intent \in Unresolved /\ intent[hand.intent].phase # "prepared"
       /\ intent[hand.intent].process = hand.process
  /\ pc \in {"commit", "complete"} => hand.intent # 0
  /\ pc \in {"commit", "ready", "running", "complete"} =>
       state.process = hand.process /\ hand.intent <= state.attempt
  /\ pc \in {"stop", "stopped"} => hand.process = state.process
  /\ pc = "stopped" => state.process \notin live

Safe == AtMostOneChild /\ ChildIsKnown
Books == Index /\ PreparedOwnsLive /\ Ordered /\ Fresh
Control == Before /\ After
IInv == TypeOK /\ Safe /\ Books /\ Control

-----------------------------------------------------------------------------
(* What the writes do.                                                     *)

StateType == [phase: StatePhase, attempt: 0 .. MaxAttempts, process: Process]
IntentType == [Attempt -> [phase: IntentPhase, process: Process]]
HandType == [intent: 0 .. MaxAttempts, process: Process, recovering: BOOLEAN]

LEMMA StateTypes ==
  ASSUME TypeOK
  PROVE  /\ state.phase \in StatePhase /\ state.attempt \in 0 .. MaxAttempts
         /\ state.process \in Process
         /\ hand.intent \in 0 .. MaxAttempts /\ hand.process \in Process
         /\ hand.recovering \in BOOLEAN
         /\ handoff.process \in Process /\ handoff.clean \in BOOLEAN
         /\ \A a \in Attempt : intent[a].phase \in IntentPhase /\ intent[a].process \in Process
BY DEF TypeOK

LEMMA PersistIs ==
  ASSUME TypeOK, NEW f \in StatePhase, Persist(f)
  PROVE  /\ state' \in StateType
         /\ state'.phase = f /\ state'.attempt = state.attempt /\ state'.process = state.process
BY DEF TypeOK, Persist, StateType

LEMMA PersistWithIs ==
  ASSUME NEW f \in StatePhase, NEW n \in 0 .. MaxAttempts, NEW p \in Process, PersistWith(f, n, p)
  PROVE  /\ state' \in StateType
         /\ state'.phase = f /\ state'.attempt = n /\ state'.process = p
BY DEF PersistWith, StateType

LEMMA PublishIs ==
  ASSUME TypeOK, NEW a \in Attempt, NEW f \in IntentPhase, Publish(a, f)
  PROVE  /\ intent' \in IntentType
         /\ intent'[a].phase = f /\ intent'[a].process = intent[a].process
         /\ \A b \in Attempt : b # a => intent'[b] = intent[b]
BY DEF TypeOK, Publish, IntentType

LEMMA TakeIs ==
  ASSUME NEW a \in 0 .. MaxAttempts, NEW p \in Process, NEW r \in BOOLEAN, Take(a, p, r)
  PROVE  /\ hand' \in HandType
         /\ hand'.intent = a /\ hand'.process = p /\ hand'.recovering = r
BY DEF Take, HandType

LEMMA IdleIs ==
  ASSUME Idle
  PROVE  /\ pc' = "idle" /\ hand'.intent = 0 /\ hand'.process = None
         /\ hand' \in HandType
BY ServiceAssumption DEF Idle, EmptyHand, Process, HandType

-----------------------------------------------------------------------------
(* The steps that write an intent, take up an intent or add a child.         *)

LEMMA LookupStep ==
  ASSUME IInv, Lookup PROVE IInv'
<1>a. ASSUME NEW a \in Attempt, Take(a, None, TRUE)
      PROVE  /\ hand' \in HandType
             /\ hand'.intent = a /\ hand'.process = None
  <2>1. a \in 0 .. MaxAttempts /\ None \in Process /\ TRUE \in BOOLEAN
    BY ServiceAssumption DEF Attempt, Process
  <2>2. QED
    BY <1>a, <2>1, TakeIs
<1>b. \/ hand' = hand /\ pc' \in {"verify", "idle"} /\ pointer' = 0 /\ Found = {}
      \/ \E a \in Attempt : /\ hand' \in HandType
                            /\ hand'.intent = a /\ hand'.process = None /\ Found = {a}
                            /\ pc' = "recover" /\ pointer' = a
  BY <1>a DEF Lookup
<1>c. Found = Unresolved
  BY DEF IInv, Books, Index, Found
<1>d. /\ pc' \in Step /\ pointer' \in 0 .. MaxAttempts
      /\ hand' \in HandType
  BY <1>b, ServiceAssumption DEF Attempt, Step, IInv, TypeOK, HandType
<1>e. hand'.process \in Spawned \cup {None}
  BY <1>b DEF IInv, Books, Fresh
<1> USE ServiceAssumption, StateTypes DEF IInv, journal, children, Lookup, Found, Startable,
      Safe, AtMostOneChild, ChildIsKnown, Books, Index, PreparedOwnsLive, Ordered, Fresh,
      Spawned, Control, Before, After, Unresolved, TypeOK, Process, Attempt, Step, StatePhase,
      IntentPhase, StateType, IntentType, HandType
<1>1. TypeOK'
  BY <1>b, <1>c, <1>d, <1>e
<1>2. Safe'
  BY <1>b, <1>c, <1>d, <1>e
<1>3. Books'
  BY <1>b, <1>c, <1>d, <1>e
<1>4. Before'
  BY <1>b, <1>c, <1>d, <1>e
<1>5. After'
  BY <1>b, <1>c, <1>d, <1>e
<1>6. QED
  BY <1>1, <1>2, <1>3, <1>4, <1>5

LEMMA ExistingStep ==
  ASSUME IInv, Existing PROVE IInv'
<1>a. \/ /\ pc' = "wait" /\ state.process \in live /\ hand' \in HandType
         /\ hand'.intent = 0 /\ hand'.process = state.process
      \/ /\ pc' = "prepare" /\ state.process \notin live /\ state.attempt + 1 \in Attempt
         /\ hand'.intent = state.attempt + 1 /\ hand'.process = None
         /\ hand' \in HandType
  BY TakeIs, StateTypes, ServiceAssumption DEF IInv, Existing, Hold, Attempt, Process
<1>b. Unresolved = {} /\ pointer = 0
  BY DEF IInv, Control, Before, Existing
<1>c. state.process \notin live => live = {}
  BY <1>b DEF IInv, Safe, ChildIsKnown
<1> USE ServiceAssumption, StateTypes, TakeIs DEF IInv, journal, children, Existing, Hold, Safe,
      AtMostOneChild, ChildIsKnown, Books, Index, PreparedOwnsLive, Ordered, Fresh, Spawned,
      Control, Before, After, Unresolved, TypeOK, Process, Attempt, Step, StatePhase,
      IntentPhase, StateType, IntentType, HandType
<1>1. TypeOK'
  BY <1>a, <1>b, <1>c
<1>2. Safe'
  BY <1>a, <1>b, <1>c
<1>3. Books'
  BY <1>a, <1>b, <1>c
<1>4. Before'
  BY <1>a, <1>b, <1>c
<1>5. After'
  BY <1>a, <1>b, <1>c
<1>6. QED
  BY <1>1, <1>2, <1>3, <1>4, <1>5

LEMMA PrepareStep ==
  ASSUME IInv, Prepare PROVE IInv'
<1>a. hand.intent \in Attempt /\ intent[hand.intent].phase = "none"
  BY StateTypes, ServiceAssumption DEF IInv, Control, Before, Books, Ordered, Prepare, Attempt
<1>b. pc' = "bind" /\ Publish(hand.intent, "prepared") /\ pointer' = 0
      /\ live = {} /\ Unresolved = {}
  BY <1>a DEF IInv, Control, Before, Prepare
<1>c. /\ intent' \in IntentType
      /\ intent'[hand.intent].phase = "prepared"
      /\ intent'[hand.intent].process = intent[hand.intent].process
      /\ \A b \in Attempt : b # hand.intent => intent'[b] = intent[b]
  BY <1>a, <1>b, PublishIs DEF IInv, IntentPhase
<1>d. Unresolved' = {hand.intent}
  BY <1>a, <1>b, <1>c DEF Unresolved, IntentPhase
<1> USE ServiceAssumption, StateTypes DEF IInv, journal, children, Prepare, Safe,
      AtMostOneChild, ChildIsKnown, Books, Index, PreparedOwnsLive, Ordered, Fresh, Spawned,
      Control, Before, After, Unresolved, TypeOK, Process, Attempt, Step, StatePhase,
      IntentPhase, StateType, IntentType, HandType
<1>1. TypeOK'
  BY <1>a, <1>b, <1>c, <1>d
<1>2. Safe'
  BY <1>a, <1>b, <1>c, <1>d
<1>3. Books'
  <2>1. Index'
    BY <1>a, <1>b, <1>c, <1>d
  <2>2. PreparedOwnsLive'
    BY <1>a, <1>b, <1>c, <1>d
  <2>3. Ordered'
    BY <1>a, <1>b, <1>c, <1>d
  <2>4. Fresh'
    BY <1>a, <1>b, <1>c, <1>d
  <2>5. QED
    BY <2>1, <2>2, <2>3, <2>4
<1>4. Before'
  BY <1>a, <1>b, <1>c, <1>d
<1>5. After'
  BY <1>a, <1>b, <1>c, <1>d
<1>6. QED
  BY <1>1, <1>2, <1>3, <1>4, <1>5

LEMMA SpawnStep ==
  ASSUME IInv, Spawn PROVE IInv'
<1>a. PICK c \in Child : /\ origin[c] = 0 /\ origin' = [origin EXCEPT ![c] = hand.intent]
                         /\ live' = live \cup {c} /\ Hold(hand.intent, c)
  BY DEF Spawn
<1>b. /\ hand' \in HandType
      /\ hand'.intent = hand.intent /\ hand'.process = c
  BY <1>a, TakeIs, StateTypes DEF Hold, IInv, Process
<1>c. live' = {c} /\ hand.intent \in Attempt
  BY <1>a DEF IInv, Control, Before, Spawn
<1>d. /\ origin' \in [Child -> 0 .. MaxAttempts] /\ origin'[c] = hand.intent
      /\ \A d \in Child : d # c => origin'[d] = origin[d]
  BY <1>a, <1>c DEF IInv, TypeOK, Attempt
<1> USE ServiceAssumption, StateTypes DEF IInv, journal, children, Spawn, Hold, Safe,
      AtMostOneChild, ChildIsKnown, Books, Index, PreparedOwnsLive, Ordered, Fresh, Spawned,
      Control, Before, After, Unresolved, TypeOK, Process, Attempt, Step, StatePhase,
      IntentPhase, StateType, IntentType, HandType
<1>1. TypeOK'
  BY <1>a, <1>b, <1>c, <1>d
<1>2. Safe'
  BY <1>a, <1>b, <1>c, <1>d
<1>3. Books'
  BY <1>a, <1>b, <1>c, <1>d
<1>4. Before'
  BY <1>a, <1>b, <1>c, <1>d
<1>5. After'
  BY <1>a, <1>b, <1>c, <1>d
<1>6. QED
  BY <1>1, <1>2, <1>3, <1>4, <1>5

LEMMA RecordProcessStep ==
  ASSUME IInv, RecordProcess PROVE IInv'
<1>a. /\ intent'[hand.intent].phase = "confirmed" /\ intent'[hand.intent].process = hand.process
      /\ intent' \in IntentType
      /\ \A b \in Attempt : b # hand.intent => intent'[b] = intent[b]
  BY StateTypes DEF IInv, TypeOK, RecordProcess, Control, Before, IntentPhase,
    IntentType
<1> USE ServiceAssumption, StateTypes DEF IInv, journal, children, RecordProcess, Safe,
      AtMostOneChild, ChildIsKnown, Books, Index, PreparedOwnsLive, Ordered, Fresh, Spawned,
      Control, Before, After, Unresolved, TypeOK, Process, Attempt, Step, StatePhase,
      IntentPhase, StateType, IntentType, HandType
<1>1. TypeOK'
  BY <1>a
<1>2. Safe'
  BY <1>a
<1>3. Books'
  BY <1>a
<1>4. Before'
  BY <1>a
<1>5. After'
  BY <1>a
<1>6. QED
  BY <1>1, <1>2, <1>3, <1>4, <1>5

LEMMA RecoverPreparedStep ==
  ASSUME IInv, RecoverPrepared PROVE IInv'
<1>a. hand.intent \in Attempt /\ intent[hand.intent].phase = "prepared"
  BY DEF IInv, Control, Before, Unresolved, RecoverPrepared
<1>b. \/ pc' = "spawn" /\ hand' = hand /\ \A c \in live : origin[c] # hand.intent
      \/ /\ pc' = "record" /\ hand' \in HandType
         /\ hand'.intent = hand.intent /\ hand'.process \in live
  BY TakeIs, StateTypes DEF IInv, TypeOK, RecoverPrepared, Hold, Process, HandType
<1> USE ServiceAssumption, StateTypes DEF IInv, journal, children, RecoverPrepared, Hold, Safe,
      AtMostOneChild, ChildIsKnown, Books, Index, PreparedOwnsLive, Ordered, Fresh, Spawned,
      Control, Before, After, Unresolved, TypeOK, Process, Attempt, Step, StatePhase,
      IntentPhase, StateType, IntentType, HandType
<1>1. TypeOK'
  BY <1>a, <1>b
<1>2. Safe'
  BY <1>a, <1>b
<1>3. Books'
  BY <1>a, <1>b
<1>4. Before'
  BY <1>a, <1>b
<1>5. After'
  BY <1>a, <1>b
<1>6. QED
  BY <1>1, <1>2, <1>3, <1>4, <1>5

LEMMA RecoverProcessStep ==
  ASSUME IInv, RecoverProcess PROVE IInv'
<1>a. /\ hand.intent \in Attempt /\ hand.intent \in 0 .. MaxAttempts
      /\ intent[hand.intent].process \in Process
  BY StateTypes DEF IInv, Control, Before, Unresolved, RecoverProcess
<1>b. /\ hand' \in HandType
      /\ hand'.intent = hand.intent /\ hand'.process = intent[hand.intent].process
  BY <1>a, TakeIs, StateTypes DEF IInv, RecoverProcess, Hold
<1> USE ServiceAssumption, StateTypes DEF IInv, journal, children, RecoverProcess, Hold, Safe,
      AtMostOneChild, ChildIsKnown, Books, Index, PreparedOwnsLive, Ordered, Fresh, Spawned,
      Control, Before, After, Unresolved, TypeOK, Process, Attempt, Step, StatePhase,
      IntentPhase, StateType, IntentType, HandType
<1>1. TypeOK'
  BY <1>a, <1>b
<1>2. Safe'
  BY <1>a, <1>b
<1>3. Books'
  BY <1>a, <1>b
<1>4. Before'
  BY <1>a, <1>b
<1>5. After'
  BY <1>a, <1>b
<1>6. QED
  BY <1>1, <1>2, <1>3, <1>4, <1>5

LEMMA StateCommittedStep ==
  ASSUME IInv, StateCommitted PROVE IInv'
<1>a. /\ hand.intent \in Unresolved /\ hand.intent \in Attempt
      /\ intent[hand.intent].phase # "prepared"
  BY DEF IInv, Control, After, Unresolved, StateCommitted
<1>b. /\ intent' \in IntentType
      /\ intent'[hand.intent].phase = "committed"
      /\ intent'[hand.intent].process = intent[hand.intent].process
      /\ \A b \in Attempt : b # hand.intent => intent'[b] = intent[b]
  BY <1>a, PublishIs DEF IInv, IntentPhase, StateCommitted
<1>c. Unresolved' = Unresolved
  BY <1>a, <1>b DEF Unresolved
<1>d. Index' /\ PreparedOwnsLive'
  BY <1>a, <1>b, <1>c DEF IInv, Books, Index, PreparedOwnsLive, StateCommitted, children
<1>e. Ordered'
  BY <1>a, <1>b, <1>c, StateTypes DEF IInv, Books, Ordered, Control, After, StateCommitted, Attempt
<1>f. Fresh'
  <2>1. \A b \in Attempt : intent'[b].process = intent[b].process
    BY <1>b
  <2>2. QED
    BY <2>1 DEF IInv, Books, Fresh, Spawned, StateCommitted, children
<1>3. Books'
  BY <1>d, <1>e, <1>f DEF Books
<1> USE ServiceAssumption, StateTypes DEF IInv, journal, children, StateCommitted, Safe,
      AtMostOneChild, ChildIsKnown, Books, Index, PreparedOwnsLive, Ordered, Fresh, Spawned,
      Control, Before, After, Unresolved, TypeOK, Process, Attempt, Step, StatePhase,
      IntentPhase, StateType, IntentType, HandType
<1>1. TypeOK'
  BY <1>a, <1>b, <1>c
<1>2. Safe'
  BY <1>a, <1>b, <1>c
<1>4. Before'
  BY <1>a, <1>b, <1>c
<1>5. After'
  BY <1>a, <1>b, <1>c
<1>6. QED
  BY <1>1, <1>2, <1>3, <1>4, <1>5

LEMMA CompleteStep ==
  ASSUME IInv, Complete PROVE IInv'
<1>a. /\ hand.intent \in Unresolved /\ hand.intent \in Attempt
      /\ intent[hand.intent].phase # "prepared"
  BY DEF IInv, Control, After, Unresolved, Complete
<1>b. /\ intent' \in IntentType
      /\ intent'[hand.intent].phase = "complete"
      /\ intent'[hand.intent].process = intent[hand.intent].process
      /\ \A b \in Attempt : b # hand.intent => intent'[b] = intent[b]
  BY <1>a, PublishIs DEF IInv, IntentPhase, Complete
<1>c. Unresolved' = {}
  BY <1>a, <1>b DEF Unresolved, IInv, Books, Index
<1>d. Index' /\ PreparedOwnsLive'
  BY <1>a, <1>b, <1>c DEF IInv, Books, Index, PreparedOwnsLive, Complete, children
<1>e. Ordered'
  BY <1>a, <1>b, <1>c, StateTypes DEF IInv, Books, Index, Ordered, Control, After, Complete, Attempt
<1>f. Fresh'
  <2>1. \A b \in Attempt : intent'[b].process = intent[b].process
    BY <1>b
  <2>2. QED
    BY <2>1 DEF IInv, Books, Fresh, Spawned, Complete, children
<1>3. Books'
  BY <1>d, <1>e, <1>f DEF Books
<1> USE ServiceAssumption, StateTypes DEF IInv, journal, children, Complete, Safe,
      AtMostOneChild, ChildIsKnown, Books, Index, PreparedOwnsLive, Ordered, Fresh, Spawned,
      Control, Before, After, Unresolved, TypeOK, Process, Attempt, Step, StatePhase,
      IntentPhase, StateType, IntentType, HandType
<1>1. TypeOK'
  BY <1>a, <1>b, <1>c
<1>2. Safe'
  BY <1>a, <1>b, <1>c
<1>4. Before'
  BY <1>a, <1>b, <1>c
<1>5. After'
  BY <1>a, <1>b, <1>c
<1>6. QED
  BY <1>1, <1>2, <1>3, <1>4, <1>5

LEMMA StopProcessStep ==
  ASSUME IInv, StopProcess PROVE IInv'
<1>a. /\ state' \in StateType
      /\ state'.attempt = state.attempt /\ state'.process = state.process
  BY PersistIs DEF IInv, StopProcess, StatePhase
<1>b. state.process \in Process /\ 0 \in 0 .. MaxAttempts
  BY StateTypes, ServiceAssumption DEF IInv
<1>c. /\ hand' \in HandType
      /\ hand'.intent = 0 /\ hand'.process = state.process
  BY <1>b, TakeIs DEF StopProcess
<1> USE ServiceAssumption, StateTypes DEF IInv, journal, children, StopProcess, Safe,
      AtMostOneChild, ChildIsKnown, Books, Index, PreparedOwnsLive, Ordered, Fresh, Spawned,
      Control, Before, After, Unresolved, TypeOK, Process, Attempt, Step, StatePhase,
      IntentPhase, StateType, IntentType, HandType
<1>1. TypeOK'
  BY <1>a, <1>b, <1>c
<1>2. Safe'
  BY <1>a, <1>b, <1>c
<1>3. Books'
  BY <1>a, <1>b, <1>c
<1>4. Before'
  BY <1>a, <1>b, <1>c
<1>5. After'
  BY <1>a, <1>b, <1>c
<1>6. QED
  BY <1>1, <1>2, <1>3, <1>4, <1>5

-----------------------------------------------------------------------------
(* The other steps.                                                        *)

USE ServiceAssumption DEF IInv, journal, children, Safe, AtMostOneChild, ChildIsKnown, Books,
    Index, PreparedOwnsLive, Ordered, Fresh, Spawned, Control, Before, After, Unresolved,
    TypeOK, Process, Attempt, Step, StatePhase, IntentPhase, StateType, IntentType, HandType

LEMMA StartExactStep ==
  ASSUME IInv, StartExact PROVE IInv'
<1> USE StateTypes, PersistIs DEF StartExact
<1>1. TypeOK'
  OBVIOUS
<1>2. Safe'
  OBVIOUS
<1>3. Books'
  OBVIOUS
<1>4. Before'
  OBVIOUS
<1>5. After'
  OBVIOUS
<1>6. QED
  BY <1>1, <1>2, <1>3, <1>4, <1>5

LEMMA VerifyStep ==
  ASSUME IInv, Verify PROVE IInv'
<1> USE StateTypes, PersistIs DEF Verify
<1>1. TypeOK'
  OBVIOUS
<1>2. Safe'
  OBVIOUS
<1>3. Books'
  OBVIOUS
<1>4. Before'
  OBVIOUS
<1>5. After'
  OBVIOUS
<1>6. QED
  BY <1>1, <1>2, <1>3, <1>4, <1>5

LEMMA ReconcilePriorStep ==
  ASSUME IInv, ReconcilePrior PROVE IInv'
<1> USE StateTypes, PersistIs DEF ReconcilePrior
<1>1. TypeOK'
  OBVIOUS
<1>2. Safe'
  OBVIOUS
<1>3. Books'
  OBVIOUS
<1>4. Before'
  OBVIOUS
<1>5. After'
  OBVIOUS
<1>6. QED
  BY <1>1, <1>2, <1>3, <1>4, <1>5

LEMMA BindStep ==
  ASSUME IInv, Bind PROVE IInv'
<1> USE StateTypes DEF Bind
<1>1. TypeOK'
  OBVIOUS
<1>2. Safe'
  OBVIOUS
<1>3. Books'
  OBVIOUS
<1>4. Before'
  OBVIOUS
<1>5. After'
  OBVIOUS
<1>6. QED
  BY <1>1, <1>2, <1>3, <1>4, <1>5

LEMMA MarkStep ==
  ASSUME IInv, Mark PROVE IInv'
<1> USE StateTypes, PersistWithIs DEF Mark
<1>1. TypeOK'
  OBVIOUS
<1>2. Safe'
  OBVIOUS
<1>3. Books'
  OBVIOUS
<1>4. Before'
  OBVIOUS
<1>5. After'
  OBVIOUS
<1>6. QED
  BY <1>1, <1>2, <1>3, <1>4, <1>5

LEMMA CheckStep ==
  ASSUME IInv, Check PROVE IInv'
<1> USE StateTypes DEF Check
<1>1. TypeOK'
  OBVIOUS
<1>2. Safe'
  OBVIOUS
<1>3. Books'
  OBVIOUS
<1>4. Before'
  OBVIOUS
<1>5. After'
  OBVIOUS
<1>6. QED
  BY <1>1, <1>2, <1>3, <1>4, <1>5

LEMMA WaitReadyStep ==
  ASSUME IInv, WaitReady PROVE IInv'
<1> USE StateTypes, PersistWithIs DEF WaitReady, Larger
<1>1. TypeOK'
  OBVIOUS
<1>2. Safe'
  OBVIOUS
<1>3. Books'
  OBVIOUS
<1>4. Before'
  OBVIOUS
<1>5. After'
  OBVIOUS
<1>6. QED
  BY <1>1, <1>2, <1>3, <1>4, <1>5

LEMMA ReadyStep ==
  ASSUME IInv, Ready PROVE IInv'
<1> USE StateTypes DEF Ready
<1>1. TypeOK'
  OBVIOUS
<1>2. Safe'
  OBVIOUS
<1>3. Books'
  OBVIOUS
<1>4. Before'
  OBVIOUS
<1>5. After'
  OBVIOUS
<1>6. QED
  BY <1>1, <1>2, <1>3, <1>4, <1>5

LEMMA RunStep ==
  ASSUME IInv, Run PROVE IInv'
<1> USE StateTypes, PersistIs, IdleIs DEF Run
<1>1. TypeOK'
  OBVIOUS
<1>2. Safe'
  OBVIOUS
<1>3. Books'
  OBVIOUS
<1>4. Before'
  OBVIOUS
<1>5. After'
  OBVIOUS
<1>6. QED
  BY <1>1, <1>2, <1>3, <1>4, <1>5

LEMMA ClearStep ==
  ASSUME IInv, Clear PROVE IInv'
<1> USE StateTypes, IdleIs DEF Clear
<1>1. TypeOK'
  OBVIOUS
<1>2. Safe'
  OBVIOUS
<1>3. Books'
  OBVIOUS
<1>4. Before'
  OBVIOUS
<1>5. After'
  OBVIOUS
<1>6. QED
  BY <1>1, <1>2, <1>3, <1>4, <1>5

LEMMA StopNothingStep ==
  ASSUME IInv, StopNothing PROVE IInv'
<1> USE StateTypes, PersistIs DEF StopNothing
<1>1. TypeOK'
  OBVIOUS
<1>2. Safe'
  OBVIOUS
<1>3. Books'
  OBVIOUS
<1>4. Before'
  OBVIOUS
<1>5. After'
  OBVIOUS
<1>6. QED
  BY <1>1, <1>2, <1>3, <1>4, <1>5

LEMMA StopChildStep ==
  ASSUME IInv, StopChild PROVE IInv'
<1> USE StateTypes DEF StopChild
<1>1. TypeOK'
  OBVIOUS
<1>2. Safe'
  OBVIOUS
<1>3. Books'
  OBVIOUS
<1>4. Before'
  OBVIOUS
<1>5. After'
  OBVIOUS
<1>6. QED
  BY <1>1, <1>2, <1>3, <1>4, <1>5

LEMMA ExitedStep ==
  ASSUME IInv, Exited PROVE IInv'
<1> USE StateTypes, PersistWithIs, IdleIs DEF Exited
<1>1. TypeOK'
  OBVIOUS
<1>2. Safe'
  OBVIOUS
<1>3. Books'
  OBVIOUS
<1>4. Before'
  OBVIOUS
<1>5. After'
  OBVIOUS
<1>6. QED
  BY <1>1, <1>2, <1>3, <1>4, <1>5

LEMMA ReportExitStep ==
  ASSUME IInv, NEW clean \in BOOLEAN, ReportExit(clean) PROVE IInv'
<1> USE StateTypes DEF ReportExit, Watched
<1>1. TypeOK'
  OBVIOUS
<1>2. Safe'
  OBVIOUS
<1>3. Books'
  OBVIOUS
<1>4. Before'
  OBVIOUS
<1>5. After'
  OBVIOUS
<1>6. QED
  BY <1>1, <1>2, <1>3, <1>4, <1>5

LEMMA CommitExitStep ==
  ASSUME IInv, CommitExit PROVE IInv'
<1> USE StateTypes, PersistWithIs DEF CommitExit, Watched
<1>1. TypeOK'
  OBVIOUS
<1>2. Safe'
  OBVIOUS
<1>3. Books'
  OBVIOUS
<1>4. Before'
  OBVIOUS
<1>5. After'
  OBVIOUS
<1>6. QED
  BY <1>1, <1>2, <1>3, <1>4, <1>5

LEMMA ChildExitsStep ==
  ASSUME IInv, NEW c \in Child, ChildExits(c) PROVE IInv'
<1> USE StateTypes DEF ChildExits
<1>1. TypeOK'
  OBVIOUS
<1>2. Safe'
  OBVIOUS
<1>3. Books'
  OBVIOUS
<1>4. Before'
  OBVIOUS
<1>5. After'
  OBVIOUS
<1>6. QED
  BY <1>1, <1>2, <1>3, <1>4, <1>5

LEMMA InterruptStep ==
  ASSUME IInv, Interrupt PROVE IInv'
<1> USE StateTypes, IdleIs DEF Interrupt
<1>1. TypeOK'
  OBVIOUS
<1>2. Safe'
  OBVIOUS
<1>3. Books'
  OBVIOUS
<1>4. Before'
  OBVIOUS
<1>5. After'
  OBVIOUS
<1>6. QED
  BY <1>1, <1>2, <1>3, <1>4, <1>5

HIDE ServiceAssumption DEF IInv, journal, children, Safe, AtMostOneChild, ChildIsKnown, Books,
     Index, PreparedOwnsLive, Ordered, Fresh, Spawned, Control, Before, After, Unresolved,
     TypeOK, Process, Attempt, Step, StatePhase, IntentPhase, StateType, IntentType, HandType

-----------------------------------------------------------------------------
LEMMA Initial == Init => IInv
<1> SUFFICES ASSUME Init PROVE IInv
  OBVIOUS
<1> USE ServiceAssumption DEF Init, NoIntent, EmptyHand, NoHandoff
<1>1. TypeOK
  BY DEF TypeOK, Attempt, Process, StatePhase, IntentPhase, Step
<1>2. Unresolved = {}
  BY DEF Unresolved
<1>3. Safe /\ Books
  BY <1>2 DEF Safe, AtMostOneChild, ChildIsKnown, Books, Index, PreparedOwnsLive, Ordered, Fresh
<1>4. Control
  BY DEF Control, Before, After
<1>5. QED
  BY <1>1, <1>3, <1>4 DEF IInv

LEMMA Stuttering ==
  ASSUME IInv, UNCHANGED vars PROVE IInv'
<1> USE DEF vars, journal, children
<1>1. TypeOK'
  BY DEF IInv, TypeOK
<1>2. Unresolved' = Unresolved /\ Spawned' = Spawned
  BY DEF Unresolved, Spawned
<1>3. Safe'
  BY <1>2 DEF IInv, Safe, AtMostOneChild, ChildIsKnown
<1>4. Books'
  BY <1>2 DEF IInv, Books, Index, PreparedOwnsLive, Ordered, Fresh
<1>5. Control'
  BY <1>2 DEF IInv, Control, Before, After
<1>6. QED
  BY <1>1, <1>3, <1>4, <1>5 DEF IInv

\* IInv is inductive: one lemma above for each action.
THEOREM Invariance == Spec => []IInv
<1>1. ASSUME IInv, [Next]_vars PROVE IInv'
  <2>1. CASE Starting
    BY <1>1, <2>1, StartExactStep, LookupStep, VerifyStep, ReconcilePriorStep, ExistingStep,
      PrepareStep, BindStep, MarkStep, SpawnStep, RecordProcessStep, RecoverPreparedStep,
      RecoverProcessStep, CheckStep, WaitReadyStep, StateCommittedStep, ReadyStep, RunStep,
      CompleteStep, ClearStep DEF Starting
  <2>2. CASE Stopping
    BY <1>1, <2>2, StopNothingStep, StopProcessStep, StopChildStep, ExitedStep DEF Stopping
  <2>3. CASE \E clean \in BOOLEAN : ReportExit(clean)
    BY <1>1, <2>3, ReportExitStep
  <2>4. CASE \E c \in Child : ChildExits(c)
    BY <1>1, <2>4, ChildExitsStep
  <2>5. CASE Interrupt \/ CommitExit
    BY <1>1, <2>5, InterruptStep, CommitExitStep
  <2>6. CASE UNCHANGED vars
    BY <1>1, <2>6, Stuttering
  <2>7. QED
    BY <1>1, <2>1, <2>2, <2>3, <2>4, <2>5, <2>6 DEF Next
<1>2. QED
  BY <1>1, Initial, PTL DEF Spec

\* Every variable keeps its type.
THEOREM TypeCorrect == Spec => []TypeOK
<1>1. IInv => TypeOK
  BY DEF IInv
<1>2. QED
  BY <1>1, Invariance, PTL

\* A service never has two children, wherever its starts, recoveries, stops and exits
\* are cut short and repeated.
THEOREM OneChild == Spec => []AtMostOneChild
<1>1. IInv => AtMostOneChild
  BY DEF IInv, Safe
<1>2. QED
  BY <1>1, Invariance, PTL

\* A child that runs is named by the state document or by an unresolved start.
THEOREM NoChildForgotten == Spec => []ChildIsKnown
<1>1. IInv => ChildIsKnown
  BY DEF IInv, Safe
<1>2. QED
  BY <1>1, Invariance, PTL

\* What the store finds by its pointer or its scan is all that is unresolved.
THEOREM IndexNeverHides == Spec => []IndexIsTruthful
<1>1. IInv => IndexIsTruthful
  BY DEF IInv, Books, Index, IndexIsTruthful, Found
<1>2. QED
  BY <1>1, Invariance, PTL
=============================================================================
