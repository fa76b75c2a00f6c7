------------------------- MODULE SerialLaneProofs -------------------------
(***************************************************************************)
(* Theorems about SerialLane for any lanes and workers, any finite set of  *)
(* submissions, any capacity and any admission budget.                     *)
(***************************************************************************)
EXTENDS SerialLane, SequenceTheorems, FiniteSetTheorems, TLAPS

(***************************************************************************)
(* Queues are seen through what they hold.                                 *)
(***************************************************************************)
In(q, x) == \E k \in 1..Len(q) : q[k] = x
NoDup(q) == \A j, k \in 1..Len(q) : q[j] = q[k] => j = k

LEMMA InEmpty == \A x : ~In(<<>>, x)
  BY DEF In

LEMMA NoDupEmpty == NoDup(<<>>)
  BY DEF NoDup

LEMMA InType ==
  ASSUME NEW S, NEW q \in Seq(S), NEW x, In(q, x)
  PROVE  x \in S
  BY ElementOfSeq DEF In

LEMMA SomeIn ==
  ASSUME NEW S, NEW q \in Seq(S), q # <<>>
  PROVE  Head(q) \in S /\ In(q, Head(q)) /\ Tail(q) \in Seq(S) /\ Len(Tail(q)) = Len(q) - 1
<1>1. Len(q) \in Nat \ {0} /\ Head(q) = q[1]
  BY EmptySeq
<1> QED
  BY <1>1, HeadTailProperties DEF In

LEMMA TailIn ==
  ASSUME NEW S, NEW q \in Seq(S), q # <<>>
  PROVE  \A x : In(q, x) <=> x = Head(q) \/ In(Tail(q), x)
<1>1. Len(q) \in Nat \ {0} /\ Head(q) = q[1]
  BY EmptySeq
<1>2. Len(Tail(q)) = Len(q) - 1 /\ \A i \in 1..Len(Tail(q)) : Tail(q)[i] = q[i+1]
  BY HeadTailProperties
<1> TAKE x
<1>3. ASSUME In(Tail(q), x) PROVE In(q, x)
  <2>1. PICK k \in 1..Len(Tail(q)) : Tail(q)[k] = x
    BY <1>3 DEF In
  <2>2. k + 1 \in 1..Len(q) /\ q[k + 1] = x
    BY <1>1, <1>2, <2>1
  <2> QED
    BY <2>2 DEF In
<1>4. ASSUME In(q, x), x # Head(q) PROVE In(Tail(q), x)
  <2>1. PICK k \in 1..Len(q) : q[k] = x
    BY <1>4 DEF In
  <2>2. k - 1 \in 1..Len(Tail(q)) /\ Tail(q)[k - 1] = q[(k - 1) + 1]
    BY <1>1, <1>2, <1>4, <2>1
  <2>3. Tail(q)[k - 1] = x
    BY <1>1, <2>1, <2>2
  <2> QED
    BY <2>2, <2>3 DEF In
<1> QED
  BY <1>3, <1>4, SomeIn

LEMMA TailNoDup ==
  ASSUME NEW S, NEW q \in Seq(S), q # <<>>, NoDup(q)
  PROVE  NoDup(Tail(q)) /\ ~In(Tail(q), Head(q))
<1>1. Len(q) \in Nat \ {0} /\ Head(q) = q[1]
  BY EmptySeq
<1>2. Len(Tail(q)) = Len(q) - 1 /\ \A i \in 1..Len(Tail(q)) : Tail(q)[i] = q[i+1]
  BY HeadTailProperties
<1>3. NoDup(Tail(q))
  <2> SUFFICES ASSUME NEW j \in 1..Len(Tail(q)), NEW k \in 1..Len(Tail(q)),
                      Tail(q)[j] = Tail(q)[k]
               PROVE  j = k
    BY DEF NoDup
  <2>1. j + 1 \in 1..Len(q) /\ k + 1 \in 1..Len(q) /\ q[j + 1] = q[k + 1]
    BY <1>1, <1>2
  <2> QED
    BY <2>1 DEF NoDup
<1>4. ~In(Tail(q), Head(q))
  <2> SUFFICES ASSUME NEW k \in 1..Len(Tail(q)), Tail(q)[k] = Head(q) PROVE FALSE
    BY DEF In
  <2>1. k + 1 \in 1..Len(q) /\ 1 \in 1..Len(q) /\ q[k + 1] = q[1] /\ k + 1 # 1
    BY <1>1, <1>2
  <2> QED
    BY <2>1 DEF NoDup
<1> QED
  BY <1>3, <1>4

LEMMA AppendIn ==
  ASSUME NEW S, NEW q \in Seq(S), NEW e \in S
  PROVE  \A x : In(Append(q, e), x) <=> In(q, x) \/ x = e
<1>1. /\ Len(q) \in Nat /\ Len(Append(q, e)) = Len(q) + 1
      /\ \A i \in 1..Len(q) : Append(q, e)[i] = q[i]
      /\ Append(q, e)[Len(q) + 1] = e
  BY AppendProperties, LenProperties
<1> QED
  BY <1>1 DEF In

LEMMA AppendNoDup ==
  ASSUME NEW S, NEW q \in Seq(S), NEW e \in S, NoDup(q), ~In(q, e)
  PROVE  NoDup(Append(q, e))
<1>1. /\ Len(q) \in Nat /\ Len(Append(q, e)) = Len(q) + 1
      /\ \A i \in 1..Len(q) : Append(q, e)[i] = q[i]
      /\ Append(q, e)[Len(q) + 1] = e
  BY AppendProperties, LenProperties
<1> QED
  BY <1>1 DEF In, NoDup

(***************************************************************************)
(* The inductive invariant.                                                *)
(***************************************************************************)
Busy  == {"token", "item", "body", "finish", "reschedule"}
Fresh == {"start", "acquire", "permitted"}            \* nothing submitted yet
Owned == {"schedule", "bind", "accepted", "failed"}   \* an item of its own was queued

\* Where the token of a lane can be.
InQueue(l)       == In(ready[WorkerOf[l]], l)
WithWorker(l)    == worker[WorkerOf[l]] \in Busy /\ inHand[WorkerOf[l]][1] = l
WithSubmitter(l) == \E s \in Submission : sub[s] = "schedule" /\ LaneOf[s] = l
HasToken(l)      == InQueue(l) \/ WithWorker(l) \/ WithSubmitter(l)

\* A token stays with the worker of its lane.
Homes ==
  \A w \in Worker :
    /\ \A l \in Lane : In(ready[w], l) => WorkerOf[l] = w
    /\ worker[w] \in Busy => inHand[w][1] \in Lane /\ WorkerOf[inHand[w][1]] = w

\* It is in one place, once.
Single ==
  /\ \A w \in Worker : NoDup(ready[w])
  /\ \A s, t \in Submission :
       sub[s] = "schedule" /\ sub[t] = "schedule" /\ LaneOf[s] = LaneOf[t] => s = t
  /\ \A l \in Lane : /\ InQueue(l) => ~WithWorker(l) /\ ~WithSubmitter(l)
                     /\ WithWorker(l) => ~WithSubmitter(l)

\* It is there as long as the lane is scheduled, unless the factory closed.
Scheduling ==
  /\ \A l \in Lane : /\ HasToken(l) => scheduled[l]
                     /\ ~scheduled[l] => items[l] = <<>>
  /\ ~factoryClosed => /\ \A l \in Lane : scheduled[l] => HasToken(l)
                       /\ \A w \in Worker : worker[w] # "gone"
  /\ \A s \in Submission : sub[s] = "failed" =>
       factoryClosed /\ scheduled[LaneOf[s]] /\ ~HasToken(LaneOf[s])

TokenInv == Homes /\ Single /\ Scheduling

\* What a mailbox holds: items of its lane that no one has begun, once each.
Queues ==
  \A l \in Lane :
    /\ \A i \in Submission : In(items[l], i) =>
         LaneOf[i] = l /\ completion[i] = "pending" /\ sub[i] \in Owned
    /\ NoDup(items[l])
    /\ coalesced[l] # None => coalesced[l] \in Coalescing /\ In(items[l], coalesced[l])

\* What a worker has in hand: an item it took out of the mailbox of its token.
Hands ==
  \A w \in Worker : worker[w] \in {"item", "body"} =>
    /\ inHand[w][2] \in Submission
    /\ LaneOf[inHand[w][2]] = inHand[w][1]
    /\ sub[inHand[w][2]] \in {"bind", "accepted"}
    /\ ~In(items[inHand[w][1]], inHand[w][2])
    /\ completion[inHand[w][2]] = IF worker[w] = "item" THEN "pending" ELSE "running"
    /\ worker[w] = "body" /\ inHand[w][2] \notin Coalescing
         => future[inHand[w][2]] = "running"

\* A submission has a handle once it is past Fresh, and an item when it is Owned.
Births ==
  \A s \in Submission :
    /\ sub[s] \in Fresh <=> future[s] = "none"
    /\ sub[s] \in Owned <=> completion[s] # "none"
    /\ sub[s] = "merged" => s \in Coalescing

\* Who watches an item.
Watching ==
  \A i \in Submission :
    /\ i \notin Coalescing => watchers[i] \subseteq {i}
    /\ \A s \in watchers[i] : LaneOf[s] = LaneOf[i] /\ future[s] # "none"
    /\ watchers[i] # {} => completion[i] # "none"

\* An item that has not ended is in a mailbox or in a worker's hand, and a handle
\* that has not settled watches such an item.
Alive ==
  /\ \A i \in Submission :
       /\ completion[i] = "pending" =>
            \/ In(items[LaneOf[i]], i)
            \/ \E w \in Worker : worker[w] = "item" /\ inHand[w][2] = i
       /\ completion[i] = "running" =>
            \E w \in Worker : worker[w] = "body" /\ inHand[w][2] = i
  /\ \A s \in Submission : future[s] \in {"pending", "running"} =>
       \E i \in Submission : s \in watchers[i] /\ completion[i] = future[s]

WorkInv == Queues /\ Hands /\ Births /\ Watching /\ Alive

\* Who holds a permit.
Covered(s) == \/ sub[s] \in {"permitted", "schedule", "bind"}
              \/ sub[s] = "accepted" /\ ~WorkDone(s)

PermitInv == \A s \in Submission : s \in permits <=> Covered(s)

IInv == TypeOK /\ TokenInv /\ WorkInv /\ PermitInv

Stages  == {"start", "acquire", "permitted", "schedule", "bind", "accepted", "merged", "failed"}

(***************************************************************************)
(* Types.                                                                  *)
(***************************************************************************)
LEMMA Constants ==
  /\ MaxPermits \in Nat /\ Capacity \in Nat /\ Capacity > 0 /\ MaxCloses \in Nat
  /\ Created \in Seq(Lane) /\ None \notin Lane /\ None \notin Submission
  /\ \A s \in Submission : LaneOf[s] \in Lane
  /\ \A l \in Lane : WorkerOf[l] \in Worker
  BY LaneAssumption DEF LaneAssumption

LEMMA TypeInit == Init => TypeOK
<1> SUFFICES ASSUME Init PROVE TypeOK
  OBVIOUS
<1>1. Cardinality(permits) <= MaxPermits
  BY FS_EmptySet, LaneAssumption DEF LaneAssumption, Init
<1>2. \A S : <<>> \in Seq(S) /\ Len(<<>>) = 0
  BY EmptySeq
<1>3. /\ items \in [Lane -> Seq(Submission)] /\ \A l \in Lane : Len(items[l]) <= Capacity
      /\ ready \in [Worker -> Seq(Lane)] /\ order \in Seq(Submission) /\ toClose \in Seq(Lane)
  BY <1>2, LaneAssumption DEF LaneAssumption, Init
<1>4. sub \in [Submission -> Stages]
  BY DEF Init, Entry, Stages
<1>5. order \in Seq(Submission) /\ toClose \in Seq(Lane) /\ closing \in Lane \cup {None}
  BY <1>3, Constants DEF Init
<1>6. /\ coalesced \in [Lane -> Submission \cup {None}]
      /\ scheduled \in [Lane -> BOOLEAN] /\ running \in [Lane -> BOOLEAN]
      /\ sealed \in [Lane -> BOOLEAN]
      /\ watchers \in [Submission -> SUBSET Submission]
      /\ call \in [Submission -> Submission]
      /\ completion \in [Submission -> Handle] /\ future \in [Submission -> Handle]
      /\ result \in [Submission -> Submission \cup {None}] /\ permits \subseteq Submission
  BY DEF Init, Handle
<1>7. /\ worker \in [Worker -> {"idle", "token", "item", "body", "finish", "reschedule",
                               "gone"}]
      /\ factoryClosed \in BOOLEAN /\ clean \in BOOLEAN
      /\ closer \in {"open", "lanes", "joining", "failed", "converged"}
  BY DEF Init
<1>8. inHand \in [Worker -> (Lane \cup {None}) \X (Submission \cup {None})]
  <2>1. <<None, None>> \in (Lane \cup {None}) \X (Submission \cup {None})
    OBVIOUS
  <2>2. inHand = [w \in Worker |-> <<None, None>>]
    BY DEF Init
  <2> QED
    BY <2>1, <2>2
<1>9. closes \in 0..MaxCloses
  BY Constants DEF Init
<1> QED
  BY <1>1, <1>3, <1>4, <1>5, <1>6, <1>7, <1>8, <1>9 DEF TypeOK, Stages

LEMMA PermitsFinite ==
  ASSUME TypeOK
  PROVE  IsFiniteSet(permits) /\ Cardinality(permits) \in Nat
  BY FS_Subset, FS_CardinalityType, LaneAssumption DEF TypeOK, LaneAssumption

LEMMA FewerPermits ==
  ASSUME TypeOK, permits' \subseteq permits
  PROVE  permits' \subseteq Submission /\ Cardinality(permits') <= MaxPermits
<1>1. /\ Cardinality(permits') <= Cardinality(permits)
      /\ Cardinality(permits') \in Nat /\ Cardinality(permits) \in Nat
  BY PermitsFinite, FS_Subset, FS_CardinalityType
<1>2. permits \subseteq Submission /\ Cardinality(permits) <= MaxPermits
  BY DEF TypeOK
<1> QED
  BY <1>1, <1>2, Constants

LEMMA ReturnFewer == ReturnPermits => permits' \subseteq permits
  BY DEF ReturnPermits

LEMMA SubType ==
  ASSUME TypeOK, NEW s \in Submission, NEW to \in Stages, SubTo(s, to)
  PROVE  sub' \in [Submission -> Stages]
  BY DEF TypeOK, SubTo, Stages

LEMMA MergeType ==
  ASSUME TypeOK, NEW s \in Submission, NEW i \in Submission, Merge(s, i)
  PROVE  /\ watchers' \in [Submission -> SUBSET Submission]
         /\ call' \in [Submission -> Submission]
         /\ future' \in [Submission -> Handle]
         /\ order' \in Seq(Submission)
  BY AppendProperties DEF TypeOK, Merge, Handle

LEMMA TypeSubmit ==
  ASSUME TypeOK, NEW s \in Submission, SubmitStep(s) \/ CancelFuture(s)
  PROVE  TypeOK'
<1> USE DEF laneVars, workVars, subVars, workerVars, closeVars
<1>a. /\ LaneOf[s] \in Lane /\ WorkerOf[LaneOf[s]] \in Worker
      /\ coalesced[LaneOf[s]] # None => coalesced[LaneOf[s]] \in Submission
  BY LaneAssumption DEF LaneAssumption, TypeOK
<1>b. ASSUME permits' \subseteq permits
      PROVE  permits' \subseteq Submission /\ Cardinality(permits') <= MaxPermits
  BY <1>b, FewerPermits
<1>c. ASSUME NEW to \in Stages, SubTo(s, to) PROVE sub' \in [Submission -> Stages]
  BY <1>c, SubType
<1>1. CASE TryCoalesce(s)
  <2>1. sub' \in [Submission -> Stages]
    BY <1>1, <1>c DEF TryCoalesce, Stages
  <2>2. CASE UNCHANGED <<workVars, future, order>>
    BY <1>1, <2>1, <2>2 DEF TryCoalesce, TypeOK, Stages
  <2>3. CASE coalesced[LaneOf[s]] # None /\ Merge(s, coalesced[LaneOf[s]]) /\ UNCHANGED completion
    BY <1>1, <1>a, <2>1, <2>3, MergeType DEF TryCoalesce, TypeOK, Stages
  <2> QED
    BY <1>1, <2>2, <2>3 DEF TryCoalesce
<1>2. CASE Acquire(s)
  <2>1. permits' \subseteq Submission /\ Cardinality(permits') <= MaxPermits
    <3>1. permits' = permits \cup {s} /\ Cardinality(permits) < MaxPermits
      BY <1>2 DEF Acquire
    <3>2. /\ Cardinality(permits) \in Nat
          /\ \/ Cardinality(permits') = Cardinality(permits)
             \/ Cardinality(permits') = Cardinality(permits) + 1
      BY <3>1, PermitsFinite, FS_AddElement
    <3>3. permits \subseteq Submission
      BY DEF TypeOK
    <3> QED
      BY <3>1, <3>2, <3>3, Constants
  <2>2. sub' \in [Submission -> Stages]
    BY <1>2, <1>c DEF Acquire, Stages
  <2> QED
    BY <1>2, <2>1, <2>2 DEF Acquire, TypeOK, Stages
<1>3. CASE Refuse(s)
  <2>1. sub' \in [Submission -> Stages]
    BY <1>3, <1>c DEF Refuse, Stages, Entry
  <2> QED
    BY <1>3, <2>1, <1>b DEF Refuse, TypeOK, Stages
<1>4. CASE JoinLate(s)
  <2>1. sub' \in [Submission -> Stages]
    BY <1>4, <1>c DEF JoinLate, Stages
  <2> QED
    BY <1>4, <1>a, <2>1, <1>b, MergeType DEF JoinLate, TypeOK, Stages
<1>5. CASE FindFull(s)
  <2>1. sub' \in [Submission -> Stages]
    BY <1>5, <1>c DEF FindFull, Stages
  <2> QED
    BY <1>5, <2>1, <1>b DEF FindFull, TypeOK, Stages
<1>6. CASE Enqueue(s)
  <2>1. sub' \in [Submission -> Stages]
    BY <1>6, <1>c DEF Enqueue, Stages
  <2>2. /\ items' \in [Lane -> Seq(Submission)]
        /\ \A l \in Lane : Len(items'[l]) <= Capacity
    <3>1. /\ Append(items[LaneOf[s]], s) \in Seq(Submission)
          /\ Len(Append(items[LaneOf[s]], s)) = Len(items[LaneOf[s]]) + 1
          /\ Len(items[LaneOf[s]]) \in Nat
      BY <1>a, AppendProperties, LenProperties DEF TypeOK
    <3>2. Len(items[LaneOf[s]]) + 1 <= Capacity
      BY <1>6, <3>1, LaneAssumption DEF Enqueue, Full, LaneAssumption
    <3> QED
      BY <1>6, <1>a, <3>1, <3>2 DEF Enqueue, TypeOK
  <2>3. order' \in Seq(Submission)
    BY <1>6, AppendProperties DEF Enqueue, TypeOK
  <2>4. /\ coalesced' \in [Lane -> Submission \cup {None}]
        /\ scheduled' \in [Lane -> BOOLEAN]
        /\ watchers' \in [Submission -> SUBSET Submission]
        /\ completion' \in [Submission -> Handle] /\ future' \in [Submission -> Handle]
    BY <1>6, <1>a DEF Enqueue, TypeOK, Handle
  <2> QED
    BY <1>6, <2>1, <2>2, <2>3, <2>4 DEF Enqueue, TypeOK, Stages
<1>7. CASE Schedule(s)
  <2>1. sub' \in [Submission -> Stages]
    BY <1>7, <1>c DEF Schedule, Stages
  <2>2. ready' \in [Worker -> Seq(Lane)]
    <3>1. ready \in [Worker -> Seq(Lane)]
      BY DEF TypeOK
    <3>2. Append(ready[WorkerOf[LaneOf[s]]], LaneOf[s]) \in Seq(Lane)
      BY <1>a, <3>1, AppendProperties
    <3> QED
      BY <1>7, <3>1, <3>2 DEF Schedule
  <2>3. permits' \subseteq permits
    BY <1>7 DEF Schedule
  <2> QED
    BY <1>7, <2>1, <2>2, <2>3, <1>b DEF Schedule, TypeOK, Stages
<1>8. CASE Bind(s)
  <2>1. sub' \in [Submission -> Stages]
    BY <1>8, <1>c DEF Bind, Stages
  <2> QED
    BY <1>8, <2>1, <1>b, ReturnFewer DEF Bind, TypeOK, Stages
<1>9. CASE CancelFuture(s)
  <2>1. future' \in [Submission -> Handle]
    BY <1>9 DEF CancelFuture, TypeOK, Handle, Settled
  <2> QED
    BY <1>9, <2>1, <1>b, ReturnFewer DEF CancelFuture, TypeOK
<1> QED
  BY <1>1, <1>2, <1>3, <1>4, <1>5, <1>6, <1>7, <1>8, <1>9 DEF SubmitStep

LEMMA TypeWorker ==
  ASSUME TypeOK, Homes, Hands, NEW w \in Worker, WorkerStep(w)
  PROVE  TypeOK'
<1> USE DEF laneVars, workVars, subVars, workerVars, closeVars
<1>b. ASSUME permits' \subseteq permits
      PROVE  permits' \subseteq Submission /\ Cardinality(permits') <= MaxPermits
  BY <1>b, FewerPermits
<1>1. CASE TakeToken(w)
  <2>1. Head(ready[w]) \in Lane /\ Tail(ready[w]) \in Seq(Lane)
    BY <1>1, HeadTailProperties DEF TakeToken, TypeOK
  <2> QED
    BY <1>1, <2>1 DEF TakeToken, WorkerTo, TypeOK
<1>2. CASE Exit(w)
  BY <1>2 DEF Exit, WorkerTo, TypeOK
<1>3. CASE TakeItem(w)
  <2> DEFINE l == inHand[w][1]
  <2>1. l \in Lane
    BY <1>3 DEF TakeItem, Homes, Busy
  <2>2. items[l] # <<>> => /\ Head(items[l]) \in Submission
                           /\ Tail(items[l]) \in Seq(Submission)
                           /\ Len(Tail(items[l])) <= Capacity
    <3>1. items[l] \in Seq(Submission) /\ Len(items[l]) <= Capacity
      BY <2>1 DEF TypeOK
    <3>2. Len(items[l]) \in Nat
      BY <3>1, LenProperties
    <3> QED
      BY <3>1, <3>2, HeadTailProperties, LaneAssumption DEF LaneAssumption
  <2>3. CASE ~scheduled[l]
    BY <1>3, <2>3 DEF TakeItem, WorkerTo, TypeOK
  <2>4. CASE scheduled[l] /\ items[l] = <<>>
    BY <1>3, <2>1, <2>4 DEF TakeItem, WorkerTo, TypeOK
  <2>5. CASE scheduled[l] /\ items[l] # <<>>
    <3>1. /\ items' \in [Lane -> Seq(Submission)]
          /\ \A m \in Lane : Len(items'[m]) <= Capacity
      BY <1>3, <2>1, <2>2, <2>5 DEF TakeItem, TypeOK
    <3>2. coalesced' \in [Lane -> Submission \cup {None}]
      BY <1>3, <2>1, <2>5 DEF TakeItem, TypeOK, Uncoalesce
    <3>3. running' \in [Lane -> BOOLEAN]
      BY <1>3, <2>1, <2>5 DEF TakeItem, TypeOK
    <3>4. inHand' \in [Worker -> (Lane \cup {None}) \X (Submission \cup {None})]
      <4>1. inHand' = [inHand EXCEPT ![w][2] = Head(items[l])]
        BY <1>3, <2>5 DEF TakeItem
      <4>2. inHand[w] \in (Lane \cup {None}) \X (Submission \cup {None})
        BY DEF TypeOK
      <4>3. [inHand[w] EXCEPT ![2] = Head(items[l])]
              \in (Lane \cup {None}) \X (Submission \cup {None})
        BY <2>2, <2>5, <4>2
      <4> QED
        BY <4>1, <4>3 DEF TypeOK
    <3> QED
      BY <1>3, <2>5, <3>1, <3>2, <3>3, <3>4 DEF TakeItem, WorkerTo, TypeOK
  <2> QED
    BY <2>3, <2>4, <2>5
<1>4. CASE BeginItem(w)
  <2>1. /\ future' \in [Submission -> Handle] /\ completion' \in [Submission -> Handle]
    BY <1>4 DEF BeginItem, TypeOK, Handle, Settled
  <2> QED
    BY <1>4, <2>1, <1>b, ReturnFewer DEF BeginItem, WorkerTo, TypeOK
<1>5. CASE EndBody(w)
  <2>1. inHand[w][2] \in Submission
    BY <1>5 DEF EndBody, Hands
  <2>2. /\ future' \in [Submission -> Handle] /\ completion' \in [Submission -> Handle]
        /\ result' \in [Submission -> Submission \cup {None}]
    BY <1>5, <2>1 DEF EndBody, TypeOK, Handle, Settled
  <2> QED
    BY <1>5, <2>2, <1>b, ReturnFewer DEF EndBody, WorkerTo, TypeOK
<1>6. CASE FinishItem(w)
  BY <1>6 DEF FinishItem, WorkerTo, TypeOK
<1>7. CASE Reschedule(w)
  <2>1. ready' \in [Worker -> Seq(Lane)]
    <3>1. ready \in [Worker -> Seq(Lane)]
      BY DEF TypeOK
    <3>2. inHand[w][1] \in Lane
      BY <1>7 DEF Reschedule, Homes, Busy
    <3>3. Append(ready[w], inHand[w][1]) \in Seq(Lane)
      BY <3>1, <3>2, AppendProperties
    <3> QED
      BY <1>7, <3>1, <3>3 DEF Reschedule
  <2> QED
    BY <1>7, <2>1 DEF Reschedule, WorkerTo, TypeOK
<1> QED
  BY <1>1, <1>2, <1>3, <1>4, <1>5, <1>6, <1>7 DEF WorkerStep

LEMMA TypeClose ==
  ASSUME TypeOK, BeginClose \/ CloseStep \/ (\E l \in Lane : Seal(l))
  PROVE  TypeOK'
<1> USE DEF laneVars, workVars, subVars, workerVars, closeVars
<1>1. CASE BeginClose
  <2>1. closes' \in 0..MaxCloses /\ toClose' \in Seq(Lane)
    BY <1>1, Constants DEF BeginClose, TypeOK
  <2> QED
    BY <1>1, <2>1 DEF BeginClose, TypeOK
<1>2. ASSUME NEW l \in Lane, Seal(l) PROVE TypeOK'
  BY <1>2 DEF Seal, TypeOK
<1>3. CASE CancelLane
  <2>1. Head(toClose) \in Lane /\ Tail(toClose) \in Seq(Lane)
    BY <1>3, HeadTailProperties DEF CancelLane, TypeOK
  <2>2. /\ items' \in [Lane -> Seq(Submission)] /\ \A l \in Lane : Len(items'[l]) <= Capacity
    <3>1. <<>> \in Seq(Submission) /\ Len(<<>>) <= Capacity
      BY EmptySeq, Constants
    <3>2. items' = [items EXCEPT ![Head(toClose)] = <<>>]
      BY <1>3 DEF CancelLane
    <3>3. items \in [Lane -> Seq(Submission)] /\ \A l \in Lane : Len(items[l]) <= Capacity
      BY DEF TypeOK
    <3> QED
      BY <2>1, <3>1, <3>2, <3>3
  <2>3. /\ future' \in [Submission -> Handle] /\ completion' \in [Submission -> Handle]
    BY <1>3 DEF CancelLane, TypeOK, Handle, Settled
  <2>4. permits' \subseteq Submission /\ Cardinality(permits') <= MaxPermits
    BY <1>3, FewerPermits, ReturnFewer DEF CancelLane
  <2>5. coalesced' \in [Lane -> Submission \cup {None}] /\ sealed' \in [Lane -> BOOLEAN]
    BY <1>3, <2>1 DEF CancelLane, TypeOK
  <2> QED
    BY <1>3, <2>1, <2>2, <2>3, <2>4, <2>5 DEF CancelLane, AfterCancel, TypeOK
<1>4. CASE LaneReturns
  BY <1>4 DEF LaneReturns, TypeOK
<1>5. CASE CloseFactory
  BY <1>5 DEF CloseFactory, TypeOK
<1>6. CASE JoinWorkers
  BY <1>6 DEF JoinWorkers, TypeOK
<1> QED
  BY <1>1, <1>2, <1>3, <1>4, <1>5, <1>6 DEF CloseStep

(***************************************************************************)
(* The tokens.  Most steps leave every token where it is; the others give  *)
(* an unscheduled lane one, hand it on, or take it away with the schedule. *)
(***************************************************************************)
TokensStay ==
  /\ UNCHANGED <<ready, scheduled, factoryClosed>>
  /\ \A w \in Worker : /\ worker'[w] \in Busy <=> worker[w] \in Busy
                       /\ worker'[w] = "gone" => worker[w] = "gone"
                       /\ inHand'[w][1] = inHand[w][1]
  /\ \A s \in Submission : /\ sub'[s] = "schedule" <=> sub[s] = "schedule"
                           /\ sub'[s] = "failed" => sub[s] = "failed"
  /\ \A l \in Lane : ~scheduled[l] => items'[l] \in {items[l], <<>>}

LEMMA TokensStayKeep ==
  ASSUME TokenInv, TokensStay
  PROVE  TokenInv'
<1>1. \A l \in Lane : /\ InQueue(l)' <=> InQueue(l)
                      /\ WithWorker(l)' <=> WithWorker(l)
                      /\ WithSubmitter(l)' <=> WithSubmitter(l)
  BY Constants DEF TokensStay, InQueue, WithWorker, WithSubmitter
<1>2. Homes'
  BY DEF TokenInv, Homes, TokensStay
<1>3. Single'
  BY <1>1 DEF TokenInv, Single, TokensStay
<1>4. Scheduling'
  BY <1>1, Constants DEF TokenInv, Scheduling, HasToken, TokensStay
<1> QED
  BY <1>2, <1>3, <1>4 DEF TokenInv

LEMMA SubmitTokensStay ==
  ASSUME TypeOK, NEW s \in Submission, SubmitStep(s) \/ CancelFuture(s),
         ~Enqueue(s), ~Schedule(s)
  PROVE  TokensStay
<1> USE DEF laneVars, workVars, subVars, workerVars, closeVars
<1>1. \A t \in Submission : /\ sub'[t] = "schedule" <=> sub[t] = "schedule"
                            /\ sub'[t] = "failed" => sub[t] = "failed"
  BY DEF SubmitStep, TryCoalesce, Acquire, Refuse, JoinLate, FindFull, MayQueue, Bind,
         CancelFuture, SubTo, Entry, TypeOK
<1>2. UNCHANGED <<ready, scheduled, factoryClosed, worker, inHand, items>>
  BY DEF SubmitStep, TryCoalesce, Acquire, Refuse, JoinLate, FindFull, Bind, CancelFuture
<1> QED
  BY <1>1, <1>2 DEF TokensStay

\* The first item of an unscheduled lane leaves the token with its submitter.
LEMMA EnqueueTokens ==
  ASSUME TypeOK, TokenInv, NEW s \in Submission, Enqueue(s)
  PROVE  TokenInv'
<1> USE DEF laneVars, workVars, subVars, workerVars, closeVars
<1> DEFINE l == LaneOf[s]
<1>0. /\ UNCHANGED <<ready, worker, inHand, factoryClosed>>
      /\ sub[s] = "permitted" /\ \A t \in Submission \ {s} : sub'[t] = sub[t]
      /\ sub'[s] = IF scheduled[l] THEN "bind" ELSE "schedule"
      /\ l \in Lane /\ scheduled' = [scheduled EXCEPT ![l] = TRUE]
      /\ \A m \in Lane \ {l} : items'[m] = items[m]
  BY Constants DEF Enqueue, MayQueue, SubTo, TypeOK
<1> HIDE DEF l
<1>1. Homes'
  BY <1>0 DEF TokenInv, Homes
<1>2. \A m \in Lane : /\ InQueue(m)' <=> InQueue(m)
                      /\ WithWorker(m)' <=> WithWorker(m)
                      /\ WithSubmitter(m)' <=> WithSubmitter(m) \/ (m = l /\ ~scheduled[l])
  BY <1>0 DEF InQueue, WithWorker, WithSubmitter, l
<1>3. scheduled \in [Lane -> BOOLEAN] /\ (~scheduled[l] => ~HasToken(l))
  BY <1>0 DEF TypeOK, TokenInv, Scheduling
<1>4. Single'
  <2>1. \A t, u \in Submission :
          sub'[t] = "schedule" /\ sub'[u] = "schedule" /\ LaneOf[t] = LaneOf[u] => t = u
    BY <1>0, <1>3 DEF TokenInv, Single, HasToken, WithSubmitter, l
  <2>2. \A w \in Worker : NoDup(ready'[w])
    BY <1>0 DEF TokenInv, Single
  <2> QED
    BY <1>2, <1>3, <2>1, <2>2 DEF TokenInv, Single, HasToken
<1>5. Scheduling'
  <2>1. \A m \in Lane : scheduled'[m] = (scheduled[m] \/ m = l)
    BY <1>0, <1>3
  <2>2. \A m \in Lane : HasToken(m)' <=> HasToken(m) \/ (m = l /\ ~scheduled[l])
    BY <1>2 DEF HasToken
  <2>3. \A t \in Submission : sub'[t] = "failed" =>
          factoryClosed' /\ scheduled'[LaneOf[t]] /\ ~HasToken(LaneOf[t])'
    BY <1>0, <2>1, <2>2, Constants DEF TokenInv, Scheduling
  <2>4. \A m \in Lane : /\ HasToken(m)' => scheduled'[m]
                        /\ ~scheduled'[m] => items'[m] = <<>>
    BY <1>0, <2>1, <2>2 DEF TokenInv, Scheduling
  <2>5. ~factoryClosed' => /\ \A m \in Lane : scheduled'[m] => HasToken(m)'
                           /\ \A w \in Worker : worker'[w] # "gone"
    BY <1>0, <2>1, <2>2 DEF TokenInv, Scheduling
  <2> QED
    BY <2>3, <2>4, <2>5 DEF Scheduling
<1> QED
  BY <1>1, <1>4, <1>5 DEF TokenInv

\* The submitter puts its token into the worker's queue, or loses it at a closed factory.
LEMMA ScheduleTokens ==
  ASSUME TypeOK, TokenInv, NEW s \in Submission, Schedule(s)
  PROVE  TokenInv'
<1> USE DEF laneVars, workVars, subVars, workerVars, closeVars
<1> DEFINE l == LaneOf[s]  w == WorkerOf[l]
<1>0. /\ l \in Lane /\ w \in Worker /\ WorkerOf[l] = w
      /\ UNCHANGED <<worker, inHand, factoryClosed, scheduled, items>>
      /\ sub[s] = "schedule" /\ \A t \in Submission \ {s} : sub'[t] = sub[t]
      /\ sub'[s] = IF factoryClosed THEN "failed" ELSE "bind"
      /\ ready' = IF factoryClosed THEN ready ELSE [ready EXCEPT ![w] = Append(ready[w], l)]
      /\ ready \in [Worker -> Seq(Lane)]
  BY Constants DEF Schedule, SubTo, TypeOK
<1>1. /\ WithSubmitter(l) /\ ~InQueue(l) /\ ~WithWorker(l)
      /\ \A t \in Submission : sub[t] = "schedule" /\ LaneOf[t] = l => t = s
      /\ scheduled[l]
  BY <1>0 DEF TokenInv, Single, Scheduling, HasToken, WithSubmitter
<1> HIDE DEF w
<1>2. \A v \in Worker : /\ NoDup(ready'[v])
                        /\ \A m \in Lane : In(ready'[v], m) <=>
                             In(ready[v], m) \/ (v = w /\ m = l /\ ~factoryClosed)
  <2>1. NoDup(ready[w]) /\ ~In(ready[w], l)
    BY <1>0, <1>1 DEF TokenInv, Single, InQueue
  <2>2. /\ NoDup(Append(ready[w], l))
        /\ \A m : In(Append(ready[w], l), m) <=> In(ready[w], m) \/ m = l
    BY <1>0, <2>1, AppendIn, AppendNoDup
  <2>3. CASE factoryClosed
    BY <1>0, <2>3 DEF TokenInv, Single
  <2>4. CASE ~factoryClosed
    <3>1. ready'[w] = Append(ready[w], l) /\ \A v \in Worker \ {w} : ready'[v] = ready[v]
      BY <1>0, <2>4
    <3> QED
      BY <2>2, <2>4, <3>1 DEF TokenInv, Single
  <2> QED
    BY <2>3, <2>4
<1>3. \A m \in Lane : /\ InQueue(m)' <=> InQueue(m) \/ (m = l /\ ~factoryClosed)
                      /\ WithWorker(m)' <=> WithWorker(m)
                      /\ WithSubmitter(m)' <=> WithSubmitter(m) /\ m # l
  <2> TAKE m \in Lane
  <2>1. InQueue(m)' <=> InQueue(m) \/ (m = l /\ ~factoryClosed)
    BY <1>0, <1>2, Constants DEF InQueue
  <2>2. WithWorker(m)' <=> WithWorker(m)
    BY <1>0 DEF WithWorker
  <2>3. WithSubmitter(m)' <=> WithSubmitter(m) /\ m # l
    BY <1>0, <1>1 DEF WithSubmitter
  <2> QED
    BY <2>1, <2>2, <2>3
<1> HIDE DEF l
<1>4. Homes'
  BY <1>0, <1>2 DEF TokenInv, Homes
<1>5. Single'
  BY <1>0, <1>1, <1>2, <1>3 DEF TokenInv, Single
<1>6. Scheduling'
  <2>1. \A m \in Lane : HasToken(m)' <=> HasToken(m) /\ (m = l => ~factoryClosed)
    BY <1>1, <1>3 DEF HasToken
  <2>2. \A t \in Submission : sub'[t] = "failed" =>
          factoryClosed' /\ scheduled'[LaneOf[t]] /\ ~HasToken(LaneOf[t])'
    BY <1>0, <1>1, <2>1, Constants DEF TokenInv, Scheduling, l
  <2> QED
    BY <1>0, <2>1, <2>2 DEF TokenInv, Scheduling
<1> QED
  BY <1>4, <1>5, <1>6 DEF TokenInv

\* A worker w moves the token of lane m, or drops it with the schedule or because the
\* factory is closed.
Turns(w, m) ==
  /\ UNCHANGED <<sub, factoryClosed>>
  /\ \A v \in Worker \ {w} : /\ ready'[v] = ready[v] /\ worker'[v] = worker[v]
                             /\ inHand'[v][1] = inHand[v][1]
  /\ \A n \in Lane \ {m} : /\ In(ready'[w], n) <=> In(ready[w], n)
                           /\ WithWorker(n)' <=> WithWorker(n)
                           /\ scheduled'[n] = scheduled[n] /\ items'[n] = items[n]
  /\ NoDup(ready'[w])
  /\ worker'[w] \in Busy => inHand'[w][1] = m /\ ~In(ready'[w], m)
  /\ IF In(ready'[w], m) \/ worker'[w] \in Busy
     THEN scheduled'[m] /\ worker'[w] # "gone"
     ELSE \/ ~scheduled'[m] /\ items'[m] = <<>> /\ worker'[w] # "gone"
          \/ factoryClosed /\ scheduled'[m]

LEMMA TurnsKeep ==
  ASSUME TypeOK, TokenInv, NEW w \in Worker, NEW m \in Lane, WorkerOf[m] = w, HasToken(m),
         ~WithSubmitter(m), Turns(w, m)
  PROVE  TokenInv'
<1> USE DEF Turns
<1>1. \A n \in Lane \ {m} : InQueue(n)' <=> InQueue(n)
  BY Constants DEF InQueue
<1>2. \A n \in Lane : WithSubmitter(n)' <=> WithSubmitter(n)
  BY DEF WithSubmitter
<1>3. InQueue(m)' <=> In(ready'[w], m)
  BY DEF InQueue
<1>4. WithWorker(m)' <=> worker'[w] \in Busy
  BY DEF WithWorker
<1>5. Homes'
  BY DEF TokenInv, Homes
<1>6. Single'
  BY <1>1, <1>2, <1>3, <1>4 DEF TokenInv, Single
<1>7. Scheduling'
  <2>1. \A n \in Lane \ {m} : HasToken(n)' <=> HasToken(n)
    BY <1>1, <1>2 DEF HasToken
  <2>2. HasToken(m)' <=> In(ready'[w], m) \/ worker'[w] \in Busy
    BY <1>2, <1>3, <1>4 DEF HasToken
  <2>3. \A n \in Lane : /\ HasToken(n)' => scheduled'[n]
                        /\ ~scheduled'[n] => items'[n] = <<>>
    BY <2>1, <2>2 DEF TokenInv, Scheduling
  <2>4. ~factoryClosed' => /\ \A n \in Lane : scheduled'[n] => HasToken(n)'
                           /\ \A v \in Worker : worker'[v] # "gone"
    BY <2>1, <2>2 DEF TokenInv, Scheduling
  <2>5. \A s \in Submission : sub'[s] = "failed" =>
          factoryClosed' /\ scheduled'[LaneOf[s]] /\ ~HasToken(LaneOf[s])'
    BY <2>1, Constants DEF TokenInv, Scheduling
  <2> QED
    BY <2>3, <2>4, <2>5 DEF Scheduling
<1> QED
  BY <1>5, <1>6, <1>7 DEF TokenInv

LEMMA TakeTokenTokens ==
  ASSUME TypeOK, TokenInv, NEW w \in Worker, TakeToken(w)
  PROVE  TokenInv'
<1> DEFINE m == Head(ready[w])
<1>1. /\ ready \in [Worker -> Seq(Lane)] /\ worker[w] = "idle" /\ ready[w] # <<>>
      /\ inHand' = [inHand EXCEPT ![w] = <<m, None>>]
      /\ ready' = [ready EXCEPT ![w] = Tail(ready[w])]
      /\ worker' = [worker EXCEPT ![w] = "token"]
      /\ UNCHANGED <<sub, factoryClosed, scheduled, items>>
  BY DEF TakeToken, WorkerTo, TypeOK, laneVars, subVars, closeVars
<1>2. /\ m \in Lane /\ In(ready[w], m)
      /\ \A n : In(ready[w], n) <=> n = m \/ In(Tail(ready[w]), n)
      /\ NoDup(Tail(ready[w])) /\ ~In(Tail(ready[w]), m)
  BY <1>1, SomeIn, TailIn, TailNoDup DEF TokenInv, Single
<1> HIDE DEF m
<1>3. WorkerOf[m] = w /\ InQueue(m)
  BY <1>2 DEF TokenInv, Homes, InQueue
<1>4. HasToken(m) /\ ~WithSubmitter(m) /\ scheduled[m]
  BY <1>2, <1>3 DEF HasToken, TokenInv, Single, Scheduling
<1>5. ready'[w] = Tail(ready[w]) /\ worker'[w] = "token" /\ inHand'[w][1] = m
  BY <1>1 DEF TypeOK
<1>6. \A v \in Worker \ {w} : /\ ready'[v] = ready[v] /\ worker'[v] = worker[v]
                              /\ inHand'[v] = inHand[v]
  BY <1>1 DEF TypeOK
<1>7. \A n \in Lane \ {m} : WithWorker(n)' <=> WithWorker(n)
  BY <1>1, <1>5, <1>6, Constants DEF WithWorker, Busy
<1> QED
  <2>1. Turns(w, m)
    BY <1>1, <1>2, <1>4, <1>5, <1>6, <1>7 DEF Turns, Busy
  <2> QED
    BY <1>2, <1>3, <1>4, <2>1, TurnsKeep

\* What a worker that is busy knows about the lane in its hand.
LEMMA BusyLane ==
  ASSUME TokenInv, NEW w \in Worker, worker[w] \in Busy
  PROVE  /\ inHand[w][1] \in Lane /\ WorkerOf[inHand[w][1]] = w
         /\ HasToken(inHand[w][1]) /\ ~In(ready[w], inHand[w][1])
         /\ ~WithSubmitter(inHand[w][1]) /\ scheduled[inHand[w][1]]
         /\ NoDup(ready[w])
<1>1. inHand[w][1] \in Lane /\ WorkerOf[inHand[w][1]] = w
  BY DEF TokenInv, Homes
<1>2. WithWorker(inHand[w][1])
  BY <1>1 DEF WithWorker
<1>3. ~InQueue(inHand[w][1]) /\ ~WithSubmitter(inHand[w][1]) /\ NoDup(ready[w])
  BY <1>1, <1>2 DEF TokenInv, Single
<1> QED
  BY <1>1, <1>2, <1>3 DEF TokenInv, Scheduling, HasToken, InQueue

LEMMA WorkerStepTokens ==
  ASSUME TypeOK, TokenInv, NEW w \in Worker, WorkerStep(w)
  PROVE  TokenInv'
<1> USE DEF laneVars, workVars, subVars, workerVars, closeVars
<1> DEFINE m == inHand[w][1]
<1>1. CASE TakeToken(w)
  BY <1>1, TakeTokenTokens
<1>2. CASE Exit(w)
  <2>1. /\ UNCHANGED <<ready, inHand, sub, scheduled, factoryClosed, items>> /\ factoryClosed
        /\ worker' = [worker EXCEPT ![w] = "gone"] /\ worker[w] = "idle"
    BY <1>2 DEF Exit, WorkerTo
  <2>2. \A v \in Worker : worker'[v] \in Busy <=> worker[v] \in Busy
    BY <2>1 DEF TypeOK, Busy
  <2>3. \A l \in Lane : /\ InQueue(l)' <=> InQueue(l)
                        /\ WithWorker(l)' <=> WithWorker(l)
                        /\ WithSubmitter(l)' <=> WithSubmitter(l)
    BY <2>1, <2>2, Constants DEF InQueue, WithWorker, WithSubmitter
  <2>4. Homes'
    BY <2>1, <2>2 DEF TokenInv, Homes
  <2>5. Single'
    BY <2>1, <2>3 DEF TokenInv, Single
  <2>6. Scheduling'
    BY <2>1, <2>3, Constants DEF TokenInv, Scheduling, HasToken
  <2> QED
    BY <2>4, <2>5, <2>6 DEF TokenInv
<1>3. CASE TakeItem(w)
  <2>1. /\ worker[w] \in Busy /\ worker[w] = "token"
        /\ UNCHANGED <<ready, sub, factoryClosed>>
    BY <1>3 DEF TakeItem, Busy
  <2>2. /\ m \in Lane /\ scheduled[m] /\ ~In(ready[w], m) /\ NoDup(ready[w])
        /\ WorkerOf[m] = w /\ HasToken(m) /\ ~WithSubmitter(m)
    BY <2>1, BusyLane
  <2>3. CASE items[m] # <<>>
    <3>1. /\ UNCHANGED scheduled /\ worker' = [worker EXCEPT ![w] = "item"]
          /\ inHand' = [inHand EXCEPT ![w][2] = Head(items[m])]
          /\ items' = [items EXCEPT ![m] = Tail(items[m])]
      BY <1>3, <2>2, <2>3 DEF TakeItem, WorkerTo
    <3>2. \A v \in Worker : /\ worker'[v] \in Busy <=> worker[v] \in Busy
                            /\ worker'[v] = "gone" => worker[v] = "gone"
                            /\ inHand'[v][1] = inHand[v][1]
      BY <2>1, <3>1 DEF TypeOK, Busy
    <3>3. \A l \in Lane : ~scheduled[l] => items'[l] = items[l]
      BY <2>2, <3>1 DEF TypeOK
    <3> QED
      BY <2>1, <3>1, <3>2, <3>3, TokensStayKeep DEF TokensStay
  <2>4. CASE items[m] = <<>>
    <3>1. /\ scheduled' = [scheduled EXCEPT ![m] = FALSE]
          /\ worker' = [worker EXCEPT ![w] = "idle"] /\ UNCHANGED <<items, inHand>>
      BY <1>3, <2>2, <2>4 DEF TakeItem, WorkerTo
    <3>2. worker'[w] = "idle" /\ \A v \in Worker \ {w} : worker'[v] = worker[v]
      BY <3>1 DEF TypeOK
    <3>3. scheduled'[m] = FALSE /\ \A n \in Lane \ {m} : scheduled'[n] = scheduled[n]
      BY <2>2, <3>1 DEF TypeOK
    <3>4. \A n \in Lane \ {m} : WithWorker(n)' <=> WithWorker(n)
      BY <3>1, <3>2, Constants DEF WithWorker, Busy
    <3>5. Turns(w, m)
      BY <2>1, <2>2, <2>4, <3>1, <3>2, <3>3, <3>4 DEF Turns, Busy
    <3> QED
      BY <2>2, <3>5, TurnsKeep
  <2> QED
    BY <2>3, <2>4
<1>4. CASE BeginItem(w) \/ EndBody(w)
  <2>1. UNCHANGED <<ready, scheduled, factoryClosed, inHand, sub, items>>
    BY <1>4 DEF BeginItem, EndBody
  <2>2. \A v \in Worker : /\ worker'[v] \in Busy <=> worker[v] \in Busy
                          /\ worker'[v] = "gone" => worker[v] = "gone"
    BY <1>4 DEF BeginItem, EndBody, WorkerTo, TypeOK, Busy
  <2> QED
    BY <2>1, <2>2, TokensStayKeep DEF TokensStay
<1>5. CASE FinishItem(w)
  <2>1. /\ worker[w] \in Busy /\ UNCHANGED <<ready, sub, factoryClosed, items, inHand>>
        /\ scheduled' = [scheduled EXCEPT ![m] = items[m] # <<>>]
        /\ worker' = [worker EXCEPT ![w] = IF items[m] # <<>> THEN "reschedule" ELSE "idle"]
    BY <1>5 DEF FinishItem, WorkerTo, Busy
  <2>2. /\ m \in Lane /\ ~In(ready[w], m) /\ NoDup(ready[w])
        /\ WorkerOf[m] = w /\ HasToken(m) /\ ~WithSubmitter(m)
    BY <2>1, BusyLane
  <2>3. /\ worker'[w] = IF items[m] # <<>> THEN "reschedule" ELSE "idle"
        /\ \A v \in Worker \ {w} : worker'[v] = worker[v]
        /\ items[m] = <<>> => scheduled'[m] = FALSE
        /\ items[m] # <<>> => scheduled'[m] = TRUE
        /\ \A n \in Lane \ {m} : scheduled'[n] = scheduled[n]
    BY <2>1, <2>2 DEF TypeOK
  <2>4. \A n \in Lane \ {m} : WithWorker(n)' <=> WithWorker(n)
    BY <2>1, <2>3, Constants DEF WithWorker, Busy
  <2>5. Turns(w, m)
    <3>1. CASE items[m] = <<>>
      BY <2>1, <2>2, <2>3, <2>4, <3>1 DEF Turns, Busy
    <3>2. CASE items[m] # <<>>
      BY <2>1, <2>2, <2>3, <2>4, <3>2 DEF Turns, Busy
    <3> QED
      BY <3>1, <3>2
  <2> QED
    BY <2>2, <2>5, TurnsKeep
<1>6. CASE Reschedule(w)
  <2>1. /\ worker[w] \in Busy /\ UNCHANGED <<sub, factoryClosed, items, inHand, scheduled>>
        /\ worker' = [worker EXCEPT ![w] = IF factoryClosed THEN "gone" ELSE "idle"]
        /\ ready' = IF factoryClosed THEN ready ELSE [ready EXCEPT ![w] = Append(ready[w], m)]
        /\ ready \in [Worker -> Seq(Lane)]
    BY <1>6 DEF Reschedule, WorkerTo, Busy, TypeOK
  <2>2. /\ m \in Lane /\ scheduled[m] /\ ~In(ready[w], m) /\ NoDup(ready[w])
        /\ WorkerOf[m] = w /\ HasToken(m) /\ ~WithSubmitter(m)
    BY <2>1, BusyLane
  <2>3. /\ NoDup(Append(ready[w], m))
        /\ \A n : In(Append(ready[w], m), n) <=> In(ready[w], n) \/ n = m
    BY <2>1, <2>2, AppendIn, AppendNoDup
  <2>4. /\ worker'[w] = IF factoryClosed THEN "gone" ELSE "idle"
        /\ \A v \in Worker \ {w} : worker'[v] = worker[v] /\ ready'[v] = ready[v]
        /\ ready'[w] = IF factoryClosed THEN ready[w] ELSE Append(ready[w], m)
    BY <2>1 DEF TypeOK
  <2>5. \A n \in Lane \ {m} : WithWorker(n)' <=> WithWorker(n)
    BY <2>1, <2>4, Constants DEF WithWorker, Busy
  <2>6. Turns(w, m)
    BY <2>1, <2>2, <2>3, <2>4, <2>5 DEF Turns, Busy
  <2> QED
    BY <2>2, <2>6, TurnsKeep
<1> QED
  BY <1>1, <1>2, <1>3, <1>4, <1>5, <1>6 DEF WorkerStep

LEMMA CloseTokens ==
  ASSUME TypeOK, TokenInv, BeginClose \/ CloseStep \/ (\E l \in Lane : Seal(l))
  PROVE  TokenInv'
<1> USE DEF laneVars, workVars, subVars, workerVars, closeVars
<1>1. UNCHANGED <<ready, worker, inHand, sub, scheduled>>
  BY DEF BeginClose, CloseStep, Seal, CancelLane, AfterCancel, LaneReturns, CloseFactory,
         JoinWorkers
<1>2. \A l \in Lane : items'[l] \in {items[l], <<>>}
  BY DEF BeginClose, CloseStep, Seal, CancelLane, LaneReturns, CloseFactory, JoinWorkers, TypeOK
<1>3. factoryClosed => factoryClosed'
  BY DEF BeginClose, CloseStep, Seal, CancelLane, LaneReturns, CloseFactory, JoinWorkers
<1>4. \A l \in Lane : /\ InQueue(l)' <=> InQueue(l)
                      /\ WithWorker(l)' <=> WithWorker(l)
                      /\ WithSubmitter(l)' <=> WithSubmitter(l)
  BY <1>1 DEF InQueue, WithWorker, WithSubmitter
<1>5. Homes' /\ Single'
  BY <1>1, <1>4 DEF TokenInv, Homes, Single
<1>6. Scheduling'
  BY <1>1, <1>2, <1>3, <1>4, Constants DEF TokenInv, Scheduling, HasToken
<1> QED
  BY <1>5, <1>6 DEF TokenInv

LEMMA NextTokens ==
  ASSUME TypeOK, TokenInv, [Next]_vars
  PROVE  TokenInv'
<1>1. CASE UNCHANGED vars
  <2>1. TokensStay
    BY <1>1 DEF TokensStay, vars, laneVars, subVars, workerVars, closeVars
  <2> QED
    BY <2>1, TokensStayKeep
<1>2. ASSUME NEW s \in Submission, SubmitStep(s) \/ CancelFuture(s) PROVE TokenInv'
  BY <1>2, SubmitTokensStay, TokensStayKeep, EnqueueTokens, ScheduleTokens
<1> QED
  BY <1>1, <1>2, WorkerStepTokens, CloseTokens DEF Next

(***************************************************************************)
(* The work.  Most steps leave mailboxes, items in hand and handles alone. *)
(***************************************************************************)
AtWork == {"item", "body"}

WorkStays ==
  /\ UNCHANGED <<items, coalesced, completion, watchers, future>>
  /\ \A w \in Worker : \/ worker'[w] = worker[w] /\ inHand'[w] = inHand[w]
                       \/ worker[w] \notin AtWork /\ worker'[w] \notin AtWork
  /\ \A s \in Submission : /\ sub'[s] \in Fresh <=> sub[s] \in Fresh
                           /\ sub'[s] \in Owned <=> sub[s] \in Owned
                           /\ sub'[s] = "merged" => sub[s] = "merged"
                           /\ sub[s] \in {"bind", "accepted"} => sub'[s] \in {"bind", "accepted"}

LEMMA WorkStaysKeep ==
  ASSUME WorkInv, WorkStays
  PROVE  WorkInv'
<1> USE DEF WorkInv, WorkStays
<1>1. Queues'
  BY DEF Queues
<1>2. Hands'
  BY DEF Hands, AtWork
<1>3. Births' /\ Watching'
  BY DEF Births, Watching
<1>4. Alive'
  BY DEF Alive, AtWork
<1> QED
  BY <1>1, <1>2, <1>3, <1>4

LEMMA SubmitWorkStays ==
  ASSUME TypeOK, NEW s \in Submission, SubmitStep(s), ~Enqueue(s), ~JoinLate(s),
         ~(TryCoalesce(s) /\ coalesced[LaneOf[s]] # None)
  PROVE  WorkStays
<1> USE DEF laneVars, workVars, subVars, workerVars, closeVars
<1>1. UNCHANGED <<items, coalesced, completion, watchers, future, worker, inHand>>
  BY DEF SubmitStep, TryCoalesce, Acquire, Refuse, FindFull, Schedule, Bind
<1>2. \A t \in Submission :
        /\ sub'[t] \in Fresh <=> sub[t] \in Fresh
        /\ sub'[t] \in Owned <=> sub[t] \in Owned
        /\ sub'[t] = "merged" => sub[t] = "merged"
        /\ sub[t] \in {"bind", "accepted"} => sub'[t] \in {"bind", "accepted"}
  BY DEF SubmitStep, TryCoalesce, Acquire, Refuse, FindFull, MayQueue, Schedule, Bind,
         SubTo, Entry, TypeOK, Fresh, Owned
<1> QED
  BY <1>1, <1>2 DEF WorkStays

\* A submission that joins a queued item watches it from now on.
LEMMA MergeWork ==
  ASSUME TypeOK, WorkInv, NEW s \in Submission, s \in Coalescing, sub[s] \in Fresh,
         coalesced[LaneOf[s]] # None, Merge(s, coalesced[LaneOf[s]]), SubTo(s, "merged"),
         UNCHANGED <<items, coalesced, completion, worker, inHand>>
  PROVE  WorkInv'
<1> DEFINE i == coalesced[LaneOf[s]]
<1>1. /\ i \in Coalescing /\ i \in Submission /\ LaneOf[i] = LaneOf[s]
      /\ In(items[LaneOf[s]], i) /\ completion[i] = "pending"
  BY Constants, LaneAssumption DEF WorkInv, Queues, LaneAssumption
<1> HIDE DEF i
<1>2. /\ watchers' = [watchers EXCEPT ![i] = watchers[i] \cup {s}]
      /\ future' = [future EXCEPT ![s] = "pending"] /\ sub' = [sub EXCEPT ![s] = "merged"]
      /\ UNCHANGED <<items, coalesced, completion, worker, inHand>>
  BY DEF Merge, SubTo, i
<1>3. /\ future[s] = "none" /\ sub[s] \notin Owned
      /\ future'[s] = "pending" /\ sub'[s] = "merged" /\ s \in watchers'[i]
      /\ \A t \in Submission \ {s} : future'[t] = future[t] /\ sub'[t] = sub[t]
      /\ \A j \in Submission \ {i} : watchers'[j] = watchers[j]
      /\ watchers'[i] = watchers[i] \cup {s}
  BY <1>1, <1>2 DEF TypeOK, WorkInv, Births, Fresh, Owned
<1>4. Queues'
  BY <1>2, <1>3 DEF WorkInv, Queues
<1>5. Hands'
  BY <1>2, <1>3 DEF WorkInv, Hands, Owned
<1>6. Births'
  BY <1>2, <1>3 DEF WorkInv, Births, Fresh, Owned
<1>7. Watching'
  BY <1>1, <1>2, <1>3 DEF WorkInv, Watching
<1>8. Alive'
  BY <1>1, <1>2, <1>3 DEF WorkInv, Alive
<1> QED
  BY <1>4, <1>5, <1>6, <1>7, <1>8 DEF WorkInv

LEMMA EnqueueWork ==
  ASSUME TypeOK, WorkInv, NEW s \in Submission, Enqueue(s)
  PROVE  WorkInv'
<1> DEFINE l == LaneOf[s]
<1>1. /\ l \in Lane /\ sub[s] = "permitted" /\ items[l] \in Seq(Submission)
      /\ items' = [items EXCEPT ![l] = Append(items[l], s)]
      /\ coalesced' = IF s \in Coalescing THEN [coalesced EXCEPT ![l] = s] ELSE coalesced
      /\ watchers' = [watchers EXCEPT ![s] = {s}]
      /\ completion' = [completion EXCEPT ![s] = "pending"]
      /\ future' = [future EXCEPT ![s] = "pending"]
      /\ \E to \in {"bind", "schedule"} : sub' = [sub EXCEPT ![s] = to]
      /\ UNCHANGED <<worker, inHand>>
  BY Constants DEF Enqueue, MayQueue, SubTo, workerVars, TypeOK
<1>2. /\ sub[s] \notin Owned /\ sub'[s] \in Owned /\ sub'[s] \notin Fresh /\ sub'[s] # "merged"
      /\ completion[s] = "none" /\ completion'[s] = "pending"
      /\ future[s] = "none" /\ future'[s] = "pending" /\ watchers'[s] = {s}
      /\ \A t \in Submission \ {s} : /\ future'[t] = future[t] /\ sub'[t] = sub[t]
                                     /\ completion'[t] = completion[t]
                                     /\ watchers'[t] = watchers[t]
  BY <1>1 DEF TypeOK, WorkInv, Births, Fresh, Owned
<1>3. ~In(items[l], s) /\ NoDup(items[l])
  BY <1>1, <1>2 DEF WorkInv, Queues
<1>4. /\ \A x : In(items'[l], x) <=> In(items[l], x) \/ x = s
      /\ NoDup(items'[l])
      /\ \A m \in Lane \ {l} : items'[m] = items[m]
  <2>1. /\ \A x : In(Append(items[l], s), x) <=> In(items[l], x) \/ x = s
        /\ NoDup(Append(items[l], s))
    BY <1>1, <1>3, AppendIn, AppendNoDup
  <2> QED
    BY <1>1, <2>1 DEF TypeOK
<1>5. \A m \in Lane : coalesced'[m] = IF m = l /\ s \in Coalescing THEN s ELSE coalesced[m]
  BY <1>1 DEF TypeOK
<1> HIDE DEF l
<1>6. Queues'
  <2> SUFFICES ASSUME NEW m \in Lane
               PROVE  /\ \A i \in Submission : In(items'[m], i) =>
                           /\ LaneOf[i] = m /\ completion'[i] = "pending"
                           /\ sub'[i] \in Owned
                      /\ NoDup(items'[m])
                      /\ coalesced'[m] # None =>
                           coalesced'[m] \in Coalescing /\ In(items'[m], coalesced'[m])
    BY DEF Queues
  <2>1. CASE m = l
    BY <1>2, <1>4, <1>5, <2>1 DEF WorkInv, Queues, l
  <2>2. CASE m # l
    BY <1>2, <1>4, <1>5, <2>2 DEF WorkInv, Queues, l
  <2> QED
    BY <2>1, <2>2
<1>7. Hands'
  <2> SUFFICES ASSUME NEW w \in Worker, worker[w] \in AtWork
               PROVE  /\ inHand[w][2] \in Submission
                      /\ LaneOf[inHand[w][2]] = inHand[w][1]
                      /\ sub'[inHand[w][2]] \in {"bind", "accepted"}
                      /\ ~In(items'[inHand[w][1]], inHand[w][2])
                      /\ completion'[inHand[w][2]]
                           = IF worker[w] = "item" THEN "pending" ELSE "running"
                      /\ worker[w] = "body" /\ inHand[w][2] \notin Coalescing
                           => future'[inHand[w][2]] = "running"
    BY <1>1 DEF Hands, AtWork
  <2>1. inHand[w][2] \in Submission \ {s} /\ inHand[w][1] \in Lane
    BY <1>2, Constants DEF WorkInv, Hands, Owned, AtWork
  <2>2. ~In(items'[inHand[w][1]], inHand[w][2])
    BY <1>4, <2>1 DEF WorkInv, Hands, AtWork
  <2> QED
    BY <1>2, <2>1, <2>2 DEF WorkInv, Hands, AtWork
<1>8. Births'
  BY <1>1, <1>2 DEF WorkInv, Births
<1>9. Watching'
  <2>1. \A i \in Submission : watchers[i] \subseteq Submission
    BY DEF TypeOK
  <2> QED
    BY <1>2, <2>1 DEF WorkInv, Watching
<1>10. Alive'
  <2>1. \A m \in Lane, x \in Submission : In(items[m], x) => In(items'[m], x)
    BY <1>4
  <2>2. In(items'[LaneOf[s]], s)
    BY <1>4 DEF l
  <2>3. ASSUME NEW i \in Submission, completion'[i] = "pending"
        PROVE  \/ In(items'[LaneOf[i]], i)
               \/ \E w \in Worker : worker'[w] = "item" /\ inHand'[w][2] = i
    <3>1. CASE i = s
      BY <2>2, <3>1
    <3>2. CASE i # s
      <4>1. completion[i] = "pending" /\ LaneOf[i] \in Lane
        BY <1>2, <2>3, <3>2, Constants
      <4>2. In(items[LaneOf[i]], i) \/ \E w \in Worker : worker[w] = "item" /\ inHand[w][2] = i
        BY <4>1 DEF WorkInv, Alive
      <4> QED
        BY <1>1, <2>1, <4>1, <4>2
    <3> QED
      BY <3>1, <3>2
  <2>4. ASSUME NEW i \in Submission, completion'[i] = "running"
        PROVE  \E w \in Worker : worker'[w] = "body" /\ inHand'[w][2] = i
    <3>1. completion[i] = "running"
      BY <1>2, <2>4
    <3>2. \E w \in Worker : worker[w] = "body" /\ inHand[w][2] = i
      BY <3>1 DEF WorkInv, Alive
    <3> QED
      BY <1>1, <3>2
  <2>5. ASSUME NEW t \in Submission, future'[t] \in {"pending", "running"}
        PROVE  \E i \in Submission : t \in watchers'[i] /\ completion'[i] = future'[t]
    <3>1. CASE t = s
      BY <1>2, <3>1
    <3>2. CASE t # s
      <4>1. future'[t] = future[t]
        BY <1>2, <3>2
      <4>2. PICK i \in Submission : t \in watchers[i] /\ completion[i] = future[t]
        BY <2>5, <4>1 DEF WorkInv, Alive
      <4>3. i # s
        BY <1>2, <2>5, <4>1, <4>2
      <4> QED
        BY <1>2, <4>1, <4>2, <4>3
    <3> QED
      BY <3>1, <3>2
  <2> QED
    BY <2>3, <2>4, <2>5 DEF Alive
<1> QED
  BY <1>6, <1>7, <1>8, <1>9, <1>10 DEF WorkInv

LEMMA CancelFutureWork ==
  ASSUME TypeOK, WorkInv, NEW s \in Submission, CancelFuture(s)
  PROVE  WorkInv'
<1>1. /\ future[s] = "pending" /\ future'[s] = "cancelled"
      /\ \A t \in Submission \ {s} : future'[t] = future[t]
      /\ UNCHANGED <<items, coalesced, completion, watchers, worker, inHand, sub>>
  BY DEF CancelFuture, laneVars, workVars, workerVars, TypeOK
<1>2. Queues'
  BY <1>1 DEF WorkInv, Queues
<1>3. Hands'
  BY <1>1 DEF WorkInv, Hands
<1>4. Births' /\ Watching'
  <2>1. \A i \in Submission : watchers[i] \subseteq Submission
    BY DEF TypeOK
  <2> QED
    BY <1>1, <2>1 DEF WorkInv, Births, Watching
<1>5. Alive'
  BY <1>1 DEF WorkInv, Alive
<1> QED
  BY <1>2, <1>3, <1>4, <1>5 DEF WorkInv

\* The item in a worker's hand is its own: no other worker has it, no mailbox holds it.
LEMMA OwnHand ==
  ASSUME TypeOK, TokenInv, WorkInv, NEW w \in Worker, worker[w] \in AtWork
  PROVE  /\ inHand[w][2] \in Submission /\ LaneOf[inHand[w][2]] = inHand[w][1]
         /\ inHand[w][1] \in Lane /\ WorkerOf[inHand[w][1]] = w
         /\ \A l \in Lane : ~In(items[l], inHand[w][2])
         /\ \A v \in Worker \ {w} : worker[v] \in AtWork => inHand[v][2] # inHand[w][2]
<1>1. \A v \in Worker : worker[v] \in AtWork =>
        /\ inHand[v][2] \in Submission /\ LaneOf[inHand[v][2]] = inHand[v][1]
        /\ inHand[v][1] \in Lane /\ WorkerOf[inHand[v][1]] = v
  BY DEF TokenInv, Homes, Busy, WorkInv, Hands, AtWork
<1>2. \A l \in Lane : ~In(items[l], inHand[w][2])
  BY <1>1 DEF WorkInv, Queues, Hands, AtWork
<1> QED
  BY <1>1, <1>2

\* The item at the head of a mailbox passes into the worker's hand.
LEMMA TakeItemWork ==
  ASSUME TypeOK, TokenInv, WorkInv, NEW w \in Worker, TakeItem(w)
  PROVE  WorkInv'
<1> USE DEF laneVars, workVars, subVars, workerVars, closeVars
<1> DEFINE l == inHand[w][1]  i == Head(items[l])
<1>1. worker[w] = "token" /\ worker[w] \in Busy
  BY DEF TakeItem, Busy
<1>2. l \in Lane /\ WorkerOf[l] = w /\ scheduled[l] /\ HasToken(l) /\ ~WithSubmitter(l)
  BY <1>1, BusyLane
<1>3. CASE items[l] = <<>>
  <2>1. /\ UNCHANGED <<items, coalesced, completion, watchers, future, sub, inHand>>
        /\ worker' = [worker EXCEPT ![w] = "idle"]
    BY <1>2, <1>3 DEF TakeItem, WorkerTo
  <2>2. \A v \in Worker : worker'[v] = worker[v] \/ (v = w /\ worker'[v] = "idle")
    BY <2>1 DEF TypeOK
  <2>3. WorkStays
    BY <1>1, <2>1, <2>2 DEF WorkStays, AtWork
  <2> QED
    BY <2>3, WorkStaysKeep
<1>4. CASE items[l] # <<>>
  <2>1. /\ UNCHANGED <<completion, watchers, future, sub>>
        /\ items' = [items EXCEPT ![l] = Tail(items[l])]
        /\ coalesced' = IF coalesced[l] = i THEN [coalesced EXCEPT ![l] = None] ELSE coalesced
        /\ inHand' = [inHand EXCEPT ![w][2] = i]
        /\ worker' = [worker EXCEPT ![w] = "item"]
    BY <1>2, <1>4 DEF TakeItem, WorkerTo, Uncoalesce
  <2>2. /\ items[l] \in Seq(Submission) /\ NoDup(items[l])
        /\ i \in Submission /\ In(items[l], i)
        /\ \A x : In(items[l], x) <=> x = i \/ In(Tail(items[l]), x)
        /\ NoDup(Tail(items[l])) /\ ~In(Tail(items[l]), i)
    <3>1. items[l] \in Seq(Submission) /\ NoDup(items[l])
      BY <1>2 DEF TypeOK, WorkInv, Queues
    <3> QED
      BY <1>4, <3>1, SomeIn, TailIn, TailNoDup
  <2> HIDE DEF i
  <2>3. LaneOf[i] = l /\ completion[i] = "pending" /\ sub[i] \in {"bind", "accepted"}
    <3>1. LaneOf[i] = l /\ completion[i] = "pending" /\ sub[i] \in Owned
      BY <1>2, <2>2 DEF WorkInv, Queues
    <3>2. sub[i] # "schedule" /\ sub[i] # "failed"
      BY <1>2, <2>2, <3>1 DEF WithSubmitter, TokenInv, Scheduling
    <3> QED
      BY <3>1, <3>2 DEF Owned
  <2>4. /\ \A m \in Lane \ {l} : items'[m] = items[m]
        /\ \A x : In(items'[l], x) <=> In(items[l], x) /\ x # i
        /\ NoDup(items'[l])
    <3>1. items'[l] = Tail(items[l]) /\ \A m \in Lane \ {l} : items'[m] = items[m]
      BY <1>2, <2>1 DEF TypeOK
    <3> QED
      BY <2>2, <3>1
  <2>5. \A m \in Lane : coalesced'[m] = IF m = l /\ coalesced[l] = i THEN None ELSE coalesced[m]
    BY <1>2, <2>1 DEF TypeOK
  <2>6. /\ worker'[w] = "item" /\ inHand'[w][1] = l /\ inHand'[w][2] = i
        /\ \A v \in Worker \ {w} : worker'[v] = worker[v] /\ inHand'[v] = inHand[v]
    BY <2>1 DEF TypeOK
  <2> HIDE DEF l
  <2>7. Queues'
    <3> SUFFICES ASSUME NEW m \in Lane
                 PROVE  /\ \A x \in Submission : In(items'[m], x) =>
                             LaneOf[x] = m /\ completion'[x] = "pending" /\ sub'[x] \in Owned
                        /\ NoDup(items'[m])
                        /\ coalesced'[m] # None =>
                             coalesced'[m] \in Coalescing /\ In(items'[m], coalesced'[m])
      BY DEF Queues
    <3>1. CASE m = l
      BY <2>1, <2>4, <2>5, <3>1 DEF WorkInv, Queues
    <3>2. CASE m # l
      BY <2>1, <2>4, <2>5, <3>2 DEF WorkInv, Queues
    <3> QED
      BY <3>1, <3>2
  <2>8. Hands'
    <3> SUFFICES ASSUME NEW v \in Worker, worker'[v] \in AtWork
                 PROVE  /\ inHand'[v][2] \in Submission
                        /\ LaneOf[inHand'[v][2]] = inHand'[v][1]
                        /\ sub'[inHand'[v][2]] \in {"bind", "accepted"}
                        /\ ~In(items'[inHand'[v][1]], inHand'[v][2])
                        /\ completion'[inHand'[v][2]]
                             = IF worker'[v] = "item" THEN "pending" ELSE "running"
                        /\ worker'[v] = "body" /\ inHand'[v][2] \notin Coalescing
                             => future'[inHand'[v][2]] = "running"
      BY DEF Hands, AtWork
    <3>1. CASE v = w
      BY <2>1, <2>2, <2>3, <2>4, <2>6, <3>1 DEF l
    <3>2. CASE v # w
      <4>1. worker[v] \in AtWork /\ worker'[v] = worker[v] /\ inHand'[v] = inHand[v]
        BY <2>6, <3>2
      <4>2. inHand[v][1] \in Lane \ {l}
        BY <1>2, <3>2, <4>1, OwnHand
      <4> QED
        BY <2>1, <2>4, <4>1, <4>2 DEF WorkInv, Hands, AtWork
    <3> QED
      BY <3>1, <3>2
  <2>9. Births' /\ Watching'
    BY <2>1 DEF WorkInv, Births, Watching
  <2>10. Alive'
    <3>1. \A x \in Submission : In(items[LaneOf[x]], x) => In(items'[LaneOf[x]], x) \/ x = i
      BY <2>4, Constants
    <3>2. \A x \in Submission : completion'[x] = "pending" =>
            \/ In(items'[LaneOf[x]], x)
            \/ \E v \in Worker : worker'[v] = "item" /\ inHand'[v][2] = x
      BY <1>1, <2>1, <2>6, <3>1 DEF WorkInv, Alive
    <3>3. \A x \in Submission : completion'[x] = "running" =>
            \E v \in Worker : worker'[v] = "body" /\ inHand'[v][2] = x
      BY <1>1, <2>1, <2>6 DEF WorkInv, Alive
    <3> QED
      BY <2>1, <3>2, <3>3 DEF WorkInv, Alive
  <2> QED
    BY <2>7, <2>8, <2>9, <2>10 DEF WorkInv
<1> QED
  BY <1>3, <1>4

\* An item changes its completion and its watchers' handles in the hand of its worker.
HandChanges(w, from, to) ==
  LET i == inHand[w][2] IN
  /\ worker[w] = from /\ worker'[w] = to
  /\ \A v \in Worker \ {w} : worker'[v] = worker[v]
  /\ \A x \in Submission \ {i} : completion'[x] = completion[x]
  /\ \A s \in Submission : future'[s] # future[s] => s \in watchers[i]
  /\ UNCHANGED <<items, coalesced, watchers, sub, inHand>>

LEMMA HandChangesQueues ==
  ASSUME TypeOK, TokenInv, WorkInv, NEW w \in Worker, NEW from \in AtWork, NEW to,
         HandChanges(w, from, to)
  PROVE  Queues'
<1>1. worker[w] \in AtWork
  BY DEF HandChanges
<1> QED
  BY <1>1, OwnHand DEF HandChanges, WorkInv, Queues

LEMMA BeginItemWork ==
  ASSUME TypeOK, TokenInv, WorkInv, NEW w \in Worker, BeginItem(w)
  PROVE  WorkInv'
<1> USE DEF laneVars, workVars, subVars, workerVars, closeVars
<1> DEFINE i == inHand[w][2]  active == {s \in watchers[i] : future[s] = "pending"}
<1>1. /\ worker[w] = "item" /\ UNCHANGED <<items, coalesced, watchers, sub, inHand>>
      /\ future' = [s \in Submission |-> IF s \in active THEN "running" ELSE future[s]]
      /\ completion' = [completion EXCEPT ![i] = IF active = {} THEN "done" ELSE "running"]
      /\ worker' = [worker EXCEPT ![w] = IF active = {} THEN "finish" ELSE "body"]
  BY DEF BeginItem, WorkerTo
<1>2. /\ i \in Submission /\ completion[i] = "pending" /\ sub[i] \in {"bind", "accepted"}
      /\ \A v \in Worker \ {w} : worker[v] \in AtWork => inHand[v][2] # i
      /\ \A x \in Submission : watchers[x] \subseteq Submission
  BY <1>1, OwnHand DEF WorkInv, Hands, AtWork, TypeOK
<1>3. /\ worker'[w] = IF active = {} THEN "finish" ELSE "body"
      /\ \A v \in Worker \ {w} : worker'[v] = worker[v]
      /\ completion'[i] = IF active = {} THEN "done" ELSE "running"
      /\ \A x \in Submission \ {i} : completion'[x] = completion[x]
      /\ \A s \in Submission : future'[s] = IF s \in active THEN "running" ELSE future[s]
  BY <1>1, <1>2 DEF TypeOK
<1>4. Queues'
  <2>1. HandChanges(w, "item", worker'[w])
    BY <1>1, <1>3 DEF HandChanges
  <2> QED
    BY <2>1, HandChangesQueues DEF AtWork
<1>5. \A s \in active : s \in watchers[i] /\ future[s] = "pending"
  OBVIOUS
<1>6. i \in watchers[i] /\ future[i] = "pending" => i \in active
  OBVIOUS
<1>7. i \notin Coalescing /\ active # {} => i \in active
  BY <1>2 DEF WorkInv, Watching
<1> HIDE DEF i, active
<1>8. Hands'
  <2> SUFFICES ASSUME NEW v \in Worker, worker'[v] \in AtWork
               PROVE  /\ inHand[v][2] \in Submission
                      /\ LaneOf[inHand[v][2]] = inHand[v][1]
                      /\ sub[inHand[v][2]] \in {"bind", "accepted"}
                      /\ ~In(items[inHand[v][1]], inHand[v][2])
                      /\ completion'[inHand[v][2]]
                           = IF worker'[v] = "item" THEN "pending" ELSE "running"
                      /\ worker'[v] = "body" /\ inHand[v][2] \notin Coalescing
                           => future'[inHand[v][2]] = "running"
    BY <1>1 DEF Hands, AtWork
  <2>1. CASE v = w
    BY <1>1, <1>2, <1>3, <1>7, <2>1 DEF WorkInv, Hands, AtWork, i
  <2>2. CASE v # w
    BY <1>2, <1>3, <1>5, <2>2 DEF WorkInv, Hands, AtWork
  <2> QED
    BY <2>1, <2>2
<1>9. Births'
  BY <1>1, <1>2, <1>3, <1>5 DEF WorkInv, Births
<1>10. Watching'
  BY <1>1, <1>2, <1>3, <1>5 DEF WorkInv, Watching
<1>11. Alive'
  <2>1. \A x \in Submission : completion'[x] = "pending" =>
          \/ In(items'[LaneOf[x]], x)
          \/ \E v \in Worker : worker'[v] = "item" /\ inHand'[v][2] = x
    BY <1>1, <1>2, <1>3 DEF WorkInv, Alive, i
  <2>2. \A x \in Submission : completion'[x] = "running" =>
          \E v \in Worker : worker'[v] = "body" /\ inHand'[v][2] = x
    BY <1>1, <1>2, <1>3 DEF WorkInv, Alive, i
  <2>3. ASSUME NEW s \in Submission, future'[s] \in {"pending", "running"}
        PROVE  \E x \in Submission : s \in watchers'[x] /\ completion'[x] = future'[s]
    <3>1. CASE s \in active
      BY <1>1, <1>2, <1>3, <1>5, <3>1
    <3>2. CASE s \notin active
      <4>1. PICK x \in Submission : s \in watchers[x] /\ completion[x] = future[s]
        BY <1>3, <2>3, <3>2 DEF WorkInv, Alive
      <4>2. x # i
        BY <1>2, <3>2, <4>1 DEF active
      <4> QED
        BY <1>1, <1>3, <3>2, <4>1, <4>2
    <3> QED
      BY <3>1, <3>2
  <2> QED
    BY <2>1, <2>2, <2>3 DEF Alive
<1> QED
  BY <1>4, <1>8, <1>9, <1>10, <1>11 DEF WorkInv

LEMMA EndBodyWork ==
  ASSUME TypeOK, TokenInv, WorkInv, NEW w \in Worker, EndBody(w)
  PROVE  WorkInv'
<1> USE DEF laneVars, workVars, subVars, workerVars, closeVars
<1> DEFINE i == inHand[w][2]  active == {s \in watchers[i] : future[s] = "running"}
<1>1. /\ worker[w] = "body" /\ UNCHANGED <<items, coalesced, watchers, sub, inHand>>
      /\ future' = [s \in Submission |-> IF s \in active THEN "done" ELSE future[s]]
      /\ completion' = [completion EXCEPT ![i] = "done"]
      /\ worker' = [worker EXCEPT ![w] = "finish"]
  BY DEF EndBody, WorkerTo
<1>2. /\ i \in Submission /\ completion[i] = "running" /\ sub[i] \in {"bind", "accepted"}
      /\ LaneOf[i] = inHand[w][1]
      /\ \A v \in Worker \ {w} : worker[v] \in AtWork => inHand[v][2] # i
      /\ \A x \in Submission : watchers[x] \subseteq Submission
  BY <1>1, OwnHand DEF WorkInv, Hands, AtWork, TypeOK
<1>3. /\ worker'[w] = "finish" /\ \A v \in Worker \ {w} : worker'[v] = worker[v]
      /\ completion'[i] = "done"
      /\ \A x \in Submission \ {i} : completion'[x] = completion[x]
      /\ \A s \in Submission : future'[s] = IF s \in active THEN "done" ELSE future[s]
  BY <1>1, <1>2 DEF TypeOK
<1>4. Queues'
  <2>1. HandChanges(w, "body", "finish")
    BY <1>1, <1>3 DEF HandChanges
  <2> QED
    BY <2>1, HandChangesQueues DEF AtWork
<1>5. \A s \in active : s \in watchers[i] /\ future[s] = "running"
  OBVIOUS
<1>6. i \notin Coalescing => active \subseteq {i}
  BY <1>2 DEF WorkInv, Watching
\* A plain call in another hand is not watched by this item.
<1>7. \A v \in Worker \ {w} : worker[v] \in AtWork /\ inHand[v][2] \notin Coalescing
        => inHand[v][2] \notin active
  <2> SUFFICES ASSUME NEW v \in Worker \ {w}, worker[v] \in AtWork,
                      inHand[v][2] \notin Coalescing, inHand[v][2] \in active
               PROVE  FALSE
    OBVIOUS
  <2>1. LaneOf[inHand[v][2]] = LaneOf[i]
    BY <1>2, <1>5 DEF WorkInv, Watching
  <2>2. /\ LaneOf[inHand[v][2]] = inHand[v][1] /\ WorkerOf[inHand[v][1]] = v
        /\ LaneOf[i] = inHand[w][1] /\ WorkerOf[inHand[w][1]] = w
    BY <1>1, OwnHand DEF AtWork
  <2> QED
    BY <2>1, <2>2
<1> HIDE DEF i, active
<1>8. Hands'
  <2> SUFFICES ASSUME NEW v \in Worker, worker'[v] \in AtWork
               PROVE  /\ inHand[v][2] \in Submission
                      /\ LaneOf[inHand[v][2]] = inHand[v][1]
                      /\ sub[inHand[v][2]] \in {"bind", "accepted"}
                      /\ ~In(items[inHand[v][1]], inHand[v][2])
                      /\ completion'[inHand[v][2]]
                           = IF worker'[v] = "item" THEN "pending" ELSE "running"
                      /\ worker'[v] = "body" /\ inHand[v][2] \notin Coalescing
                           => future'[inHand[v][2]] = "running"
    BY <1>1 DEF Hands, AtWork
  <2>1. v # w
    BY <1>3 DEF AtWork
  <2> QED
    BY <1>2, <1>3, <1>7, <2>1 DEF WorkInv, Hands, AtWork
<1>9. Births'
  BY <1>1, <1>2, <1>3, <1>5 DEF WorkInv, Births
<1>10. Watching'
  BY <1>1, <1>2, <1>3, <1>5 DEF WorkInv, Watching
<1>11. Alive'
  <2>1. \A x \in Submission : completion'[x] = "pending" =>
          \/ In(items'[LaneOf[x]], x)
          \/ \E v \in Worker : worker'[v] = "item" /\ inHand'[v][2] = x
    BY <1>1, <1>2, <1>3 DEF WorkInv, Alive, i
  <2>2. \A x \in Submission : completion'[x] = "running" =>
          \E v \in Worker : worker'[v] = "body" /\ inHand'[v][2] = x
    BY <1>1, <1>2, <1>3 DEF WorkInv, Alive, i
  <2>3. ASSUME NEW s \in Submission, future'[s] \in {"pending", "running"}
        PROVE  \E x \in Submission : s \in watchers'[x] /\ completion'[x] = future'[s]
    <3>1. s \notin active /\ future'[s] = future[s]
      BY <1>3, <2>3
    <3>2. PICK x \in Submission : s \in watchers[x] /\ completion[x] = future[s]
      BY <2>3, <3>1 DEF WorkInv, Alive
    <3>3. x # i
      BY <1>2, <3>1, <3>2 DEF active
    <3> QED
      BY <1>1, <1>3, <3>1, <3>2, <3>3
  <2> QED
    BY <2>1, <2>2, <2>3 DEF Alive
<1> QED
  BY <1>4, <1>8, <1>9, <1>10, <1>11 DEF WorkInv

\* A close takes every queued item of the lane and cancels whoever still waits for it.
LEMMA CancelLaneWork ==
  ASSUME TypeOK, TokenInv, WorkInv, CancelLane
  PROVE  WorkInv'
<1> DEFINE l       == Head(toClose)
           gone    == {items[l][k] : k \in 1..Len(items[l])}
           handles == UNION {watchers[i] : i \in gone}
<1>1. /\ toClose # <<>> /\ items' = [items EXCEPT ![l] = <<>>]
      /\ coalesced' = IF coalesced[l] \in gone THEN [coalesced EXCEPT ![l] = None] ELSE coalesced
      /\ future' = [s \in Submission |->
           IF s \in handles /\ future[s] = "pending" THEN "cancelled" ELSE future[s]]
      /\ completion' = [s \in Submission |-> IF s \in gone THEN "cancelled" ELSE completion[s]]
      /\ UNCHANGED <<sub, watchers, worker, inHand>>
  BY DEF CancelLane, workerVars
<1>2. l \in Lane
  BY <1>1, HeadTailProperties DEF TypeOK
<1>3. \A x : x \in gone <=> In(items[l], x)
  BY DEF In
<1>4. \A i \in gone : \A s \in watchers[i] : s \in handles
  OBVIOUS
<1> HIDE DEF l, gone, handles
<1>5. /\ items'[l] = <<>> /\ \A m \in Lane \ {l} : items'[m] = items[m]
      /\ coalesced'[l] = IF coalesced[l] \in gone THEN None ELSE coalesced[l]
      /\ \A m \in Lane \ {l} : coalesced'[m] = coalesced[m]
  BY <1>1, <1>2 DEF TypeOK
<1>6. \A s \in Submission : /\ completion'[s] = IF s \in gone THEN "cancelled" ELSE completion[s]
                            /\ future'[s] \in {future[s], "cancelled"}
                            /\ future'[s] # future[s] => future[s] = "pending"
                            /\ future'[s] = "pending" => s \notin handles
  BY <1>1
<1>7. /\ \A s \in Submission : s \in gone => LaneOf[s] = l /\ completion[s] = "pending"
      /\ items[l] \in Seq(Submission) /\ gone \subseteq Submission
  BY <1>2, <1>3, InType DEF WorkInv, Queues, TypeOK
<1>8. coalesced'[l] = None
  BY <1>2, <1>3, <1>5 DEF WorkInv, Queues
<1>9. Queues'
  <2>1. ~(\E x : In(items'[l], x)) /\ NoDup(items'[l])
    BY <1>5, InEmpty, NoDupEmpty
  <2> QED
    BY <1>1, <1>5, <1>6, <1>7, <1>8, <2>1 DEF WorkInv, Queues
<1>10. Hands'
  <2> SUFFICES ASSUME NEW w \in Worker, worker[w] \in AtWork
               PROVE  /\ inHand[w][2] \in Submission
                      /\ LaneOf[inHand[w][2]] = inHand[w][1]
                      /\ sub[inHand[w][2]] \in {"bind", "accepted"}
                      /\ ~In(items'[inHand[w][1]], inHand[w][2])
                      /\ completion'[inHand[w][2]]
                           = IF worker[w] = "item" THEN "pending" ELSE "running"
                      /\ worker[w] = "body" /\ inHand[w][2] \notin Coalescing
                           => future'[inHand[w][2]] = "running"
    BY <1>1 DEF Hands, AtWork
  <2>1. /\ inHand[w][1] \in Lane /\ inHand[w][2] \in Submission
        /\ \A m \in Lane : ~In(items[m], inHand[w][2])
    BY OwnHand
  <2>2. ~In(items'[inHand[w][1]], inHand[w][2])
    BY <1>5, <2>1, InEmpty
  <2>3. inHand[w][2] \notin gone
    BY <1>2, <1>3, <2>1
  <2> QED
    BY <1>6, <2>1, <2>2, <2>3 DEF WorkInv, Hands, AtWork
<1>11. Births'
  BY <1>1, <1>6, <1>7 DEF WorkInv, Births
<1>12. Watching'
  <2>1. \A i \in Submission : watchers[i] \subseteq Submission
    BY DEF TypeOK
  <2> QED
    BY <1>1, <1>6, <1>7, <2>1 DEF WorkInv, Watching
<1>13. Alive'
  <2>1. \A x \in Submission : x \notin gone /\ In(items[LaneOf[x]], x) => In(items'[LaneOf[x]], x)
    BY <1>3, <1>5, Constants
  <2>2. \A x \in Submission : completion'[x] = "pending" =>
          \/ In(items'[LaneOf[x]], x)
          \/ \E v \in Worker : worker'[v] = "item" /\ inHand'[v][2] = x
    BY <1>1, <1>6, <2>1 DEF WorkInv, Alive
  <2>3. \A x \in Submission : completion'[x] = "running" =>
          \E v \in Worker : worker'[v] = "body" /\ inHand'[v][2] = x
    BY <1>1, <1>6 DEF WorkInv, Alive
  <2>4. ASSUME NEW s \in Submission, future'[s] \in {"pending", "running"}
        PROVE  \E x \in Submission : s \in watchers'[x] /\ completion'[x] = future'[s]
    <3>1. future'[s] = future[s]
      BY <1>6, <2>4
    <3>2. PICK x \in Submission : s \in watchers[x] /\ completion[x] = future[s]
      BY <2>4, <3>1 DEF WorkInv, Alive
    <3>3. x \notin gone
      BY <1>4, <1>6, <1>7, <2>4, <3>1, <3>2
    <3> QED
      BY <1>1, <1>6, <3>1, <3>2, <3>3
  <2> QED
    BY <2>2, <2>3, <2>4 DEF Alive
<1> QED
  BY <1>9, <1>10, <1>11, <1>12, <1>13 DEF WorkInv

LEMMA NextWork ==
  ASSUME TypeOK, TokenInv, WorkInv, [Next]_vars
  PROVE  WorkInv'
<1> USE DEF laneVars, workVars, subVars, workerVars, closeVars
<1>1. CASE UNCHANGED vars
  <2>1. WorkStays
    BY <1>1 DEF WorkStays, vars
  <2> QED
    BY <2>1, WorkStaysKeep
<1>2. ASSUME NEW s \in Submission, SubmitStep(s) PROVE WorkInv'
  <2>1. CASE TryCoalesce(s) /\ coalesced[LaneOf[s]] # None
    BY <2>1, MergeWork DEF TryCoalesce, Fresh
  <2>2. CASE JoinLate(s)
    BY <2>2, MergeWork DEF JoinLate, Fresh
  <2> QED
    BY <1>2, <2>1, <2>2, EnqueueWork, SubmitWorkStays, WorkStaysKeep
<1>3. ASSUME NEW w \in Worker, WorkerStep(w), ~TakeItem(w), ~BeginItem(w), ~EndBody(w)
      PROVE  WorkInv'
  <2>1. UNCHANGED <<items, coalesced, completion, watchers, future, sub>>
    BY <1>3 DEF WorkerStep, TakeToken, Exit, FinishItem, Reschedule
  <2>2. \A v \in Worker : \/ worker'[v] = worker[v] /\ inHand'[v] = inHand[v]
                          \/ worker[v] \notin AtWork /\ worker'[v] \notin AtWork
    BY <1>3 DEF WorkerStep, TakeToken, Exit, FinishItem, Reschedule, WorkerTo, AtWork, TypeOK
  <2>3. WorkStays
    BY <2>1, <2>2 DEF WorkStays
  <2> QED
    BY <2>3, WorkStaysKeep
<1>4. CASE BeginClose \/ LaneReturns \/ CloseFactory \/ JoinWorkers \/ \E l \in Lane : Seal(l)
  <2>1. WorkStays
    BY <1>4 DEF WorkStays, BeginClose, LaneReturns, CloseFactory, JoinWorkers, Seal
  <2> QED
    BY <2>1, WorkStaysKeep
<1> QED
  BY <1>1, <1>2, <1>3, <1>4, CancelFutureWork, TakeItemWork, BeginItemWork, EndBodyWork,
     CancelLaneWork
  DEF Next, WorkerStep, CloseStep

(***************************************************************************)
(* The permits.                                                            *)
(***************************************************************************)

\* No step of another thread undoes the end of work that was accepted.
DoneStays ==
  \A s \in Submission : sub[s] = "accepted" => /\ sub'[s] = "accepted"
                                               /\ WorkDone(s) => WorkDone(s)'

\* A step that looks at every accepted submission leaves exactly the covered permits.
LEMMA ReturnPermitsKeep ==
  ASSUME PermitInv, DoneStays, ReturnPermits,
         \A s \in Submission : \/ sub'[s] = sub[s]
                               \/ sub[s] = "bind" /\ sub'[s] = "accepted"
  PROVE  PermitInv'
  BY DEF PermitInv, DoneStays, ReturnPermits, Covered

\* A step that leaves the work alone changes the permit of one submission.
LEMMA OnePermit ==
  ASSUME PermitInv, NEW s \in Submission,
         \A t \in Submission \ {s} : /\ sub'[t] = sub[t]
                                     /\ WorkDone(t)' = WorkDone(t)
                                     /\ t \in permits' <=> t \in permits,
         sub'[s] # "accepted",
         s \in permits' <=> sub'[s] \in {"permitted", "schedule", "bind"}
  PROVE  PermitInv'
  BY DEF PermitInv, Covered

LEMMA SubmitPermits ==
  ASSUME TypeOK, WorkInv, PermitInv, NEW s \in Submission, SubmitStep(s) \/ CancelFuture(s)
  PROVE  PermitInv'
<1> USE DEF laneVars, workVars, subVars, workerVars, closeVars
<1>0. /\ \A t \in Submission : t \in permits <=> Covered(t)
      /\ permits \subseteq Submission
  BY DEF PermitInv, TypeOK
<1>1. CASE TryCoalesce(s) \/ Acquire(s) \/ Refuse(s) \/ JoinLate(s) \/ FindFull(s)
  <2>1. /\ sub[s] \in Fresh /\ sub'[s] \in Fresh \cup {"merged"}
        /\ \A t \in Submission \ {s} : sub'[t] = sub[t] /\ future'[t] = future[t]
        /\ UNCHANGED completion
    BY <1>1 DEF TryCoalesce, Acquire, Refuse, JoinLate, FindFull, MayQueue, SubTo, Entry,
                Merge, Fresh, TypeOK
  <2>2. \A t \in Submission \ {s} : WorkDone(t)' = WorkDone(t)
    BY <2>1 DEF WorkDone
  <2>3. \A t \in Submission \ {s} : t \in permits' <=> t \in permits
    BY <1>1 DEF TryCoalesce, Acquire, Refuse, JoinLate, FindFull
  <2>4. s \in permits' <=> sub'[s] = "permitted"
    BY <1>0, <1>1 DEF TryCoalesce, Acquire, Refuse, JoinLate, FindFull, MayQueue, SubTo,
                      Entry, Covered, TypeOK
  <2> QED
    BY <2>1, <2>2, <2>3, <2>4, OnePermit DEF Fresh
<1>2. CASE Enqueue(s)
  <2>1. /\ sub[s] = "permitted" /\ sub'[s] \in {"bind", "schedule"} /\ UNCHANGED permits
        /\ \A t \in Submission \ {s} : /\ sub'[t] = sub[t] /\ future'[t] = future[t]
                                       /\ completion'[t] = completion[t]
    BY <1>2 DEF Enqueue, MayQueue, SubTo, TypeOK
  <2>2. \A t \in Submission \ {s} : WorkDone(t)' = WorkDone(t)
    BY <2>1 DEF WorkDone
  <2> QED
    BY <1>0, <2>1, <2>2, OnePermit DEF Covered
<1>3. CASE Schedule(s)
  <2>1. /\ sub[s] = "schedule" /\ \A t \in Submission \ {s} : sub'[t] = sub[t]
        /\ UNCHANGED <<future, completion>>
        /\ \/ sub'[s] = "failed" /\ permits' = permits \ {s}
           \/ sub'[s] = "bind" /\ permits' = permits
    BY <1>3 DEF Schedule, SubTo, TypeOK
  <2>2. \A t \in Submission \ {s} : WorkDone(t)' = WorkDone(t)
    BY <2>1 DEF WorkDone
  <2> QED
    BY <1>0, <2>1, <2>2, OnePermit DEF Covered
<1>4. CASE Bind(s)
  <2>1. /\ sub[s] = "bind" /\ sub'[s] = "accepted" /\ ReturnPermits
        /\ \A t \in Submission \ {s} : sub'[t] = sub[t]
        /\ UNCHANGED <<future, completion>>
    BY <1>4 DEF Bind, SubTo, TypeOK
  <2>2. DoneStays
    BY <1>4, <2>1 DEF DoneStays, WorkDone, Bind
  <2> QED
    BY <2>1, <2>2, ReturnPermitsKeep
<1>5. CASE CancelFuture(s)
  <2>1. DoneStays
    BY <1>5 DEF CancelFuture, DoneStays, WorkDone, Settled, TypeOK
  <2> QED
    BY <1>5, <2>1, ReturnPermitsKeep DEF CancelFuture
<1> QED
  BY <1>1, <1>2, <1>3, <1>4, <1>5 DEF SubmitStep

LEMMA PermitsStay ==
  ASSUME PermitInv, UNCHANGED <<sub, permits, future, completion>>
  PROVE  PermitInv'
  BY DEF PermitInv, Covered, WorkDone

LEMMA WorkerPermits ==
  ASSUME TypeOK, TokenInv, WorkInv, PermitInv, NEW w \in Worker, WorkerStep(w)
  PROVE  PermitInv'
<1> USE DEF laneVars, workVars, subVars, workerVars, closeVars
<1>1. CASE BeginItem(w)
  <2>1. inHand[w][2] \in Submission /\ completion[inHand[w][2]] = "pending"
    BY <1>1 DEF BeginItem, WorkInv, Hands
  <2>2. /\ \A s \in Submission : future[s] \in Settled => future'[s] = future[s]
        /\ \A s \in Submission : completion[s] \in Settled => completion'[s] = completion[s]
    BY <1>1, <2>1 DEF BeginItem, Settled, TypeOK
  <2>3. DoneStays /\ ReturnPermits /\ UNCHANGED sub
    BY <1>1, <2>2 DEF DoneStays, WorkDone, BeginItem
  <2> QED
    BY <2>3, ReturnPermitsKeep
<1>2. CASE EndBody(w)
  <2>1. /\ \A s \in Submission : future[s] \in Settled => future'[s] = future[s]
        /\ \A s \in Submission : completion[s] \in Settled => completion'[s] \in Settled
    BY <1>2 DEF EndBody, Settled, TypeOK
  <2>2. DoneStays /\ ReturnPermits /\ UNCHANGED sub
    BY <1>2, <2>1 DEF DoneStays, WorkDone, EndBody
  <2> QED
    BY <2>2, ReturnPermitsKeep
<1>3. CASE TakeToken(w) \/ Exit(w) \/ TakeItem(w) \/ FinishItem(w) \/ Reschedule(w)
  BY <1>3, PermitsStay DEF TakeToken, Exit, TakeItem, FinishItem, Reschedule
<1> QED
  BY <1>1, <1>2, <1>3 DEF WorkerStep

LEMMA ClosePermits ==
  ASSUME TypeOK, PermitInv, BeginClose \/ CloseStep \/ (\E l \in Lane : Seal(l))
  PROVE  PermitInv'
<1> USE DEF laneVars, workVars, subVars, workerVars, closeVars
<1>1. CASE CancelLane
  <2>1. /\ \A s \in Submission : future[s] \in Settled => future'[s] = future[s]
        /\ \A s \in Submission : completion[s] \in Settled => completion'[s] \in Settled
    BY <1>1 DEF CancelLane, Settled, TypeOK
  <2>2. DoneStays /\ ReturnPermits /\ UNCHANGED sub
    BY <1>1, <2>1 DEF DoneStays, WorkDone, CancelLane
  <2> QED
    BY <2>2, ReturnPermitsKeep
<1>2. CASE BeginClose \/ LaneReturns \/ CloseFactory \/ JoinWorkers \/ \E l \in Lane : Seal(l)
  BY <1>2, PermitsStay DEF BeginClose, LaneReturns, CloseFactory, JoinWorkers, Seal
<1> QED
  BY <1>1, <1>2 DEF CloseStep

(***************************************************************************)
(* The invariant.                                                          *)
(***************************************************************************)
LEMMA InitIInv == Init => IInv
<1> SUFFICES ASSUME Init PROVE IInv
  OBVIOUS
<1>1. TypeOK
  BY TypeInit
<1>2. /\ \A w \in Worker : ready[w] = <<>> /\ worker[w] = "idle"
      /\ \A l \in Lane : items[l] = <<>> /\ coalesced[l] = None /\ ~scheduled[l]
      /\ \A s \in Submission : /\ sub[s] \in {"start", "acquire"} /\ completion[s] = "none"
                               /\ future[s] = "none" /\ watchers[s] = {}
      /\ permits = {} /\ ~factoryClosed
  BY DEF Init, Entry
<1>3. TokenInv
  <2>1. \A l \in Lane : ~InQueue(l) /\ ~WithWorker(l) /\ ~WithSubmitter(l)
    BY <1>2, InEmpty, Constants DEF InQueue, WithWorker, WithSubmitter, Busy
  <2>2. Homes
    BY <1>2, InEmpty DEF Homes, Busy
  <2>3. Single
    BY <1>2, <2>1, NoDupEmpty DEF Single
  <2>4. Scheduling
    BY <1>2, <2>1 DEF Scheduling, HasToken
  <2> QED
    BY <2>2, <2>3, <2>4 DEF TokenInv
<1>4. WorkInv
  <2>1. Queues
    BY <1>2, InEmpty, NoDupEmpty DEF Queues
  <2>2. Hands /\ Births /\ Watching /\ Alive
    BY <1>2 DEF Hands, Births, Watching, Alive, Fresh, Owned
  <2> QED
    BY <2>1, <2>2 DEF WorkInv
<1>5. PermitInv
  BY <1>2 DEF PermitInv, Covered
<1> QED
  BY <1>1, <1>3, <1>4, <1>5 DEF IInv

LEMMA NextIInv == IInv /\ [Next]_vars => IInv'
<1> SUFFICES ASSUME IInv, [Next]_vars PROVE IInv'
  OBVIOUS
<1>1. TypeOK /\ TokenInv /\ WorkInv /\ PermitInv
  BY DEF IInv
<1>2. TokenInv' /\ WorkInv'
  BY <1>1, NextTokens, NextWork
<1>3. TypeOK'
  <2>1. CASE UNCHANGED vars
    BY <1>1, <2>1 DEF vars, TypeOK, laneVars, workVars, subVars, workerVars, closeVars
  <2> QED
    BY <1>1, <2>1, TypeSubmit, TypeWorker, TypeClose DEF Next, TokenInv, WorkInv
<1>4. PermitInv'
  <2>1. CASE UNCHANGED vars
    BY <1>1, <2>1, PermitsStay DEF vars, subVars, workVars
  <2> QED
    BY <1>1, <2>1, SubmitPermits, WorkerPermits, ClosePermits DEF Next
<1> QED
  BY <1>2, <1>3, <1>4 DEF IInv

LEMMA Invariance == Spec => []IInv
  BY InitIInv, NextIInv, PTL DEF Spec

(***************************************************************************)
(* The theorems.                                                           *)
(***************************************************************************)

\* Every variable keeps its type: the mailboxes stay within their capacity and the
\* permits within the admission budget, whatever submitters, workers and closes do.
THEOREM TypesAndBounds == Spec => []TypeOK
<1>1. IInv => TypeOK
  BY DEF IInv
<1> QED
  BY <1>1, Invariance, PTL

\* The tokens of a lane, as the invariant sees them.
LEMMA WhereTokens ==
  ASSUME TypeOK, TokenInv, NEW l \in Lane
  PROVE  /\ \A k \in 1..Len(ready[WorkerOf[l]]) : ready[WorkerOf[l]][k] = l => InQueue(l)
         /\ \A w \in Worker : worker[w] \in Busy /\ inHand[w][1] = l =>
              w = WorkerOf[l] /\ WithWorker(l)
         /\ \A s \in Submission : sub[s] = "schedule" /\ LaneOf[s] = l => WithSubmitter(l)
  BY DEF InQueue, In, WithWorker, WithSubmitter, TokenInv, Homes

LEMMA SameToken ==
  ASSUME TypeOK, TokenInv, NEW l \in Lane, NEW x \in Tokens(l), NEW y \in Tokens(l)
  PROVE  x = y
<1> DEFINE q == ready[WorkerOf[l]]
<1>1. /\ \A k \in 1..Len(q) : q[k] = l => InQueue(l)
      /\ \A w \in Worker : worker[w] \in Busy /\ inHand[w][1] = l =>
           w = WorkerOf[l] /\ WithWorker(l)
      /\ \A s \in Submission : sub[s] = "schedule" /\ LaneOf[s] = l => WithSubmitter(l)
  BY WhereTokens
<1>2. /\ NoDup(q)
      /\ \A s, t \in Submission :
           sub[s] = "schedule" /\ sub[t] = "schedule" /\ LaneOf[s] = LaneOf[t] => s = t
      /\ InQueue(l) => ~WithWorker(l) /\ ~WithSubmitter(l)
      /\ WithWorker(l) => ~WithSubmitter(l)
  BY Constants DEF TokenInv, Single
<1>3. ASSUME NEW t \in Tokens(l)
      PROVE  \/ \E k \in 1..Len(q) : t = <<"ready", k>> /\ q[k] = l
             \/ \E w \in Worker : /\ t = <<"worker", w>>
                                  /\ worker[w] \in Busy /\ inHand[w][1] = l
             \/ \E s \in Submission : /\ t = <<"submitter", s>>
                                      /\ sub[s] = "schedule" /\ LaneOf[s] = l
  BY DEF Tokens, Busy
<1>4. CASE \E k \in 1..Len(q) : x = <<"ready", k>> /\ q[k] = l
  <2>1. PICK k \in 1..Len(q) : x = <<"ready", k>> /\ q[k] = l
    BY <1>4
  <2>2. PICK j \in 1..Len(q) : y = <<"ready", j>> /\ q[j] = l
    BY <1>1, <1>2, <1>3, <2>1
  <2>3. j = k
    BY <1>2, <2>1, <2>2 DEF NoDup
  <2> QED
    BY <2>1, <2>2, <2>3
<1>5. CASE \E w \in Worker : /\ x = <<"worker", w>>
                             /\ worker[w] \in Busy /\ inHand[w][1] = l
  <2>1. x = <<"worker", WorkerOf[l]>> /\ WithWorker(l)
    BY <1>1, <1>5
  <2>2. y = <<"worker", WorkerOf[l]>>
    BY <1>1, <1>2, <1>3, <2>1
  <2> QED
    BY <2>1, <2>2
<1>6. CASE \E s \in Submission : /\ x = <<"submitter", s>>
                                 /\ sub[s] = "schedule" /\ LaneOf[s] = l
  <2>1. PICK s \in Submission : /\ x = <<"submitter", s>>
                                /\ sub[s] = "schedule" /\ LaneOf[s] = l
    BY <1>6
  <2>2. PICK t \in Submission : /\ y = <<"submitter", t>>
                                /\ sub[t] = "schedule" /\ LaneOf[t] = l
    BY <1>1, <1>2, <1>3, <2>1
  <2>3. s = t
    BY <1>2, <2>1, <2>2
  <2> QED
    BY <2>1, <2>2, <2>3
<1> QED
  BY <1>3, <1>4, <1>5, <1>6

LEMMA TokensOfLane ==
  ASSUME TypeOK, TokenInv, NEW l \in Lane
  PROVE  Cardinality(Tokens(l)) <= 1 /\ (Tokens(l) # {} <=> HasToken(l))
<1>1. CASE Tokens(l) = {}
  <2>1. Cardinality(Tokens(l)) = 0
    BY <1>1, FS_EmptySet
  <2>2. ~HasToken(l)
    BY <1>1, Constants DEF Tokens, HasToken, InQueue, In, WithWorker, WithSubmitter, Busy
  <2> QED
    BY <1>1, <2>1, <2>2
<1>2. CASE Tokens(l) # {}
  <2>1. PICK x : x \in Tokens(l)
    BY <1>2
  <2>2. Tokens(l) = {x}
    BY <2>1, SameToken
  <2>3. Cardinality(Tokens(l)) = 1
    BY <2>2, FS_Singleton
  <2>4. HasToken(l)
    <3>1. \/ \E k \in 1..Len(ready[WorkerOf[l]]) : ready[WorkerOf[l]][k] = l
          \/ \E w \in Worker : worker[w] \in Busy /\ inHand[w][1] = l
          \/ \E s \in Submission : sub[s] = "schedule" /\ LaneOf[s] = l
      BY <2>1 DEF Tokens, Busy
    <3> QED
      BY <3>1, WhereTokens DEF HasToken
  <2> QED
    BY <1>2, <2>3, <2>4
<1> QED
  BY <1>1, <1>2

\* A lane has at most one token, none when it is not scheduled, and one when it is
\* unless the factory closed: so a worker runs one call of a lane at a time, no
\* queued item is forgotten, and no worker dies on a stale token.
THEOREM OneTokenPerLane == Spec => []OneToken
<1>1. IInv => OneToken
  BY TokensOfLane DEF IInv, OneToken, TokenInv, Scheduling
<1> QED
  BY <1>1, Invariance, PTL

\* A call that runs holds a permit, and a permit is held only for a submission under
\* way or for accepted work that has not ended.
THEOREM PermitsCoverWork == Spec => []PermitsMatchWork
<1>1. ASSUME IInv PROVE PermitsMatchWork
  <2>1. ASSUME NEW w \in Worker, worker[w] = "body" PROVE inHand[w][2] \in permits
    <3>1. /\ inHand[w][2] \in Submission /\ sub[inHand[w][2]] \in {"bind", "accepted"}
          /\ completion[inHand[w][2]] = "running"
          /\ inHand[w][2] \notin Coalescing => future[inHand[w][2]] = "running"
      BY <1>1, <2>1 DEF IInv, WorkInv, Hands
    <3>2. Covered(inHand[w][2])
      BY <3>1 DEF Covered, WorkDone, Settled
    <3> QED
      BY <1>1, <3>1, <3>2 DEF IInv, PermitInv
  <2>2. \A s \in permits : Covered(s)
    BY <1>1 DEF IInv, PermitInv, TypeOK
  <2> QED
    BY <2>1, <2>2 DEF PermitsMatchWork, Covered
<1> QED
  BY <1>1, Invariance, PTL

\* Nothing of a quiet lane is queued or in a worker's hand.
LEMMA QuietHasNoWork ==
  ASSUME IInv, NEW l \in Lane, Quiet(l), NEW i \in Submission, LaneOf[i] = l
  PROVE  completion[i] \notin {"pending", "running"}
<1>1. ~HasToken(l) /\ items[l] = <<>>
  BY DEF Quiet, IInv, TokenInv, Scheduling
<1>2. ~In(items[LaneOf[i]], i)
  BY <1>1, InEmpty
<1>3. ~(\E w \in Worker : worker[w] \in {"item", "body"} /\ inHand[w][2] = i)
  BY <1>1 DEF IInv, WorkInv, Hands, TokenInv, Homes, HasToken, WithWorker, Busy
<1> QED
  BY <1>2, <1>3 DEF IInv, WorkInv, Alive

LEMMA QuietIsSettled ==
  ASSUME IInv, NEW l \in Lane, Quiet(l), NEW s \in Submission, LaneOf[s] = l,
         sub[s] \in {"accepted", "merged"}
  PROVE  future[s] \in Settled /\ s \notin permits
<1>1. future[s] \in Handle /\ completion[s] \in Handle
  BY DEF IInv, TypeOK
<1>2. future[s] # "none" /\ (sub[s] = "accepted" => completion[s] # "none")
  BY DEF IInv, WorkInv, Births, Fresh, Owned
<1>3. future[s] \notin {"pending", "running"}
  <2> SUFFICES ASSUME future[s] \in {"pending", "running"} PROVE FALSE
    OBVIOUS
  <2>1. PICK i \in Submission : s \in watchers[i] /\ completion[i] = future[s]
    BY DEF IInv, WorkInv, Alive
  <2>2. LaneOf[i] = l
    BY <2>1 DEF IInv, WorkInv, Watching
  <2> QED
    BY <2>1, <2>2, QuietHasNoWork
<1>4. future[s] \in Settled
  BY <1>1, <1>2, <1>3 DEF Handle
<1>5. sub[s] = "accepted" => WorkDone(s)
  BY <1>1, <1>2, <1>4, QuietHasNoWork DEF WorkDone, Handle
<1> QED
  BY <1>4, <1>5 DEF IInv, PermitInv, Covered

LEMMA QuietStays ==
  ASSUME NEW l \in Lane, sealed[l], Quiet(l), TypeOK, [Next]_vars
  PROVE  sealed'[l] /\ Quiet(l)'
<1> USE DEF laneVars, workVars, subVars, workerVars, closeVars
<1>1. ~running[l] /\ ~scheduled[l] /\ items[l] = <<>>
  BY DEF Quiet
<1>2. ASSUME UNCHANGED <<items, scheduled, running, sealed>> PROVE sealed'[l] /\ Quiet(l)'
  BY <1>1, <1>2 DEF Quiet
<1>3. ASSUME NEW s \in Submission, SubmitStep(s), ~Enqueue(s)
      PROVE  sealed'[l] /\ Quiet(l)'
  BY <1>2, <1>3 DEF SubmitStep, TryCoalesce, Acquire, Refuse, JoinLate, FindFull, Schedule, Bind
<1>4. ASSUME NEW s \in Submission, Enqueue(s) PROVE sealed'[l] /\ Quiet(l)'
  BY <1>1, <1>4 DEF Enqueue, MayQueue, Quiet, TypeOK
<1>5. ASSUME NEW s \in Submission, CancelFuture(s) PROVE sealed'[l] /\ Quiet(l)'
  BY <1>2, <1>5 DEF CancelFuture
<1>6. ASSUME NEW w \in Worker, TakeItem(w) PROVE sealed'[l] /\ Quiet(l)'
  BY <1>1, <1>6 DEF TakeItem, Quiet, TypeOK
<1>7. ASSUME NEW w \in Worker, FinishItem(w) PROVE sealed'[l] /\ Quiet(l)'
  BY <1>1, <1>7 DEF FinishItem, Quiet, TypeOK
<1>8. ASSUME NEW w \in Worker,
             TakeToken(w) \/ Exit(w) \/ BeginItem(w) \/ EndBody(w) \/ Reschedule(w)
      PROVE  sealed'[l] /\ Quiet(l)'
  BY <1>2, <1>8 DEF TakeToken, Exit, BeginItem, EndBody, Reschedule
<1>9. ASSUME NEW m \in Lane, Seal(m) PROVE sealed'[l] /\ Quiet(l)'
  BY <1>1, <1>9 DEF Seal, Quiet, TypeOK
<1>10. CASE CancelLane
  BY <1>1, <1>10 DEF CancelLane, AfterCancel, Quiet, TypeOK
<1>11. CASE BeginClose \/ LaneReturns \/ CloseFactory \/ JoinWorkers \/ UNCHANGED vars
  BY <1>2, <1>11 DEF BeginClose, LaneReturns, CloseFactory, JoinWorkers, vars
<1> QED
  BY <1>3, <1>4, <1>5, <1>6, <1>7, <1>8, <1>9, <1>10, <1>11 DEF Next, WorkerStep, CloseStep

\* Once the wait of a lane's close can return, all that the lane accepted is settled,
\* no permit is held for it and no later step queues or runs anything of it: also
\* for submitters that were between the permit and the mailbox when it was sealed.
THEOREM DrainedStaysDrained == Spec => DrainedIsFinal
<1> DEFINE Step == \A l \in Lane : sealed[l] /\ Quiet(l) =>
                     /\ sealed'[l] /\ Quiet(l)'
                     /\ \A s \in Submission :
                          LaneOf[s] = l /\ sub[s] \in {"accepted", "merged"} =>
                            future[s] \in Settled /\ s \notin permits
<1>1. IInv /\ [Next]_vars => Step
  <2> SUFFICES ASSUME IInv, [Next]_vars PROVE Step
    OBVIOUS
  <2>1. TypeOK
    BY DEF IInv
  <2> QED
    BY <2>1, QuietStays, QuietIsSettled
<1> QED
  BY <1>1, Invariance, PTL DEF Spec, DrainedIsFinal

(***************************************************************************)
(* The order of the updates.  The history grows at its end; what is taken  *)
(* into it keeps its place.                                                *)
(***************************************************************************)
Place(q, x) == CHOOSE k \in 1..Len(q) : q[k] = x

LEMMA PlaceOf ==
  ASSUME NEW q, NoDup(q), NEW k \in 1..Len(q)
  PROVE  Place(q, q[k]) = k
<1>1. \E j \in 1..Len(q) : q[j] = q[k]
  OBVIOUS
<1>2. Place(q, q[k]) \in 1..Len(q) /\ q[Place(q, q[k])] = q[k]
  BY <1>1, Zenon DEF Place
<1> QED
  BY <1>2 DEF NoDup

\* Both updates are in the history, the first not after the second.
NotAfter(q, x, y) == In(q, x) /\ In(q, y) /\ Place(q, x) <= Place(q, y)

LEMMA OrderGrows ==
  ASSUME NEW S, NEW q \in Seq(S), NEW e \in S, NoDup(q), ~In(q, e)
  PROVE  /\ NoDup(Append(q, e))
         /\ \A x : In(Append(q, e), x) <=> In(q, x) \/ x = e
         /\ \A x, y : NotAfter(q, x, y) => NotAfter(Append(q, e), x, y)
         /\ \A x : In(q, x) \/ x = e => NotAfter(Append(q, e), x, e)
<1> DEFINE r == Append(q, e)
<1>1. /\ Len(q) \in Nat /\ Len(r) = Len(q) + 1
      /\ \A k \in 1..Len(q) : r[k] = q[k]
      /\ r[Len(q) + 1] = e
  BY AppendProperties, LenProperties
<1>2. NoDup(r) /\ \A x : In(r, x) <=> In(q, x) \/ x = e
  BY AppendIn, AppendNoDup
<1> HIDE DEF r
<1>3. ASSUME NEW x, In(q, x)
      PROVE  Place(r, x) = Place(q, x) /\ Place(q, x) \in 1..Len(q)
  <2>1. PICK k \in 1..Len(q) : q[k] = x
    BY <1>3 DEF In
  <2>2. k \in 1..Len(r) /\ r[k] = x
    BY <1>1, <2>1
  <2>3. Place(q, q[k]) = k
    BY PlaceOf
  <2>4. Place(r, r[k]) = k
    BY <1>2, <2>2, PlaceOf
  <2> QED
    BY <2>1, <2>2, <2>3, <2>4
<1>4. Place(r, e) = Len(q) + 1
  <2>1. Len(q) + 1 \in 1..Len(r)
    BY <1>1
  <2>2. Place(r, r[Len(q) + 1]) = Len(q) + 1
    BY <1>2, <2>1, PlaceOf
  <2> QED
    BY <1>1, <2>2
<1>5. \A x, y : NotAfter(q, x, y) => NotAfter(r, x, y)
  BY <1>2, <1>3 DEF NotAfter
<1>6. \A x : In(q, x) \/ x = e => NotAfter(r, x, e)
  BY <1>1, <1>2, <1>3, <1>4 DEF NotAfter
<1> QED
  BY <1>2, <1>5, <1>6 DEF r

\* The history holds the updates that were accepted; the call of an item is not older
\* than any of its watchers, and the call of an item that can still be joined is the
\* newest of its lane.
Orders ==
  /\ NoDup(order)
  /\ \A s \in Submission : In(order, s) <=> s \in Coalescing /\ future[s] # "none"
  /\ \A i \in Coalescing : /\ completion[i] = "none" => call[i] = i
                           /\ \A s \in watchers[i] : NotAfter(order, s, call[i])
  /\ \A s \in Coalescing : future[s] = "done" => NotAfter(order, s, result[s])
  /\ \A l \in Lane : coalesced[l] # None =>
       \A s \in Coalescing : LaneOf[s] = l /\ future[s] # "none" =>
         NotAfter(order, s, call[coalesced[l]])

\* Most steps accept no update and leave the calls alone.
OrdersStay ==
  /\ UNCHANGED <<order, call, watchers>>
  /\ \A l \in Lane : coalesced'[l] \in {coalesced[l], None}
  /\ \A s \in Submission :
       /\ future'[s] = "none" <=> future[s] = "none"
       /\ completion'[s] = "none" <=> completion[s] = "none"
       /\ s \in Coalescing /\ future'[s] = "done" =>
            \/ future[s] = "done" /\ result'[s] = result[s]
            \/ NotAfter(order, s, result'[s])

LEMMA OrdersStayKeep ==
  ASSUME Orders, OrdersStay
  PROVE  Orders'
<1>1. Coalescing \subseteq Submission
  BY LaneAssumption DEF LaneAssumption
<1> QED
  BY <1>1 DEF Orders, OrdersStay

LEMMA MergeOrders ==
  ASSUME TypeOK, WorkInv, Orders, NEW s \in Submission, s \in Coalescing, sub[s] \in Fresh,
         coalesced[LaneOf[s]] # None, Merge(s, coalesced[LaneOf[s]]),
         UNCHANGED <<coalesced, completion, result>>
  PROVE  Orders'
<1> DEFINE i == coalesced[LaneOf[s]]
<1>1. /\ i \in Coalescing /\ i \in Submission /\ LaneOf[i] = LaneOf[s] /\ LaneOf[s] \in Lane
      /\ completion[i] = "pending" /\ Coalescing \subseteq Submission
      /\ \A l \in Lane \ {LaneOf[s]} : coalesced[l] # None => coalesced[l] \in Submission \ {i}
  BY Constants, LaneAssumption DEF WorkInv, Queues, LaneAssumption
<1>2. /\ order' = Append(order, s) /\ call'[i] = s /\ future'[s] = "pending"
      /\ watchers'[i] = watchers[i] \cup {s}
      /\ \A j \in Submission \ {i} : call'[j] = call[j] /\ watchers'[j] = watchers[j]
      /\ \A t \in Submission \ {s} : future'[t] = future[t]
  BY <1>1 DEF Merge, TypeOK
<1> HIDE DEF i
<1>3. future[s] = "none" /\ ~In(order, s)
  BY DEF WorkInv, Births, Orders
<1>4. /\ NoDup(order') /\ \A x : In(order', x) <=> In(order, x) \/ x = s
      /\ \A x, y : NotAfter(order, x, y) => NotAfter(order', x, y)
      /\ \A x : In(order, x) \/ x = s => NotAfter(order', x, s)
  <2>1. order \in Seq(Submission) /\ NoDup(order)
    BY DEF TypeOK, Orders
  <2> QED
    BY <1>2, <1>3, <2>1, OrderGrows
<1>5. \A t \in Submission : In(order', t) <=> t \in Coalescing /\ future'[t] # "none"
  BY <1>2, <1>3, <1>4 DEF Orders
<1>6. \A j \in Coalescing : /\ completion'[j] = "none" => call'[j] = j
                            /\ \A t \in watchers'[j] : NotAfter(order', t, call'[j])
  <2> SUFFICES ASSUME NEW j \in Coalescing
               PROVE  /\ completion[j] = "none" => call'[j] = j
                      /\ \A t \in watchers'[j] : NotAfter(order', t, call'[j])
    OBVIOUS
  <2>1. CASE j = i
    <3>1. \A t \in watchers[i] : In(order, t)
      BY <1>1 DEF Orders, NotAfter
    <3> QED
      BY <1>1, <1>2, <1>4, <2>1, <3>1
  <2>2. CASE j # i
    BY <1>1, <1>2, <1>4, <2>2 DEF Orders
  <2> QED
    BY <2>1, <2>2
<1>7. \A t \in Coalescing : future'[t] = "done" => NotAfter(order', t, result'[t])
  BY <1>1, <1>2, <1>4 DEF Orders
<1>8. ASSUME NEW l \in Lane, coalesced'[l] # None,
             NEW t \in Coalescing, LaneOf[t] = l, future'[t] # "none"
      PROVE  NotAfter(order', t, call'[coalesced'[l]])
  <2>1. CASE l = LaneOf[s]
    BY <1>1, <1>2, <1>4, <1>5, <1>8, <2>1 DEF i
  <2>2. CASE l # LaneOf[s]
    <3>1. t # s /\ future[t] # "none" /\ coalesced[l] \in Submission \ {i}
      BY <1>1, <1>2, <1>8, <2>2
    <3> QED
      BY <1>2, <1>4, <1>8, <3>1 DEF Orders
  <2> QED
    BY <2>1, <2>2
<1> QED
  BY <1>4, <1>5, <1>6, <1>7, <1>8 DEF Orders

LEMMA EnqueueOrders ==
  ASSUME TypeOK, WorkInv, Orders, NEW s \in Submission, Enqueue(s)
  PROVE  Orders'
<1> DEFINE l == LaneOf[s]
<1>1. /\ l \in Lane /\ Coalescing \subseteq Submission
      /\ future[s] = "none" /\ completion[s] = "none" /\ ~In(order, s)
  BY Constants, LaneAssumption DEF LaneAssumption, Enqueue, MayQueue, WorkInv, Births, Orders,
                                   Fresh, Owned
<1>2. /\ watchers'[s] = {s} /\ completion'[s] = "pending" /\ future'[s] = "pending"
      /\ \A t \in Submission \ {s} : /\ watchers'[t] = watchers[t] /\ future'[t] = future[t]
                                     /\ completion'[t] = completion[t]
      /\ UNCHANGED <<call, result>>
      /\ order' = IF s \in Coalescing THEN Append(order, s) ELSE order
      /\ \A m \in Lane : coalesced'[m] = IF m = l /\ s \in Coalescing THEN s ELSE coalesced[m]
  BY <1>1 DEF Enqueue, TypeOK
<1> HIDE DEF l
<1>3. CASE s \notin Coalescing
  <2>1. /\ order' = order /\ UNCHANGED <<call, result>>
        /\ \A m \in Lane : coalesced'[m] = coalesced[m]
    BY <1>2, <1>3
  <2>2. \A t \in Coalescing : /\ watchers'[t] = watchers[t] /\ future'[t] = future[t]
                              /\ completion'[t] = completion[t]
    BY <1>1, <1>2, <1>3
  <2>3. \A t \in Submission : In(order, t) <=> t \in Coalescing /\ future'[t] # "none"
    BY <1>1, <1>3, <2>2 DEF Orders
  <2> QED
    BY <2>1, <2>2, <2>3 DEF Orders
<1>4. CASE s \in Coalescing
  <2>1. /\ NoDup(order') /\ \A x : In(order', x) <=> In(order, x) \/ x = s
        /\ \A x, y : NotAfter(order, x, y) => NotAfter(order', x, y)
        /\ \A x : In(order, x) \/ x = s => NotAfter(order', x, s)
    <3>1. order \in Seq(Submission) /\ NoDup(order)
      BY DEF TypeOK, Orders
    <3> QED
      BY <1>1, <1>2, <1>4, <3>1, OrderGrows
  <2>2. \A t \in Submission : In(order', t) <=> t \in Coalescing /\ future'[t] # "none"
    BY <1>2, <1>4, <2>1 DEF Orders
  <2>3. call'[s] = s
    BY <1>1, <1>2, <1>4 DEF Orders
  <2>4. \A j \in Coalescing : /\ completion'[j] = "none" => call'[j] = j
                              /\ \A t \in watchers'[j] : NotAfter(order', t, call'[j])
    BY <1>1, <1>2, <2>1, <2>3 DEF Orders
  <2>5. \A t \in Coalescing : future'[t] = "done" => NotAfter(order', t, result'[t])
    BY <1>1, <1>2, <2>1 DEF Orders
  <2>6. ASSUME NEW m \in Lane, coalesced'[m] # None,
               NEW t \in Coalescing, LaneOf[t] = m, future'[t] # "none"
        PROVE  NotAfter(order', t, call'[coalesced'[m]])
    <3>1. CASE m = l
      BY <1>1, <1>2, <1>4, <2>1, <2>2, <2>3, <2>6, <3>1
    <3>2. CASE m # l
      <4>1. t # s /\ future[t] # "none" /\ coalesced'[m] = coalesced[m]
        BY <1>1, <1>2, <2>6, <3>2 DEF l
      <4> QED
        BY <1>2, <2>1, <2>6, <4>1 DEF Orders
    <3> QED
      BY <3>1, <3>2
  <2> QED
    BY <2>1, <2>2, <2>4, <2>5, <2>6 DEF Orders
<1> QED
  BY <1>3, <1>4

LEMMA NextOrders ==
  ASSUME IInv, Orders, [Next]_vars
  PROVE  Orders'
<1> USE DEF laneVars, workVars, subVars, workerVars, closeVars
<1>0. /\ TypeOK /\ TokenInv /\ WorkInv /\ Coalescing \subseteq Submission
      /\ \A x \in Submission : watchers[x] \subseteq Submission
  BY LaneAssumption DEF IInv, LaneAssumption, TypeOK
<1>a. ASSUME UNCHANGED <<order, call, watchers, coalesced, future, completion, result>>
      PROVE  OrdersStay
  BY <1>a DEF OrdersStay
<1>1. ASSUME NEW s \in Submission, SubmitStep(s) PROVE Orders'
  <2>1. CASE TryCoalesce(s) /\ coalesced[LaneOf[s]] # None
    BY <1>0, <2>1, MergeOrders DEF TryCoalesce, Fresh
  <2>2. CASE JoinLate(s)
    BY <1>0, <2>2, MergeOrders DEF JoinLate, Fresh
  <2>3. CASE TryCoalesce(s) /\ coalesced[LaneOf[s]] = None
    BY <1>a, <2>3, OrdersStayKeep DEF TryCoalesce
  <2>4. CASE Acquire(s) \/ Refuse(s) \/ FindFull(s) \/ Schedule(s) \/ Bind(s)
    BY <1>a, <2>4, OrdersStayKeep DEF Acquire, Refuse, FindFull, Schedule, Bind
  <2> QED
    BY <1>0, <1>1, <2>1, <2>2, <2>3, <2>4, EnqueueOrders DEF SubmitStep
<1>2. ASSUME NEW s \in Submission, CancelFuture(s) PROVE Orders'
  <2>1. OrdersStay
    BY <1>0, <1>2 DEF CancelFuture, OrdersStay, TypeOK
  <2> QED
    BY <2>1, OrdersStayKeep
<1>3. ASSUME NEW w \in Worker, TakeItem(w) PROVE Orders'
  <2>1. UNCHANGED <<order, call, watchers, future, completion, result>>
    BY <1>3 DEF TakeItem
  <2>2. \A l \in Lane : coalesced'[l] \in {coalesced[l], None}
    BY <1>0, <1>3 DEF TakeItem, Uncoalesce, TypeOK
  <2> QED
    BY <2>1, <2>2, OrdersStayKeep DEF OrdersStay
<1>4. ASSUME NEW w \in Worker, BeginItem(w) PROVE Orders'
  <2>1. inHand[w][2] \in Submission /\ completion[inHand[w][2]] = "pending"
    BY <1>0, <1>4 DEF BeginItem, WorkInv, Hands
  <2>2. /\ UNCHANGED <<order, call, watchers, coalesced, result>>
        /\ \A s \in Submission : /\ future'[s] = "none" <=> future[s] = "none"
                                 /\ future'[s] = "done" <=> future[s] = "done"
                                 /\ completion'[s] = "none" <=> completion[s] = "none"
    BY <1>0, <1>4, <2>1 DEF BeginItem, TypeOK
  <2> QED
    BY <2>2, OrdersStayKeep DEF OrdersStay
<1>5. ASSUME NEW w \in Worker, EndBody(w) PROVE Orders'
  <2> DEFINE i == inHand[w][2]  active == {s \in watchers[i] : future[s] = "running"}
  <2>1. i \in Submission /\ completion[i] = "running"
    BY <1>0, <1>5 DEF EndBody, WorkInv, Hands
  <2>2. /\ UNCHANGED <<order, call, watchers, coalesced>>
        /\ \A s \in Submission :
             /\ future'[s] = IF s \in active THEN "done" ELSE future[s]
             /\ result'[s] = IF s \in active THEN call[i] ELSE result[s]
             /\ completion'[s] = "none" <=> completion[s] = "none"
    BY <1>0, <1>5, <2>1 DEF EndBody, TypeOK
  <2>3. \A s \in active : s \in Submission /\ s \in watchers[i] /\ future[s] = "running"
    BY <1>0, <2>1
  <2>4. \A s \in active : s \in Coalescing => i \in Coalescing
    BY <1>0, <2>1, <2>3 DEF WorkInv, Watching
  <2> HIDE DEF i, active
  <2>5. \A s \in active : s \in Coalescing => NotAfter(order, s, call[i])
    BY <2>3, <2>4 DEF Orders
  <2>6. OrdersStay
    BY <2>2, <2>3, <2>5 DEF OrdersStay
  <2> QED
    BY <2>6, OrdersStayKeep
<1>6. ASSUME NEW w \in Worker, TakeToken(w) \/ Exit(w) \/ FinishItem(w) \/ Reschedule(w)
      PROVE  Orders'
  BY <1>a, <1>6, OrdersStayKeep DEF TakeToken, Exit, FinishItem, Reschedule
<1>7. CASE CancelLane
  <2> DEFINE l    == Head(toClose)
             gone == {items[l][k] : k \in 1..Len(items[l])}
  <2>1. toClose # <<>> /\ l \in Lane
    BY <1>0, <1>7, HeadTailProperties DEF CancelLane, TypeOK
  <2>2. \A s \in Submission : s \in gone => completion[s] = "pending"
    BY <1>0, <2>1 DEF WorkInv, Queues, In
  <2>3. UNCHANGED <<order, call, watchers, result>>
    BY <1>7 DEF CancelLane
  <2>4. \A m \in Lane : coalesced'[m] \in {coalesced[m], None}
    BY <1>0, <1>7, <2>1 DEF CancelLane, TypeOK
  <2>5. \A s \in Submission :
          /\ completion'[s] = IF s \in gone THEN "cancelled" ELSE completion[s]
          /\ future'[s] = future[s] \/ (future[s] = "pending" /\ future'[s] = "cancelled")
    BY <1>7 DEF CancelLane
  <2> HIDE DEF l, gone
  <2>6. OrdersStay
    BY <2>2, <2>3, <2>4, <2>5 DEF OrdersStay
  <2> QED
    BY <2>6, OrdersStayKeep
<1>8. CASE \/ BeginClose \/ LaneReturns \/ CloseFactory \/ JoinWorkers
           \/ UNCHANGED vars \/ \E l \in Lane : Seal(l)
  BY <1>a, <1>8, OrdersStayKeep DEF BeginClose, LaneReturns, CloseFactory, JoinWorkers, Seal, vars
<1> QED
  BY <1>1, <1>2, <1>3, <1>4, <1>5, <1>6, <1>7, <1>8 DEF Next, WorkerStep, CloseStep

\* However submitters race for a key, a watcher never gets the outcome of a call older
\* than its own submission, and an item that can still be joined carries the newest
\* call accepted for its key.
THEOREM NoOutcomeIsStale == Spec => []NoStaleCall
<1>1. Init => Orders
  BY InEmpty, NoDupEmpty, LaneAssumption DEF Init, Orders, LaneAssumption
<1>2. IInv /\ Orders /\ [Next]_vars => Orders'
  BY NextOrders
<1>3. ASSUME IInv, Orders PROVE NoStaleCall
  <2>1. \A s : At(s) = Place(order, s)
    BY Zenon DEF At, Place
  <2>2. \A l \in Lane : coalesced[l] \in Coalescing => coalesced[l] # None
    BY Constants, LaneAssumption DEF LaneAssumption
  <2> QED
    BY <1>3, <2>1, <2>2 DEF NoStaleCall, Orders, NotAfter
<1> QED
  BY <1>1, <1>2, <1>3, Invariance, PTL DEF Spec
(***************************************************************************)
(* SerialLane implements SerialExecutor.  Three facts more about updates,  *)
(* watchers and the call that runs are needed for it.                      *)
(***************************************************************************)

\* Nobody watches two items.
Unshared == \A i, j \in Submission : \A s \in watchers[i] : s \in watchers[j] => i = j

\* The update that a mailbox holds is the one that can be joined.
OneUpdate == \A l \in Lane : \A i \in Coalescing : In(items[l], i) => coalesced[l] = i

\* Somebody waits for the call that runs.
Served ==
  \A w \in Worker : worker[w] = "body" =>
    \E s \in watchers[inHand[w][2]] : future[s] = "running"

ServeInv == Unshared /\ OneUpdate /\ Served

\* Most steps end no call that runs and begin none.
LEMMA ServeStays ==
  ASSUME ServeInv, UNCHANGED <<items, coalesced, watchers>>,
         \A s \in Submission : future[s] = "running" => future'[s] = "running",
         \A i \in Submission : watchers[i] \subseteq Submission,
         \A w \in Worker : worker[w] = "body" => inHand[w][2] \in Submission,
         \A w \in Worker : worker'[w] = "body" => worker[w] = "body" /\ inHand'[w] = inHand[w]
  PROVE  ServeInv'
<1>1. Unshared' /\ OneUpdate'
  BY DEF ServeInv, Unshared, OneUpdate
<1>2. Served'
  BY DEF ServeInv, Served
<1> QED
  BY <1>1, <1>2 DEF ServeInv

LEMMA MergeServe ==
  ASSUME TypeOK, WorkInv, ServeInv, NEW s \in Submission, sub[s] \in Fresh,
         coalesced[LaneOf[s]] # None, Merge(s, coalesced[LaneOf[s]]),
         UNCHANGED <<items, coalesced, worker, inHand>>
  PROVE  ServeInv'
<1> DEFINE i == coalesced[LaneOf[s]]
<1>1. i \in Submission
  BY Constants, LaneAssumption DEF WorkInv, Queues, LaneAssumption
<1> HIDE DEF i
<1>2. /\ watchers' = [watchers EXCEPT ![i] = watchers[i] \cup {s}]
      /\ future' = [future EXCEPT ![s] = "pending"]
  BY DEF Merge, i
<1>3. /\ future[s] = "none" /\ \A j \in Submission : s \notin watchers[j]
      /\ \A j \in Submission : /\ watchers[j] \subseteq watchers'[j]
                               /\ watchers[j] \subseteq Submission
                               /\ \A t \in watchers'[j] : t \in watchers[j] \/ (t = s /\ j = i)
      /\ \A t \in Submission : future[t] = "running" => future'[t] = "running"
  BY <1>1, <1>2 DEF TypeOK, WorkInv, Births, Watching, Fresh
<1>4. Unshared'
  BY <1>3 DEF ServeInv, Unshared
<1>5. OneUpdate'
  BY DEF ServeInv, OneUpdate
<1>6. Served'
  BY <1>3 DEF ServeInv, Served, WorkInv, Hands
<1> QED
  BY <1>4, <1>5, <1>6 DEF ServeInv

LEMMA EnqueueServe ==
  ASSUME TypeOK, WorkInv, ServeInv, NEW s \in Submission, Enqueue(s)
  PROVE  ServeInv'
<1> DEFINE l == LaneOf[s]
<1>1. /\ l \in Lane /\ sub[s] = "permitted" /\ items[l] \in Seq(Submission)
      /\ s \in Coalescing => coalesced[l] = None
      /\ items' = [items EXCEPT ![l] = Append(items[l], s)]
      /\ coalesced' = IF s \in Coalescing THEN [coalesced EXCEPT ![l] = s] ELSE coalesced
      /\ watchers' = [watchers EXCEPT ![s] = {s}]
      /\ future' = [future EXCEPT ![s] = "pending"]
      /\ UNCHANGED <<worker, inHand>>
  BY Constants DEF Enqueue, MayQueue, workerVars, TypeOK
<1> HIDE DEF l
<1>2. /\ future[s] = "none" /\ completion[s] = "none" /\ watchers[s] = {}
      /\ \A j \in Submission : s \notin watchers[j]
  BY <1>1 DEF TypeOK, WorkInv, Births, Watching, Fresh, Owned
<1>3. /\ watchers'[s] = {s}
      /\ \A j \in Submission \ {s} : watchers'[j] = watchers[j]
      /\ \A j \in Submission : watchers[j] \subseteq Submission
      /\ \A t \in Submission : future[t] = "running" => future'[t] = "running"
  BY <1>1, <1>2 DEF TypeOK
<1>4. Unshared'
  BY <1>2, <1>3 DEF ServeInv, Unshared
<1>5. OneUpdate'
  <2> SUFFICES ASSUME NEW m \in Lane, NEW i \in Coalescing, In(items'[m], i)
               PROVE  coalesced'[m] = i
    BY DEF OneUpdate
  <2>0. i # None
    BY Constants, LaneAssumption DEF LaneAssumption
  <2>1. CASE m # l
    BY <1>1, <2>1 DEF TypeOK, ServeInv, OneUpdate
  <2>2. CASE m = l
    <3>1. In(items[l], i) \/ i = s
      BY <1>1, <2>2, AppendIn DEF TypeOK
    <3>2. In(items[l], i) => coalesced[l] = i
      BY <1>1 DEF ServeInv, OneUpdate
    <3> QED
      BY <1>1, <2>0, <2>2, <3>1, <3>2 DEF TypeOK
  <2> QED
    BY <2>1, <2>2
<1>6. Served'
  <2> SUFFICES ASSUME NEW w \in Worker, worker[w] = "body"
               PROVE  \E t \in watchers'[inHand[w][2]] : future'[t] = "running"
    BY <1>1 DEF Served
  <2>1. inHand[w][2] \in Submission \ {s}
    BY <1>2 DEF WorkInv, Hands
  <2> QED
    BY <1>3, <2>1 DEF ServeInv, Served
<1> QED
  BY <1>4, <1>5, <1>6 DEF ServeInv

LEMMA TakeItemServe ==
  ASSUME TypeOK, TokenInv, WorkInv, ServeInv, NEW w \in Worker, TakeItem(w)
  PROVE  ServeInv'
<1> USE DEF laneVars, workVars, subVars
<1> DEFINE l == inHand[w][1]  i == Head(items[l])
<1>1. /\ l \in Lane /\ items[l] \in Seq(Submission) /\ NoDup(items[l])
      /\ UNCHANGED <<watchers, future>>
  BY DEF TakeItem, TokenInv, Homes, Busy, TypeOK, WorkInv, Queues
<1>2. \A v \in Worker : worker'[v] = "body" => worker[v] = "body" /\ inHand'[v] = inHand[v]
  BY <1>1 DEF TakeItem, WorkerTo, TypeOK
<1>3. Unshared' /\ Served'
  BY <1>1, <1>2 DEF ServeInv, Unshared, Served
<1>4. OneUpdate'
  <2>1. CASE UNCHANGED <<items, coalesced>>
    BY <2>1 DEF ServeInv, OneUpdate
  <2>2. CASE /\ items[l] # <<>> /\ items' = [items EXCEPT ![l] = Tail(items[l])]
             /\ coalesced' = IF coalesced[l] = i THEN [coalesced EXCEPT ![l] = None] ELSE coalesced
    <3>1. \A x : In(Tail(items[l]), x) => In(items[l], x) /\ x # i
      BY <1>1, <2>2, TailIn, TailNoDup
    <3>2. \A m \in Lane : items'[m] = IF m = l THEN Tail(items[l]) ELSE items[m]
      BY <2>2 DEF TypeOK
    <3>3. \A m \in Lane : coalesced'[m] = coalesced[m] \/ (m = l /\ coalesced[l] = i)
      BY <2>2 DEF TypeOK
    <3> HIDE DEF l, i
    <3> QED
      BY <1>1, <3>1, <3>2, <3>3 DEF ServeInv, OneUpdate
  <2> QED
    BY <2>1, <2>2 DEF TakeItem, Uncoalesce
<1> QED
  BY <1>3, <1>4 DEF ServeInv
LEMMA BodyServe ==
  ASSUME TypeOK, TokenInv, WorkInv, ServeInv, NEW w \in Worker, BeginItem(w) \/ EndBody(w)
  PROVE  ServeInv'
<1> USE DEF laneVars
<1> DEFINE i       == inHand[w][2]
           waiting == {s \in watchers[i] : future[s] = "pending"}
           active  == {s \in watchers[i] : future[s] = "running"}
<1>1. worker[w] \in AtWork /\ UNCHANGED <<items, coalesced, watchers, inHand>>
  BY DEF BeginItem, EndBody, AtWork
<1>2. i \in Submission /\ \A v \in Worker \ {w} : worker[v] \in AtWork => inHand[v][2] # i
  BY <1>1, OwnHand
<1>3. \A v \in Worker : v # w => worker'[v] = worker[v]
  BY DEF BeginItem, EndBody, WorkerTo, TypeOK
<1>4. /\ watchers[i] \subseteq Submission
      /\ \A v \in Worker : worker[v] = "body" => inHand[v][2] \in Submission
      /\ \A j \in Submission : watchers[j] \subseteq Submission
  BY <1>2 DEF TypeOK, WorkInv, Hands
<1>5. Unshared' /\ OneUpdate'
  BY <1>1 DEF ServeInv, Unshared, OneUpdate
<1>6. CASE BeginItem(w)
  <2>1. /\ \A s \in Submission : future'[s] = IF s \in waiting THEN "running" ELSE future[s]
        /\ worker'[w] = IF waiting = {} THEN "finish" ELSE "body"
    BY <1>6 DEF BeginItem, WorkerTo, TypeOK
  <2> HIDE DEF i
  <2>2. Served'
    BY <1>1, <1>3, <1>4, <2>1 DEF ServeInv, Served, i
  <2> QED
    BY <1>5, <2>2 DEF ServeInv
<1>7. CASE EndBody(w)
  <2>1. /\ \A s \in Submission : future'[s] = IF s \in active THEN "done" ELSE future[s]
        /\ worker'[w] = "finish"
    BY <1>7 DEF EndBody, WorkerTo, TypeOK
  <2>2. \A s \in active : s \in watchers[i]
    OBVIOUS
  <2> HIDE DEF i, active
  <2>3. ASSUME NEW v \in Worker, worker'[v] = "body"
        PROVE  \E s \in watchers[inHand[v][2]] : future'[s] = "running"
    <3>1. v # w /\ worker[v] = "body" /\ inHand[v][2] # i /\ inHand[v][2] \in Submission
      BY <1>2, <1>3, <1>4, <2>1, <2>3 DEF AtWork
    <3>2. PICK s \in watchers[inHand[v][2]] : future[s] = "running"
      BY <3>1 DEF ServeInv, Served
    <3>3. s \in Submission /\ s \notin watchers[i]
      BY <1>2, <1>4, <3>1, <3>2 DEF ServeInv, Unshared
    <3> QED
      BY <2>1, <2>2, <3>2, <3>3
  <2>4. Served'
    BY <1>1, <2>3 DEF Served
  <2> QED
    BY <1>5, <2>4 DEF ServeInv
<1> QED
  BY <1>6, <1>7

LEMMA CancelLaneServe ==
  ASSUME TypeOK, WorkInv, ServeInv, CancelLane
  PROVE  ServeInv'
<1> USE DEF workerVars
<1> DEFINE l    == Head(toClose)
           gone == {items[l][k] : k \in 1..Len(items[l])}
<1>1. toClose # <<>> /\ l \in Lane
  BY HeadTailProperties DEF CancelLane, TypeOK
<1>2. /\ UNCHANGED <<watchers, worker, inHand>>
      /\ \A m \in Lane : items'[m] = IF m = l THEN <<>> ELSE items[m]
      /\ \A m \in Lane : m # l => coalesced'[m] = coalesced[m]
      /\ \A s \in Submission : future[s] = "running" => future'[s] = "running"
      /\ \A j \in Submission : watchers[j] \subseteq Submission
      /\ \A v \in Worker : worker[v] = "body" => inHand[v][2] \in Submission
  BY <1>1 DEF CancelLane, TypeOK, WorkInv, Hands
<1> HIDE DEF l
<1>3. Unshared'
  BY <1>2 DEF ServeInv, Unshared
<1>4. OneUpdate'
  BY <1>1, <1>2, InEmpty DEF ServeInv, OneUpdate
<1>5. Served'
  BY <1>2 DEF ServeInv, Served
<1> QED
  BY <1>3, <1>4, <1>5 DEF ServeInv

LEMMA NextServe ==
  ASSUME IInv, ServeInv, [Next]_vars
  PROVE  ServeInv'
<1> USE DEF laneVars, workVars, subVars, workerVars, closeVars
<1>0. /\ TypeOK /\ TokenInv /\ WorkInv
      /\ \A i \in Submission : watchers[i] \subseteq Submission
      /\ \A w \in Worker : worker[w] = "body" => inHand[w][2] \in Submission
  BY DEF IInv, TypeOK, WorkInv, Hands
<1>a. ASSUME UNCHANGED <<items, coalesced, watchers, future, worker, inHand>>
      PROVE  ServeInv'
  BY <1>0, <1>a, ServeStays
<1>1. ASSUME NEW s \in Submission, SubmitStep(s) PROVE ServeInv'
  <2>1. CASE TryCoalesce(s) /\ coalesced[LaneOf[s]] # None
    BY <1>0, <2>1, MergeServe DEF TryCoalesce, Fresh
  <2>2. CASE JoinLate(s)
    BY <1>0, <2>2, MergeServe DEF JoinLate, Fresh
  <2>3. CASE TryCoalesce(s) /\ coalesced[LaneOf[s]] = None
    BY <1>a, <2>3 DEF TryCoalesce
  <2>4. CASE Acquire(s) \/ Refuse(s) \/ FindFull(s) \/ Schedule(s) \/ Bind(s)
    BY <1>a, <2>4 DEF Acquire, Refuse, FindFull, Schedule, Bind
  <2> QED
    BY <1>0, <1>1, <2>1, <2>2, <2>3, <2>4, EnqueueServe DEF SubmitStep
<1>2. ASSUME NEW s \in Submission, CancelFuture(s) PROVE ServeInv'
  <2>1. /\ UNCHANGED <<items, coalesced, watchers, worker, inHand>>
        /\ \A t \in Submission : future[t] = "running" => future'[t] = "running"
    BY <1>0, <1>2 DEF CancelFuture, TypeOK
  <2> QED
    BY <1>0, <2>1, ServeStays
<1>3. ASSUME NEW w \in Worker, TakeToken(w) \/ Exit(w) \/ FinishItem(w) \/ Reschedule(w)
      PROVE  ServeInv'
  <2>1. UNCHANGED <<items, coalesced, watchers, future>>
    BY <1>3 DEF TakeToken, Exit, FinishItem, Reschedule
  <2>2. \A v \in Worker : worker'[v] = "body" => worker[v] = "body" /\ inHand'[v] = inHand[v]
    BY <1>0, <1>3 DEF TakeToken, Exit, FinishItem, Reschedule, WorkerTo, TypeOK
  <2> QED
    BY <1>0, <2>1, <2>2, ServeStays
<1>4. ASSUME NEW w \in Worker, TakeItem(w) \/ BeginItem(w) \/ EndBody(w) PROVE ServeInv'
  BY <1>0, <1>4, TakeItemServe, BodyServe
<1>5. CASE CancelLane
  BY <1>0, <1>5, CancelLaneServe
<1>6. CASE \/ BeginClose \/ LaneReturns \/ CloseFactory \/ JoinWorkers
           \/ UNCHANGED vars \/ \E l \in Lane : Seal(l)
  BY <1>a, <1>6 DEF BeginClose, LaneReturns, CloseFactory, JoinWorkers, Seal, vars
<1> QED
  BY <1>1, <1>2, <1>3, <1>4, <1>5, <1>6 DEF Next, WorkerStep, CloseStep

LEMMA ServeInvariance == Spec => [](IInv /\ ServeInv)
<1>1. Init => ServeInv
  BY InEmpty DEF Init, ServeInv, Unshared, OneUpdate, Served
<1>2. IInv /\ ServeInv /\ [Next]_vars => ServeInv'
  BY NextServe
<1> QED
  BY <1>1, <1>2, Invariance, PTL DEF Spec
(***************************************************************************)
(* The refinement, step by step.                                           *)
(***************************************************************************)
Serving == [l \in Lane |-> ServedBy(l)]

ExecutorStep == [Executor!Next]_(Executor!vars)

LEMMA ServingSame ==
  ASSUME \A l \in Lane : ServedBy(l)' = ServedBy(l)
  PROVE  Serving' = Serving
BY DEF Serving

LEMMA ServingBecomes ==
  ASSUME NEW l \in Lane, NEW i, \A m \in Lane : ServedBy(m)' = IF m = l THEN i ELSE ServedBy(m)
  PROVE  Serving' = [Serving EXCEPT ![l] = i]
<1>1. Serving' = [m \in Lane |-> ServedBy(m)']
  BY DEF Serving
<1>2. [Serving EXCEPT ![l] = i] = [m \in Lane |-> IF m = l THEN i ELSE ServedBy(m)]
  BY DEF Serving
<1> QED
  BY <1>1, <1>2

\* A step that leaves the work alone is a stutter of the executor.
LEMMA SameExecutor ==
  ASSUME UNCHANGED <<items, sealed, watchers, call, future, result>>,
         \A l \in Lane : ServedBy(l)' = ServedBy(l)
  PROVE  ExecutorStep
<1>1. Serving' = Serving
  BY ServingSame
<1> QED
  BY <1>1 DEF ExecutorStep, Executor!vars, Serving

LEMMA WaitingIn == \A l, i : i \in Executor!Waiting(l) <=> In(items[l], i)
  BY DEF Executor!Waiting, In

LEMMA MergeExecutor ==
  ASSUME TypeOK, WorkInv, NEW s \in Submission, s \in Coalescing, sub[s] \in Fresh,
         ~sealed[LaneOf[s]], coalesced[LaneOf[s]] # None, Merge(s, coalesced[LaneOf[s]]),
         UNCHANGED <<items, sealed, result, worker, inHand>>
  PROVE  ExecutorStep
<1> DEFINE i == coalesced[LaneOf[s]]
<1>1. i \in Coalescing /\ i \in Submission /\ In(items[LaneOf[s]], i)
  BY Constants, LaneAssumption DEF WorkInv, Queues, LaneAssumption
<1>2. future[s] = "none"
  BY DEF WorkInv, Births
<1>3. Serving' = Serving
  BY ServingSame DEF ServedBy
<1>4. Executor!Join(s, i)
  BY <1>1, <1>2, <1>3, WaitingIn DEF Executor!Join, Merge, Serving
<1> QED
  BY <1>1, <1>4 DEF ExecutorStep, Executor!Next

LEMMA EnqueueExecutor ==
  ASSUME TypeOK, WorkInv, ServeInv, NEW s \in Submission, Enqueue(s)
  PROVE  ExecutorStep
<1> DEFINE l == LaneOf[s]
<1>1. /\ l \in Lane /\ sub[s] = "permitted" /\ ~sealed[l]
      /\ s \in Coalescing => coalesced[l] = None
      /\ UNCHANGED <<worker, inHand>>
  BY Constants DEF Enqueue, MayQueue, workerVars
<1>2. future[s] = "none"
  BY <1>1 DEF WorkInv, Births, Fresh
<1>3. Serving' = Serving
  BY <1>1, ServingSame DEF ServedBy
<1>4. s \in Coalescing => Executor!Waiting(l) \cap Coalescing = {}
  <2> SUFFICES ASSUME s \in Coalescing, NEW i \in Coalescing, In(items[l], i) PROVE FALSE
    BY WaitingIn
  <2>1. coalesced[l] = i /\ i # None
    BY <1>1, Constants, LaneAssumption DEF ServeInv, OneUpdate, LaneAssumption
  <2> QED
    BY <1>1, <2>1
<1>5. Executor!Accept(s)
  BY <1>1, <1>2, <1>3, <1>4 DEF Executor!Accept, Enqueue, Serving
<1> QED
  BY <1>5 DEF ExecutorStep, Executor!Next

LEMMA SubmitExecutor ==
  ASSUME TypeOK, WorkInv, ServeInv, NEW s \in Submission, SubmitStep(s) \/ CancelFuture(s)
  PROVE  ExecutorStep
<1> USE DEF laneVars, workVars, workerVars
<1>1. CASE TryCoalesce(s) /\ coalesced[LaneOf[s]] # None
  BY <1>1, MergeExecutor DEF TryCoalesce, Fresh
<1>2. CASE JoinLate(s)
  BY <1>2, MergeExecutor DEF JoinLate, Fresh
<1>3. CASE \/ TryCoalesce(s) /\ coalesced[LaneOf[s]] = None
           \/ Acquire(s) \/ Refuse(s) \/ FindFull(s) \/ Schedule(s) \/ Bind(s)
  <2>1. UNCHANGED <<items, sealed, watchers, call, future, result, worker, inHand>>
    BY <1>3 DEF TryCoalesce, Acquire, Refuse, FindFull, Schedule, Bind
  <2> QED
    BY <2>1, SameExecutor DEF ServedBy
<1>4. CASE CancelFuture(s)
  <2>1. UNCHANGED <<worker, inHand>>
    BY <1>4 DEF CancelFuture
  <2>2. Serving' = Serving
    BY <2>1, ServingSame DEF ServedBy
  <2>3. Executor!Withdraw(s)
    BY <1>4, <2>2 DEF CancelFuture, Executor!Withdraw, Serving
  <2> QED
    BY <2>3 DEF ExecutorStep, Executor!Next
<1> QED
  BY <1>1, <1>2, <1>3, <1>4, EnqueueExecutor DEF SubmitStep
\* What is served changes only where a worker takes an item or is done with it.
LEMMA ServingKeeps ==
  ASSUME TypeOK, NEW w \in Worker, worker[w] \notin AtWork, worker'[w] \notin AtWork,
         \A v \in Worker \ {w} : worker'[v] = worker[v] /\ inHand'[v] = inHand[v]
  PROVE  \A l \in Lane : ServedBy(l)' = ServedBy(l)
<1> TAKE l \in Lane
<1>1. WorkerOf[l] \in Worker
  BY Constants
<1>2. CASE WorkerOf[l] = w
  BY <1>2 DEF ServedBy, AtWork
<1>3. CASE WorkerOf[l] # w
  BY <1>1, <1>3 DEF ServedBy
<1> QED
  BY <1>2, <1>3

LEMMA TakeItemExecutor ==
  ASSUME TypeOK, TokenInv, WorkInv, NEW w \in Worker, TakeItem(w)
  PROVE  ExecutorStep
<1> USE DEF laneVars, workVars, subVars
<1>1. PICK l \in Lane : l = inHand[w][1] /\ WorkerOf[l] = w /\ worker[w] = "token"
  BY DEF TakeItem, TokenInv, Homes, Busy
<1>2. \A v \in Worker \ {w} : worker'[v] = worker[v] /\ inHand'[v] = inHand[v]
  BY DEF TakeItem, WorkerTo, TypeOK
<1>3. CASE ~(scheduled[l] /\ items[l] # <<>>)
  <2>1. worker'[w] \in {"gone", "idle"} /\ UNCHANGED <<items, sealed>>
    BY <1>1, <1>3 DEF TakeItem, WorkerTo, TypeOK
  <2>2. \A m \in Lane : ServedBy(m)' = ServedBy(m)
    BY <1>1, <1>2, <2>1, ServingKeeps DEF AtWork
  <2> QED
    BY <2>1, <2>2, SameExecutor DEF TakeItem
<1>4. CASE scheduled[l] /\ items[l] # <<>>
  <2> DEFINE i == Head(items[l])
  <2>1. /\ items' = [items EXCEPT ![l] = Tail(items[l])] /\ UNCHANGED sealed
        /\ worker' = [worker EXCEPT ![w] = "item"]
        /\ inHand' = [inHand EXCEPT ![w][2] = i]
    BY <1>1, <1>4 DEF TakeItem, WorkerTo
  <2>2. inHand[w] \in (Lane \cup {None}) \X (Submission \cup {None})
    BY DEF TypeOK
  <2>3. worker'[w] = "item" /\ inHand'[w][1] = l /\ inHand'[w][2] = i
    BY <1>1, <2>1, <2>2 DEF TypeOK
  <2>4. Serving[l] = None /\ ServedBy(l)' = i
    BY <1>1, <2>3 DEF Serving, ServedBy
  <2>5. ASSUME NEW m \in Lane \ {l} PROVE ServedBy(m)' = ServedBy(m)
    <3>1. CASE WorkerOf[m] = w
      BY <1>1, <2>3, <3>1 DEF ServedBy
    <3>2. CASE WorkerOf[m] # w
      BY <1>2, <3>2, Constants DEF ServedBy
    <3> QED
      BY <3>1, <3>2
  <2>6. Serving' = [Serving EXCEPT ![l] = i]
    <3>1. \A m \in Lane : ServedBy(m)' = IF m = l THEN i ELSE ServedBy(m)
      BY <2>4, <2>5
    <3> QED
      BY <3>1, ServingBecomes
  <2>7. Executor!Take(l)
    BY <1>4, <2>1, <2>4, <2>6 DEF Executor!Take, Serving, TakeItem
  <2> QED
    BY <1>1, <2>7 DEF ExecutorStep, Executor!Next
<1> QED
  BY <1>3, <1>4

\* The worker's call: who waits for it, who is told that it runs.
LEMMA BodyExecutor ==
  ASSUME TypeOK, TokenInv, WorkInv, ServeInv, NEW w \in Worker, BeginItem(w) \/ EndBody(w)
  PROVE  ExecutorStep
<1>1. worker[w] \in AtWork /\ UNCHANGED <<items, sealed, watchers, call, inHand>>
  BY DEF BeginItem, EndBody, AtWork, laneVars
<1>2. PICK l \in Lane, i \in Submission :
        l = inHand[w][1] /\ i = inHand[w][2] /\ WorkerOf[l] = w /\ i # None
  BY <1>1, OwnHand, Constants
<1> DEFINE waiting == {s \in watchers[i] : future[s] = "pending"}
           active  == {s \in watchers[i] : future[s] = "running"}
<1>3. Serving[l] = i
  BY <1>1, <1>2 DEF Serving, ServedBy, AtWork
<1>4. \A v \in Worker \ {w} : worker'[v] = worker[v]
  BY DEF BeginItem, EndBody, WorkerTo, TypeOK
<1>5. \A m \in Lane \ {l} : ServedBy(m)' = ServedBy(m)
  <2> TAKE m \in Lane \ {l}
  <2>1. CASE WorkerOf[m] = w
    BY <1>1, <1>2, <2>1 DEF ServedBy
  <2>2. CASE WorkerOf[m] # w
    BY <1>1, <1>4, <2>2, Constants DEF ServedBy
  <2> QED
    BY <2>1, <2>2
<1>6. ASSUME worker'[w] = "finish" PROVE Serving' = [Serving EXCEPT ![l] = None]
  <2>1. \A m \in Lane : ServedBy(m)' = IF m = l THEN None ELSE ServedBy(m)
    BY <1>2, <1>5, <1>6 DEF ServedBy
  <2> QED
    BY <2>1, ServingBecomes
<1>7. ASSUME worker'[w] = "body" PROVE Serving' = Serving
  <2>1. ServedBy(l)' = ServedBy(l)
    BY <1>1, <1>2, <1>7 DEF ServedBy, AtWork
  <2> QED
    BY <1>5, <2>1, ServingSame
<1>8. Executor!MembersThat(l, "pending") = waiting /\ Executor!MembersThat(l, "running") = active
  BY <1>3 DEF Executor!MembersThat, Serving
<1>9. CASE BeginItem(w)
  <2>1. active = {}
    <3> SUFFICES ASSUME NEW s \in watchers[i], future[s] = "running" PROVE FALSE
      OBVIOUS
    <3>1. s \in Submission /\ completion[i] = "pending"
      BY <1>2, <1>9 DEF TypeOK, BeginItem, WorkInv, Hands, Watching
    <3>2. PICK j \in Submission : s \in watchers[j] /\ completion[j] = "running"
      BY <3>1 DEF WorkInv, Alive
    <3>3. j = i
      BY <1>2, <3>2 DEF ServeInv, Unshared
    <3> QED
      BY <3>1, <3>2, <3>3
  <2>2. /\ future' = [s \in Submission |-> IF s \in waiting THEN "running" ELSE future[s]]
        /\ worker'[w] = IF waiting = {} THEN "finish" ELSE "body"
        /\ UNCHANGED result
    BY <1>2, <1>9 DEF BeginItem, WorkerTo, TypeOK
  <2>3. Serving' = IF waiting = {} THEN [Serving EXCEPT ![l] = None] ELSE Serving
    BY <1>6, <1>7, <2>2
  <2> HIDE DEF waiting, active
  <2>4. Executor!Start(l)
    BY <1>1, <1>2, <1>3, <1>8, <2>1, <2>2, <2>3 DEF Executor!Start, Serving
  <2> QED
    BY <1>2, <2>4 DEF ExecutorStep, Executor!Next
<1>10. CASE EndBody(w)
  <2>1. active # {}
    BY <1>2, <1>10 DEF EndBody, ServeInv, Served
  <2>2. /\ future' = [s \in Submission |-> IF s \in active THEN "done" ELSE future[s]]
        /\ result' = [s \in Submission |-> IF s \in active THEN call[i] ELSE result[s]]
        /\ worker'[w] = "finish"
    BY <1>2, <1>10 DEF EndBody, WorkerTo, TypeOK
  <2>3. Serving' = [Serving EXCEPT ![l] = None]
    BY <1>6, <2>2
  <2> HIDE DEF active
  <2>4. Executor!End(l)
    BY <1>1, <1>2, <1>3, <1>8, <2>1, <2>2, <2>3 DEF Executor!End, Serving
  <2> QED
    BY <1>2, <2>4 DEF ExecutorStep, Executor!Next
<1> QED
  BY <1>9, <1>10
LEMMA CancelLaneExecutor ==
  ASSUME TypeOK, CancelLane
  PROVE  ExecutorStep
<1>1. PICK l \in Lane : l = Head(toClose)
  BY HeadTailProperties DEF CancelLane, TypeOK
<1>2. UNCHANGED <<worker, inHand, watchers, call, result>>
  BY DEF CancelLane, workerVars
<1>3. Serving' = Serving
  BY <1>2, ServingSame DEF ServedBy
<1>4. Executor!Drop(l)
  BY <1>1, <1>2, <1>3 DEF CancelLane, Executor!Drop, Executor!Waiting, Serving
<1> QED
  BY <1>4 DEF ExecutorStep, Executor!Next

LEMMA NextExecutor ==
  ASSUME IInv, ServeInv, [Next]_vars
  PROVE  ExecutorStep
<1> USE DEF laneVars, workVars, subVars, workerVars, closeVars
<1>0. TypeOK /\ TokenInv /\ WorkInv
  BY DEF IInv
<1>1. ASSUME NEW s \in Submission, SubmitStep(s) \/ CancelFuture(s) PROVE ExecutorStep
  BY <1>0, <1>1, SubmitExecutor
<1>2. ASSUME NEW w \in Worker, TakeToken(w) \/ Exit(w) \/ FinishItem(w) \/ Reschedule(w)
      PROVE  ExecutorStep
  <2>1. UNCHANGED <<items, sealed, watchers, call, future, result>>
    BY <1>2 DEF TakeToken, Exit, FinishItem, Reschedule
  <2>2. /\ worker[w] \notin AtWork /\ worker'[w] \notin AtWork
        /\ \A v \in Worker \ {w} : worker'[v] = worker[v] /\ inHand'[v] = inHand[v]
    BY <1>0, <1>2 DEF TakeToken, Exit, FinishItem, Reschedule, WorkerTo, TypeOK, AtWork
  <2> QED
    BY <1>0, <2>1, <2>2, ServingKeeps, SameExecutor
<1>3. ASSUME NEW w \in Worker, TakeItem(w) \/ BeginItem(w) \/ EndBody(w) PROVE ExecutorStep
  BY <1>0, <1>3, TakeItemExecutor, BodyExecutor
<1>4. ASSUME NEW l \in Lane, Seal(l) PROVE ExecutorStep
  <2>1. Serving' = Serving
    BY <1>4, ServingSame DEF Seal, ServedBy
  <2>2. Executor!Seal(l)
    BY <1>4, <2>1 DEF Seal, Executor!Seal, Serving
  <2> QED
    BY <2>2 DEF ExecutorStep, Executor!Next
<1>5. CASE CancelLane
  BY <1>0, <1>5, CancelLaneExecutor
<1>6. CASE BeginClose \/ LaneReturns \/ CloseFactory \/ JoinWorkers \/ UNCHANGED vars
  <2>1. UNCHANGED <<items, sealed, watchers, call, future, result, worker, inHand>>
    BY <1>6 DEF BeginClose, LaneReturns, CloseFactory, JoinWorkers, vars
  <2> QED
    BY <2>1, SameExecutor DEF ServedBy
<1> QED
  BY <1>1, <1>2, <1>3, <1>4, <1>5, <1>6 DEF Next, WorkerStep, CloseStep

\* Submitters, shared workers, permits and closes implement the serial executor: for
\* any lanes, workers and submissions the calls of a lane start in the order they were
\* accepted, one at a time and once each, and every watcher gets the outcome of the
\* newest call it shares.
THEOREM LanesImplementSerialExecutor == Spec => ImplementsSerialExecutor
<1>1. Init => Executor!Init
  <2> SUFFICES ASSUME Init PROVE Executor!Init
    OBVIOUS
  <2>1. \A l \in Lane : ServedBy(l) = None
    BY Constants DEF Init, ServedBy
  <2>2. Serving = [l \in Lane |-> None]
    BY <2>1 DEF Serving
  <2> QED
    BY <2>2 DEF Init, Executor!Init, Serving
<1>2. IInv /\ ServeInv /\ [Next]_vars => [Executor!Next]_(Executor!vars)
  BY NextExecutor DEF ExecutorStep
<1> QED
  BY <1>1, <1>2, ServeInvariance, PTL DEF Spec, ImplementsSerialExecutor, Executor!Spec
===========================================================================
