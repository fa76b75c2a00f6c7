-------------------------- MODULE AdmissionProofs --------------------------
(***************************************************************************)
(* Theorems about Admission for any requests, groups, tenants, resources,  *)
(* lanes and budgets.                                                      *)
(***************************************************************************)
EXTENDS Admission, FiniteSetTheorems, SequenceTheorems, WellFoundedInduction, TLAPS

\* The permits out at each level.
InGroup(g)    == {r \in Holders : GroupOf[r] = g}
InLane(l)     == {r \in Holders : LaneOf[r] = l}
OfTenant(t)   == {r \in Holders : t \in TenantsOf(r)}
OfResource(k) == {r \in Holders : k \in ResourcesOf(r)}

CounterType ==
  /\ inFlight \in Int /\ groups \in [Group -> Int] /\ tenants \in [Tenant -> Int]
  /\ resources \in [Keys -> Int] /\ lanes \in [Lane -> Int]
  /\ pc \in [Request -> {"idle", "waiting", "held", "releasing", "violation"}]

CountersInBudget ==
  /\ inFlight <= MaxTotal
  /\ \A g \in Group : groups[g] <= MaxGroup
  /\ \A l \in Lane : lanes[l] <= LaneLimit[l]
  /\ \A t \in Tenant : tenants[t] <= MaxTenant
  /\ \A k \in Keys : resources[k] <= MaxResource

IInv == CounterType /\ CountersMatchLeases /\ CountersInBudget

LEMMA HoldersFinite ==
  ASSUME NEW S, S \subseteq Holders
  PROVE  IsFiniteSet(S) /\ Cardinality(S) \in Nat
<1>1. S \subseteq Request
  BY DEF Holders
<1> QED
  BY <1>1, BudgetAssumption, FS_Subset, FS_CardinalityType DEF BudgetAssumption

LEMMA LaneLimitType == \A l \in Lane : LaneLimit[l] \in Int /\ LaneLimit[l] >= 0
<1> TAKE l \in Lane
<1>1. LaneLimit \in [Lane -> 1..MaxTotal] /\ MaxTotal \in Int
  BY BudgetAssumption DEF BudgetAssumption
<1>2. LaneLimit[l] \in 1..MaxTotal
  BY <1>1
<1> QED
  BY <1>1, <1>2

LEMMA InitIInv == Init => IInv
<1> SUFFICES ASSUME Init PROVE IInv
  OBVIOUS
<1>1. Holders = {}
  BY DEF Init, Holders
<1>2. CounterType
  BY DEF Init, CounterType
<1>3. CountersMatchLeases
  <2>1. Cardinality({}) = 0
    BY FS_EmptySet
  <2>2. /\ \A g \in Group : {r \in Holders : GroupOf[r] = g} = {}
        /\ \A l \in Lane : {r \in Holders : LaneOf[r] = l} = {}
        /\ \A t \in Tenant : {r \in Holders : t \in TenantsOf(r)} = {}
        /\ \A k \in Keys : {r \in Holders : k \in ResourcesOf(r)} = {}
    BY <1>1
  <2> QED
    BY <1>1, <2>1, <2>2 DEF Init, CountersMatchLeases
<1>4. CountersInBudget
  BY BudgetAssumption, LaneLimitType DEF Init, CountersInBudget, BudgetAssumption
<1> QED
  BY <1>2, <1>3, <1>4 DEF IInv

(***************************************************************************)
(* A step that moves no permit.                                            *)
(***************************************************************************)
LEMMA Steady ==
  ASSUME IInv, UNCHANGED counters, CounterType', Holders' = Holders
  PROVE  IInv'
<1>1. CountersMatchLeases'
  BY DEF IInv, CountersMatchLeases, counters
<1>2. CountersInBudget'
  BY DEF IInv, CountersInBudget, counters
<1> QED
  BY <1>1, <1>2 DEF IInv

LEMMA PcMoves ==
  ASSUME CounterType, NEW r \in Request,
         NEW w \in {"idle", "waiting", "held", "releasing", "violation"}, To(r, w)
  PROVE  /\ pc' \in [Request -> {"idle", "waiting", "held", "releasing", "violation"}]
         /\ Holders' = IF w \in {"held", "releasing"} THEN Holders \cup {r}
                       ELSE Holders \ {r}
  BY DEF CounterType, To, Holders

LEMMA SteadyMove ==
  ASSUME IInv, NEW r \in Request, UNCHANGED counters,
         NEW w \in {"idle", "waiting", "held", "releasing", "violation"}, To(r, w),
         pc[r] \in {"held", "releasing"} <=> w \in {"held", "releasing"}
  PROVE  IInv'
<1>1. CounterType'
  BY PcMoves DEF IInv, CounterType, counters
<1>2. Holders' = Holders
  BY PcMoves DEF IInv, Holders
<1> QED
  BY <1>1, <1>2, Steady

(***************************************************************************)
(* A permit goes out, and comes back.                                      *)
(***************************************************************************)
LEMMA CountType ==
  ASSUME CounterType, NEW r \in Request, NEW n \in Int, Count(r, n)
  PROVE  /\ inFlight' \in Int /\ groups' \in [Group -> Int] /\ tenants' \in [Tenant -> Int]
         /\ resources' \in [Keys -> Int] /\ lanes' \in [Lane -> Int]
  BY BudgetAssumption DEF CounterType, Count, BudgetAssumption

LEMMA PermitOut ==
  ASSUME IInv, NEW r \in Request, r \notin Holders, CanAdmit(r), Count(r, 1), To(r, "held")
  PROVE  IInv'
<1>1. Holders' = Holders \cup {r}
  BY PcMoves DEF IInv
<1>2. CounterType'
  BY CountType, PcMoves DEF IInv, CounterType
<1>3. \A S \in SUBSET Holders : Cardinality(S \cup {r}) = Cardinality(S) + 1
  <2> TAKE S \in SUBSET Holders
  <2> QED
    BY HoldersFinite, FS_AddElement
<1>4. inFlight' = Cardinality(Holders')
  BY <1>1, <1>3 DEF IInv, CountersMatchLeases, Count
<1>5. ASSUME NEW g \in Group PROVE groups'[g] = Cardinality(InGroup(g)')
  <2>1. CASE GroupOf[r] = g
    <3>1. InGroup(g)' = InGroup(g) \cup {r}
      BY <1>1, <2>1 DEF InGroup
    <3> QED
      BY <1>3, <2>1, <3>1 DEF InGroup, IInv, CountersMatchLeases, Count, CounterType
  <2>2. CASE GroupOf[r] # g
    <3>1. InGroup(g)' = InGroup(g)
      BY <1>1, <2>2 DEF InGroup
    <3> QED
      BY <2>2, <3>1 DEF InGroup, IInv, CountersMatchLeases, Count, CounterType
  <2> QED
    BY <2>1, <2>2
<1>6. ASSUME NEW l \in Lane PROVE lanes'[l] = Cardinality(InLane(l)')
  <2>1. CASE LaneOf[r] = l
    <3>1. InLane(l)' = InLane(l) \cup {r}
      BY <1>1, <2>1 DEF InLane
    <3> QED
      BY <1>3, <2>1, <3>1 DEF InLane, IInv, CountersMatchLeases, Count, CounterType
  <2>2. CASE LaneOf[r] # l
    <3>1. InLane(l)' = InLane(l)
      BY <1>1, <2>2 DEF InLane
    <3> QED
      BY <2>2, <3>1 DEF InLane, IInv, CountersMatchLeases, Count, CounterType
  <2> QED
    BY <2>1, <2>2
<1>7. ASSUME NEW t \in Tenant PROVE tenants'[t] = Cardinality(OfTenant(t)')
  <2>1. CASE t \in TenantsOf(r)
    <3>1. OfTenant(t)' = OfTenant(t) \cup {r}
      BY <1>1, <2>1 DEF OfTenant, TenantsOf
    <3> QED
      BY <1>3, <2>1, <3>1 DEF OfTenant, IInv, CountersMatchLeases, Count, CounterType
  <2>2. CASE t \notin TenantsOf(r)
    <3>1. OfTenant(t)' = OfTenant(t)
      BY <1>1, <2>2 DEF OfTenant, TenantsOf
    <3> QED
      BY <2>2, <3>1 DEF OfTenant, IInv, CountersMatchLeases, Count, CounterType
  <2> QED
    BY <2>1, <2>2
<1>8. ASSUME NEW k \in Keys PROVE resources'[k] = Cardinality(OfResource(k)')
  <2>1. CASE k \in ResourcesOf(r)
    <3>1. OfResource(k)' = OfResource(k) \cup {r}
      BY <1>1, <2>1 DEF OfResource, ResourcesOf
    <3> QED
      BY <1>3, <2>1, <3>1 DEF OfResource, IInv, CountersMatchLeases, Count, CounterType
  <2>2. CASE k \notin ResourcesOf(r)
    <3>1. OfResource(k)' = OfResource(k)
      BY <1>1, <2>2 DEF OfResource, ResourcesOf
    <3> QED
      BY <2>2, <3>1 DEF OfResource, IInv, CountersMatchLeases, Count, CounterType
  <2> QED
    BY <2>1, <2>2
<1>9. CountersMatchLeases'
  BY <1>4, <1>5, <1>6, <1>7, <1>8
  DEF CountersMatchLeases, InGroup, InLane, OfTenant, OfResource
<1>10. CountersInBudget'
  <2> USE BudgetAssumption DEF IInv, CounterType, CanAdmit, Count, BudgetAssumption
  <2>1. inFlight' <= MaxTotal
    OBVIOUS
  <2>2. \A g \in Group : groups'[g] <= MaxGroup
    BY DEF CountersInBudget
  <2>3. ASSUME NEW l \in Lane PROVE lanes'[l] <= LaneLimit[l]
    <3>1. LaneLimit[l] \in Int /\ lanes[l] \in Int /\ lanes[l] <= LaneLimit[l]
      BY LaneLimitType DEF CountersInBudget
    <3>2. CASE l = LaneOf[r]
      BY <3>1, <3>2
    <3>3. CASE l # LaneOf[r]
      BY <3>1, <3>3
    <3> QED
      BY <3>2, <3>3
  <2>4. \A t \in Tenant : tenants'[t] <= MaxTenant
    BY DEF CountersInBudget
  <2>5. \A k \in Keys : resources'[k] <= MaxResource
    BY DEF CountersInBudget
  <2> QED
    BY <2>1, <2>2, <2>3, <2>4, <2>5 DEF CountersInBudget
<1> QED
  BY <1>2, <1>9, <1>10 DEF IInv

LEMMA PermitBack ==
  ASSUME IInv, NEW r \in Request, r \in Holders, Count(r, -1), To(r, "idle")
  PROVE  IInv'
<1>1. Holders' = Holders \ {r}
  BY PcMoves DEF IInv
<1>2. CounterType'
  BY CountType, PcMoves DEF IInv, CounterType
<1>3. \A S \in SUBSET Holders : r \in S => Cardinality(S \ {r}) = Cardinality(S) - 1
  <2> TAKE S \in SUBSET Holders
  <2> QED
    BY HoldersFinite, FS_RemoveElement
<1>4. inFlight' = Cardinality(Holders')
  BY <1>1, <1>3 DEF IInv, CountersMatchLeases, Count
<1>5. ASSUME NEW g \in Group PROVE groups'[g] = Cardinality(InGroup(g)')
  <2>1. CASE GroupOf[r] = g
    <3>1. InGroup(g)' = InGroup(g) \ {r} /\ r \in InGroup(g)
      BY <1>1, <2>1 DEF InGroup
    <3> QED
      BY <1>3, <2>1, <3>1 DEF InGroup, IInv, CountersMatchLeases, Count, CounterType
  <2>2. CASE GroupOf[r] # g
    <3>1. InGroup(g)' = InGroup(g)
      BY <1>1, <2>2 DEF InGroup
    <3> QED
      BY <2>2, <3>1 DEF InGroup, IInv, CountersMatchLeases, Count, CounterType
  <2> QED
    BY <2>1, <2>2
<1>6. ASSUME NEW l \in Lane PROVE lanes'[l] = Cardinality(InLane(l)')
  <2>1. CASE LaneOf[r] = l
    <3>1. InLane(l)' = InLane(l) \ {r} /\ r \in InLane(l)
      BY <1>1, <2>1 DEF InLane
    <3> QED
      BY <1>3, <2>1, <3>1 DEF InLane, IInv, CountersMatchLeases, Count, CounterType
  <2>2. CASE LaneOf[r] # l
    <3>1. InLane(l)' = InLane(l)
      BY <1>1, <2>2 DEF InLane
    <3> QED
      BY <2>2, <3>1 DEF InLane, IInv, CountersMatchLeases, Count, CounterType
  <2> QED
    BY <2>1, <2>2
<1>7. ASSUME NEW t \in Tenant PROVE tenants'[t] = Cardinality(OfTenant(t)')
  <2>1. CASE t \in TenantsOf(r)
    <3>1. OfTenant(t)' = OfTenant(t) \ {r} /\ r \in OfTenant(t)
      BY <1>1, <2>1 DEF OfTenant, TenantsOf
    <3> QED
      BY <1>3, <2>1, <3>1 DEF OfTenant, IInv, CountersMatchLeases, Count, CounterType
  <2>2. CASE t \notin TenantsOf(r)
    <3>1. OfTenant(t)' = OfTenant(t)
      BY <1>1, <2>2 DEF OfTenant, TenantsOf
    <3> QED
      BY <2>2, <3>1 DEF OfTenant, IInv, CountersMatchLeases, Count, CounterType
  <2> QED
    BY <2>1, <2>2
<1>8. ASSUME NEW k \in Keys PROVE resources'[k] = Cardinality(OfResource(k)')
  <2>1. CASE k \in ResourcesOf(r)
    <3>1. OfResource(k)' = OfResource(k) \ {r} /\ r \in OfResource(k)
      BY <1>1, <2>1 DEF OfResource, ResourcesOf
    <3> QED
      BY <1>3, <2>1, <3>1 DEF OfResource, IInv, CountersMatchLeases, Count, CounterType
  <2>2. CASE k \notin ResourcesOf(r)
    <3>1. OfResource(k)' = OfResource(k)
      BY <1>1, <2>2 DEF OfResource, ResourcesOf
    <3> QED
      BY <2>2, <3>1 DEF OfResource, IInv, CountersMatchLeases, Count, CounterType
  <2> QED
    BY <2>1, <2>2
<1>9. CountersMatchLeases'
  BY <1>4, <1>5, <1>6, <1>7, <1>8
  DEF CountersMatchLeases, InGroup, InLane, OfTenant, OfResource
<1>10. CountersInBudget'
  <2> USE BudgetAssumption DEF IInv, CounterType, Count, BudgetAssumption
  <2>1. inFlight' <= MaxTotal
    BY DEF CountersInBudget
  <2>2. \A g \in Group : groups'[g] <= MaxGroup
    BY DEF CountersInBudget
  <2>3. ASSUME NEW l \in Lane PROVE lanes'[l] <= LaneLimit[l]
    <3>1. LaneLimit[l] \in Int /\ lanes[l] \in Int /\ lanes[l] <= LaneLimit[l]
      BY LaneLimitType DEF CountersInBudget
    <3>2. lanes'[l] = lanes[l] \/ lanes'[l] = lanes[l] - 1
      BY <3>1
    <3> QED
      BY <3>1, <3>2
  <2>4. \A t \in Tenant : tenants'[t] <= MaxTenant
    BY DEF CountersInBudget
  <2>5. \A k \in Keys : resources'[k] <= MaxResource
    BY DEF CountersInBudget
  <2> QED
    BY <2>1, <2>2, <2>3, <2>4, <2>5 DEF CountersInBudget
<1> QED
  BY <1>2, <1>9, <1>10 DEF IInv

(***************************************************************************)
(* Every step.                                                             *)
(***************************************************************************)
LEMMA GrantKeeps ==
  ASSUME IInv, NEW r \in Request, r \notin Holders, Grant(r)
  PROVE  IInv'
<1>1. CASE CanAdmit(r)
  BY <1>1, PermitOut DEF Grant
<1>2. CASE ~CanAdmit(r)
  BY <1>2, SteadyMove DEF Grant, Holders
<1> QED
  BY <1>1, <1>2

\* A permit that is out counts at every level, so it can be given back.
LEMMA HolderReleasable ==
  ASSUME IInv, NEW r \in Holders
  PROVE  Releasable(r)
<1>0. r \in Request /\ r \in Holders
  BY DEF Holders
<1>1. \A S \in SUBSET Holders : r \in S => Cardinality(S) > 0
  <2> TAKE S \in SUBSET Holders
  <2> QED
    BY HoldersFinite, FS_EmptySet
<1>2. inFlight > 0
  BY <1>0, <1>1 DEF IInv, CountersMatchLeases
<1>3. groups[GroupOf[r]] > 0
  <2>1. GroupOf[r] \in Group /\ r \in InGroup(GroupOf[r])
    BY <1>0, BudgetAssumption DEF BudgetAssumption, InGroup
  <2>2. groups[GroupOf[r]] = Cardinality(InGroup(GroupOf[r]))
    BY <2>1 DEF IInv, CountersMatchLeases, InGroup
  <2> QED
    BY <1>1, <2>1, <2>2 DEF InGroup
<1>4. lanes[LaneOf[r]] > 0
  <2>1. LaneOf[r] \in Lane /\ r \in InLane(LaneOf[r])
    BY <1>0, BudgetAssumption DEF BudgetAssumption, InLane
  <2>2. lanes[LaneOf[r]] = Cardinality(InLane(LaneOf[r]))
    BY <2>1 DEF IInv, CountersMatchLeases, InLane
  <2> QED
    BY <1>1, <2>1, <2>2 DEF InLane
<1>5. ASSUME NEW t \in TenantsOf(r) PROVE tenants[t] > 0
  <2>1. t \in Tenant
    BY <1>0, BudgetAssumption DEF TenantsOf, BudgetAssumption
  <2> QED
    BY <1>0, <1>1, <2>1 DEF IInv, CountersMatchLeases
<1>6. ASSUME NEW k \in ResourcesOf(r) PROVE resources[k] > 0
  <2>1. k \in Keys
    BY <1>0, BudgetAssumption DEF ResourcesOf, Keys, BudgetAssumption
  <2> QED
    BY <1>0, <1>1, <2>1 DEF IInv, CountersMatchLeases
<1> QED
  BY <1>2, <1>3, <1>4, <1>5, <1>6 DEF Releasable

LEMMA RequestKeeps ==
  ASSUME IInv, NEW r \in Request, RequestStep(r)
  PROVE  IInv'
<1> USE DEF Leave
<1>1. CASE AcquireOrReject(r)
  <2>1. r \notin Holders
    BY <1>1 DEF AcquireOrReject, MayAcquire, Holders
  <2>2. CASE Grant(r)
    BY <2>1, <2>2, GrantKeeps
  <2>3. CASE UNCHANGED <<counters, pc>>
    BY <2>3, Steady DEF IInv, CounterType, counters, Holders
  <2> QED
    BY <1>1, <2>2, <2>3 DEF AcquireOrReject
<1>2. CASE AcquireOrWait(r)
  <2>1. r \notin Holders
    BY <1>2 DEF AcquireOrWait, MayAcquire, Holders
  <2>2. CASE Grant(r)
    BY <2>1, <2>2, GrantKeeps
  <2>3. CASE To(r, "waiting") /\ UNCHANGED counters
    BY <2>1, <2>3, SteadyMove DEF Holders
  <2> QED
    BY <1>2, <2>2, <2>3 DEF AcquireOrWait
<1>3. CASE Poll(r)
  <2>1. r \notin Holders
    BY <1>3 DEF Poll, Holders
  <2>2. CASE Grant(r)
    BY <2>1, <2>2, GrantKeeps
  <2>3. CASE UNCHANGED <<counters, pc>>
    BY <2>3, Steady DEF IInv, CounterType, counters, Holders
  <2> QED
    BY <1>3, <2>2, <2>3 DEF Poll
<1>4. CASE GiveUp(r)
  BY <1>4, SteadyMove DEF GiveUp
<1>5. CASE MarkReleased(r)
  BY <1>5, SteadyMove DEF MarkReleased
<1>6. CASE Release(r)
  <2>1. r \in Holders
    BY <1>6 DEF Release, Holders
  <2>2. Releasable(r)
    BY <2>1, HolderReleasable
  <2> QED
    BY <1>6, <2>1, <2>2, PermitBack DEF Release
<1>7. CASE Stop(r) \/ AgePasses(r)
  BY <1>7, Steady DEF Stop, AgePasses, IInv, CounterType, counters, Holders
<1> QED
  BY <1>1, <1>2, <1>3, <1>4, <1>5, <1>6, <1>7 DEF RequestStep

LEMMA NextIInv == IInv /\ [Next]_vars => IInv'
<1> SUFFICES ASSUME IInv, [Next]_vars PROVE IInv'
  OBVIOUS
<1>1. ASSUME NEW r \in Request, RequestStep(r) PROVE IInv'
  BY <1>1, RequestKeeps
<1>2. CASE UNCHANGED <<counters, pc>>
  BY <1>2, Steady DEF IInv, CounterType, counters, Holders
<1> QED
  BY <1>1, <1>2 DEF Next, RegisterGroup, Close, BucketPasses, vars

LEMMA Invariance == Spec => []IInv
  BY InitIInv, NextIInv, PTL DEF Spec

(***************************************************************************)
(* The theorems about the permits.                                         *)
(***************************************************************************)

\* Each counter of the authority equals the number of permits really out at its
\* level, whatever mix of grants, rejections, timeouts, cancellations, releases
\* and close happened; so _release never meets an accounting underflow.
THEOREM AccountingIsExact == Spec => []CountersMatchLeases
<1>1. IInv => CountersMatchLeases
  BY DEF IInv
<1> QED
  BY <1>1, Invariance, PTL

\* The permits out never exceed the total, group, lane, tenant and resource
\* limits, for every budget that AdmissionBudget accepts.
THEOREM BudgetIsKept == Spec => []WithinBudget
<1>1. IInv => WithinBudget
  BY DEF IInv, CountersMatchLeases, CountersInBudget, WithinBudget
<1> QED
  BY <1>1, Invariance, PTL

(***************************************************************************)
(* The queue of waiters.                                                   *)
(***************************************************************************)
NoDup(q) == \A j, k \in 1..Len(q) : q[j] = q[k] => j = k

LEMMA InPosition ==
  ASSUME NEW q, NEW x \in InQueue(q)
  PROVE  Position(q, x) \in 1..Len(q) /\ q[Position(q, x)] = x
<1>1. \E i \in 1..Len(q) : q[i] = x
  BY DEF InQueue
<1> QED
  BY <1>1, Zenon DEF Position

LEMMA PositionOf ==
  ASSUME NEW q, NoDup(q), NEW k \in 1..Len(q)
  PROVE  q[k] \in InQueue(q) /\ Position(q, q[k]) = k
<1>1. q[k] \in InQueue(q)
  BY DEF InQueue
<1>2. Position(q, q[k]) \in 1..Len(q) /\ q[Position(q, q[k])] = q[k]
  BY <1>1, InPosition
<1> QED
  BY <1>1, <1>2 DEF NoDup

LEMMA QueueElements ==
  ASSUME NEW S, NEW q \in Seq(S)
  PROVE  Len(q) \in Nat /\ InQueue(q) \subseteq S
  BY ElementOfSeq, LenProperties DEF InQueue

\* A new ticket goes to the end.
LEMMA AppendQueue ==
  ASSUME NEW S, NEW q \in Seq(S), NEW x \in S, NoDup(q), x \notin InQueue(q)
  PROVE  LET p == Append(q, x) IN
         /\ p \in Seq(S) /\ NoDup(p) /\ InQueue(p) = InQueue(q) \cup {x}
         /\ Position(p, x) = Len(q) + 1
         /\ \A w \in InQueue(q) : Position(p, w) = Position(q, w)
<1> DEFINE p == Append(q, x)
<1>1. /\ Len(q) \in Nat /\ Len(p) = Len(q) + 1 /\ p \in Seq(S)
      /\ \A i \in 1..Len(q) : p[i] = q[i]
      /\ p[Len(q) + 1] = x
  BY AppendProperties, LenProperties
<1> HIDE DEF p
<1>2. \A i \in 1..Len(q) : q[i] # x
  BY DEF InQueue
<1>3. NoDup(p)
  BY <1>1, <1>2 DEF NoDup
<1>4. InQueue(p) = InQueue(q) \cup {x}
  <2>1. \A i \in 1..Len(p) : i \in 1..Len(q) \/ i = Len(q) + 1
    BY <1>1
  <2>2. \A i \in 1..Len(q) : i \in 1..Len(p)
    BY <1>1
  <2>3. Len(q) + 1 \in 1..Len(p)
    BY <1>1
  <2> QED
    BY <1>1, <2>1, <2>2, <2>3 DEF InQueue
<1>5. Position(p, x) = Len(q) + 1
  <2>1. Len(q) + 1 \in 1..Len(p)
    BY <1>1
  <2> QED
    BY <1>1, <1>3, <2>1, PositionOf
<1>6. ASSUME NEW w \in InQueue(q) PROVE Position(p, w) = Position(q, w)
  <2>1. Position(q, w) \in 1..Len(q) /\ q[Position(q, w)] = w
    BY InPosition
  <2>2. Position(q, w) \in 1..Len(p) /\ p[Position(q, w)] = w
    BY <1>1, <2>1
  <2> QED
    BY <1>3, <2>2, PositionOf
<1> QED
  BY <1>1, <1>3, <1>4, <1>5, <1>6 DEF p

\* Where an element of the shorter queue was.
Was(q, x, i) == IF i < Position(q, x) THEN i ELSE i + 1

LEMMA WithoutElements ==
  ASSUME NEW S, NEW q \in Seq(S), NEW x \in InQueue(q)
  PROVE  LET p == Without(q, x) IN
         /\ p \in Seq(S) /\ Len(p) = Len(q) - 1
         /\ \A i \in 1..Len(p) : /\ Was(q, x, i) \in 1..Len(q) \ {Position(q, x)}
                                 /\ p[i] = q[Was(q, x, i)]
         /\ \A i, j \in 1..Len(p) : i < j => Was(q, x, i) < Was(q, x, j)
         /\ \A k \in 1..Len(q) \ {Position(q, x)} : \E i \in 1..Len(p) : Was(q, x, i) = k
<1> DEFINE p == Without(q, x)  n == Len(q) - 1
<1>1. Position(q, x) \in 1..Len(q) /\ Len(q) \in Nat
  BY InPosition, QueueElements
<1>2. p = [i \in 1..n |-> IF i < Position(q, x) THEN q[i] ELSE q[i + 1]]
  BY DEF Without
<1>3. n \in Nat /\ \A i \in 1..n : /\ Was(q, x, i) \in 1..Len(q) \ {Position(q, x)}
                                   /\ p[i] = q[Was(q, x, i)]
  BY <1>1, <1>2 DEF Was
<1>4. p \in Seq(S) /\ Len(p) = n
  <2>1. p = [i \in 1..n |-> q[Was(q, x, i)]]
    BY <1>2 DEF Was
  <2>2. \A i \in 1..n : q[Was(q, x, i)] \in S
    BY <1>3, ElementOfSeq
  <2>3. p \in [1..n -> S]
    BY <2>1, <2>2
  <2>4. p \in Seq(S)
    BY <1>3, <2>3
  <2> QED
    BY <1>3, <2>3, <2>4, LenProperties
<1>5. \A i, j \in 1..n : i < j => Was(q, x, i) < Was(q, x, j)
  BY <1>1 DEF Was
<1>6. ASSUME NEW k \in 1..Len(q) \ {Position(q, x)} PROVE \E i \in 1..n : Was(q, x, i) = k
  <2>1. CASE k < Position(q, x)
    BY <1>1, <2>1 DEF Was
  <2>2. CASE k > Position(q, x)
    <3>1. k - 1 \in 1..n /\ Was(q, x, k - 1) = k
      BY <1>1, <2>2 DEF Was
    <3> QED
      BY <3>1
  <2> QED
    BY <1>1, <2>1, <2>2
<1> HIDE DEF p
<1> QED
  BY <1>3, <1>4, <1>5, <1>6 DEF p

LEMMA WithoutQueue ==
  ASSUME NEW S, NEW q \in Seq(S), NEW x \in InQueue(q), NoDup(q)
  PROVE  NoDup(Without(q, x)) /\ InQueue(Without(q, x)) = InQueue(q) \ {x}
<1> DEFINE p == Without(q, x)
<1>1. /\ Len(p) \in Nat
      /\ \A i \in 1..Len(p) : /\ Was(q, x, i) \in 1..Len(q) \ {Position(q, x)}
                              /\ p[i] = q[Was(q, x, i)]
      /\ \A i, j \in 1..Len(p) : i < j => Was(q, x, i) < Was(q, x, j)
      /\ \A k \in 1..Len(q) \ {Position(q, x)} : \E i \in 1..Len(p) : Was(q, x, i) = k
  BY WithoutElements, LenProperties
<1>2. Position(q, x) \in 1..Len(q) /\ q[Position(q, x)] = x /\ Len(q) \in Nat
  BY InPosition, LenProperties
<1> HIDE DEF p
<1>3. NoDup(p)
  <2> SUFFICES ASSUME NEW i \in 1..Len(p), NEW j \in 1..Len(p), p[i] = p[j] PROVE i = j
    BY DEF NoDup
  <2>1. Was(q, x, i) = Was(q, x, j)
    BY <1>1 DEF NoDup
  <2>2. Was(q, x, i) \in Nat
    BY <1>1, <1>2
  <2> QED
    BY <1>1, <2>1, <2>2
<1>4. ASSUME NEW y \in InQueue(p) PROVE y \in InQueue(q) \ {x}
  <2>1. PICK i \in 1..Len(p) : p[i] = y
    BY DEF InQueue
  <2>2. Was(q, x, i) \in 1..Len(q) \ {Position(q, x)} /\ q[Was(q, x, i)] = y
    BY <1>1, <2>1
  <2>3. y # x
    BY <1>2, <2>2 DEF NoDup
  <2> QED
    BY <2>2, <2>3 DEF InQueue
<1>5. ASSUME NEW y \in InQueue(q) \ {x} PROVE y \in InQueue(p)
  <2>1. PICK k \in 1..Len(q) : q[k] = y
    BY DEF InQueue
  <2>2. PICK i \in 1..Len(p) : Was(q, x, i) = k
    BY <1>1, <1>2, <2>1
  <2>3. p[i] = y
    BY <1>1, <2>1, <2>2
  <2> QED
    BY <2>3 DEF InQueue
<1> QED
  BY <1>3, <1>4, <1>5 DEF p

(***************************************************************************)
(* The choice among the waiters.                                           *)
(***************************************************************************)
LEMMA LeastValue ==
  ASSUME NEW S, S # {}, NEW f \in [S -> Nat]
  PROVE  \E x \in S : \A y \in S : f[x] <= f[y]
<1> DEFINE T == {f[x] : x \in S}
<1>1. T \subseteq Nat /\ T # {}
  OBVIOUS
<1> DEFINE Less == {ss \in Nat \X Nat : ss[1] < ss[2]}
<1>2. IsWellFoundedOn(Less, Nat)
  BY NatLessThanWellFounded DEF OpToRel
<1>3. PICK m \in T : \A n \in T : ~ (<<n, m>> \in Less)
  <2> HIDE DEF T, Less
  <2> QED
    BY <1>1, <1>2, WFMin
<1>4. ASSUME NEW n \in T PROVE m <= n
  <2>1. m \in Nat /\ n \in Nat
    BY <1>1
  <2>2. <<n, m>> \notin Less
    BY <1>3
  <2> HIDE DEF T
  <2>3. ~(n < m)
    BY <2>1, <2>2
  <2> QED
    BY <2>1, <2>3
<1> QED
  BY <1>4

\* Of two waiters of one group, the older ticket has waited at least as long.
InTurn(q) == \A j, k \in 1..Len(q) :
  j < k /\ GroupOf[q[j]] = GroupOf[q[k]] => age[q[j]] >= age[q[k]]

Like(r, s) == GroupOf[r] = GroupOf[s] /\ LaneOf[r] = LaneOf[s]

\* What a selection may be, also a cached one: nobody, when no waiter is admissible;
\* or an admissible waiter that goes past no older ticket of its group and lane.
Good(q, x) ==
  IF x = None THEN Eligible(q) = {}
  ELSE /\ x \in Eligible(q)
       /\ \A s \in Eligible(q) : Like(x, s) => Position(q, x) <= Position(q, s)

LEMMA RankType ==
  ASSUME NEW r \in Request, age \in [Request -> Nat]
  PROVE  /\ GroupOf[r] \in Group /\ RankOf[GroupOf[r]] \in 0..3
         /\ age[r] \in Nat /\ EffectiveRank(r) \in Nat
<1>1. GroupOf[r] \in Group /\ RankOf[GroupOf[r]] \in 0..3 /\ age[r] \in Nat
  BY BudgetAssumption DEF BudgetAssumption
<1> QED
  BY <1>1 DEF EffectiveRank

LEMMA LastGrantType ==
  ASSUME NEW r, lastGrant \in Seq(Group)
  PROVE  LastGrant(r) + 1 \in Nat /\ LastGrant(r) \in Int
<1>1. Len(lastGrant) \in Nat
  BY LenProperties
<1>2. CASE GroupOf[r] \in InQueue(lastGrant)
  <2>1. Position(lastGrant, GroupOf[r]) \in 1..Len(lastGrant)
    BY <1>2, InPosition
  <2> QED
    BY <1>1, <1>2, <2>1 DEF LastGrant
<1>3. CASE GroupOf[r] \notin InQueue(lastGrant)
  BY <1>3 DEF LastGrant
<1> QED
  BY <1>2, <1>3

\* The policy's order has a least element among the admissible waiters: rank by
\* rank, then by the turn of the groups, then by ticket.
LEMMA FirstInOrder ==
  ASSUME NEW q \in Seq(Request), age \in [Request -> Nat], lastGrant \in Seq(Group),
         Eligible(q) # {}
  PROVE  \E r \in Eligible(q) : \A s \in Eligible(q) : Before(q, r, s)
<1>1. Eligible(q) \subseteq Request /\ Eligible(q) \subseteq InQueue(q) /\ Len(q) \in Nat
  BY QueueElements DEF Eligible
<1>2. PICK x \in Eligible(q) : \A s \in Eligible(q) : EffectiveRank(x) <= EffectiveRank(s)
  <2> DEFINE f == [r \in Eligible(q) |-> EffectiveRank(r)]
  <2>1. f \in [Eligible(q) -> Nat]
    BY <1>1, RankType
  <2>2. \E r \in Eligible(q) : \A s \in Eligible(q) : f[r] <= f[s]
    BY <2>1, LeastValue
  <2> QED
    BY <2>2
<1> DEFINE T == {r \in Eligible(q) : EffectiveRank(r) = EffectiveRank(x)}
<1>3. PICK y \in T : \A s \in T : LastGrant(y) <= LastGrant(s)
  <2> DEFINE f == [r \in T |-> LastGrant(r) + 1]
  <2>1. f \in [T -> Nat] /\ T # {}
    BY LastGrantType
  <2> HIDE DEF T
  <2>2. \E r \in T : \A s \in T : f[r] <= f[s]
    BY <2>1, LeastValue
  <2>3. PICK y \in T : \A s \in T : f[y] <= f[s]
    BY <2>2
  <2>4. \A s \in T : LastGrant(y) <= LastGrant(s)
    <3> TAKE s \in T
    <3>1. LastGrant(y) + 1 <= LastGrant(s) + 1 /\ LastGrant(y) \in Int /\ LastGrant(s) \in Int
      BY <2>3, LastGrantType
    <3> QED
      BY <3>1
  <2> QED
    BY <2>4
<1> DEFINE U == {r \in T : LastGrant(r) = LastGrant(y)}
<1>4. PICK z \in U : \A s \in U : Position(q, z) <= Position(q, s)
  <2> DEFINE f == [r \in U |-> Position(q, r)]
  <2>1. f \in [U -> Nat] /\ U # {}
    BY <1>1, InPosition
  <2> HIDE DEF U
  <2>2. \E r \in U : \A s \in U : f[r] <= f[s]
    BY <2>1, LeastValue
  <2> QED
    BY <2>2
<1>5. ASSUME NEW s \in Eligible(q) PROVE Before(q, z, s)
  <2>1. /\ EffectiveRank(z) \in Nat /\ EffectiveRank(s) \in Nat
        /\ LastGrant(z) \in Int /\ LastGrant(s) \in Int
    BY <1>1, RankType, LastGrantType
  <2>2. EffectiveRank(z) = EffectiveRank(x) /\ EffectiveRank(x) <= EffectiveRank(s)
    BY <1>2
  <2>3. s \in T => LastGrant(z) <= LastGrant(s)
    BY <1>3
  <2>4. s \in U => Position(q, z) <= Position(q, s)
    BY <1>4
  <2> QED
    BY <2>1, <2>2, <2>3, <2>4 DEF Before
<1> QED
  BY <1>5

LEMMA SelectIsGood ==
  ASSUME NEW q \in Seq(Request), NoDup(q), InTurn(q),
         age \in [Request -> Nat], lastGrant \in Seq(Group)
  PROVE  Good(q, Select(q)) /\ Select(q) \in Request \cup {None}
<1>1. Eligible(q) \subseteq Request /\ Eligible(q) \subseteq InQueue(q) /\ Len(q) \in Nat
  BY QueueElements DEF Eligible
<1>2. CASE Eligible(q) = {}
  BY <1>2 DEF Select, Good
<1>3. CASE Eligible(q) # {}
  <2> DEFINE r == Select(q)
  <2>1. \E x \in Eligible(q) : \A s \in Eligible(q) : Before(q, x, s)
    BY <1>3, FirstInOrder
  <2>2. r \in Eligible(q) /\ \A s \in Eligible(q) : Before(q, r, s)
    BY <1>3, <2>1, Zenon DEF Select
  <2>3. r \in Request /\ r # None
    BY <1>1, <2>2, BudgetAssumption DEF BudgetAssumption
  <2> HIDE DEF r
  <2>4. ASSUME NEW s \in Eligible(q), Like(r, s), Position(q, s) < Position(q, r) PROVE FALSE
    <3>1. /\ Position(q, r) \in 1..Len(q) /\ q[Position(q, r)] = r
          /\ Position(q, s) \in 1..Len(q) /\ q[Position(q, s)] = s
      BY <1>1, <2>2, InPosition
    <3>2. age[s] >= age[r]
      BY <2>4, <3>1 DEF InTurn, Like
    <3>3. EffectiveRank(s) <= EffectiveRank(r)
      <4>1. /\ RankOf[GroupOf[r]] \in 0..3 /\ age[r] \in Nat /\ age[s] \in Nat
            /\ RankOf[GroupOf[s]] = RankOf[GroupOf[r]]
        BY <1>1, <2>3, <2>4, RankType DEF Like
      <4> QED
        BY <3>2, <4>1 DEF EffectiveRank
    <3>4. LastGrant(s) = LastGrant(r)
      BY <2>4 DEF LastGrant, Like
    <3>5. /\ EffectiveRank(s) \in Nat /\ EffectiveRank(r) \in Nat
          /\ LastGrant(r) \in Int
      BY <1>1, <2>3, RankType, LastGrantType
    <3>6. Before(q, r, s)
      BY <2>2
    <3> QED
      BY <1>1, <2>4, <3>1, <3>3, <3>4, <3>5, <3>6 DEF Before
  <2>5. \A s \in Eligible(q) : Like(r, s) => Position(q, r) <= Position(q, s)
    <3> TAKE s \in Eligible(q)
    <3>1. Position(q, r) \in 1..Len(q) /\ Position(q, s) \in 1..Len(q)
      BY <1>1, <2>2, InPosition
    <3> QED
      BY <1>1, <2>4, <3>1
  <2> QED
    BY <2>2, <2>3, <2>5 DEF Good, r
<1> QED
  BY <1>2, <1>3

(***************************************************************************)
(* The invariant of the queue and of the cached selection.                 *)
(***************************************************************************)
QueueType ==
  /\ registered \subseteq Group /\ closed \in BOOLEAN
  /\ waiters \in Seq(Request) /\ age \in [Request -> Nat]
  /\ lastGrant \in Seq(Group) /\ cache \in Request \cup {None, Stale}
  /\ stopped \subseteq Request
  /\ pc \in [Request -> {"idle", "waiting", "held", "releasing"}]

Queued ==
  /\ NoDup(waiters) /\ InTurn(waiters)
  /\ \A r \in Request : /\ r \in InQueue(waiters) <=> pc[r] = "waiting"
                        /\ pc[r] = "waiting" => GroupOf[r] \notin Rejecting
                        /\ pc[r] # "waiting" => age[r] = 0

Cached == cache # Stale => Good(waiters, cache)

QueueInv == QueueType /\ Queued /\ Cached

LEMMA SelectedIsGood ==
  ASSUME QueueInv
  PROVE  Good(waiters, Selected) /\ Selected \in Request \cup {None}
  BY SelectIsGood DEF QueueInv, QueueType, Queued, Cached, Selected

LEMMA GoodIsAdmissible ==
  ASSUME NEW q, NEW r \in Request, Good(q, r)
  PROVE  CanAdmit(r)
<1>1. r # None
  BY BudgetAssumption DEF BudgetAssumption
<1> QED
  BY <1>1 DEF Good, Eligible

\* A selection stays what it is while no permit moves.
LEMMA CachedHolds ==
  ASSUME UNCHANGED counters, cache' = Stale \/ Good(waiters', cache')
  PROVE  Cached'
<1>1. \A r : CanAdmit(r)' = CanAdmit(r)
  BY DEF counters, CanAdmit
<1>2. Eligible(waiters)' = Eligible(waiters')
  BY <1>1 DEF Eligible
<1> QED
  BY <1>2 DEF Cached, Good, Like

LEMMA QueueStays ==
  ASSUME Queued, UNCHANGED <<waiters, age, pc>>
  PROVE  Queued'
  BY DEF Queued, InTurn

LEMMA ToType ==
  ASSUME QueueType, NEW r \in Request, NEW w \in {"idle", "waiting", "held", "releasing"},
         To(r, w)
  PROVE  /\ pc' \in [Request -> {"idle", "waiting", "held", "releasing"}]
         /\ pc'[r] = w /\ \A s \in Request \ {r} : pc'[s] = pc[s]
  BY DEF QueueType, To

\* A permit that goes out to an admissible request.
LEMMA GrantType ==
  ASSUME QueueType, NEW r \in Request, CanAdmit(r), Grant(r)
  PROVE  /\ To(r, "held") /\ cache' = Stale /\ lastGrant' \in Seq(Group)
<1>1. /\ To(r, "held") /\ cache' = Stale
      /\ lastGrant' = Append(Without(lastGrant, GroupOf[r]), GroupOf[r])
  BY DEF Grant
<1>2. lastGrant \in Seq(Group) /\ GroupOf[r] \in Group
  BY BudgetAssumption DEF BudgetAssumption, QueueType
<1>3. Without(lastGrant, GroupOf[r]) \in Seq(Group)
  <2>1. CASE GroupOf[r] \in InQueue(lastGrant)
    BY <1>2, <2>1, WithoutElements
  <2>2. CASE GroupOf[r] \notin InQueue(lastGrant)
    BY <1>2, <2>2 DEF Without
  <2> QED
    BY <2>1, <2>2
<1> QED
  BY <1>1, <1>2, <1>3, AppendProperties

\* A waiter takes its ticket out of the queue.
LEMMA LeaveQueueKeeps ==
  ASSUME QueueType, Queued, NEW r \in Request, pc[r] = "waiting", LeaveQueue(r),
         NEW w \in {"idle", "held"}, To(r, w)
  PROVE  waiters' \in Seq(Request) /\ age' \in [Request -> Nat] /\ Queued'
<1>1. /\ waiters \in Seq(Request) /\ NoDup(waiters) /\ r \in InQueue(waiters)
      /\ waiters' = Without(waiters, r)
  BY DEF QueueType, Queued, LeaveQueue
<1>2. /\ waiters' \in Seq(Request) /\ Len(waiters') \in Nat
      /\ \A i \in 1..Len(waiters') :
           /\ Was(waiters, r, i) \in 1..Len(waiters) \ {Position(waiters, r)}
           /\ waiters'[i] = waiters[Was(waiters, r, i)]
      /\ \A i, j \in 1..Len(waiters') : i < j => Was(waiters, r, i) < Was(waiters, r, j)
  BY <1>1, WithoutElements, LenProperties
<1>3. NoDup(waiters') /\ InQueue(waiters') = InQueue(waiters) \ {r}
  BY <1>1, WithoutQueue
<1>4. /\ age' \in [Request -> Nat] /\ age'[r] = 0
      /\ \A s \in Request \ {r} : age'[s] = age[s]
  BY DEF QueueType, LeaveQueue
<1>5. pc'[r] = w /\ \A s \in Request \ {r} : pc'[s] = pc[s]
  BY ToType
<1>6. InTurn(waiters)'
  <2> SUFFICES ASSUME NEW j \in 1..Len(waiters'), NEW k \in 1..Len(waiters'), j < k,
                      GroupOf[waiters'[j]] = GroupOf[waiters'[k]]
               PROVE  age'[waiters'[j]] >= age'[waiters'[k]]
    BY DEF InTurn
  <2>1. waiters'[j] \in Request \ {r} /\ waiters'[k] \in Request \ {r}
    <3>1. \A i \in 1..Len(waiters') : waiters'[i] \in InQueue(waiters')
      BY DEF InQueue
    <3> QED
      BY <1>1, <1>3, <3>1, QueueElements
  <2>2. age[waiters'[j]] >= age[waiters'[k]]
    <3>1. /\ Was(waiters, r, j) \in 1..Len(waiters) /\ Was(waiters, r, k) \in 1..Len(waiters)
          /\ Was(waiters, r, j) < Was(waiters, r, k)
      BY <1>2
    <3> QED
      BY <1>2, <3>1 DEF Queued, InTurn
  <2> QED
    BY <1>4, <2>1, <2>2
<1>7. \A s \in Request : /\ s \in InQueue(waiters') <=> pc'[s] = "waiting"
                         /\ pc'[s] = "waiting" => GroupOf[s] \notin Rejecting
                         /\ pc'[s] # "waiting" => age'[s] = 0
  <2> TAKE s \in Request
  <2>1. CASE s = r
    BY <1>3, <1>4, <1>5, <2>1
  <2>2. CASE s # r
    BY <1>3, <1>4, <1>5, <2>2 DEF Queued
  <2> QED
    BY <2>1, <2>2
<1>8. NoDup(waiters)'
  BY <1>3 DEF NoDup
<1>9. InQueue(waiters)' = InQueue(waiters')
  BY DEF InQueue
<1> QED
  BY <1>2, <1>4, <1>6, <1>7, <1>8, <1>9 DEF Queued

\* The queue as AcquireOrWait looks at it.
LEMMA JoinedQueue ==
  ASSUME QueueType, Queued, NEW r \in Request, pc[r] = "idle"
  PROVE  LET q == Append(waiters, r) IN
         /\ q \in Seq(Request) /\ NoDup(q) /\ InTurn(q) /\ InQueue(q) = InQueue(waiters) \cup {r}
         /\ Position(q, r) = Len(waiters) + 1
         /\ \A w \in InQueue(waiters) : Position(q, w) = Position(waiters, w)
<1> DEFINE q == Append(waiters, r)
<1>1. /\ waiters \in Seq(Request) /\ NoDup(waiters) /\ r \notin InQueue(waiters)
      /\ age \in [Request -> Nat] /\ age[r] = 0 /\ Len(waiters) \in Nat
  BY LenProperties DEF QueueType, Queued
<1>2. /\ q \in Seq(Request) /\ NoDup(q) /\ InQueue(q) = InQueue(waiters) \cup {r}
      /\ Position(q, r) = Len(waiters) + 1
      /\ \A w \in InQueue(waiters) : Position(q, w) = Position(waiters, w)
  BY <1>1, AppendQueue
<1>3. /\ Len(q) = Len(waiters) + 1 /\ q[Len(waiters) + 1] = r
      /\ \A i \in 1..Len(waiters) : q[i] = waiters[i] /\ waiters[i] \in Request
  BY <1>1, AppendProperties, ElementOfSeq
<1> HIDE DEF q
<1>4. InTurn(q)
  <2> SUFFICES ASSUME NEW j \in 1..Len(q), NEW k \in 1..Len(q), j < k,
                      GroupOf[q[j]] = GroupOf[q[k]]
               PROVE  age[q[j]] >= age[q[k]]
    BY DEF InTurn
  <2>1. j \in 1..Len(waiters)
    BY <1>1, <1>3
  <2>2. CASE k \in 1..Len(waiters)
    BY <1>3, <2>1, <2>2 DEF Queued, InTurn
  <2>3. CASE k = Len(waiters) + 1
    <3>1. q[j] \in Request /\ q[k] = r
      BY <1>3, <2>1, <2>3
    <3> QED
      BY <1>1, <3>1
  <2> QED
    BY <1>1, <1>3, <2>2, <2>3
<1> QED
  BY <1>2, <1>4 DEF q

(***************************************************************************)
(* Every step keeps it.                                                    *)
(***************************************************************************)
LEMMA AcquireKeepsQueue ==
  ASSUME QueueInv, NEW r \in Request, AcquireOrReject(r) \/ AcquireOrWait(r)
  PROVE  QueueInv'
<1>0. /\ QueueType /\ Queued /\ Cached /\ pc[r] = "idle"
      /\ pc \in [Request -> {"idle", "waiting", "held", "releasing"}]
  BY DEF QueueInv, QueueType, AcquireOrReject, AcquireOrWait, MayAcquire
<1>1. ASSUME CanAdmit(r), Grant(r), UNCHANGED <<registered, closed, waiters, age, stopped>>
      PROVE  QueueInv'
  <2>1. To(r, "held") /\ cache' = Stale /\ lastGrant' \in Seq(Group)
    BY <1>0, <1>1, GrantType
  <2>2. /\ pc' \in [Request -> {"idle", "waiting", "held", "releasing"}]
        /\ pc'[r] = "held" /\ \A s \in Request \ {r} : pc'[s] = pc[s]
    BY <1>0, <2>1, ToType
  <2>3. QueueType'
    BY <1>0, <1>1, <2>1, <2>2 DEF QueueType
  <2>4. Queued'
    BY <1>0, <1>1, <2>2 DEF Queued, InTurn
  <2>5. Cached'
    BY <2>1 DEF Cached
  <2> QED
    BY <2>3, <2>4, <2>5 DEF QueueInv
<1>2. CASE AcquireOrReject(r)
  <2>1. CASE CanAdmit(r) /\ Selected = None
    BY <1>1, <1>2, <2>1 DEF AcquireOrReject
  <2>2. CASE ~(CanAdmit(r) /\ Selected = None)
    <3>1. /\ UNCHANGED <<registered, closed, waiters, age, stopped, counters, lastGrant, pc>>
          /\ cache' = Selected \/ cache' = cache
      BY <1>2, <2>2 DEF AcquireOrReject
    <3>2. Good(waiters, Selected) /\ Selected \in Request \cup {None}
      BY SelectedIsGood
    <3>3. QueueType'
      BY <1>0, <3>1, <3>2 DEF QueueType
    <3>4. Queued'
      BY <1>0, <3>1, QueueStays
    <3>5. Cached'
      BY <1>0, <3>1, <3>2, CachedHolds DEF Cached
    <3> QED
      BY <3>3, <3>4, <3>5 DEF QueueInv
  <2> QED
    BY <2>1, <2>2
<1>3. CASE AcquireOrWait(r)
  <2> DEFINE q == Append(waiters, r)
  <2>1. /\ q \in Seq(Request) /\ NoDup(q) /\ InTurn(q) /\ InQueue(q) = InQueue(waiters) \cup {r}
    BY <1>0, JoinedQueue
  <2>2. Good(q, Select(q)) /\ Select(q) \in Request \cup {None}
    BY <1>0, <2>1, SelectIsGood DEF QueueType
  <2>3. /\ UNCHANGED <<registered, closed, age, stopped>> /\ GroupOf[r] \notin Rejecting
        /\ \/ Select(q) = r /\ Grant(r) /\ UNCHANGED waiters
           \/ /\ waiters' = q /\ cache' = Select(q) /\ To(r, "waiting")
              /\ UNCHANGED <<counters, lastGrant>>
    BY <1>3 DEF AcquireOrWait
  <2> HIDE DEF q
  <2>4. CASE Select(q) = r /\ Grant(r) /\ UNCHANGED waiters
    BY <1>1, <2>2, <2>3, <2>4, GoodIsAdmissible
  <2>5. CASE /\ waiters' = q /\ cache' = Select(q) /\ To(r, "waiting")
             /\ UNCHANGED <<counters, lastGrant>>
    <3>1. /\ pc' \in [Request -> {"idle", "waiting", "held", "releasing"}]
          /\ pc'[r] = "waiting" /\ \A s \in Request \ {r} : pc'[s] = pc[s]
      BY <1>0, <2>5, ToType
    <3>2. QueueType'
      BY <1>0, <2>1, <2>2, <2>3, <2>5, <3>1 DEF QueueType
    <3>3. Queued'
      <4>1. NoDup(waiters)' /\ InTurn(waiters)' /\ InQueue(waiters)' = InQueue(waiters) \cup {r}
        BY <2>1, <2>3, <2>5 DEF NoDup, InTurn, InQueue
      <4> QED
        BY <1>0, <2>3, <3>1, <4>1 DEF Queued
    <3>4. Cached'
      BY <2>2, <2>5, CachedHolds
    <3> QED
      BY <3>2, <3>3, <3>4 DEF QueueInv
  <2> QED
    BY <2>3, <2>4, <2>5
<1> QED
  BY <1>2, <1>3

LEMMA WaiterKeepsQueue ==
  ASSUME QueueInv, NEW r \in Request, GiveUp(r) \/ Poll(r) \/ Stop(r) \/ AgePasses(r)
  PROVE  QueueInv'
<1>0. /\ QueueType /\ Queued /\ Cached /\ pc[r] = "waiting"
      /\ pc \in [Request -> {"idle", "waiting", "held", "releasing"}]
  BY DEF QueueInv, QueueType, GiveUp, Poll, Stop, AgePasses
<1>1. CASE GiveUp(r)
  <2>1. /\ UNCHANGED <<registered, closed, lastGrant>> /\ LeaveQueue(r) /\ To(r, "idle")
        /\ cache' = Stale /\ stopped' = stopped \ {r}
    BY <1>1 DEF GiveUp, Leave
  <2>2. waiters' \in Seq(Request) /\ age' \in [Request -> Nat] /\ Queued'
    BY <1>0, <2>1, LeaveQueueKeeps
  <2>3. pc' \in [Request -> {"idle", "waiting", "held", "releasing"}]
    BY <1>0, <2>1, ToType
  <2>4. QueueType' /\ Cached'
    BY <1>0, <2>1, <2>2, <2>3 DEF QueueType, Cached
  <2> QED
    BY <2>2, <2>4 DEF QueueInv
<1>2. CASE Poll(r) /\ Selected = r
  <2>1. Good(waiters, Selected)
    BY SelectedIsGood
  <2>2. CanAdmit(r)
    BY <1>2, <2>1, GoodIsAdmissible
  <2>3. UNCHANGED <<registered, closed, stopped>> /\ LeaveQueue(r) /\ Grant(r)
    BY <1>2 DEF Poll
  <2>4. To(r, "held") /\ cache' = Stale /\ lastGrant' \in Seq(Group)
    BY <1>0, <2>2, <2>3, GrantType
  <2>5. waiters' \in Seq(Request) /\ age' \in [Request -> Nat] /\ Queued'
    BY <1>0, <2>3, <2>4, LeaveQueueKeeps
  <2>6. pc' \in [Request -> {"idle", "waiting", "held", "releasing"}]
    BY <1>0, <2>4, ToType
  <2>7. QueueType' /\ Cached'
    BY <1>0, <2>3, <2>4, <2>5, <2>6 DEF QueueType, Cached
  <2> QED
    BY <2>5, <2>7 DEF QueueInv
<1>3. CASE Poll(r) /\ Selected # r
  <2>1. /\ UNCHANGED <<registered, closed, stopped, waiters, age, counters, lastGrant, pc>>
        /\ cache' = Selected
    BY <1>3 DEF Poll
  <2>2. Good(waiters, Selected) /\ Selected \in Request \cup {None}
    BY SelectedIsGood
  <2>3. QueueType' /\ Queued'
    BY <1>0, <2>1, <2>2, QueueStays DEF QueueType
  <2>4. Cached'
    BY <2>1, <2>2, CachedHolds
  <2> QED
    BY <2>3, <2>4 DEF QueueInv
<1>4. CASE Stop(r)
  <2>1. /\ UNCHANGED <<registered, closed, waiters, age, lastGrant, cache, counters, pc>>
        /\ stopped' = stopped \cup {r}
    BY <1>4 DEF Stop
  <2>2. QueueType' /\ Queued'
    BY <1>0, <2>1, QueueStays DEF QueueType
  <2>3. Cached'
    BY <1>0, <2>1, CachedHolds DEF Cached
  <2> QED
    BY <2>2, <2>3 DEF QueueInv
<1>5. CASE AgePasses(r)
  <2>1. /\ UNCHANGED <<registered, closed, waiters, lastGrant, cache, counters, stopped, pc>>
        /\ age[r] < RankOf[GroupOf[r]]
        /\ \A s \in InQueue(waiters) : Position(waiters, s) < Position(waiters, r) =>
             age[s] > age[r] \/ age[s] = RankOf[GroupOf[s]]
        /\ age' = [age EXCEPT ![r] = @ + 1]
    BY <1>5 DEF AgePasses
  <2>2. /\ waiters \in Seq(Request) /\ age \in [Request -> Nat] /\ NoDup(waiters)
        /\ InTurn(waiters) /\ age'[r] = age[r] + 1 /\ age[r] \in Nat
        /\ \A s \in Request \ {r} : age'[s] = age[s]
        /\ age' \in [Request -> Nat]
    BY <1>0, <2>1 DEF QueueType, Queued
  <2>3. InTurn(waiters)'
    <3> SUFFICES ASSUME NEW j \in 1..Len(waiters), NEW k \in 1..Len(waiters), j < k,
                        GroupOf[waiters[j]] = GroupOf[waiters[k]]
                 PROVE  age'[waiters[j]] >= age'[waiters[k]]
      BY <2>1 DEF InTurn
    <3>1. /\ waiters[j] \in Request /\ waiters[k] \in Request /\ waiters[j] # waiters[k]
          /\ age[waiters[j]] \in Nat /\ age[waiters[k]] \in Nat
          /\ Len(waiters) \in Nat
      BY <2>2, ElementOfSeq, LenProperties DEF NoDup
    <3>2. age[waiters[j]] >= age[waiters[k]]
      BY <2>2 DEF InTurn
    <3>3. /\ waiters[j] \in InQueue(waiters) /\ Position(waiters, waiters[j]) = j
          /\ Position(waiters, waiters[k]) = k
      BY <2>2, PositionOf
    <3>4. RankOf[GroupOf[r]] \in 0..3
      BY <2>2, RankType
    <3>5. CASE waiters[k] = r
      <4>1. age[waiters[j]] > age[r] \/ age[waiters[j]] = RankOf[GroupOf[waiters[j]]]
        BY <2>1, <3>3, <3>5
      <4>2. age[waiters[j]] > age[r]
        BY <2>1, <3>1, <3>4, <3>5, <4>1
      <4> QED
        BY <2>2, <3>1, <3>5, <4>2
    <3>6. CASE waiters[k] # r
      <4>1. age'[waiters[k]] = age[waiters[k]]
        BY <2>2, <3>1, <3>6
      <4>2. age'[waiters[j]] = age[waiters[j]] \/ age'[waiters[j]] = age[waiters[j]] + 1
        BY <2>2, <3>1
      <4> QED
        BY <3>1, <3>2, <4>1, <4>2
    <3> QED
      BY <3>5, <3>6
  <2>4. QueueType'
    BY <1>0, <2>1, <2>2 DEF QueueType
  <2>5. Queued'
    BY <1>0, <2>1, <2>2, <2>3 DEF Queued, NoDup, InQueue
  <2>6. Cached'
    BY <1>0, <2>1, CachedHolds DEF Cached
  <2> QED
    BY <2>4, <2>5, <2>6 DEF QueueInv
<1> QED
  BY <1>1, <1>2, <1>3, <1>4, <1>5

LEMMA HolderKeepsQueue ==
  ASSUME IInv, QueueInv, NEW r \in Request, MarkReleased(r) \/ Release(r)
  PROVE  QueueInv'
<1>0. QueueType /\ Queued /\ Cached /\ pc[r] \in {"held", "releasing"}
  BY DEF QueueInv, MarkReleased, Release
<1>1. ASSUME NEW w \in {"idle", "releasing"}, To(r, w), stopped' \subseteq stopped,
             UNCHANGED <<registered, closed, waiters, age, lastGrant>>,
             cache' = Stale \/ (cache' = cache /\ UNCHANGED counters)
      PROVE  QueueInv'
  <2>1. /\ pc' \in [Request -> {"idle", "waiting", "held", "releasing"}]
        /\ pc'[r] = w /\ \A s \in Request \ {r} : pc'[s] = pc[s]
    BY <1>0, <1>1, ToType
  <2>2. QueueType'
    BY <1>0, <1>1, <2>1 DEF QueueType
  <2>3. Queued'
    BY <1>0, <1>1, <2>1 DEF Queued, InTurn
  <2>4. Cached'
    BY <1>0, <1>1, CachedHolds DEF Cached
  <2> QED
    BY <2>2, <2>3, <2>4 DEF QueueInv
<1>2. CASE MarkReleased(r)
  BY <1>1, <1>2 DEF MarkReleased
<1>3. CASE Release(r)
  <2>1. r \in Holders
    BY <1>3 DEF Release, Holders
  <2>2. Releasable(r)
    BY <2>1, HolderReleasable
  <2> QED
    BY <1>1, <1>3, <2>2 DEF Release, Leave
<1> QED
  BY <1>2, <1>3

LEMMA QueueInvariant == Spec => []QueueInv
<1>1. Init => QueueInv
  <2> SUFFICES ASSUME Init PROVE QueueInv
    OBVIOUS
  <2>1. /\ waiters = <<>> /\ lastGrant = <<>> /\ Len(<<>>) = 0 /\ cache = Stale
        /\ waiters \in Seq(Request) /\ lastGrant \in Seq(Group)
    BY EmptySeq DEF Init
  <2>2. InQueue(waiters) = {}
    BY <2>1 DEF InQueue
  <2>3. QueueType
    BY <2>1 DEF Init, QueueType
  <2>4. Queued
    BY <2>1, <2>2 DEF Init, Queued, NoDup, InTurn
  <2> QED
    BY <2>1, <2>3, <2>4 DEF QueueInv, Cached
<1>2. ASSUME IInv, QueueInv, [Next]_vars PROVE QueueInv'
  <2>1. ASSUME NEW r \in Request, RequestStep(r) PROVE QueueInv'
    BY <1>2, <2>1, AcquireKeepsQueue, WaiterKeepsQueue, HolderKeepsQueue DEF RequestStep
  <2>2. ASSUME UNCHANGED <<waiters, age, lastGrant, counters, stopped, pc>>,
               registered' \subseteq Group, closed' \in BOOLEAN, cache' \in {cache, Stale}
        PROVE  QueueInv'
    <3>1. QueueType' /\ Queued'
      BY <1>2, <2>2, QueueStays DEF QueueInv, QueueType
    <3>2. Cached'
      BY <1>2, <2>2, CachedHolds DEF QueueInv, Cached
    <3> QED
      BY <3>1, <3>2 DEF QueueInv
  <2>3. registered \subseteq Group /\ closed \in BOOLEAN
    BY <1>2 DEF QueueInv, QueueType
  <2>4. ASSUME NEW g \in Group, RegisterGroup(g) PROVE QueueInv'
    BY <2>2, <2>3, <2>4 DEF RegisterGroup
  <2>5. CASE Close \/ BucketPasses \/ UNCHANGED vars
    BY <2>2, <2>3, <2>5 DEF Close, BucketPasses, vars
  <2> QED
    BY <1>2, <2>1, <2>4, <2>5 DEF Next
<1> QED
  BY <1>1, <1>2, Invariance, PTL DEF Spec

(***************************************************************************)
(* The theorems about the queue.                                           *)
(***************************************************************************)

\* Every variable has its type: no counter is negative, and neither check of the
\* authority ever raises, so a selection that was cached is still admissible when it
\* is used, and no release meets a counter at 0.
THEOREM NoViolation == Spec => []TypeOK
<1>1. ASSUME IInv, QueueInv PROVE TypeOK
  <2>1. /\ inFlight \in Nat
        /\ groups \in [Group -> Nat] /\ lanes \in [Lane -> Nat]
        /\ tenants \in [Tenant -> Nat] /\ resources \in [Keys -> Nat]
    <3>1. \A S \in SUBSET Holders : Cardinality(S) \in Nat
      BY HoldersFinite
    <3>2. /\ inFlight \in Nat
          /\ \A g \in Group : groups[g] \in Nat
          /\ \A l \in Lane : lanes[l] \in Nat
          /\ \A t \in Tenant : tenants[t] \in Nat
          /\ \A k \in Keys : resources[k] \in Nat
      BY <1>1, <3>1 DEF IInv, CountersMatchLeases
    <3> QED
      BY <1>1, <3>2 DEF IInv, CounterType
  <2> QED
    BY <1>1, <2>1 DEF TypeOK, QueueInv, QueueType
<1> QED
  BY <1>1, Invariance, QueueInvariant, PTL

\* A permit never goes past a waiter that could take it: whatever was selected and
\* cached, a REJECT request gets none while a waiter is admissible, and waiters of one
\* group and lane are served by ticket.
THEOREM PermitsGoInTurn == Spec => NoBarging
<1> DEFINE Fair(r) ==
      \A w \in Eligible(waiters) \ {r} :
        /\ GroupOf[r] \notin Rejecting
        /\ GroupOf[w] = GroupOf[r] /\ LaneOf[w] = LaneOf[r] =>
             /\ r \in InQueue(waiters)
             /\ Position(waiters, r) < Position(waiters, w)
<1>1. ASSUME QueueInv, [Next]_vars, NEW r \in Request, pc[r] # "held", pc'[r] = "held"
      PROVE  Fair(r)
  <2>0. /\ QueueType /\ Queued
        /\ waiters \in Seq(Request) /\ NoDup(waiters) /\ Len(waiters) \in Nat
        /\ Eligible(waiters) \subseteq InQueue(waiters) /\ Eligible(waiters) \subseteq Request
    BY <1>1, QueueElements DEF QueueInv, QueueType, Queued, Eligible
  <2>1. AcquireOrReject(r) \/ AcquireOrWait(r) \/ Poll(r)
    <3>1. UNCHANGED pc \/ \E s \in Request : RequestStep(s)
      BY <1>1 DEF Next, RegisterGroup, Close, BucketPasses, vars
    <3>2. PICK s \in Request : RequestStep(s)
      BY <1>1, <3>1
    <3>3. \A u \in Request \ {s} : pc'[u] = pc[u]
      BY <2>0, <3>2 DEF RequestStep, AcquireOrReject, AcquireOrWait, GiveUp, Poll,
                        MarkReleased, Release, Stop, AgePasses, Grant, Leave, To, QueueType
    <3>4. r = s
      BY <1>1, <3>3
    <3>5. ~GiveUp(r) /\ ~MarkReleased(r) /\ ~Release(r) /\ ~Stop(r) /\ ~AgePasses(r)
      BY <1>1, <2>0 DEF GiveUp, MarkReleased, Release, Stop, AgePasses, Leave, To, QueueType
    <3> QED
      BY <3>2, <3>4, <3>5 DEF RequestStep
  <2>2. CASE AcquireOrReject(r)
    <3>1. Selected = None
      BY <1>1, <2>2 DEF AcquireOrReject
    <3>2. Good(waiters, None)
      BY <1>1, <3>1, SelectedIsGood
    <3> QED
      BY <3>2 DEF Good
  <2>3. CASE AcquireOrWait(r)
    <3> DEFINE q == Append(waiters, r)
    <3>1. pc[r] = "idle" /\ GroupOf[r] \notin Rejecting /\ Select(q) = r
      BY <1>1, <2>0, <2>3 DEF AcquireOrWait, MayAcquire, To, QueueType
    <3>2. /\ q \in Seq(Request) /\ NoDup(q) /\ InTurn(q) /\ InQueue(q) = InQueue(waiters) \cup {r}
          /\ Position(q, r) = Len(waiters) + 1
          /\ \A w \in InQueue(waiters) : Position(q, w) = Position(waiters, w)
      BY <2>0, <3>1, JoinedQueue
    <3> HIDE DEF q
    <3>3. Good(q, r) /\ r # None
      BY <2>0, <3>1, <3>2, SelectIsGood, BudgetAssumption DEF QueueType, BudgetAssumption
    <3>4. ASSUME NEW w \in Eligible(waiters), Like(r, w) PROVE FALSE
      <4>1. w \in Eligible(q)
        BY <3>2 DEF Eligible
      <4>2. Position(q, r) <= Position(q, w)
        BY <3>3, <3>4, <4>1 DEF Good
      <4>3. Position(waiters, w) \in 1..Len(waiters)
        BY <2>0, InPosition
      <4> QED
        BY <2>0, <3>2, <4>2, <4>3
    <3> QED
      BY <3>1, <3>4 DEF Like
  <2>4. CASE Poll(r)
    <3>1. pc[r] = "waiting" /\ Selected = r
      BY <1>1, <2>4 DEF Poll
    <3>2. Good(waiters, r) /\ r # None
      BY <1>1, <3>1, SelectedIsGood, BudgetAssumption DEF BudgetAssumption
    <3>3. r \in InQueue(waiters) /\ GroupOf[r] \notin Rejecting
      BY <2>0, <3>1 DEF Queued
    <3>4. ASSUME NEW w \in Eligible(waiters) \ {r}, Like(r, w)
          PROVE  Position(waiters, r) < Position(waiters, w)
      <4>1. Position(waiters, r) <= Position(waiters, w)
        BY <3>2, <3>4 DEF Good
      <4>2. /\ Position(waiters, r) \in 1..Len(waiters) /\ waiters[Position(waiters, r)] = r
            /\ Position(waiters, w) \in 1..Len(waiters) /\ waiters[Position(waiters, w)] = w
        BY <2>0, <3>3, InPosition
      <4> QED
        BY <2>0, <4>1, <4>2
    <3> QED
      BY <3>3, <3>4 DEF Like
  <2> QED
    BY <2>1, <2>2, <2>3, <2>4
<1>2. QueueInv /\ [Next]_vars =>
        \A r \in Request : pc[r] # "held" /\ pc'[r] = "held" => Fair(r)
  BY <1>1
<1> QED
  BY <1>2, QueueInvariant, PTL DEF Spec, NoBarging
============================================================================
