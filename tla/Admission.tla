----------------------------- MODULE Admission -----------------------------
(***************************************************************************)
(* HierarchicalAdmissionAuthority with FairPrioritySchedulingPolicy, used  *)
(* by UnifiedExecutionAuthority: a submission takes a permit before its    *)
(* provider runs it and gives it back when the handle is done.             *)
(*                                                                         *)
(* A request is a thread that submits again and again.  A step is one      *)
(* critical section of the authority's condition; Condition.wait(0.05)     *)
(* lets every waiter look again at any time.  Counters that are absent     *)
(* from a dict are 0; tickets are positions in the queue, the grant        *)
(* sequence is the order of the groups by their last grant, the waiting    *)
(* time of a request is the number of aging periods it has waited.         *)
(***************************************************************************)
EXTENDS Integers, FiniteSets, Sequences

CONSTANTS
  Request, Group, Tenant, Resource, Lane,
  None,                            \* no tenant, no resource, no selected waiter
  Stale,                           \* the cached selection is out of date
  GroupOf, LaneOf,                 \* of a request
  TenantOf, ResourceOf, RankOf,    \* of a group; rank 0 is CRITICAL, 3 is LOW
  Rejecting,                       \* groups with AdmissionMode.REJECT
  MaxTotal, MaxGroup, MaxTenant, MaxResource, LaneLimit

ASSUME BudgetAssumption ==
  /\ IsFiniteSet(Request)
  /\ None \notin Request \cup Tenant \cup Resource /\ Stale \notin Request /\ Stale # None
  /\ GroupOf \in [Request -> Group] /\ LaneOf \in [Request -> Lane]
  /\ TenantOf \in [Group -> Tenant \cup {None}]
  /\ ResourceOf \in [Group -> Resource \cup {None}]
  /\ RankOf \in [Group -> 0..3] /\ Rejecting \subseteq Group
  /\ MaxTotal \in Nat \ {0}
  /\ MaxGroup \in 1..MaxTotal /\ MaxTenant \in 1..MaxTotal /\ MaxResource \in 1..MaxTotal
  /\ LaneLimit \in [Lane -> 1..MaxTotal]

VARIABLES
  registered,   \* groups with an identity
  closed,
  waiters,      \* queued requests by ticket
  age,          \* aging periods a waiter has waited
  lastGrant,    \* groups by their latest grant, the latest last
  cache,        \* the cached selection of the current queue version and bucket
  inFlight, groups, tenants, resources, lanes,
  stopped,      \* requests whose token is cancelled or whose deadline has passed
  pc

counters == <<inFlight, groups, tenants, resources, lanes>>
vars == <<registered, closed, waiters, age, lastGrant, cache, counters, stopped, pc>>

Keys == {<<t, res>> : t \in Tenant \cup {None}, res \in Resource}

\* Where the permit of a request counts.
TenantsOf(r)   == {TenantOf[GroupOf[r]]} \ {None}
ResourcesOf(r) == IF ResourceOf[GroupOf[r]] = None THEN {}
                  ELSE {<<TenantOf[GroupOf[r]], ResourceOf[GroupOf[r]]>>}

Init ==
  /\ registered = {} /\ closed = FALSE
  /\ waiters = <<>> /\ age = [r \in Request |-> 0]
  /\ lastGrant = <<>> /\ cache = Stale
  /\ inFlight = 0
  /\ groups = [g \in Group |-> 0] /\ tenants = [t \in Tenant |-> 0]
  /\ resources = [k \in Keys |-> 0] /\ lanes = [l \in Lane |-> 0]
  /\ stopped = {} /\ pc = [r \in Request |-> "idle"]

-----------------------------------------------------------------------------
(* Capacity.                                                               *)

\* Faulty variant of CanAdmit: one permit too many for a tenant.
CanAdmitInclusive(r) ==
  /\ inFlight < MaxTotal
  /\ groups[GroupOf[r]] < MaxGroup
  /\ lanes[LaneOf[r]] < LaneLimit[LaneOf[r]]
  /\ \A t \in TenantsOf(r) : tenants[t] <= MaxTenant
  /\ \A k \in ResourcesOf(r) : resources[k] < MaxResource

CanAdmit(r) ==
  /\ inFlight < MaxTotal
  /\ groups[GroupOf[r]] < MaxGroup
  /\ lanes[LaneOf[r]] < LaneLimit[LaneOf[r]]
  /\ \A t \in TenantsOf(r) : tenants[t] < MaxTenant
  /\ \A k \in ResourcesOf(r) : resources[k] < MaxResource

\* Faulty variant of Count: the resource is counted for every tenant alike.
CountSharedResource(r, n) ==
  /\ inFlight' = inFlight + n
  /\ groups' = [groups EXCEPT ![GroupOf[r]] = @ + n]
  /\ lanes' = [lanes EXCEPT ![LaneOf[r]] = @ + n]
  /\ tenants' = [t \in Tenant |-> tenants[t] + (IF t \in TenantsOf(r) THEN n ELSE 0)]
  /\ resources' = [k \in Keys |->
       resources[k] + (IF \E j \in ResourcesOf(r) : j[2] = k[2] THEN n ELSE 0)]

\* The increments of _grant and the decrements of _release.
Count(r, n) ==
  /\ inFlight' = inFlight + n
  /\ groups' = [groups EXCEPT ![GroupOf[r]] = @ + n]
  /\ lanes' = [lanes EXCEPT ![LaneOf[r]] = @ + n]
  /\ tenants' = [t \in Tenant |-> tenants[t] + (IF t \in TenantsOf(r) THEN n ELSE 0)]
  /\ resources' = [k \in Keys |-> resources[k] + (IF k \in ResourcesOf(r) THEN n ELSE 0)]

Releasable(r) ==
  /\ inFlight > 0 /\ groups[GroupOf[r]] > 0 /\ lanes[LaneOf[r]] > 0
  /\ \A t \in TenantsOf(r) : tenants[t] > 0
  /\ \A k \in ResourcesOf(r) : resources[k] > 0

-----------------------------------------------------------------------------
(* Scheduling: FairPrioritySchedulingPolicy.select over the waiters that   *)
(* can be admitted, cached by _selected_waiter.                            *)

InQueue(q) == {q[i] : i \in 1..Len(q)}
Position(q, x) == CHOOSE i \in 1..Len(q) : q[i] = x

\* dict.pop(x, None): those behind x move up.
Without(q, x) ==
  IF x \notin InQueue(q) THEN q
  ELSE [i \in 1..(Len(q) - 1) |-> IF i < Position(q, x) THEN q[i] ELSE q[i + 1]]

\* Faulty variant of EffectiveRank: waiting does not raise the priority.
BaseRank(r) == RankOf[GroupOf[r]]

EffectiveRank(r) == LET rank == RankOf[GroupOf[r]] - age[r]
                    IN IF rank < 0 THEN 0 ELSE rank

\* group_last_grant.get(group, -1)
LastGrant(r) == IF GroupOf[r] \in InQueue(lastGrant)
                THEN Position(lastGrant, GroupOf[r]) ELSE -1

Eligible(q) == {r \in InQueue(q) : CanAdmit(r)}

\* Rank first, then the group that was served the longest ago, then the ticket.
Before(q, r, s) ==
  \/ EffectiveRank(r) < EffectiveRank(s)
  \/ /\ EffectiveRank(r) = EffectiveRank(s)
     /\ \/ LastGrant(r) < LastGrant(s)
        \/ LastGrant(r) = LastGrant(s) /\ Position(q, r) <= Position(q, s)

Select(q) ==
  IF Eligible(q) = {} THEN None
  ELSE CHOOSE r \in Eligible(q) : \A s \in Eligible(q) : Before(q, r, s)

Selected == IF cache = Stale THEN Select(waiters) ELSE cache

-----------------------------------------------------------------------------
(* The authority's operations.                                             *)

To(r, where) == pc' = [pc EXCEPT ![r] = where]

\* The last step of a submission: its token and deadline are gone with it.
Leave(r) == To(r, "idle") /\ stopped' = stopped \ {r}

LeaveQueue(r) == waiters' = Without(waiters, r) /\ age' = [age EXCEPT ![r] = 0]

RegisterGroup(g) ==
  /\ ~closed /\ g \notin registered
  /\ registered' = registered \cup {g}
  /\ UNCHANGED <<closed, waiters, age, lastGrant, cache, counters, stopped, pc>>

\* _grant: a budget violation is an error, not a permit.
Grant(r) ==
  IF CanAdmit(r)
  THEN /\ Count(r, 1)
       /\ lastGrant' = Append(Without(lastGrant, GroupOf[r]), GroupOf[r])
       /\ cache' = Stale
       /\ To(r, "held")
  ELSE UNCHANGED <<counters, lastGrant, cache>> /\ To(r, "violation")

MayAcquire(r) == pc[r] = "idle" /\ GroupOf[r] \in registered /\ ~closed

\* Faulty variant of AcquireOrReject: the queue is not looked at.
AcquireBarging(r) ==
  /\ MayAcquire(r) /\ r \notin stopped /\ GroupOf[r] \in Rejecting
  /\ CanAdmit(r) /\ Grant(r)
  /\ UNCHANGED <<registered, closed, waiters, age, stopped>>

\* AdmissionMode.REJECT: now or never, and never past a waiter that could go.
AcquireOrReject(r) ==
  /\ MayAcquire(r) /\ r \notin stopped /\ GroupOf[r] \in Rejecting
  /\ IF CanAdmit(r) /\ Selected = None
     THEN Grant(r)
     ELSE /\ cache' = IF CanAdmit(r) THEN Selected ELSE cache
          /\ UNCHANGED <<counters, lastGrant, pc>>
  /\ UNCHANGED <<registered, closed, waiters, age, stopped>>

\* AdmissionMode.BLOCK: queue, and look once in the same critical section.
AcquireOrWait(r) ==
  /\ MayAcquire(r) /\ r \notin stopped /\ GroupOf[r] \notin Rejecting
  /\ LET q == Append(waiters, r) IN
       IF Select(q) = r
       THEN Grant(r) /\ UNCHANGED waiters
       ELSE /\ waiters' = q /\ cache' = Select(q)
            /\ To(r, "waiting")
            /\ UNCHANGED <<counters, lastGrant>>
  /\ UNCHANGED <<registered, closed, age, stopped>>

\* The authority closed, the token was cancelled or the deadline passed: the
\* finally clause takes the ticket out of the queue.
GiveUp(r) ==
  /\ pc[r] = "waiting" /\ (closed \/ r \in stopped)
  /\ LeaveQueue(r)
  /\ cache' = Stale
  /\ Leave(r)
  /\ UNCHANGED <<registered, closed, lastGrant, counters>>

\* One turn of a waiter's loop.
Poll(r) ==
  /\ pc[r] = "waiting" /\ ~closed /\ r \notin stopped
  /\ IF Selected = r
     THEN LeaveQueue(r) /\ Grant(r)
     ELSE cache' = Selected /\ UNCHANGED <<waiters, age, counters, lastGrant, pc>>
  /\ UNCHANGED <<registered, closed, stopped>>

\* Lease.release, called when the provider's handle is done or its submit raised:
\* the lease is marked under its own lock first, so that a second call returns.
MarkReleased(r) ==
  /\ pc[r] = "held"
  /\ To(r, "releasing")
  /\ UNCHANGED <<registered, closed, waiters, age, lastGrant, cache, counters, stopped>>

\* Faulty variant of Release: the handle and the failed submit both return the permit.
ReleaseTwice(r) ==
  /\ pc[r] = "releasing"
  /\ Count(r, -2) /\ cache' = Stale /\ Leave(r)
  /\ UNCHANGED <<registered, closed, waiters, age, lastGrant>>

\* _release, also after close; a counter that would fall below 0 is an error.
Release(r) ==
  /\ pc[r] = "releasing"
  /\ IF Releasable(r)
     THEN Count(r, -1) /\ cache' = Stale /\ Leave(r)
     ELSE To(r, "violation") /\ UNCHANGED <<counters, cache, stopped>>
  /\ UNCHANGED <<registered, closed, waiters, age, lastGrant>>

Close ==
  /\ ~closed
  /\ closed' = TRUE
  /\ UNCHANGED <<registered, waiters, age, lastGrant, cache, counters, stopped, pc>>

\* The request's token is cancelled, or its deadline passes.
Stop(r) ==
  /\ pc[r] = "waiting" /\ r \notin stopped
  /\ stopped' = stopped \cup {r}
  /\ UNCHANGED <<registered, closed, waiters, age, lastGrant, cache, counters, pc>>

\* Aging periods pass for an older ticket first; rank 0 is the end.
AgePasses(r) ==
  /\ pc[r] = "waiting" /\ age[r] < RankOf[GroupOf[r]]
  /\ \A s \in InQueue(waiters) :
       Position(waiters, s) < Position(waiters, r) => age[s] > age[r] \/ age[s] = RankOf[GroupOf[s]]
  /\ age' = [age EXCEPT ![r] = @ + 1]
  /\ UNCHANGED <<registered, closed, waiters, lastGrant, cache, counters, stopped, pc>>

\* The next scheduling bucket of 50 ms.
BucketPasses ==
  /\ cache # Stale /\ waiters # <<>>
  /\ cache' = Stale
  /\ UNCHANGED <<registered, closed, waiters, age, lastGrant, counters, stopped, pc>>

RequestStep(r) ==
  \/ AcquireOrReject(r) \/ AcquireOrWait(r) \/ GiveUp(r) \/ Poll(r)
  \/ MarkReleased(r) \/ Release(r) \/ Stop(r) \/ AgePasses(r)

Next ==
  \/ \E g \in Group : RegisterGroup(g)
  \/ \E r \in Request : RequestStep(r)
  \/ Close \/ BucketPasses

\* A waiter keeps polling, a marked lease is returned, time passes.
Fairness ==
  /\ WF_vars(BucketPasses)
  /\ \A r \in Request : /\ WF_vars(Poll(r)) /\ WF_vars(GiveUp(r))
                        /\ WF_vars(Release(r)) /\ WF_vars(AgePasses(r))

Spec     == Init /\ [][Next]_vars
FairSpec == Spec /\ Fairness

-----------------------------------------------------------------------------
(* Properties.                                                             *)

\* Every variable has its type, no counter is negative, and neither of the
\* authority's own checks has raised: a selection, cached or not, is still admissible
\* when it is used, and no release finds a counter at 0.
TypeOK ==
  /\ registered \subseteq Group /\ closed \in BOOLEAN
  /\ waiters \in Seq(Request) /\ age \in [Request -> Nat]
  /\ lastGrant \in Seq(Group) /\ cache \in Request \cup {None, Stale}
  /\ inFlight \in Nat /\ groups \in [Group -> Nat] /\ tenants \in [Tenant -> Nat]
  /\ resources \in [Keys -> Nat] /\ lanes \in [Lane -> Nat]
  /\ stopped \subseteq Request
  /\ pc \in [Request -> {"idle", "waiting", "held", "releasing"}]

\* The requests that own a permit.
Holders == {r \in Request : pc[r] \in {"held", "releasing"}}

\* At every level of the hierarchy the permits really out stay within the budget.
WithinBudget ==
  /\ Cardinality(Holders) <= MaxTotal
  /\ \A g \in Group : Cardinality({r \in Holders : GroupOf[r] = g}) <= MaxGroup
  /\ \A l \in Lane : Cardinality({r \in Holders : LaneOf[r] = l}) <= LaneLimit[l]
  /\ \A t \in Tenant : Cardinality({r \in Holders : t \in TenantsOf(r)}) <= MaxTenant
  /\ \A k \in Keys : Cardinality({r \in Holders : k \in ResourcesOf(r)}) <= MaxResource

\* Each counter is the number of permits out at its level: no refusal, timeout,
\* cancellation or close between the steps of a request leaks or forges one.
CountersMatchLeases ==
  /\ inFlight = Cardinality(Holders)
  /\ \A g \in Group : groups[g] = Cardinality({r \in Holders : GroupOf[r] = g})
  /\ \A l \in Lane : lanes[l] = Cardinality({r \in Holders : LaneOf[r] = l})
  /\ \A t \in Tenant : tenants[t] = Cardinality({r \in Holders : t \in TenantsOf(r)})
  /\ \A k \in Keys : resources[k] = Cardinality({r \in Holders : k \in ResourcesOf(r)})

\* A permit never goes past a waiter that could take it: a REJECT request gets
\* none while a waiter is admissible, and waiters of one group and lane are
\* served by ticket, whatever selection was cached.
NoBarging ==
  [][\A r \in Request : pc[r] # "held" /\ pc'[r] = "held" =>
       \A w \in Eligible(waiters) \ {r} :
         /\ GroupOf[r] \notin Rejecting
         /\ GroupOf[w] = GroupOf[r] /\ LaneOf[w] = LaneOf[r] =>
              /\ r \in InQueue(waiters)
              /\ Position(waiters, r) < Position(waiters, w)]_vars

\* As long as permits keep coming back and requests are not cancelled for ever,
\* every waiter leaves the queue: aging and the turn of the groups keep a stream of
\* CRITICAL requests from starving it.  (It holds where the limits nest, as group
\* in tenant in total do; a waiter that needs a lane and a tenant that others keep
\* busy in turn may wait for ever.)
NoStarvation ==
  (\A r \in Request : []<>(pc[r] # "held") /\ <>[](r \notin stopped)) =>
    \A r \in Request : pc[r] = "waiting" ~> pc[r] # "waiting"
============================================================================
