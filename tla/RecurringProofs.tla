-------------------------- MODULE RecurringProofs --------------------------
(***************************************************************************)
(* Theorems about Recurring for any finite set of children, any deadlines, *)
(* failure policy, mailbox capacity and serial budget.                     *)
(***************************************************************************)
EXTENDS Recurring, SequenceTheorems, FiniteSetTheorems, TLAPS

(***************************************************************************)
(* The inductive invariant.                                                *)
(***************************************************************************)
Item == [child: Child, live: BOOLEAN]

\* TypeOK without the permits.
RecordType == record \in [Child -> Record] /\ overdue \subseteq Timed
CallType ==
  call \in [Child -> {"idle", "entered", "reserved", "registered", "bound", "armed",
                      "leaving", "returned"}]
LaneType ==
  /\ mailbox \in Seq(Item) /\ Len(mailbox) <= Capacity
  /\ tick \in Tick \cup {None} /\ run \in Run \cup {None} /\ others \in Nat
GroupType ==
  /\ groupCancelled \in BOOLEAN /\ owes \subseteq Thread /\ todo \in [Thread -> SUBSET Child]
CloseType ==
  /\ sealed \in BOOLEAN /\ laneClosed \in BOOLEAN /\ jammed \in BOOLEAN
  /\ closer \in {"open", "sealed", "sweep", "drain", "decide", "closed"}
  /\ quiesced \in BOOLEAN /\ drained \in BOOLEAN /\ converged \in BOOLEAN
  /\ closes \in 0..MaxCloses

Types == RecordType /\ CallType /\ LaneType /\ GroupType /\ CloseType

\* A run of the child is queued in the mailbox; no child has two there.
InBox(m, c) == \E i \in 1..Len(m) : m[i].live /\ m[i].child = c
Once(m) == \A i, j \in 1..Len(m) : m[i].live /\ m[j].live /\ m[i].child = m[j].child => i = j

\* A child has a run in the lane.
Live(c) == InBox(mailbox, c) \/ Running(c)

\* It has one: queued once, or running.
Single == Once(mailbox) /\ \A c \in Child : Running(c) => ~InBox(mailbox, c)

\* The record holds the run, or the tick that submitted it has yet to hand it over;
\* and a tick that is to submit one finds none.
Tracked ==
  \A c \in Child :
    /\ Live(c) => record[c].held \/ At(c, "handed") \/ At(c, "watched")
    /\ At(c, "acquire") \/ At(c, "permitted") => ~Live(c)

\* The permits out stay within the budget.
WithinBudget == Held + others <= Permits

\* Nothing of the child is left in the timer.
Done(c) == record[c].timer \in {"none", "dead"} /\ ~record[c].alarm

\* What is in the timer can be cancelled through the record of the child.
Reachable ==
  \A c \in Child :
    /\ record[c].state = "none" => Done(c)
    /\ record[c].timer = "live" => record[c].bound \/ call[c] = "registered"
    /\ call[c] \in {"reserved", "registered", "bound", "armed"} => record[c].state # "none"

\* After close() found no call in its scope, its sweep reaches every child.
Swept ==
  quiesced => /\ sealed /\ InScope = {}
              /\ \A c \in Child : \/ Done(c)
                                  \/ c \in todo["closer"] /\ closer \in {"sealed", "sweep"}

\* What close() found stays true.
Closed ==
  /\ closer # "open" => sealed
  /\ closer \in {"drain", "decide", "closed"} => laneClosed
  /\ drained /\ closer \in {"decide", "closed"} => mailbox = <<>> /\ run = None
  /\ converged => closer = "closed" /\ quiesced /\ drained

IInv == Types /\ Single /\ Tracked /\ WithinBudget /\ Reachable /\ Swept /\ Closed

(***************************************************************************)
(* The transitions of a record.                                            *)
(***************************************************************************)

\* Nothing new gets into the timer, and what is bound is not forgotten there.
WindsDown(r, s) ==
  /\ s.timer \in {r.timer, "dead"}
  /\ s.timer = "live" /\ r.bound => s.bound
  /\ s.alarm => r.alarm
  /\ s.state = "none" => r.state = "none" /\ s.timer = r.timer
  /\ s.state # "none" \/ r.state = "none"

LEMMA SameWindsDown == \A r : WindsDown(r, r)
  BY DEF WindsDown

LEMMA DropMoves ==
  ASSUME NEW r \in Record
  PROVE  /\ Drop(r) \in Record /\ Drop(r).held = r.held /\ WindsDown(r, Drop(r))
         /\ ~Drop(r).alarm /\ (r.bound => Drop(r).timer = "dead") /\ Drop(r).state # "none"
  BY DEF Drop, Halt, Record, Terminal, WindsDown

LEMMA StopMoves ==
  ASSUME NEW r \in Record
  PROVE  Stop(r) \in Record /\ Stop(r).held = r.held /\ WindsDown(r, Stop(r))
  BY DEF Stop, Record, Terminal, WindsDown

LEMMA FailMoves ==
  ASSUME NEW r \in Record
  PROVE  Fail(r) \in Record /\ Fail(r).held = r.held /\ WindsDown(r, Fail(r))
  BY DEF Fail, Halt, Record, Terminal, WindsDown

LEMMA LapseMoves ==
  ASSUME NEW r \in Record
  PROVE  Lapse(r) \in Record /\ Lapse(r).held = r.held /\ WindsDown(r, Lapse(r))
  BY DEF Lapse, Halt, Record, Terminal, WindsDown

LEMMA HoldingMoves ==
  ASSUME NEW r \in Record, NEW c, Queued(c) \in BOOLEAN
  PROVE  /\ Holding(c, r) \in Record /\ (Holding(c, r).held <=> r.held /\ ~Queued(c))
         /\ Holding(c, r).timer = r.timer /\ Holding(c, r).alarm = r.alarm
         /\ Holding(c, r).bound = r.bound /\ Holding(c, r).state = r.state
  BY DEF Holding, Record

\* What a step does to the record of a child, apart from the call that schedules it.
Unwinds ==
  /\ record' \in [Child -> Record]
  /\ \A d \in Child : WindsDown(record[d], record'[d])

\* The runs that records hold stay the same.
SameHeld == \A d \in Child : record'[d].held = record[d].held

\* The queued run of a child is revoked, if its record holds it.
Revokes(c) ==
  \/ UNCHANGED mailbox /\ SameHeld
  \/ /\ record[c].held
     /\ mailbox' = [i \in DOMAIN mailbox |-> IF mailbox[i].child = c
                      THEN [mailbox[i] EXCEPT !.live = FALSE] ELSE mailbox[i]]
     /\ record'[c].held <=> ~Queued(c)
     /\ \A d \in Child \ {c} : record'[d].held = record[d].held

LEMMA QueuedType == \A c : Queued(c) \in BOOLEAN
  BY DEF Queued

LEMMA CancelChildMoves ==
  ASSUME RecordType, NEW c \in Child, CancelChild(c)
  PROVE  /\ Unwinds /\ Revokes(c) /\ ~record'[c].alarm /\ record'[c].state # "none"
         /\ record[c].bound => record'[c].timer = "dead"
<1> DEFINE r == record[c]  s == Holding(c, Drop(r))
<1>1. /\ r \in Record /\ record \in [Child -> Record]
      /\ record' = [record EXCEPT ![c] = s] /\ Revoke(c)
  BY DEF RecordType, CancelChild
<1>2. /\ Drop(r) \in Record /\ Drop(r).held = r.held /\ WindsDown(r, Drop(r))
      /\ ~Drop(r).alarm /\ (r.bound => Drop(r).timer = "dead") /\ Drop(r).state # "none"
  BY <1>1, DropMoves
<1>3. /\ s \in Record /\ (s.held <=> Drop(r).held /\ ~Queued(c))
      /\ s.timer = Drop(r).timer /\ s.alarm = Drop(r).alarm
      /\ s.bound = Drop(r).bound /\ s.state = Drop(r).state
  BY <1>2, HoldingMoves, QueuedType
<1> HIDE DEF s
<1>4. record'[c] = s /\ \A d \in Child \ {c} : record'[d] = record[d]
  BY <1>1
<1>5. Unwinds
  BY <1>1, <1>2, <1>3, <1>4, SameWindsDown DEF Unwinds, WindsDown
<1>6. Revokes(c)
  <2>1. CASE r.held
    BY <1>1, <1>2, <1>3, <1>4, <2>1 DEF Revokes, Revoke, Record
  <2>2. CASE ~r.held
    <3>1. UNCHANGED mailbox
      BY <1>1, <2>2 DEF Revoke
    <3>2. record'[c].held = record[c].held
      BY <1>1, <1>2, <1>3, <1>4, <2>2 DEF Record
    <3> QED
      BY <1>4, <3>1, <3>2 DEF Revokes, SameHeld
  <2> QED
    BY <2>1, <2>2
<1> QED
  BY <1>2, <1>3, <1>4, <1>5, <1>6

LEMMA ExpireMoves ==
  ASSUME RecordType, GroupType, NEW c \in Child, NEW h \in Thread, Expire(c, h)
  PROVE  /\ Unwinds /\ Revokes(c) /\ UNCHANGED todo
         /\ groupCancelled' \in BOOLEAN /\ owes' \subseteq Thread
<1> DEFINE r == record[c]  s == Holding(c, Lapse(r))
<1>1. r \in Record /\ record \in [Child -> Record]
  BY DEF RecordType
<1>2. CASE r.state \in Terminal
  BY <1>1, <1>2, SameWindsDown
  DEF Expire, Unwinds, Revokes, SameHeld, RecordType, GroupType, groupVars
<1>3. CASE r.state \notin Terminal
  <2>1. record' = [record EXCEPT ![c] = s] /\ Revoke(c) /\ FailGroup(h)
    BY <1>3 DEF Expire
  <2>2. Lapse(r) \in Record /\ Lapse(r).held = r.held /\ WindsDown(r, Lapse(r))
    BY <1>1, LapseMoves
  <2>3. /\ s \in Record /\ (s.held <=> Lapse(r).held /\ ~Queued(c))
        /\ s.timer = Lapse(r).timer /\ s.alarm = Lapse(r).alarm
        /\ s.bound = Lapse(r).bound /\ s.state = Lapse(r).state
    BY <2>2, HoldingMoves, QueuedType
  <2> HIDE DEF s
  <2>4. record'[c] = s /\ \A d \in Child \ {c} : record'[d] = record[d]
    BY <1>1, <2>1
  <2>5. Unwinds
    BY <1>1, <2>1, <2>2, <2>3, <2>4, SameWindsDown DEF Unwinds, WindsDown
  <2>6. Revokes(c)
    <3>1. CASE r.held
      BY <2>1, <2>2, <2>3, <2>4, <3>1 DEF Revokes, Revoke, Record
    <3>2. CASE ~r.held
      <4>1. UNCHANGED mailbox
        BY <2>1, <3>2 DEF Revoke
      <4>2. record'[c].held = record[c].held
        BY <1>1, <2>2, <2>3, <2>4, <3>2 DEF Record
      <4> QED
        BY <2>4, <4>1, <4>2 DEF Revokes, SameHeld
    <3> QED
      BY <3>1, <3>2
  <2>7. UNCHANGED todo /\ groupCancelled' \in BOOLEAN /\ owes' \subseteq Thread
    BY <2>1 DEF FailGroup, CancelGroup, GroupType, groupVars
  <2> QED
    BY <2>5, <2>6, <2>7
<1> QED
  BY <1>2, <1>3

LEMMA MarkStoppedMoves ==
  ASSUME RecordType, GroupType, NEW c \in Child, MarkStopped(c)
  PROVE  Unwinds /\ SameHeld /\ UNCHANGED groupVars
<1>1. /\ record[c] \in Record /\ record \in [Child -> Record] /\ UNCHANGED groupVars
      /\ record' = [record EXCEPT ![c] = Stop(record[c])]
  BY DEF RecordType, MarkStopped
<1>2. /\ Stop(record[c]) \in Record /\ Stop(record[c]).held = record[c].held
      /\ WindsDown(record[c], Stop(record[c]))
  BY <1>1, StopMoves
<1> QED
  BY <1>1, <1>2, SameWindsDown DEF Unwinds, SameHeld

LEMMA MarkFailedMoves ==
  ASSUME RecordType, GroupType, NEW c \in Child, NEW h \in Thread, MarkFailed(c, h)
  PROVE  /\ Unwinds /\ SameHeld /\ UNCHANGED todo
         /\ groupCancelled' \in BOOLEAN /\ owes' \subseteq Thread
<1>1. record[c] \in Record /\ record \in [Child -> Record]
  BY DEF RecordType
<1>2. CASE record[c].state \in Terminal
  BY <1>1, <1>2, SameWindsDown
  DEF MarkFailed, Unwinds, SameHeld, RecordType, GroupType, groupVars
<1>3. CASE record[c].state \notin Terminal
  <2>1. record' = [record EXCEPT ![c] = Fail(record[c])] /\ FailGroup(h)
    BY <1>3 DEF MarkFailed
  <2>2. /\ Fail(record[c]) \in Record /\ Fail(record[c]).held = record[c].held
        /\ WindsDown(record[c], Fail(record[c]))
    BY <1>1, FailMoves
  <2>3. Unwinds /\ SameHeld
    BY <1>1, <2>1, <2>2, SameWindsDown DEF Unwinds, SameHeld
  <2>4. UNCHANGED todo /\ groupCancelled' \in BOOLEAN /\ owes' \subseteq Thread
    BY <2>1 DEF FailGroup, CancelGroup, GroupType, groupVars
  <2> QED
    BY <2>3, <2>4
<1> QED
  BY <1>2, <1>3

LEMMA NoteMoves ==
  ASSUME RecordType, GroupType, NEW c \in Child, NEW h \in Thread, NEW out, Note(c, out, h)
  PROVE  /\ Unwinds /\ SameHeld /\ UNCHANGED todo
         /\ groupCancelled' \in BOOLEAN /\ owes' \subseteq Thread
<1>1. CASE UNCHANGED <<record, groupVars>>
  BY <1>1, SameWindsDown DEF Unwinds, SameHeld, RecordType, GroupType, groupVars
<1>2. CASE MarkStopped(c)
  BY <1>2, MarkStoppedMoves DEF GroupType, groupVars
<1> QED
  BY <1>1, <1>2, MarkFailedMoves DEF Note

(***************************************************************************)
(* The mailbox of the lane.                                                *)
(***************************************************************************)
LEMMA BoxIs ==
  ASSUME NEW m \in Seq(Item), NEW c
  PROVE  (\E i \in DOMAIN m : m[i] = [child |-> c, live |-> TRUE]) <=> InBox(m, c)
<1>1. DOMAIN m = 1..Len(m) /\ \A i \in 1..Len(m) : m[i] \in Item
  OBVIOUS
<1>2. \A e \in Item : e = [child |-> c, live |-> TRUE] <=> e.live /\ e.child = c
  BY DEF Item
<1> QED
  BY <1>1, <1>2 DEF InBox

LEMMA AppendBox ==
  ASSUME NEW m \in Seq(Item), NEW c \in Child, Once(m), ~InBox(m, c)
  PROVE  LET n == Append(m, [child |-> c, live |-> TRUE])
         IN  /\ n \in Seq(Item) /\ Len(n) = Len(m) + 1 /\ Once(n)
             /\ \A d \in Child : InBox(n, d) <=> InBox(m, d) \/ d = c
<1> DEFINE e == [child |-> c, live |-> TRUE]  n == Append(m, e)
<1>1. e \in Item /\ e.live /\ e.child = c
  BY DEF Item
<1> HIDE DEF e
<1>2. /\ n \in Seq(Item) /\ Len(n) = Len(m) + 1 /\ Len(m) \in Nat
      /\ n[Len(m) + 1] = e /\ \A i \in 1..Len(m) : n[i] = m[i]
  BY <1>1
<1> HIDE DEF n
<1>3. Once(n)
  BY <1>1, <1>2 DEF Once, InBox
<1>4. \A d \in Child : InBox(n, d) <=> InBox(m, d) \/ d = c
  BY <1>1, <1>2 DEF InBox
<1> QED
  BY <1>2, <1>3, <1>4 DEF n, e

LEMMA TailBox ==
  ASSUME NEW m \in Seq(Item), m # <<>>, Once(m)
  PROVE  /\ Tail(m) \in Seq(Item) /\ Len(Tail(m)) <= Len(m) /\ Once(Tail(m)) /\ Head(m) \in Item
         /\ \A d \in Child : InBox(Tail(m), d) <=> InBox(m, d) /\ ~(Head(m).live /\ Head(m).child = d)
<1> DEFINE n == Tail(m)  h == Head(m)
<1>1. /\ n \in Seq(Item) /\ Len(n) = Len(m) - 1 /\ Len(m) \in Nat \ {0} /\ h \in Item
      /\ h = m[1] /\ \A i \in 1..Len(n) : n[i] = m[i + 1]
  OBVIOUS
<1> HIDE DEF n, h
<1>2. Once(n)
  BY <1>1 DEF Once
<1>3. \A d \in Child : InBox(n, d) <=> InBox(m, d) /\ ~(h.live /\ h.child = d)
  <2> SUFFICES ASSUME NEW d \in Child
               PROVE  InBox(n, d) <=> InBox(m, d) /\ ~(h.live /\ h.child = d)
    OBVIOUS
  <2>1. ASSUME InBox(n, d) PROVE InBox(m, d) /\ ~(h.live /\ h.child = d)
    <3>1. PICK i \in 1..Len(n) : n[i].live /\ n[i].child = d
      BY <2>1 DEF InBox
    <3>2. i + 1 \in 1..Len(m) /\ m[i + 1].live /\ m[i + 1].child = d /\ i + 1 # 1 /\ 1 \in 1..Len(m)
      BY <1>1, <3>1
    <3> QED
      BY <1>1, <3>2 DEF InBox, Once
  <2>2. ASSUME InBox(m, d), ~(h.live /\ h.child = d) PROVE InBox(n, d)
    <3>1. PICK i \in 1..Len(m) : m[i].live /\ m[i].child = d
      BY <2>2 DEF InBox
    <3>2. i - 1 \in 1..Len(n) /\ n[i - 1] = m[i]
      BY <1>1, <2>2, <3>1
    <3> QED
      BY <3>1, <3>2 DEF InBox
  <2> QED
    BY <2>1, <2>2
<1> QED
  BY <1>1, <1>2, <1>3 DEF n, h

LEMMA RevokeBox ==
  ASSUME NEW m \in Seq(Item), NEW c \in Child, Once(m),
         NEW n, n = [i \in DOMAIN m |-> IF m[i].child = c THEN [m[i] EXCEPT !.live = FALSE] ELSE m[i]]
  PROVE  /\ n \in Seq(Item) /\ Len(n) = Len(m) /\ Once(n)
         /\ \A d \in Child : InBox(n, d) <=> InBox(m, d) /\ d # c
<1>1. DOMAIN m = 1..Len(m) /\ Len(m) \in Nat /\ \A i \in 1..Len(m) : m[i] \in Item
  OBVIOUS
<1>2. \A e \in Item : [e EXCEPT !.live = FALSE] \in Item
  BY DEF Item
<1>3. n \in Seq(Item) /\ Len(n) = Len(m)
  BY <1>1, <1>2
<1>4. \A i \in 1..Len(m) : n[i].child = m[i].child /\ (n[i].live <=> m[i].live /\ m[i].child # c)
  BY <1>1 DEF Item
<1>5. Once(n)
  BY <1>3, <1>4 DEF Once
<1>6. \A d \in Child : InBox(n, d) <=> InBox(m, d) /\ d # c
  BY <1>3, <1>4 DEF InBox
<1> QED
  BY <1>3, <1>5, <1>6

\* As many live items as children with one.
LEMMA LiveCount ==
  ASSUME NEW m \in Seq(Item), IsFiniteSet(Child), Once(m)
  PROVE  Cardinality({i \in DOMAIN m : m[i].live}) = Cardinality({c \in Child : InBox(m, c)})
<1> DEFINE A == {c \in Child : InBox(m, c)}  B == {i \in DOMAIN m : m[i].live}
           f == [c \in A |-> CHOOSE i \in 1..Len(m) : m[i].live /\ m[i].child = c]
<1>1. DOMAIN m = 1..Len(m) /\ \A i \in 1..Len(m) : m[i].child \in Child
  <2>1. \A e \in Item : e.child \in Child
    BY DEF Item
  <2> QED
    BY <2>1
<1>2. \A c \in A : f[c] \in 1..Len(m) /\ m[f[c]].live /\ m[f[c]].child = c
  BY Zenon DEF InBox
<1>3. f \in [A -> B]
  BY <1>1, <1>2
<1> HIDE DEF f
<1>4. \A b \in B : m[b].child \in A /\ f[m[b].child] = b
  <2> SUFFICES ASSUME NEW b \in B PROVE m[b].child \in A /\ f[m[b].child] = b
    OBVIOUS
  <2>1. b \in 1..Len(m) /\ m[b].live
    BY <1>1
  <2>2. m[b].child \in A
    BY <1>1, <2>1 DEF InBox
  <2> QED
    BY <1>2, <2>1, <2>2 DEF Once
<1>5. f \in Bijection(A, B)
  <2>1. f \in Surjection(A, B)
    BY <1>3, <1>4 DEF Surjection
  <2>2. f \in Injection(A, B)
    BY <1>2, <1>3 DEF Injection, IsInjective
  <2> QED
    BY <2>1, <2>2 DEF Bijection
<1>6. IsFiniteSet(A) /\ ExistsBijection(A, B)
  <2>1. IsFiniteSet(A)
    BY FS_Subset
  <2>2. ExistsBijection(A, B)
    BY <1>5 DEF ExistsBijection
  <2> QED
    BY <2>1, <2>2
<1>7. Cardinality(B) = Cardinality(A)
  BY <1>6, FS_Bijection
<1> QED
  BY <1>7

(***************************************************************************)
(* The permits.                                                            *)
(***************************************************************************)
Places(m) == {c \in Child : InBox(m, c)}
RunPermit(r) == IF r # None /\ r.at \in {"start", "body"} THEN 1 ELSE 0
TickPermit(t) == IF t # None /\ t.at = "permitted" THEN 1 ELSE 0

LEMMA PlacesFinite == \A m : IsFiniteSet(Places(m)) /\ Cardinality(Places(m)) \in Nat
<1> TAKE m
<1>1. IsFiniteSet(Child) /\ Places(m) \subseteq Child
  BY RecurringAssumption DEF Places
<1>2. IsFiniteSet(Places(m))
  BY <1>1, FS_Subset
<1> QED
  BY <1>2, FS_CardinalityType

LEMMA HeldIs ==
  ASSUME mailbox \in Seq(Item), Once(mailbox)
  PROVE  Held = Cardinality(Places(mailbox)) + RunPermit(run) + TickPermit(tick)
<1>1. Cardinality({i \in DOMAIN mailbox : mailbox[i].live}) = Cardinality(Places(mailbox))
  BY LiveCount, RecurringAssumption DEF Places
<1> QED
  BY <1>1 DEF Held, RunPermit, TickPermit

LEMMA HeldWillBe ==
  ASSUME mailbox' \in Seq(Item), Once(mailbox)'
  PROVE  Held' = Cardinality(Places(mailbox')) + RunPermit(run') + TickPermit(tick')
<1>1. Cardinality({i \in DOMAIN mailbox' : mailbox'[i].live}) = Cardinality(Places(mailbox'))
  BY LiveCount, RecurringAssumption DEF Places, Once
<1> QED
  BY <1>1 DEF Held, RunPermit, TickPermit

LEMMA PermitTypes ==
  \A x : RunPermit(x) \in Nat /\ RunPermit(x) <= 1 /\ TickPermit(x) \in Nat /\ TickPermit(x) <= 1
  BY DEF RunPermit, TickPermit

LEMMA OneMorePlace ==
  ASSUME NEW m, NEW n, NEW c \in Child, ~InBox(m, c),
         \A d \in Child : InBox(n, d) <=> InBox(m, d) \/ d = c
  PROVE  Cardinality(Places(n)) = Cardinality(Places(m)) + 1
<1>1. Places(n) = Places(m) \cup {c} /\ c \notin Places(m)
  BY DEF Places
<1> QED
  BY <1>1, PlacesFinite, FS_AddElement

LEMMA OnePlaceLess ==
  ASSUME NEW m, NEW n, NEW c \in Child, InBox(m, c),
         \A d \in Child : InBox(n, d) <=> InBox(m, d) /\ d # c
  PROVE  Cardinality(Places(n)) = Cardinality(Places(m)) - 1
<1>1. Places(n) = Places(m) \ {c} /\ c \in Places(m)
  BY DEF Places
<1> QED
  BY <1>1, PlacesFinite, FS_RemoveElement

LEMMA NoMorePlaces ==
  ASSUME NEW m, NEW n, \A d \in Child : InBox(n, d) => InBox(m, d)
  PROVE  Cardinality(Places(n)) <= Cardinality(Places(m))
<1>1. Places(n) \subseteq Places(m)
  BY DEF Places
<1> QED
  BY <1>1, PlacesFinite, FS_Subset

(***************************************************************************)
(* What the steps do to the runs in the lane and to the permits.           *)
(***************************************************************************)
LaneInv == Single /\ Tracked /\ WithinBudget

\* The tick goes on, or ends with no run to hand over.
TickMoves ==
  /\ UNCHANGED <<mailbox, run>> /\ SameHeld
  /\ \A c \in Child : At(c, "handed") \/ At(c, "watched") => At(c, "handed")' \/ At(c, "watched")'
  /\ \A c \in Child : At(c, "acquire")' \/ At(c, "permitted")'
       => At(c, "acquire") \/ At(c, "permitted") \/ (At(c, "look") /\ ~record[c].held)
  /\ TickPermit(tick') <= TickPermit(tick) \/ Free

LEMMA TickMovesKeeps ==
  ASSUME LaneType, LaneType', LaneInv, TickMoves, UNCHANGED others
  PROVE  LaneInv'
<1>1. Single'
  BY DEF LaneInv, Single, TickMoves, Once, InBox, Running
<1>2. \A c \in Child : Live(c)' <=> Live(c)
  BY DEF TickMoves, Live, InBox, Running
<1>3. \A c \in Child : At(c, "look") => ~At(c, "handed") /\ ~At(c, "watched")
  BY DEF At
<1>4. Tracked'
  BY <1>2, <1>3 DEF LaneInv, Tracked, TickMoves, SameHeld
<1>5. WithinBudget'
  <2> DEFINE n == Cardinality(Places(mailbox))
  <2>1. Held = n + RunPermit(run) + TickPermit(tick)
    BY HeldIs DEF LaneInv, Single, LaneType
  <2>2. Held' = n + RunPermit(run) + TickPermit(tick')
    BY <1>1, HeldWillBe DEF Single, LaneType, TickMoves, RunPermit
  <2>3. n \in Nat /\ others \in Nat /\ Permits \in Nat
    BY PlacesFinite, RecurringAssumption DEF LaneType
  <2> HIDE DEF n
  <2>4. TickPermit(tick') <= TickPermit(tick) \/ n + RunPermit(run) + TickPermit(tick) + others < Permits
    BY <2>1 DEF TickMoves, Free
  <2>5. n + RunPermit(run) + TickPermit(tick) + others <= Permits
    BY <2>1 DEF LaneInv, WithinBudget
  <2>6. Held' + others <= Permits
    <3>1. n + RunPermit(run) + TickPermit(tick') + others <= Permits
      BY ONLY <2>3, <2>4, <2>5, PermitTypes
    <3> QED
      BY <2>2, <3>1
  <2>7. others' = others
    OBVIOUS
  <2> QED
    BY <2>6, <2>7 DEF WithinBudget
<1> QED
  BY <1>1, <1>4, <1>5 DEF LaneInv

LEMMA OthersKeep ==
  ASSUME LaneType, LaneType', LaneInv, UNCHANGED <<mailbox, run, tick>>, SameHeld,
         (others' = others + 1 /\ Free) \/ others' = others - 1
  PROVE  LaneInv'
<1>1. Single' /\ Tracked'
  BY DEF LaneInv, Single, Tracked, Once, InBox, Live, Running, At, SameHeld
<1>2. Held' = Held
  BY DEF Held
<1>3. Held \in Nat
  <2>1. Held = Cardinality(Places(mailbox)) + RunPermit(run) + TickPermit(tick)
    BY HeldIs DEF LaneInv, Single, LaneType
  <2> QED
    BY <2>1, PlacesFinite, PermitTypes
<1>4. WithinBudget'
  <2>1. Held + others <= Permits /\ others \in Nat /\ Permits \in Nat
    BY RecurringAssumption DEF LaneInv, WithinBudget, LaneType
  <2>2. (others' = others + 1 /\ Held + others < Permits) \/ others' = others - 1
    BY DEF Free
  <2>3. Held + others' <= Permits
    BY <1>3, <2>1, <2>2
  <2> QED
    BY <1>2, <2>3 DEF WithinBudget
<1> QED
  BY <1>1, <1>4 DEF LaneInv

LEMMA RevokesKeeps ==
  ASSUME LaneType, LaneType', LaneInv, NEW c \in Child, Revokes(c), UNCHANGED <<run, others>>,
         UNCHANGED tick \/ (At(c, "look") /\ tick' = None)
  PROVE  LaneInv'
<1>1. CASE UNCHANGED mailbox /\ SameHeld
  <2>1. TickMoves
    <3>1. TickPermit(tick') <= TickPermit(tick)
      BY PermitTypes DEF TickPermit
    <3> QED
      BY <1>1, <3>1 DEF TickMoves, At
  <2> QED
    BY <2>1, TickMovesKeeps
<1>2. CASE ~(UNCHANGED mailbox /\ SameHeld)
  <2>1. /\ mailbox' \in Seq(Item) /\ Once(mailbox')
        /\ \A d \in Child : InBox(mailbox', d) <=> InBox(mailbox, d) /\ d # c
    BY <1>2, RevokeBox DEF Revokes, LaneType, LaneInv, Single
  <2>2. /\ record'[c].held <=> ~InBox(mailbox, c)
        /\ \A d \in Child \ {c} : record'[d].held = record[d].held
    BY <1>2, BoxIs DEF Revokes, LaneType, Queued
  <2>3. Single'
    BY <2>1 DEF LaneInv, Single, Running, Once, InBox
  <2>4. \A d \in Child : Live(d)' => Live(d) /\ (d = c => Running(c))
    BY <2>1 DEF Live, Running, InBox
  <2>5. Tracked'
    BY <2>2, <2>4 DEF LaneInv, Single, Tracked, At
  <2>6. WithinBudget'
    <3> DEFINE n == Cardinality(Places(mailbox))  m == Cardinality(Places(mailbox'))
    <3>1. Held = n + RunPermit(run) + TickPermit(tick)
      BY HeldIs DEF LaneInv, Single, LaneType
    <3>2. Held' = m + RunPermit(run) + TickPermit(tick')
      BY <2>3, HeldWillBe DEF Single, LaneType, RunPermit
    <3>3. n \in Nat /\ m \in Nat /\ m <= n /\ others \in Nat /\ Permits \in Nat
      BY <2>1, PlacesFinite, NoMorePlaces, RecurringAssumption DEF LaneType
    <3>4. TickPermit(tick') <= TickPermit(tick)
      BY PermitTypes DEF TickPermit
    <3>5. n + RunPermit(run) + TickPermit(tick) + others <= Permits
      BY <3>1 DEF LaneInv, WithinBudget
    <3> HIDE DEF n, m
    <3>6. Held' + others <= Permits
      <4>1. m + RunPermit(run) + TickPermit(tick') + others <= Permits
        BY ONLY <3>3, <3>4, <3>5, PermitTypes
      <4> QED
        BY <3>2, <4>1
    <3>7. others' = others
      OBVIOUS
    <3> QED
      BY <3>6, <3>7 DEF WithinBudget
  <2> QED
    BY <2>3, <2>5, <2>6 DEF LaneInv
<1> QED
  BY <1>1, <1>2

LEMMA SubmitKeeps ==
  ASSUME LaneType, LaneType', LaneInv, NEW c \in Child, Submit(c)
  PROVE  LaneInv'
<1>1. /\ At(c, "permitted") /\ mailbox' = Append(mailbox, [child |-> c, live |-> TRUE])
      /\ UNCHANGED <<record, run, others>> /\ tick' = [tick EXCEPT !.at = "handed"]
  BY DEF Submit, TickTo, worldVars
<1>2. ~InBox(mailbox, c) /\ ~Running(c)
  BY <1>1 DEF LaneInv, Tracked, Live
<1>3. /\ mailbox' \in Seq(Item) /\ Once(mailbox')
      /\ \A d \in Child : InBox(mailbox', d) <=> InBox(mailbox, d) \/ d = c
  BY <1>1, <1>2, AppendBox DEF LaneType, LaneInv, Single
<1>4. Single'
  BY <1>1, <1>2, <1>3 DEF LaneInv, Single, Running, Once, InBox
<1>5. /\ tick \in Tick /\ tick' \in Tick /\ tick' # None
      /\ \A d \in Child : At(d, "handed")' <=> d = c
      /\ ~\E d \in Child : At(d, "handed") \/ At(d, "watched")
      /\ ~\E d \in Child : At(d, "acquire")' \/ At(d, "permitted")'
  <2>1. tick \in Tick
    BY <1>1 DEF At, LaneType
  <2>2. tick' \in Tick /\ tick'.child = tick.child /\ tick'.at = "handed"
    BY <1>1, <2>1 DEF Tick
  <2> QED
    BY <1>1, <2>1, <2>2, RecurringAssumption DEF At
<1>6. \A d \in Child : Live(d)' <=> Live(d) \/ d = c
  BY <1>1, <1>3 DEF Live, Running, InBox
<1>7. Tracked'
  BY <1>1, <1>5, <1>6 DEF LaneInv, Tracked
<1>8. WithinBudget'
  <2> DEFINE n == Cardinality(Places(mailbox))  m == Cardinality(Places(mailbox'))
  <2>1. Held = n + RunPermit(run) + TickPermit(tick)
    BY HeldIs DEF LaneInv, Single, LaneType
  <2>2. Held' = m + RunPermit(run) + TickPermit(tick')
    BY <1>1, <1>4, HeldWillBe DEF Single, LaneType, RunPermit
  <2>3. n \in Nat /\ m = n + 1 /\ others \in Nat /\ Permits \in Nat
    BY <1>2, <1>3, PlacesFinite, OneMorePlace, RecurringAssumption DEF LaneType
  <2>4. TickPermit(tick') = 0 /\ TickPermit(tick) = 1
    <3>1. tick'.at = "handed"
      BY <1>1, <1>5 DEF Tick
    <3> QED
      BY <1>1, <3>1 DEF TickPermit, At
  <2>5. n + RunPermit(run) + TickPermit(tick) + others <= Permits
    BY <2>1 DEF LaneInv, WithinBudget
  <2> HIDE DEF n, m
  <2> QED
    BY <1>1, <2>2, <2>3, <2>4, <2>5, PermitTypes DEF WithinBudget
<1> QED
  BY <1>4, <1>7, <1>8 DEF LaneInv

LEMMA AdoptKeeps ==
  ASSUME RecordType, LaneType, LaneType', LaneInv, NEW c \in Child, Adopt(c)
  PROVE  LaneInv'
<1>1. /\ At(c, "watched") /\ tick' = None /\ UNCHANGED <<mailbox, run, others>>
      /\ record' = [record EXCEPT ![c].held = Queued(c) \/ Running(c)]
  BY DEF Adopt, laneVars, worldVars
<1>2. /\ record'[c].held <=> Live(c)
      /\ \A d \in Child \ {c} : record'[d].held = record[d].held
  <2>1. record'[c].held <=> Queued(c) \/ Running(c)
    BY <1>1 DEF RecordType, Record
  <2> QED
    BY <1>1, <2>1, BoxIs DEF Live, LaneType, Queued, RecordType
<1>3. Single' /\ \A d \in Child : Live(d)' <=> Live(d)
  BY <1>1 DEF LaneInv, Single, Live, Once, InBox, Running
<1>4. Tracked'
  BY <1>1, <1>2, <1>3 DEF LaneInv, Tracked, At
<1>5. WithinBudget'
  <2>1. Held = Cardinality(Places(mailbox)) + RunPermit(run) + TickPermit(tick)
    BY HeldIs DEF LaneInv, Single, LaneType
  <2>2. Held' = Cardinality(Places(mailbox)) + RunPermit(run) + TickPermit(tick')
    BY <1>1, <1>3, HeldWillBe DEF Single, LaneType, RunPermit
  <2>3. TickPermit(tick') = TickPermit(tick)
    BY <1>1 DEF TickPermit, At
  <2> QED
    BY <1>1, <2>1, <2>2, <2>3 DEF LaneInv, WithinBudget
<1> QED
  BY <1>3, <1>4, <1>5 DEF LaneInv

\* The run goes on or ends.
RunMoves ==
  /\ UNCHANGED <<mailbox, others>> /\ TickPermit(tick') = TickPermit(tick)
  /\ RunPermit(run') <= RunPermit(run)
  /\ \A c \in Child : Running(c)' => Running(c)
  /\ \A c \in Child : record'[c].held = record[c].held \/ ~Live(c)'
  /\ \A c \in Child : \A where \in {"acquire", "permitted", "handed", "watched"} :
       At(c, where)' <=> At(c, where)

LEMMA RunMovesKeeps ==
  ASSUME LaneType, LaneType', LaneInv, RunMoves
  PROVE  LaneInv'
<1>1. Single'
  BY DEF LaneInv, Single, RunMoves, Once, InBox
<1>2. \A c \in Child : Live(c)' => Live(c)
  BY DEF RunMoves, Live, InBox
<1>3. Tracked'
  BY <1>2 DEF LaneInv, Tracked, RunMoves
<1>4. WithinBudget'
  <2> DEFINE n == Cardinality(Places(mailbox))
  <2>1. Held = n + RunPermit(run) + TickPermit(tick)
    BY HeldIs DEF LaneInv, Single, LaneType
  <2>2. Held' = n + RunPermit(run') + TickPermit(tick)
    BY <1>1, HeldWillBe DEF Single, LaneType, RunMoves
  <2>3. /\ n \in Nat /\ others \in Nat /\ Permits \in Nat /\ others' = others
        /\ RunPermit(run') <= RunPermit(run)
    BY PlacesFinite, RecurringAssumption DEF LaneType, RunMoves
  <2>4. n + RunPermit(run) + TickPermit(tick) + others <= Permits
    BY <2>1 DEF LaneInv, WithinBudget
  <2> HIDE DEF n
  <2>5. n + RunPermit(run') + TickPermit(tick) + others <= Permits
    BY ONLY <2>3, <2>4, PermitTypes
  <2> QED
    BY <2>2, <2>3, <2>5 DEF WithinBudget
<1> QED
  BY <1>1, <1>3, <1>4 DEF LaneInv

LEMMA SettleMoves ==
  ASSUME RecordType, LaneType, LaneInv, NEW out \in Outcome, run # None,
         run.at \in {"start", "body"}, Settle(out)
  PROVE  /\ Unwinds /\ tick' \in Tick \cup {None} /\ run' \in Run \cup {None}
         /\ UNCHANGED <<mailbox, others>> => RunMoves
<1> PICK c : c = run.child
  OBVIOUS
<1>1. run \in Run /\ c \in Child
  BY DEF LaneType, Run
<1>2. record' = [record EXCEPT ![c].held = FALSE]
  BY DEF Settle
<1>3. /\ record'[c] = [record[c] EXCEPT !.held = FALSE] /\ record'[c] \in Record
      /\ WindsDown(record[c], record'[c]) /\ record'[c].held = FALSE
      /\ \A d \in Child \ {c} : record'[d] = record[d]
  <2>1. record[c] \in Record /\ record \in [Child -> Record]
    BY <1>1 DEF RecordType
  <2>2. /\ record'[c] = [record[c] EXCEPT !.held = FALSE]
        /\ \A d \in Child \ {c} : record'[d] = record[d]
    BY <1>1, <1>2, <2>1
  <2> DEFINE r == record[c]
  <2>3. r \in Record => LET q == [r EXCEPT !.held = FALSE]
                       IN  q \in Record /\ WindsDown(r, q) /\ q.held = FALSE
    BY DEF Record, WindsDown
  <2> QED
    BY <2>1, <2>2, <2>3
<1>4. Unwinds
  BY <1>1, <1>2, <1>3, SameWindsDown DEF Unwinds, RecordType
<1>5. \/ At(c, "handed") /\ run' = None /\ tick' = [tick EXCEPT !.out = out]
      \/ run' = [run EXCEPT !.at = out] /\ UNCHANGED tick
  BY DEF Settle
<1>6. /\ tick' \in Tick \cup {None} /\ TickPermit(tick') = TickPermit(tick)
      /\ \A d \in Child : \A where : At(d, where)' <=> At(d, where)
  <2>1. CASE UNCHANGED tick
    BY <2>1 DEF LaneType, At
  <2>2. CASE At(c, "handed") /\ tick' = [tick EXCEPT !.out = out]
    <3>1. tick \in Tick
      BY <2>2 DEF At, LaneType
    <3>2. tick' \in Tick /\ tick'.child = tick.child /\ tick'.at = tick.at
      BY <2>2, <3>1 DEF Tick
    <3> QED
      BY <2>2, <3>1, <3>2, RecurringAssumption DEF At, TickPermit
  <2> QED
    BY <1>5, <2>1, <2>2
<1>7. run' \in Run \cup {None} /\ (run' = None \/ run'.at \notin {"start", "body"})
  BY <1>1, <1>5 DEF Run, Outcome
<1>8. RunPermit(run') <= RunPermit(run) /\ \A d \in Child : ~Running(d)'
  BY <1>7, PermitTypes DEF RunPermit, Running
<1>9. ASSUME UNCHANGED <<mailbox, others>> PROVE RunMoves
  <2>1. ~Live(c)'
    <3>1. ~InBox(mailbox, c)
      BY <1>1 DEF LaneInv, Single, Running
    <3> QED
      BY <1>1, <1>8, <1>9, <3>1 DEF Live, InBox
  <2>2. \A d \in Child : record'[d].held = record[d].held \/ ~Live(d)'
    BY <1>3, <2>1
  <2> QED
    BY <1>6, <1>8, <1>9, <2>2, Zenon DEF RunMoves
<1> QED
  BY <1>4, <1>6, <1>7, <1>9

LEMMA TakeKeeps ==
  ASSUME LaneType, LaneType', LaneInv, Take
  PROVE  LaneInv'
<1> DEFINE h == Head(mailbox)
<1>1. /\ run = None /\ mailbox # <<>> /\ mailbox' = Tail(mailbox) /\ UNCHANGED <<record, tick, others>>
      /\ run' = IF h.live THEN [child |-> h.child, at |-> "start"] ELSE None
  BY DEF Take, worldVars
<1>2. /\ mailbox' \in Seq(Item) /\ Once(mailbox') /\ h \in Item
      /\ \A d \in Child : InBox(mailbox', d) <=> InBox(mailbox, d) /\ ~(h.live /\ h.child = d)
  BY <1>1, TailBox DEF LaneType, LaneInv, Single
<1>3. h = mailbox[1] /\ 1 \in 1..Len(mailbox)
  BY <1>1 DEF LaneType
<1> HIDE DEF h
<1>4. \A d \in Child : ~Running(d)
  BY <1>1 DEF Running
<1>5. CASE h.live
  <2>1. run' # None /\ run'.child = h.child /\ run'.at = "start" /\ h.child \in Child
    <3>1. [child |-> h.child, at |-> "start"] \in Run /\ h.child \in Child
      BY <1>2 DEF Run, Item
    <3> QED
      BY <1>1, <1>5, <3>1, RecurringAssumption
  <2>2. \A d \in Child : Running(d)' <=> d = h.child
    BY <2>1 DEF Running
  <2>3. InBox(mailbox, h.child)
    BY <1>3, <1>5 DEF InBox
  <2>4. Single'
    BY <1>2, <1>5, <2>2 DEF Single, Once, InBox
  <2>5. \A d \in Child : Live(d)' <=> Live(d)
    BY <1>2, <1>4, <1>5, <2>2, <2>3 DEF Live, InBox
  <2>6. Tracked'
    BY <1>1, <2>5 DEF LaneInv, Tracked, At
  <2>7. WithinBudget'
    <3> DEFINE n == Cardinality(Places(mailbox))
    <3>1. Held = n + RunPermit(run) + TickPermit(tick)
      BY HeldIs DEF LaneInv, Single, LaneType
    <3>2. Held' = (n - 1) + RunPermit(run') + TickPermit(tick)
      <4>1. Cardinality(Places(mailbox')) = n - 1
        BY <1>2, <1>5, <2>1, <2>3, OnePlaceLess
      <4> QED
        BY <1>1, <2>4, <4>1, HeldWillBe DEF Single, LaneType
    <3>3. RunPermit(run) = 0 /\ RunPermit(run') = 1
      BY <1>1, <2>1 DEF RunPermit
    <3>4. n \in Nat
      BY PlacesFinite
    <3> HIDE DEF n
    <3>5. Held' = Held
      BY <3>1, <3>2, <3>3, <3>4, PermitTypes
    <3> QED
      BY <1>1, <3>5 DEF LaneInv, WithinBudget
  <2> QED
    BY <2>4, <2>6, <2>7 DEF LaneInv
<1>6. CASE ~h.live
  <2>1. run' = None /\ \A d \in Child : ~Running(d)'
    BY <1>1, <1>6 DEF Running
  <2>2. Single'
    BY <1>2, <2>1 DEF Single, Once
  <2>3. \A d \in Child : Live(d)' <=> Live(d)
    BY <1>2, <1>4, <1>6, <2>1 DEF Live, InBox
  <2>4. Tracked'
    BY <1>1, <2>3 DEF LaneInv, Tracked, At
  <2>5. WithinBudget'
    <3>1. Places(mailbox') = Places(mailbox)
      BY <1>2, <1>6 DEF Places
    <3>2. Held' = Held
      BY <1>1, <2>1, <2>2, <3>1, HeldIs, HeldWillBe DEF LaneInv, Single, LaneType
    <3> QED
      BY <1>1, <3>2 DEF LaneInv, WithinBudget
  <2> QED
    BY <2>2, <2>4, <2>5 DEF LaneInv
<1> QED
  BY <1>5, <1>6

(***************************************************************************)
(* What the steps do to the timer and to close().                          *)
(***************************************************************************)
Known == {"reserved", "registered", "bound", "armed"}

\* The call that schedules a child goes on, registering nothing.
CallMoves ==
  /\ CallType'
  /\ \A c \in Child : \/ call'[c] = call[c]
                      \/ /\ call[c] # "registered" /\ ~quiesced
                         /\ call'[c] \in Known => call[c] \in Known

\* No run comes to a lane that is closed and empty.
StaysEmpty == laneClosed /\ mailbox = <<>> /\ run = None => mailbox' = <<>> /\ run' = None

\* What the sweep of close() drops is done with.
Worked == quiesced => \A c \in todo["closer"] : c \in todo'["closer"] \/ Done(c)'

\* A step that neither registers a child nor belongs to close().
Aside ==
  /\ Unwinds /\ overdue' \subseteq Timed /\ LaneType' /\ GroupType' /\ CallMoves
  /\ jammed' \in BOOLEAN /\ UNCHANGED closeVars
  /\ Worked /\ StaysEmpty

LEMMA DoneStays ==
  ASSUME RecordType, Unwinds, NEW c \in Child, Done(c)
  PROVE  Done(c)'
<1>1. WindsDown(record[c], record'[c])
  BY DEF Unwinds
<1> QED
  BY <1>1 DEF Done, WindsDown

LEMMA ReachableKeeps ==
  ASSUME RecordType, Reachable, Unwinds, CallMoves
  PROVE  Reachable'
<1> SUFFICES ASSUME NEW c \in Child
             PROVE  /\ record'[c].state = "none" => Done(c)'
                    /\ record'[c].timer = "live" => record'[c].bound \/ call'[c] = "registered"
                    /\ call'[c] \in Known => record'[c].state # "none"
  BY DEF Reachable, Known
<1>1. WindsDown(record[c], record'[c])
  BY DEF Unwinds
<1>2. /\ record[c].state = "none" => Done(c)
      /\ record[c].timer = "live" => record[c].bound \/ call[c] = "registered"
      /\ call[c] \in Known => record[c].state # "none"
  BY DEF Reachable, Known
<1>3. call'[c] = call[c] \/ (call[c] # "registered" /\ (call'[c] \in Known => call[c] \in Known))
  BY DEF CallMoves
<1>4. record'[c].state = "none" => Done(c)'
  BY <1>1, <1>2, DoneStays DEF WindsDown
<1>5. record'[c].timer = "live" => record'[c].bound \/ call'[c] = "registered"
  BY <1>1, <1>2, <1>3 DEF WindsDown
<1>6. call'[c] \in Known => record'[c].state # "none"
  BY <1>1, <1>2, <1>3 DEF WindsDown
<1> QED
  BY <1>4, <1>5, <1>6

LEMMA SweptKeeps ==
  ASSUME RecordType, Swept, Unwinds, CallMoves, UNCHANGED <<quiesced, sealed, closer>>, Worked
  PROVE  Swept'
<1> SUFFICES ASSUME quiesced
             PROVE  /\ sealed /\ InScope' = {}
                    /\ \A c \in Child : \/ Done(c)'
                                        \/ c \in todo'["closer"] /\ closer \in {"sealed", "sweep"}
  BY DEF Swept
<1>1. \A c \in Child : call'[c] = call[c]
  BY DEF CallMoves
<1>2. InScope' = {} /\ sealed
  BY <1>1 DEF Swept, InScope
<1>3. \A c \in Child : Done(c) \/ (c \in todo["closer"] /\ closer \in {"sealed", "sweep"})
  BY DEF Swept
<1> QED
  BY <1>2, <1>3, DoneStays DEF Worked

LEMMA ClosedKeeps ==
  ASSUME Closed, StaysEmpty, UNCHANGED closeVars
  PROVE  Closed'
  BY DEF Closed, StaysEmpty, closeVars

LEMMA AsideKeeps ==
  ASSUME IInv, Aside, LaneInv'
  PROVE  IInv'
<1>1. Types'
  <2>1. RecordType'
    BY DEF RecordType, Aside, Unwinds
  <2>2. CloseType'
    BY DEF Aside, IInv, Types, CloseType, closeVars
  <2> QED
    BY <2>1, <2>2 DEF Types, Aside, CallMoves
<1>2. Reachable'
  BY ReachableKeeps DEF IInv, Types, Aside
<1>3. Swept'
  BY SweptKeeps DEF IInv, Types, Aside, closeVars
<1>4. Closed'
  BY ClosedKeeps DEF IInv, Aside
<1> QED
  BY <1>1, <1>2, <1>3, <1>4 DEF IInv, LaneInv

LEMMA Parts ==
  ASSUME IInv
  PROVE  /\ RecordType /\ CallType /\ LaneType /\ GroupType /\ CloseType /\ LaneInv
         /\ Reachable /\ Swept /\ Closed /\ record \in [Child -> Record] /\ overdue \subseteq Timed
  BY DEF IInv, Types, LaneInv, RecordType

LEMMA SameRecord ==
  ASSUME RecordType, UNCHANGED record
  PROVE  Unwinds /\ SameHeld
  BY SameWindsDown DEF RecordType, Unwinds, SameHeld

LEMMA SameLane ==
  ASSUME LaneType, LaneInv, UNCHANGED <<mailbox, run, tick, others>>, SameHeld
  PROVE  LaneType' /\ LaneInv' /\ StaysEmpty
<1>1. LaneType'
  BY DEF LaneType
<1>2. TickMoves
  <2>1. TickPermit(tick) <= TickPermit(tick)
    BY PermitTypes
  <2> QED
    BY <2>1 DEF TickMoves, At
<1> QED
  BY <1>1, <1>2, TickMovesKeeps DEF StaysEmpty

LEMMA SameGroup ==
  ASSUME GroupType, UNCHANGED groupVars
  PROVE  GroupType' /\ Worked
  BY DEF GroupType, groupVars, Worked

LEMMA SameCall ==
  ASSUME CallType, UNCHANGED call
  PROVE  CallMoves
  BY DEF CallType, CallMoves

LEMMA RevokedLane ==
  ASSUME LaneType, LaneInv, NEW c \in Child, Revokes(c), UNCHANGED <<run, others>>,
         UNCHANGED tick \/ (At(c, "look") /\ tick' = None)
  PROVE  LaneType' /\ LaneInv' /\ StaysEmpty
<1>1. mailbox' \in Seq(Item) /\ Len(mailbox') = Len(mailbox)
  <2>1. CASE UNCHANGED mailbox
    BY <2>1 DEF LaneType
  <2>2. CASE ~UNCHANGED mailbox
    BY <2>2, RevokeBox DEF Revokes, LaneType, LaneInv, Single
  <2> QED
    BY <2>1, <2>2
<1>2. LaneType'
  BY <1>1 DEF LaneType
<1>3. mailbox = <<>> => mailbox' = <<>>
  BY <1>1
<1> QED
  BY <1>2, <1>3, RevokesKeeps DEF StaysEmpty

(***************************************************************************)
(* The steps of the call that schedules a child.                           *)
(***************************************************************************)
LEMMA NotQuiesced ==
  ASSUME IInv, NEW c \in Child, call[c] \notin {"idle", "returned"} \/ ~sealed
  PROVE  ~quiesced
  BY DEF IInv, Swept, InScope

LEMMA CallToMoves ==
  ASSUME IInv, NEW c \in Child, call[c] \notin {"registered", "returned"},
         call[c] = "idle" => ~sealed,
         NEW w \in {"entered", "reserved", "bound", "armed", "leaving", "returned"},
         w \in Known => call[c] \in Known, CallTo(c, w)
  PROVE  CallMoves
<1>1. ~quiesced
  BY NotQuiesced
<1>2. call \in [Child -> {"idle", "entered", "reserved", "registered", "bound", "armed",
                          "leaving", "returned"}]
  BY Parts DEF CallType
<1>3. call' = [call EXCEPT ![c] = w]
  BY DEF CallTo
<1> QED
  BY <1>1, <1>2, <1>3 DEF CallMoves, CallType

\* What only the call itself does to the record of its child.
LEMMA OwnMoves ==
  ASSUME IInv, NEW c \in Child, NEW r \in Record,
         NEW w \in {"reserved", "registered", "bound", "armed"},
         record' = [record EXCEPT ![c] = r], CallTo(c, w), call[c] \notin {"idle", "returned"},
         r.held = record[c].held, r.state # "none",
         r.timer = "live" => r.bound \/ w = "registered",
         UNCHANGED <<groupVars, overdue, tick, laneVars, worldVars, closeVars>>
  PROVE  IInv'
<1>1. record' \in [Child -> Record] /\ record'[c] = r /\ \A d \in Child \ {c} : record'[d] = record[d]
  BY Parts
<1>2. CallType' /\ call'[c] = w /\ \A d \in Child \ {c} : call'[d] = call[d]
  BY Parts DEF CallType, CallTo
<1>3. SameHeld
  BY <1>1 DEF SameHeld
<1>4. LaneType' /\ LaneInv'
  BY <1>3, Parts, SameLane DEF laneVars, worldVars
<1>5. GroupType' /\ CloseType'
  BY Parts, SameGroup DEF CloseType, closeVars, worldVars
<1>6. RecordType'
  BY <1>1, Parts DEF RecordType
<1>7. Reachable'
  <2>1. \A d \in Child : /\ record[d].state = "none" => Done(d)
                         /\ record[d].timer = "live" => record[d].bound \/ call[d] = "registered"
                         /\ call[d] \in {"reserved", "registered", "bound", "armed"}
                              => record[d].state # "none"
    BY Parts DEF Reachable
  <2> QED
    BY <1>1, <1>2, <2>1 DEF Reachable, Done
<1>8. Swept'
  BY NotQuiesced DEF Swept, closeVars
<1>9. Closed'
  BY Parts DEF Closed, closeVars, laneVars
<1> QED
  BY <1>2, <1>4, <1>5, <1>6, <1>7, <1>8, <1>9 DEF IInv, Types, LaneInv

LEMMA CallSteps ==
  ASSUME IInv, NEW c \in Child, Enter(c) \/ FindLaneClosed(c) \/ Leave(c)
  PROVE  IInv'
<1>1. /\ UNCHANGED <<groupVars, record, overdue, tick, laneVars, worldVars, closeVars>>
      /\ \/ call[c] = "idle" /\ ~sealed /\ CallTo(c, "entered")
         \/ call[c] \in {"entered", "leaving"} /\ CallTo(c, "returned")
  BY DEF Enter, FindLaneClosed, Leave
<1>2. CallMoves
  BY <1>1, CallToMoves DEF Known
<1>3. Unwinds /\ LaneType' /\ LaneInv' /\ StaysEmpty
  BY <1>1, Parts, SameRecord, SameLane DEF laneVars, worldVars
<1>4. GroupType' /\ Worked
  BY <1>1, Parts, SameGroup
<1>5. Aside
  BY <1>1, <1>2, <1>3, <1>4, Parts DEF Aside, worldVars, CloseType
<1> QED
  BY <1>3, <1>5, AsideKeeps

LEMMA ReserveStep ==
  ASSUME IInv, NEW c \in Child, Reserve(c)
  PROVE  IInv'
<1>1. /\ UNCHANGED <<groupVars, overdue, tick, laneVars, worldVars, closeVars>>
      /\ call[c] = "entered" /\ CallTo(c, "reserved")
      /\ record' = [record EXCEPT ![c].state = "pending"]
  BY DEF Reserve
<1> DEFINE r == [record[c] EXCEPT !.state = "pending"]
<1>2. r \in Record /\ r.held = record[c].held /\ r.state # "none" /\ (r.timer = "live" => r.bound)
  BY <1>1, Parts DEF Record, Reachable
<1>3. record' = [record EXCEPT ![c] = r]
  BY <1>1
<1> QED
  BY <1>1, <1>2, <1>3, OwnMoves

LEMMA RegisterStep ==
  ASSUME IInv, NEW c \in Child, Register(c)
  PROVE  IInv'
<1>1. /\ UNCHANGED <<groupVars, overdue, tick, laneVars, worldVars, closeVars>>
      /\ call[c] = "reserved" /\ CallTo(c, "registered")
      /\ record' = [record EXCEPT ![c].timer = "live"]
  BY DEF Register
<1> DEFINE r == [record[c] EXCEPT !.timer = "live"]
<1>2. r \in Record /\ r.held = record[c].held /\ r.state # "none"
  BY <1>1, Parts DEF Record, Reachable
<1>3. record' = [record EXCEPT ![c] = r]
  BY <1>1
<1> QED
  BY <1>1, <1>2, <1>3, OwnMoves

LEMMA BindStep ==
  ASSUME IInv, NEW c \in Child, Bind(c)
  PROVE  IInv'
<1> DEFINE r == IF record[c].state \in Terminal \/ record[c].dropped
                THEN [record[c] EXCEPT !.timer = "dead"]
                ELSE [record[c] EXCEPT !.bound = TRUE, !.state = "running"]
<1>1. /\ UNCHANGED <<groupVars, overdue, tick, laneVars, worldVars, closeVars>>
      /\ call[c] = "registered" /\ CallTo(c, "bound") /\ record' = [record EXCEPT ![c] = r]
  BY DEF Bind
<1>2. record[c] \in Record /\ record[c].state # "none"
  BY <1>1, Parts DEF Reachable
<1>3. r \in Record /\ r.held = record[c].held /\ r.state # "none" /\ (r.timer = "live" => r.bound)
  BY <1>2 DEF Record
<1> QED
  BY <1>1, <1>3, OwnMoves

\* The deadline ends the child, by whatever thread.
LEMMA ExpireStep ==
  ASSUME IInv, NEW c \in Child, NEW h \in Thread, Expire(c, h), CallMoves,
         UNCHANGED <<overdue, run, worldVars, closeVars>>,
         UNCHANGED tick \/ (At(c, "look") /\ tick' = None)
  PROVE  IInv'
<1>1. Unwinds /\ Revokes(c) /\ UNCHANGED todo /\ groupCancelled' \in BOOLEAN /\ owes' \subseteq Thread
  BY Parts, ExpireMoves
<1>2. LaneType' /\ LaneInv' /\ StaysEmpty
  BY <1>1, Parts, RevokedLane DEF worldVars
<1>3. GroupType' /\ Worked
  BY <1>1, Parts DEF GroupType, Worked
<1>4. Aside
  BY <1>1, <1>2, <1>3, Parts DEF Aside, worldVars, CloseType
<1> QED
  BY <1>2, <1>4, AsideKeeps

LEMMA ReserveLateStep ==
  ASSUME IInv, NEW c \in Child, ReserveLate(c)
  PROVE  IInv'
<1>1. /\ Expire(c, c) /\ UNCHANGED <<overdue, tick, run, worldVars, closeVars>>
      /\ call[c] = "reserved" /\ CallTo(c, "leaving")
  BY DEF ReserveLate
<1>2. CallMoves
  BY <1>1, CallToMoves DEF Known
<1> QED
  BY <1>1, <1>2, ExpireStep DEF Thread

LEMMA ArmStep ==
  ASSUME IInv, NEW c \in Child, Arm(c)
  PROVE  IInv'
<1>1. /\ call[c] = "bound" /\ CallTo(c, "armed")
      /\ UNCHANGED <<overdue, tick, run, worldVars, closeVars>>
  BY DEF Arm
<1>2. CASE c \in overdue
  <2>1. Expire(c, c)
    BY <1>2 DEF Arm
  <2>2. CallMoves
    BY <1>1, CallToMoves DEF Known
  <2> QED
    BY <1>1, <2>1, <2>2, ExpireStep DEF Thread
<1>3. CASE c \notin overdue
  <2> DEFINE b == c \in Timed /\ record[c].state \notin Terminal  r == [record[c] EXCEPT !.alarm = b]
  <2>1. record' = [record EXCEPT ![c].alarm = b] /\ UNCHANGED <<groupVars, mailbox>>
    BY <1>3 DEF Arm
  <2>2. record' = [record EXCEPT ![c] = r]
    BY <2>1
  <2>3. record[c] \in Record /\ record[c].state # "none" /\ (record[c].timer = "live" => record[c].bound)
    BY <1>1, Parts DEF Reachable
  <2>4. b \in BOOLEAN
    OBVIOUS
  <2> HIDE DEF b
  <2>5. r \in Record /\ r.held = record[c].held /\ r.state # "none" /\ (r.timer = "live" => r.bound)
    BY <2>3, <2>4 DEF Record
  <2> HIDE DEF r
  <2> QED
    BY <1>1, <2>1, <2>2, <2>5, OwnMoves DEF laneVars
<1> QED
  BY <1>2, <1>3

\* The child takes a failure, or is noted as stopped, by whatever thread.
LEMMA MarkStep ==
  ASSUME IInv, Unwinds, SameHeld, UNCHANGED todo, groupCancelled' \in BOOLEAN, owes' \subseteq Thread,
         CallMoves, LaneType', LaneInv', StaysEmpty, UNCHANGED <<overdue, jammed, closeVars>>
  PROVE  IInv'
<1>1. GroupType' /\ Worked
  BY Parts DEF GroupType, Worked
<1>2. Aside
  BY <1>1, Parts DEF Aside, CloseType
<1> QED
  BY <1>2, AsideKeeps

LEMMA RegisterFailsStep ==
  ASSUME IInv, NEW c \in Child, RegisterFails(c)
  PROVE  IInv'
<1>1. /\ call[c] \in {"reserved", "bound"} /\ MarkFailed(c, c) /\ CallTo(c, "leaving")
      /\ UNCHANGED <<overdue, tick, laneVars, worldVars, closeVars>>
  BY DEF RegisterFails
<1>2. CallMoves
  BY <1>1, CallToMoves DEF Known
<1>3. /\ Unwinds /\ SameHeld /\ UNCHANGED todo
      /\ groupCancelled' \in BOOLEAN /\ owes' \subseteq Thread
  BY <1>1, Parts, MarkFailedMoves DEF Thread
<1>4. LaneType' /\ LaneInv' /\ StaysEmpty
  BY <1>1, <1>3, Parts, SameLane DEF laneVars, worldVars
<1> QED
  BY <1>1, <1>2, <1>3, <1>4, MarkStep DEF worldVars

\* A cancellation of the child, by whatever thread.
LEMMA CancelStep ==
  ASSUME IInv, NEW c \in Child, CancelChild(c), CallMoves, GroupType',
         quiesced => \A d \in todo["closer"] : d \in todo'["closer"] \/ d = c,
         UNCHANGED <<overdue, tick, run, worldVars, closeVars>>
  PROVE  IInv'
<1>1. /\ Unwinds /\ Revokes(c) /\ ~record'[c].alarm
      /\ record[c].bound => record'[c].timer = "dead"
  BY Parts, CancelChildMoves
<1>2. LaneType' /\ LaneInv' /\ StaysEmpty
  BY <1>1, Parts, RevokedLane DEF worldVars
<1>3. quiesced => Done(c)'
  <2>1. quiesced => call[c] # "registered"
    BY Parts DEF Swept, InScope
  <2>2. record[c].timer = "live" => record[c].bound \/ call[c] = "registered"
    BY Parts DEF Reachable
  <2>3. record[c] \in Record /\ WindsDown(record[c], record'[c])
    BY <1>1, Parts DEF Unwinds
  <2> QED
    BY <1>1, <2>1, <2>2, <2>3 DEF Done, WindsDown, Record
<1>4. Worked
  BY <1>3 DEF Worked
<1>5. Aside
  BY <1>1, <1>2, <1>4, Parts DEF Aside, worldVars, CloseType
<1> QED
  BY <1>2, <1>5, AsideKeeps

LEMMA LastLookStep ==
  ASSUME IInv, NEW c \in Child, LastLook(c)
  PROVE  IInv'
<1>1. /\ call[c] = "armed" /\ CallTo(c, "returned")
      /\ UNCHANGED <<groupVars, overdue, tick, run, worldVars, closeVars>>
  BY DEF LastLook
<1>2. CallMoves
  BY <1>1, CallToMoves DEF Known
<1>3. GroupType'
  BY <1>1, Parts, SameGroup
<1>4. CASE CancelChild(c)
  BY <1>1, <1>2, <1>3, <1>4, CancelStep DEF groupVars
<1>5. CASE UNCHANGED <<record, mailbox>>
  <2>1. Unwinds /\ SameHeld
    BY <1>5, Parts, SameRecord
  <2>2. LaneType' /\ LaneInv' /\ StaysEmpty
    BY <1>1, <1>5, <2>1, Parts, SameLane DEF worldVars
  <2> QED
    BY <1>1, <1>2, <1>3, <2>1, <2>2, MarkStep DEF GroupType, groupVars, worldVars
<1> QED
  BY <1>4, <1>5 DEF LastLook

LEMMA SchedulingStep ==
  ASSUME IInv, NEW c \in Child, Scheduling(c)
  PROVE  IInv'
  BY CallSteps, ReserveStep, ReserveLateStep, RegisterStep, RegisterFailsStep, BindStep, ArmStep,
     LastLookStep
  DEF Scheduling

LEMMA WorkOffStep ==
  ASSUME IInv, NEW h \in Thread, WorkOff(h)
  PROVE  IInv'
<1>1. PICK c \in todo[h] :
        /\ CancelChild(c) /\ todo' = [todo EXCEPT ![h] = @ \ {c}]
        /\ UNCHANGED <<groupCancelled, owes, overdue, call, tick, run, worldVars, closeVars>>
  BY DEF WorkOff
<1>2. c \in Child /\ todo \in [Thread -> SUBSET Child]
  BY Parts DEF GroupType
<1>3. todo' \in [Thread -> SUBSET Child]
  <2>1. todo[h] \ {c} \in SUBSET Child
    BY <1>2
  <2> QED
    BY <1>1, <1>2, <2>1
<1>4. GroupType'
  BY <1>1, <1>3, Parts DEF GroupType
<1>5. CallMoves
  BY <1>1, Parts, SameCall
<1>6. \A d \in todo["closer"] : d \in todo'["closer"] \/ d = c
  BY <1>1, <1>2
<1> QED
  BY <1>1, <1>2, <1>4, <1>5, <1>6, CancelStep

LEMMA SnapshotStep ==
  ASSUME IInv, NEW h \in Thread, Snapshot(h)
  PROVE  IInv'
<1>1. /\ owes' = owes \ {h} /\ todo' = [todo EXCEPT ![h] = @ \cup Reserved]
      /\ UNCHANGED <<groupCancelled, record, overdue, call, tick, laneVars, worldVars, closeVars>>
  BY DEF Snapshot
<1>2. todo \in [Thread -> SUBSET Child] /\ owes \subseteq Thread /\ groupCancelled \in BOOLEAN
  BY Parts DEF GroupType
<1>3. todo' \in [Thread -> SUBSET Child]
  <2>1. todo[h] \cup Reserved \in SUBSET Child
    BY <1>2 DEF Reserved
  <2> QED
    BY <1>1, <1>2, <2>1
<1>4. GroupType' /\ Worked
  <2>1. \A d \in todo["closer"] : d \in todo'["closer"]
    BY <1>1, <1>2
  <2> QED
    BY <1>1, <1>2, <1>3, <2>1 DEF GroupType, Worked
<1>5. CallMoves /\ Unwinds /\ SameHeld
  BY <1>1, Parts, SameCall, SameRecord
<1>6. LaneType' /\ LaneInv' /\ StaysEmpty
  BY <1>1, <1>5, Parts, SameLane DEF laneVars, worldVars
<1>7. Aside
  BY <1>1, <1>4, <1>5, <1>6, Parts DEF Aside, worldVars, CloseType
<1> QED
  BY <1>6, <1>7, AsideKeeps

(***************************************************************************)
(* The steps of the timer thread.                                          *)
(***************************************************************************)
LEMMA TickAt ==
  ASSUME LaneType, NEW c, NEW w, At(c, w)
  PROVE  /\ tick \in Tick /\ tick # None
         /\ \A d \in Child : \A x : At(d, x) <=> d = c /\ x = w
  BY DEF LaneType, At

LEMMA TickToMoves ==
  ASSUME LaneType, NEW c, NEW w, At(c, w),
         NEW where \in {"look", "acquire", "permitted", "handed", "watched"}, TickTo(where)
  PROVE  /\ tick' \in Tick /\ tick' # None /\ tick'.at = where
         /\ \A d \in Child : \A x : At(d, x)' <=> d = c /\ x = where
<1>1. tick \in Tick /\ tick.child = c /\ tick' = [tick EXCEPT !.at = where]
  BY DEF LaneType, At, TickTo
<1>2. tick' \in Tick /\ tick'.child = c /\ tick'.at = where
  BY <1>1 DEF Tick
<1> QED
  BY <1>2, RecurringAssumption DEF At

LEMMA TickEnds ==
  ASSUME tick' = None
  PROVE  (\A d \in Child : \A x : ~At(d, x)') /\ TickPermit(tick') = 0
  BY DEF At, TickPermit

LEMMA TickStep ==
  ASSUME IInv, TickMoves, tick' \in Tick \cup {None}, Unwinds, UNCHANGED todo,
         groupCancelled' \in BOOLEAN, owes' \subseteq Thread,
         UNCHANGED <<overdue, call, worldVars, closeVars>>
  PROVE  IInv'
<1>1. SameHeld /\ UNCHANGED <<mailbox, run, others>>
  BY DEF TickMoves, worldVars
<1>2. LaneType'
  BY <1>1, Parts DEF LaneType
<1>3. LaneInv'
  BY <1>1, <1>2, Parts, TickMovesKeeps
<1>4. StaysEmpty
  BY <1>1 DEF StaysEmpty
<1>5. CallMoves
  BY Parts, SameCall
<1> QED
  BY <1>1, <1>2, <1>3, <1>4, <1>5, MarkStep DEF worldVars

\* The tick ends without a run.
LEMMA TickDropped ==
  ASSUME IInv, NEW c \in Child, NEW w \in {"look", "acquire", "permitted"}, At(c, w), tick' = None,
         UNCHANGED <<mailbox, run>>, SameHeld
  PROVE  TickMoves
<1>1. \A d \in Child : \A x : At(d, x) <=> d = c /\ x = w
  BY Parts, TickAt
<1>2. (\A d \in Child : \A x : ~At(d, x)') /\ TickPermit(tick') <= TickPermit(tick)
  BY TickEnds, PermitTypes
<1> QED
  BY <1>1, <1>2 DEF TickMoves

LEMMA FireStep ==
  ASSUME IInv, NEW c \in Child, Fire(c)
  PROVE  IInv'
<1>1. /\ tick = None /\ tick' = [child |-> c, at |-> "look", out |-> "none"]
      /\ UNCHANGED <<groupVars, record, overdue, call, laneVars, worldVars, closeVars>>
  BY DEF Fire, TimerFree
<1>2. tick' \in Tick /\ tick'.at = "look"
  BY <1>1 DEF Tick
<1>3. Unwinds /\ SameHeld
  BY <1>1, Parts, SameRecord
<1>4. TickPermit(tick') <= TickPermit(tick)
  BY <1>2, PermitTypes DEF TickPermit
<1>5. TickMoves
  BY <1>1, <1>2, <1>3, <1>4 DEF TickMoves, At, laneVars
<1> QED
  BY <1>1, <1>2, <1>3, <1>5, Parts, TickStep DEF GroupType, groupVars

LEMMA LookStep ==
  ASSUME IInv, NEW c \in Child, Look(c)
  PROVE  IInv'
<1>1. At(c, "look") /\ UNCHANGED <<overdue, call, run, worldVars, closeVars>>
  BY DEF Look
<1>2. CASE tick' = None /\ UNCHANGED <<record, groupVars, mailbox>>
  <2>1. Unwinds /\ SameHeld
    BY <1>2, Parts, SameRecord
  <2>2. TickMoves
    BY <1>1, <1>2, <2>1, TickDropped
  <2> QED
    BY <1>1, <1>2, <2>1, <2>2, Parts, TickStep DEF GroupType, groupVars
<1>3. CASE tick' = None /\ Expire(c, "timer")
  <2>1. CallMoves
    BY <1>1, Parts, SameCall
  <2> QED
    BY <1>1, <1>3, <2>1, ExpireStep DEF Thread
<1>4. CASE ~Skips(record[c]) /\ TickTo("acquire") /\ UNCHANGED <<record, groupVars, mailbox>>
  <2>1. Unwinds /\ SameHeld
    BY <1>4, Parts, SameRecord
  <2>2. /\ tick' \in Tick /\ tick'.at = "acquire"
        /\ \A d \in Child : \A x : At(d, x)' <=> d = c /\ x = "acquire"
        /\ \A d \in Child : \A x : At(d, x) <=> d = c /\ x = "look"
    BY <1>1, <1>4, Parts, TickAt, TickToMoves
  <2>3. ~record[c].held
    BY <1>4 DEF Skips
  <2>4. TickPermit(tick') <= TickPermit(tick)
    BY <2>2, PermitTypes DEF TickPermit
  <2>5. TickMoves
    BY <1>1, <1>4, <2>1, <2>2, <2>3, <2>4 DEF TickMoves
  <2> QED
    BY <1>1, <1>4, <2>1, <2>2, <2>5, Parts, TickStep DEF GroupType, groupVars
<1> QED
  BY <1>2, <1>3, <1>4 DEF Look

LEMMA AcquireStep ==
  ASSUME IInv, NEW c \in Child, Acquire(c)
  PROVE  IInv'
<1>1. /\ At(c, "acquire") /\ Free /\ TickTo("permitted")
      /\ UNCHANGED <<groupVars, record, overdue, call, laneVars, worldVars, closeVars>>
  BY DEF Acquire
<1>2. Unwinds /\ SameHeld
  BY <1>1, Parts, SameRecord
<1>3. /\ tick' \in Tick
      /\ \A d \in Child : \A x : At(d, x)' <=> d = c /\ x = "permitted"
      /\ \A d \in Child : \A x : At(d, x) <=> d = c /\ x = "acquire"
  BY <1>1, Parts, TickAt, TickToMoves
<1>4. TickMoves
  BY <1>1, <1>2, <1>3 DEF TickMoves, laneVars
<1> QED
  BY <1>1, <1>2, <1>3, <1>4, Parts, TickStep DEF GroupType, groupVars

LEMMA TickOverStep ==
  ASSUME IInv, NEW c \in Child, TickCancelled(c) \/ TickFails(c) \/ TickRejected(c)
  PROVE  IInv'
<1>1. /\ At(c, "acquire") \/ At(c, "permitted")
      /\ tick' = None /\ UNCHANGED <<overdue, call, laneVars, worldVars, closeVars>>
      /\ MarkStopped(c) \/ MarkFailed(c, "timer") \/ UNCHANGED <<groupVars, record>>
  BY DEF TickCancelled, TickFails, TickRejected
<1>2. /\ Unwinds /\ SameHeld /\ UNCHANGED todo
      /\ groupCancelled' \in BOOLEAN /\ owes' \subseteq Thread
  <2>1. CASE MarkStopped(c)
    BY <2>1, Parts, MarkStoppedMoves DEF GroupType, groupVars
  <2>2. CASE MarkFailed(c, "timer")
    BY <2>2, Parts, MarkFailedMoves DEF Thread
  <2>3. CASE UNCHANGED <<groupVars, record>>
    BY <2>3, Parts, SameRecord DEF GroupType, groupVars
  <2> QED
    BY <1>1, <2>1, <2>2, <2>3
<1>3. TickMoves
  BY <1>1, <1>2, TickDropped DEF laneVars
<1> QED
  BY <1>1, <1>2, <1>3, TickStep

LEMMA SubmitStep ==
  ASSUME IInv, NEW c \in Child, Submit(c)
  PROVE  IInv'
<1>1. /\ At(c, "permitted") /\ ~laneClosed /\ Len(mailbox) < Capacity /\ TickTo("handed")
      /\ mailbox' = Append(mailbox, [child |-> c, live |-> TRUE])
      /\ UNCHANGED <<groupVars, record, overdue, call, run, worldVars, closeVars>>
  BY DEF Submit
<1>2. [child |-> c, live |-> TRUE] \in Item
  BY DEF Item
<1>3. mailbox' \in Seq(Item) /\ Len(mailbox') <= Capacity
  <2>1. mailbox' \in Seq(Item) /\ Len(mailbox') = Len(mailbox) + 1 /\ Len(mailbox) \in Nat
    BY <1>1, <1>2, Parts DEF LaneType
  <2>2. Capacity \in Nat
    BY RecurringAssumption
  <2> QED
    BY <1>1, <2>1, <2>2
<1>4. tick' \in Tick
  BY <1>1, Parts, TickToMoves
<1>5. LaneType'
  BY <1>1, <1>3, <1>4, Parts DEF LaneType, worldVars
<1>6. LaneInv'
  BY <1>5, Parts, SubmitKeeps
<1>7. Unwinds /\ SameHeld /\ CallMoves
  BY <1>1, Parts, SameRecord, SameCall
<1>8. StaysEmpty
  BY <1>1 DEF StaysEmpty
<1> QED
  BY <1>1, <1>5, <1>6, <1>7, <1>8, Parts, MarkStep DEF GroupType, groupVars, worldVars

LEMMA WatchStep ==
  ASSUME IInv, NEW c \in Child, Watch(c)
  PROVE  IInv'
<1>1. /\ At(c, "handed") /\ Note(c, tick.out, "timer") /\ TickTo("watched")
      /\ UNCHANGED <<overdue, call, laneVars, worldVars, closeVars>>
  BY DEF Watch
<1>2. /\ Unwinds /\ SameHeld /\ UNCHANGED todo
      /\ groupCancelled' \in BOOLEAN /\ owes' \subseteq Thread
  BY <1>1, Parts, NoteMoves DEF Thread
<1>3. /\ tick' \in Tick /\ tick'.at = "watched"
      /\ \A d \in Child : \A x : At(d, x)' <=> d = c /\ x = "watched"
      /\ \A d \in Child : \A x : At(d, x) <=> d = c /\ x = "handed"
  BY <1>1, Parts, TickAt, TickToMoves
<1>4. TickPermit(tick') <= TickPermit(tick)
  BY <1>3, PermitTypes DEF TickPermit
<1>5. TickMoves
  BY <1>1, <1>2, <1>3, <1>4 DEF TickMoves, laneVars
<1> QED
  BY <1>1, <1>2, <1>3, <1>5, TickStep

LEMMA AdoptStep ==
  ASSUME IInv, NEW c \in Child, Adopt(c)
  PROVE  IInv'
<1>1. /\ tick' = None /\ record' = [record EXCEPT ![c].held = Queued(c) \/ Running(c)]
      /\ UNCHANGED <<groupVars, overdue, call, laneVars, worldVars, closeVars>>
  BY DEF Adopt
<1>2. Unwinds
  <2> DEFINE b == Queued(c) \/ Running(c)  r == [record[c] EXCEPT !.held = b]
  <2>1. b \in BOOLEAN
    BY QueuedType DEF Running
  <2> HIDE DEF b
  <2>2. r \in Record /\ WindsDown(record[c], r)
    BY <2>1, Parts DEF Record, WindsDown
  <2>3. record' = [record EXCEPT ![c] = r]
    BY <1>1 DEF b
  <2> HIDE DEF r
  <2> QED
    BY <2>2, <2>3, Parts, SameWindsDown DEF Unwinds
<1>3. LaneType'
  BY <1>1, Parts DEF LaneType, laneVars, worldVars
<1>4. LaneInv'
  BY <1>3, Parts, AdoptKeeps
<1>5. CallMoves /\ GroupType' /\ Worked
  BY <1>1, Parts, SameCall, SameGroup
<1>6. StaysEmpty
  BY <1>1 DEF StaysEmpty, laneVars
<1>7. Aside
  BY <1>1, <1>2, <1>3, <1>5, <1>6, Parts DEF Aside, CloseType, worldVars
<1> QED
  BY <1>4, <1>7, AsideKeeps

LEMMA TickingStep ==
  ASSUME IInv, NEW c \in Child, Ticking(c)
  PROVE  IInv'
  BY FireStep, LookStep, AcquireStep, TickOverStep, SubmitStep, WatchStep, AdoptStep DEF Ticking

LEMMA AlarmStep ==
  ASSUME IInv, NEW c \in Child, Alarm(c)
  PROVE  IInv'
<1>1. UNCHANGED <<overdue, call, tick, run, worldVars, closeVars>>
  BY DEF Alarm
<1>2. CallMoves
  BY <1>1, Parts, SameCall
<1>3. CASE Expire(c, "timer")
  BY <1>1, <1>2, <1>3, ExpireStep DEF Thread
<1>4. CASE record' = [record EXCEPT ![c].alarm = FALSE] /\ UNCHANGED <<groupVars, mailbox>>
  <2> DEFINE r == [record[c] EXCEPT !.alarm = FALSE]
  <2>1. r \in Record /\ WindsDown(record[c], r) /\ r.held = record[c].held
    BY Parts DEF Record, WindsDown
  <2>2. record' = [record EXCEPT ![c] = r]
    BY <1>4
  <2> HIDE DEF r
  <2>3. Unwinds /\ SameHeld
    BY <2>1, <2>2, Parts, SameWindsDown DEF Unwinds, SameHeld
  <2>4. LaneType' /\ LaneInv' /\ StaysEmpty
    BY <1>1, <1>4, <2>3, Parts, SameLane DEF worldVars
  <2> QED
    BY <1>1, <1>2, <1>4, <2>3, <2>4, Parts, MarkStep DEF GroupType, groupVars, worldVars
<1> QED
  BY <1>3, <1>4 DEF Alarm

(***************************************************************************)
(* The steps of the worker.                                                *)
(***************************************************************************)
LEMMA TakeStep ==
  ASSUME IInv, Take
  PROVE  IInv'
<1>1. /\ mailbox # <<>> /\ mailbox' = Tail(mailbox)
      /\ run' = IF Head(mailbox).live THEN [child |-> Head(mailbox).child, at |-> "start"] ELSE None
      /\ UNCHANGED <<groupVars, record, overdue, call, tick, worldVars, closeVars>>
  BY DEF Take
<1>2. /\ mailbox' \in Seq(Item) /\ Len(mailbox') <= Len(mailbox) /\ Head(mailbox) \in Item
  BY <1>1, Parts, TailBox DEF LaneType, LaneInv, Single
<1>3. run' \in Run \cup {None}
  BY <1>1, <1>2 DEF Item, Run
<1>4. Len(mailbox') <= Capacity
  <2>1. Len(mailbox) \in Nat /\ Len(mailbox') \in Nat /\ Capacity \in Nat /\ Len(mailbox) <= Capacity
    BY <1>2, Parts, RecurringAssumption DEF LaneType
  <2> QED
    BY <1>2, <2>1
<1>5. LaneType'
  BY <1>1, <1>2, <1>3, <1>4, Parts DEF LaneType, worldVars
<1>6. LaneInv'
  BY <1>5, Parts, TakeKeeps
<1>7. Unwinds /\ SameHeld /\ CallMoves
  BY <1>1, Parts, SameRecord, SameCall
<1>8. StaysEmpty
  BY <1>1 DEF StaysEmpty
<1> QED
  BY <1>1, <1>5, <1>6, <1>7, <1>8, Parts, MarkStep DEF GroupType, groupVars, worldVars

LEMMA RunStep ==
  ASSUME IInv, RunMoves, run # None, run' \in Run \cup {None}, tick' \in Tick \cup {None}, Unwinds,
         UNCHANGED todo, groupCancelled' \in BOOLEAN, owes' \subseteq Thread,
         UNCHANGED <<overdue, call, mailbox, worldVars, closeVars>>
  PROVE  IInv'
<1>1. LaneType'
  BY Parts DEF LaneType, worldVars
<1>2. LaneInv'
  BY <1>1, Parts, RunMovesKeeps
<1>3. CallMoves
  BY Parts, SameCall
<1>4. StaysEmpty /\ GroupType' /\ Worked
  BY Parts DEF StaysEmpty, GroupType, Worked
<1>5. Aside
  BY <1>1, <1>3, <1>4, Parts DEF Aside, CloseType, worldVars
<1> QED
  BY <1>2, <1>5, AsideKeeps

LEMMA SettleStep ==
  ASSUME IInv, NEW out \in Outcome, run # None, run.at \in {"start", "body"}, Settle(out),
         UNCHANGED <<groupVars, overdue, call, mailbox, worldVars, closeVars>>
  PROVE  IInv'
<1>1. Unwinds /\ RunMoves /\ run' \in Run \cup {None} /\ tick' \in Tick \cup {None}
  BY Parts, SettleMoves DEF worldVars
<1> QED
  BY <1>1, Parts, RunStep DEF GroupType, groupVars

LEMMA BeginStep ==
  ASSUME IInv, Begin
  PROVE  IInv'
<1>1. /\ run # None /\ run.at = "start"
      /\ UNCHANGED <<groupVars, overdue, call, mailbox, worldVars, closeVars>>
  BY DEF Begin
<1>2. CASE run' = [run EXCEPT !.at = "body"] /\ UNCHANGED <<record, tick>>
  <2>1. run \in Run
    BY <1>1, Parts DEF LaneType
  <2>2. run' \in Run /\ run'.child = run.child /\ run'.at = "body"
    BY <1>2, <2>1 DEF Run
  <2>3. Unwinds /\ SameHeld
    BY <1>2, Parts, SameRecord
  <2>4. RunPermit(run') <= RunPermit(run)
    BY <1>1, <2>2, PermitTypes DEF RunPermit
  <2>5. RunMoves
    BY <1>1, <1>2, <2>2, <2>3, <2>4 DEF RunMoves, SameHeld, Running, At, worldVars
  <2> QED
    BY <1>1, <1>2, <2>2, <2>3, <2>5, Parts, RunStep DEF GroupType, groupVars, LaneType
<1>3. CASE Settle(Checked(run.child))
  <2>1. Checked(run.child) \in Outcome
    BY DEF Checked, Outcome
  <2> QED
    BY <1>1, <1>3, <2>1, SettleStep
<1> QED
  BY <1>2, <1>3 DEF Begin

LEMMA ReportStep ==
  ASSUME IInv, Report
  PROVE  IInv'
<1>1. /\ run # None /\ run.at \in Outcome /\ Note(run.child, run.at, "worker") /\ run' = None
      /\ UNCHANGED <<overdue, call, tick, mailbox, worldVars, closeVars>>
  BY DEF Report
<1>2. run.child \in Child
  BY <1>1, Parts DEF LaneType, Run
<1>3. /\ Unwinds /\ SameHeld /\ UNCHANGED todo
      /\ groupCancelled' \in BOOLEAN /\ owes' \subseteq Thread
  BY <1>1, <1>2, Parts, NoteMoves DEF Thread
<1>4. RunPermit(run') <= RunPermit(run)
  BY <1>1, PermitTypes DEF RunPermit
<1>5. RunMoves
  BY <1>1, <1>3, <1>4 DEF RunMoves, SameHeld, Running, At, worldVars
<1> QED
  BY <1>1, <1>3, <1>5, Parts, RunStep DEF LaneType

LEMMA WorkingStep ==
  ASSUME IInv, Working
  PROVE  IInv'
<1>1. ASSUME NEW out \in Outcome, Finish(out) PROVE IInv'
  BY <1>1, SettleStep DEF Finish
<1> QED
  BY <1>1, TakeStep, BeginStep, ReportStep DEF Working

(***************************************************************************)
(* The steps of the rest of the world.                                     *)
(***************************************************************************)
LEMMA WorldStep ==
  ASSUME IInv, OthersAcquire \/ OthersRelease \/ Jam \/ Unjam
  PROVE  IInv'
<1>1. /\ UNCHANGED <<groupVars, record, overdue, call, tick, laneVars, closeVars>>
      /\ jammed' \in BOOLEAN
      /\ \/ UNCHANGED others
         \/ Free /\ others' = others + 1
         \/ others > 0 /\ others' = others - 1
  BY Parts DEF OthersAcquire, OthersRelease, Jam, Unjam, CloseType
<1>2. Unwinds /\ SameHeld /\ CallMoves /\ GroupType' /\ Worked
  BY <1>1, Parts, SameRecord, SameCall, SameGroup
<1>3. others' \in Nat
  BY <1>1, Parts DEF LaneType
<1>4. LaneType' /\ StaysEmpty
  BY <1>1, <1>3, Parts DEF LaneType, laneVars, StaysEmpty
<1>5. LaneInv'
  BY <1>1, <1>2, <1>4, Parts, OthersKeep, SameLane DEF laneVars
<1>6. Aside
  BY <1>1, <1>2, <1>4, Parts DEF Aside
<1> QED
  BY <1>5, <1>6, AsideKeeps

LEMMA PassStep ==
  ASSUME IInv, NEW c \in Child, Pass(c)
  PROVE  IInv'
<1>1. /\ c \in Timed /\ overdue' = overdue \cup {c}
      /\ UNCHANGED <<groupVars, record, call, tick, laneVars, worldVars, closeVars>>
  BY DEF Pass
<1>2. Unwinds /\ SameHeld /\ CallMoves /\ GroupType' /\ Worked
  BY <1>1, Parts, SameRecord, SameCall, SameGroup
<1>3. LaneType' /\ LaneInv' /\ StaysEmpty
  BY <1>1, <1>2, Parts, SameLane DEF laneVars, worldVars
<1>4. Aside
  BY <1>1, <1>2, <1>3, Parts DEF Aside, CloseType, worldVars
<1> QED
  BY <1>3, <1>4, AsideKeeps

LEMMA UserCancelStep ==
  ASSUME IInv, UserCancel
  PROVE  IInv'
<1>1. /\ CancelGroup("user")
      /\ UNCHANGED <<record, overdue, call, tick, laneVars, worldVars, closeVars>>
  BY DEF UserCancel
<1>2. GroupType' /\ Worked
  BY <1>1, Parts DEF CancelGroup, GroupType, Worked, Thread
<1>3. Unwinds /\ SameHeld /\ CallMoves
  BY <1>1, Parts, SameRecord, SameCall
<1>4. LaneType' /\ LaneInv' /\ StaysEmpty
  BY <1>1, <1>3, Parts, SameLane DEF laneVars, worldVars
<1>5. Aside
  BY <1>1, <1>2, <1>3, <1>4, Parts DEF Aside, CloseType, worldVars
<1> QED
  BY <1>4, <1>5, AsideKeeps

LEMMA CancelHandleStep ==
  ASSUME IInv, NEW c \in Child, CancelHandle(c)
  PROVE  IInv'
<1>1. /\ CancelChild(c)
      /\ UNCHANGED <<groupVars, overdue, call, tick, run, worldVars, closeVars>>
  BY DEF CancelHandle
<1>2. CallMoves /\ GroupType'
  BY <1>1, Parts, SameCall, SameGroup
<1> QED
  BY <1>1, <1>2, CancelStep DEF groupVars

(***************************************************************************)
(* The steps of close().                                                   *)
(***************************************************************************)
LEMMA CloseMoves ==
  ASSUME IInv, UNCHANGED <<record, overdue, call, tick, laneVars, worldVars>>,
         GroupType', CloseType', Swept', Closed'
  PROVE  IInv'
<1>1. CallMoves /\ Unwinds /\ SameHeld
  BY Parts, SameCall, SameRecord
<1>2. LaneType' /\ LaneInv'
  BY <1>1, Parts, SameLane DEF laneVars, worldVars
<1>3. RecordType' /\ CallType'
  BY Parts DEF RecordType, CallType
<1>4. Reachable'
  BY <1>1, Parts, ReachableKeeps
<1> QED
  BY <1>2, <1>3, <1>4 DEF IInv, Types, LaneInv

LEMMA BeginCloseStep ==
  ASSUME IInv, NEW yes \in BOOLEAN, BeginClose(yes)
  PROVE  IInv'
<1>1. /\ closer \in {"open", "closed"} /\ ~converged /\ closes < MaxCloses
      /\ closer' = "sealed" /\ sealed' = TRUE /\ closes' = closes + 1
      /\ CancelGroup("closer") \/ UNCHANGED groupVars
      /\ UNCHANGED <<record, overdue, call, tick, laneVars, worldVars, laneClosed, quiesced, drained,
                     converged>>
  BY DEF BeginClose
<1>2. GroupType' /\ UNCHANGED todo
  <2>1. CASE CancelGroup("closer")
    BY <2>1, Parts DEF CancelGroup, GroupType, Thread
  <2>2. CASE UNCHANGED groupVars
    BY <2>2, Parts DEF groupVars, GroupType
  <2> QED
    BY <1>1, <2>1, <2>2
<1>3. CloseType'
  <2>1. closes' \in 0..MaxCloses
    BY <1>1, Parts, RecurringAssumption DEF CloseType
  <2> QED
    BY <1>1, <2>1, Parts DEF CloseType, worldVars
<1>4. Swept'
  BY <1>1, Parts DEF Swept, InScope, Done
<1>5. Closed'
  BY <1>1, Parts DEF Closed
<1> QED
  BY <1>1, <1>2, <1>3, <1>4, <1>5, CloseMoves

LEMMA QuiesceStep ==
  ASSUME IInv, NEW yes \in BOOLEAN, Quiesce(yes)
  PROVE  IInv'
<1>1. /\ closer = "sealed" /\ closer' = "sweep" /\ (yes => InScope = {}) /\ quiesced' = yes
      /\ todo' = [todo EXCEPT !["closer"] = Reserved]
      /\ UNCHANGED <<groupCancelled, owes, record, overdue, call, tick, laneVars, worldVars, sealed,
                     laneClosed, drained, converged, closes>>
  BY DEF Quiesce
<1>2. todo \in [Thread -> SUBSET Child] /\ Reserved \in SUBSET Child /\ "closer" \in Thread
  BY Parts DEF GroupType, Reserved, Thread
<1>3. todo' \in [Thread -> SUBSET Child] /\ todo'["closer"] = Reserved
  BY <1>1, <1>2
<1>4. GroupType'
  BY <1>1, <1>3, Parts DEF GroupType
<1>5. CloseType'
  BY <1>1, Parts DEF CloseType, worldVars
<1>6. Swept'
  <2>1. sealed
    BY <1>1, Parts DEF Closed
  <2>2. \A c \in Child : Done(c) \/ c \in Reserved
    BY Parts DEF Reachable, Reserved
  <2>3. \A c \in Child : Done(c)' \/ c \in todo'["closer"]
    BY <1>1, <1>3, <2>2 DEF Done
  <2> QED
    BY <1>1, <2>1, <2>3 DEF Swept, InScope
<1>7. Closed'
  BY <1>1, Parts DEF Closed
<1> QED
  BY <1>1, <1>4, <1>5, <1>6, <1>7, CloseMoves

LEMMA CloseLaneStep ==
  ASSUME IInv, CloseLane
  PROVE  IInv'
<1>1. /\ closer = "sweep" /\ todo["closer"] = {} /\ closer' = "drain" /\ laneClosed' = TRUE
      /\ UNCHANGED <<groupVars, record, overdue, call, tick, laneVars, worldVars, sealed, quiesced,
                     drained, converged, closes>>
  BY DEF CloseLane, Busy
<1>2. GroupType' /\ CloseType'
  BY <1>1, Parts, SameGroup DEF CloseType, worldVars
<1>3. Swept'
  BY <1>1, Parts DEF Swept, InScope, Done
<1>4. Closed'
  BY <1>1, Parts DEF Closed
<1> QED
  BY <1>1, <1>2, <1>3, <1>4, CloseMoves

LEMMA DrainStep ==
  ASSUME IInv, NEW yes \in BOOLEAN, Drain(yes)
  PROVE  IInv'
<1>1. /\ closer = "drain" /\ closer' = "decide" /\ drained' = yes
      /\ yes => mailbox = <<>> /\ run = None
      /\ UNCHANGED <<groupVars, record, overdue, call, tick, laneVars, worldVars, sealed, laneClosed,
                     quiesced, converged, closes>>
  BY DEF Drain
<1>2. GroupType' /\ CloseType'
  BY <1>1, Parts, SameGroup DEF CloseType, worldVars
<1>3. Swept'
  BY <1>1, Parts DEF Swept, InScope, Done
<1>4. Closed'
  BY <1>1, Parts DEF Closed, laneVars
<1> QED
  BY <1>1, <1>2, <1>3, <1>4, CloseMoves

LEMMA DecideStep ==
  ASSUME IInv, Decide
  PROVE  IInv'
<1>1. /\ closer = "decide" /\ closer' = "closed" /\ converged' = Converges
      /\ UNCHANGED <<groupVars, record, overdue, call, tick, laneVars, worldVars, sealed, laneClosed,
                     quiesced, drained, closes>>
  BY DEF Decide
<1>2. converged' \in BOOLEAN /\ (converged' => quiesced /\ drained)
  BY <1>1, Parts DEF Converges, CloseType
<1>3. GroupType' /\ CloseType'
  BY <1>1, <1>2, Parts, SameGroup DEF CloseType, worldVars
<1>4. Swept'
  BY <1>1, Parts DEF Swept, InScope, Done
<1>5. Closed'
  BY <1>1, <1>2, Parts DEF Closed, laneVars
<1> QED
  BY <1>1, <1>3, <1>4, <1>5, CloseMoves

(***************************************************************************)
(* The theorems.                                                           *)
(***************************************************************************)
LEMMA NextKeepsIInv ==
  ASSUME IInv, [Next]_vars
  PROVE  IInv'
<1>1. CASE UNCHANGED vars
  <2>1. /\ UNCHANGED <<record, overdue, call, tick, laneVars, worldVars>>
        /\ UNCHANGED groupVars /\ UNCHANGED closeVars
    BY <1>1 DEF vars
  <2>2. GroupType' /\ CloseType'
    BY <2>1, Parts, SameGroup DEF CloseType, closeVars, worldVars
  <2>3. Swept' /\ Closed'
    BY <2>1, Parts DEF Swept, Closed, InScope, Done, closeVars, laneVars, groupVars
  <2> QED
    BY <2>1, <2>2, <2>3, CloseMoves
<1>2. CASE \E c \in Child : Scheduling(c) \/ Ticking(c) \/ Alarm(c) \/ Pass(c) \/ CancelHandle(c)
  BY <1>2, SchedulingStep, TickingStep, AlarmStep, PassStep, CancelHandleStep
<1>3. CASE Working
  BY <1>3, WorkingStep
<1>4. CASE Closing
  BY <1>4, BeginCloseStep, QuiesceStep, DrainStep, CloseLaneStep, DecideStep DEF Closing
<1>5. CASE \E h \in Thread : Cancelling(h)
  BY <1>5, SnapshotStep, WorkOffStep DEF Cancelling
<1>6. CASE OthersAcquire \/ OthersRelease \/ Jam \/ Unjam \/ UserCancel
  BY <1>6, WorldStep, UserCancelStep
<1> QED
  BY <1>1, <1>2, <1>3, <1>4, <1>5, <1>6 DEF Next

LEMMA InitHasIInv ==
  ASSUME Init
  PROVE  IInv
<1>1. RecordType /\ CallType
  BY DEF Init, RecordType, CallType, Record, Blank
<1>2. /\ mailbox = <<>> /\ mailbox \in Seq(Item) /\ Len(mailbox) = 0
      /\ tick = None /\ run = None /\ others = 0
  BY DEF Init
<1>3. LaneType
  BY <1>2, RecurringAssumption DEF LaneType
<1>4. GroupType /\ CloseType
  <2>1. GroupType
    BY DEF Init, GroupType
  <2>2. closes = 0 /\ 0 \in 0..MaxCloses
    BY RecurringAssumption DEF Init
  <2> QED
    BY <2>1, <2>2 DEF Init, CloseType
<1>5. Single /\ Tracked
  BY <1>2 DEF Single, Once, Tracked, Live, InBox, Running, At
<1>6. WithinBudget
  <2>1. Places(mailbox) = {}
    BY <1>2 DEF Places, InBox
  <2>2. Held = 0
    BY <1>2, <1>5, <2>1, HeldIs, FS_EmptySet DEF Single, RunPermit, TickPermit
  <2> QED
    BY <1>2, <2>2, RecurringAssumption DEF WithinBudget
<1>7. Reachable /\ Swept /\ Closed
  BY DEF Init, Reachable, Swept, Closed, Done, Blank
<1> QED
  BY <1>1, <1>3, <1>4, <1>5, <1>6, <1>7 DEF IInv, Types

LEMMA AlwaysIInv == Spec => []IInv
<1>1. Init => IInv
  BY InitHasIInv
<1>2. IInv /\ [Next]_vars => IInv'
  BY NextKeepsIInv
<1> QED
  BY <1>1, <1>2, PTL DEF Spec

\* Every variable keeps its type, the mailbox its capacity, and the permits of queued
\* and running runs, of the tick and of other groups never exceed the serial budget:
\* none is lost or counted twice when a run is revoked in the mailbox, settles before
\* its tick has added the callback, or is refused by the lane.
THEOREM BudgetIsKept == Spec => []TypeOK
<1>1. IInv => TypeOK
  <2> SUFFICES ASSUME IInv PROVE TypeOK
    OBVIOUS
  <2>1. Held = Cardinality(Places(mailbox)) + RunPermit(run) + TickPermit(tick)
    BY Parts, HeldIs DEF LaneInv, Single, LaneType
  <2>2. Held \in Nat /\ others \in Nat /\ Permits \in Nat /\ Held + others <= Permits
    BY <2>1, Parts, PlacesFinite, PermitTypes, RecurringAssumption DEF LaneType, LaneInv, WithinBudget
  <2>3. others \in 0..Permits
    BY <2>2
  <2>4. mailbox \in Seq([child: Child, live: BOOLEAN])
    BY Parts DEF LaneType, Item
  <2> QED
    BY <2>2, <2>3, <2>4, Parts DEF TypeOK, CallType, LaneType, GroupType, CloseType
<1> QED
  BY <1>1, AlwaysIInv, PTL

\* Heartbeats never overlap: at most one run of a child is queued or running, although
\* the tick looks at the record, takes the permit, hands the run over and adopts it in
\* steps of their own, and cancellations and the worker come in between.
THEOREM NoOverlap == Spec => []NoBacklog
<1>1. IInv => NoBacklog
  <2> SUFFICES ASSUME IInv, NEW c \in Child
               PROVE  Cardinality({i \in DOMAIN mailbox : mailbox[i].child = c /\ mailbox[i].live})
                        + (IF Running(c) THEN 1 ELSE 0) <= 1
    BY DEF NoBacklog
  <2> DEFINE Q == {i \in DOMAIN mailbox : mailbox[i].child = c /\ mailbox[i].live}
  <2>1. /\ DOMAIN mailbox = 1..Len(mailbox) /\ Once(mailbox)
        /\ Running(c) => ~InBox(mailbox, c)
    BY Parts DEF LaneType, LaneInv, Single
  <2>2. CASE Q = {}
    <3>1. Cardinality(Q) = 0
      BY <2>2, FS_EmptySet
    <3> QED
      BY <3>1, SMT
  <2>3. CASE Q # {}
    <3>1. PICK i \in Q : TRUE
      BY <2>3
    <3>2. Q = {i}
      BY <2>1, <3>1 DEF Once
    <3>3. Cardinality(Q) = 1
      BY <3>2, FS_Singleton
    <3>4. ~Running(c)
      BY <2>1, <3>1 DEF InBox
    <3> QED
      BY <3>3, <3>4, SMT
  <2> QED
    BY <2>2, <2>3
<1> QED
  BY <1>1, AlwaysIInv, PTL

\* A close() that reports convergence leaves nothing behind, for every order of its
\* steps and those of a scheduling call, a tick, the worker and another canceller: no
\* registration, no deadline and no run of a child.
THEOREM QuietAfterClose == Spec => []ConvergedIsQuiet
<1>1. IInv => ConvergedIsQuiet
  <2> SUFFICES ASSUME IInv PROVE ConvergedIsQuiet
    OBVIOUS
  <2> QED
    BY Parts DEF ConvergedIsQuiet, Closed, Swept, Done
<1> QED
  BY <1>1, AlwaysIInv, PTL
============================================================================
