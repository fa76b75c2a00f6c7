--------------------------- MODULE SerialExecutor ---------------------------
(***************************************************************************)
(* What a serial lane promises to its submitters, without tokens, workers, *)
(* permits or a factory: a lane serves one call at a time, in the order it *)
(* accepted them; an update that still waits is replaced by a newer one,   *)
(* whose outcome both get; a call is served once, and never after every    *)
(* submitter has withdrawn; a sealed lane accepts nothing.                 *)
(***************************************************************************)
EXTENDS Naturals, Sequences

CONSTANTS Lane, Submission, None, LaneOf, Coalescing

VARIABLES
  queue, serving, sealed,   \* of a lane: what waits, what is served, closed to callers
  members, newest,          \* of an accepted call: who gets the outcome, of which call
  handle, outcome           \* of a submission

vars == <<queue, serving, sealed, members, newest, handle, outcome>>

Init ==
  /\ queue = [l \in Lane |-> <<>>] /\ serving = [l \in Lane |-> None]
  /\ sealed = [l \in Lane |-> FALSE]
  /\ members = [s \in Submission |-> {}] /\ newest = [s \in Submission |-> s]
  /\ handle = [s \in Submission |-> "none"] /\ outcome = [s \in Submission |-> None]

Waiting(l) == {queue[l][k] : k \in 1..Len(queue[l])}

\* A call waits behind everything its lane has accepted; one update waits at a time.
Accept(s) ==
  LET l == LaneOf[s] IN
  /\ handle[s] = "none" /\ ~sealed[l]
  /\ s \in Coalescing => Waiting(l) \cap Coalescing = {}
  /\ queue' = [queue EXCEPT ![l] = Append(@, s)]
  /\ members' = [members EXCEPT ![s] = {s}]
  /\ handle' = [handle EXCEPT ![s] = "pending"]
  /\ UNCHANGED <<serving, sealed, newest, outcome>>

\* A newer update replaces the call of the one that waits.
Join(s, i) ==
  /\ handle[s] = "none" /\ ~sealed[LaneOf[s]]
  /\ s \in Coalescing /\ i \in Waiting(LaneOf[s]) \cap Coalescing
  /\ members' = [members EXCEPT ![i] = @ \cup {s}]
  /\ newest' = [newest EXCEPT ![i] = s]
  /\ handle' = [handle EXCEPT ![s] = "pending"]
  /\ UNCHANGED <<queue, serving, sealed, outcome>>

Withdraw(s) ==
  /\ handle[s] = "pending"
  /\ handle' = [handle EXCEPT ![s] = "cancelled"]
  /\ UNCHANGED <<queue, serving, sealed, members, newest, outcome>>

Take(l) ==
  /\ serving[l] = None /\ queue[l] # <<>>
  /\ serving' = [serving EXCEPT ![l] = Head(queue[l])]
  /\ queue' = [queue EXCEPT ![l] = Tail(@)]
  /\ UNCHANGED <<sealed, members, newest, handle, outcome>>

MembersThat(l, h) == {s \in members[serving[l]] : handle[s] = h}

\* The call starts, once, unless nobody waits for it any more.
Start(l) ==
  /\ serving[l] # None /\ MembersThat(l, "running") = {}
  /\ handle' = [s \in Submission |->
                 IF s \in MembersThat(l, "pending") THEN "running" ELSE handle[s]]
  /\ serving' = IF MembersThat(l, "pending") = {} THEN [serving EXCEPT ![l] = None] ELSE serving
  /\ UNCHANGED <<queue, sealed, members, newest, outcome>>

End(l) ==
  /\ serving[l] # None /\ MembersThat(l, "running") # {}
  /\ handle' = [s \in Submission |->
                 IF s \in MembersThat(l, "running") THEN "done" ELSE handle[s]]
  /\ outcome' = [s \in Submission |->
                  IF s \in MembersThat(l, "running") THEN newest[serving[l]] ELSE outcome[s]]
  /\ serving' = [serving EXCEPT ![l] = None]
  /\ UNCHANGED <<queue, sealed, members, newest>>

Seal(l) ==
  /\ sealed' = [sealed EXCEPT ![l] = TRUE]
  /\ UNCHANGED <<queue, serving, members, newest, handle, outcome>>

\* Sealed, and what waits is cancelled; what is served goes on.
Drop(l) ==
  LET gone == UNION {members[i] : i \in Waiting(l)} IN
  /\ sealed' = [sealed EXCEPT ![l] = TRUE]
  /\ queue' = [queue EXCEPT ![l] = <<>>]
  /\ handle' = [s \in Submission |->
                 IF s \in gone /\ handle[s] = "pending" THEN "cancelled" ELSE handle[s]]
  /\ UNCHANGED <<serving, members, newest, outcome>>

Next ==
  \/ \E s \in Submission : \/ Accept(s) \/ Withdraw(s)
                           \/ \E i \in Submission : Join(s, i)
  \/ \E l \in Lane : Take(l) \/ Start(l) \/ End(l) \/ Seal(l) \/ Drop(l)

Spec == Init /\ [][Next]_vars
=============================================================================
