----------------------------- MODULE SerialLane -----------------------------
(***************************************************************************)
(* SharedSerialExecutionLane and its factory, used by _submit_serial of    *)
(* UnifiedExecutionAuthority: mailboxes with a capacity, each owned by one *)
(* group, share a few worker threads.  A lane that has work puts one token *)
(* in the ready queue of its worker; the worker takes one item per token.  *)
(*                                                                         *)
(* A submission is a call of _submit_serial, which its caller may repeat   *)
(* after an error.  A work item is named after the submission that queued  *)
(* it; a coalescing submission may instead join a queued item: it becomes  *)
(* a watcher and its call replaces the item's.  The coalescing submissions *)
(* of a lane share one key.  A step is one critical section of a lane or   *)
(* of the factory; the handles of an item settle in one step together with *)
(* the callback that returns its permit.                                   *)
(***************************************************************************)
EXTENDS Naturals, FiniteSets, Sequences

CONSTANTS
  Lane, Worker, Submission,
  None,                \* no item in hand, no lane being closed, no result
  Created,             \* the lanes in the order of their creation
  WorkerOf, LaneOf,    \* of a lane, of a submission
  Coalescing,          \* submissions with SerialMailboxPolicy.COALESCE
  Capacity,            \* of each mailbox
  MaxPermits,          \* admission budget of the serial lane
  MaxCloses            \* bound on the factory's close calls

ASSUME LaneAssumption ==
  /\ IsFiniteSet(Submission)
  /\ None \notin Lane \cup Submission
  /\ Created \in Seq(Lane) /\ \A l \in Lane : \E k \in 1..Len(Created) : Created[k] = l
  /\ WorkerOf \in [Lane -> Worker] /\ LaneOf \in [Submission -> Lane]
  /\ Coalescing \subseteq Submission
  /\ Capacity \in Nat \ {0} /\ MaxPermits \in Nat \ {0} /\ MaxCloses \in Nat

VARIABLES
  items, coalesced, scheduled, running, sealed,   \* of a lane; sealed is _closed
  watchers, call, completion,                     \* of a work item
  future, result, sub,                            \* of a submission
  permits,                                        \* submissions that hold a permit
  ready, worker, inHand,                          \* of a worker; inHand is <<lane, item>>
  factoryClosed,
  closer, toClose, closing, clean, closes,        \* of factory.close
  order                                           \* history: the updates as accepted

laneVars   == <<items, coalesced, scheduled, running, sealed>>
workVars   == <<watchers, call, completion>>
subVars    == <<future, result, sub, permits, order>>
workerVars == <<ready, worker, inHand>>
closeVars  == <<factoryClosed, closer, toClose, closing, clean, closes>>
vars == <<laneVars, workVars, subVars, workerVars, closeVars>>

Settled == {"done", "cancelled"}

\* Where a call of _submit_serial begins: an update looks for an item to join first.
Entry(s) == IF s \in Coalescing THEN "start" ELSE "acquire"

Init ==
  /\ items = [l \in Lane |-> <<>>] /\ coalesced = [l \in Lane |-> None]
  /\ scheduled = [l \in Lane |-> FALSE] /\ running = [l \in Lane |-> FALSE]
  /\ sealed = [l \in Lane |-> FALSE]
  /\ watchers = [s \in Submission |-> {}] /\ call = [s \in Submission |-> s]
  /\ completion = [s \in Submission |-> "none"]
  /\ future = [s \in Submission |-> "none"] /\ result = [s \in Submission |-> None]
  /\ sub = [s \in Submission |-> Entry(s)] /\ permits = {} /\ order = <<>>
  /\ ready = [w \in Worker |-> <<>>] /\ worker = [w \in Worker |-> "idle"]
  /\ inHand = [w \in Worker |-> <<None, None>>]
  /\ factoryClosed = FALSE /\ closer = "open" /\ toClose = <<>> /\ closing = None
  /\ clean = TRUE /\ closes = 0

-----------------------------------------------------------------------------
(* Permits.  The callback of the work's handle returns the permit; one     *)
(* added to a handle that is already done runs at once.                    *)

\* try_submit hands out the future itself, try_submit_coalesced the completion.
WorkDone(s) == IF s \in Coalescing THEN completion[s] \in Settled ELSE future[s] \in Settled

\* Faulty variant of ReturnPermits: only the watcher's own handle is looked at.
ReturnOnWatcher ==
  permits' = {s \in permits : sub'[s] # "accepted" \/ future'[s] \notin Settled}

ReturnPermits == permits' = {s \in permits : sub'[s] # "accepted" \/ ~WorkDone(s)'}

SubTo(s, where) == sub' = [sub EXCEPT ![s] = where]

-----------------------------------------------------------------------------
(* Submitting.                                                             *)

\* Faulty variant of Merge: the item keeps the call it was queued with.
MergeKeepsCall(s, i) ==
  /\ watchers' = [watchers EXCEPT ![i] = @ \cup {s}]
  /\ future' = [future EXCEPT ![s] = "pending"]
  /\ order' = Append(order, s)
  /\ UNCHANGED call

\* A watcher joins a queued item and brings the newer call.
Merge(s, i) ==
  /\ watchers' = [watchers EXCEPT ![i] = @ \cup {s}]
  /\ call' = [call EXCEPT ![i] = s]
  /\ future' = [future EXCEPT ![s] = "pending"]
  /\ order' = Append(order, s)

\* try_coalesce, before a permit is asked for.
TryCoalesce(s) ==
  LET l == LaneOf[s] IN
  /\ sub[s] = "start" /\ s \in Coalescing /\ ~sealed[l]
  /\ IF coalesced[l] = None
     THEN SubTo(s, "acquire") /\ UNCHANGED <<workVars, future, order>>
     ELSE Merge(s, coalesced[l]) /\ SubTo(s, "merged") /\ UNCHANGED completion
  /\ UNCHANGED <<laneVars, result, permits, workerVars, closeVars>>

Acquire(s) ==
  /\ sub[s] = "acquire" /\ Cardinality(permits) < MaxPermits
  /\ permits' = permits \cup {s} /\ SubTo(s, "permitted")
  /\ UNCHANGED <<laneVars, workVars, future, result, order, workerVars, closeVars>>

\* The lane is sealed, the token cancelled or the deadline passed: an error for
\* the caller, and the permit goes back.
Refuse(s) ==
  /\ sub[s] \in {"acquire", "permitted"} /\ SubTo(s, Entry(s))
  /\ permits' = permits \ {s}
  /\ UNCHANGED <<laneVars, workVars, future, result, order, workerVars, closeVars>>

\* try_submit_coalesced finds an item that appeared meanwhile: no new work.
JoinLate(s) ==
  LET l == LaneOf[s] IN
  /\ sub[s] = "permitted" /\ ~sealed[l] /\ s \in Coalescing /\ coalesced[l] # None
  /\ Merge(s, coalesced[l]) /\ SubTo(s, "merged") /\ permits' = permits \ {s}
  /\ UNCHANGED <<laneVars, completion, result, workerVars, closeVars>>

\* Faulty variant of MayQueue: the lane may have been closed during the wait.
MayQueueSealed(s) == /\ sub[s] = "permitted"
                     /\ s \in Coalescing => coalesced[LaneOf[s]] = None

MayQueue(s) == /\ sub[s] = "permitted" /\ ~sealed[LaneOf[s]]
               /\ s \in Coalescing => coalesced[LaneOf[s]] = None

\* Faulty variant of Full: one item too many.
FullLate(l) == Len(items[l]) > Capacity

Full(l) == Len(items[l]) >= Capacity

\* No room: an update or a WAIT call goes on with a new permit, a REJECT call is
\* an error; the permit goes back first.
FindFull(s) ==
  /\ MayQueue(s) /\ Full(LaneOf[s])
  /\ permits' = permits \ {s}
  /\ SubTo(s, "acquire")
  /\ UNCHANGED <<laneVars, workVars, future, result, order, workerVars, closeVars>>

\* _enqueue: the first item of an unscheduled lane needs a token.
Enqueue(s) ==
  LET l == LaneOf[s] IN
  /\ MayQueue(s) /\ ~Full(l)
  /\ items' = [items EXCEPT ![l] = Append(@, s)]
  /\ coalesced' = IF s \in Coalescing THEN [coalesced EXCEPT ![l] = s] ELSE coalesced
  /\ scheduled' = [scheduled EXCEPT ![l] = TRUE]
  /\ watchers' = [watchers EXCEPT ![s] = {s}]
  /\ completion' = [completion EXCEPT ![s] = "pending"]
  /\ future' = [future EXCEPT ![s] = "pending"]
  /\ order' = IF s \in Coalescing THEN Append(order, s) ELSE order
  /\ SubTo(s, IF scheduled[l] THEN "bind" ELSE "schedule")
  /\ UNCHANGED <<running, sealed, call, result, permits, workerVars, closeVars>>

\* _schedule by the submitter, outside the lane's lock.
Schedule(s) ==
  /\ sub[s] = "schedule"
  /\ IF factoryClosed
     THEN SubTo(s, "failed") /\ permits' = permits \ {s} /\ UNCHANGED ready
     ELSE /\ ready' = [ready EXCEPT ![WorkerOf[LaneOf[s]]] = Append(@, LaneOf[s])]
          /\ SubTo(s, "bind") /\ UNCHANGED permits
  /\ UNCHANGED <<laneVars, workVars, future, result, order, worker, inHand, closeVars>>

\* The callback is added to the handle, which may be done already.
Bind(s) ==
  /\ sub[s] = "bind"
  /\ SubTo(s, "accepted")
  /\ UNCHANGED <<workVars, future>>
  /\ ReturnPermits
  /\ UNCHANGED <<laneVars, result, order, workerVars, closeVars>>

\* A caller cancels its handle; a running one does not notice.
CancelFuture(s) ==
  /\ sub[s] \in {"accepted", "merged"} /\ future[s] = "pending"
  /\ future' = [future EXCEPT ![s] = "cancelled"]
  /\ UNCHANGED <<sub, workVars>>
  /\ ReturnPermits
  /\ UNCHANGED <<laneVars, result, order, workerVars, closeVars>>

-----------------------------------------------------------------------------
(* A worker.                                                               *)

WorkerTo(w, where) == worker' = [worker EXCEPT ![w] = where]

TakeToken(w) ==
  /\ worker[w] = "idle" /\ ready[w] # <<>>
  /\ inHand' = [inHand EXCEPT ![w] = <<Head(ready[w]), None>>]
  /\ ready' = [ready EXCEPT ![w] = Tail(@)]
  /\ WorkerTo(w, "token")
  /\ UNCHANGED <<laneVars, workVars, subVars, closeVars>>

Exit(w) ==
  /\ worker[w] = "idle" /\ ready[w] = <<>> /\ factoryClosed
  /\ WorkerTo(w, "gone")
  /\ UNCHANGED <<laneVars, workVars, subVars, ready, inHand, closeVars>>

\* Faulty variant of Uncoalesce: the key stays until the next item replaces it.
KeepCoalesced(l, i) == UNCHANGED coalesced

\* From now on a submission with this key is new work.
Uncoalesce(l, i) ==
  coalesced' = IF coalesced[l] = i THEN [coalesced EXCEPT ![l] = None] ELSE coalesced

\* _take_owned_item: an unscheduled lane kills the worker.
TakeItem(w) ==
  LET l == inHand[w][1] IN
  /\ worker[w] = "token"
  /\ IF ~scheduled[l]
     THEN WorkerTo(w, "gone") /\ UNCHANGED <<laneVars, inHand>>
     ELSE IF items[l] = <<>>
     THEN /\ scheduled' = [scheduled EXCEPT ![l] = FALSE]
          /\ WorkerTo(w, "idle")
          /\ UNCHANGED <<items, coalesced, running, sealed, inHand>>
     ELSE /\ items' = [items EXCEPT ![l] = Tail(@)]
          /\ running' = [running EXCEPT ![l] = TRUE]
          /\ Uncoalesce(l, Head(items[l]))
          /\ inHand' = [inHand EXCEPT ![w][2] = Head(items[l])]
          /\ WorkerTo(w, "item")
          /\ UNCHANGED <<scheduled, sealed>>
  /\ UNCHANGED <<workVars, subVars, ready, closeVars>>

\* set_running_or_notify_cancel on every handle: no watcher left, no call.
BeginItem(w) ==
  LET i == inHand[w][2]  active == {s \in watchers[i] : future[s] = "pending"} IN
  /\ worker[w] = "item"
  /\ future' = [s \in Submission |-> IF s \in active THEN "running" ELSE future[s]]
  /\ completion' = [completion EXCEPT ![i] = IF active = {} THEN "done" ELSE "running"]
  /\ WorkerTo(w, IF active = {} THEN "finish" ELSE "body")
  /\ UNCHANGED <<sub, watchers, call>>
  /\ ReturnPermits
  /\ UNCHANGED <<laneVars, result, order, ready, inHand, closeVars>>

\* The call returns or raises: its outcome goes to every active watcher.
EndBody(w) ==
  LET i == inHand[w][2]  active == {s \in watchers[i] : future[s] = "running"} IN
  /\ worker[w] = "body"
  /\ future' = [s \in Submission |-> IF s \in active THEN "done" ELSE future[s]]
  /\ result' = [s \in Submission |-> IF s \in active THEN call[i] ELSE result[s]]
  /\ completion' = [completion EXCEPT ![i] = "done"]
  /\ WorkerTo(w, "finish")
  /\ UNCHANGED <<sub, watchers, call>>
  /\ ReturnPermits
  /\ UNCHANGED <<laneVars, order, ready, inHand, closeVars>>

\* _finish_owned_item.
FinishItem(w) ==
  LET l == inHand[w][1] IN
  /\ worker[w] = "finish"
  /\ running' = [running EXCEPT ![l] = FALSE]
  /\ scheduled' = [scheduled EXCEPT ![l] = items[l] # <<>>]
  /\ WorkerTo(w, IF items[l] # <<>> THEN "reschedule" ELSE "idle")
  /\ UNCHANGED <<items, coalesced, sealed, workVars, subVars, ready, inHand, closeVars>>

\* _schedule by the worker: a closed factory raises in the worker's thread.
Reschedule(w) ==
  /\ worker[w] = "reschedule"
  /\ IF factoryClosed
     THEN WorkerTo(w, "gone") /\ UNCHANGED ready
     ELSE /\ ready' = [ready EXCEPT ![w] = Append(@, inHand[w][1])]
          /\ WorkerTo(w, "idle")
  /\ UNCHANGED <<laneVars, workVars, subVars, inHand, closeVars>>

-----------------------------------------------------------------------------
(* Closing.                                                                *)

\* The condition lane.close waits for.
Quiet(l) == ~running[l] /\ ~scheduled[l] /\ items[l] = <<>>

\* lane.close(cancel_pending=False), by the group that owns the lane.
Seal(l) ==
  /\ ~sealed[l]
  /\ sealed' = [sealed EXCEPT ![l] = TRUE]
  /\ UNCHANGED <<items, coalesced, scheduled, running, workVars, subVars, workerVars, closeVars>>

\* factory.close, again after a failed one.
BeginClose ==
  /\ closer \in {"open", "failed"} /\ closes < MaxCloses
  /\ closer' = "lanes" /\ toClose' = Created /\ clean' = TRUE /\ closes' = closes + 1
  /\ UNCHANGED <<laneVars, workVars, subVars, workerVars, factoryClosed, closing>>

\* Faulty variant of AfterCancel: a lane without items is no longer scheduled.
AfterCancelUnscheduled(l) == scheduled' = [scheduled EXCEPT ![l] = FALSE]

\* The token that is out keeps the lane scheduled.
AfterCancel(l) == UNCHANGED scheduled

\* lane.close(cancel_pending=True) up to its wait.
CancelLane ==
  LET l == Head(toClose)
      gone == {items[l][k] : k \in 1..Len(items[l])}
      handles == UNION {watchers[i] : i \in gone} IN
  /\ closer = "lanes" /\ closing = None /\ toClose # <<>>
  /\ closing' = l /\ toClose' = Tail(toClose)
  /\ sealed' = [sealed EXCEPT ![l] = TRUE]
  /\ items' = [items EXCEPT ![l] = <<>>]
  /\ coalesced' = IF coalesced[l] \in gone THEN [coalesced EXCEPT ![l] = None] ELSE coalesced
  /\ AfterCancel(l)
  /\ future' = [s \in Submission |->
       IF s \in handles /\ future[s] = "pending" THEN "cancelled" ELSE future[s]]
  /\ completion' = [s \in Submission |-> IF s \in gone THEN "cancelled" ELSE completion[s]]
  /\ UNCHANGED <<sub, watchers, call>>
  /\ ReturnPermits
  /\ UNCHANGED <<running, result, order, workerVars, factoryClosed, closer, clean, closes>>

\* lane.close returns or its deadline passes; the next lane is closed all the same.
LaneReturns ==
  /\ closing # None
  /\ \/ Quiet(closing) /\ UNCHANGED clean
     \/ ~Quiet(closing) /\ clean' = FALSE
  /\ closing' = None
  /\ UNCHANGED <<laneVars, workVars, subVars, workerVars, factoryClosed, closer, toClose, closes>>

CloseFactory ==
  /\ closer = "lanes" /\ closing = None /\ toClose = <<>>
  /\ factoryClosed' = TRUE /\ closer' = "joining"
  /\ UNCHANGED <<laneVars, workVars, subVars, workerVars, toClose, closing, clean, closes>>

\* Every worker is joined, or the deadline passes.
JoinWorkers ==
  /\ closer = "joining"
  /\ LET joined == \A w \in Worker : worker[w] = "gone" IN
       closer' = IF joined /\ clean THEN "converged" ELSE "failed"
  /\ UNCHANGED <<laneVars, workVars, subVars, workerVars, factoryClosed, toClose, closing, clean, closes>>

-----------------------------------------------------------------------------
SubmitStep(s) ==
  \/ TryCoalesce(s) \/ Acquire(s) \/ Refuse(s) \/ JoinLate(s)
  \/ FindFull(s) \/ Enqueue(s) \/ Schedule(s) \/ Bind(s)

WorkerStep(w) ==
  \/ TakeToken(w) \/ Exit(w) \/ TakeItem(w) \/ BeginItem(w) \/ EndBody(w)
  \/ FinishItem(w) \/ Reschedule(w)

CloseStep == CancelLane \/ LaneReturns \/ CloseFactory \/ JoinWorkers

Next ==
  \/ \E s \in Submission : SubmitStep(s) \/ CancelFuture(s)
  \/ \E w \in Worker : WorkerStep(w)
  \/ \E l \in Lane : Seal(l)
  \/ BeginClose \/ CloseStep

\* Threads run, and calls end.
Fairness ==
  /\ \A s \in Submission : WF_vars(Schedule(s) \/ Bind(s))
  /\ \A w \in Worker : WF_vars(WorkerStep(w))
  /\ WF_vars(CloseStep)

Spec     == Init /\ [][Next]_vars
FairSpec == Spec /\ Fairness

-----------------------------------------------------------------------------
(* Properties.                                                             *)

Handle == {"none", "pending", "running"} \cup Settled

\* Every variable has its type.
TypeOK ==
  /\ items \in [Lane -> Seq(Submission)] /\ coalesced \in [Lane -> Submission \cup {None}]
  /\ scheduled \in [Lane -> BOOLEAN] /\ running \in [Lane -> BOOLEAN]
  /\ sealed \in [Lane -> BOOLEAN]
  /\ watchers \in [Submission -> SUBSET Submission] /\ call \in [Submission -> Submission]
  /\ completion \in [Submission -> Handle] /\ future \in [Submission -> Handle]
  /\ result \in [Submission -> Submission \cup {None}]
  /\ sub \in [Submission -> {"start", "acquire", "permitted", "schedule", "bind",
                             "accepted", "merged", "failed"}]
  /\ permits \subseteq Submission /\ order \in Seq(Submission)
  /\ Cardinality(permits) <= MaxPermits
  /\ \A l \in Lane : Len(items[l]) <= Capacity
  /\ ready \in [Worker -> Seq(Lane)]
  /\ worker \in [Worker -> {"idle", "token", "item", "body", "finish", "reschedule", "gone"}]
  /\ inHand \in [Worker -> (Lane \cup {None}) \X (Submission \cup {None})]
  /\ factoryClosed \in BOOLEAN /\ clean \in BOOLEAN /\ closes \in 0..MaxCloses
  /\ closer \in {"open", "lanes", "joining", "failed", "converged"}
  /\ toClose \in Seq(Lane) /\ closing \in Lane \cup {None}

\* The tokens of a lane: in its worker's queue, with the worker, with a submitter.
Tokens(l) ==
  {<<"ready", k>> : k \in {j \in 1..Len(ready[WorkerOf[l]]) : ready[WorkerOf[l]][j] = l}}
  \cup {<<"worker", w>> : w \in {v \in Worker :
          worker[v] \in {"token", "item", "body", "finish", "reschedule"} /\ inHand[v][1] = l}}
  \cup {<<"submitter", s>> : s \in {t \in Submission : sub[t] = "schedule" /\ LaneOf[t] = l}}

\* A lane has one token while it is scheduled and none otherwise, wherever a
\* submitter, its worker and a close meet, so that no two of its calls overlap, no
\* item is forgotten and no worker meets a stale token and dies while the factory
\* is open.
OneToken ==
  /\ \A l \in Lane : /\ Cardinality(Tokens(l)) <= 1
                     /\ ~scheduled[l] => Tokens(l) = {} /\ items[l] = <<>>
  /\ ~factoryClosed => /\ \A l \in Lane : scheduled[l] => Tokens(l) # {}
                       /\ \A w \in Worker : worker[w] # "gone"

At(s) == CHOOSE k \in 1..Len(order) : order[k] = s

\* A watcher never gets the outcome of a call older than its own submission, and a
\* coalesced call that is taken to run is the newest one accepted for its key.
NoStaleCall ==
  /\ \A s \in Coalescing : future[s] = "done" => At(s) <= At(result[s])
  /\ \A l \in Lane : \A i \in Coalescing :
       i = coalesced[l] =>
         \A s \in Coalescing : LaneOf[s] = l /\ future[s] # "none" => At(s) <= At(call[i])

\* A call that runs is covered by a permit, and no permit outlives the work it was
\* taken for: refusals, full mailboxes, merges, early completions, cancelled
\* watchers and a close between two steps all give it back exactly once.
PermitsMatchWork ==
  /\ \A w \in Worker : worker[w] = "body" => inHand[w][2] \in permits
  /\ \A s \in permits : \/ sub[s] \in {"permitted", "schedule", "bind"}
                        \/ sub[s] = "accepted" /\ ~WorkDone(s)

\* When a lane's close returns, every submission it accepted is settled, no
\* permit is held for it, and nothing of it is ever queued or run again.
DrainedIsFinal ==
  [][\A l \in Lane : sealed[l] /\ Quiet(l) =>
       /\ sealed'[l] /\ Quiet(l)'
       /\ \A s \in Submission : LaneOf[s] = l /\ sub[s] \in {"accepted", "merged"} =>
            future[s] \in Settled /\ s \notin permits]_vars

\* Every accepted submission settles: its call runs, or a close or its caller
\* cancels it, also when the factory is closed past its deadline.  (A submission is
\* accepted once, so there is a time after which none is left waiting.)
AcceptedSettles ==
  <>[](\A s \in Submission : sub[s] \in {"accepted", "merged"} => future[s] \in Settled)

\* A failed bounded close can be retried until everything has joined: a lane that
\* still waits for its worker has a worker.
RetryCanConverge ==
  \A l \in Lane : scheduled[l] => worker[WorkerOf[l]] # "gone"

\* What a lane serves: the item its worker took, until its outcome is out.
ServedBy(l) ==
  LET w == WorkerOf[l] IN
  IF worker[w] \in {"item", "body"} /\ inHand[w][1] = l THEN inHand[w][2] ELSE None

Executor == INSTANCE SerialExecutor WITH
              queue <- items, serving <- [l \in Lane |-> ServedBy(l)],
              members <- watchers, newest <- call, handle <- future, outcome <- result

\* Submitters, shared workers, permits and closes implement the serial executor:
\* a lane's calls start in the order they were accepted, one at a time and once each,
\* and every watcher gets the outcome of the newest call it shares.
ImplementsSerialExecutor == Executor!Spec
=============================================================================
