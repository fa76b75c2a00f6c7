------------------------------ MODULE Recurring ------------------------------
(***************************************************************************)
(* The recurring children of one structured task group (its heartbeats):   *)
(* _schedule_serial_fixed_delay and its tick, the recurring half of        *)
(* _TaskStateAuthority, the thread of HeapTimerScheduler that runs every   *)
(* tick and every deadline, the serial lane the runs go to, and close().   *)
(*                                                                         *)
(* A child is scheduled by a thread of its own.  Its record is updated     *)
(* under the lock of the state authority, one step per critical section; a *)
(* canceller's calls on the handles it took there belong to that step.     *)
(* Runs of all children queue in one lane of one worker, and take their    *)
(* permits from a budget that other groups use too.                        *)
(***************************************************************************)
EXTENDS Naturals, Sequences, FiniteSets

CONSTANTS
  Child,
  None,         \* no tick, no run
  Timed,        \* the children with a deadline of their own
  FailFast,     \* the group's TaskFailurePolicy is FAIL_FAST
  Capacity,     \* of the lane's mailbox
  Permits,      \* the serial budget
  MaxCloses     \* bound on the close calls that lead

Outcome == {"ok", "error", "stopped"}

\* Where the timer thread can be in a tick, and a run in the lane.
Tick == [child: Child, out: Outcome \cup {"none"},
         at: {"look", "acquire", "permitted", "handed", "watched"}]
Run  == [child: Child, at: Outcome \cup {"start", "body"}]

ASSUME RecurringAssumption ==
  /\ IsFiniteSet(Child) /\ Timed \subseteq Child
  /\ None \notin Child \cup Tick \cup Run /\ FailFast \in BOOLEAN
  /\ Capacity \in Nat \ {0} /\ Permits \in Nat \ {0} /\ MaxCloses \in Nat

VARIABLES
  groupCancelled, sealed,
  record,       \* the _RecurringRecord of a child, with its timer registrations
  overdue,      \* the children whose deadline has passed
  call,         \* where the call that schedules a child is
  tick,         \* the tick the timer thread is in
  mailbox, run, laneClosed,
  others,       \* the permits that other groups hold
  jammed,       \* the timer thread is in a tick of another group that waits for a permit
  owes, todo,   \* threads that have to cancel the group's children, and which
  closer, quiesced, drained, converged, closes

groupVars  == <<groupCancelled, owes, todo>>
laneVars   == <<mailbox, run>>
closeVars  == <<sealed, laneClosed, closer, quiesced, drained, converged, closes>>
worldVars  == <<others, jammed>>
vars == <<groupVars, record, overdue, call, tick, laneVars, worldVars, closeVars>>

\* The threads that may cancel the group.  A child stands for its scheduling thread.
Thread == {"user", "timer", "worker", "closer"} \cup Child

Terminal == {"failed", "cancelled"}

Blank == [state |-> "none", dropped |-> FALSE, token |-> FALSE, held |-> FALSE,
          timer |-> "none", bound |-> FALSE, alarm |-> FALSE]

Init ==
  /\ groupCancelled = FALSE /\ owes = {} /\ todo = [h \in Thread |-> {}]
  /\ record = [c \in Child |-> Blank] /\ overdue = {} /\ call = [c \in Child |-> "idle"]
  /\ tick = None /\ mailbox = <<>> /\ run = None /\ others = 0 /\ jammed = FALSE
  /\ sealed = FALSE /\ laneClosed = FALSE /\ closer = "open" /\ quiesced = FALSE
  /\ drained = FALSE /\ converged = FALSE /\ closes = 0

Reserved == {c \in Child : record[c].state # "none"}
Busy(h) == h \in owes \/ todo[h] # {}
Cancelled(c) == groupCancelled \/ record[c].token

-----------------------------------------------------------------------------
(* The transitions of a record.                                            *)

\* timer_handle.cancel(), when the record has the handle.
Halt(r) == IF r.bound THEN [r EXCEPT !.timer = "dead"] ELSE r

\* cancel_recurring.
Drop(r) == Halt([r EXCEPT !.dropped = TRUE, !.token = TRUE, !.alarm = FALSE,
                          !.state = IF @ = "failed" THEN @ ELSE "cancelled"])

\* mark_recurring_execution_cancelled.
Stop(r) == [r EXCEPT !.state = IF @ = "failed" THEN @ ELSE "cancelled"]

\* mark_recurring_failed, of a record that is not terminal.
Fail(r) == [Halt(r) EXCEPT !.state = "failed", !.alarm = FALSE, !.bound = FALSE]

\* expire_recurring, of a record that is not terminal.
Lapse(r) == Halt([r EXCEPT !.state = "failed", !.alarm = FALSE, !.token = TRUE])

Queued(c) == \E i \in DOMAIN mailbox : mailbox[i] = [child |-> c, live |-> TRUE]
Running(c) == run # None /\ run.child = c /\ run.at \in {"start", "body"}

\* current.cancel(): a run that is still queued ends, one that has begun does not.
Revoke(c) == mailbox' = IF record[c].held
                        THEN [i \in DOMAIN mailbox |-> IF mailbox[i].child = c
                                THEN [mailbox[i] EXCEPT !.live = FALSE] ELSE mailbox[i]]
                        ELSE mailbox

\* The record's current is still a handle that is not done.
Holding(c, r) == [r EXCEPT !.held = @ /\ ~Queued(c)]

\* group.cancel(): the token first, the children after it.
CancelGroup(h) == groupCancelled' = TRUE /\ owes' = owes \cup {h} /\ UNCHANGED todo

\* The group is cancelled by the thread of a failure.
FailGroup(h) == IF FailFast THEN CancelGroup(h) ELSE UNCHANGED groupVars

\* A child that is already failed or cancelled takes no failure.
MarkFailed(c, h) ==
  IF record[c].state \in Terminal
  THEN UNCHANGED <<record, groupVars>>
  ELSE record' = [record EXCEPT ![c] = Fail(@)] /\ FailGroup(h)

Expire(c, h) ==
  IF record[c].state \in Terminal
  THEN UNCHANGED <<record, groupVars, mailbox>>
  ELSE record' = [record EXCEPT ![c] = Holding(c, Lapse(@))] /\ Revoke(c) /\ FailGroup(h)

MarkStopped(c) == record' = [record EXCEPT ![c] = Stop(@)] /\ UNCHANGED groupVars

CancelChild(c) == record' = [record EXCEPT ![c] = Holding(c, Drop(@))] /\ Revoke(c)

\* cancel_all: a snapshot of the reserved children, worked off one by one.
Snapshot(h) ==
  /\ h \in owes /\ owes' = owes \ {h}
  /\ todo' = [todo EXCEPT ![h] = @ \cup Reserved]
  /\ UNCHANGED <<groupCancelled, record, overdue, call, tick, laneVars, worldVars, closeVars>>

WorkOff(h) == \E c \in todo[h] :
  /\ CancelChild(c) /\ todo' = [todo EXCEPT ![h] = @ \ {c}]
  /\ UNCHANGED <<groupCancelled, owes, overdue, call, tick, run, worldVars, closeVars>>

-----------------------------------------------------------------------------
(* Scheduling a child, inside a submission scope.                          *)

CallTo(c, where) == call' = [call EXCEPT ![c] = where]

Enter(c) ==
  /\ call[c] = "idle" /\ ~sealed /\ ~groupCancelled /\ CallTo(c, "entered")
  /\ UNCHANGED <<groupVars, record, overdue, tick, laneVars, worldVars, closeVars>>

\* The lane was closed by a close() that did not wait long enough.
FindLaneClosed(c) ==
  /\ call[c] = "entered" /\ laneClosed /\ CallTo(c, "returned")
  /\ UNCHANGED <<groupVars, record, overdue, tick, laneVars, worldVars, closeVars>>

Reserve(c) ==
  /\ call[c] = "entered" /\ ~laneClosed /\ CallTo(c, "reserved")
  /\ record' = [record EXCEPT ![c].state = "pending"]
  /\ UNCHANGED <<groupVars, overdue, tick, laneVars, worldVars, closeVars>>

\* The deadline has passed before the timer knows of the child: an error.
ReserveLate(c) ==
  /\ call[c] = "reserved" /\ c \in overdue /\ Expire(c, c) /\ CallTo(c, "leaving")
  /\ UNCHANGED <<overdue, tick, run, worldVars, closeVars>>

Register(c) ==
  /\ call[c] = "reserved" /\ CallTo(c, "registered")
  /\ record' = [record EXCEPT ![c].timer = "live"]
  /\ UNCHANGED <<groupVars, overdue, tick, laneVars, worldVars, closeVars>>

\* The timer refuses the child, or later its deadline: the error is the child's failure.
RegisterFails(c) ==
  /\ \/ call[c] = "reserved"
     \/ call[c] = "bound" /\ c \in Timed
  /\ MarkFailed(c, c) /\ CallTo(c, "leaving")
  /\ UNCHANGED <<overdue, tick, laneVars, worldVars, closeVars>>

\* bind_recurring_timer, and the cancellation of a registration it refuses.
Bind(c) ==
  /\ call[c] = "registered" /\ CallTo(c, "bound")
  /\ record' = [record EXCEPT ![c] =
       IF @.state \in Terminal \/ @.dropped THEN [@ EXCEPT !.timer = "dead"]
       ELSE [@ EXCEPT !.bound = TRUE, !.state = "running"]]
  /\ UNCHANGED <<groupVars, overdue, tick, laneVars, worldVars, closeVars>>

\* _arm_recurring_deadline.
Arm(c) ==
  /\ call[c] = "bound" /\ CallTo(c, "armed")
  /\ IF c \in overdue THEN Expire(c, c)
     ELSE /\ record' = [record EXCEPT ![c].alarm = c \in Timed /\ record[c].state \notin Terminal]
          /\ UNCHANGED <<groupVars, mailbox>>
  /\ UNCHANGED <<overdue, tick, run, worldVars, closeVars>>

\* Faulty variant of LastLook: a cancellation during the call is not looked for.
LastLookOmitted(c) ==
  /\ call[c] = "armed" /\ ~Busy(c) /\ CallTo(c, "returned")
  /\ UNCHANGED <<record, groupVars, overdue, tick, laneVars, worldVars, closeVars>>

\* The group was cancelled or sealed meanwhile: its sweep may have missed the child.
\* Then the call leaves its scope.
LastLook(c) ==
  /\ call[c] = "armed" /\ ~Busy(c) /\ CallTo(c, "returned")
  /\ IF groupCancelled \/ sealed THEN CancelChild(c) ELSE UNCHANGED <<record, mailbox>>
  /\ UNCHANGED <<groupVars, overdue, tick, run, worldVars, closeVars>>

\* A call that raises.
Leave(c) ==
  /\ call[c] = "leaving" /\ ~Busy(c) /\ CallTo(c, "returned")
  /\ UNCHANGED <<groupVars, record, overdue, tick, laneVars, worldVars, closeVars>>

-----------------------------------------------------------------------------
(* The timer thread.  A tick runs on it from beginning to end, the wait    *)
(* for a permit included; so does a deadline.                              *)

TimerFree == tick = None /\ ~jammed /\ ~Busy("timer")
TickTo(where) == tick' = [tick EXCEPT !.at = where]
At(c, where) == tick # None /\ tick.child = c /\ tick.at = where

\* Faulty variant of Skips: the child's last run may not have ended.
SkipsLess(r) == r.dropped \/ r.state = "failed"

\* recurring_tick_status, as far as it says skip.
Skips(r) == r.dropped \/ r.held \/ r.state = "failed"

\* An entry is due.  The tick reads the lifecycle and the group's token first;
\* one that does nothing goes back to the heap at once.
Fire(c) ==
  /\ TimerFree /\ record[c].timer = "live" /\ ~sealed /\ ~groupCancelled
  /\ tick' = [child |-> c, at |-> "look", out |-> "none"]
  /\ UNCHANGED <<groupVars, record, overdue, call, laneVars, worldVars, closeVars>>

Look(c) ==
  /\ At(c, "look")
  /\ \/ Skips(record[c]) /\ tick' = None /\ UNCHANGED <<record, groupVars, mailbox>>
     \/ ~Skips(record[c]) /\ c \in overdue /\ tick' = None /\ Expire(c, "timer")
     \/ ~Skips(record[c]) /\ c \notin overdue /\ TickTo("acquire")
        /\ UNCHANGED <<record, groupVars, mailbox>>
  /\ UNCHANGED <<overdue, call, run, worldVars, closeVars>>

\* The permits this group holds: of queued and running runs, and of the tick.
Held == Cardinality({i \in DOMAIN mailbox : mailbox[i].live})
        + (IF run # None /\ run.at \in {"start", "body"} THEN 1 ELSE 0)
        + (IF tick # None /\ tick.at = "permitted" THEN 1 ELSE 0)

\* Faulty variant of Free: one permit more than the budget has.
FreeLate == Held + others <= Permits

Free == Held + others < Permits

Acquire(c) ==
  /\ At(c, "acquire") /\ Free /\ TickTo("permitted")
  /\ UNCHANGED <<groupVars, record, overdue, call, laneVars, worldVars, closeVars>>

\* The wait for a permit, or the lane, finds the child cancelled.
TickCancelled(c) ==
  /\ At(c, "acquire") \/ At(c, "permitted")
  /\ Cancelled(c) /\ MarkStopped(c) /\ tick' = None
  /\ UNCHANGED <<overdue, call, laneVars, worldVars, closeVars>>

\* The wait ends with the deadline, or the lane is closed.
TickFails(c) ==
  /\ \/ At(c, "acquire") /\ c \in overdue /\ ~Cancelled(c)
     \/ At(c, "permitted") /\ laneClosed
  /\ MarkFailed(c, "timer") /\ tick' = None
  /\ UNCHANGED <<overdue, call, laneVars, worldVars, closeVars>>

\* The mailbox is full, of these children's runs or of other work of the group.
TickRejected(c) ==
  /\ At(c, "permitted") /\ ~laneClosed /\ ~Cancelled(c) /\ tick' = None
  /\ UNCHANGED <<groupVars, record, overdue, call, laneVars, worldVars, closeVars>>

Submit(c) ==
  /\ At(c, "permitted") /\ ~laneClosed /\ ~Cancelled(c) /\ Len(mailbox) < Capacity
  /\ mailbox' = Append(mailbox, [child |-> c, live |-> TRUE]) /\ TickTo("handed")
  /\ UNCHANGED <<groupVars, record, overdue, call, run, worldVars, closeVars>>

\* on_done: what the record makes of a run that is over.
Note(c, out, h) ==
  \/ out \notin {"stopped", "error"} /\ UNCHANGED <<record, groupVars>>
  \/ out = "stopped" /\ MarkStopped(c)
  \/ out = "error" /\ MarkFailed(c, h)

\* add_done_callback: on a run that is over the callback runs here.
Watch(c) ==
  /\ At(c, "handed") /\ Note(c, tick.out, "timer") /\ TickTo("watched")
  /\ UNCHANGED <<overdue, call, laneVars, worldVars, closeVars>>

\* set_recurring_current.
Adopt(c) ==
  /\ At(c, "watched") /\ tick' = None
  /\ record' = [record EXCEPT ![c].held = Queued(c) \/ Running(c)]
  /\ UNCHANGED <<groupVars, overdue, call, laneVars, worldVars, closeVars>>

\* The timer of the child's own deadline.
Alarm(c) ==
  /\ TimerFree /\ record[c].alarm /\ c \in overdue
  /\ \/ record[c].state \notin Terminal /\ Expire(c, "timer")
     \/ record[c].state \in Terminal /\ record' = [record EXCEPT ![c].alarm = FALSE]
        /\ UNCHANGED <<groupVars, mailbox>>
  /\ UNCHANGED <<overdue, call, tick, run, worldVars, closeVars>>

-----------------------------------------------------------------------------
(* The lane's worker.                                                      *)

Take ==
  /\ run = None /\ ~Busy("worker") /\ mailbox # <<>> /\ mailbox' = Tail(mailbox)
  /\ run' = IF Head(mailbox).live THEN [child |-> Head(mailbox).child, at |-> "start"] ELSE None
  /\ UNCHANGED <<groupVars, record, overdue, call, tick, worldVars, closeVars>>

\* The run's future settles and its permit returns.  If the tick has not added
\* its callback yet, the callback is left to the tick.
Settle(out) ==
  LET c == run.child IN
  /\ record' = [record EXCEPT ![c].held = FALSE]
  /\ \/ At(c, "handed") /\ run' = None /\ tick' = [tick EXCEPT !.out = out]
     \/ ~At(c, "handed") /\ run' = [run EXCEPT !.at = out] /\ UNCHANGED tick

\* What a checkpoint of the child's context finds.
Checked(c) == IF Cancelled(c) THEN "stopped" ELSE IF c \in overdue THEN "error" ELSE "ok"

\* invoke, up to the function.
Begin ==
  /\ run # None /\ run.at = "start"
  /\ \/ Checked(run.child) = "ok" /\ run' = [run EXCEPT !.at = "body"] /\ UNCHANGED <<record, tick>>
     \/ Checked(run.child) # "ok" /\ Settle(Checked(run.child))
  /\ UNCHANGED <<groupVars, overdue, call, mailbox, worldVars, closeVars>>

\* The function returns and the last checkpoint passes or not, or it raises: an
\* error, or a TaskCancelled that need not come from this child's cancellation.
Finish(out) ==
  /\ run # None /\ run.at = "body"
  /\ out \in {"error", "stopped", Checked(run.child)}
  /\ Settle(out)
  /\ UNCHANGED <<groupVars, overdue, call, mailbox, worldVars, closeVars>>

\* The worker runs on_done; it is done with the run when the group is cancelled,
\* if the run's failure asks for that.
Report ==
  /\ run # None /\ run.at \in Outcome
  /\ Note(run.child, run.at, "worker") /\ run' = None
  /\ UNCHANGED <<overdue, call, tick, mailbox, worldVars, closeVars>>

-----------------------------------------------------------------------------
(* The rest of the world: time, permits of other groups, cancellations.    *)

Pass(c) ==
  /\ c \in Timed \ overdue /\ call[c] # "idle" /\ overdue' = overdue \cup {c}
  /\ UNCHANGED <<groupVars, record, call, tick, laneVars, worldVars, closeVars>>

OthersAcquire ==
  /\ Free /\ others' = others + 1
  /\ UNCHANGED <<groupVars, record, overdue, call, tick, laneVars, jammed, closeVars>>

OthersRelease ==
  /\ others > 0 /\ others' = others - 1
  /\ UNCHANGED <<groupVars, record, overdue, call, tick, laneVars, jammed, closeVars>>

\* A tick of another group takes the timer thread until it gets its permit.
Jam ==
  /\ TimerFree /\ jammed' = TRUE
  /\ UNCHANGED <<groupVars, record, overdue, call, tick, laneVars, others, closeVars>>

Unjam ==
  /\ jammed /\ Free /\ jammed' = FALSE /\ others' = others + 1
  /\ UNCHANGED <<groupVars, record, overdue, call, tick, laneVars, closeVars>>

UserCancel ==
  /\ ~groupCancelled /\ CancelGroup("user")
  /\ UNCHANGED <<record, overdue, call, tick, laneVars, worldVars, closeVars>>

\* cancel() of the handle a scheduling call returned.
CancelHandle(c) ==
  /\ call[c] = "returned" /\ record[c].timer # "none" /\ ~record[c].dropped /\ CancelChild(c)
  /\ UNCHANGED <<groupVars, overdue, call, tick, run, worldVars, closeVars>>

-----------------------------------------------------------------------------
(* close(), the calls that lead.                                           *)

InScope == {c \in Child : call[c] \notin {"idle", "returned"}}

BeginClose(pending) ==
  /\ closer \in {"open", "closed"} /\ ~converged /\ closes < MaxCloses
  /\ closer' = "sealed" /\ sealed' = TRUE /\ closes' = closes + 1
  /\ \/ pending /\ CancelGroup("closer")
     \/ ~pending /\ UNCHANGED groupVars
  /\ UNCHANGED <<record, overdue, call, tick, laneVars, worldVars, laneClosed, quiesced, drained, converged>>

\* wait_for_submissions ends, in time or not, and cancel_all_recurring begins.
Quiesce(intime) ==
  /\ closer = "sealed" /\ ~Busy("closer") /\ closer' = "sweep"
  /\ intime => InScope = {}
  /\ quiesced' = intime /\ todo' = [todo EXCEPT !["closer"] = Reserved]
  /\ UNCHANGED <<groupCancelled, owes, record, overdue, call, tick, laneVars, worldVars, sealed,
                 laneClosed, drained, converged, closes>>

\* wait() joins the children until it is done or late; then the lane is sealed.
CloseLane ==
  /\ closer = "sweep" /\ ~Busy("closer") /\ closer' = "drain" /\ laneClosed' = TRUE
  /\ UNCHANGED <<groupVars, record, overdue, call, tick, laneVars, worldVars, sealed, quiesced,
                 drained, converged, closes>>

Drain(intime) ==
  /\ closer = "drain" /\ closer' = "decide" /\ drained' = intime
  /\ intime => mailbox = <<>> /\ run = None /\ ~Busy("worker")
  /\ UNCHANGED <<groupVars, record, overdue, call, tick, laneVars, worldVars, sealed, laneClosed,
                 quiesced, converged, closes>>

\* Faulty variant of Converges: the lane may have failed to drain.
ConvergesUndrained == quiesced /\ \A c \in Child : ~record[c].held

Converges == quiesced /\ drained /\ \A c \in Child : ~record[c].held

Decide ==
  /\ closer = "decide" /\ closer' = "closed" /\ converged' = Converges
  /\ UNCHANGED <<groupVars, record, overdue, call, tick, laneVars, worldVars, sealed, laneClosed,
                 quiesced, drained, closes>>

-----------------------------------------------------------------------------
Scheduling(c) ==
  \/ Enter(c) \/ FindLaneClosed(c) \/ Reserve(c) \/ ReserveLate(c) \/ Register(c)
  \/ RegisterFails(c) \/ Bind(c) \/ Arm(c) \/ LastLook(c) \/ Leave(c)

Ticking(c) ==
  \/ Fire(c) \/ Look(c) \/ Acquire(c) \/ TickCancelled(c) \/ TickFails(c) \/ TickRejected(c)
  \/ Submit(c) \/ Watch(c) \/ Adopt(c)

Working == Take \/ Begin \/ (\E out \in Outcome : Finish(out)) \/ Report

Closing ==
  \/ \E yes \in BOOLEAN : BeginClose(yes) \/ Quiesce(yes) \/ Drain(yes)
  \/ CloseLane \/ Decide

Cancelling(h) == Snapshot(h) \/ WorkOff(h)

Next ==
  \/ \E c \in Child : Scheduling(c) \/ Ticking(c) \/ Alarm(c) \/ Pass(c) \/ CancelHandle(c)
  \/ Working \/ Closing \/ \E h \in Thread : Cancelling(h)
  \/ OthersAcquire \/ OthersRelease \/ Jam \/ Unjam \/ UserCancel

Spec == Init /\ [][Next]_vars

\* Every thread goes on, a call that was begun is finished, and functions end.
\* Other groups' permits come back and admission lets no waiter starve; the
\* timer's heap serves a due deadline before entries queued later.
Fairness ==
  /\ \A c \in Child : /\ WF_vars(Scheduling(c) /\ call[c] # "idle")
                      /\ WF_vars(Ticking(c)) /\ SF_vars(Alarm(c))
  /\ \A h \in Thread : WF_vars(Cancelling(h))
  /\ WF_vars(Working) /\ WF_vars(Closing /\ closer \notin {"open", "closed"})
  /\ WF_vars(OthersRelease) /\ SF_vars(Unjam)

FairSpec == Spec /\ Fairness

-----------------------------------------------------------------------------
\* Type invariant.
Record == [state: {"none", "pending", "running"} \cup Terminal, dropped: BOOLEAN, token: BOOLEAN,
           held: BOOLEAN, timer: {"none", "live", "dead"}, bound: BOOLEAN,
           alarm: BOOLEAN]
TypeOK ==
  /\ groupCancelled \in BOOLEAN /\ sealed \in BOOLEAN /\ record \in [Child -> Record]
  /\ overdue \subseteq Timed
  /\ call \in [Child -> {"idle", "entered", "reserved", "registered", "bound", "armed",
                         "leaving", "returned"}]
  /\ tick \in Tick \cup {None} /\ run \in Run \cup {None}
  /\ mailbox \in Seq([child: Child, live: BOOLEAN]) /\ Len(mailbox) <= Capacity
  /\ laneClosed \in BOOLEAN /\ others \in 0..Permits /\ Held + others <= Permits /\ jammed \in BOOLEAN
  /\ owes \subseteq Thread /\ todo \in [Thread -> SUBSET Child]
  /\ closer \in {"open", "sealed", "sweep", "drain", "decide", "closed"}
  /\ quiesced \in BOOLEAN /\ drained \in BOOLEAN /\ converged \in BOOLEAN /\ closes \in 0..MaxCloses

\* A slow child is coalesced, never overlapped: at most one of its runs is queued
\* or running, whatever its ticks, cancellations and failures (heartbeat.py's
\* promise that "timer pressure cannot create unbounded renewal fanout").
NoBacklog == \A c \in Child :
  Cardinality({i \in DOMAIN mailbox : mailbox[i].child = c /\ mailbox[i].live})
    + (IF Running(c) THEN 1 ELSE 0) <= 1

\* After a close() that reports convergence nothing of a recurring child is left
\* and nothing comes: no registration in the timer, no deadline, no run, although
\* a tick may have passed its checks before the group was sealed.
ConvergedIsQuiet == converged =>
  /\ mailbox = <<>> /\ run = None
  /\ \A c \in Child : record[c].timer \in {"none", "dead"} /\ ~record[c].alarm

\* The child has to stop: it was cancelled or has failed, its group was cancelled
\* or closed, or its deadline has passed.  The deadline stops no child that is
\* CANCELLED already because its function raised TaskCancelled of its own:
\* expire_recurring and mark_recurring_failed ignore such a child, and it ticks on.
Ended(c) == /\ c \in Reserved
            /\ \/ record[c].dropped \/ record[c].state = "failed" \/ groupCancelled \/ sealed
               \/ c \in overdue /\ record[c].state # "cancelled"

Silent(c) == /\ record[c].timer \in {"none", "dead"} /\ ~record[c].alarm
             /\ ~Queued(c) /\ ~Running(c)

\* A child that has to stop falls silent for good: its timer and its deadline are
\* gone and no run of it is queued or running, even if it was cancelled between a
\* tick's check and set_recurring_current, or before its timer was bound, or while
\* another group's tick held the timer thread.
EndedFallsSilent == \A c \in Child : <>[](Ended(c) => Silent(c))
=============================================================================
