----------------------------- MODULE TaskGroup -----------------------------
(***************************************************************************)
(* StructuredTaskGroup of the concurrency kernel: one owned scope of       *)
(* one-shot children, the threads that submit, run, cancel, expire and     *)
(* close them, and the two authorities they share:                         *)
(*   - _TaskGroupLifecycleAuthority (submission scopes, close leadership)  *)
(*   - _TaskStateAuthority          (logical outcome of every child)       *)
(*                                                                         *)
(* A step is what a thread does between two points where another thread    *)
(* can run: one critical section, or a call that no other thread observes  *)
(* half done.  The logical outcome (state) and the provider handle (raw)   *)
(* are separate state, as they are in the code.  Time is abstracted to     *)
(* the moments the code compares: whether a deadline has passed and        *)
(* whether a cancellation came first.  Recurring children and further      *)
(* groups of the runtime are not modelled.                                 *)
(***************************************************************************)
EXTENDS Integers, FiniteSets

CONSTANTS
  Task,          \* ids of the one-shot children a caller submits
  Closer,        \* threads that call close()
  None,          \* absence of a value
  GroupTimed,    \* does the group have a deadline?
  OwnDeadline,   \* children submitted with a stricter deadline of their own
  Cpu,           \* children of the process pool: no context, no checkpoint
  Async,         \* coroutine children: a cancel request completes them later
  Isolated,      \* children with failure_scope CALLER
  FailFast,      \* failure_policy FAIL_FAST, or COLLECT_ALL
  CancelPending, \* closers that call close(cancel_pending=True)
  MaxCloses      \* bound: close() calls made by one closer

ASSUME ConstantsAssumption ==
  /\ IsFiniteSet(Task)
  /\ OwnDeadline \subseteq Task /\ Cpu \subseteq Task /\ Isolated \subseteq Task
  /\ Async \subseteq Task \ Cpu
  /\ CancelPending \subseteq Closer
  /\ GroupTimed \in BOOLEAN /\ FailFast \in BOOLEAN
  /\ MaxCloses \in Nat
  /\ None \notin Task

VARIABLES
  \* _TaskGroupLifecycleAuthority
  active, closing, closed, converged, closeEvent, closeFailed,
  groupTimer,      \* the group deadline is armed and its handle installed
  \* cancellation tokens and deadlines
  groupCancelled, submissionCancelled, token, passed, groupPassed,
  \* _TaskRecord: logical state, raw_handle bound, deadline_handle bound
  state, bound, handle,
  timer,           \* deadlines of children armed at the timer scheduler
  \* provider handles: progress, completion stamp, done callback
  raw, stamp, hook,
  overdue,         \* history: bodies that returned a value too late
  \* threads
  sub,             \* where the submitter of each child is
  close, attempt, calls, ret,
  todo, owes       \* children each thread has yet to cancel, threads about to cancel all

lifeVars   == <<active, closing, closed, converged, closeEvent, closeFailed>>
tokenVars  == <<groupCancelled, submissionCancelled, token>>
timeVars   == <<passed, groupPassed>>
recordVars == <<state, handle, timer>>
rawVars    == <<raw, stamp, hook, overdue>>
closeVars  == <<close, attempt, calls, ret>>
sweepVars  == <<todo, owes>>
vars == <<lifeVars, groupTimer, tokenVars, timeVars, recordVars, bound,
          rawVars, sub, closeVars, sweepVars>>

Live     == {"PENDING", "RUNNING"}
Terminal == {"SUCCEEDED", "FAILED", "CANCELLED"}
Ended    == {"ok", "error", "expired", "cancelled"}

Stamp == [late : BOOLEAN, cut : BOOLEAN]

\* The threads, each a pair so that they compare: the submitter and the worker
\* of every child, the closers, the timer thread and a caller of the group.
Submitter(t) == <<"submitter", t>>
Worker(t)    == <<"worker", t>>
ClosingBy(c) == <<"closer", c>>
Timer        == <<"timer", None>>
Caller       == <<"caller", None>>
Thread == {Submitter(t) : t \in Task} \cup {Worker(t) : t \in Task}
            \cup {ClosingBy(c) : c \in Closer} \cup {Timer, Caller}

Attempt == [quiesced : BOOLEAN, lanesClosed : BOOLEAN, failed : BOOLEAN,
            join : SUBSET Task, converged : BOOLEAN]
NoAttempt == [quiesced |-> FALSE, lanesClosed |-> FALSE, failed |-> FALSE,
              join |-> {}, converged |-> FALSE]

InScope == {"scoped", "reserved", "submitted", "bound", "hooked", "binding",
            "armed", "leaving"}
Leading == {"sealed", "drain", "join", "judge", "publish"}

Init ==
  /\ active = 0 /\ closing = FALSE /\ closed = FALSE /\ converged = FALSE
  /\ closeEvent = FALSE /\ closeFailed = FALSE
  /\ groupTimer = GroupTimed
  /\ groupCancelled = FALSE /\ submissionCancelled = FALSE
  /\ token = {} /\ passed = {} /\ groupPassed = FALSE
  /\ state = [t \in Task |-> "none"] /\ bound = {} /\ handle = {} /\ timer = {}
  /\ raw = [t \in Task |-> "none"] /\ stamp = [t \in Task |-> None]
  /\ hook = [t \in Task |-> "none"] /\ overdue = {}
  /\ sub = [t \in Task |-> "start"]
  /\ close = [c \in Closer |-> "idle"] /\ attempt = [c \in Closer |-> NoAttempt]
  /\ calls = [c \in Closer |-> 0] /\ ret = [c \in Closer |-> "none"]
  /\ todo = [th \in Thread |-> {}] /\ owes = {}

-----------------------------------------------------------------------------
(* Outcome of a child.                                                     *)

Owner(t) == IF t \in OwnDeadline THEN "TASK"
            ELSE IF GroupTimed THEN "GROUP" ELSE "NONE"

Expired(t) == \/ Owner(t) = "TASK" /\ t \in passed
              \/ Owner(t) = "GROUP" /\ groupPassed

\* What a cooperative body sees at a checkpoint.
Interrupted(t) == groupCancelled \/ t \in token

\* Faulty variant of Now: the group's token is not consulted.
NowOwnTokenOnly(t) == [late |-> t \in passed, cut |-> t \in token]

\* A completion stamped now: past the child's deadline? after a cancellation?
Now(t) == [late |-> t \in passed, cut |-> Interrupted(t)]

\* completed_monotonic, or the reading time when the stamp is not there yet.
Completed(t) == IF stamp[t] = None THEN Now(t) ELSE stamp[t]

\* The thread has nothing left to do for a group cancellation it started.
Idle(th) == todo[th] = {} /\ th \notin owes

\* A sweep passes over a terminal child without effect: it is dropped from every
\* sweep as soon as it is terminal.
Drop(t) == [th \in Thread |-> todo[th] \ {t}]

\* Faulty variant of Mark: the last outcome wins.
MarkOverwriting(t, s) ==
  /\ state' = [state EXCEPT ![t] = s]
  /\ timer' = timer \ (handle \cap {t})
  /\ handle' = handle \ {t}
  /\ todo' = Drop(t)

\* mark_succeeded, mark_cancelled and mark_failed: the first outcome stays, the
\* bound deadline is disarmed.
Mark(t, s) ==
  IF state[t] \in Terminal THEN UNCHANGED <<recordVars, todo>>
  ELSE /\ state' = [state EXCEPT ![t] = s]
       /\ todo' = Drop(t)
       /\ timer' = timer \ (handle \cap {t})
       /\ handle' = handle \ {t}

\* Faulty variant of Escalates: only a child that was running is noticed.
EscalatesWhenRunning(t, s) == /\ state[t] = "RUNNING"
                              /\ s = "FAILED" /\ FailFast /\ t \notin Isolated

\* A failed child of a FAIL_FAST group makes its thread cancel the group.
Escalates(t, s) == /\ state[t] \notin Terminal
                   /\ s = "FAILED" /\ FailFast /\ t \notin Isolated

MarkBy(th, t, s) ==
  /\ Mark(t, s)
  /\ owes' = IF Escalates(t, s) THEN owes \cup {th} ELSE owes

Outcome(t, r, st) ==
  IF t \in OwnDeadline /\ st.late THEN "FAILED"
  ELSE CASE r = "cancelled" -> "CANCELLED"
         [] r = "expired"   -> IF Owner(t) = "GROUP" THEN "CANCELLED" ELSE "FAILED"
         [] r = "error"     -> "FAILED"
         [] r = "ok"        -> IF st.cut THEN "CANCELLED" ELSE "SUCCEEDED"
         [] OTHER           -> state[t]

\* sync_terminal_from_raw for a handle that is done.
Sync(th, t) ==
  LET s == Outcome(t, raw[t], Completed(t)) IN
  /\ Mark(t, s)
  /\ owes' = IF \/ Escalates(t, s)
                \/ /\ state[t] \notin Terminal
                   /\ Owner(t) = "GROUP" /\ raw[t] = "expired"
             THEN owes \cup {th} ELSE owes

\* raw.cancel(): a queued body never starts; a running one is not preempted.
Cancellable(t) == t \in bound /\ t \notin Async /\ raw[t] = "queued"
CancelRaw(t) ==
  IF Cancellable(t)
  THEN /\ raw' = [raw EXCEPT ![t] = "cancelled"]
       /\ stamp' = [stamp EXCEPT ![t] = [late |-> t \in passed, cut |-> TRUE]]
       /\ hook' = [hook EXCEPT ![t] = IF @ = "set" THEN "ran" ELSE @]
       /\ UNCHANGED overdue
  ELSE UNCHANGED rawVars

\* The body is known to have ended before the deadline of the child.
EndedInTime(t) == stamp[t] # None /\ ~stamp[t].late

\* expire_task, by the timer, by the submitter or by a caller of result().
Expire(th, t) ==
  \/ /\ state[t] \in Terminal
     /\ UNCHANGED <<state, handle, token, rawVars, todo, owes>>
  \/ /\ state[t] \notin Terminal /\ EndedInTime(t)
     /\ state' = [state EXCEPT ![t] = Outcome(t, raw[t], stamp[t])]
     /\ handle' = handle \ {t}
     /\ todo' = Drop(t)
     /\ owes' = IF Escalates(t, Outcome(t, raw[t], stamp[t]))
                THEN owes \cup {th} ELSE owes
     /\ UNCHANGED <<token, rawVars>>
  \/ /\ state[t] \notin Terminal /\ ~EndedInTime(t)
     /\ state' = [state EXCEPT ![t] = "FAILED"]
     /\ handle' = handle \ {t}
     /\ todo' = Drop(t)
     /\ token' = IF t \in Cpu THEN token ELSE token \cup {t}
     /\ CancelRaw(t)
     /\ owes' = IF Escalates(t, "FAILED") THEN owes \cup {th} ELSE owes

-----------------------------------------------------------------------------
(* The submitter of a child: submission_scope, _reserve_task,              *)
(* _submit_contextual / _submit_async_io / _submit_cpu.                    *)

SubmitterAt(t, from) == sub[t] = from /\ Idle(Submitter(t))
SubmitterTo(t, to)   == sub' = [sub EXCEPT ![t] = to]

EnterScope(t) ==
  /\ SubmitterAt(t, "start")
  /\ ~closing /\ ~closed /\ ~groupCancelled
  /\ active' = active + 1
  /\ SubmitterTo(t, "scoped")
  /\ UNCHANGED <<closing, closed, converged, closeEvent, closeFailed, groupTimer,
                 tokenVars, timeVars, recordVars, bound, rawVars, closeVars, sweepVars>>

\* Faulty variant of RefuseScope: the count is given back though never taken.
RefuseScopeUncounted(t) ==
  /\ SubmitterAt(t, "start")
  /\ closing \/ closed \/ groupCancelled
  /\ SubmitterTo(t, "left")
  /\ active' = active - 1
  /\ UNCHANGED <<closing, closed, converged, closeEvent, closeFailed, groupTimer,
                 tokenVars, timeVars, recordVars, bound, rawVars, closeVars, sweepVars>>

RefuseScope(t) ==
  /\ SubmitterAt(t, "start")
  /\ closing \/ closed \/ groupCancelled
  /\ SubmitterTo(t, "left")
  /\ UNCHANGED <<lifeVars, groupTimer, tokenVars, timeVars, recordVars, bound,
                 rawVars, closeVars, sweepVars>>

\* An expired deadline ends the submission here: the task's own fails the child,
\* the group's cancels the group (whose sweep then cancels the child).
Reserve(t) ==
  /\ SubmitterAt(t, "scoped")
  /\ LET s == IF Expired(t) /\ Owner(t) = "TASK" THEN "FAILED" ELSE "PENDING"
     IN /\ state' = [state EXCEPT ![t] = s]
        /\ owes' = IF Escalates(t, s) \/ (Expired(t) /\ Owner(t) = "GROUP")
                   THEN owes \cup {Submitter(t)} ELSE owes
  /\ SubmitterTo(t, IF Expired(t) THEN "leaving" ELSE "reserved")
  /\ UNCHANGED <<lifeVars, groupTimer, tokenVars, timeVars, handle, timer, bound,
                 rawVars, closeVars, todo>>

\* The serial lane cannot be resolved, or the task id is already owned.
AbandonScope(t) ==
  /\ SubmitterAt(t, "scoped")
  /\ SubmitterTo(t, "leaving")
  /\ UNCHANGED <<lifeVars, groupTimer, tokenVars, timeVars, recordVars, bound,
                 rawVars, closeVars, sweepVars>>

\* The execution authority took the child: its provider queues it.
SubmitAccepted(t) ==
  /\ SubmitterAt(t, "reserved")
  /\ ~groupCancelled /\ ~submissionCancelled /\ ~Expired(t)
  /\ raw' = [raw EXCEPT ![t] = "queued"]
  /\ SubmitterTo(t, "submitted")
  /\ UNCHANGED <<lifeVars, groupTimer, tokenVars, timeVars, recordVars, bound,
                 stamp, hook, overdue, closeVars, sweepVars>>

\* Faulty variant of SubmitRefused: the exception leaves the record as it is.
SubmitRefusedUnmarked(t) ==
  /\ SubmitterAt(t, "reserved")
  /\ SubmitterTo(t, "leaving")
  /\ UNCHANGED <<lifeVars, groupTimer, tokenVars, timeVars, recordVars, bound,
                 rawVars, closeVars, sweepVars>>

\* TaskCancelled, ExecutionPermitRejected or SerialMailboxRejected.
SubmitRefused(t) ==
  /\ SubmitterAt(t, "reserved")
  /\ MarkBy(Submitter(t), t, "CANCELLED")
  /\ SubmitterTo(t, "leaving")
  /\ UNCHANGED <<lifeVars, groupTimer, tokenVars, timeVars, bound, rawVars,
                 closeVars>>

\* Any other exception, after _normalize_submission_failure: a TimeoutError of a
\* child that waited past the group deadline cancels the group.
SubmitFailed(t) ==
  /\ SubmitterAt(t, "reserved")
  /\ \/ MarkBy(Submitter(t), t, "FAILED")
     \/ /\ Expired(t) /\ Owner(t) = "GROUP"
        /\ Mark(t, "CANCELLED")
        /\ owes' = owes \cup {Submitter(t)}
  /\ SubmitterTo(t, "leaving")
  /\ UNCHANGED <<lifeVars, groupTimer, tokenVars, timeVars, bound, rawVars,
                 closeVars>>

BindRaw(t) ==
  /\ SubmitterAt(t, "submitted")
  /\ bound' = bound \cup {t}
  /\ state' = IF t \in Cpu /\ state[t] = "PENDING"
              THEN [state EXCEPT ![t] = "RUNNING"] ELSE state
  /\ SubmitterTo(t, "bound")
  /\ UNCHANGED <<lifeVars, groupTimer, tokenVars, timeVars, handle, timer,
                 rawVars, closeVars, sweepVars>>

\* Faulty variant of AddDoneCallback: a handle that is already done is skipped.
AddDoneCallbackLate(t) ==
  /\ SubmitterAt(t, "bound")
  /\ hook' = [hook EXCEPT ![t] = IF raw[t] \in Ended THEN "ran" ELSE "set"]
  /\ SubmitterTo(t, "hooked")
  /\ UNCHANGED <<lifeVars, groupTimer, tokenVars, timeVars, recordVars, bound, raw,
                 stamp, overdue, closeVars, sweepVars>>

\* A future that is already done runs the callback at once, in this thread.
AddDoneCallback(t) ==
  /\ SubmitterAt(t, "bound")
  /\ IF raw[t] \in Ended
     THEN /\ Sync(Submitter(t), t)
          /\ hook' = [hook EXCEPT ![t] = "ran"]
     ELSE /\ hook' = [hook EXCEPT ![t] = "set"]
          /\ UNCHANGED <<recordVars, sweepVars>>
  /\ SubmitterTo(t, "hooked")
  /\ UNCHANGED <<lifeVars, groupTimer, tokenVars, timeVars, bound, raw, stamp,
                 overdue, closeVars>>

\* _arm_task_deadline: sync, then expire or register with the timer scheduler.
ArmDeadline(t) ==
  /\ SubmitterAt(t, "hooked")
  /\ \/ /\ t \notin OwnDeadline \/ state[t] \in Terminal
        /\ SubmitterTo(t, "armed")
        /\ UNCHANGED <<recordVars, token, rawVars, sweepVars>>
     \/ /\ t \in OwnDeadline /\ state[t] \in Live /\ raw[t] \in Ended
        /\ Sync(Submitter(t), t)
        /\ SubmitterTo(t, "armed")
        /\ UNCHANGED <<token, rawVars>>
     \/ /\ t \in OwnDeadline /\ state[t] \in Live /\ raw[t] \notin Ended
        /\ t \in passed
        /\ Expire(Submitter(t), t)
        /\ SubmitterTo(t, "armed")
        /\ UNCHANGED timer
     \/ /\ t \in OwnDeadline /\ state[t] \in Live /\ raw[t] \notin Ended
        /\ t \notin passed
        /\ timer' = timer \cup {t}
        /\ SubmitterTo(t, "binding")
        /\ UNCHANGED <<state, handle, token, rawVars, sweepVars>>
     \/ /\ t \in OwnDeadline /\ state[t] \in Live   \* the timer scheduler is closed
        /\ MarkBy(Submitter(t), t, "FAILED")
        /\ SubmitterTo(t, "leaving")
        /\ UNCHANGED <<token, rawVars>>
  /\ UNCHANGED <<lifeVars, groupTimer, groupCancelled, submissionCancelled,
                 timeVars, bound, closeVars>>

\* bind_task_deadline: a child that settled meanwhile disarms its deadline.
BindDeadline(t) ==
  /\ SubmitterAt(t, "binding")
  /\ IF state[t] \in Terminal
     THEN timer' = timer \ {t} /\ UNCHANGED handle
     ELSE handle' = handle \cup {t} /\ UNCHANGED timer
  /\ SubmitterTo(t, "armed")
  /\ UNCHANGED <<lifeVars, groupTimer, tokenVars, timeVars, state, bound,
                 rawVars, closeVars, sweepVars>>

\* A cancellation that came while the child was being submitted reaches it here.
CheckCancelled(t) ==
  /\ SubmitterAt(t, "armed")
  /\ todo' = IF (groupCancelled \/ submissionCancelled) /\ state[t] \in Live
             THEN [todo EXCEPT ![Submitter(t)] = {t}] ELSE todo
  /\ SubmitterTo(t, "leaving")
  /\ UNCHANGED <<lifeVars, groupTimer, tokenVars, timeVars, recordVars, bound,
                 rawVars, closeVars, owes>>

LeaveScope(t) ==
  /\ SubmitterAt(t, "leaving")
  /\ active' = active - 1
  /\ SubmitterTo(t, "left")
  /\ UNCHANGED <<closing, closed, converged, closeEvent, closeFailed, groupTimer,
                 tokenVars, timeVars, recordVars, bound, rawVars, closeVars, sweepVars>>

-----------------------------------------------------------------------------
(* The provider's worker: the body, its checkpoints, its done callbacks.   *)

\* invoke() marks the child running and passes a checkpoint before the body.
StartBody(t) ==
  /\ raw[t] = "queued"
  /\ raw' = [raw EXCEPT ![t] = IF t \notin Cpu /\ Interrupted(t)
                               THEN "cancelled" ELSE "running"]
  /\ state' = IF t \notin Cpu /\ state[t] = "PENDING"
              THEN [state EXCEPT ![t] = "RUNNING"] ELSE state
  /\ UNCHANGED <<lifeVars, groupTimer, tokenVars, timeVars, handle, timer, bound,
                 stamp, hook, overdue, sub, closeVars, sweepVars>>

\* A checkpoint past the group deadline cancels the group before it raises.
CheckGroupDeadline(t) ==
  /\ raw[t] = "running" /\ t \notin Cpu /\ Idle(Worker(t))
  /\ Owner(t) = "GROUP" /\ groupPassed /\ ~Interrupted(t)
  /\ owes' = owes \cup {Worker(t)}
  /\ UNCHANGED <<lifeVars, groupTimer, tokenVars, timeVars, recordVars, bound,
                 rawVars, sub, closeVars, todo>>

\* A body with a context cannot return a value past its last checkpoint.
FinishBody(t) ==
  /\ raw[t] = "running" /\ Idle(Worker(t))
  /\ \E r \in Ended :
       /\ r = "ok" => t \in Cpu \/ (~Interrupted(t) /\ ~Expired(t))
       /\ r = "expired" => t \notin Cpu /\ Expired(t)
       /\ r = "cancelled" => t \notin Cpu /\ Interrupted(t)
       /\ raw' = [raw EXCEPT ![t] = r]
       /\ overdue' = IF r = "ok" /\ (groupCancelled \/ (t \in OwnDeadline \cap passed))
                     THEN overdue \cup {t} ELSE overdue
  /\ UNCHANGED <<lifeVars, groupTimer, tokenVars, timeVars, recordVars, bound,
                 stamp, hook, sub, closeVars, sweepVars>>

\* _capture_completion, the first callback of the future.
CaptureCompletion(t) ==
  /\ raw[t] \in Ended /\ stamp[t] = None
  /\ stamp' = [stamp EXCEPT ![t] = Now(t)]
  /\ UNCHANGED <<lifeVars, groupTimer, tokenVars, timeVars, recordVars, bound,
                 raw, hook, overdue, sub, closeVars, sweepVars>>

DoneCallback(t) ==
  /\ raw[t] \in Ended /\ stamp[t] # None /\ hook[t] = "set" /\ Idle(Worker(t))
  /\ hook' = [hook EXCEPT ![t] = "ran"]
  /\ Sync(Worker(t), t)
  /\ UNCHANGED <<lifeVars, groupTimer, tokenVars, timeVars, bound, raw, stamp,
                 overdue, sub, closeVars>>

-----------------------------------------------------------------------------
(* Time, the timer thread and the callers of the group.                    *)

DeadlinePasses(t) ==
  /\ t \in OwnDeadline \ passed
  /\ passed' = passed \cup {t}
  /\ UNCHANGED <<lifeVars, groupTimer, tokenVars, groupPassed, recordVars, bound,
                 rawVars, sub, closeVars, sweepVars>>

\* The stricter deadlines of the children come before the group's.
GroupDeadlinePasses ==
  /\ GroupTimed /\ ~groupPassed /\ OwnDeadline \subseteq passed
  /\ groupPassed' = TRUE
  /\ UNCHANGED <<lifeVars, groupTimer, tokenVars, passed, recordVars, bound,
                 rawVars, sub, closeVars, sweepVars>>

TaskTimerFires(t) ==
  /\ t \in timer /\ t \in passed /\ Idle(Timer)
  /\ timer' = timer \ {t}
  /\ Expire(Timer, t)
  /\ UNCHANGED <<lifeVars, groupTimer, groupCancelled, submissionCancelled,
                 timeVars, bound, sub, closeVars>>

GroupTimerFires ==
  /\ groupTimer /\ groupPassed /\ Idle(Timer)
  /\ groupTimer' = FALSE
  /\ owes' = owes \cup {Timer}
  /\ UNCHANGED <<lifeVars, tokenVars, timeVars, recordVars, bound, rawVars, sub,
                 closeVars, todo>>

\* cancel(reason), also by __exit__; a repeated call only sweeps again.
CancelGroup ==
  /\ ~groupCancelled /\ Idle(Caller)
  /\ owes' = owes \cup {Caller}
  /\ UNCHANGED <<lifeVars, groupTimer, tokenVars, timeVars, recordVars, bound,
                 rawVars, sub, closeVars, todo>>

\* handle.cancel()
CancelHandle(t) ==
  /\ sub[t] = "left" /\ t \in bound /\ state[t] \in Live /\ Idle(Caller)
  /\ todo' = [todo EXCEPT ![Caller] = {t}]
  /\ UNCHANGED <<lifeVars, groupTimer, tokenVars, timeVars, recordVars, bound,
                 rawVars, sub, closeVars, owes>>

\* handle.state, snapshot(), assert_healthy(), the end of handle.result()
Observe(t) ==
  /\ t \in bound /\ raw[t] \in Ended /\ state[t] \in Live /\ Idle(Caller)
  /\ Sync(Caller, t)
  /\ UNCHANGED <<lifeVars, groupTimer, tokenVars, timeVars, bound, rawVars, sub,
                 closeVars>>

\* handle.result() waited until the deadline of the child.
ResultExpires(t) ==
  /\ sub[t] = "left" /\ t \in bound /\ raw[t] \notin Ended /\ state[t] \in Live
  /\ Expired(t) /\ Idle(Caller)
  /\ IF Owner(t) = "GROUP"
     THEN /\ owes' = owes \cup {Caller}
          /\ UNCHANGED <<state, handle, token, rawVars, todo>>
     ELSE Expire(Caller, t)
  /\ UNCHANGED <<lifeVars, groupTimer, groupCancelled, submissionCancelled,
                 timeVars, timer, bound, sub, closeVars>>

-----------------------------------------------------------------------------
(* StructuredTaskGroup.cancel and _TaskStateAuthority.cancel_task.         *)

\* Faulty variant of CancelAll: children that did not start yet are forgotten.
CancelRunning(th) ==
  /\ th \in owes /\ todo[th] = {}
  /\ owes' = owes \ {th}
  /\ groupCancelled' = TRUE
  /\ groupTimer' = FALSE
  /\ todo' = [todo EXCEPT ![th] = {t \in Task : state[t] = "RUNNING"}]
  /\ UNCHANGED <<lifeVars, submissionCancelled, token, timeVars, recordVars, bound,
                 rawVars, sub, closeVars>>

\* The token first, then the group deadline, then a snapshot of the children.
CancelAll(th) ==
  /\ th \in owes /\ todo[th] = {}
  /\ owes' = owes \ {th}
  /\ groupCancelled' = TRUE
  /\ groupTimer' = FALSE
  /\ todo' = [todo EXCEPT ![th] = {t \in Task : state[t] \in Live}]
  /\ UNCHANGED <<lifeVars, submissionCancelled, token, timeVars, recordVars, bound,
                 rawVars, sub, closeVars>>

\* The child's token, raw.cancel() (whose callback may settle the child first),
\* then mark_cancelled; a child whose handle is not bound yet has no raw.cancel().
CancelTask(th, t) ==
  /\ t \in todo[th]
  /\ token' = token \cup {t}
  /\ CancelRaw(t)
  /\ LET late == Cancellable(t) /\ hook[t] = "set" /\ t \in OwnDeadline \cap passed
     IN MarkBy(th, t, IF late THEN "FAILED" ELSE "CANCELLED")
  /\ UNCHANGED <<lifeVars, groupTimer, groupCancelled, submissionCancelled, timeVars,
                 bound, sub, closeVars>>

-----------------------------------------------------------------------------
(* close(): leader, waiters and retries.                                   *)

CloserAt(c, from) == close[c] = from /\ Idle(ClosingBy(c))
CloserTo(c, to)   == close' = [close EXCEPT ![c] = to]
CloserReturns(c, r) == CloserTo(c, "idle") /\ ret' = [ret EXCEPT ![c] = r]

\* Faulty variant of BeginClose: every close after the first leads again.
BeginCloseAgain(c) ==
  /\ CloserAt(c, "idle") /\ calls[c] < MaxCloses
  /\ calls' = [calls EXCEPT ![c] = @ + 1]
  /\ \/ /\ closing
        /\ CloserTo(c, "waiting")
        /\ UNCHANGED <<lifeVars, attempt, ret>>
     \/ /\ ~closing
        /\ closing' = TRUE /\ closed' = TRUE
        /\ closeFailed' = FALSE /\ closeEvent' = FALSE
        /\ attempt' = [attempt EXCEPT ![c] = NoAttempt]
        /\ CloserTo(c, "sealed")
        /\ UNCHANGED <<active, converged, ret>>
  /\ UNCHANGED <<groupTimer, tokenVars, timeVars, recordVars, bound, rawVars, sub,
                 sweepVars>>

BeginClose(c) ==
  /\ CloserAt(c, "idle") /\ calls[c] < MaxCloses
  /\ calls' = [calls EXCEPT ![c] = @ + 1]
  /\ \/ /\ closed /\ converged
        /\ CloserReturns(c, IF closeFailed THEN "raised" ELSE "clean")
        /\ UNCHANGED <<lifeVars, attempt>>
     \/ /\ ~(closed /\ converged) /\ closing
        /\ CloserTo(c, "waiting")
        /\ UNCHANGED <<lifeVars, attempt, ret>>
     \/ /\ ~(closed /\ converged) /\ ~closing
        /\ closing' = TRUE /\ closed' = TRUE
        /\ closeFailed' = FALSE /\ closeEvent' = FALSE
        /\ attempt' = [attempt EXCEPT ![c] = NoAttempt]
        /\ CloserTo(c, "sealed")
        /\ UNCHANGED <<active, converged, ret>>
  /\ UNCHANGED <<groupTimer, tokenVars, timeVars, recordVars, bound, rawVars, sub,
                 sweepVars>>

\* Faulty variant of CancelSubmissions: the group deadline is retired with the seal.
CancelSubmissionsAndDeadline(c) ==
  /\ CloserAt(c, "sealed")
  /\ submissionCancelled' = TRUE
  /\ groupTimer' = FALSE
  /\ owes' = IF c \in CancelPending THEN owes \cup {ClosingBy(c)} ELSE owes
  /\ CloserTo(c, "drain")
  /\ UNCHANGED <<lifeVars, groupCancelled, token, timeVars, recordVars,
                 bound, rawVars, sub, attempt, calls, ret, todo>>

CancelSubmissions(c) ==
  /\ CloserAt(c, "sealed")
  /\ submissionCancelled' = TRUE
  /\ owes' = IF c \in CancelPending THEN owes \cup {ClosingBy(c)} ELSE owes
  /\ CloserTo(c, "drain")
  /\ UNCHANGED <<lifeVars, groupTimer, groupCancelled, token, timeVars, recordVars,
                 bound, rawVars, sub, attempt, calls, ret, todo>>

\* wait_for_submissions, or its timeout; then wait() takes the records to join.
WaitForSubmissions(c) ==
  /\ CloserAt(c, "drain")
  /\ \E quiesced \in BOOLEAN :
       /\ quiesced => active = 0
       /\ attempt' = [attempt EXCEPT ![c].quiesced = quiesced,
                                     ![c].failed = ~quiesced,
                                     ![c].join = {t \in Task : state[t] # "none"}]
  /\ CloserTo(c, "join")
  /\ UNCHANGED <<lifeVars, groupTimer, tokenVars, timeVars, recordVars, bound,
                 rawVars, sub, calls, ret, sweepVars>>

\* wait(): join the handle or time out, then read the child's outcome.
JoinChild(c, t) ==
  /\ CloserAt(c, "join") /\ t \in attempt[c].join
  /\ IF t \in bound /\ raw[t] \in Ended
     THEN Sync(ClosingBy(c), t)
     ELSE UNCHANGED <<recordVars, sweepVars>>
  /\ attempt' = [attempt EXCEPT
       ![c].join = @ \ {t},
       ![c].failed = \/ @
                     \/ t \in bound /\ raw[t] \notin Ended
                     \/ state'[t] = "FAILED" /\ t \notin Isolated]
  /\ UNCHANGED <<lifeVars, groupTimer, tokenVars, timeVars, bound, rawVars, sub,
                 close, calls, ret>>

\* on_close: the serial lanes of the group close, or fail to.
CloseLanes(c) ==
  /\ CloserAt(c, "join") /\ attempt[c].join = {}
  /\ \E ok \in BOOLEAN :
       attempt' = [attempt EXCEPT ![c].lanesClosed = ok, ![c].failed = @ \/ ~ok]
  /\ CloserTo(c, "judge")
  /\ UNCHANGED <<lifeVars, groupTimer, tokenVars, timeVars, recordVars, bound,
                 rawVars, sub, calls, ret, sweepVars>>

\* Faulty variant of AllExecutionDone: the logical outcome stands for the physical end.
AllOutcomesKnown == \A t \in Task : state[t] \notin Live

\* all_execution_done
AllExecutionDone ==
  \A t \in Task : IF t \in bound THEN raw[t] \in Ended
                  ELSE state[t] \in {"none"} \cup Terminal

JudgeConverged(c) ==
  /\ CloserAt(c, "judge")
  /\ LET done == attempt[c].quiesced /\ AllExecutionDone /\ attempt[c].lanesClosed
     IN /\ attempt' = [attempt EXCEPT ![c].converged = done]
        /\ groupTimer' = (groupTimer /\ ~done)
  /\ CloserTo(c, "publish")
  /\ UNCHANGED <<lifeVars, tokenVars, timeVars, recordVars, bound, rawVars, sub,
                 calls, ret, sweepVars>>

\* complete_close: publish under the lock, then set the event outside it.
PublishClose(c) ==
  /\ CloserAt(c, "publish")
  /\ closeFailed' = attempt[c].failed
  /\ converged' = attempt[c].converged
  /\ closing' = FALSE
  /\ CloserTo(c, "signal")
  /\ UNCHANGED <<active, closed, closeEvent, groupTimer, tokenVars, timeVars,
                 recordVars, bound, rawVars, sub, attempt, calls, ret, sweepVars>>

SignalClosed(c) ==
  /\ CloserAt(c, "signal")
  /\ closeEvent' = TRUE
  /\ CloserReturns(c, IF attempt[c].failed THEN "raised" ELSE "clean")
  /\ UNCHANGED <<active, closing, closed, converged, closeFailed, groupTimer,
                 tokenVars, timeVars, recordVars, bound, rawVars, sub, attempt,
                 calls, sweepVars>>

\* wait_for_existing_close: the event, or the caller's deadline ...
WaitClosed(c) ==
  /\ CloserAt(c, "waiting")
  /\ \/ closeEvent /\ CloserTo(c, "woken") /\ UNCHANGED ret
     \/ CloserReturns(c, "raised")
  /\ UNCHANGED <<lifeVars, groupTimer, tokenVars, timeVars, recordVars, bound,
                 rawVars, sub, attempt, calls, sweepVars>>

\* ... then the failure of the latest attempt, in a second critical section.
ReadCloseFailure(c) ==
  /\ CloserAt(c, "woken")
  /\ CloserReturns(c, IF closeFailed THEN "raised" ELSE "clean")
  /\ UNCHANGED <<lifeVars, groupTimer, tokenVars, timeVars, recordVars, bound,
                 rawVars, sub, attempt, calls, sweepVars>>

-----------------------------------------------------------------------------
EntryStep(t) == EnterScope(t) \/ RefuseScope(t)
ExecuteStep(t) == SubmitAccepted(t) \/ SubmitRefused(t) \/ SubmitFailed(t)
RecordStep(t) ==
  \/ Reserve(t) \/ AbandonScope(t) \/ BindRaw(t) \/ AddDoneCallback(t) \/ ArmDeadline(t)
  \/ BindDeadline(t) \/ CheckCancelled(t) \/ LeaveScope(t)
SubmitterStep(t) == EntryStep(t) \/ ExecuteStep(t) \/ RecordStep(t)

CallbackStep(t) == CaptureCompletion(t) \/ DoneCallback(t)
WorkerStep(t)   == StartBody(t) \/ CheckGroupDeadline(t) \/ FinishBody(t)
TimerStep       == GroupTimerFires \/ \E t \in Task : TaskTimerFires(t)
SweepStep(th)   == CancelAll(th) \/ \E t \in Task : CancelTask(th, t)

CloserStep(c) ==
  \/ BeginClose(c) \/ CancelSubmissions(c) \/ WaitForSubmissions(c)
  \/ (\E t \in Task : JoinChild(c, t))
  \/ CloseLanes(c) \/ JudgeConverged(c) \/ PublishClose(c) \/ SignalClosed(c)
  \/ WaitClosed(c) \/ ReadCloseFailure(c)

Next ==
  \/ \E t \in Task : \/ SubmitterStep(t) \/ WorkerStep(t) \/ CallbackStep(t)
                     \/ DeadlinePasses(t)
                     \/ CancelHandle(t) \/ Observe(t) \/ ResultExpires(t)
  \/ GroupDeadlinePasses \/ TimerStep \/ CancelGroup
  \/ \E th \in Thread : SweepStep(th)
  \/ \E c \in Closer : CloserStep(c)

\* Threads keep running.  A caller need not submit or close, a body need not
\* end and time need not pass; a submission blocked on capacity is only sure to
\* return once it is cancelled (_AnyCancellation, polled by the providers).
Fairness ==
  /\ \A t \in Task :
       /\ WF_vars(RecordStep(t)) /\ WF_vars(CallbackStep(t))
       /\ WF_vars((groupCancelled \/ submissionCancelled) /\ ExecuteStep(t))
  /\ WF_vars(TimerStep)
  /\ \A th \in Thread : WF_vars(SweepStep(th))

Spec     == Init /\ [][Next]_vars
FairSpec == Spec /\ Fairness

-----------------------------------------------------------------------------
(* Properties.                                                             *)

\* Every variable has its type.
TypeOK ==
  /\ active \in Nat
  /\ closing \in BOOLEAN /\ closed \in BOOLEAN /\ converged \in BOOLEAN
  /\ closeEvent \in BOOLEAN /\ closeFailed \in BOOLEAN /\ groupTimer \in BOOLEAN
  /\ groupCancelled \in BOOLEAN /\ submissionCancelled \in BOOLEAN
  /\ token \subseteq Task /\ passed \subseteq Task /\ groupPassed \in BOOLEAN
  /\ state \in [Task -> {"none"} \cup Live \cup Terminal]
  /\ bound \subseteq Task /\ handle \subseteq Task /\ timer \subseteq Task
  /\ raw \in [Task -> {"none", "queued", "running"} \cup Ended]
  /\ stamp \in [Task -> Stamp \cup {None}]
  /\ hook \in [Task -> {"none", "set", "ran"}]
  /\ overdue \subseteq Task
  /\ sub \in [Task -> {"start", "left"} \cup InScope]
  /\ close \in [Closer -> {"idle", "signal", "waiting", "woken"} \cup Leading]
  /\ attempt \in [Closer -> Attempt]
  /\ calls \in [Closer -> Nat]
  /\ ret \in [Closer -> {"none", "clean", "raised"}]
  /\ todo \in [Thread -> SUBSET Task]
  /\ owes \subseteq Thread

\* A converged group has really ended: no submission is inside its scope and no
\* provider still holds or runs one of its children ("convergence is physical").
ConvergedIsJoined ==
  converged => active = 0 /\ \A t \in Task : raw[t] \in {"none"} \cup Ended

\* Whoever close() returns to cleanly, leader or waiter, finds the group
\* converged (close joins owned execution before it claims a clean shutdown).
CleanCloseIsJoined == \A c \in Closer : ret[c] = "clean" => converged

\* Once every sweep is over and every submitter has left its scope, a cancelled
\* group has no child that still counts as pending or running, however the
\* cancellation raced with the submissions.
CancelReachesEveryChild ==
  groupCancelled /\ (\A th \in Thread : Idle(th)) =>
    \A t \in Task : sub[t] = "left" => state[t] \notin Live

\* One failed child of a FAIL_FAST group takes its siblings with it: when the
\* threads are done, no child of the group is left pending or running.
FailFastReachesSiblings ==
  /\ FailFast /\ \E t \in Task \ Isolated : state[t] = "FAILED"
  /\ \A th \in Thread : Idle(th)
  => \A t \in Task : sub[t] = "left" => state[t] \notin Live

\* A body that returned its value after the group was cancelled, or after its
\* own deadline, is never reported as a success, whoever reads the handle first.
NoLateSuccess == \A t \in overdue : state[t] # "SUCCEEDED"

\* The first terminal outcome of a child is the last: deadline, cancellation,
\* completion and submission error race for it, and the losers change nothing.
TerminalIsFinal ==
  [][\A t \in Task : state[t] \in Terminal => state'[t] = state[t]]_vars

\* Proven convergence is never withdrawn by a later close().
ConvergedStays == [][converged => converged' /\ ~closing']_vars

\* A cancelled group settles: every child reaches a terminal state and every
\* submitter leaves, even when bodies never end.
CancelSettles ==
  groupCancelled ~>
    \A t \in Task : state[t] \notin Live /\ sub[t] \notin InScope

\* A provider handle that ended settles its child.
EndedSettles == \A t \in Task : raw[t] \in Ended ~> state[t] \in Terminal

\* The group deadline cancels the group, unless it has converged before.
GroupDeadlineEnforced ==
  groupPassed ~> (groupCancelled \/ \E c \in Closer : attempt[c].converged)
============================================================================
