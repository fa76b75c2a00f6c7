-------------------------- MODULE TaskGroupProofs --------------------------
(***************************************************************************)
(* Theorems about TaskGroup for any finite set of children, any closers,   *)
(* any deadlines and failure policy.                                       *)
(***************************************************************************)
EXTENDS TaskGroup, FiniteSetTheorems, TLAPS

Inside == {t \in Task : sub[t] \in InScope}

\* _active_submissions counts exactly the submitters inside their scope.
Accounting == active = Cardinality(Inside)

\* A provider handle exists only past execution.submit, and is bound right after.
Binding ==
  \A t \in Task :
    /\ raw[t] # "none" => sub[t] \notin {"start", "scoped", "reserved"}
    /\ raw[t] # "none" /\ sub[t] # "submitted" => t \in bound

\* What convergence claims.
Joined == active = 0 /\ \A t \in Task : raw[t] \in {"none"} \cup Ended

\* One leader at a time; what it has established stays true while it leads.
Leadership ==
  /\ closing => closed
  /\ converged => closed /\ ~closing
  /\ \A c \in Closer :
       /\ close[c] \in Leading => closing
       /\ close[c] \in {"join", "judge", "publish"} /\ attempt[c].quiesced => active = 0
       /\ close[c] = "publish" /\ attempt[c].converged => Joined
       /\ \A d \in Closer : close[c] \in Leading /\ close[d] \in Leading => c = d

IInv == TypeOK /\ Accounting /\ Binding /\ Leadership /\ ConvergedIsJoined

States == {"none"} \cup Live \cup Terminal

(***************************************************************************)
(* Types of the records the model builds.                                  *)
(***************************************************************************)
LEMMA StampType ==
  ASSUME NEW late \in BOOLEAN, NEW cut \in BOOLEAN
  PROVE  [late |-> late, cut |-> cut] \in Stamp
  BY DEF Stamp

LEMMA NowType == ASSUME NEW t PROVE Now(t) \in Stamp
<1>1. (t \in passed) \in BOOLEAN /\ Interrupted(t) \in BOOLEAN
  BY DEF Interrupted
<1> QED
  BY <1>1, StampType DEF Now

LEMMA NoAttemptType == NoAttempt \in Attempt
  BY DEF NoAttempt, Attempt

LEMMA AttemptField ==
  ASSUME NEW g \in [Closer -> Attempt], NEW c \in Closer,
         NEW b \in BOOLEAN, NEW j \in SUBSET Task
  PROVE  /\ [g EXCEPT ![c].quiesced = b] \in [Closer -> Attempt]
         /\ [g EXCEPT ![c].lanesClosed = b] \in [Closer -> Attempt]
         /\ [g EXCEPT ![c].failed = b] \in [Closer -> Attempt]
         /\ [g EXCEPT ![c].converged = b] \in [Closer -> Attempt]
         /\ [g EXCEPT ![c].join = j] \in [Closer -> Attempt]
<1> DEFINE a == g[c]
<1>1. a \in Attempt
  OBVIOUS
<1> HIDE DEF a
<1>2. /\ [a EXCEPT !.quiesced = b] \in Attempt
      /\ [a EXCEPT !.lanesClosed = b] \in Attempt
      /\ [a EXCEPT !.failed = b] \in Attempt
      /\ [a EXCEPT !.converged = b] \in Attempt
      /\ [a EXCEPT !.join = j] \in Attempt
  BY <1>1 DEF Attempt
<1>3. \A x \in Attempt : [g EXCEPT ![c] = x] \in [Closer -> Attempt]
  OBVIOUS
<1> QED
  BY <1>2, <1>3 DEF a

LEMMA AttemptType ==
  ASSUME TypeOK, NEW c \in Closer,
         NEW b \in BOOLEAN, NEW f \in BOOLEAN, NEW j \in SUBSET Task
  PROVE  /\ [attempt EXCEPT ![c].quiesced = b, ![c].failed = f, ![c].join = j]
              \in [Closer -> Attempt]
         /\ [attempt EXCEPT ![c].join = j, ![c].failed = f] \in [Closer -> Attempt]
         /\ [attempt EXCEPT ![c].lanesClosed = b, ![c].failed = f] \in [Closer -> Attempt]
         /\ [attempt EXCEPT ![c].converged = b] \in [Closer -> Attempt]
<1>1. attempt \in [Closer -> Attempt]
  BY DEF TypeOK
<1>2. [attempt EXCEPT ![c].converged = b] \in [Closer -> Attempt]
  BY <1>1, AttemptField
<1>3. [attempt EXCEPT ![c].lanesClosed = b, ![c].failed = f] \in [Closer -> Attempt]
  BY <1>1, AttemptField
<1>4. [attempt EXCEPT ![c].join = j, ![c].failed = f] \in [Closer -> Attempt]
  BY <1>1, AttemptField
<1>5. [attempt EXCEPT ![c].quiesced = b, ![c].failed = f, ![c].join = j] \in [Closer -> Attempt]
  BY <1>1, AttemptField
<1> QED
  BY <1>2, <1>3, <1>4, <1>5

LEMMA TypeInit == Init => TypeOK
<1> SUFFICES ASSUME Init PROVE TypeOK
  OBVIOUS
<1>1. attempt \in [Closer -> Attempt]
  BY NoAttemptType DEF Init
<1>2. todo \in [Thread -> SUBSET Task]
  BY DEF Init
<1>3. groupTimer \in BOOLEAN
  BY ConstantsAssumption DEF ConstantsAssumption, Init
<1> QED
  BY <1>1, <1>2, <1>3 DEF Init, TypeOK

(***************************************************************************)
(* Types of the operators that settle a child.                             *)
(***************************************************************************)
LEMMA OutcomeType ==
  ASSUME TypeOK, NEW t \in Task, NEW r, NEW st
  PROVE  Outcome(t, r, st) \in States
  BY DEF TypeOK, Outcome, States, Terminal

LEMMA MarkType ==
  ASSUME TypeOK, NEW t \in Task, NEW s \in States, Mark(t, s)
  PROVE  /\ state' \in [Task -> States] /\ handle' \subseteq Task
         /\ timer' \subseteq Task /\ todo' \in [Thread -> SUBSET Task]
  BY DEF TypeOK, Mark, Drop, recordVars, States

LEMMA SyncType ==
  ASSUME TypeOK, NEW t \in Task, NEW th \in Thread, Sync(th, t)
  PROVE  /\ state' \in [Task -> States] /\ handle' \subseteq Task
         /\ timer' \subseteq Task /\ todo' \in [Thread -> SUBSET Task]
         /\ owes' \subseteq Thread
<1>1. Outcome(t, raw[t], Completed(t)) \in States
  BY OutcomeType
<1>2. Mark(t, Outcome(t, raw[t], Completed(t)))
  BY DEF Sync
<1>3. owes' \subseteq Thread
  BY DEF Sync, TypeOK
<1> QED
  BY <1>1, <1>2, <1>3, MarkType

LEMMA CancelRawType ==
  ASSUME TypeOK, NEW t \in Task, CancelRaw(t)
  PROVE  /\ raw' \in [Task -> {"none", "queued", "running"} \cup Ended]
         /\ stamp' \in [Task -> Stamp \cup {None}]
         /\ hook' \in [Task -> {"none", "set", "ran"}]
         /\ overdue' \subseteq Task
<1>1. [late |-> t \in passed, cut |-> TRUE] \in Stamp
  <2>1. (t \in passed) \in BOOLEAN
    OBVIOUS
  <2> QED
    BY <2>1, StampType
<1>2. CASE ~Cancellable(t)
  BY <1>2 DEF TypeOK, CancelRaw, rawVars
<1>3. CASE Cancellable(t)
  <2>1. raw' \in [Task -> {"none", "queued", "running"} \cup Ended]
    BY <1>3 DEF TypeOK, CancelRaw, Ended
  <2>2. stamp' \in [Task -> Stamp \cup {None}]
    <3>1. stamp' = [stamp EXCEPT ![t] = [late |-> t \in passed, cut |-> TRUE]]
      BY <1>3 DEF CancelRaw
    <3>2. stamp \in [Task -> Stamp \cup {None}]
      BY DEF TypeOK
    <3> QED
      BY <1>1, <3>1, <3>2
  <2>3. hook' \in [Task -> {"none", "set", "ran"}]
    <3>1. hook' = [hook EXCEPT ![t] = IF hook[t] = "set" THEN "ran" ELSE hook[t]]
      BY <1>3 DEF CancelRaw
    <3>2. hook \in [Task -> {"none", "set", "ran"}]
      BY DEF TypeOK
    <3> QED
      BY <3>1, <3>2
  <2>4. overdue' \subseteq Task
    BY <1>3 DEF TypeOK, CancelRaw
  <2> QED
    BY <2>1, <2>2, <2>3, <2>4
<1> QED
  BY <1>2, <1>3

LEMMA ExpireType ==
  ASSUME TypeOK, NEW t \in Task, NEW th \in Thread, Expire(th, t)
  PROVE  /\ state' \in [Task -> States] /\ handle' \subseteq Task
         /\ token' \subseteq Task /\ todo' \in [Thread -> SUBSET Task]
         /\ owes' \subseteq Thread
         /\ raw' \in [Task -> {"none", "queued", "running"} \cup Ended]
         /\ stamp' \in [Task -> Stamp \cup {None}]
         /\ hook' \in [Task -> {"none", "set", "ran"}]
         /\ overdue' \subseteq Task
<1>1. Outcome(t, raw[t], stamp[t]) \in States /\ "FAILED" \in States
  BY OutcomeType DEF States, Terminal
<1>2. CASE state[t] \in Terminal /\ UNCHANGED <<state, handle, token, rawVars, todo, owes>>
  BY <1>2 DEF TypeOK, rawVars, States
<1>3. CASE state[t] \notin Terminal /\ EndedInTime(t) /\ UNCHANGED <<token, rawVars>>
  BY <1>1, <1>3 DEF Expire, TypeOK, rawVars, Drop, States
<1>4. CASE state[t] \notin Terminal /\ ~EndedInTime(t)
  BY <1>1, <1>4, CancelRawType DEF Expire, TypeOK, Drop, States
<1> QED
  BY <1>2, <1>3, <1>4 DEF Expire

(***************************************************************************)
(* Every step keeps the types; active is dealt with below.                 *)
(***************************************************************************)
LEMMA TypeSubmit ==
  ASSUME TypeOK, NEW t \in Task, SubmitterStep(t), active' \in Nat
  PROVE  TypeOK'
<1> USE DEF lifeVars, tokenVars, timeVars, recordVars, rawVars, closeVars, sweepVars, States
<1>1. CASE EnterScope(t)
  BY <1>1
  DEF TypeOK, EnterScope, SubmitterTo, InScope
<1>2. CASE RefuseScope(t)
  BY <1>2
  DEF TypeOK, RefuseScope, SubmitterTo, InScope
<1>3. CASE Reserve(t)
  BY <1>3
  DEF TypeOK, Reserve, SubmitterTo, InScope, Escalates, Live, Terminal, Thread
<1>4. CASE AbandonScope(t)
  BY <1>4
  DEF TypeOK, AbandonScope, SubmitterTo, InScope
<1>5. CASE SubmitAccepted(t)
  BY <1>5
  DEF TypeOK, SubmitAccepted, SubmitterTo, InScope, Ended
<1>6. CASE SubmitRefused(t)
  <2>1. Submitter(t) \in Thread /\ "CANCELLED" \in States
    BY DEF Thread, Terminal
  <2>2. Mark(t, "CANCELLED")
    BY <1>6 DEF SubmitRefused, MarkBy
  <2>3. /\ state' \in [Task -> States] /\ handle' \subseteq Task
        /\ timer' \subseteq Task /\ todo' \in [Thread -> SUBSET Task]
    BY <2>1, <2>2, MarkType
  <2>4. owes' \subseteq Thread
    BY <1>6, <2>1 DEF SubmitRefused, MarkBy, TypeOK
  <2>5. sub' \in [Task -> {"start", "left"} \cup InScope]
    BY <1>6 DEF SubmitRefused, SubmitterTo, InScope, TypeOK
  <2>6. UNCHANGED <<lifeVars, groupTimer, tokenVars, timeVars, bound, rawVars, closeVars>>
    BY <1>6 DEF SubmitRefused
  <2> QED
    BY <2>3, <2>4, <2>5, <2>6 DEF TypeOK
<1>7. CASE SubmitFailed(t)
  <2>1. Submitter(t) \in Thread /\ "FAILED" \in States /\ "CANCELLED" \in States
    BY DEF Thread, Terminal
  <2>2. Mark(t, "FAILED") \/ Mark(t, "CANCELLED")
    BY <1>7 DEF SubmitFailed, MarkBy
  <2>3. /\ state' \in [Task -> States] /\ handle' \subseteq Task
        /\ timer' \subseteq Task /\ todo' \in [Thread -> SUBSET Task]
    BY <2>1, <2>2, MarkType
  <2>4. owes' \subseteq Thread
    BY <1>7, <2>1 DEF SubmitFailed, MarkBy, TypeOK
  <2>5. sub' \in [Task -> {"start", "left"} \cup InScope]
    BY <1>7 DEF SubmitFailed, SubmitterTo, InScope, TypeOK
  <2>6. UNCHANGED <<lifeVars, groupTimer, tokenVars, timeVars, bound, rawVars, closeVars>>
    BY <1>7 DEF SubmitFailed
  <2> QED
    BY <2>3, <2>4, <2>5, <2>6 DEF TypeOK
<1>8. CASE BindRaw(t)
  BY <1>8
  DEF TypeOK, BindRaw, SubmitterTo, InScope, Live
<1>9. CASE AddDoneCallback(t)
  <2>1. Submitter(t) \in Thread
    BY DEF Thread
  <2>2. /\ state' \in [Task -> States] /\ handle' \subseteq Task
        /\ timer' \subseteq Task /\ todo' \in [Thread -> SUBSET Task]
        /\ owes' \subseteq Thread
    <3>1. CASE Sync(Submitter(t), t)
      BY <2>1, <3>1, SyncType
    <3>2. CASE UNCHANGED <<recordVars, sweepVars>>
      BY <3>2 DEF TypeOK
    <3> QED
      BY <1>9, <3>1, <3>2 DEF AddDoneCallback
  <2>3. hook' \in [Task -> {"none", "set", "ran"}]
    BY <1>9 DEF AddDoneCallback, TypeOK
  <2>4. sub' \in [Task -> {"start", "left"} \cup InScope]
    BY <1>9 DEF AddDoneCallback, SubmitterTo, InScope, TypeOK
  <2>5. UNCHANGED <<lifeVars, groupTimer, tokenVars, timeVars, bound, raw, stamp,
                    overdue, closeVars>>
    BY <1>9 DEF AddDoneCallback
  <2> QED
    BY <2>2, <2>3, <2>4, <2>5 DEF TypeOK
<1>10. CASE ArmDeadline(t)
  <2>1. Submitter(t) \in Thread /\ "FAILED" \in States
    BY DEF Thread, Terminal
  <2>2. sub' \in [Task -> {"start", "left"} \cup InScope]
    BY <1>10 DEF ArmDeadline, SubmitterTo, TypeOK, InScope
  <2>3. CASE UNCHANGED <<recordVars, sweepVars, token, rawVars>>
    BY <1>10, <2>2, <2>3 DEF ArmDeadline, TypeOK
  <2>4. CASE Sync(Submitter(t), t) /\ UNCHANGED <<token, rawVars>>
    BY <1>10, <2>1, <2>2, <2>4, SyncType DEF ArmDeadline, TypeOK
  <2>5. CASE Expire(Submitter(t), t) /\ UNCHANGED timer
    BY <1>10, <2>1, <2>2, <2>5, ExpireType DEF ArmDeadline, TypeOK
  <2>6. CASE timer' = timer \cup {t} /\ UNCHANGED <<state, handle, token, rawVars, sweepVars>>
    BY <1>10, <2>2, <2>6 DEF ArmDeadline, TypeOK
  <2>7. CASE MarkBy(Submitter(t), t, "FAILED") /\ UNCHANGED <<token, rawVars>>
    <3>1. owes' \subseteq Thread
      BY <2>1, <2>7 DEF MarkBy, TypeOK
    <3>2. Mark(t, "FAILED")
      BY <2>7 DEF MarkBy
    <3> QED
      BY <1>10, <2>1, <2>2, <2>7, <3>1, <3>2, MarkType DEF ArmDeadline, TypeOK
  <2> QED
    BY <1>10, <2>3, <2>4, <2>5, <2>6, <2>7 DEF ArmDeadline
<1>11. CASE BindDeadline(t)
  BY <1>11
  DEF TypeOK, BindDeadline, SubmitterTo, InScope
<1>12. CASE CheckCancelled(t)
  BY <1>12
  DEF TypeOK, CheckCancelled, SubmitterTo, InScope, Thread
<1>13. CASE LeaveScope(t)
  BY <1>13
  DEF TypeOK, LeaveScope, SubmitterTo, InScope
<1> QED
  BY <1>1, <1>2, <1>3, <1>4, <1>5, <1>6, <1>7, <1>8, <1>9, <1>10, <1>11, <1>12, <1>13 DEF SubmitterStep, EntryStep, ExecuteStep, RecordStep

LEMMA TypeWorker ==
  ASSUME TypeOK, NEW t \in Task, WorkerStep(t) \/ CallbackStep(t)
  PROVE  TypeOK'
<1> USE DEF lifeVars, tokenVars, timeVars, recordVars, rawVars, closeVars, sweepVars, States
<1>1. CASE StartBody(t)
  BY <1>1
  DEF TypeOK, StartBody, Live, Ended
<1>2. CASE CheckGroupDeadline(t)
  BY <1>2
  DEF TypeOK, CheckGroupDeadline, Thread
<1>3. CASE FinishBody(t)
  BY <1>3
  DEF TypeOK, FinishBody
<1>4. CASE CaptureCompletion(t)
  BY <1>4, NowType
  DEF TypeOK, CaptureCompletion
<1>5. CASE DoneCallback(t)
  <2>1. Worker(t) \in Thread /\ Sync(Worker(t), t)
    BY <1>5 DEF Thread, DoneCallback
  <2>2. /\ state' \in [Task -> States] /\ handle' \subseteq Task
        /\ timer' \subseteq Task /\ todo' \in [Thread -> SUBSET Task]
        /\ owes' \subseteq Thread
    BY <2>1, SyncType
  <2>3. hook' \in [Task -> {"none", "set", "ran"}]
    BY <1>5 DEF DoneCallback, TypeOK
  <2>4. UNCHANGED <<lifeVars, groupTimer, tokenVars, timeVars, bound, raw, stamp,
                    overdue, sub, closeVars>>
    BY <1>5 DEF DoneCallback
  <2> QED
    BY <2>2, <2>3, <2>4 DEF TypeOK
<1> QED
  BY <1>1, <1>2, <1>3, <1>4, <1>5 DEF WorkerStep, CallbackStep

LEMMA TypeCaller ==
  ASSUME TypeOK, NEW t \in Task,
         \/ DeadlinePasses(t) \/ CancelHandle(t) \/ Observe(t)
         \/ ResultExpires(t) \/ TaskTimerFires(t)
  PROVE  TypeOK'
<1> USE DEF lifeVars, tokenVars, timeVars, recordVars, rawVars, closeVars, sweepVars, States
<1>0. Caller \in Thread /\ Timer \in Thread
  BY DEF Thread
<1>1. CASE DeadlinePasses(t)
  BY <1>1
  DEF TypeOK, DeadlinePasses
<1>2. CASE CancelHandle(t)
  <2>1. todo' \in [Thread -> SUBSET Task]
    BY <1>0, <1>2 DEF CancelHandle, TypeOK
  <2>2. UNCHANGED <<lifeVars, groupTimer, tokenVars, timeVars, recordVars, bound,
                    rawVars, sub, closeVars, owes>>
    BY <1>2 DEF CancelHandle
  <2> QED
    BY <2>1, <2>2 DEF TypeOK
<1>3. CASE Observe(t)
  <2>1. /\ state' \in [Task -> States] /\ handle' \subseteq Task
        /\ timer' \subseteq Task /\ todo' \in [Thread -> SUBSET Task]
        /\ owes' \subseteq Thread
    BY <1>0, <1>3, SyncType DEF Observe
  <2>2. UNCHANGED <<lifeVars, groupTimer, tokenVars, timeVars, bound, rawVars, sub, closeVars>>
    BY <1>3 DEF Observe
  <2> QED
    BY <2>1, <2>2 DEF TypeOK
<1>4. CASE ResultExpires(t)
  <2>1. UNCHANGED <<lifeVars, groupTimer, groupCancelled, submissionCancelled,
                    timeVars, timer, bound, sub, closeVars>>
    BY <1>4 DEF ResultExpires
  <2>2. CASE Expire(Caller, t)
    BY <1>0, <2>1, <2>2, ExpireType DEF TypeOK
  <2>3. CASE owes' = owes \cup {Caller} /\ UNCHANGED <<state, handle, token, rawVars, todo>>
    <3>1. owes' \subseteq Thread
      BY <1>0, <2>3 DEF TypeOK
    <3> QED
      BY <2>1, <2>3, <3>1 DEF TypeOK
  <2> QED
    BY <1>4, <2>2, <2>3 DEF ResultExpires
<1>5. CASE TaskTimerFires(t)
  <2>1. timer' \subseteq Task /\ Expire(Timer, t)
    BY <1>5 DEF TaskTimerFires, TypeOK
  <2>2. UNCHANGED <<lifeVars, groupTimer, groupCancelled, submissionCancelled,
                    timeVars, bound, sub, closeVars>>
    BY <1>5 DEF TaskTimerFires
  <2> QED
    BY <1>0, <2>1, <2>2, ExpireType DEF TypeOK
<1> QED
  BY <1>1, <1>2, <1>3, <1>4, <1>5

LEMMA TypeGroup ==
  ASSUME TypeOK, GroupDeadlinePasses \/ GroupTimerFires \/ CancelGroup
  PROVE  TypeOK'
<1> USE DEF lifeVars, tokenVars, timeVars, recordVars, rawVars, closeVars, sweepVars
<1>0. Caller \in Thread /\ Timer \in Thread
  BY DEF Thread
<1>1. CASE GroupDeadlinePasses
  BY <1>1 DEF GroupDeadlinePasses, TypeOK
<1>2. CASE GroupTimerFires
  BY <1>0, <1>2 DEF GroupTimerFires, TypeOK
<1>3. CASE CancelGroup
  BY <1>0, <1>3 DEF CancelGroup, TypeOK
<1> QED
  BY <1>1, <1>2, <1>3

LEMMA TypeSweep ==
  ASSUME TypeOK, NEW th \in Thread, SweepStep(th)
  PROVE  TypeOK'
<1> USE DEF lifeVars, tokenVars, timeVars, recordVars, rawVars, closeVars, sweepVars
<1>1. CASE CancelAll(th)
  BY <1>1 DEF TypeOK, CancelAll
<1>2. ASSUME NEW t \in Task, CancelTask(th, t) PROVE TypeOK'
  <2>1. PICK s \in {"FAILED", "CANCELLED"} : MarkBy(th, t, s)
    BY <1>2 DEF CancelTask
  <2>2. s \in States
    BY DEF States, Terminal
  <2> QED
    BY <1>2, <2>1, <2>2, MarkType, CancelRawType DEF CancelTask, MarkBy, TypeOK, States
<1> QED
  BY <1>1, <1>2 DEF SweepStep

LEMMA TypeCloser ==
  ASSUME TypeOK, NEW c \in Closer, CloserStep(c)
  PROVE  TypeOK'
<1> USE DEF lifeVars, tokenVars, timeVars, recordVars, rawVars, closeVars, sweepVars, States
<1>1. CASE BeginClose(c)
  <2> USE DEF BeginClose, CloserTo, CloserReturns, Leading
  <2>1. calls' \in [Closer -> Nat]
    BY <1>1 DEF TypeOK
  <2>2. close' \in [Closer -> {"idle", "signal", "waiting", "woken"} \cup Leading]
    BY <1>1 DEF TypeOK
  <2>3. ret' \in [Closer -> {"none", "clean", "raised"}]
    BY <1>1 DEF TypeOK
  <2>4. attempt' \in [Closer -> Attempt]
    BY <1>1, NoAttemptType DEF TypeOK
  <2>5. /\ active' \in Nat /\ closing' \in BOOLEAN /\ closed' \in BOOLEAN
        /\ converged' \in BOOLEAN /\ closeEvent' \in BOOLEAN /\ closeFailed' \in BOOLEAN
    BY <1>1 DEF TypeOK
  <2> QED
    BY <1>1, <2>1, <2>2, <2>3, <2>4, <2>5 DEF TypeOK
<1>2. CASE CancelSubmissions(c)
  BY <1>2
  DEF TypeOK, ClosingBy, CancelSubmissions, CloserTo, CloserReturns, Leading, Thread
<1>3. CASE WaitForSubmissions(c)
  <2>1. PICK b \in BOOLEAN :
          attempt' = [attempt EXCEPT ![c].quiesced = b, ![c].failed = ~b,
                                     ![c].join = {t \in Task : state[t] # "none"}]
    BY <1>3 DEF WaitForSubmissions
  <2>2. attempt' \in [Closer -> Attempt]
    BY <2>1, AttemptType
  <2> QED
    BY <1>3, <2>2 DEF TypeOK, WaitForSubmissions, CloserTo, Leading
<1>4. CASE CloseLanes(c)
  <2>1. PICK ok \in BOOLEAN :
          attempt' = [attempt EXCEPT ![c].lanesClosed = ok,
                                     ![c].failed = attempt[c].failed \/ ~ok]
    BY <1>4 DEF CloseLanes, TypeOK
  <2>2. (attempt[c].failed \/ ~ok) \in BOOLEAN /\ {} \in SUBSET Task
    OBVIOUS
  <2>3. attempt' \in [Closer -> Attempt]
    BY <2>1, <2>2, AttemptType
  <2> QED
    BY <1>4, <2>3 DEF TypeOK, CloseLanes, CloserTo, Leading
<1>5. CASE JudgeConverged(c)
  <2> DEFINE done == attempt[c].quiesced /\ AllExecutionDone /\ attempt[c].lanesClosed
  <2>1. done \in BOOLEAN /\ (groupTimer /\ ~done) \in BOOLEAN /\ {} \in SUBSET Task
    OBVIOUS
  <2>2. attempt' = [attempt EXCEPT ![c].converged = done]
    BY <1>5 DEF JudgeConverged
  <2>3. attempt' \in [Closer -> Attempt]
    BY <2>1, <2>2, AttemptType
  <2>4. groupTimer' \in BOOLEAN
    BY <1>5, <2>1 DEF JudgeConverged
  <2> QED
    BY <1>5, <2>3, <2>4 DEF TypeOK, JudgeConverged, CloserTo, Leading
<1>6. CASE PublishClose(c)
  BY <1>6
  DEF TypeOK, PublishClose, CloserTo, CloserReturns, Attempt, Leading
<1>7. CASE SignalClosed(c)
  BY <1>7
  DEF TypeOK, SignalClosed, CloserTo, CloserReturns, Leading, Attempt
<1>8. CASE WaitClosed(c)
  BY <1>8
  DEF TypeOK, WaitClosed, CloserTo, CloserReturns, Leading
<1>9. CASE ReadCloseFailure(c)
  BY <1>9
  DEF TypeOK, ReadCloseFailure, CloserTo, CloserReturns
<1>10. ASSUME NEW t \in Task, JoinChild(c, t) PROVE TypeOK'
  <2>1. attempt' \in [Closer -> Attempt]
    <3> DEFINE f == \/ attempt[c].failed
                    \/ t \in bound /\ raw[t] \notin Ended
                    \/ state'[t] = "FAILED" /\ t \notin Isolated
               j == attempt[c].join \ {t}
    <3>1. attempt' = [attempt EXCEPT ![c].join = j, ![c].failed = f]
      BY <1>10 DEF JoinChild, TypeOK, Attempt
    <3>2. f \in BOOLEAN
      OBVIOUS
    <3>3. j \in SUBSET Task
      <4>1. attempt[c] \in Attempt
        BY DEF TypeOK
      <4> QED
        BY <4>1 DEF Attempt
    <3> HIDE DEF f, j
    <3> QED
      BY <3>1, <3>2, <3>3, AttemptType
  <2>2. ClosingBy(c) \in Thread
    BY DEF ClosingBy, Thread
  <2> QED
    BY <1>10, <2>1, <2>2, SyncType DEF JoinChild, TypeOK
<1> QED
  BY <1>1, <1>2, <1>3, <1>4, <1>5, <1>6, <1>7, <1>8, <1>9, <1>10 DEF CloserStep

(***************************************************************************)
(* _active_submissions counts the submitters inside their scope.           *)
(***************************************************************************)
LEMMA InsideFinite == IsFiniteSet(Inside)
<1>1. Inside \subseteq Task
  BY DEF Inside
<1> QED
  BY <1>1, ConstantsAssumption, FS_Subset DEF ConstantsAssumption

LEMMA NobodyInside ==
  ASSUME Accounting, active = 0
  PROVE  Inside = {}
  BY InsideFinite, FS_EmptySet DEF Accounting

LEMMA SubmitCounts ==
  ASSUME TypeOK, Accounting, NEW t \in Task, SubmitterStep(t)
  PROVE  Accounting' /\ active' \in Nat /\ (closed /\ active = 0 => active' = 0)
<1> USE DEF lifeVars
<1> DEFINE Still == active' = active /\ Inside' = Inside
<1>1. CASE EnterScope(t)
  <2>1. t \notin Inside /\ Inside' = Inside \cup {t}
    BY <1>1 DEF EnterScope, SubmitterAt, SubmitterTo, Inside, InScope, TypeOK
  <2>2. Cardinality(Inside') = Cardinality(Inside) + 1
    BY <2>1, InsideFinite, FS_AddElement
  <2> QED
    BY <1>1, <2>2 DEF EnterScope, Accounting, TypeOK
<1>2. CASE LeaveScope(t)
  <2>1. t \in Inside /\ Inside' = Inside \ {t}
    BY <1>2 DEF LeaveScope, SubmitterAt, SubmitterTo, Inside, InScope, TypeOK
  <2>2. Cardinality(Inside') = Cardinality(Inside) - 1
    BY <2>1, InsideFinite, FS_RemoveElement
  <2>3. active # 0
    BY <2>1, NobodyInside
  <2> QED
    BY <1>2, <2>2, <2>3 DEF LeaveScope, Accounting, TypeOK
<1>3. CASE RefuseScope(t)
  <2>1. active' = active
    BY <1>3 DEF RefuseScope
  <2>2. Inside' = Inside
    BY <1>3 DEF RefuseScope, SubmitterAt, SubmitterTo, Inside, InScope, TypeOK
  <2> QED
    BY <2>1, <2>2 DEF Accounting, TypeOK
<1>4. CASE Reserve(t)
  <2>1. active' = active
    BY <1>4 DEF Reserve
  <2>2. Inside' = Inside
    BY <1>4 DEF Reserve, SubmitterAt, SubmitterTo, Inside, InScope, TypeOK
  <2> QED
    BY <2>1, <2>2 DEF Accounting, TypeOK
<1>5. CASE AbandonScope(t)
  <2>1. active' = active
    BY <1>5 DEF AbandonScope
  <2>2. Inside' = Inside
    BY <1>5 DEF AbandonScope, SubmitterAt, SubmitterTo, Inside, InScope, TypeOK
  <2> QED
    BY <2>1, <2>2 DEF Accounting, TypeOK
<1>6. CASE SubmitAccepted(t)
  <2>1. active' = active
    BY <1>6 DEF SubmitAccepted
  <2>2. Inside' = Inside
    BY <1>6 DEF SubmitAccepted, SubmitterAt, SubmitterTo, Inside, InScope, TypeOK
  <2> QED
    BY <2>1, <2>2 DEF Accounting, TypeOK
<1>7. CASE SubmitRefused(t)
  <2>1. active' = active
    BY <1>7 DEF SubmitRefused
  <2>2. Inside' = Inside
    BY <1>7 DEF SubmitRefused, SubmitterAt, SubmitterTo, Inside, InScope, TypeOK
  <2> QED
    BY <2>1, <2>2 DEF Accounting, TypeOK
<1>8. CASE SubmitFailed(t)
  <2>1. active' = active
    BY <1>8 DEF SubmitFailed
  <2>2. Inside' = Inside
    BY <1>8 DEF SubmitFailed, SubmitterAt, SubmitterTo, Inside, InScope, TypeOK
  <2> QED
    BY <2>1, <2>2 DEF Accounting, TypeOK
<1>9. CASE BindRaw(t)
  <2>1. active' = active
    BY <1>9 DEF BindRaw
  <2>2. Inside' = Inside
    BY <1>9 DEF BindRaw, SubmitterAt, SubmitterTo, Inside, InScope, TypeOK
  <2> QED
    BY <2>1, <2>2 DEF Accounting, TypeOK
<1>10. CASE AddDoneCallback(t)
  <2>1. active' = active
    BY <1>10 DEF AddDoneCallback
  <2>2. Inside' = Inside
    BY <1>10 DEF AddDoneCallback, SubmitterAt, SubmitterTo, Inside, InScope, TypeOK
  <2> QED
    BY <2>1, <2>2 DEF Accounting, TypeOK
<1>11. CASE ArmDeadline(t)
  <2>1. active' = active
    BY <1>11 DEF ArmDeadline
  <2>2. Inside' = Inside
    BY <1>11 DEF ArmDeadline, SubmitterAt, SubmitterTo, Inside, InScope, TypeOK
  <2> QED
    BY <2>1, <2>2 DEF Accounting, TypeOK
<1>12. CASE BindDeadline(t)
  <2>1. active' = active
    BY <1>12 DEF BindDeadline
  <2>2. Inside' = Inside
    BY <1>12 DEF BindDeadline, SubmitterAt, SubmitterTo, Inside, InScope, TypeOK
  <2> QED
    BY <2>1, <2>2 DEF Accounting, TypeOK
<1>13. CASE CheckCancelled(t)
  <2>1. active' = active
    BY <1>13 DEF CheckCancelled
  <2>2. Inside' = Inside
    BY <1>13 DEF CheckCancelled, SubmitterAt, SubmitterTo, Inside, InScope, TypeOK
  <2> QED
    BY <2>1, <2>2 DEF Accounting, TypeOK
<1> QED
  BY <1>1, <1>2, <1>3, <1>4, <1>5, <1>6, <1>7, <1>8, <1>9, <1>10, <1>11, <1>12, <1>13 DEF SubmitterStep, EntryStep, ExecuteStep, RecordStep

(***************************************************************************)
(* What a step may do to the provider handle of a child.                   *)
(***************************************************************************)
Early == {"start", "scoped", "reserved"}

\* A handle appears only when the submission is accepted, and then only advances.
HandleMove(u) ==
  /\ u \in bound => u \in bound'
  /\ \/ sub[u] \in Early /\ raw'[u] = raw[u]
     \/ sub[u] = "reserved" /\ sub'[u] = "submitted"
     \/ /\ sub[u] \notin Early /\ sub'[u] \notin Early
        /\ sub[u] = "submitted" => sub'[u] = "submitted" \/ u \in bound'
        /\ \/ raw'[u] = raw[u]
           \/ raw[u] \in {"queued", "running"} /\ raw'[u] \in {"running"} \cup Ended

LEMMA StillMoves ==
  ASSUME NEW u, UNCHANGED <<raw, bound, sub>>
  PROVE  HandleMove(u)
  BY DEF HandleMove, Early

LEMMA CancelRawMoves ==
  ASSUME TypeOK, Binding, NEW t \in Task, CancelRaw(t), UNCHANGED <<bound, sub>>
  PROVE  \A u \in Task : HandleMove(u)
  BY DEF TypeOK, Binding, CancelRaw, Cancellable, rawVars, HandleMove, Early, Ended

LEMMA ExpireMoves ==
  ASSUME TypeOK, Binding, NEW t \in Task, NEW th, Expire(th, t), UNCHANGED <<bound, sub>>
  PROVE  \A u \in Task : HandleMove(u)
<1>1. CASE UNCHANGED rawVars
  BY <1>1, StillMoves DEF rawVars
<1>2. CASE CancelRaw(t)
  BY <1>2, CancelRawMoves
<1> QED
  BY <1>1, <1>2 DEF Expire

LEMMA SubmitMoves ==
  ASSUME TypeOK, Binding, NEW t \in Task, SubmitterStep(t)
  PROVE  \A u \in Task : HandleMove(u)
<1> USE DEF rawVars, HandleMove, Early, SubmitterTo, SubmitterAt
<1>1. CASE EnterScope(t)
  BY <1>1 DEF EnterScope, TypeOK, Binding
<1>2. CASE RefuseScope(t)
  BY <1>2 DEF RefuseScope, TypeOK, Binding
<1>3. CASE Reserve(t)
  BY <1>3 DEF Reserve, TypeOK, Binding
<1>4. CASE AbandonScope(t)
  BY <1>4 DEF AbandonScope, TypeOK, Binding
<1>5. CASE SubmitAccepted(t)
  BY <1>5 DEF SubmitAccepted, TypeOK, Binding
<1>6. CASE SubmitRefused(t)
  BY <1>6 DEF SubmitRefused, TypeOK, Binding
<1>7. CASE SubmitFailed(t)
  BY <1>7 DEF SubmitFailed, TypeOK, Binding
<1>8. CASE BindRaw(t)
  BY <1>8 DEF BindRaw, TypeOK, Binding
<1>9. CASE AddDoneCallback(t)
  BY <1>9 DEF AddDoneCallback, TypeOK, Binding
<1>10. CASE ArmDeadline(t)
  <2>1. sub[t] = "hooked" /\ bound' = bound /\ \E to \in {"armed", "binding", "leaving"} : SubmitterTo(t, to)
    BY <1>10 DEF ArmDeadline
  <2>2. CASE UNCHANGED rawVars
    BY <2>1, <2>2 DEF TypeOK
  <2>3. CASE CancelRaw(t)
    BY <2>1, <2>3 DEF TypeOK, Binding, CancelRaw, Cancellable, Ended
  <2> QED
    BY <1>10, <2>2, <2>3 DEF ArmDeadline, Expire
<1>11. CASE BindDeadline(t)
  BY <1>11 DEF BindDeadline, TypeOK, Binding
<1>12. CASE CheckCancelled(t)
  BY <1>12 DEF CheckCancelled, TypeOK, Binding
<1>13. CASE LeaveScope(t)
  BY <1>13 DEF LeaveScope, TypeOK, Binding
<1> QED
  BY <1>1, <1>2, <1>3, <1>4, <1>5, <1>6, <1>7, <1>8, <1>9, <1>10, <1>11, <1>12, <1>13 DEF SubmitterStep, EntryStep, ExecuteStep, RecordStep

LEMMA WorkerMoves ==
  ASSUME TypeOK, Binding, NEW t \in Task, WorkerStep(t) \/ CallbackStep(t)
  PROVE  \A u \in Task : HandleMove(u)
<1>1. CASE StartBody(t)
  BY <1>1 DEF StartBody, TypeOK, Binding, HandleMove, Early, Ended
<1>2. CASE FinishBody(t)
  BY <1>2 DEF FinishBody, TypeOK, Binding, HandleMove, Early, Ended
<1>3. CASE CheckGroupDeadline(t) \/ CaptureCompletion(t) \/ DoneCallback(t)
  BY <1>3, StillMoves DEF CheckGroupDeadline, CaptureCompletion, DoneCallback, rawVars
<1> QED
  BY <1>1, <1>2, <1>3 DEF WorkerStep, CallbackStep

LEMMA CallerMoves ==
  ASSUME TypeOK, Binding, NEW t \in Task,
         \/ DeadlinePasses(t) \/ CancelHandle(t) \/ Observe(t)
         \/ ResultExpires(t) \/ TaskTimerFires(t)
  PROVE  \A u \in Task : HandleMove(u)
<1>1. CASE DeadlinePasses(t) \/ CancelHandle(t) \/ Observe(t)
  BY <1>1, StillMoves DEF DeadlinePasses, CancelHandle, Observe, rawVars
<1>2. CASE ResultExpires(t)
  BY <1>2, StillMoves, ExpireMoves DEF ResultExpires, rawVars
<1>3. CASE TaskTimerFires(t)
  BY <1>3, ExpireMoves DEF TaskTimerFires
<1> QED
  BY <1>1, <1>2, <1>3

LEMMA SweepMoves ==
  ASSUME TypeOK, Binding, NEW th \in Thread, SweepStep(th)
  PROVE  \A u \in Task : HandleMove(u)
<1>1. CASE CancelAll(th)
  BY <1>1, StillMoves DEF CancelAll, rawVars
<1>2. ASSUME NEW t \in Task, CancelTask(th, t) PROVE \A u \in Task : HandleMove(u)
  BY <1>2, CancelRawMoves DEF CancelTask
<1> QED
  BY <1>1, <1>2 DEF SweepStep

LEMMA BindingKept ==
  ASSUME TypeOK, Binding, \A u \in Task : HandleMove(u)
  PROVE  Binding'
  BY DEF Binding, HandleMove, Early, Ended

LEMMA JoinedKept ==
  ASSUME TypeOK, Accounting, Joined, active' = 0, \A u \in Task : HandleMove(u)
  PROVE  Joined'
<1>1. \A u \in Task : sub[u] # "reserved"
  BY NobodyInside DEF Joined, Inside, InScope
<1>2. \A u \in Task : raw'[u] = raw[u]
  BY <1>1 DEF Joined, HandleMove, Ended
<1> QED
  BY <1>2 DEF Joined

(***************************************************************************)
(* The close leader: what a step of another thread leaves to it, and what  *)
(* each of its own steps establishes.                                      *)
(***************************************************************************)
LEMMA OthersKeepLeadership ==
  ASSUME IInv, UNCHANGED <<closing, closed, converged, close, attempt>>,
         closed /\ active = 0 => active' = 0, \A u \in Task : HandleMove(u)
  PROVE  Leadership' /\ ConvergedIsJoined'
<1>1. closed /\ Joined => Joined'
  BY JoinedKept DEF IInv, Joined
<1>2. ConvergedIsJoined'
  <2>1. converged => closed
    BY DEF IInv, Leadership
  <2>2. converged => Joined
    BY DEF IInv, ConvergedIsJoined, Joined
  <2>3. converged => Joined'
    BY <1>1, <2>1, <2>2
  <2> QED
    BY <2>3 DEF ConvergedIsJoined, Joined
<1> QED
  BY <1>1, <1>2 DEF IInv, Leadership, Leading

LEMMA CloserScope ==
  ASSUME NEW c \in Closer, CloserStep(c)
  PROVE  UNCHANGED <<active, raw, bound, sub>>
  BY DEF CloserStep, BeginClose, CancelSubmissions, WaitForSubmissions, JoinChild,
         CloseLanes, JudgeConverged, PublishClose, SignalClosed, WaitClosed,
         ReadCloseFailure, lifeVars, rawVars

\* Convergence is judged on quiescence and on the handles: nothing else can run.
LEMMA JudgedIsJoined ==
  ASSUME TypeOK, Accounting, Binding, active = 0, AllExecutionDone
  PROVE  Joined
<1>1. \A t \in Task : sub[t] # "submitted"
  BY NobodyInside DEF Inside, InScope
<1> QED
  BY <1>1 DEF Joined, AllExecutionDone, Binding, TypeOK

LEMMA CloserKeepsLeadership ==
  ASSUME IInv, NEW c \in Closer, CloserStep(c)
  PROVE  Leadership' /\ ConvergedIsJoined'
<1> USE DEF lifeVars, closeVars, CloserAt, CloserTo, CloserReturns, Leading
<1>0. UNCHANGED <<active, raw, bound, sub>> /\ Joined' = Joined
  BY CloserScope DEF Joined
<1>1. CASE BeginClose(c)
  BY <1>0, <1>1 DEF BeginClose, IInv, Leadership, ConvergedIsJoined, TypeOK, NoAttempt
<1>2. CASE CancelSubmissions(c)
  BY <1>0, <1>2 DEF CancelSubmissions, IInv, Leadership, ConvergedIsJoined, TypeOK
<1>3. CASE WaitForSubmissions(c)
  <2>1. \A d \in Closer : d # c => attempt'[d] = attempt[d]
    BY <1>3 DEF WaitForSubmissions, IInv, TypeOK
  <2>2. attempt'[c].quiesced => active = 0
    BY <1>3 DEF WaitForSubmissions, IInv, TypeOK, Attempt
  <2> QED
    BY <1>0, <1>3, <2>1, <2>2
    DEF WaitForSubmissions, IInv, Leadership, ConvergedIsJoined, TypeOK
<1>4. ASSUME NEW t \in Task, JoinChild(c, t) PROVE Leadership' /\ ConvergedIsJoined'
  <2>1. \A d \in Closer : attempt'[d].quiesced = attempt[d].quiesced
    BY <1>4 DEF JoinChild, IInv, TypeOK, Attempt
  <2>2. \A d \in Closer : d # c => attempt'[d] = attempt[d]
    BY <1>4 DEF JoinChild, IInv, TypeOK
  <2> QED
    BY <1>0, <1>4, <2>1, <2>2
    DEF JoinChild, IInv, Leadership, ConvergedIsJoined, TypeOK
<1>5. CASE CloseLanes(c)
  <2>1. \A d \in Closer : attempt'[d].quiesced = attempt[d].quiesced
    BY <1>5 DEF CloseLanes, IInv, TypeOK, Attempt
  <2>2. \A d \in Closer : d # c => attempt'[d] = attempt[d]
    BY <1>5 DEF CloseLanes, IInv, TypeOK
  <2> QED
    BY <1>0, <1>5, <2>1, <2>2
    DEF CloseLanes, IInv, Leadership, ConvergedIsJoined, TypeOK
<1>6. CASE JudgeConverged(c)
  <2>1. \A d \in Closer : attempt'[d].quiesced = attempt[d].quiesced
    BY <1>6 DEF JudgeConverged, IInv, TypeOK, Attempt
  <2>2. \A d \in Closer : d # c => attempt'[d] = attempt[d]
    BY <1>6 DEF JudgeConverged, IInv, TypeOK
  <2>3. attempt'[c].converged => attempt[c].quiesced /\ AllExecutionDone
    BY <1>6 DEF JudgeConverged, IInv, TypeOK, Attempt
  <2>4. attempt[c].quiesced => active = 0
    BY <1>6 DEF JudgeConverged, IInv, Leadership
  <2>5. attempt'[c].converged => Joined
    BY <2>3, <2>4, JudgedIsJoined DEF IInv
  <2> QED
    BY <1>0, <1>6, <2>1, <2>2, <2>5
    DEF JudgeConverged, IInv, Leadership, ConvergedIsJoined, TypeOK
<1>7. CASE PublishClose(c)
  <2>1. closing /\ closed /\ (attempt[c].converged => Joined)
    BY <1>7 DEF PublishClose, IInv, Leadership
  <2>2. \A d \in Closer : close'[d] \notin Leading
    BY <1>7 DEF PublishClose, IInv, Leadership, TypeOK
  <2> QED
    BY <1>0, <1>7, <2>1, <2>2 DEF PublishClose, IInv, Leadership, ConvergedIsJoined, Joined
<1>8. CASE SignalClosed(c) \/ WaitClosed(c) \/ ReadCloseFailure(c)
  BY <1>0, <1>8
  DEF SignalClosed, WaitClosed, ReadCloseFailure, IInv, Leadership, ConvergedIsJoined, TypeOK
<1> QED
  BY <1>1, <1>2, <1>3, <1>4, <1>5, <1>6, <1>7, <1>8 DEF CloserStep

(***************************************************************************)
(* The inductive invariant.                                                *)
(***************************************************************************)
LEMMA InitIInv == Init => IInv
<1> SUFFICES ASSUME Init PROVE IInv
  OBVIOUS
<1>1. Inside = {}
  BY DEF Init, Inside, InScope
<1>2. Accounting
  BY <1>1, FS_EmptySet DEF Accounting, Init
<1>3. Binding
  BY DEF Init, Binding
<1>4. Leadership /\ ConvergedIsJoined
  BY DEF Init, Leadership, ConvergedIsJoined, Leading
<1> QED
  BY TypeInit, <1>2, <1>3, <1>4 DEF IInv

\* A step of a thread that is neither submitting nor closing.
LEMMA BystanderIInv ==
  ASSUME IInv, TypeOK', UNCHANGED <<lifeVars, sub, closeVars>>,
         \A u \in Task : HandleMove(u)
  PROVE  IInv'
<1>1. Accounting'
  <2>1. Inside' = Inside /\ active' = active
    BY DEF Inside, lifeVars
  <2> QED
    BY <2>1 DEF IInv, Accounting
<1>2. Binding'
  BY BindingKept DEF IInv
<1>3. Leadership' /\ ConvergedIsJoined'
  BY OthersKeepLeadership DEF lifeVars, closeVars
<1> QED
  BY <1>1, <1>2, <1>3 DEF IInv

LEMMA NextIInv == IInv /\ [Next]_vars => IInv'
<1> SUFFICES ASSUME IInv, [Next]_vars PROVE IInv'
  OBVIOUS
<1> USE DEF IInv
<1>1. ASSUME NEW t \in Task, SubmitterStep(t) PROVE IInv'
  <2>1. Accounting' /\ active' \in Nat /\ (closed /\ active = 0 => active' = 0)
    BY <1>1, SubmitCounts
  <2>2. TypeOK'
    BY <1>1, <2>1, TypeSubmit
  <2>3. \A u \in Task : HandleMove(u)
    BY <1>1, SubmitMoves
  <2>4. UNCHANGED <<closing, closed, converged, close, attempt>>
    BY <1>1 DEF SubmitterStep, EntryStep, ExecuteStep, RecordStep, EnterScope, RefuseScope,
                Reserve, AbandonScope, SubmitAccepted, SubmitRefused, SubmitFailed, BindRaw,
                AddDoneCallback, ArmDeadline, BindDeadline, CheckCancelled, LeaveScope,
                lifeVars, closeVars
  <2> QED
    BY <2>1, <2>2, <2>3, <2>4, BindingKept, OthersKeepLeadership
<1>2. ASSUME NEW t \in Task, WorkerStep(t) \/ CallbackStep(t) PROVE IInv'
  <2>1. UNCHANGED <<lifeVars, sub, closeVars>>
    BY <1>2 DEF WorkerStep, CallbackStep, StartBody, CheckGroupDeadline, FinishBody,
                CaptureCompletion, DoneCallback
  <2> QED
    BY <1>2, <2>1, TypeWorker, WorkerMoves, BystanderIInv
<1>3. ASSUME NEW t \in Task,
             \/ DeadlinePasses(t) \/ CancelHandle(t) \/ Observe(t)
             \/ ResultExpires(t) \/ TaskTimerFires(t)
      PROVE  IInv'
  <2>1. UNCHANGED <<lifeVars, sub, closeVars>>
    BY <1>3 DEF DeadlinePasses, CancelHandle, Observe, ResultExpires, TaskTimerFires
  <2> QED
    BY <1>3, <2>1, TypeCaller, CallerMoves, BystanderIInv
<1>4. ASSUME GroupDeadlinePasses \/ GroupTimerFires \/ CancelGroup PROVE IInv'
  <2>1. UNCHANGED <<lifeVars, raw, bound, sub, closeVars>>
    BY <1>4 DEF GroupDeadlinePasses, GroupTimerFires, CancelGroup, rawVars
  <2> QED
    BY <1>4, <2>1, TypeGroup, StillMoves, BystanderIInv
<1>5. ASSUME NEW th \in Thread, SweepStep(th) PROVE IInv'
  <2>1. UNCHANGED <<lifeVars, sub, closeVars>>
    BY <1>5 DEF SweepStep, CancelAll, CancelTask
  <2> QED
    BY <1>5, <2>1, TypeSweep, SweepMoves, BystanderIInv
<1>6. ASSUME NEW c \in Closer, CloserStep(c) PROVE IInv'
  <2>1. UNCHANGED <<active, raw, bound, sub>>
    BY <1>6, CloserScope
  <2>2. Accounting'
    BY <2>1 DEF Accounting, Inside
  <2>3. Binding'
    BY <2>1, StillMoves, BindingKept
  <2> QED
    BY <1>6, <2>2, <2>3, TypeCloser, CloserKeepsLeadership
<1>7. CASE UNCHANGED vars
  <2>1. TypeOK'
    BY <1>7 DEF vars, TypeOK, lifeVars, tokenVars, timeVars, recordVars, rawVars, closeVars,
                sweepVars
  <2>2. UNCHANGED <<lifeVars, raw, bound, sub, closeVars>>
    BY <1>7 DEF vars, rawVars
  <2> QED
    BY <2>1, <2>2, StillMoves, BystanderIInv
<1> QED
  BY <1>1, <1>2, <1>3, <1>4, <1>5, <1>6, <1>7 DEF Next, TimerStep

LEMMA Invariance == Spec => []IInv
  BY InitIInv, NextIInv, PTL DEF Spec

(***************************************************************************)
(* The theorems.                                                           *)
(***************************************************************************)

\* Every variable of the group keeps its type, in every reachable state.
THEOREM TypeCorrect == Spec => []TypeOK
<1>1. IInv => TypeOK
  BY DEF IInv
<1> QED
  BY <1>1, Invariance, PTL

\* A group that publishes convergence has no submission inside its scope and no
\* provider that still holds or runs one of its children: the claim of
\* complete_close is physical, for any number of children, closers and retries.
THEOREM ConvergenceIsPhysical == Spec => []ConvergedIsJoined
<1>1. IInv => ConvergedIsJoined
  BY DEF IInv
<1> QED
  BY <1>1, Invariance, PTL

\* Proven convergence is never withdrawn: no later close() leads again, whoever
\* retries and however the attempts overlap.
THEOREM ConvergenceIsFinal == Spec => ConvergedStays
<1>1. IInv /\ [Next]_vars => [converged => converged' /\ ~closing']_vars
  <2> SUFFICES ASSUME IInv, [Next]_vars, converged PROVE converged' /\ ~closing'
    OBVIOUS
  <2>0. closed /\ ~closing /\ \A c \in Closer : close[c] \notin Leading
    BY DEF IInv, Leadership
  <2>1. CASE UNCHANGED <<converged, closing>>
    BY <2>0, <2>1
  <2>2. ASSUME NEW c \in Closer, CloserStep(c) PROVE UNCHANGED <<converged, closing>>
    BY <2>0, <2>2
    DEF CloserStep, BeginClose, CancelSubmissions, WaitForSubmissions, JoinChild,
        CloseLanes, JudgeConverged, PublishClose, SignalClosed, WaitClosed,
        ReadCloseFailure, lifeVars, CloserAt, Leading
  <2>3. ASSUME NEW t \in Task, SubmitterStep(t) PROVE UNCHANGED <<converged, closing>>
    BY <2>3
    DEF SubmitterStep, EntryStep, ExecuteStep, RecordStep, EnterScope, RefuseScope,
        Reserve, AbandonScope, SubmitAccepted, SubmitRefused, SubmitFailed, BindRaw,
        AddDoneCallback, ArmDeadline, BindDeadline, CheckCancelled, LeaveScope, lifeVars
  <2>4. ASSUME NEW t \in Task,
               \/ WorkerStep(t) \/ CallbackStep(t) \/ DeadlinePasses(t)
               \/ CancelHandle(t) \/ Observe(t) \/ ResultExpires(t) \/ TaskTimerFires(t)
        PROVE  UNCHANGED <<converged, closing>>
    BY <2>4
    DEF WorkerStep, CallbackStep, StartBody, CheckGroupDeadline, FinishBody,
        CaptureCompletion, DoneCallback, DeadlinePasses, CancelHandle, Observe,
        ResultExpires, TaskTimerFires, lifeVars
  <2>5. CASE \/ GroupDeadlinePasses \/ GroupTimerFires \/ CancelGroup
             \/ \E th \in Thread : SweepStep(th)
    BY <2>1, <2>5
    DEF GroupDeadlinePasses, GroupTimerFires, CancelGroup, SweepStep, CancelAll,
        CancelTask, lifeVars
  <2>6. CASE UNCHANGED vars
    BY <2>1, <2>6 DEF vars, lifeVars
  <2> QED
    BY <2>1, <2>2, <2>3, <2>4, <2>5, <2>6 DEF Next, TimerStep
<1> QED
  BY <1>1, Invariance, PTL DEF Spec, ConvergedStays

(***************************************************************************)
(* The first terminal outcome of a child is the last.  _reserve_task is    *)
(* the one step that sets a state without looking at it, so the proof      *)
(* needs that a child without a record has no outcome, deadline or sweep.  *)
(***************************************************************************)
Fresh == {"start", "scoped"}

Unrecorded ==
  \A t \in Task : sub[t] \in Fresh =>
    state[t] = "none" /\ t \notin timer /\ \A th \in Thread : t \notin todo[th]

\* What a step may do to the record of a child.
RecordMove(u) ==
  /\ state[u] \in Terminal => state'[u] = state[u]
  /\ sub'[u] \in Fresh =>
       /\ sub[u] \in Fresh
       /\ state'[u] = state[u]
       /\ u \in timer' => u \in timer
       /\ \A th \in Thread : u \in todo'[th] => u \in todo[th]

\* What settling child t may do to the records of the group.
SettlesOnly(t) ==
  /\ \A u \in Task \ {t} : state'[u] = state[u]
  /\ state[t] \in Terminal => state'[t] = state[t]
  /\ timer' \subseteq timer
  /\ \A th \in Thread : todo'[th] \subseteq todo[th]

LEMMA UnrecordedKept ==
  ASSUME Unrecorded, \A u \in Task : RecordMove(u)
  PROVE  Unrecorded'
  BY DEF Unrecorded, RecordMove

LEMMA SettledMoves ==
  ASSUME NEW t \in Task, SettlesOnly(t), sub[t] \notin Fresh, UNCHANGED sub
  PROVE  \A u \in Task : RecordMove(u)
  BY DEF SettlesOnly, RecordMove

LEMMA QuietMoves ==
  ASSUME UNCHANGED <<state, timer, todo>>, \A u \in Task : sub'[u] \in Fresh => sub[u] \in Fresh
  PROVE  \A u \in Task : RecordMove(u)
  BY DEF RecordMove

LEMMA MarkSettles ==
  ASSUME TypeOK, NEW t \in Task, NEW s, Mark(t, s)
  PROVE  SettlesOnly(t)
  BY DEF TypeOK, Mark, Drop, SettlesOnly, recordVars

LEMMA SyncSettles ==
  ASSUME TypeOK, NEW t \in Task, NEW th, Sync(th, t)
  PROVE  SettlesOnly(t)
  BY MarkSettles DEF Sync

LEMMA ExpireSettles ==
  ASSUME TypeOK, NEW t \in Task, NEW th, Expire(th, t), timer' \subseteq timer
  PROVE  SettlesOnly(t)
  BY DEF TypeOK, Expire, Drop, SettlesOnly

LEMMA SubmitRecords ==
  ASSUME TypeOK, Unrecorded, NEW t \in Task, SubmitterStep(t)
  PROVE  \A u \in Task : RecordMove(u)
<1> USE DEF recordVars, sweepVars, SubmitterAt, SubmitterTo, Fresh
<1>1. CASE EnterScope(t)
  BY <1>1, QuietMoves DEF EnterScope, TypeOK
<1>2. CASE RefuseScope(t)
  BY <1>2, QuietMoves DEF RefuseScope, TypeOK
<1>3. CASE Reserve(t)
  <2>1. state[t] = "none" /\ state[t] \notin Terminal
    BY <1>3 DEF Reserve, Unrecorded, Terminal
  <2> QED
    BY <1>3, <2>1 DEF Reserve, RecordMove, TypeOK
<1>4. CASE AbandonScope(t)
  BY <1>4, QuietMoves DEF AbandonScope, TypeOK
<1>5. CASE SubmitAccepted(t)
  BY <1>5, QuietMoves DEF SubmitAccepted, TypeOK
<1>6. CASE SubmitRefused(t)
  <2>1. SettlesOnly(t)
    BY <1>6, MarkSettles DEF SubmitRefused, MarkBy
  <2> QED
    BY <1>6, <2>1 DEF SubmitRefused, RecordMove, SettlesOnly, TypeOK
<1>7. CASE SubmitFailed(t)
  <2>1. SettlesOnly(t)
    BY <1>7, MarkSettles DEF SubmitFailed, MarkBy
  <2> QED
    BY <1>7, <2>1 DEF SubmitFailed, RecordMove, SettlesOnly, TypeOK
<1>8. CASE BindRaw(t)
  BY <1>8 DEF BindRaw, RecordMove, TypeOK, Terminal
<1>9. CASE AddDoneCallback(t)
  <2>1. SettlesOnly(t)
    BY <1>9, SyncSettles DEF AddDoneCallback, SettlesOnly, TypeOK
  <2> QED
    BY <1>9, <2>1 DEF AddDoneCallback, RecordMove, SettlesOnly, TypeOK
<1>10. CASE ArmDeadline(t)
  <2>1. sub[t] = "hooked" /\ \E to \in {"armed", "binding", "leaving"} : SubmitterTo(t, to)
    BY <1>10 DEF ArmDeadline
  <2>2. CASE SettlesOnly(t)
    BY <2>1, <2>2 DEF RecordMove, SettlesOnly, TypeOK
  <2>3. CASE timer' = timer \cup {t} /\ UNCHANGED <<state, todo>>
    BY <2>1, <2>3 DEF RecordMove, TypeOK
  <2>4. CASE UNCHANGED <<recordVars, sweepVars>>
    BY <2>1, <2>4, QuietMoves DEF TypeOK
  <2> QED
    BY <1>10, <2>2, <2>3, <2>4, SyncSettles, ExpireSettles, MarkSettles
    DEF ArmDeadline, MarkBy
<1>11. CASE BindDeadline(t)
  BY <1>11 DEF BindDeadline, RecordMove, TypeOK
<1>12. CASE CheckCancelled(t)
  BY <1>12 DEF CheckCancelled, RecordMove, TypeOK
<1>13. CASE LeaveScope(t)
  BY <1>13, QuietMoves DEF LeaveScope, TypeOK
<1> QED
  BY <1>1, <1>2, <1>3, <1>4, <1>5, <1>6, <1>7, <1>8, <1>9, <1>10, <1>11, <1>12, <1>13 DEF SubmitterStep, EntryStep, ExecuteStep, RecordStep

LEMMA WorkerRecords ==
  ASSUME IInv, NEW t \in Task, WorkerStep(t) \/ CallbackStep(t)
  PROVE  \A u \in Task : RecordMove(u)
<1> USE DEF recordVars, sweepVars, IInv
<1>1. CASE StartBody(t)
  <2>1. sub[t] \notin Fresh
    BY <1>1 DEF StartBody, Binding, Fresh
  <2>2. SettlesOnly(t)
    BY <1>1 DEF StartBody, SettlesOnly, TypeOK, Terminal
  <2> QED
    BY <1>1, <2>1, <2>2, SettledMoves DEF StartBody
<1>2. CASE CheckGroupDeadline(t) \/ FinishBody(t) \/ CaptureCompletion(t)
  BY <1>2, QuietMoves DEF CheckGroupDeadline, FinishBody, CaptureCompletion
<1>3. CASE DoneCallback(t)
  <2>1. sub[t] \notin Fresh
    BY <1>3 DEF DoneCallback, Binding, Fresh, Ended
  <2> QED
    BY <1>3, <2>1, SyncSettles, SettledMoves DEF DoneCallback
<1> QED
  BY <1>1, <1>2, <1>3 DEF WorkerStep, CallbackStep

LEMMA CallerRecords ==
  ASSUME IInv, Unrecorded, NEW t \in Task,
         \/ DeadlinePasses(t) \/ CancelHandle(t) \/ Observe(t)
         \/ ResultExpires(t) \/ TaskTimerFires(t)
  PROVE  \A u \in Task : RecordMove(u)
<1> USE DEF recordVars, sweepVars, IInv
<1>1. CASE DeadlinePasses(t)
  BY <1>1, QuietMoves DEF DeadlinePasses
<1>2. CASE CancelHandle(t)
  BY <1>2 DEF CancelHandle, RecordMove, TypeOK, Fresh
<1>3. CASE Observe(t)
  <2>1. sub[t] \notin Fresh
    BY <1>3 DEF Observe, Binding, Fresh, Ended
  <2> QED
    BY <1>3, <2>1, SyncSettles, SettledMoves DEF Observe
<1>4. CASE ResultExpires(t)
  <2>1. sub[t] \notin Fresh
    BY <1>4 DEF ResultExpires, Fresh
  <2>2. CASE UNCHANGED <<state, timer, todo>>
    BY <1>4, <2>2, QuietMoves DEF ResultExpires
  <2>3. CASE Expire(Caller, t)
    BY <1>4, <2>1, <2>3, ExpireSettles, SettledMoves DEF ResultExpires
  <2> QED
    BY <1>4, <2>2, <2>3 DEF ResultExpires
<1>5. CASE TaskTimerFires(t)
  <2>1. sub[t] \notin Fresh
    BY <1>5 DEF TaskTimerFires, Unrecorded
  <2>2. timer' \subseteq timer
    BY <1>5 DEF TaskTimerFires
  <2> QED
    BY <1>5, <2>1, <2>2, ExpireSettles, SettledMoves DEF TaskTimerFires
<1> QED
  BY <1>1, <1>2, <1>3, <1>4, <1>5

LEMMA SweepRecords ==
  ASSUME IInv, Unrecorded, NEW th \in Thread, SweepStep(th)
  PROVE  \A u \in Task : RecordMove(u)
<1> USE DEF recordVars, sweepVars, IInv
<1>1. CASE CancelAll(th)
  <2>1. \A u \in Task : sub[u] \in Fresh => state[u] \notin Live
    BY DEF Unrecorded, Live
  <2> QED
    BY <1>1, <2>1 DEF CancelAll, RecordMove, TypeOK
<1>2. ASSUME NEW t \in Task, CancelTask(th, t) PROVE \A u \in Task : RecordMove(u)
  <2>1. sub[t] \notin Fresh
    BY <1>2 DEF CancelTask, Unrecorded
  <2>2. SettlesOnly(t)
    BY <1>2, MarkSettles DEF CancelTask, MarkBy
  <2> QED
    BY <1>2, <2>1, <2>2, SettledMoves DEF CancelTask
<1> QED
  BY <1>1, <1>2 DEF SweepStep

LEMMA CloserRecords ==
  ASSUME IInv, NEW c \in Closer, CloserStep(c)
  PROVE  \A u \in Task : RecordMove(u)
<1> USE DEF recordVars, sweepVars, IInv
<1>1. ASSUME NEW t \in Task, JoinChild(c, t) PROVE \A u \in Task : RecordMove(u)
  <2>1. CASE t \in bound /\ raw[t] \in Ended
    <3>1. sub[t] \notin Fresh
      BY <2>1 DEF Binding, Fresh, Ended
    <3>2. SettlesOnly(t)
      BY <1>1, <2>1, SyncSettles DEF JoinChild
    <3> QED
      BY <1>1, <3>1, <3>2, SettledMoves DEF JoinChild
  <2>2. CASE ~(t \in bound /\ raw[t] \in Ended)
    BY <1>1, <2>2, QuietMoves DEF JoinChild
  <2> QED
    BY <2>1, <2>2
<1>2. CASE UNCHANGED <<state, timer, todo, sub>>
  BY <1>2, QuietMoves
<1> QED
  BY <1>1, <1>2
  DEF CloserStep, BeginClose, CancelSubmissions, WaitForSubmissions, CloseLanes,
      JudgeConverged, PublishClose, SignalClosed, WaitClosed, ReadCloseFailure

LEMMA NextRecords ==
  ASSUME IInv, Unrecorded, [Next]_vars
  PROVE  \A u \in Task : RecordMove(u)
<1>1. ASSUME NEW t \in Task, SubmitterStep(t) PROVE \A u \in Task : RecordMove(u)
  BY <1>1, SubmitRecords DEF IInv
<1>2. CASE GroupDeadlinePasses \/ GroupTimerFires \/ CancelGroup
  BY <1>2, QuietMoves
  DEF GroupDeadlinePasses, GroupTimerFires, CancelGroup, recordVars, sweepVars
<1>3. CASE UNCHANGED vars
  BY <1>3, QuietMoves DEF vars, recordVars, sweepVars
<1> QED
  BY <1>1, <1>2, <1>3, WorkerRecords, CallerRecords, SweepRecords, CloserRecords
  DEF Next, TimerStep

\* Deadline, cancellation, completion and submission error race for the outcome of
\* a child; whichever settles it first, mark_succeeded, mark_cancelled, mark_failed,
\* expire_task and sync_terminal_from_raw never change it again.
THEOREM OutcomeIsFinal == Spec => TerminalIsFinal
<1>1. Init => Unrecorded
  BY DEF Init, Unrecorded
<1>2. IInv /\ Unrecorded /\ [Next]_vars => Unrecorded'
  BY NextRecords, UnrecordedKept
<1>3. IInv /\ Unrecorded /\ [Next]_vars
        => [\A t \in Task : state[t] \in Terminal => state'[t] = state[t]]_vars
  BY NextRecords DEF RecordMove
<1> QED
  BY <1>1, <1>2, <1>3, Invariance, PTL DEF Spec, TerminalIsFinal

(***************************************************************************)
(* Cancellation reaches every child, and no value comes too late.  A step  *)
(* other than the sweep itself and _reserve_task settles at most one child *)
(* (Settling), moves no submitter past its last look at the tokens without *)
(* a consequence (Checked) and only advances the handles (Advances).       *)
(***************************************************************************)

\* Where a submitter still has to look at the cancellation tokens.
Unchecked == {"reserved", "submitted", "bound", "hooked", "binding", "armed"}

\* Someone will still cancel this child.
Chased(u) == \/ sub[u] \in Unchecked
             \/ owes # {}
             \/ \E th \in Thread : u \in todo[th]

\* A cancelled group chases every child that still counts as pending or running.
Swept == groupCancelled => \A u \in Task : state[u] \in Live => Chased(u)

\* A failed child of a FAIL_FAST group has cancelled it, or a thread is about to.
Avenged ==
  FailFast /\ (\E u \in Task \ Isolated : state[u] = "FAILED")
    => groupCancelled \/ owes # {}

\* Only a handle that ended is stamped, and only a value counts as a success.
Stamped ==
  \A u \in Task : /\ stamp[u] # None => raw[u] \in Ended
                  /\ state[u] = "SUCCEEDED" => raw[u] = "ok"

Dated(u, st) == st.cut \/ (u \in OwnDeadline /\ st.late)

\* Whoever stamps an overdue value, now or later, sees that it is overdue.
Dismissed ==
  \A u \in overdue : /\ raw[u] = "ok" /\ state[u] # "SUCCEEDED"
                     /\ groupCancelled \/ u \in OwnDeadline \cap passed
                     /\ stamp[u] # None => Dated(u, stamp[u])

SweepInv == Swept /\ Avenged /\ Stamped /\ Dismissed

\* The child t is settled, starts to run, or is left alone with its sweeps.
Settling(t) ==
  /\ \A u \in Task \ {t} : state'[u] = state[u]
  /\ owes \subseteq owes'
  /\ \A th \in Thread : todo[th] \ {t} \subseteq todo'[th]
  /\ \/ /\ state'[t] = state[t] \/ (state[t] \in Live /\ state'[t] = "RUNNING")
        /\ \A th \in Thread : todo[th] \subseteq todo'[th]
     \/ /\ state[t] \notin Terminal /\ state'[t] \in Terminal
        /\ state'[t] = "FAILED" /\ FailFast /\ t \notin Isolated => owes' # {}
        /\ state'[t] = "SUCCEEDED" => raw[t] = "ok" /\ ~Dated(t, Completed(t))

Checked ==
  \A u \in Task : sub[u] \in Unchecked =>
    \/ sub'[u] \in Unchecked
    \/ state'[u] \notin Live
    \/ ~groupCancelled
    \/ \E th \in Thread : u \in todo'[th]

Advances ==
  /\ passed \subseteq passed'
  /\ \A u \in Task :
       /\ raw[u] \in Ended => raw'[u] = raw[u]
       /\ stamp'[u] = stamp[u] \/ (raw'[u] \in Ended
                                   /\ (raw'[u] = "ok" => stamp'[u] = Now(u)))
       /\ u \in overdue' => \/ u \in overdue
                            \/ /\ raw[u] = "running" /\ raw'[u] = "ok"
                               /\ groupCancelled \/ u \in OwnDeadline \cap passed

ChildStep(t) == Settling(t) /\ Checked /\ Advances /\ UNCHANGED groupCancelled

LEMMA ChildStepKeepsSwept ==
  ASSUME Swept, NEW t, ChildStep(t)
  PROVE  Swept'
<1> SUFFICES ASSUME groupCancelled, NEW u \in Task, state'[u] \in Live PROVE Chased(u)'
  BY DEF Swept, ChildStep
<1>1. state[u] \in Live /\ \A th \in Thread : u \in todo[th] => u \in todo'[th]
  BY DEF ChildStep, Settling, Live, Terminal
<1>2. Chased(u)
  BY <1>1 DEF Swept
<1> QED
  BY <1>1, <1>2 DEF Chased, ChildStep, Settling, Checked

LEMMA ChildStepKeepsAvenged ==
  ASSUME Avenged, NEW t, ChildStep(t)
  PROVE  Avenged'
<1> SUFFICES ASSUME FailFast, NEW u \in Task \ Isolated, state'[u] = "FAILED",
                    ~groupCancelled
             PROVE  owes' # {}
  BY DEF Avenged, ChildStep
<1>1. CASE state[u] = "FAILED"
  BY <1>1 DEF Avenged, ChildStep, Settling
<1>2. CASE state[u] # "FAILED"
  BY <1>2 DEF ChildStep, Settling
<1> QED
  BY <1>1, <1>2

LEMMA ChildStepKeepsStamped ==
  ASSUME Stamped, NEW t, ChildStep(t)
  PROVE  Stamped'
<1> SUFFICES ASSUME NEW u \in Task
             PROVE  /\ stamp'[u] # None => raw'[u] \in Ended
                    /\ state'[u] = "SUCCEEDED" => raw'[u] = "ok"
  BY DEF Stamped
<1>1. stamp'[u] # None => raw'[u] \in Ended
  BY DEF Stamped, ChildStep, Advances
<1>2. state'[u] = "SUCCEEDED" => raw[u] = "ok"
  BY DEF Stamped, ChildStep, Settling
<1> QED
  BY <1>1, <1>2 DEF ChildStep, Advances, Ended

LEMMA ChildStepKeepsDismissed ==
  ASSUME Dismissed, Stamped, TypeOK', NEW t, ChildStep(t)
  PROVE  Dismissed'
<1> SUFFICES ASSUME NEW u \in overdue', u \in Task
             PROVE  /\ raw'[u] = "ok" /\ state'[u] # "SUCCEEDED"
                    /\ groupCancelled \/ u \in OwnDeadline \cap passed
                    /\ stamp'[u] # None => Dated(u, stamp'[u])
  <2>1. overdue' \subseteq Task
    BY DEF TypeOK
  <2> QED
    BY <2>1 DEF Dismissed, ChildStep, Advances
<1>1. CASE u \in overdue
  <2>1. raw'[u] = "ok" /\ (groupCancelled \/ u \in OwnDeadline \cap passed)
    BY <1>1 DEF Dismissed, ChildStep, Advances, Ended
  <2>2. Dated(u, Now(u))
    BY <2>1 DEF Now, Dated, Interrupted
  <2>3. Dated(u, Completed(u))
    BY <1>1, <2>2 DEF Dismissed, Completed
  <2>4. state'[u] # "SUCCEEDED"
    BY <1>1, <2>3 DEF Dismissed, ChildStep, Settling
  <2>5. stamp'[u] # None => Dated(u, stamp'[u])
    BY <1>1, <2>1, <2>2 DEF Dismissed, ChildStep, Advances
  <2> QED
    BY <2>1, <2>4, <2>5
<1>2. CASE u \notin overdue
  <2>1. /\ raw[u] = "running" /\ raw'[u] = "ok"
        /\ groupCancelled \/ u \in OwnDeadline \cap passed
    BY <1>2 DEF ChildStep, Advances
  <2>2. stamp[u] = None /\ state[u] # "SUCCEEDED"
    BY <2>1 DEF Stamped, Ended
  <2>3. state'[u] # "SUCCEEDED"
    BY <2>1, <2>2 DEF ChildStep, Settling
  <2>4. stamp'[u] # None => stamp'[u] = Now(u)
    BY <2>1, <2>2 DEF ChildStep, Advances
  <2>5. Dated(u, Now(u))
    BY <2>1 DEF Now, Dated, Interrupted
  <2> QED
    BY <2>1, <2>3, <2>4, <2>5
<1> QED
  BY <1>1, <1>2

LEMMA ChildStepKeeps ==
  ASSUME SweepInv, TypeOK', NEW t, ChildStep(t)
  PROVE  SweepInv'
  BY ChildStepKeepsSwept, ChildStepKeepsAvenged, ChildStepKeepsStamped, ChildStepKeepsDismissed
  DEF SweepInv

LEMMA OutcomeSettles ==
  ASSUME NEW t \in Task, NEW st, raw[t] \in Ended
  PROVE  /\ Outcome(t, raw[t], st) \in Terminal
         /\ Outcome(t, raw[t], st) = "SUCCEEDED" => raw[t] = "ok" /\ ~Dated(t, st)
  BY DEF Outcome, Terminal, Ended, Dated

LEMMA MarkSettling ==
  ASSUME TypeOK, NEW t \in Task, NEW s \in Terminal, Mark(t, s), owes \subseteq owes',
         Escalates(t, s) => owes' # {},
         s = "SUCCEEDED" => raw[t] = "ok" /\ ~Dated(t, Completed(t))
  PROVE  Settling(t)
  BY DEF TypeOK, Mark, Drop, Settling, recordVars, Escalates

LEMMA SyncSettling ==
  ASSUME TypeOK, NEW t \in Task, NEW th \in Thread, raw[t] \in Ended, Sync(th, t)
  PROVE  Settling(t)
<1> DEFINE s == Outcome(t, raw[t], Completed(t))
<1>1. s \in Terminal /\ (s = "SUCCEEDED" => raw[t] = "ok" /\ ~Dated(t, Completed(t)))
  BY OutcomeSettles
<1>2. Mark(t, s) /\ owes \subseteq owes' /\ (Escalates(t, s) => owes' # {})
  BY DEF Sync
<1> HIDE DEF s
<1> QED
  BY <1>1, <1>2, MarkSettling

LEMMA ExpireSettling ==
  ASSUME TypeOK, Stamped, NEW t \in Task, NEW th \in Thread, Expire(th, t)
  PROVE  Settling(t)
<1>1. CASE UNCHANGED <<state, todo, owes>>
  BY <1>1 DEF Settling
<1>2. CASE /\ state[t] \notin Terminal /\ EndedInTime(t)
           /\ state' = [state EXCEPT ![t] = Outcome(t, raw[t], stamp[t])]
           /\ todo' = Drop(t)
           /\ owes' = IF Escalates(t, Outcome(t, raw[t], stamp[t]))
                      THEN owes \cup {th} ELSE owes
  <2>1. raw[t] \in Ended /\ Completed(t) = stamp[t]
    BY <1>2 DEF EndedInTime, Stamped, Completed
  <2>2. /\ Outcome(t, raw[t], stamp[t]) \in Terminal
        /\ Outcome(t, raw[t], stamp[t]) = "SUCCEEDED"
             => raw[t] = "ok" /\ ~Dated(t, Completed(t))
    BY <2>1, OutcomeSettles
  <2>3. state'[t] = Outcome(t, raw[t], stamp[t]) /\ \A u \in Task \ {t} : state'[u] = state[u]
    BY <1>2 DEF TypeOK
  <2> QED
    BY <1>2, <2>2, <2>3 DEF Settling, Drop, Escalates
<1>3. CASE /\ state[t] \notin Terminal
           /\ state' = [state EXCEPT ![t] = "FAILED"]
           /\ todo' = Drop(t)
           /\ owes' = IF Escalates(t, "FAILED") THEN owes \cup {th} ELSE owes
  BY <1>3 DEF Settling, Drop, Escalates, TypeOK, Terminal
<1> QED
  BY <1>1, <1>2, <1>3 DEF Expire

LEMMA StillAdvances ==
  ASSUME UNCHANGED rawVars, passed \subseteq passed'
  PROVE  Advances
  BY DEF Advances, rawVars

LEMMA CancelRawAdvances ==
  ASSUME TypeOK, NEW t \in Task, CancelRaw(t), passed \subseteq passed'
  PROVE  Advances
  BY DEF TypeOK, CancelRaw, Cancellable, Advances, rawVars, Ended

LEMMA ExpireAdvances ==
  ASSUME TypeOK, NEW t \in Task, NEW th \in Thread, Expire(th, t), passed \subseteq passed'
  PROVE  Advances
  BY StillAdvances, CancelRawAdvances DEF Expire

LEMMA StillChecked == ASSUME UNCHANGED sub PROVE Checked
  BY DEF Checked

LEMMA MoveChecked ==
  ASSUME TypeOK, NEW t \in Task, NEW to, SubmitterTo(t, to),
         sub[t] \in Unchecked => to \in Unchecked \/ state'[t] \notin Live
  PROVE  Checked
  BY DEF TypeOK, Checked, SubmitterTo

LEMMA QuietSettling ==
  ASSUME NEW t, UNCHANGED <<state, todo>>, owes \subseteq owes'
  PROVE  Settling(t)
  BY DEF Settling

LEMMA RunSettling ==
  ASSUME TypeOK, NEW t \in Task, UNCHANGED <<todo, owes>>, NEW now \in BOOLEAN,
         state' = IF now /\ state[t] = "PENDING"
                  THEN [state EXCEPT ![t] = "RUNNING"] ELSE state
  PROVE  Settling(t)
  BY DEF TypeOK, Settling, Live

LEMMA SubmitChildStep ==
  ASSUME TypeOK, Stamped, Binding, Unrecorded, NEW t \in Task,
         SubmitterStep(t), ~Reserve(t)
  PROVE  ChildStep(t)
<1> USE DEF ChildStep, tokenVars, timeVars, recordVars, rawVars, sweepVars, SubmitterAt
<1>0. Submitter(t) \in Thread
  BY DEF Thread
<1>1. CASE EnterScope(t) \/ RefuseScope(t) \/ AbandonScope(t) \/ LeaveScope(t)
  <2>1. \E to : SubmitterTo(t, to) /\ sub[t] \notin Unchecked
    BY <1>1 DEF EnterScope, RefuseScope, AbandonScope, LeaveScope, Unchecked
  <2> QED
    BY <1>1, <2>1, QuietSettling, StillAdvances, MoveChecked
    DEF EnterScope, RefuseScope, AbandonScope, LeaveScope
<1>2. CASE SubmitAccepted(t)
  <2>1. raw[t] = "none"
    BY <1>2 DEF SubmitAccepted, Binding
  <2>2. Advances
    BY <1>2, <2>1 DEF SubmitAccepted, Advances, Ended, TypeOK
  <2>3. Checked
    BY <1>2, MoveChecked DEF SubmitAccepted, Unchecked
  <2> QED
    BY <1>2, <2>2, <2>3, QuietSettling DEF SubmitAccepted
<1>3. CASE SubmitRefused(t)
  <2>1. Settling(t)
    BY <1>3, MarkSettling DEF SubmitRefused, MarkBy, Terminal
  <2>2. Checked
    BY <1>3, <2>1, MoveChecked
    DEF SubmitRefused, MarkBy, Mark, Settling, Live, Terminal, TypeOK
  <2> QED
    BY <1>3, <2>1, <2>2, StillAdvances DEF SubmitRefused
<1>4. CASE SubmitFailed(t)
  <2>1. Settling(t)
    BY <1>4, MarkSettling DEF SubmitFailed, MarkBy, Terminal, Escalates
  <2>2. Checked
    BY <1>4, <2>1, MoveChecked
    DEF SubmitFailed, MarkBy, Mark, Settling, Live, Terminal, TypeOK
  <2> QED
    BY <1>4, <2>1, <2>2, StillAdvances DEF SubmitFailed
<1>5. CASE BindRaw(t)
  BY <1>5, RunSettling, StillAdvances, MoveChecked DEF BindRaw, Unchecked
<1>6. CASE AddDoneCallback(t)
  <2>1. Settling(t)
    BY <1>0, <1>6, SyncSettling, QuietSettling DEF AddDoneCallback
  <2>2. Checked
    BY <1>6, MoveChecked DEF AddDoneCallback, Unchecked
  <2>3. Advances
    BY <1>6 DEF AddDoneCallback, Advances
  <2> QED
    BY <1>6, <2>1, <2>2, <2>3 DEF AddDoneCallback
<1>7. CASE ArmDeadline(t)
  <2>1. Settling(t)
    BY <1>0, <1>7, SyncSettling, ExpireSettling, QuietSettling, MarkSettling
    DEF ArmDeadline, MarkBy, Terminal
  <2>2. Advances
    BY <1>0, <1>7, StillAdvances, ExpireAdvances DEF ArmDeadline
  <2>3. CASE SubmitterTo(t, "armed") \/ SubmitterTo(t, "binding")
    BY <1>7, <2>1, <2>2, <2>3, MoveChecked DEF ArmDeadline, Unchecked
  <2>4. CASE MarkBy(Submitter(t), t, "FAILED") /\ SubmitterTo(t, "leaving")
    <3>1. state'[t] \notin Live
      BY <2>4 DEF MarkBy, Mark, Live, Terminal, TypeOK
    <3> QED
      BY <1>7, <2>1, <2>2, <2>4, <3>1, MoveChecked DEF ArmDeadline
  <2> QED
    BY <1>7, <2>3, <2>4 DEF ArmDeadline
<1>8. CASE BindDeadline(t)
  BY <1>8, QuietSettling, StillAdvances, MoveChecked DEF BindDeadline, Unchecked
<1>9. CASE CheckCancelled(t)
  <2>1. Settling(t)
    BY <1>9 DEF CheckCancelled, Settling, Idle, TypeOK
  <2>2. Checked
    BY <1>0, <1>9 DEF CheckCancelled, SubmitterTo, Checked, TypeOK
  <2> QED
    BY <1>9, <2>1, <2>2, StillAdvances DEF CheckCancelled
<1> QED
  BY <1>1, <1>2, <1>3, <1>4, <1>5, <1>6, <1>7, <1>8, <1>9
  DEF SubmitterStep, EntryStep, ExecuteStep, RecordStep

\* _reserve_task gives the child its state: an expired deadline of its own fails
\* it, that of the group sends this thread to cancel the group.
LEMMA ReserveKeeps ==
  ASSUME SweepInv, TypeOK, Unrecorded, NEW t \in Task, Reserve(t)
  PROVE  SweepInv'
<1> USE DEF SweepInv, tokenVars, timeVars, rawVars
<1>1. /\ state[t] = "none" /\ \A u \in Task \ {t} : state'[u] = state[u]
      /\ state'[t] \in {"FAILED", "PENDING"} /\ owes \subseteq owes'
      /\ UNCHANGED <<raw, stamp, overdue, passed, groupCancelled, todo>>
  BY DEF Reserve, SubmitterAt, Unrecorded, Fresh, TypeOK
<1>2. state'[t] = "PENDING" => sub'[t] \in Unchecked \/ owes' # {}
  BY DEF Reserve, SubmitterTo, Expired, Unchecked, TypeOK, Owner
<1>3. state'[t] = "FAILED" /\ FailFast /\ t \notin Isolated => owes' # {}
  BY <1>1 DEF Reserve, Escalates, Terminal
<1>4. \A u \in Task \ {t} : sub'[u] = sub[u]
  BY DEF Reserve, SubmitterTo, TypeOK
<1>5. Swept'
  BY <1>1, <1>2, <1>4 DEF Swept, Chased, Live
<1>6. Avenged'
  BY <1>1, <1>3 DEF Avenged
<1>7. Stamped'
  BY <1>1 DEF Stamped
<1>8. Dismissed'
  <2>1. overdue \subseteq Task /\ \A st : Dated(t, st)' = Dated(t, st)
    BY DEF TypeOK, Dated
  <2> QED
    BY <1>1, <2>1 DEF Dismissed, Dated
<1> QED
  BY <1>5, <1>6, <1>7, <1>8

LEMMA WorkerChildStep ==
  ASSUME TypeOK, Stamped, NEW t \in Task, WorkerStep(t) \/ CallbackStep(t)
  PROVE  ChildStep(t)
<1> USE DEF ChildStep, tokenVars, timeVars, recordVars, rawVars, sweepVars
<1>1. CASE StartBody(t)
  <2>1. Settling(t)
    BY <1>1, RunSettling DEF StartBody
  <2>2. Advances
    BY <1>1 DEF StartBody, Advances, TypeOK, Ended
  <2> QED
    BY <1>1, <2>1, <2>2, StillChecked DEF StartBody
<1>2. CASE CheckGroupDeadline(t)
  BY <1>2, QuietSettling, StillAdvances, StillChecked DEF CheckGroupDeadline
<1>3. CASE FinishBody(t)
  <2>1. Advances
    BY <1>3 DEF FinishBody, Advances, TypeOK, Ended
  <2> QED
    BY <1>3, <2>1, QuietSettling, StillChecked DEF FinishBody
<1>4. CASE CaptureCompletion(t)
  <2>1. Advances
    BY <1>4 DEF CaptureCompletion, Advances, TypeOK
  <2> QED
    BY <1>4, <2>1, QuietSettling, StillChecked DEF CaptureCompletion
<1>5. CASE DoneCallback(t)
  <2>1. Settling(t)
    BY <1>5, SyncSettling DEF DoneCallback, Thread
  <2>2. Advances
    BY <1>5 DEF DoneCallback, Advances
  <2> QED
    BY <1>5, <2>1, <2>2, StillChecked DEF DoneCallback
<1> QED
  BY <1>1, <1>2, <1>3, <1>4, <1>5 DEF WorkerStep, CallbackStep

LEMMA CallerChildStep ==
  ASSUME TypeOK, Stamped, NEW t \in Task,
         \/ DeadlinePasses(t) \/ CancelHandle(t) \/ Observe(t)
         \/ ResultExpires(t) \/ TaskTimerFires(t)
  PROVE  ChildStep(t)
<1> USE DEF ChildStep, tokenVars, timeVars, recordVars, rawVars, sweepVars
<1>0. Caller \in Thread /\ Timer \in Thread
  BY DEF Thread
<1>1. CASE DeadlinePasses(t)
  BY <1>1, QuietSettling, StillAdvances, StillChecked DEF DeadlinePasses
<1>2. CASE CancelHandle(t)
  <2>1. Settling(t)
    BY <1>0, <1>2 DEF CancelHandle, Settling, Idle, TypeOK
  <2> QED
    BY <1>2, <2>1, StillAdvances, StillChecked DEF CancelHandle
<1>3. CASE Observe(t)
  BY <1>0, <1>3, SyncSettling, StillAdvances, StillChecked DEF Observe
<1>4. CASE ResultExpires(t)
  <2>1. Settling(t)
    BY <1>0, <1>4, ExpireSettling, QuietSettling DEF ResultExpires
  <2>2. Advances
    BY <1>0, <1>4, ExpireAdvances, StillAdvances DEF ResultExpires
  <2> QED
    BY <1>4, <2>1, <2>2, StillChecked DEF ResultExpires
<1>5. CASE TaskTimerFires(t)
  BY <1>0, <1>5, ExpireSettling, ExpireAdvances, StillChecked DEF TaskTimerFires
<1> QED
  BY <1>1, <1>2, <1>3, <1>4, <1>5

\* The sweep starts: every child that is pending or running is now chased.
LEMMA CancelAllKeeps ==
  ASSUME SweepInv, TypeOK, NEW th \in Thread, CancelAll(th)
  PROVE  SweepInv'
<1> USE DEF SweepInv, timeVars, recordVars, rawVars
<1>1. /\ UNCHANGED <<state, raw, stamp, overdue, passed, sub>>
      /\ groupCancelled' = TRUE
      /\ \A u \in Task : state[u] \in Live => u \in todo'[th]
  BY DEF CancelAll, TypeOK
<1>2. Swept'
  BY <1>1 DEF Swept, Chased
<1>3. Avenged' /\ Stamped' /\ Dismissed'
  BY <1>1 DEF Avenged, Stamped, Dismissed, Dated
<1> QED
  BY <1>2, <1>3

LEMMA CancelTaskChildStep ==
  ASSUME TypeOK, NEW th \in Thread, NEW t \in Task, CancelTask(th, t)
  PROVE  ChildStep(t)
<1>1. Settling(t)
  BY MarkSettling DEF CancelTask, MarkBy, Terminal
<1>2. Advances
  BY CancelRawAdvances DEF CancelTask, timeVars
<1> QED
  BY <1>1, <1>2, StillChecked DEF CancelTask, ChildStep

LEMMA CloserChildStep ==
  ASSUME TypeOK, NEW c \in Closer, CloserStep(c)
  PROVE  \E t : ChildStep(t)
<1> USE DEF ChildStep, tokenVars, timeVars, recordVars, rawVars, sweepVars
<1>1. ASSUME NEW t \in Task, JoinChild(c, t) PROVE ChildStep(t)
  <2>1. ClosingBy(c) \in Thread
    BY DEF Thread
  <2>2. Settling(t)
    BY <1>1, <2>1, SyncSettling, QuietSettling DEF JoinChild
  <2> QED
    BY <1>1, <2>2, StillAdvances, StillChecked DEF JoinChild
<1>2. CASE /\ UNCHANGED <<state, todo, rawVars, passed, sub, groupCancelled>>
           /\ owes \subseteq owes'
  BY <1>2, QuietSettling, StillAdvances, StillChecked
<1> QED
  BY <1>1, <1>2
  DEF CloserStep, BeginClose, CancelSubmissions, WaitForSubmissions, CloseLanes,
      JudgeConverged, PublishClose, SignalClosed, WaitClosed, ReadCloseFailure

LEMMA NextSweepInv ==
  ASSUME IInv, Unrecorded, SweepInv, [Next]_vars
  PROVE  SweepInv'
<1>0. TypeOK /\ TypeOK' /\ Binding /\ Stamped
  BY NextIInv DEF IInv, SweepInv
<1>1. ASSUME NEW t \in Task, SubmitterStep(t) PROVE SweepInv'
  BY <1>0, <1>1, ReserveKeeps, SubmitChildStep, ChildStepKeeps
<1>2. ASSUME NEW t \in Task,
             \/ WorkerStep(t) \/ CallbackStep(t) \/ DeadlinePasses(t)
             \/ CancelHandle(t) \/ Observe(t) \/ ResultExpires(t) \/ TaskTimerFires(t)
      PROVE  SweepInv'
  BY <1>0, <1>2, WorkerChildStep, CallerChildStep, ChildStepKeeps
<1>3. CASE GroupDeadlinePasses \/ GroupTimerFires \/ CancelGroup \/ UNCHANGED vars
  <2>1. ChildStep(None)
    BY <1>3, QuietSettling, StillAdvances, StillChecked
    DEF GroupDeadlinePasses, GroupTimerFires, CancelGroup, ChildStep, vars, tokenVars,
        timeVars, recordVars, rawVars, sweepVars
  <2> QED
    BY <1>0, <2>1, ChildStepKeeps
<1>4. ASSUME NEW th \in Thread, SweepStep(th) PROVE SweepInv'
  BY <1>0, <1>4, CancelAllKeeps, CancelTaskChildStep, ChildStepKeeps DEF SweepStep
<1>5. ASSUME NEW c \in Closer, CloserStep(c) PROVE SweepInv'
  BY <1>0, <1>5, CloserChildStep, ChildStepKeeps
<1> QED
  BY <1>1, <1>2, <1>3, <1>4, <1>5 DEF Next, TimerStep

LEMMA SweepInvariance == Spec => [](IInv /\ SweepInv)
<1>1. Init => Unrecorded
  BY DEF Init, Unrecorded
<1>2. Init => SweepInv
  BY DEF Init, SweepInv, Swept, Avenged, Stamped, Dismissed
<1>3. IInv /\ Unrecorded /\ [Next]_vars => Unrecorded'
  BY NextRecords, UnrecordedKept
<1>4. IInv /\ Unrecorded /\ SweepInv /\ [Next]_vars => SweepInv'
  BY NextSweepInv
<1> QED
  BY <1>1, <1>2, <1>3, <1>4, Invariance, PTL DEF Spec

\* However a cancellation races with the submissions, each child that is not yet
\* terminal is still being submitted, or some thread will still cancel it: when no
\* thread has anything left to cancel, a child whose submitter has left has ended.
THEOREM CancellationIsComplete == Spec => []CancelReachesEveryChild
<1>1. IInv /\ SweepInv => CancelReachesEveryChild
  BY DEF IInv, TypeOK, SweepInv, Swept, Chased, Unchecked, Idle, CancelReachesEveryChild
<1> QED
  BY <1>1, SweepInvariance, PTL

\* Whichever path fails a child of a FAIL_FAST group, its own deadline, its body, a
\* submission error or the reader of its handle, the group has been cancelled or the
\* thread that saw the failure is about to; so its siblings end with it.
THEOREM FailFastIsComplete == Spec => []FailFastReachesSiblings
<1>1. IInv /\ SweepInv => FailFastReachesSiblings
  BY DEF IInv, TypeOK, SweepInv, Swept, Avenged, Chased, Unchecked, Idle,
         FailFastReachesSiblings
<1> QED
  BY <1>1, SweepInvariance, PTL

\* A value returned after the cancellation of the group, or after the child's own
\* deadline, is stamped as such whenever the stamp is taken, so no reader of the
\* handle ever reports it as a success.
THEOREM LateValuesAreDismissed == Spec => []NoLateSuccess
<1>1. SweepInv => NoLateSuccess
  BY DEF SweepInv, Dismissed, NoLateSuccess
<1> QED
  BY <1>1, SweepInvariance, PTL
============================================================================
