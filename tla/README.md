# A verification project for noetrium_platform

`noetrium_platform` runs research work (experiments, agent workflows, effects on an
environment such as Minecraft) on one Python process with many threads and a few
durable SQLite stores.  This directory holds TLA+ models of its concurrency and
durability core, the TLC runs that check them and the TLAPS proofs about them.
Paths below are relative to `src/`; `kernel/` abbreviates
`noetrium_platform/foundation/kernel/concurrency/`.

## The system: parts, state, interactions

| Part | State it keeps | Operations | Talks to |
| --- | --- | --- | --- |
| Structured task group (`kernel/runtime/task_*.py`) | a lifecycle authority (open scopes, close leader), a record per child (logical state, provider handle, deadline), tokens | submit, cancel, deadline, completion callback, `wait`, `close` | execution authority, timer, providers |
| Unified execution authority (`kernel/runtime/execution.py`) | none of its own: one permit per accepted piece of work | `submit` per lane kind | admission authority, providers, serial lanes |
| Execution admission and fair scheduling (`noetrium_platform/research/execution/admission`, `.../scheduling`) | budgets and counters per lane, group, tenant, resource; a queue of waiters; a cached selection | register, acquire (wait or reject), release, close | called by the execution authority; asks the scheduling policy |
| Serial lanes (`kernel/providers/serial_lane.py`) | mailboxes, one coalescible item per key, ready queues of shared workers | `try_submit`, `try_coalesce`, `try_submit_coalesced`, close of a lane and of the factory | one permit per item |
| Execution providers and timer (`kernel/providers`) | thread, process and asyncio pools; a timer heap | submit, cancel, schedule | call the done callbacks of the task group |
| Heartbeats, actors, recurring children, runtime shutdown (`kernel/runtime`) | a record and a timer registration per recurring child; phases of the shutdown | schedule, tick, cancel, expire, close | timer, serial lane, admission, task group |
| Journaled effects (`noetrium_platform/infrastructure/reliability/effect`) | durable intents: PREPARED, RESULT_RECORDED, RECONCILED, CONSUMED | prepare, record, reconcile, consume (compare and set) | used by the action workflow |
| Context-action workflow (`noetrium_platform/research/execution/workflow`) | progress of a decision cycle | authorize, act, reconcile, complete, consume, recover | effect journal, environment, method |
| Environment effects (`noetrium_platform/capabilities/environment`) | the action ledger; the bridge's durable action records; checkpoints; a branch's world directory, its backup and the restore journal | act, reconcile, capture, restore, recover | the external world and its server |
| Operation and command execution (`.../execution/operation`, `.../command`) | durable intents and attempts | begin, complete, recover | SQLite |
| Runtime manager, lifecycle, participants, decisions | sequential registries and phases | start, stop, decide | the authorities above |
| Run control and checkpoints (`.../experimentation/run`, `.../checkpoint`) | a directory ledger of control commands, checkpoint manifests | pause, resume, cancel, restore | trial cycle |
| Studies, workloads, workbench | immutable plans | construct, validate, iterate | run control |
| Resource leases and allocation (`noetrium_platform/infrastructure/resources`) | leases with expiry, reserved endpoints | acquire, renew, release, allocate | composition |
| Process, server, session lifecycle (`noetrium_platform/infrastructure/lifecycle`) | per service: a supervisor state document, a start intent per attempt, a pointer to the active one; operating-system processes; crash handoffs | start, recover, stop, commit an exit, probe | operating system |
| Failure, forensics, recovery; evidence stores; models and participants; governance; composition and product | append-only evidence, revision rows, contracts, wiring | record, validate, build | files, SQLite |

The chain that carries every piece of work is: a **task group** opens a scope and asks
the **execution authority** to submit; that takes a permit from **admission** (which
may queue the request and grants in the order the **fair-priority policy** selects);
a provider or a **serial lane** runs the work; its handle calls back twice, once to
return the permit and once to settle the child.  Deadlines and cancellations come from
the timer thread and from callers at any point of this chain, and `close` joins it
all.  On top of it, a **workflow** turns a decision into an external action whose
**effect intent** is journaled before and after, so that a crash can be recovered.

### What is hard, and what makes each part correct

`PROJECT.json` lists the hazards at their lines.  In short:

* *Task group.*  A child has two lives: its logical outcome and its provider handle.
  Submission, completion callback, two deadlines, individual and group cancellation,
  FAIL_FAST and `close` race to settle it.  Correct means: the first outcome is final,
  a late or interrupted value is no success, cancellation and failure reach
  every child however they race with submission, `close` says "converged" only if
  nothing of the group still runs.
* *Admission.*  Waiters poll; a selection is cached between two polls; grants,
  timeouts, cancellations, releases and close meet.  Correct means: budgets hold on
  every level, counters equal permits out, a cached selection is still admissible when
  used, nobody barges, nobody starves.
* *Serial lanes.*  An item is enqueued in one critical section and its lane scheduled
  in another; watchers merge into a queued item; permits come back through callbacks.
  Correct means: one token per scheduled lane, no stale call, each permit
  given back exactly once, accepted work settles.
* *Effects.*  The process may die between authorize, act, record, complete and
  consume.  Correct means: an effect happens at most once, the journal settles it by a
  report of the bridge and by nothing else, an unresolved effect blocks its scope until
  reconciled.
* *World restore.*  A restore renames the world away, copies another one in and starts a
  server on it; any call may raise and the process may die, while the server, a process
  of its own, lives on.  Correct means: the branch's world is never lost, no session
  runs on another one, a restore that was begun is undone or finished when the branch is
  opened where it was begun.
* *Recurring children (heartbeats).*  A tick reads the record, waits for a permit on the
  timer's one thread and stores the run it started in a later critical section; cancel,
  deadline, failure and close come between.  Correct means: runs never pile
  up, a converged close leaves nothing that ticks, a child that has to stop does.
* *Service start.*  A spawn and the two documents that record it cannot be written at
  once, and exits are reported again after a crash.  Correct means: never two children,
  no child that no document knows, and an index that does not hide an unresolved start.
* *Operations, run control, resource leases, the runtime's shutdown*: see "Plan".

## Modules and how they correspond to the code

A step of every model is what one thread does between two points where another thread
can run: one critical section, or a call nobody else can observe half done.  Every
`.tla` file starts with what it abstracts; `PROJECT.json` maps each definition to its lines.

| Module | Code | Composes |
| --- | --- | --- |
| `TaskGroup` | `kernel/runtime/task_group.py`, `task_state.py`, `task_lifecycle.py` | lifecycle authority + state authority + provider handles + timer |
| `Admission` | `.../admission/authority.py`, `.../scheduling/runtime/fair_priority.py` | authority + fair-priority policy |
| `SerialLane` | `kernel/providers/serial_lane.py`, serial part of `kernel/runtime/execution.py` | lanes + factory + permits |
| `ActionCycle` | `research/.../implementations/context_action/*`, `research/.../workflow/runtime/effect_intents.py`, `infrastructure/reliability/effect/*`, `capabilities/environment/minecraft/runtime/*`, `.../mineflayer_bridge/action_recovery.js`, `bridge.js` and its handlers, `research/experimentation/run/*` | run session + workflow + effect journal + action ledger + bridge + checkpoints |
| `EffectLog` | - | what the effect journal promises, abstractly; `ActionCycle` implements it |
| `SerialExecutor` | - | what a serial lane promises to its submitters, abstractly; `SerialLane` implements it |
| `WorldRestore` | `capabilities/environment/minecraft/providers/branch_checkpoint.py`, `branch_restore_journal.py`, `world_copy.py`, `.../composition/branch_runtime.py`, `server_service.py`, `infrastructure/resources/allocation/runtime/endpoint_allocator.py` | branch runtime + restore journal + directories + server + allocation of its port |
| `Recurring` | the recurring half of `kernel/runtime/task_group.py` and `task_state.py`, `kernel/providers/timer.py`, with `execution.py` and `serial_lane.py` as the runs use them | recurring records + timer thread + serial lane + permits + close |
| `ServiceStart` | `infrastructure/lifecycle/service/runtime/*` | controller + state document + start intents + active pointer + processes + crash handoff |
| `TaskGroupProofs`, `AdmissionProofs`, `SerialLaneProofs`, `ActionCycleProofs`, `WorldRestoreProofs`, `RecurringProofs`, `ServiceStartProofs` | - | theorems of the module they extend |
| `ActionCycleRefinement` | - | `ActionCycle` implements `EffectLog` |
| `MC*` | - | the instances for TLC whose constants are functions |

**TaskGroup.** `active, closing, closed, converged, closeEvent, closeFailed` are the
fields of `_TaskGroupLifecycleAuthority`; `state`, `bound`, `handle` those of a
`_TaskRecord`; `raw`, `stamp`, `hook` the provider's handle with its completion stamp
and its callback.  `sub` and `close` are the program counters of the threads that
submit and close, `todo`/`owes` the children a cancelling thread has yet to visit
outside the lock.  Time is reduced to what the code compares: whether a deadline has
passed and whether a cancellation came first; a stamp holds both.  The submitter's
path (`EnterScope` to `LeaveScope`) follows `submit`, the worker's `Start`, `End`,
`Report`, the timer's and the caller's actions follow `_expire*` and `cancel*`, the
closer's `BeginClose` to `Publish` follow `close`.

**Admission.** `groups`, `tenants`, `resources`, `lanes` are the dicts of counters (an
absent key is 0), `waiters` the queue by ticket, `cache` the selection kept per queue
version and time bucket, `lastGrant` the group grant sequence.  `pc` of a request says
whether its thread is idle, waiting, holds a permit, and how it left.  Waiting time is
counted in aging periods.

**SerialLane.** `items`, `scheduled`, `sealed` belong to a lane, `ready` to a shared
worker; `sub` of a submission separates `_enqueue` from `_schedule` because the code
does.  A permit is the execution authority's, and is given back by the callback of the
item's future.

**ActionCycle.** Durable state: `journal` holds the effect intents
(`PersistentEffectIntentJournal`), by the cycle that decided the action and the
checkpoint its session stands on, which together make the intent's identity;
`committed` the receipts of the method; `bridge` the file that
`ActionRecoveryJournal` (action_recovery.js) keeps per action; `checkpoints` the
snapshots of the action ledger.  Volatile state of the bridge's process: `handler`
(an action that is pending, has acted and has yet to report, or whose report came
first and that may act late) and `orphans` (handlers whose python process died).
Volatile state of the session: `pc`, `cycle`, `anchor`, `ledger` (`action_ledger.py`),
`result`.  `performed` is a history variable, what happened in the world.

The path of a cycle is `Preflight` (`ActionSlotGuard`), for an open intent
`NotCommitted` or `RecoverCommitted`, then `Prepare` (authorization), `Dispatch` and
`Receive` (`MinecraftActionCoordinator.act`), `RecordResult`, `Resolve` or, for an
intent of an earlier session, `ReconcileExisting`, then `Complete`
(`method.task_completed`), `Consume` (`confirm_trial_commit`) and `Checkpoint`.  `Raise` is
an exception that leaves `RunSession.execute`; `Fail` one that a store or a
participant throws before it changed anything; `Crash` the death of the python
process at any point; `Perform`, `Finish`, `GiveUp`, `Die` are the bridge's.

The bridge's record of an action is a *report*, not the truth: `Finish` lets a handler say
applied or rejected whether or not the action has taken effect, and lets the effect come
after the report.  The handlers do that.  `craftItem` calls `bot.craft` and reports
`CRAFT_EFFECT_NOT_OBSERVED` when the inventory has not changed 250 ms later
(resources.js:244-251), or has placed a crafting table and then finds no recipe (229-239);
a placed block whose confirmation throws is `NO_VALID_PLACEMENT_FACE` (399-407), a shot or a
meal that shows no sign is rejected (combat.js:221-222, inventory.js:39-41).
So NO_EFFECT and NOT_APPLIED in the journal mean "its handler saw no effect", although
`infrastructure/reliability/effect/EFFECT_JOURNAL_INVARIANTS.md` and default_catalog.py:94 call
that authoritative: an effect that its own handler reported as rejected is lost to the
journal, and the properties say so (`EffectIsCovered` names this one exception).  What the
workflow and the journal do promise is that nothing but a report of this very request, made
from this checkpoint, settles an effect, and that no second report contradicts it.

What it assumes or leaves out: one session of a run at a time, as the run controller opens them;
a restore that sets the world back does not undo `performed`, and receipts of the
method survive a restore (they belong to an external authority); the client's cache of
proofs repeats the durable answer of its session and is left out; a run without a
checkpoint coordinator (cycle.py:96-99 makes it optional), whose sessions stay on the
anchor they were opened with.

**EffectLog.** For each action, how often it took effect, what its observer reported, and
what is said of it: nothing, open, confirmed or refuted.  `Begin` needs that no action is open,
`Happen` that this one was begun and has not happened, `Tell` that it is open and has no
report, `Settle` that it has one, which it repeats.  `Happen` may come after a report that
denies it.  The mapping (`Log` in `ActionCycle`) takes `times` from the world's history,
`report` from the bridge's record and the verdict from the intents of a cycle over all
checkpoints; sessions, receipts and retries stutter.

**SerialExecutor.** Per lane, what waits and what is served; per accepted call, who gets its
outcome and of which call; per submission, its handle.  It is the class comment of
`SharedSerialExecutionLane` (one FIFO lane, at most one item executing) with coalescing and
close.  The mapping (`Executor` in `SerialLane`) takes the queue from the mailbox and what
is served from the worker that has an item of the lane in hand; tokens, ready queues,
permits, retries of a full mailbox and the closing of the factory stutter.

**WorldRestore.** `host` is what outlives the process: the working directory, the
backup beside it, the journal's phase (`prepared`, `backup_published`, `committed`) and
the server with the directory it runs in (a rename takes it along, a deletion leaves
it nowhere) and the port it listens on.  A directory holds a world, nothing, or a part of
one.  `at` and `by` are the
place in `restore`, `capture` or the recovery and who called it; `Call` gives every
call three outcomes: done, raised before its effect, raised after it.  `Load` to
`Discard` are the recovery, `Read` to `StartBridge` the restore, `Open` and `Close` the
runtime's life, `Expire` and `EndServer` what may happen while nobody runs the
branch, `Play` what happens in the world.  `owed` is a history variable: the world
the branch must not lose.

An opening needs the allocation of a port, and the server's contract, with which the
restore journal and the captured cuts are marked, covers that port.  `leased` holds the ports with
a live allocation: a request whose allocation is live gets its port again, one whose
allocation was released - by a failed opening, a failed `open_session` or a close - is
refused for ever (endpoint_allocator.py:116-122), so that the branch needs a fresh request,
which may be given another port.  `Open(p)` is an opening that was given `p`; one
that was given none changes nothing.  On another port `Load` refuses a pending restore
("server mismatch", branch_restore_journal.py:149-152), `Read` refuses a cut, and the service
of that port neither adopts nor stops a server of the old one.  Such a server holds the
world's `session.lock`, so that a second one cannot start on it (`Held`; this is
Minecraft's doing and the only assumption about it).  Hence a pending restore stays
pending, over any number of openings, until one of them gets the port it was begun
on: a fresh request can ask for it (`candidate_ports`), but nothing in the code does.
`PendingIsRecovered` has that as its premise (`OpenedWhereBegun`).

Left out: a server of a running branch that exits by itself; the allocation of the RCON port;
the health of a running branch's leases; a power
loss (the copy is not synchronised before the commit is); two processes on one branch.
Two things the code does are inside the model and worth knowing: a recovery whose
filesystem part failed still starts the server on whatever directory is there
(branch_checkpoint.py:153; only `WorldSurvives` and `SessionOnOwedWorld` hold then, the
runtime is faulted); and a `clear` that unlinks the journal but fails to synchronise its
directory makes the restore report the previous world although the new one is
committed (branch_checkpoint.py:243-254).

**Recurring.** `record` is a `_RecurringRecord` with its registrations: `dropped`
(cancelled), `held` (a current execution), `timer`, `bound` (the record has the timer's
handle), `alarm` (the deadline's timer).  `call` is the thread that schedules the child
(`Enter` to `LastLook`), `tick` the tick the timer thread is in (`Fire`, `Look`,
`Acquire`, `Submit`, `Watch`, `Adopt`), `mailbox` and `run` the lane and its worker, which
reports through `on_done` (`Report`), also when the tick has not stored its handle yet.
`owes`/`todo` are cancellations still to be worked off, `closer` the leader of `close`.
`others` and `jammed` stand for the rest of the process: permits held by other groups and
another group's tick that holds the timer thread.  Left out: the calls on handles
after a critical section belong to it; registration and bind of the deadline's timer are
one step; the wait of a single child's `wait()`; the group's own deadline (`TaskGroup`
has it).  A tick finds a sealed lane when it looks, slightly before the code's `submit` would
refuse it.  A run's failure that arrives before `on_done` is delivered may be overtaken by
`cancel_recurring` and is dropped, as in the code.

**ServiceStart.** `state` is the supervisor's document, `intent` the start-intent document
per attempt, `pointer` the file that names the active one, `live` and `origin` the
operating system's children.  `pc` and `hand` are the controller: `StartExact`, `Lookup`
(with the repair of the pointer), then a new start (`Verify` to `RecordProcess`), the
adoption of the persisted process (`Existing`) or a recovery (`RecoverPrepared`,
`RecoverProcess`, `Check`), then `WaitReady` to `Clear`; `StopProcess` to `Exited` is
`stop_exact`; `ReportExit` and `CommitExit` are the crash handoff, which is replayed.
`Interrupt` is an exception or the controller's death between any two writes, after which
everything is tried again; `ChildExits` may happen at any time.  `Durable` says whether the
backend can find the child of a prepared start again: the only backend in the
repository cannot, the durable one is the interface that the tests implement.
Left out: two controllers of one contract (nothing here excludes them); reuse of a
process id (an identity check that fails raises, hence `Interrupt`); the phases DRAINING and
FAILED, which are never written; readiness probes; the store's cache of empty scopes
(start_intent_store.py:99-100), keyed by the directory's time of change, which could hide an intent
only from a reader within the same tick of the file system's clock.  Two ways the code can get
stuck stay inside the model: stopping a service that is waiting to be ready leaves its intent
unresolved, and every later start is refused (start_recovery_flow.py:76-80);
RECOVERY_REQUIRED has no exit.  And `stop_exact` does not look at the intents: after a
recovery that spawned and crashed, a stop reports EXITED while that child runs;
`ChildIsKnown` holds because its intent still names it.
## The runs, their bounds and what they show

| Run | Instance | Shows |
| --- | --- | --- |
| `task_group_children` | 2 children: a thread child with its own deadline and a process child in failure scope CALLER; group deadline, FAIL_FAST; no closer | outcomes are final and never late; every cancellation and failure reaches every child in whatever phase of submission |
| `task_group_close` | 1 process child, 2 closers, 2 calls each, one with `cancel_pending` | "converged" means that nothing runs, and stays so whoever closes again |
| `task_group_live` | 1 coroutine child, 1 closer, 2 calls, fairness | cancelled children settle, ended providers settle their record, the group deadline ends the group |
| `task_group_close_waiter` | as `task_group_close`, no deadline | **violated**: see "Findings" |
| `admission` | 4 requests in 3 groups (one rejecting, one of CRITICAL rank, one LOW), 2 tenants, 1 resource, 2 lanes, total 2 and 1 at each level below | budgets on all levels, exact accounting, the cached selection is admissible when used (the violation branch of `_poll` is no state of `TypeOK`), nobody overtakes the selected waiter, nobody starves |
| `serial_lane` | 4 submissions on 2 lanes of 1 shared worker: 2 coalescing on one key, 2 plain; mailbox of 1, 2 permits, 2 closes per lane | one token per scheduled lane, the newest call runs, permits match work, a closed lane stays empty, accepted work settles |
| `serial_lane_retry` | as `serial_lane`, no fairness | **violated**: see "Findings" |
| `action_cycle` | 2 cycles, 3 checkpoints (2 cycles can produce only 2, so the bound never binds), any number of sessions, restores, crashes, failures | at most one effect per action, the journal says what was reported and covers every effect not reported as rejected, the whole implements `EffectLog` (one uncertain action at a time, verdicts reported and final), recovery settles what the bridge has decided |
| `world_restore` | 4 worlds, 2 ports, 3 faults (failed calls and crashes together), any number of sessions, captures and openings on either port | the branch's world survives in the working directory or the backup; a session runs on it with its own server; a pending restore is undone or finished if the branch is opened where it was begun |
| `recurring` | 1 child with a deadline, FAIL_FAST, mailbox of 1, 2 permits shared with other groups, 1 close, jams of the timer thread | at most one run queued or running; a converged close is quiet; a child that has to stop falls silent |
| `service_start` | 3 attempts, 4 children, a durable backend (its behaviours include those of the other), any number of starts, stops, exits, interruptions | never two children, none forgotten, the index finds exactly the unresolved start |
| `action_cycle_not_applied` | 1 cycle, no fairness, a method that cannot reconcile | **violated**: see "Findings" |

Why the bounds are enough to be interesting: every race named in the hazards is between
two threads about one child, one slot or one lane, and a third party (timer or
closer).  Two children are needed for FAIL_FAST and sweeps, two closers for leader and
waiter, two calls for a close that failed and is tried again; three groups
let one be selected, one wait and one starve; two cycles make one intent block the other, two
ports make an opening the wrong one; a capacity of 1 makes full and empty
mailboxes neighbours, two permits make one block another.

## Fairness

* `TaskGroup`: the threads inside an operation go on (they hold no lock between
  steps), the timer fires, provider callbacks are delivered, a requested
  cancellation of a coroutine ends it.  Not assumed: that a caller submits or
  closes, that a body ends, that a submission blocked on capacity returns, unless it has
  been cancelled (its wait polls the token every 50 ms).
* `Admission`: waiters poll (`Condition.wait(0.05)`), time passes, and a lease
  whose request ended is released.  Not assumed: that a waiter is chosen.
* `SerialLane`: threads run and calls end.  Not assumed: that anybody submits or closes.
* `ActionCycle` (`RecoverySpec`): a working cycle goes on and a session is closed; an
  operator who finds an open intent keeps restoring the checkpoint it stands on
  and running its cycle again (`SF`, as other sessions may come between), which is what
  the preflight's error asks for.  `DecidedSettles` has the end of crashes and
  failing calls as its antecedent (from some point on every step is `Orderly`; an
  orderly step may still raise, which is how a stuck intent would show).  Not
  assumed: that the bridge performs, finishes or survives.
* `WorldRestore`: a recovery that was asked for goes on.  Nothing more: that the branch is opened
  again, and on the port where the restore was begun, is the premise of
  `PendingIsRecovered`, since neither the allocator nor the factory sees to it.  Faults are
  bounded, so that in the end a recovery gets through.
* `Recurring`: threads inside a call, a tick, a cancellation or a close go on, a run's function
  ends, permits that others hold come back (`OthersRelease`).  The deadline's alarm and the end of a
  jam are strongly fair: the heap serves what is due in order of its time, so a tick that
  fires again and again cannot pass an alarm that is due, and admission lets no waiter
  starve (`NoStarvation`).  The
  timer thread waits for a permit inside a tick, so all of this rests on holders that end on
  their own; a holder that only a deadline could stop would wait for the thread
  it blocks.  Not assumed: that anybody schedules, cancels or closes.
* `ServiceStart` states no fairness: its properties are about safety.

## What is proved

All theorems hold for every value of the constants; they rest on the `ASSUME` of the
module and on nothing else (`ConstantsAssumption`: sets of children are finite
and disjoint from the null value; `BudgetAssumption`: the limits are the ones the
constructor accepts; `CycleAssumption`, `NoneAssumption`, `ContentAssumption`,
`PortAssumption`, `FaultAssumption`, `ServiceAssumption`, `RecurringAssumption`: bounds are numbers and null
values are not values; `LaneAssumption`: each submission has a lane, each lane a worker, and the
lanes were created in some order).  A bound on checkpoints, faults or attempts is a constant like the others, so
the theorems hold for every bound.

* `TaskGroupProofs`.  `TypeCorrect`.  `ConvergenceIsPhysical` ([]`ConvergedIsJoined`)
  and `ConvergenceIsFinal` (`ConvergedStays`).  `ConvergedIsJoined` is not inductive: the
  leader publishes what it computed several steps before, while submitters and
  workers go on.  The invariant `IInv` adds *Accounting* (`active` is the number of
  submitters in scope, so a sealed scope that reached 0 never opens again),
  *Binding* (a provider handle that is not yet bound belongs to a submitter in scope),
  and *Leadership* (one leader; what it has collected in `attempt` is still true).  With
  them the step that publishes is safe, and every other step preserves
  it because a drained and sealed scope admits no new child.
  `OutcomeIsFinal` (`TerminalIsFinal`) needs *Unrecorded*: a child that is not yet
  reserved has no outcome to lose.
  `CancellationIsComplete` (`CancelReachesEveryChild`), `FailFastIsComplete`
  (`FailFastReachesSiblings`) and `LateValuesAreDismissed` (`NoLateSuccess`) speak of threads that
  are done; `SweepInv` says what holds while they are not.  *Swept*: a live child of a
  cancelled group is *chased* - its submitter has yet to look at the token, or a thread owes
  the sweep or has the child on its list.  *Avenged*: a failed child that is not isolated has
  cancelled the group, or a thread still has that to do.  *Stamped* and *Dismissed*: whoever puts the time stamp on
  a value that came too late, now or later, sees that it did.  A new live
  child, the emptying of a list and a submitter's last look are the steps where these could break.
* `AdmissionProofs`.  `AccountingIsExact` ([]`CountersMatchLeases`) and `BudgetIsKept`
  ([]`WithinBudget`).  The first is inductive together with the types, by lemmas that
  count the requests that hold a permit of one level before and after a grant; the
  second follows since a grant is guarded by `CanAdmit` at its own step, also when the
  selection was cached.
  `NoViolation` ([]`TypeOK`) and `PermitsGoInTurn` (`NoBarging`) are about the queue and the cache,
  with the invariant `QueueInv`: *Queued* (exactly the waiting requests are queued, once each and
  in the order of their tickets, no rejecting group among them) and *Cached* (a cache that is
  not stale is what the policy would select now, or nobody if it would select nobody).
  Every step that changes what the policy looks at invalidates the cache or leaves
  the selected waiter first among the admissible ones; `LeastValue` and `FirstInOrder` show that
  the policy's minimum exists and is first of its group and lane, for any ranks, ages and budgets.
* `SerialLaneProofs`.  `TypesAndBounds`, `OneTokenPerLane`, `PermitsCoverWork`,
  `DrainedStaysDrained`, `NoOutcomeIsStale`: every safety property of `SerialLane`.  The invariant
  has three parts.  *TokenInv* follows the token of a lane: it is in a ready queue, with the worker or
  with the submitter, in one place (*Single*), with the worker the lane belongs to (*Homes*),
  and it is there exactly while the lane is scheduled (*Scheduling*).  *WorkInv* follows the
  items: what a mailbox holds (*Queues*) and a worker has in hand (*Hands*), and that an item that
  has not ended is in one of the two (*Alive*), so that a handle that has not settled still has
  a call that will settle it.  *PermitInv* says who holds a permit, as an equivalence: that none is
  lost and none returned twice are its two directions.  `OneToken` is not inductive without the
  homes, `PermitsMatchWork` not without the items, and `DrainedIsFinal` follows since a sealed
  lane that is empty has no token, hence no worker, and accepts nothing.  For `NoStaleCall`
  *Orders* says, relative to the history of accepted updates, that an item's call is not older
  than any of its watchers.
  `LanesImplementSerialExecutor` is the refinement: `Spec => Executor!Spec`.  It needs three facts
  more (*ServeInv*): nobody watches two items (so a call that begins has no running handle
  yet), the update a mailbox holds is the one that can be joined (so one waits at a time),
  and a call that runs has a watcher that is told so.  Then `Enqueue` is `Accept`, a merge is
  `Join`, the worker's three steps are `Take`, `Start` and `End`, a close is `Seal` or `Drop`, and
  every other step stutters.  It is proved, and not checked by a run of its own.
* `ActionCycleProofs`.  `TypeCorrect` and every safety property of `ActionCycle`:
  `EffectHappensOnce` (`AtMostOnce`), `JournalSaysWhatWasReported` (`JournalIsProven`),
  `JournalCoversEffects` (`EffectIsCovered`), `OneUncertainEffect` (`OneUnresolved`),
  `EffectConsumedOnce` (`ConsumedOnce`), `SettledStaysSettled` (`SettledIsFinal`), from
  `CycleAssumption` and `NoneAssumption` (the null value is none of the records).  None of the
  properties is inductive alone; one invariant `IInv` links the three records of an
  action: *BridgeIsOrderly* (no handler without a record, no report after a
  report, no second effect), *RecordHasIntent* (a record of the bridge has the intent it was begun
  for),
  `JournalIsProven` itself, *LedgersAreTrue* (a rejection in a ledger or in a snapshot of one is
  the bridge's),
  *PhaseFitsEffect*, and *Position* (what the session may rely on at each point of
  the cycle).  Two lemmas carry the argument: `BridgeMove` (a decided record never
  changes, so the journal stays proven while the bridge goes on) and `WriteIntent` (a
  write of the session's own intent keeps `IInv` if its effect is proven).
  `SettledIsFinal` and `OneUnresolved` are proved here and, being implied by the refinement,
  not run on their own.
* `ActionCycleRefinement`.  `WorkflowImplementsEffectLog`: `Spec => Log!Spec`.  From `IInv` of
  `ActionCycleProofs`, `VerdictIsReported` says what the mapped verdict of a cycle is (open as long as
  none of its intents is resolved, otherwise what the bridge reported).  Then
  each step that writes the journal is `Begin`, `Settle` or a stutter, `Perform` is `Happen`,
  `Finish` is `Tell`, and every other step leaves the mapped variables alone.
* `WorldRestoreProofs`.  `TypeCorrect`, `BranchWorldSurvives`, `SessionsRunOnIt`.  The
  invariant adds *Places* (what the two directories hold in each phase of the journal),
  *Control* (what the process may rely on where it is, above all where the server runs),
  *Callers* (which call can be running a recovery in which phase) and *Ports* (the server of a
  pending restore is the one it was begun with, and what a recovery stops is the server that
  runs).  `WorldSurvives` alone is not
  inductive: putting the backup back is safe only because the working directory then does not
  hold the owed world, and a commit only because it does hold the copy.
* `RecurringProofs`.  `BudgetIsKept` ([]`TypeOK`, which holds the budget), `NoOverlap`
  ([]`NoBacklog`), `QuietAfterClose` ([]`ConvergedIsQuiet`): every safety property of `Recurring`.
  None is inductive: a tick looks at the record, waits for its permit, hands the run over and
  adopts it in four steps.  *Single* and *Tracked* close the gap: a child with a run in the lane is
  held by its record or is in the hands of the tick that submitted it, so a tick that gets past its
  look finds none, and revoking the record's run cannot miss one.  *WithinBudget* counts
  the runs in the mailbox by their children (`LiveCount`: under *Single* there are as many live
  items as children with one), so that each step moves, takes or returns one permit.
  *Reachable* (what is in the timer can be cancelled through the record, or a scheduling call is
  about to bind it) makes the sweep of `close()` sound: once its scope was empty, *Swept* says
  that each child is done with or still on its list.  *Closed* carries what earlier
  phases of the close found to its verdict.  Most steps only wind a record down
  (`WindsDown`); `AsideKeeps` handles all of those at once.
* `ServiceStartProofs`.  `TypeCorrect`, `OneChild`, `NoChildForgotten`, `IndexNeverHides`.
  The invariant has *Safe* (the first two), *Books* (`Index`: one unresolved intent at most and the
  pointer names it or nothing; `PreparedOwnsLive`: while a start is only prepared, what
  runs is its child; `Ordered`; `Fresh`) and *Control* (`Before` and `After` the spawn).
  `AtMostOneChild` is not inductive: that nothing runs when a start spawns follows from
  what the books said several steps earlier, when the index was found empty and the persisted
  process dead.

Every invariant and every action property that a run checks is also proved.  Only
model-checked: the properties under fairness (`CancelSettles`, `EndedSettles`,
`GroupDeadlineEnforced`, `NoStarvation`, `AcceptedSettles`, `DecidedSettles`, `PendingIsRecovered`,
`EndedFallsSilent`), which need ENABLED and are out of the prover's reach, and the three
violations of the section below, which are counterexamples.

## Findings

1. *A close waiter may report a convergence that did not happen*
   (`task_group_close_waiter`, `CleanCloseIsJoined`).  `wait_for_existing_close` waits for
   an event and then reads `_close_failure` in a second critical section.  When the
   leader fails and a third call becomes leader in between, it finds the failure reset
   and returns cleanly, with children still running.  `ConvergedIsJoined`
   holds, so the group's own state is right and only the waiter's report is wrong.
2. *A factory close that timed out cannot always be retried*
   (`serial_lane_retry`, `RetryCanConverge`).  `SharedSerialExecutionLaneFactory.close`
   marks the factory closed although a lane did not drain; a thread between `_enqueue`
   and `_schedule` is then refused, the lane stays scheduled without a token, and
   each later close waits for it in vain.
3. *A rejected action leaves an intent that nothing can settle, and its task is completed*
   (`action_cycle_not_applied`, `NotAppliedIsNotCompleted`).  `act` answers
   `EFFECT_REJECTED` with verification required, the session reconciles it to `NO_EFFECT`,
   and the executor returns the result to the workflow, which completes the task; then
   `record_consumed` refuses the effect, and each recovery of the intent
   raises.  default_catalog.py says that method completion is blocked.
   `DecidedSettles` excludes these intents.

Not a run, but met while modelling: a recurring function that raises `TaskCancelled` of its own makes
its record CANCELLED while its timer ticks on, and deadline and later failures are then
ignored (task_state.py:154), where
`noetrium_platform/infrastructure/resources/RESOURCE_LEASE_INVARIANTS.md`:10 says that heartbeat failure
is fail-closed and must surface.  `EndedFallsSilent` names that child as an exception.

## What is not modelled, and why

* The runtime's shutdown: its leader and waiter repeat the task group's (runtime.py:222
  reads the failure after the event, as finding 1), over phases that are planned below.
* The actors' handler loop; the heap of the timer and the asyncio loop: `TaskGroup` has a
  timer that may fire when a deadline passed, `Recurring` its one thread and the order in
  which it serves what is due.
* Resource leases (`infrastructure/resources`), but for the live, released or expired allocation
  that an opening of `WorldRestore` meets: every step is one SQLite transaction that
  checks and writes, so what could go wrong sits in its callers.  Planned, with
  two openers of the same branch.
* Two controllers of one service, two sessions of one run, two processes on one branch: the
  code leaves that exclusion to its callers.  `PROJECT.json` lists the lines.
* Submission from inside a running child (nested use of one budget).
* The pools of threads, processes and the asyncio loop: standard library; modelled as
  handles that are queued, run, end or are cancelled.
* Operating-system processes, server setup, installers, network clients, formatting,
  evidence layout, model providers: I/O without concurrent state of its own.
* Studies, workloads, workbench, governance contracts: pure construction and validation.

## Plan

In order of importance; a run per line.

1. Execution intents: operations and commands as durable intents with attempts,
   UNKNOWN_EFFECT, retries and recovery; each command takes effect at most once.
2. The runtime's shutdown over its phases (groups, timer, providers), with the waiter of finding 1.
3. Run control (the command ledger on disk, pause, resume, cancel), and two writers of one scope.
4. Resource leases: one active lease per resource, monotone fencing tokens, a released
   allocation stays released; composed with two openers of one branch.
5. An abstract permit pool that `Admission` implements; the shutdown of item 2 over `SerialExecutor`
   and `TaskGroup`.
