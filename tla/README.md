# A TLA+ model of the durable workflow engine

The engine (`engine/`) runs workflows whose only state is an event history in
PostgreSQL. A worker leases a *workflow task*, replays the workflow's code
against the history, and commits what the code asked for next: activities,
timers, markers, children. Everything that happens afterwards is an event that
enqueues another workflow task. Around this core, schedules start executions,
pauses freeze them, and worker processes of several releases come and go. This
directory models all of that, checks it with TLC, and proves much of it with
TLAPS.

## Inventory

| Part | State it keeps | Operations | Talks to |
| --- | --- | --- | --- |
| Execution life cycle (`persistence/transitions.py`) | `workflow_executions`: status, `paused_at`, `cancellation_requested_at`, `next_seq`, parent link | start, retry, pause, resume, request cancellation, terminate | every other part appends to its history under its row lock |
| History (`runtime/history.py`, table `history_events`) | numbered events | append; `HistoryIndex` validates on load | replay |
| Task queue (`persistence/leasing.py`, table `tasks`) | rows pending, leased, completed, dead; lease token; deadlines | lease, heartbeat, reclaim, release | workers poll it; transitions insert into it and kill its rows |
| Replay (`runtime/replay.py`, `sdk/context.py`) | command counter, consumed signals | every call of `WorkflowContext` | reads a history, returns commands |
| Commit (`commit_workflow_replay`) | none of its own | record commands, close, continue as new | history, queue, children, parent |
| Activities (`transitions.py`, `timeouts.py`) | attempts as task rows | complete, fail, time out, retry | wake replay |
| Timers (`timers.py`) | task rows of kind timer | fire; canceled on closing | wake replay |
| Signals, updates (`signals.py`, `updates.py`) | events; `workflow_updates` rows | send (deduplicated); resolve; reject on closing | wake replay |
| Children, continuations | parent link, close policy | start, notify the parent, terminate descendants, continue | other executions |
| Workers (`workers/`) | what a step holds in memory; a task group | one loop per role, a heartbeat loop, a stop event | the queue, `worker_heartbeats` |
| Schedules (`schedules.py`, `runtime/cron.py`) | schedules and occurrences | create, pause, resume, materialise, backfill | start executions; look for open ones |
| Migrations (`persistence/migrations.py`) | `schema_migrations`, an advisory lock | apply | every process that starts |
| Definitions (`runtime/definitions.py`, `workflow_definitions`) | immutable versions | register, look up, `replay_check` | replay, release of tasks |
| API, client, CLI, console, metrics, audit | - | I/O around the above | - |

What is hard: every process, client and poller interleaves on shared rows; the
pollers read the execution *without* a lock and act later; a replay result is
committed to a history that has grown since; leases expire under busy workers;
processes die anywhere; closing one execution reaches its descendants, its
parent, its timers, its updates and its tasks at once; a schedule is
materialised by several statements of several workers; a pause begins while
pollers hold rows; processes of different releases start on one database.
`PROJECT.json` lists these hazards with the properties that cover them.

What makes each part correct: histories stay loadable, agree with the status
column and replay; nothing of a closed execution moves again; each activity has
exactly one open attempt until it is decided and at most `max_attempts`; a timer
is never lost; a task has one owner; children do not outlive a parent that asked
for it, and a running parent hears of every closed child; what is committed is
what the history calls for; executions, canceled or not, eventually close; a
scheduled minute is never lost and never run twice; a pause shortens a sleep or
a timeout by no more than its resumption had to wait for locks; migrations are
applied once and in order, and a version has one code.

## Modules

| Module | Models |
| --- | --- |
| **History** | event types and what `HistoryIndex` demands of a history |
| **Engine** | the tables as variables and one action per transition; workflow code is a constant operator `Replay(w, h)`, so that the module, and the proofs about it, hold for any code |
| **Lifecycle** | the abstract specification: executions as their clients see them, without histories, tasks, leases or replay |
| **WorkflowCode** | `WorkflowContext` and `replay_workflow` for programs given as sequences of calls; the code of the scenarios |
| **PauseClock** | the task rows of one execution on a numeric clock: visibility, deadlines, pause and resume |
| **Cron**, **Schedules** | cron expressions on an abstract calendar; schedules, occurrences and maintenance loops |
| **Deployment** | worker processes: migrations, registration, task group, heartbeat, stop, crash |
| **MCEngine**, **MCPauseClock**, **MCSchedules**, **MCDeployment** | instances for TLC; one `.cfg` per run |
| **EngineProofs**, **LifecycleProofs**, **HistoryProofs** | theorems about Engine, for any code |
| **CodeProofs** | what replay decides, for every sequential program and every valid history |
| **LeaseProofs** | theorems about Engine that join it to its code: owners, commits, replay, wake-ups |
| **PauseProofs**, **ScheduleProofs**, **DeploymentProofs** | theorems about PauseClock, Schedules and Deployment |

Engine, PauseClock, Schedules and Deployment are separate because they share
little: PauseClock refines the times that Engine leaves open, Schedules needs of
executions only that they start and close, and Deployment ends where Engine's
workers begin (a task is leased, replayed or released). Engine composes
executions, queue, workers, clients and pollers, and instantiates Lifecycle.

### Engine

| Variable | Code |
| --- | --- |
| `status`, `paused`, `canceled`, `next_seq`, `parent` | columns of `workflow_executions` |
| `updates` | `workflow_updates.status` |
| `history` | `history_events`; a set of events that carry their number |
| `tasks` | `tasks`; `token` numbers the leases of a row, `due` is the set of its deadlines that have passed |
| `claims` | task rows locked by a poller whose transaction is open |
| `inflight` | a leased task, its token and its replay result in a worker's memory |
| `faults` | budget of faults (a bound of the model) |

A transition that locks the execution row first is one action. `lease_task`,
`fire_due_timer` and `process_activity_timeout` are two: `ClaimLease`,
`ClaimTimer`, `ClaimTimeout` are the `SELECT ... FOR UPDATE OF t SKIP LOCKED`
with its unlocked read of the execution, and `LeaseWorkflowTask`,
`LeaseActivity`, `FireTimer`, `TimeOutActivity` the rest. While a row is
claimed, transactions that would update it wait (`Locked`, `Unlocked`). The
engine's lock orders can deadlock (execution then task, task then execution);
PostgreSQL then aborts one side, which is `AbortClaim` for a poller and an
unchanged state for everybody else.

A worker's step is `LoadAndReplay`, then one of the five `Commit...` actions,
or `Abandon` where the code raises and leaves the task leased. Loading and
replaying are one action: nothing is written between them and the commit
re-checks the lease, so only the moment of the read matters.

Abstractions: payloads are fingerprints; entity ids are the command they derive
from (`uuid5`); one queue name; times are reduced to "has this deadline
passed", so a retry delay, a pause or a lease may take any time, and `Elapse`
lets any deadline pass at any moment unless a worker is busy with the lease
(that is `Stall`, a fault); `renew_lease`, which the engine never calls, is left
out; signal ids and update ids are disjoint; a refused commit (unique index,
missing update, continuation in a child) is `Raises`, and so is an activity
attempt whose worker does not know the activity, whose report comes too late or
whose heartbeat finds it canceled: any attempt may end so, any number of times,
since the releases of the workers are not part of the module. `LoadAndReplay` requires
the result to be a `ReplayResult`: a typing assumption on `Replay`, which
`WorkflowCode` satisfies (every scenario would otherwise stop at its first
replay and fail the liveness runs).

`ReplayCheck` is `engine replay-check`, which deployments are told to run on
open executions before a release: `RecordReplays` says that with the code that
wrote it a history always passes.

### Lifecycle

Five variables: status, paused, canceled, the answer to each update, and the
*owner* of an execution, the one it ends with. Engine's `L` instance maps the
first four to themselves and computes `owner` from the parent link and the close
policy. What it demands: an execution that is being canceled neither starts
others nor answers updates, although a commit may have been decided before the
request; an execution ends together with exactly the running executions it owns,
transitively, in one step; whoever waits for an update of any of them is
answered by that step; nothing happens to an execution that has ended.

### WorkflowCode

A program is a sequence of calls; a call may catch its errors, and
`IfCanceled` jumps forward. `Evaluate` says what a call comes to on a history:
new commands, another command than the recorded one, suspension, a value, an
exception or the end of the run. `Step` is one call; `Path` lists where the run
stands after each, and `ReplayWorkflow` is its result after as many steps as the
program has calls, and one. `gather` evaluates its activities in order and
stops, with the command ids it has taken by then, at the first that raises.

A program is `Sequential` if it has no `IfCanceled` and catches no failure of a
`gather` of several activities. Those two are the constructs whose outcome
depends on when the history is read. The second is the finding `compensate`; the
first is an assumption of `MCEngine` (`CancellationRead`, evaluated in every
run): code that has branched on `cancellation_requested` replays its history,
and no longer does once the request is recorded. `MCEngine` also assumes
(`ScenarioAssumption`) that the code of every scenario but `compensate` is
sequential, so the theorems about sequential code speak of the code that the
other runs check.

### PauseClock

One execution; rows carry `visible_at`, `schedule_to_start_deadline` and
`lease_expires_at` as numbers. `Claim` and `ClaimTimeout` are the locking
statements, which read `paused_at` without a lock; `Lease`, `FireTimer` and
`TimeOutPending` act later, possibly during a pause, or the poller is rolled
back (`Abort`).

No transaction writes the time at which it commits. PostgreSQL's `now()`
(`transitions.py:262`, `:310`, `:778`) is the moment of `BEGIN`, before the
`FOR UPDATE` of the execution and before an `UPDATE` waits for rows that pollers
have locked; a failed attempt is rescheduled by the clock its worker read before
the transaction (`:1606`). So every action that writes a time takes one from
`Read`, the moments at most `MaxWait` before its commit, whichever of the two
clocks it comes from; that these clocks agree is assumed.

`ResumeWorkflow` waits for locked rows, as its `UPDATE` does, and shifts every
pending row by its own `now()` less `paused_at`. A workflow task that is
reclaimed or released while it waits (neither locks the execution) may not be in
the snapshot of the `UPDATE` and then keeps its times (`PutBack`, `missed`).

`since` and `life` are history variables. `life` counts what a row has lived
through; `lead` and `lag` add up how long the pauses and the resumptions that
held it had waited. A pause that had waited shifts the row too far by its lead;
a resumption that had waited shifts it too little by its lag, and only that can
make something happen early. A row inserted during a pause is shifted by the
whole pause, so it is held longer than its delay by the part of the pause that
was over at its insertion (`late`). The deadlines of leased rows are not frozen
by a pause.

### Schedules

`materialize_due_schedule` is a transaction of several statements at `READ
COMMITTED`; each is an action: `Poll` (the snapshot of buffered occurrences),
`StartBuffered` or `NothingBuffered` (locking them, with the re-check PostgreSQL
makes of locked rows but not of the sub-select on executions), `SelectDue`,
`CheckActive`, `Materialize`. The API's operations lock the schedule first and
are one action each; the clock they read before that may be `ClockLag` minutes
old. A backfill may name any minutes, past or to come, as the code accepts
them. Two history variables remember what can put an occurrence in the way of
the schedule: `early`, the minutes that were backfilled before the schedule had
come to them, and `stale`, whether it was last resumed by a clock that was
behind.

Time is counted in minutes. Cron's `Local` gives what the clock of a zone shows,
so gaps and repeated hours are parameters. In MCSchedules one zone repeats an
hour within the horizon, and the schedule with policy `skip` has its minute in
that hour: it comes due twice. `next_cron_time` is the least matching minute in
its window.

### Deployment

`pc` follows `engine worker`: create the table, take the advisory lock, read,
apply, register, serve. `create table if not exists` is two steps, before the
lock, since PostgreSQL may fail it if another session creates the table
meanwhile. `loops` are the tasks of the task group; a failed heartbeat cancels
the others, a signal sets the stop event, `StopWorker` runs when the group has
ended and its failure is suppressed. `Registry` gives each release its code
hashes; MCDeployment has an old release, a new one with one more migration and
another version, and a build that changed the code of a version.

Definitions marked *Faulty variant* are what a bug would make of the
definition that follows; no specification uses them. `PROJECT.json` pairs each
property with one of them, to show that the property notices.

## Runs

| Run | Scenario | Properties | States |
| --- | --- | --- | --- |
| `retry` | a marker, an activity with two attempts and all deadlines, a signal that never comes; a retry of it as a new execution; pause, cancellation, a fault, attempts that raise | `OneAttempt`, `AttemptsBounded`, `NoStartAfterCancel` | 2.1 M |
| `race` | an activity, then a signal against its timeout, two processes, a fault | `HistoryAccepted`, `OneTimer`, `WakeUpOrTimer`, `CommitsMatchReplay`, `DecisionsStable` | 200 k |
| `family` | three generations closed from the top and the middle, an abandoned child, a continuation, two processes, a fault | `StatusMatchesHistory`, `ClosedFenced`, `NoOrphans`, `ParentInformed`, `ClosedForever`, `ImplementsLifecycle`, `EventuallyCloses` | 373 k |
| `live_cancel` | an activity, an update awaited and answered, cancellation, two processes, a fault | `RecordReplays`, `TypeOK`, `UpdatesSettled`, `SingleOwner`, `NoLostWakeUp`, `CancellationTakesEffect`, `ImplementsLifecycle` | 136 k |
| `schedules` | two schedules (`buffer_one` every minute, `skip` in a repeated hour), two maintenance loops, a crash; pauses, resumptions by an old clock and backfills of the second | `NoCollision`, `OneExecution`, `NoMinuteLost`, `NoOverlap`, `CatchesUp`, `BufferedStarts` | 1.1 M |
| `pause` | two rows, two pauses, five moments, clocks read up to two moments before the commit | `NeverEarly`, `TimeoutDue`, `ExactDelay` | 7.9 M |
| `deployment` | three releases, a fault | `AppliedInOrder`, `NoFalseAlarm`, `SchemaReady`, `SameCode`, `StoppedMeansStopped`, `NoSilentWorker`, `EventuallyServes` | 69 k |
| `lost_wake_up` | an activity, then a signal wait that may find the signal there | `NoLostWakeUp` is violated | |
| `compensate` | catches the failure of a gather | `NeverDiverges` is violated | |
| `schedule_backfill` | as `schedules`, one loop, clocks that are right, backfills of the first schedule | `AlwaysCatchesUp` is violated | |
| `buffer_overlap` | as `schedules`, no operator, clocks that are right | `OneAtATime` is violated | |
| `pause_wait` | as `pause` | `NoManufacturedTimeout` is violated | |

**Bounds.** In Engine, `Operated` (executions clients act upon), `MaxPauses` and
`MaxFaults` bound the environment; `Processes`, `MaxAttempts` and the programs
bound the rest, and histories are finite because programs are. Two processes
suffice for every race between two owners of a task or two replays of one
execution; two attempts have a retry and a final failure; five executions have a
parent with a child and a grandchild, an abandoned child and a continuation;
calls of `gather` with several activities are too large for the long runs and
occur in `compensate`; one fault is a crash, a stall, an aborted poller or a
release at any point. In Schedules, `Horizon`, `Operated`, and `MaxCrashes`:
three minutes are enough for an occurrence that runs, one that is buffered
behind it and one that is skipped or started from a stale snapshot, and for both
passes of the repeated hour; two loops for each race between passes; a clock one
minute behind is on the other side of a minute. In PauseClock, `Horizon`,
`MaxWait` and `MaxPauses`: two pauses show whether a row is shifted twice, a
second row is what a fired timer or a timed-out attempt inserts, and a wait of
two moments is longer than a timeout. In Deployment, `MaxFaults`:
one crash or failed heartbeat at any point, with a release on either side of a
migration.
Deadlock is not checked: an execution that waits for a signal, or a system
whose executions have all closed, really does stop, and so do a clock at its
horizon and workers that were told to stop.

**Fairness.** Engine's `LiveSpec` adds weak fairness of `EngineStep` as a whole:
polls, worker steps and time. `_run_loop` polls until it is stopped and survives
the exceptions of its steps, so some step is taken while one is possible.
Nothing is assumed of clients, heartbeats or faults, nor of any particular step:
the steps of an execution are finite in number, so taking some step forever
takes them all. Executions are not paused in these runs (a paused one rightly
stops). Schedules assumes weak fairness of each maintenance loop, for the same
reason, and that the executions of the schedules close. Deployment assumes
strong fairness of each process: its lock request may be enabled and disabled by
others, but PostgreSQL grants an advisory lock in the order of the requests, and
a process that ended by itself is restarted by its supervisor.

**What the five violations show.** They are recorded as findings, with the
lines of the documentation they disagree with.

1. `lost_wake_up`: the signal arrives, its wake-up is consumed by a replay that
   is still waiting for the activity, then the code reaches the wait, starts
   its timeout, and no workflow task is enqueued; the execution goes on only
   when the timeout fires. `WakeUpOrTimer` shows that the timer always saves it. Without a timed
   wait nothing is lost: `live_cancel` checks `NoLostWakeUp` for such code.
2. `compensate`: `gather` takes command ids as it evaluates, and stops at the
   first failure.
3. `schedule_backfill`: an occurrence that a backfill has inserted at or after
   `next_run_at` is inserted again by the materialisation, whose transaction
   fails on the primary key on every pass; the schedules after it starve.
   `NoCollision`, a theorem too, names what else does this: a resumption by a
   clock that is behind the last occurrence. Nothing of a third kind does.
   `CatchesUp` shows that every schedule catches up unless it, or one whose turn
   is before its own, is held up so.
4. `buffer_overlap`: a maintenance loop selects the buffered occurrence while
   nothing runs; another starts the occurrence that has come due; the first
   locks and starts the buffered one, since only the locked rows are re-checked.
   Two executions run although the policy is not `allow`. `NoOverlap` shows what
   remains: never three, and with `skip` never two.
5. `pause_wait`: the resumption begins, waits for a lock, and shifts the
   deadlines by what had passed when it began; the activity is timed out although it
   was on offer for less than its schedule-to-start timeout. `TimeoutDue` and
   `NeverEarly` show that it is early by no more than that wait.

Two more disagreements have no run. A `wait_signal` with a timeout that the signal has
won records `TimerCanceled` only when the execution closes, and until then the
timer may fire and wake a replay that ignores it;
`docs/explanation/replay-and-determinism.md:59-60` says that the winning signal
records it. And code that branches on `cancellation_requested` does not replay its own
history (`CancellationRead`, above).

## Proofs

All theorems hold for every value of the constants: every set of executions,
signals and updates, every number of processes, schedules and rows, and every
bound. Those about Engine hold for every workflow code, but for the five that
speak of what replay decides, which hold for every sequential program.

**EngineProofs**: `TypeCorrect` (`Spec => []TypeOK`) and `Fenced` (`Spec =>
[]ClosedFenced`: nothing of a closed execution is open, and a row held by a
poller is open, although the poller chose it on an unlocked read). Both follow
from `Inductive`: `Spec => []IInv`. Neither is inductive alone. `ClosedFenced`
needs types; it needs that a claimed row has the status its operation expects
(`ClaimsOK`: a lease or a timer claim holds a pending row, so that a worker's
live lease is never somebody's claim, and a commit cannot close a claimed row);
and it needs that the task table is finite, since closing counts the timers it
cancels. The argument for closing (`CloseExecutionOK`) is that the row locks
(`Unlocked`) exclude claims on anything closed, and that the rows inserted by
the same transaction belong to a parent or a continuation that runs afterwards.
One lemma per action, then `StepOK`.

**LifecycleProofs** classifies every step by what it does to executions and
histories (`StepKinds`: it appends to histories of running executions, starts
an absent one, closes a set of running ones, or commits commands) and derives
`Final` (`Spec => ClosedForever`: that a step acts on a running execution comes
from `IInv`, since a live lease or a claimed row belongs to one) and `Families`
(`Spec => []NoOrphans`, by `FamilyInv`: `IInv`, `NoOrphans`, and `Unborn`, that
an execution that does not exist has no parent, so that a start cannot adopt a
link left over from nowhere).

It also proves `Implements`: `Spec => ImplementsLifecycle`. One
lemma per abstract action shows the concrete ones that do it (a commit of
commands is `Proceed`; every close, whatever caused it, is `End` with the set of
descendants the cascade reaches as the family), and one that all other steps
leave the abstract variables alone. It needs `IInv` only to know that a
committing worker's execution runs.

**HistoryProofs** relates the histories to the other tables. It first restates
every step by what it does to one execution (`Changes`: leave it alone, start it,
append numbered events that schedule no command twice, or end it) and to the
rows of activities and timers (`NextCases`, `StepCases`), and then proves four
layers of one inductive invariant `HInv`, each from the ones before it:

* `RecordInv` (the row and the history of an execution): events are numbered up
  to `next_seq`, only the last one of a closed execution is terminal and it is
  that of its status, commands are scheduled once, a cancellation is recorded
  exactly when the column says so, and updates agree with their resolutions. It
  gives `StatusRecorded` and `UpdatesAnswered`. That an absent execution has no
  events is part of it: otherwise a start or a continuation could not be number 1.
* `ChildrenOK`: `ParentInformed`, and what makes it inductive: no two children
  share a command (so that an outcome is about one of them), and an outcome
  follows its start and is the only one. It gives `ParentsInformed`.
* `TimerInv`: a timer has a row exactly when it has a start event; the row is
  pending exactly until the outcome or the end of the execution. It gives
  `TimersKept`.
* `ActivityInv`: the rows of an activity are attempts 1 to `MaxAttempts`, only
  the last can be open, an open one means the activity is undecided, a pending
  one was never leased, and there are no more starts than rows that were leased.
  The last two are what bounds the starts: a row is leased once, because nothing
  releases or reclaims an activity row. With `StartsOK` (a poller that holds a
  row to start belongs to an execution that is not being canceled, because the
  request waits for its lock) it gives `AttemptsKept`, `AttemptsLimited` and
  `CancellationStopsStarts`.

`HistoriesAccepted` (`Spec => []HistoryAccepted`) collects the layers: each
conjunct of what `HistoryIndex` demands is in one of them.

**CodeProofs** is about `ReplayWorkflow` alone. The run of a program is a
function on the naturals defined by recursion (`Path`); that it exists and
satisfies its equation (`Unfolds`) is proved from its finite prefixes, by
induction over a *set* of numbers (`Induct`), which the provers can instantiate.
A history is `Consistent` with a program if the run on it comes to a call where
it stops, and the history holds the commands of the calls before it, all or none
of those of that call, and no others. Three facts about a sequential program and a
consistent history carry everything:

* a call that returned or raised does the same on every longer history, since an
  outcome is the only one of its command and a signal consumed is the earliest;
  so the run on the longer history starts with the run on the shorter one, and a
  decision that was reached stays (`DecisionsStable`'s core);
* events from outside schedule no command, and recording the commands that a run
  stopped at makes that call recorded: either way the history stays consistent,
  and a consistent history never diverges;
* a run that is blocked stays blocked until an event that `Rouses` it, and a run
  whose commands are activities, children or sleeps is blocked once they are
  recorded.

**LeaseProofs** proves `OneOwner` (`Spec => []SingleOwner`) by `OwnerInv`
(`IInv` and `Memories`: the token a worker remembers is at most its row's
token, and two workers never remember the same token of the same task). Only a
lease changes a row's token, and the new token exceeds all that were issued.

It also proves `CommitsFaithful`: `Spec /\ DecisionsStable =>
CommitsMatchReplay`. This separates what the engine owes from what the code
owes. `DecisionsStable` is the code's part: a decision to issue commands or to
finish is not changed by events from outside. It fails for code that is not
sequential (`compensate`, `CancellationRead`). The engine's part is the invariant `WorkInv`: a result in a worker's memory is what the present
history calls for, or some command of it has been scheduled meanwhile. In the
second case the unique index `one_scheduled_command` refuses it; that nothing
else stands between two workers that replayed the same execution is visible in
the proof (`AcceptedCurrent`), which uses no property of leases.

The code's part is the rest of the module, under the hypothesis `Runs(code)`:
each execution replays a sequential program. `CodeInv` adds to `WorkInv` that
every history has been written by its program (`WrittenBy`: it is `Consistent`) and that a closed execution has the status its history replays to.
`DecisionsKept`, `CommitsOfCode` and `RecordsReplay` follow: every step appends
to a history from outside, or commits what the present history calls for, and
CodeProofs says what either does to the run of the program.

`WakeUpsKept` (`[]WakeUpOrTimer`) needs a stronger statement to be inductive
(`Awake`). That an execution which can go on has an open workflow task is not
enough: the worker that holds the task may already have decided, on a shorter
history, that there is nothing to do, and its commit then closes the task. So
`Awake` demands a row that is *hopeful*: open, and if it is a workflow task, its
owner has not found the replay blocked. Every event that can move a blocked
program (`Rouses`) is recorded together with a fresh workflow task, whose number
is that of the event, so nobody holds it yet (`WakeKeys`); a commit that closes
its task without a new one leaves the program blocked (`CommitBlocks`), except
when the command it records is the timer of a wait whose signal is already
there. That exception is the finding `lost_wake_up`, and the pending timer is
what saves it. `WakeUpsPrompt` says the rest: where no signal is awaited with a
timeout (`Untimed`), `[]NoLostWakeUp`.

**PauseProofs** proves `SleepsInFull` (`[]NeverEarly`), `PausesDoNotTimeOut`
(`[]TimeoutDue`) and `ShiftedExactly` (`[]ExactDelay`), for every `MaxWait`.
`ExactDelay` is the heart of the inductive invariant: it says where a pending
row stands on the clock of the execution, which stands still from the commit of
a pause to that of its resumption, in terms of what the row has lived and of
what each transaction had waited. The two others follow from it at the moment a
poller locks the row; a locked row keeps them since time only adds to what it
has lived, and a resume waits for it. `Coherent` adds that a pause is recorded
as beginning no later than it did, so that its lead is never negative, and that
only pending rows are locked.

**ScheduleProofs** proves `OccurrencesRunOnce`, `NoOccurrenceIsMissed` and
`NeverWedged`. The invariant has the types, that two loops never lock the same
schedule (`LocksHold`), that the executions of an occurrence are numbered by
their count (`Counted`, so that a fresh id is fresh), and the two properties.
`NeverWedged` (`[]NoCollision`) needs in addition `Behind`: every occurrence
that was not backfilled early lies in the past, and before the `next_run_at` of
its schedule unless that is paused or was resumed by an old clock. It assumes nothing of operators or clocks: the two ways in which they can
put an occurrence in the way are part of what it states.
`OverlapBounded` (`Spec => []NoOverlap`) needs `OverlapInv`, which says of each
schedule what the loops know: a loop that found nothing running is right until
it has written the occurrence (it holds the lock of the schedule, which
backfills and buffered starts wait for or pass over); a buffered
occurrence in a snapshot that is still buffered has at most one execution beside
it, which is why the stale start makes two and never three.

**DeploymentProofs** proves `MigrationsInOrder`, `NoAlarms`, `ServesMigrated`,
`OneCode` and `StoppedIsStopped` from one invariant `DInv`: the process that is
between taking and releasing the advisory lock is the one the lock names, what
it has read is what the table holds, the rows of a process that has unlocked
include its release, a process that serves or replays a version has registered
it with its own code, and a stopped row means that the task group has ended.

Assumptions: those stated with the constants (`EngineAssumption`,
`ClockAssumption`, `SchedulesAssumption`, `ExpressionsAssumption`,
`DeploymentAssumption`, evaluated, with `ScenarioAssumption`,
`CancellationRead` and `FieldsAccepted` of the instances, by
TLC in every run that extends them). Nothing is assumed about `Child`, and about
`Replay` only what a theorem states as its hypothesis: `DecisionsStable` in
`CommitsFaithful`, `Runs(code)` in the five theorems about sequential code, and
`Untimed` besides in `WakeUpsPrompt`.

Only model-checked: liveness (`EventuallyCloses`, `CancellationTakesEffect`,
`CatchesUp`, `BufferedStarts`, `NoSilentWorker`, `EventuallyServes`), which is out
of the prover's reach, and the violations (`AlwaysCatchesUp`, `OneAtATime`,
`NoManufacturedTimeout` and `NeverDiverges` occur in those only). Every safety invariant and every
action property of the passing runs is also a theorem.

## Not modelled

* Search attributes: metadata that nothing in the life cycle reads.
* The HTTP API, the client and most of the CLI, authentication, rate limits,
  audit rows, listings and metrics: I/O around the transitions.
* Payloads and their serialisation: fingerprints stand for them.
* Decorators and policies: validation of immutable values, no state.
* The effect ledger: one conditional insert, which only examples and tests call.
* The replay debugger: a read-only view of a history.
* Connection pools, configuration, logging, the console, benchmarks, examples.
* Deadlines of leased rows on the numeric clock (they are in Engine, untimed).

See `components` and the notes of `hazards` in `PROJECT.json`.

## Where to go on

External ids shared by signals and updates; a continuation inside a child (the
engine refuses its commit on every replay), and what an execution that raises
for ever does to the others on its queue; a release whose registration fails
half-way; stability of programs that catch a
failed `gather` once the engine takes all its command ids before it evaluates,
which would let `Sequential` drop that condition.
