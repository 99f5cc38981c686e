----------------------------- MODULE PauseClock -----------------------------
(***************************************************************************)
(* The clock of one execution: when its task rows become visible, when     *)
(* they time out, and what pausing and resuming the execution does to      *)
(* both.  Module Engine lets deadlines pass at any moment; here time is a  *)
(* number and the rows carry the columns visible_at,                       *)
(* schedule_to_start_deadline and lease_expires_at.                        *)
(*                                                                         *)
(* The pollers lock a row after an unlocked read of paused_at and act on   *)
(* it in a later statement, so the execution may be paused in between.     *)
(*                                                                         *)
(* No transaction knows when it will commit.  The now() of PostgreSQL is   *)
(* the moment the transaction began, before it waited for any lock, and    *)
(* fail_activity reads the worker's clock before its transaction.  Every   *)
(* action therefore takes the time it writes from Read.                    *)
(***************************************************************************)
EXTENDS Integers

CONSTANTS
  Rows,         \* task rows of the execution
  Delays,       \* how far ahead timers and retries are scheduled
  Timeouts,     \* schedule_to_start_timeout of activities
  LeaseTime,    \* lease_duration
  RouteDelay    \* retry_delay of a released workflow task

\* Bounds of the model, not of the system.
CONSTANTS
  Horizon,      \* the last moment
  MaxWait,      \* how long ago a transaction may have read its clock
  MaxPauses     \* pauses of the execution

ASSUME ClockAssumption ==
  /\ Delays \subseteq Nat /\ Timeouts \subseteq Nat
  /\ LeaseTime \in Nat \ {0} /\ RouteDelay \in Nat
  /\ Horizon \in Nat /\ MaxWait \in Nat /\ MaxPauses \in Nat

VARIABLES
  now,        \* the clock of the database
  paused,     \* paused_at is not null
  paused_at,  \* workflow_executions.paused_at; 0 for null
  since,      \* history variable: the moment the pause was committed
  pauses,     \* pauses so far
  tasks,      \* the rows
  life        \* history variable: what each pending row was asked for and has lived through

pause_vars == <<paused, paused_at, since, pauses>>
vars == <<now, pause_vars, tasks, life>>

Row == [status : {"absent", "pending", "leased", "done"},
        kind : {"workflow", "activity", "timer"}, locked : {"no", "take", "timeout"},
        visible_at : Int, timeout : Nat, deadline : Int, expires : Nat]

\* delay is what the row was inserted with; lived the time since the clock it
\* was scheduled by was read, the pauses that held it left out; late how long
\* the execution had been paused by then.  lead and lag are how long the pauses and the
\* resumptions that held the row had waited for their locks.
Life == [delay : Nat, lived : Nat, late : Nat, lead : Nat, lag : Nat]

TypeOK ==
  /\ now \in Nat /\ paused \in BOOLEAN /\ paused_at \in Nat /\ since \in Nat /\ pauses \in Nat
  /\ tasks \in [Rows -> Row]
  /\ life \in [Rows -> Life]

Init ==
  /\ now = 0 /\ paused = FALSE /\ paused_at = 0 /\ since = 0 /\ pauses = 0
  /\ tasks = [r \in Rows |-> [status |-> "absent", kind |-> "workflow", locked |-> "no",
                              visible_at |-> 0, timeout |-> 0, deadline |-> 0, expires |-> 0]]
  /\ life = [r \in Rows |-> [delay |-> 0, lived |-> 0, late |-> 0, lead |-> 0, lag |-> 0]]

Pending(r) == tasks[r].status = "pending"

\* The time a transaction that commits now may have read.
Read == {b \in 0 .. now : now - b <= MaxWait}

\* The moment at which the clock of the execution stands.
Clock == IF paused THEN since ELSE now

\* The time from b to c, if there was any.
Past(b, c) == IF b < c THEN c - b ELSE 0

(***************************************************************************)
(* Rows.                                                                   *)
(***************************************************************************)

\* insert into tasks: visible after the delay, and an activity has to be
\* started within its timeout from then on.
Scheduled(b, kind, delay, timeout) ==
  [status |-> "pending", kind |-> kind, locked |-> "no", visible_at |-> b + delay,
   timeout |-> timeout, deadline |-> b + delay + timeout, expires |-> 0]

Begun(b, delay) ==
  [delay |-> delay, lived |-> Past(b, Clock), late |-> Past(Clock, b), lead |-> 0, lag |-> 0]

\* A commit of a lease held since before the pause, a signal, an update, a
\* cancellation or a failed attempt inserts a row, whether paused or not.
Insert(r, kind, delay, timeout) ==
  /\ tasks[r].status = "absent"
  /\ kind = "workflow" => delay = 0
  /\ \E b \in Read :
       /\ tasks' = [tasks EXCEPT ![r] = Scheduled(b, kind, delay, timeout)]
       /\ life' = [life EXCEPT ![r] = Begun(b, delay)]
  /\ UNCHANGED <<now, pause_vars>>

\* Faulty variants: pollers do not look at paused_at.
VisibleAnyway(r) == tasks[r].visible_at <= now
OverdueAnyway(r) == tasks[r].deadline <= now

\* The execution is not paused and the row is visible, or has waited too long,
\* by the clock of the poller's transaction, which may be the present one.
Visible(r) == ~paused /\ tasks[r].visible_at <= now
Overdue(r) == ~paused /\ tasks[r].deadline <= now

\* The first statement of lease_task and of fire_due_timer.
Claim(r) ==
  /\ Pending(r) /\ tasks[r].locked = "no" /\ Visible(r)
  /\ tasks' = [tasks EXCEPT ![r].locked = "take"]
  /\ UNCHANGED <<now, pause_vars, life>>

\* The first statement of process_activity_timeout, for a row not yet leased.
ClaimTimeout(r) ==
  /\ Pending(r) /\ tasks[r].locked = "no" /\ tasks[r].kind = "activity"
  /\ Overdue(r)
  /\ tasks' = [tasks EXCEPT ![r].locked = "timeout"]
  /\ UNCHANGED <<now, pause_vars, life>>

\* The poller's transaction is rolled back: it lost a deadlock or its process died.
Abort(r) ==
  /\ tasks[r].locked # "no"
  /\ tasks' = [tasks EXCEPT ![r].locked = "no"]
  /\ UNCHANGED <<now, pause_vars, life>>

\* The rest of lease_task.  paused_at is not looked at again.
Lease(r) ==
  /\ tasks[r].locked = "take" /\ tasks[r].kind # "timer"
  /\ \E b \in Read :
       tasks' = [tasks EXCEPT ![r].status = "leased", ![r].locked = "no",
                              ![r].expires = b + LeaseTime]
  /\ UNCHANGED <<now, pause_vars, life>>

\* The row ends and another one takes its place.
Replace(r, x, kind, delay, timeout) ==
  /\ tasks[x].status = "absent" /\ x # r
  /\ \E b \in Read :
       /\ tasks' = [tasks EXCEPT ![r].status = "done", ![r].locked = "no",
                                 ![x] = Scheduled(b, kind, delay, timeout)]
       /\ life' = [life EXCEPT ![x] = Begun(b, delay)]
  /\ UNCHANGED <<now, pause_vars>>

\* The rest of fire_due_timer: the timer fires and wakes its workflow.
FireTimer(r, x) ==
  /\ tasks[r].locked = "take" /\ tasks[r].kind = "timer"
  /\ Replace(r, x, "workflow", 0, 0)

\* The rest of process_activity_timeout: another attempt, or none and a wake-up.
TimeOutPending(r, x) ==
  /\ tasks[r].locked = "timeout"
  /\ \/ Replace(r, x, "workflow", 0, 0)
     \/ \E d \in Delays : Replace(r, x, "activity", d, tasks[r].timeout)

\* A lease ends with a commit, a completion, a failure or a timeout.
Finish(r) ==
  /\ tasks[r].status = "leased"
  /\ tasks' = [tasks EXCEPT ![r].status = "done"]
  /\ UNCHANGED <<now, pause_vars, life>>

\* The row of a workflow task goes back to the queue.
Requeue(r, b, delay) ==
  /\ tasks' = [tasks EXCEPT ![r].status = "pending", ![r].visible_at = b + delay,
                            ![r].deadline = b + delay + tasks[r].timeout]
  /\ life' = [life EXCEPT ![r] = Begun(b, delay)]
  /\ UNCHANGED <<now, pause_vars>>

\* reclaim_expired_workflow_tasks; also while the execution is paused.
Reclaim(r) ==
  /\ tasks[r].status = "leased" /\ tasks[r].kind = "workflow"
  /\ \E b \in Read : tasks[r].expires <= b /\ Requeue(r, b, 0)

\* release_workflow_task
Release(r) ==
  /\ tasks[r].status = "leased" /\ tasks[r].kind = "workflow"
  /\ \E b \in Read : tasks[r].expires > b /\ Requeue(r, b, RouteDelay)

(***************************************************************************)
(* Pausing.                                                                *)
(***************************************************************************)

\* Faulty variant: a second request moves the start of the pause.
Pausable == pauses < MaxPauses

\* A request for an execution that is paused already changes nothing.
CanPause == ~paused /\ pauses < MaxPauses

PauseWorkflow ==
  /\ CanPause
  /\ paused' = TRUE /\ paused_at' \in Read /\ since' = now /\ pauses' = pauses + 1
  /\ UNCHANGED <<now, tasks, life>>

\* Both move by what the two transactions take for the length of the pause;
\* backwards if the resumption began before the pause did.
Shifted(row, b) ==
  [row EXCEPT !.visible_at = @ + (b - paused_at), !.deadline = @ + (b - paused_at)]

Waited(l, b) == [l EXCEPT !.lead = @ + (since - paused_at), !.lag = @ + (now - b)]

\* Reclaim and Release do not lock the execution, so they may put a workflow
\* task back while the update waits.  It is not in the snapshot of the update:
\* it keeps its times, and the pause does not hold it.
PutBack == {r \in Rows : Pending(r) /\ tasks[r].kind = "workflow" /\ tasks[r].expires > 0}

Unheld(l) == [l EXCEPT !.lived = @ + (now - since)]

\* Every other pending row, whenever it was inserted.  The update waits for the
\* rows that pollers have locked.
ResumeWorkflow ==
  /\ paused
  /\ \A r \in Rows : Pending(r) => tasks[r].locked = "no"
  /\ paused' = FALSE /\ paused_at' = 0 /\ since' = 0
  /\ \E b \in Read, missed \in SUBSET PutBack :
       LET moved == {r \in Rows : Pending(r)} \ missed IN
       /\ tasks' = [r \in Rows |-> IF r \in moved THEN Shifted(tasks[r], b) ELSE tasks[r]]
       /\ life' = [r \in Rows |->
            IF r \in moved THEN Waited(life[r], b)
            ELSE IF r \in missed THEN Unheld(life[r]) ELSE life[r]]
  /\ UNCHANGED <<now, pauses>>

(***************************************************************************)
(* Specification.                                                          *)
(***************************************************************************)

Tick ==
  /\ now < Horizon
  /\ now' = now + 1
  /\ life' = [r \in Rows |->
       IF Pending(r) /\ ~paused THEN [life[r] EXCEPT !.lived = @ + 1] ELSE life[r]]
  /\ UNCHANGED <<pause_vars, tasks>>

RowStep(r) ==
  \/ Insert(r, "workflow", 0, 0)
  \/ \E d \in Delays : Insert(r, "timer", d, 0) \/ \E t \in Timeouts : Insert(r, "activity", d, t)
  \/ Claim(r) \/ ClaimTimeout(r) \/ Abort(r) \/ Lease(r) \/ Finish(r) \/ Reclaim(r) \/ Release(r)
  \/ \E x \in Rows : FireTimer(r, x) \/ TimeOutPending(r, x)

Next == (\E r \in Rows : RowStep(r)) \/ PauseWorkflow \/ ResumeWorkflow \/ Tick

Spec == Init /\ [][Next]_vars

(***************************************************************************)
(* Properties.                                                             *)
(***************************************************************************)

\* A sleep is cut short, or a task dispatched before its delay, by no more
\* than the time the resumptions of the execution meanwhile had waited for
\* their locks, however pauses, late pollers and other rows interleave with it.
NeverEarly ==
  \A r \in Rows : tasks[r].locked = "take" => life[r].lived + life[r].lag >= life[r].delay

\* An activity is timed out before its start only if it was on offer, the
\* execution not paused, for all of schedule_to_start_timeout but the time the
\* resumptions had waited for their locks.
TimeoutDue ==
  \A r \in Rows : tasks[r].locked = "timeout" =>
    life[r].lived + life[r].lag >= life[r].delay + tasks[r].timeout

\* What the operator's guide says of it: a pause manufactures no timeout.
NoManufacturedTimeout ==
  \A r \in Rows : tasks[r].locked = "timeout" =>
    life[r].lived >= life[r].delay + tasks[r].timeout

\* A pause shifts a row by the time it holds it, more by what pausing had
\* waited for the execution's row, less by what resuming had waited, and never
\* twice; a row inserted during a pause is also shifted by the part of the
\* pause that was over by then, and is held that much longer afterwards.
ExactDelay ==
  \A r \in Rows : Pending(r) =>
    /\ tasks[r].visible_at - Clock =
         (life[r].delay - life[r].lived) + life[r].late + life[r].lead - life[r].lag
    /\ tasks[r].deadline = tasks[r].visible_at + tasks[r].timeout

=============================================================================
