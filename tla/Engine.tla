------------------------------- MODULE Engine -------------------------------
(***************************************************************************)
(* The durable core of the workflow engine: the transitions of             *)
(* engine/persistence (transitions.py, leasing.py, timeouts.py, timers.py, *)
(* signals.py, updates.py) over the tables workflow_executions,            *)
(* history_events, tasks and workflow_updates, driven by the workers of    *)
(* engine/workers.                                                         *)
(*                                                                         *)
(* Every transition runs in one PostgreSQL transaction that locks the      *)
(* execution row, so it is one action here.  The exceptions are the three  *)
(* pollers (lease_task, fire_due_timer, process_activity_timeout): they    *)
(* lock a task row after reading the execution WITHOUT a lock, and lock    *)
(* the execution (or update the task) only afterwards.  They are two       *)
(* actions each, with the locked row in `claims' in between.               *)
(*                                                                         *)
(* Workflow code is a parameter: Replay(w, h) is what replay_workflow      *)
(* returns for execution w and history h.                                  *)
(***************************************************************************)
EXTENDS Integers, Sequences, FiniteSets, History

CONSTANTS
  Workflows,      \* execution ids: client-chosen ones, children, continuations
  NoWorkflow,     \* a null execution id
  Roots,          \* the execution ids clients start
  Signals,        \* signal_ids clients send
  Updates,        \* update_ids clients send
  Fingerprints,   \* command fingerprints
  MaxAttempts,    \* max_attempts of the activities' retry policy
  Deadlines,      \* the deadlines of leased or pending activities that may pass
  Processes,      \* worker processes; each runs one loop per role
  Replay(_, _),   \* replay_workflow
  Child(_, _)     \* Child(w, c): the uuid5 id of the child or continuation of command c of w

\* Bounds of the model, not of the system.
CONSTANTS
  Operated,       \* the executions clients signal, update, pause, cancel or terminate
  MaxPauses,      \* pauses of one execution
  MaxFaults       \* crashes, aborted transactions, expiries of a held lease, releases

AllDeadlines == {"visible", "schedule_to_start", "lease", "start_to_close", "heartbeat"}

ASSUME EngineAssumption ==
  /\ NoWorkflow \notin Workflows
  /\ Roots \subseteq Workflows /\ Operated \subseteq Workflows
  /\ NoUpdate \notin Updates
  /\ MaxAttempts \in Nat \ {0}
  /\ Deadlines \subseteq AllDeadlines
  /\ Processes \in Nat
  /\ MaxPauses \in Nat
  /\ MaxFaults \in Nat

VARIABLES
  status,     \* workflow_executions.status; "absent" before the row exists
  paused,     \* paused_at is not null
  canceled,   \* cancellation_requested_at is not null
  next_seq,   \* workflow_executions.next_seq
  parent,     \* parent_workflow_id, parent_command_id, parent_close_policy
  updates,    \* workflow_updates.status; "none" before the row exists
  history,    \* history_events of each execution
  tasks,      \* the rows of tasks
  claims,     \* task rows locked by a poller whose transaction is still open
  inflight,   \* what workers hold in memory: a leased task, its token, its replay
  faults      \* faults so far

execVars == <<status, paused, canceled, next_seq, parent, updates, history>>
vars == <<execVars, tasks, claims, inflight, faults>>

(***************************************************************************)
(* Data.                                                                   *)
(***************************************************************************)

\* A row of history_events; see module History.
Event == [seq : Nat, type : EventTypes, cmd : Nat \cup {NoCommand},
          tag : Fingerprints \cup Signals \cup Updates \cup {NoTag}, final : BOOLEAN]

\* Keys of the task table.  An activity row is keyed by its attempt (index
\* one_entity_attempt), a timer row by its command, a workflow task by the
\* sequence number of the event it was enqueued with.
TaskId == [wf : Workflows, kind : {"workflow", "activity", "timer"},
           cmd : Nat \cup {NoCommand}, n : Nat]

WakeUp(w, n) == [wf |-> w, kind |-> "workflow", cmd |-> NoCommand, n |-> n]
Attempt(w, c, n) == [wf |-> w, kind |-> "activity", cmd |-> c, n |-> n]
Timer(w, c) == [wf |-> w, kind |-> "timer", cmd |-> c, n |-> 1]

\* A task row.  token numbers the leases of the row (lease_token is a fresh
\* uuid4 each time); due is the set of its deadlines that have passed.
Row == [status : {"pending", "leased", "completed", "dead"}, token : Nat,
        due : SUBSET AllDeadlines]

\* What Python inserts: a timer and a retried attempt become visible later, a
\* workflow task and a first attempt at once.
NewRow(t) ==
  [status |-> "pending", token |-> 0,
   due |-> IF t.kind = "timer" \/ (t.kind = "activity" /\ t.n > 1) THEN {} ELSE {"visible"}]

\* A command of engine/runtime/commands.py.
Command == [kind : {"activity", "timer", "marker", "child", "resolve", "continue"},
            cmd : Nat, fp : Fingerprints, policy : {"terminate", "abandon"},
            upd : Updates \cup {NoUpdate}, accepted : BOOLEAN]

ReplayResult == [status : {"none", "commands", "blocked", "completed", "failed", "diverged"},
                 commands : Seq(Command)]

NotReplayed == [status |-> "none", commands |-> <<>>]

NoParent == [wf |-> NoWorkflow, cmd |-> NoCommand, policy |-> "abandon"]

TypeOK ==
  /\ status \in [Workflows -> {"absent", "running", "completed", "failed", "terminated"}]
  /\ paused \in [Workflows -> BOOLEAN]
  /\ canceled \in [Workflows -> BOOLEAN]
  /\ next_seq \in [Workflows -> Nat \ {0}]
  /\ parent \in [Workflows -> [wf : Workflows \cup {NoWorkflow}, cmd : Nat \cup {NoCommand},
                               policy : {"terminate", "abandon"}]]
  /\ updates \in [Workflows -> [Updates -> {"none", "pending", "completed", "rejected"}]]
  /\ history \in [Workflows -> SUBSET Event]
  /\ DOMAIN tasks \in SUBSET TaskId
  /\ tasks \in [DOMAIN tasks -> Row]
  /\ claims \in SUBSET [op : {"lease", "fire", "timeout"}, task : TaskId]
  /\ inflight \in SUBSET [task : TaskId, token : Nat, replay : ReplayResult]
  /\ faults \in Nat

Init ==
  /\ status = [w \in Workflows |-> "absent"]
  /\ paused = [w \in Workflows |-> FALSE]
  /\ canceled = [w \in Workflows |-> FALSE]
  /\ next_seq = [w \in Workflows |-> 1]
  /\ parent = [w \in Workflows |-> NoParent]
  /\ updates = [w \in Workflows |-> [u \in Updates |-> "none"]]
  /\ history = [w \in Workflows |-> {}]
  /\ tasks = [t \in {} |-> NewRow(t)]
  /\ claims = {}
  /\ inflight = {}
  /\ faults = 0

(***************************************************************************)
(* Statements the transitions are made of.                                 *)
(***************************************************************************)

Running(w) == status[w] = "running"
Open(t) == tasks[t].status \in {"pending", "leased"}

\* Row locks: a transaction that updates a task row waits for the poller that
\* has locked it; FOR UPDATE ... SKIP LOCKED passes over it.
Locked(t) == \E c \in claims : c.task = t
Unlocked(S) == \A c \in claims : c.task.wf \notin S

\* insert into tasks
Insert(ts, ids) ==
  [t \in DOMAIN ts \cup ids |-> IF t \in DOMAIN ts THEN ts[t] ELSE NewRow(t)]

\* update tasks set status = s, completed_at = now()
Close(ts, ids, s) ==
  [t \in DOMAIN ts |-> IF t \in ids THEN [ts[t] EXCEPT !.status = s, !.due = {}] ELSE ts[t]]

\* insert into history_events at next_seq, then advance next_seq
Record(w, type, cmd, tag, final) ==
  /\ history' = [history EXCEPT ![w] = @ \cup {Ev(next_seq[w], type, cmd, tag, final)}]
  /\ next_seq' = [next_seq EXCEPT ![w] = @ + 1]

\* The worker that holds h still owns a live lease on its row.
Live(h) ==
  /\ h.task \in DOMAIN tasks
  /\ tasks[h.task].status = "leased"
  /\ tasks[h.task].token = h.token
  /\ "lease" \notin tasks[h.task].due

Fault == faults < MaxFaults /\ faults' = faults + 1

(***************************************************************************)
(* Client operations.                                                      *)
(***************************************************************************)

\* start_workflow: the execution, its first event and its first task.
StartWorkflow(w) ==
  /\ status[w] = "absent"
  /\ status' = [status EXCEPT ![w] = "running"]
  /\ Record(w, "WorkflowExecutionStarted", NoCommand, NoTag, TRUE)
  /\ tasks' = Insert(tasks, {WakeUp(w, 1)})
  /\ UNCHANGED <<paused, canceled, parent, updates, claims, inflight, faults>>

\* retry_workflow: a fresh execution of a failed or terminated one.
RetryWorkflow(w, x) ==
  /\ status[w] \in {"failed", "terminated"}
  /\ StartWorkflow(x)

Pauses(w) == Cardinality({e \in history[w] : e.type = "WorkflowExecutionPaused"})

\* pause_workflow
PauseWorkflow(w) ==
  /\ Running(w) /\ ~paused[w]
  /\ Pauses(w) < MaxPauses
  /\ paused' = [paused EXCEPT ![w] = TRUE]
  /\ Record(w, "WorkflowExecutionPaused", NoCommand, NoTag, TRUE)
  /\ UNCHANGED <<status, canceled, parent, updates, tasks, claims, inflight, faults>>

PendingTasks(w) == {t \in DOMAIN tasks : t.wf = w /\ tasks[t].status = "pending"}

\* resume_workflow: visible_at and schedule_to_start_deadline of every pending
\* row move into the future by the length of the pause.  Which of them are
\* due again, and when, is up to Elapse.
ResumeWorkflow(w) ==
  /\ Running(w) /\ paused[w]
  /\ \A t \in PendingTasks(w) : ~Locked(t)
  /\ paused' = [paused EXCEPT ![w] = FALSE]
  /\ Record(w, "WorkflowExecutionResumed", NoCommand, NoTag, TRUE)
  /\ tasks' = [t \in DOMAIN tasks |->
                 IF t \in PendingTasks(w)
                 THEN [tasks[t] EXCEPT !.due = {}] ELSE tasks[t]]
  /\ UNCHANGED <<status, canceled, parent, updates, claims, inflight, faults>>

PendingActivities(w) ==
  {t \in DOMAIN tasks : t.wf = w /\ t.kind = "activity" /\ tasks[t].status = "pending"}

\* request_workflow_cancellation: one request, no new attempts, wake replay.
RequestCancellation(w) ==
  /\ Running(w) /\ ~canceled[w]
  /\ \A t \in PendingActivities(w) : ~Locked(t)
  /\ canceled' = [canceled EXCEPT ![w] = TRUE]
  /\ Record(w, "WorkflowCancellationRequested", NoCommand, NoTag, TRUE)
  /\ tasks' = Insert(Close(tasks, PendingActivities(w), "dead"), {WakeUp(w, next_seq[w])})
  /\ UNCHANGED <<status, paused, parent, updates, claims, inflight, faults>>

\* send_signal: deduplicated by its caller-chosen id.
SendSignal(w, s) ==
  /\ Running(w)
  /\ ~ \E e \in history[w] : e.type = "SignalReceived" /\ e.tag = s
  /\ Record(w, "SignalReceived", NoCommand, s, TRUE)
  /\ tasks' = Insert(tasks, {WakeUp(w, next_seq[w])})
  /\ UNCHANGED <<status, paused, canceled, parent, updates, claims, inflight, faults>>

\* send_update: deduplicated by the workflow_updates row.
SendUpdate(w, u) ==
  /\ Running(w)
  /\ updates[w][u] = "none"
  /\ updates' = [updates EXCEPT ![w][u] = "pending"]
  /\ Record(w, "WorkflowUpdateReceived", NoCommand, u, TRUE)
  /\ tasks' = Insert(tasks, {WakeUp(w, next_seq[w])})
  /\ UNCHANGED <<status, paused, canceled, parent, claims, inflight, faults>>

(***************************************************************************)
(* Closing an execution.                                                   *)
(***************************************************************************)

\* Faulty variants: children that have closed too; only children, not theirs.
WholeSubtrees(w) ==
  {D \in SUBSET Workflows :
     D = {x \in Workflows : parent[x].policy = "terminate" /\ parent[x].wf \in D \cup {w}}}
ChildrenOnly(w) ==
  {{x \in Workflows : Running(x) /\ parent[x].policy = "terminate" /\ parent[x].wf = w}}

\* _terminate_descendants walks the running children whose close policy is
\* 'terminate'; D is the set of executions it reaches from w.
Subtrees(w) ==
  {D \in SUBSET Workflows :
     D = {x \in Workflows : /\ Running(x)
                            /\ parent[x].policy = "terminate"
                            /\ parent[x].wf \in D \cup {w}}}

PendingTimers(w) ==
  {c \in {t.cmd : t \in DOMAIN tasks} :
     Timer(w, c) \in DOMAIN tasks /\ tasks[Timer(w, c)].status = "pending"}

\* _cancel_pending_timers numbers its TimerCanceled events consecutively from
\* next_seq in the order of the timers' commands.
TimerOrders(w) ==
  LET C == PendingTimers(w)
      S == next_seq[w] .. (next_seq[w] + Cardinality(C) - 1)
  IN {f \in [C -> S] : /\ \A c, d \in C : c < d => f[c] < f[d]
                       /\ \A n \in S : \E c \in C : f[c] = n}

TimersCanceled(f) == {Ev(f[c], "TimerCanceled", c, NoTag, TRUE) : c \in DOMAIN f}

\* Faulty variant: the number is not advanced past the canceled timers.
EndingTooEarly(w, type) == Plain(next_seq[w], type)

\* The terminal event that follows the canceled timers.
Ending(w, type) == Plain(next_seq[w] + Cardinality(PendingTimers(w)), type)

TerminalStatus == [completed |-> "WorkflowExecutionCompleted",
  failed |-> "WorkflowExecutionFailed", terminated |-> "WorkflowExecutionTerminated"]

ChildStatus == [completed |-> "ChildWorkflowCompleted",
  failed |-> "ChildWorkflowFailed", terminated |-> "ChildWorkflowTerminated"]

\* Faulty variants: a closed parent is notified; an abandoned child's is not.
NotifiedClosed(w, D) == {p \in Workflows : p = parent[w].wf /\ p \notin D \cup {w}}
NotifiedOwner(w, D) ==
  {p \in Workflows : p = parent[w].wf /\ parent[w].policy = "terminate"
                     /\ p \notin D \cup {w} /\ Running(p)}

\* _notify_parent_of_child_terminal: the parents to notify (at most one).
Notified(w, D) ==
  {p \in Workflows : p = parent[w].wf /\ p \notin D \cup {w} /\ Running(p)}

\* Faulty variant: leased rows survive.
OutstandingPending(S) == {t \in DOMAIN tasks : t.wf \in S /\ tasks[t].status = "pending"}

\* update tasks set status = 'dead' ... status in ('pending', 'leased')
Outstanding(S) == {t \in DOMAIN tasks : t.wf \in S /\ Open(t)}

\* Faulty variants: no update is rejected; a status that is not in the enum.
NotRejected(us) == us
RejectedMisspelt(us) == [u \in Updates |-> IF us[u] = "pending" THEN "closed" ELSE us[u]]

\* _reject_pending_updates
Rejected(us) == [u \in Updates |-> IF us[u] = "pending" THEN "rejected" ELSE us[u]]

(***************************************************************************)
(* What every way of closing w does, in one transaction: the events evs    *)
(* (k of them) end w's history, the executions of D are terminated with    *)
(* it, pending updates are rejected, open tasks die, a running parent is   *)
(* told and woken.  done is the committing workflow task, if any, and new  *)
(* the continuation, if any.                                               *)
(***************************************************************************)
CloseExecution(w, s, evs, k, D, new, done) ==
  LET P == Notified(w, D)
      gone == Outstanding(D \cup {w}) \ done
  IN
  /\ Unlocked(D \cup {w})
  /\ status' = [x \in Workflows |->
       IF x = w THEN s ELSE IF x \in D THEN "terminated"
       ELSE IF x \in new THEN "running" ELSE status[x]]
  /\ history' = [x \in Workflows |->
       IF x = w THEN history[x] \cup evs
       ELSE IF x \in D
         THEN history[x] \cup {Plain(next_seq[x], "WorkflowExecutionTerminated")}
       ELSE IF x \in P
         THEN history[x] \cup {Ev(next_seq[x], ChildStatus[s], parent[w].cmd, NoTag, TRUE)}
       ELSE IF x \in new THEN {Plain(1, "WorkflowExecutionStarted")}
       ELSE history[x]]
  /\ next_seq' = [x \in Workflows |->
       IF x = w THEN next_seq[x] + k
       ELSE IF x \in D \cup P \cup new THEN next_seq[x] + 1 ELSE next_seq[x]]
  /\ updates' = [x \in Workflows |->
       IF x \in D \cup {w} THEN Rejected(updates[x]) ELSE updates[x]]
  /\ tasks' = Insert(Close(Close(tasks, gone, "dead"), done, "completed"),
                     {WakeUp(p, next_seq[p]) : p \in P} \cup {WakeUp(x, 1) : x \in new})
  /\ UNCHANGED <<paused, canceled, parent, claims>>

\* terminate_workflow
TerminateWorkflow(w) ==
  /\ Running(w)
  /\ \E D \in Subtrees(w), f \in TimerOrders(w) :
       CloseExecution(w, "terminated",
         TimersCanceled(f) \cup {Ending(w, "WorkflowExecutionTerminated")},
         Cardinality(PendingTimers(w)) + 1, D, {}, {})
  /\ UNCHANGED <<inflight, faults>>

(***************************************************************************)
(* Pollers: lease_task, fire_due_timer, process_activity_timeout.  The     *)
(* first step is the SELECT ... FOR UPDATE OF t SKIP LOCKED, which reads   *)
(* the execution without locking it; the second the rest of the            *)
(* transaction, which re-reads only the execution's status.                *)
(***************************************************************************)

\* Faulty variant: attempts start although the execution is being canceled.
CandidateUnlessClosed(t) ==
  /\ t.kind \in {"workflow", "activity"}
  /\ tasks[t].status = "pending" /\ "visible" \in tasks[t].due
  /\ Running(t.wf) /\ ~paused[t.wf]

\* _lease_candidate
LeaseCandidate(t) ==
  /\ t.kind \in {"workflow", "activity"}
  /\ tasks[t].status = "pending" /\ "visible" \in tasks[t].due
  /\ Running(t.wf) /\ ~paused[t.wf]
  /\ t.kind = "activity" => ~canceled[t.wf]

\* The WHERE clause of fire_due_timer.
DueTimer(t) ==
  /\ t.kind = "timer"
  /\ tasks[t].status = "pending" /\ "visible" \in tasks[t].due
  /\ Running(t.wf) /\ ~paused[t.wf] /\ ~canceled[t.wf]

\* Faulty variant: an expired lease alone is not noticed.
OverdueDeadline(t) ==
  /\ t.kind = "activity"
  /\ Running(t.wf) /\ ~paused[t.wf]
  /\ \/ tasks[t].status = "pending" /\ "schedule_to_start" \in tasks[t].due
     \/ tasks[t].status = "leased" /\ tasks[t].due \ {"lease"} # {}

\* The WHERE clause of process_activity_timeout.
OverdueActivity(t) ==
  /\ t.kind = "activity"
  /\ Running(t.wf) /\ ~paused[t.wf]
  /\ \/ tasks[t].status = "pending" /\ "schedule_to_start" \in tasks[t].due
     \/ tasks[t].status = "leased" /\ tasks[t].due # {}

\* run_worker: one loop per role in each process, one task at a time in a loop.
Busy(kind) ==
  Cardinality({h \in inflight : h.task.kind = kind})
    + Cardinality({c \in claims : c.op = "lease" /\ c.task.kind = kind})

Maintaining == Cardinality({c \in claims : c.op # "lease"})

Claim(op, t) ==
  /\ ~Locked(t)
  /\ claims' = claims \cup {[op |-> op, task |-> t]}
  /\ UNCHANGED <<execVars, tasks, inflight, faults>>

ClaimLease(t) == LeaseCandidate(t) /\ Busy(t.kind) < Processes /\ Claim("lease", t)
ClaimTimer(t) == DueTimer(t) /\ Maintaining < Processes /\ Claim("fire", t)
ClaimTimeout(t) == OverdueActivity(t) /\ Maintaining < Processes /\ Claim("timeout", t)

\* The transaction of a poller is rolled back: a crash, a lost connection, or
\* the victim of a deadlock with a transaction that locked the execution first.
AbortClaim(c) ==
  /\ Fault
  /\ claims' = claims \ {c}
  /\ UNCHANGED <<execVars, tasks, inflight>>

\* Faulty variant: the row keeps its token.
SameToken(t) == tasks[t].token

\* uuid4: no lease of a row has the token of another.
FreshToken(t) == tasks[t].token + 1

\* The rest of lease_task: a fresh token; ActivityStarted for an activity.
Lease(c) ==
  LET t == c.task
      token == FreshToken(t)
  IN
  /\ c.op = "lease"
  /\ claims' = claims \ {c}
  /\ tasks' = [tasks EXCEPT ![t] = [status |-> "leased", token |-> token, due |-> {}]]
  /\ inflight' = inflight \cup {[task |-> t, token |-> token, replay |-> NotReplayed]}
  /\ UNCHANGED faults

LeaseWorkflowTask(c) ==
  /\ c.task.kind = "workflow" /\ Lease(c)
  /\ UNCHANGED execVars

LeaseActivity(c) ==
  /\ c.task.kind = "activity" /\ Lease(c)
  /\ Running(c.task.wf)
  /\ Record(c.task.wf, "ActivityStarted", c.task.cmd, NoTag, TRUE)
  /\ UNCHANGED <<status, paused, canceled, parent, updates>>

\* The rest of fire_due_timer.
FireTimer(c) ==
  LET w == c.task.wf IN
  /\ c.op = "fire"
  /\ Running(w)
  /\ claims' = claims \ {c}
  /\ Record(w, "TimerFired", c.task.cmd, NoTag, TRUE)
  /\ tasks' = Insert(Close(tasks, {c.task}, "completed"), {WakeUp(w, next_seq[w])})
  /\ UNCHANGED <<status, paused, canceled, parent, updates, inflight, faults>>

\* Faulty variants: one attempt too many; no retry; a retry after the last one.
IsFinalTooLate(t) == t.n > MaxAttempts
WakeInsteadOfRetry(t) == WakeUp(t.wf, next_seq[t.wf])
AlwaysRetry(t) == Attempt(t.wf, t.cmd, t.n + 1)

\* An attempt that did not succeed: a final failure is dead and wakes replay,
\* any other is completed and the next attempt scheduled.
IsFinal(t) == t.n >= MaxAttempts

TaskAfter(t) == IF IsFinal(t) THEN WakeUp(t.wf, next_seq[t.wf]) ELSE Attempt(t.wf, t.cmd, t.n + 1)

FailAttempt(t, type) ==
  /\ Running(t.wf)
  /\ Record(t.wf, type, t.cmd, NoTag, IsFinal(t))
  /\ tasks' = Insert(Close(tasks, {t}, IF IsFinal(t) THEN "dead" ELSE "completed"),
                     {TaskAfter(t)})
  /\ UNCHANGED <<status, paused, canceled, parent, updates>>

\* The rest of process_activity_timeout.
TimeOutActivity(c) ==
  /\ c.op = "timeout"
  /\ FailAttempt(c.task, "ActivityTimedOut")
  /\ claims' = claims \ {c}
  /\ UNCHANGED <<inflight, faults>>

\* reclaim_expired_workflow_tasks, one row at a time; it reads e.status only.
ReclaimWorkflowTask(t) ==
  /\ t.kind = "workflow"
  /\ tasks[t].status = "leased" /\ "lease" \in tasks[t].due
  /\ Running(t.wf)
  /\ ~Locked(t)
  /\ tasks' = [tasks EXCEPT ![t].status = "pending", ![t].due = {"visible"}]
  /\ UNCHANGED <<execVars, claims, inflight, faults>>

(***************************************************************************)
(* Workers: run_activity_task and run_workflow_task.                       *)
(***************************************************************************)

\* complete_activity and fail_activity: the lease is live and no deadline of
\* the attempt has passed.
Reporting(h) ==
  /\ h.task.kind = "activity"
  /\ Live(h) /\ tasks[h.task].due = {}
  /\ ~Locked(h.task)
  /\ inflight' = inflight \ {h}
  /\ UNCHANGED <<claims, faults>>

CompleteActivity(h) ==
  LET w == h.task.wf IN
  /\ Reporting(h)
  /\ Running(w)
  /\ Record(w, "ActivityCompleted", h.task.cmd, NoTag, TRUE)
  /\ tasks' = Insert(Close(tasks, {h.task}, "completed"), {WakeUp(w, next_seq[w])})
  /\ UNCHANGED <<status, paused, canceled, parent, updates>>

FailActivity(h) ==
  /\ Reporting(h)
  /\ FailAttempt(h.task, "ActivityFailed")

\* heartbeat_activity: a live lease and no cancellation; the heartbeat and
\* lease deadlines move into the future, start_to_close does not.
HeartbeatActivity(h) ==
  /\ h.task.kind = "activity"
  /\ Live(h)
  /\ ~Locked(h.task)
  /\ ~canceled[h.task.wf]
  /\ tasks' = [tasks EXCEPT ![h.task].due = @ \ {"heartbeat", "lease"}]
  /\ UNCHANGED <<execVars, claims, inflight, faults>>

\* load_workflow_replay_state and replay_workflow: the history read here may
\* have grown by the time the result is committed.
LoadAndReplay(h) ==
  LET w == h.task.wf
      r == Replay(w, history[w])
  IN
  /\ h.task.kind = "workflow" /\ h.replay = NotReplayed
  /\ Live(h)
  /\ Running(w)
  /\ r \in ReplayResult /\ r # NotReplayed
  /\ inflight' = (inflight \ {h}) \cup {[h EXCEPT !.replay = r]}
  /\ UNCHANGED <<execVars, tasks, claims, faults>>

\* release_workflow_task: the worker does not know the definition version.
ReleaseWorkflowTask(h) ==
  /\ h.task.kind = "workflow" /\ h.replay = NotReplayed
  /\ Live(h)
  /\ Running(h.task.wf)
  /\ Fault
  /\ tasks' = [tasks EXCEPT ![h.task].status = "pending", ![h.task].due = {}]
  /\ inflight' = inflight \ {h}
  /\ UNCHANGED <<execVars, claims>>

(***************************************************************************)
(* commit_workflow_replay.                                                 *)
(***************************************************************************)

\* Faulty variant: without the unique index.
AcceptableTwice(w, cs) ==
  /\ cs # <<>>
  /\ \A i \in DOMAIN cs :
       /\ cs[i].kind \in {"child", "continue"} =>
            Child(w, cs[i].cmd) \in Workflows /\ status[Child(w, cs[i].cmd)] = "absent"
       /\ cs[i].kind = "resolve" => cs[i].upd \in Updates /\ updates[w][cs[i].upd] = "pending"
       /\ cs[i].kind = "continue" => Len(cs) = 1 /\ parent[w].wf = NoWorkflow

\* What makes the database or the code refuse a list of commands: the unique
\* index one_scheduled_command, the primary key of workflow_executions, an
\* update that is not pending, a continuation that is not the only command or
\* that belongs to a child.
Acceptable(w, cs) ==
  /\ cs # <<>>
  /\ \A i \in DOMAIN cs :
       /\ \A e \in Scheduled(history[w]) : e.cmd # cs[i].cmd
       /\ \A j \in DOMAIN cs : cs[i].cmd = cs[j].cmd => i = j
       /\ cs[i].kind \in {"child", "continue"} =>
            Child(w, cs[i].cmd) \in Workflows /\ status[Child(w, cs[i].cmd)] = "absent"
       /\ cs[i].kind = "resolve" =>
            /\ cs[i].upd \in Updates /\ updates[w][cs[i].upd] = "pending"
            /\ \A j \in DOMAIN cs : cs[j].upd = cs[i].upd => i = j
       /\ cs[i].kind = "continue" => Len(cs) = 1 /\ parent[w].wf = NoWorkflow

\* A worker that holds a replay result and a live lease of a running execution.
Committing(h) ==
  /\ h.task.kind = "workflow"
  /\ Live(h)
  /\ Running(h.task.wf)
  /\ inflight' = inflight \ {h}
  /\ UNCHANGED faults

\* Faulty variants: a blocked execution is not ended; only a blocked one is.
EndsCanceledIfBusy(h) == canceled[h.task.wf] /\ h.replay.status = "commands"
EndsCanceledIfIdle(h) == canceled[h.task.wf] /\ h.replay.status = "blocked"

\* A pending cancellation ends an execution that is not finished.
EndsCanceled(h) == canceled[h.task.wf] /\ h.replay.status \in {"commands", "blocked"}

CommitCanceled(h) ==
  LET w == h.task.wf IN
  /\ EndsCanceled(h)
  /\ Committing(h)
  /\ \E D \in Subtrees(w), f \in TimerOrders(w) :
       CloseExecution(w, "terminated",
         TimersCanceled(f) \cup {Ending(w, "WorkflowExecutionTerminated")},
         Cardinality(PendingTimers(w)) + 1, D, {}, {h.task})

CommitResult(h) ==
  LET w == h.task.wf
      s == h.replay.status
  IN
  /\ s \in {"completed", "failed"}
  /\ Committing(h)
  /\ \E D \in Subtrees(w), f \in TimerOrders(w) :
       CloseExecution(w, s, TimersCanceled(f) \cup {Ending(w, TerminalStatus[s])},
         Cardinality(PendingTimers(w)) + 1, D, {}, {h.task})

CommitBlocked(h) ==
  /\ h.replay.status = "blocked" /\ ~EndsCanceled(h)
  /\ Committing(h)
  /\ tasks' = Close(tasks, {h.task}, "completed")
  /\ UNCHANGED <<execVars, claims>>

Emitted(h, kind) == {i \in DOMAIN h.replay.commands : h.replay.commands[i].kind = kind}

\* _commit_continue_as_new: no TimerCanceled events, timers just die.
CommitContinueAsNew(h) ==
  LET w == h.task.wf
      c == h.replay.commands[1]
      n == next_seq[w]
  IN
  /\ h.replay.status = "commands" /\ ~EndsCanceled(h)
  /\ Emitted(h, "continue") # {} /\ Acceptable(w, h.replay.commands)
  /\ Committing(h)
  /\ \E D \in Subtrees(w) :
       CloseExecution(w, "completed",
         {Ev(n, "WorkflowExecutionContinuedAsNew", c.cmd, c.fp, TRUE),
          Plain(n + 1, "WorkflowExecutionCompleted")},
         2, D, {Child(w, c.cmd)}, {h.task})

EventOf == [activity |-> "ActivityScheduled", timer |-> "TimerStarted",
  marker |-> "MarkerRecorded", child |-> "ChildWorkflowStarted",
  resolve |-> "WorkflowUpdateResolved", continue |-> "WorkflowExecutionContinuedAsNew"]

\* Faulty variant: the fingerprint is not stored.
CommandEventUnsigned(n, c) == Ev(n, EventOf[c.kind], c.cmd, NoTag, c.accepted)

\* The event a command is recorded as; a resolution is about its update.
CommandEvent(n, c) ==
  Ev(n, EventOf[c.kind], c.cmd, IF c.kind = "resolve" THEN c.upd ELSE c.fp, c.accepted)

\* The parent columns of the execution a child command starts.
ParentLink(w, c) == [wf |-> w, cmd |-> c.cmd, policy |-> c.policy]

\* Faulty variant: a resolution does not wake replay.
MarkerOnly(h) == Emitted(h, "marker")

\* The commands that need no outside event to be continued from.
MarkerRecorded(h) == Emitted(h, "marker") \cup Emitted(h, "resolve")

\* One event per command, one task per activity and timer, one execution per
\* child, and one wake-up when a marker or a resolution was recorded.
CommitCommands(h) ==
  LET w == h.task.wf
      cs == h.replay.commands
      n == next_seq[w] + Len(cs)
      new == {Child(w, cs[i].cmd) : i \in Emitted(h, "child")}
      upd == {cs[i].upd : i \in Emitted(h, "resolve")}
  IN
  /\ h.replay.status = "commands" /\ ~EndsCanceled(h)
  /\ Emitted(h, "continue") = {} /\ Acceptable(w, cs)
  /\ Committing(h)
  /\ status' = [x \in Workflows |-> IF x \in new THEN "running" ELSE status[x]]
  /\ parent' = [x \in Workflows |->
       IF x \in new
       THEN LET i == CHOOSE j \in Emitted(h, "child") : x = Child(w, cs[j].cmd)
            IN ParentLink(w, cs[i])
       ELSE parent[x]]
  /\ history' = [x \in Workflows |->
       IF x = w THEN history[x] \cup
         {CommandEvent(next_seq[w] + i - 1, cs[i]) : i \in DOMAIN cs}
       ELSE IF x \in new THEN {Plain(1, "WorkflowExecutionStarted")} ELSE history[x]]
  /\ next_seq' = [x \in Workflows |-> IF x = w THEN n ELSE IF x \in new THEN 2 ELSE next_seq[x]]
  /\ updates' = [updates EXCEPT ![w] = [u \in Updates |->
       IF u \notin upd THEN @[u]
       ELSE IF \E i \in DOMAIN cs : cs[i].upd = u /\ cs[i].accepted
       THEN "completed" ELSE "rejected"]]
  /\ tasks' = Insert(Close(tasks, {h.task}, "completed"),
       {Attempt(w, cs[i].cmd, 1) : i \in Emitted(h, "activity")}
       \cup {Timer(w, cs[i].cmd) : i \in Emitted(h, "timer")}
       \cup {WakeUp(x, 1) : x \in new}
       \cup {WakeUp(w, n - 1) : i \in MarkerRecorded(h)})
  /\ UNCHANGED <<paused, canceled, claims>>

(***************************************************************************)
(* Failures.                                                               *)
(***************************************************************************)

\* The worker step raises and the task stays leased: a stale lease, a closed
\* execution, a diverged replay, refused commands; and any activity attempt,
\* because its report comes after a deadline, because its heartbeat learned of
\* a cancellation, or because the release the worker runs does not register
\* the type of the activity (which releases run is not part of this module).
Raises(h) ==
  \/ ~Live(h)
  \/ h.task.kind = "activity"
  \/ h.replay.status = "diverged"
  \/ h.replay.status = "commands" /\ ~EndsCanceled(h)
       /\ ~Acceptable(h.task.wf, h.replay.commands)

Abandon(h) ==
  /\ Raises(h)
  /\ inflight' = inflight \ {h}
  /\ UNCHANGED <<execVars, tasks, claims, faults>>

\* The worker process dies and forgets what it holds.
Crash(h) ==
  /\ Fault
  /\ inflight' = inflight \ {h}
  /\ UNCHANGED <<execVars, tasks, claims>>

\* The deadlines of a row.  schedule_to_start runs from visible_at.  Workers do
\* not renew the leases of workflow tasks, so only a heartbeat moves a deadline.
DeadlinesOf(t) ==
  IF tasks[t].status = "pending"
  THEN {"visible"} \cup (IF t.kind = "activity" THEN Deadlines \cap {"schedule_to_start"} ELSE {})
  ELSE {"lease"} \cup
       (IF t.kind = "activity" THEN Deadlines \cap {"start_to_close", "heartbeat"} ELSE {})

Held(t) == \E h \in inflight : h.task = t /\ h.token = tasks[t].token

Passes(t, d) ==
  /\ Open(t)
  /\ d \in DeadlinesOf(t) \ tasks[t].due
  /\ d = "schedule_to_start" => "visible" \in tasks[t].due
  /\ tasks' = [tasks EXCEPT ![t].due = @ \cup {d}]
  /\ UNCHANGED <<execVars, claims, inflight>>

\* A deadline passes: the database clock moves on.
Elapse(t, d) ==
  /\ tasks[t].status = "leased" => ~Held(t)
  /\ Passes(t, d)
  /\ UNCHANGED faults

\* A deadline of a lease passes while its worker is still busy with the task.
Stall(t, d) ==
  /\ tasks[t].status = "leased" /\ Held(t)
  /\ Passes(t, d)
  /\ Fault

(***************************************************************************)
(* Specification.                                                          *)
(***************************************************************************)

ClientStep ==
  \/ \E w \in Roots : StartWorkflow(w)
  \/ \E w \in Operated, x \in Roots : RetryWorkflow(w, x)
  \/ \E w \in Operated :
       \/ PauseWorkflow(w) \/ ResumeWorkflow(w)
       \/ RequestCancellation(w) \/ TerminateWorkflow(w)
       \/ \E s \in Signals : SendSignal(w, s)
       \/ \E u \in Updates : SendUpdate(w, u)

PollStep ==
  \/ \E t \in DOMAIN tasks :
       ClaimLease(t) \/ ClaimTimer(t) \/ ClaimTimeout(t) \/ ReclaimWorkflowTask(t)
  \/ \E c \in claims :
       LeaseWorkflowTask(c) \/ LeaseActivity(c) \/ FireTimer(c) \/ TimeOutActivity(c)

CommitStep(h) ==
  \/ CommitCanceled(h) \/ CommitResult(h) \/ CommitBlocked(h)
  \/ CommitContinueAsNew(h) \/ CommitCommands(h)

WorkerStep ==
  \E h \in inflight :
    CompleteActivity(h) \/ FailActivity(h) \/ LoadAndReplay(h) \/ CommitStep(h) \/ Abandon(h)

TimeStep == \E t \in DOMAIN tasks, d \in AllDeadlines : Elapse(t, d)

FaultStep ==
  \/ \E c \in claims : AbortClaim(c)
  \/ \E h \in inflight : ReleaseWorkflowTask(h) \/ Crash(h)
  \/ \E t \in DOMAIN tasks, d \in AllDeadlines : Stall(t, d)

\* What the running system does by itself.
EngineStep == PollStep \/ WorkerStep \/ TimeStep

Next ==
  \/ ClientStep \/ EngineStep \/ FaultStep
  \/ \E h \in inflight : HeartbeatActivity(h)

Spec == Init /\ [][Next]_vars

\* Every worker loop polls until it is stopped and survives the exceptions of
\* its steps (_run_loop), and time passes: the engine never stands still while
\* it can take a step.  Nothing is assumed of clients, heartbeats and faults.
LiveSpec == Spec /\ WF_vars(EngineStep)

(***************************************************************************)
(* Safety.                                                                 *)
(***************************************************************************)

Closed(w) == status[w] \in {"completed", "failed", "terminated"}

\* HistoryIndex accepts every committed history (history.py raises
\* InvalidHistoryError otherwise and the execution can never be replayed
\* again), and next_seq is the number of the next event.
HistoryAccepted ==
  \A w \in Workflows : status[w] # "absent" =>
    IndexAccepts(history[w]) /\ next_seq[w] = Cardinality(history[w]) + 1

\* The status column agrees with the history: an execution is closed exactly
\* when its last event is terminal, whichever of termination, cancellation,
\* completion or a closing parent got there first.
StatusMatchesHistory ==
  \A w \in Workflows :
    /\ Closed(w) <=> \E e \in history[w] : e.type \in TerminalEvents
    /\ Closed(w) => \E e \in history[w] :
         e.seq = next_seq[w] - 1 /\ e.type = TerminalStatus[status[w]]

\* Nothing of a closed execution can still be leased, fired, timed out,
\* completed or committed: all its task rows are closed and no poller holds one.
ClosedFenced ==
  /\ \A t \in DOMAIN tasks : Open(t) => Running(t.wf)
  /\ \A c \in claims : c.task \in DOMAIN tasks /\ Open(c.task)

\* A caller waiting on an update is answered at the latest when the execution
\* closes, and the history records an answer exactly for resolved updates.
UpdatesSettled ==
  \A w \in Workflows, u \in Updates :
    /\ updates[w][u] = "pending" => Running(w)
    /\ (\E e \in history[w] : e.type = "WorkflowUpdateResolved" /\ e.tag = u)
         => updates[w][u] \in {"completed", "rejected"}
    /\ updates[w][u] = "completed" =>
         \E e \in history[w] : e.type = "WorkflowUpdateResolved" /\ e.tag = u /\ e.final

\* No child with close policy 'terminate' outlives its parent.
NoOrphans ==
  \A x \in Workflows :
    Running(x) /\ parent[x].wf \in Workflows /\ parent[x].policy = "terminate"
      => Running(parent[x].wf)

\* A running parent knows of every child that has closed, and of no other:
\* otherwise it waits for that child forever, or goes on without it.
ParentInformed ==
  \A x \in Workflows :
    LET p == parent[x].wf IN
    p \in Workflows =>
      /\ \E e \in history[p] : e.type = "ChildWorkflowStarted" /\ e.cmd = parent[x].cmd
      /\ Running(p) =>
           (Closed(x) <=> \E e \in history[p] : e.type \in ChildOutcomes /\ e.cmd = parent[x].cmd)

\* No activity is lost or run by two live attempts: an undecided activity of a
\* running execution that is not being canceled has exactly one open attempt,
\* a decided one has none.
OneAttempt ==
  \A w \in Workflows : Running(w) =>
    \A s \in history[w] : s.type = "ActivityScheduled" =>
      LET attempts == {t \in DOMAIN tasks : /\ t.wf = w /\ t.kind = "activity"
                                            /\ t.cmd = s.cmd /\ Open(t)}
          decided == \E e \in history[w] : Decides(e) /\ e.cmd = s.cmd
      IN IF decided THEN attempts = {}
         ELSE \/ Cardinality(attempts) = 1
              \/ canceled[w] /\ attempts = {}

\* A timer that has not ended is waiting to fire: none is lost.
OneTimer ==
  \A w \in Workflows : Running(w) =>
    \A s \in history[w] : s.type = "TimerStarted" =>
      tasks[Timer(w, s.cmd)].status =
        IF \E e \in history[w] : e.type \in TimerOutcomes /\ e.cmd = s.cmd
        THEN "completed" ELSE "pending"

\* An activity is attempted at most max_attempts times, however its attempts
\* end: failures, timeouts in either phase, crashes of its workers.
AttemptsBounded ==
  \A w \in Workflows : \A s \in history[w] : s.type = "ActivityScheduled" =>
    Cardinality({e \in history[w] : e.type = "ActivityStarted" /\ e.cmd = s.cmd}) <= MaxAttempts

\* After a cancellation request no attempt is started, not even by a poller
\* that had read the execution before the request.
NoStartAfterCancel ==
  \A w \in Workflows : \A e, f \in history[w] :
    e.type = "WorkflowCancellationRequested" /\ f.type = "ActivityStarted" => f.seq < e.seq

\* At most one worker can act on a task, whatever others still hold in memory.
SingleOwner ==
  \A g, h \in inflight : Live(g) /\ Live(h) /\ g.task = h.task => g = h

\* A terminal execution never becomes runnable again, and its record is final.
ClosedForever ==
  [][\A w \in Workflows : Closed(w) =>
       /\ status'[w] = status[w] /\ history'[w] = history[w]
       /\ next_seq'[w] = next_seq[w] /\ updates'[w] = updates[w]]_vars

(***************************************************************************)
(* The abstract specification.                                             *)
(***************************************************************************)

\* An execution ends with its parent if its close policy says so.
Owner == [x \in Workflows |->
  IF parent[x].policy = "terminate" THEN parent[x].wf ELSE NoWorkflow]

L == INSTANCE Lifecycle WITH
  Executions <- Workflows, Requests <- Updates, Nobody <- NoWorkflow,
  answers <- updates, owner <- Owner

\* Clients can reason about executions as Lifecycle describes them: no step of
\* a client, poller, worker, timer or fault, however stale what it acts on,
\* does more to the executions than one of its actions.  In particular a replay
\* that is committed after a cancellation request starts and answers nothing.
ImplementsLifecycle == L!Spec

(***************************************************************************)
(* Replay and the queue.                                                   *)
(***************************************************************************)

Decision(w) == Replay(w, history[w])

\* What is committed is what replaying the committed history decides, even
\* though the replay ran on a history that has grown since: the commands
\* recorded by a step are those the history before it calls for, and a result
\* is the result of that history.
CommitsMatchReplay ==
  [][\A w \in Workflows : status[w] = "running" =>
       LET new == Scheduled(history'[w]) \ Scheduled(history[w]) IN
       /\ new # {} =>
            /\ Decision(w).status = "commands"
            /\ {<<e.cmd, e.tag>> : e \in new} =
               {<<Decision(w).commands[i].cmd,
                  IF Decision(w).commands[i].kind = "resolve"
                  THEN Decision(w).commands[i].upd ELSE Decision(w).commands[i].fp>>
                  : i \in DOMAIN Decision(w).commands}
       /\ new = {} /\ status'[w] \in {"completed", "failed"} =>
            Decision(w).status = status'[w]]_vars

Actionable == {"commands", "completed", "failed"}

\* What a worker has decided to commit stays what the history calls for while
\* signals, outcomes, requests and pauses are appended to it; only a commit
\* takes the code further.  A worker relies on this when it commits to a
\* history that is longer than the one it replayed.
DecisionsStable ==
  [][\A w \in Workflows :
       /\ Running(w) /\ Running(w)' /\ Decision(w).status \in Actionable
       /\ Scheduled(history'[w]) = Scheduled(history[w])
       => Decision(w)' = Decision(w)]_vars

\* replay_check against the definition the execution runs: the report says
\* compatible.
ReplayCheck(w) ==
  /\ Decision(w).status # "diverged"
  /\ status[w] \in {"completed", "failed"} => Decision(w).status = status[w]

\* A history passes the replay check against its own code at every moment, open
\* or closed: although the commit that closed it was decided on a shorter
\* history and itself appended canceled timers, and although signals, outcomes
\* and requests arrived in between.
RecordReplays == \A w \in Workflows : status[w] # "absent" => ReplayCheck(w)

\* Replaying an execution with the code that wrote its history never diverges.
NeverDiverges ==
  \A w \in Workflows : Running(w) => Decision(w).status # "diverged"

\* An execution that replay could move forward has a workflow task that will
\* make a worker replay it.
NoLostWakeUp ==
  \A w \in Workflows : Running(w) /\ Decision(w).status \in {"commands", "completed", "failed"} =>
    \E t \in DOMAIN tasks : t.wf = w /\ t.kind = "workflow" /\ Open(t)

\* The same, where a pending timer, which enqueues a workflow task when it
\* fires, also counts.
WakeUpOrTimer ==
  \A w \in Workflows : Running(w) /\ Decision(w).status \in {"commands", "completed", "failed"} =>
    \E t \in DOMAIN tasks : t.wf = w /\ t.kind \in {"workflow", "timer"} /\ Open(t)

(***************************************************************************)
(* Liveness.                                                               *)
(***************************************************************************)

\* Executions whose code waits for nothing but activities, timers, markers and
\* children all close in the end, whatever workers crash, stall or do not know
\* an activity on the way.
EventuallyCloses == []<>(\A w \in Workflows : ~Running(w))

\* A cancellation request closes an execution even if its code waits for a
\* signal that never comes.
CancellationTakesEffect == \A w \in Workflows : canceled[w] ~> Closed(w)

=============================================================================
