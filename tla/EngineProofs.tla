---------------------------- MODULE EngineProofs ----------------------------
(***************************************************************************)
(* Theorems about Engine, for every set of executions, every workflow code *)
(* and every number of worker processes, attempts, pauses and faults.      *)
(***************************************************************************)
EXTENDS Engine, FiniteSetTheorems, TLAPS

(***************************************************************************)
(* The inductive invariant.                                                *)
(***************************************************************************)

TasksOK(ts) ==
  /\ DOMAIN ts \in SUBSET TaskId
  /\ ts \in [DOMAIN ts -> Row]
  /\ IsFiniteSet(DOMAIN ts)

\* What a poller has locked stays what it was when it was selected: rows to be
\* leased or fired are pending, and a row is locked by one poller at a time.
ClaimsOK ==
  \A c \in claims :
    /\ c.task \in DOMAIN tasks
    /\ c.op = "lease" => c.task.kind # "timer" /\ tasks[c.task].status = "pending"
    /\ c.op = "fire" => c.task.kind = "timer" /\ tasks[c.task].status = "pending"
    /\ c.op = "timeout" => c.task.kind = "activity" /\ Open(c.task)
    /\ \A d \in claims : d.task = c.task => d = c

IInv ==
  /\ TypeOK
  /\ IsFiniteSet(DOMAIN tasks)
  /\ \A t \in DOMAIN tasks : Open(t) => Running(t.wf)
  /\ ClaimsOK

(***************************************************************************)
(* The statements.                                                         *)
(***************************************************************************)

\* New rows are well formed.
LEMMA NewRowType == \A t : NewRow(t) \in Row
  BY DEF NewRow, Row, AllDeadlines

\* insert into tasks keeps what is there and adds pending rows.
LEMMA InsertOK ==
  ASSUME NEW ts, TasksOK(ts), NEW ids \in SUBSET TaskId, IsFiniteSet(ids)
  PROVE  /\ TasksOK(Insert(ts, ids))
         /\ DOMAIN Insert(ts, ids) = DOMAIN ts \cup ids
         /\ \A t \in DOMAIN ts : Insert(ts, ids)[t] = ts[t]
         /\ \A t \in ids \ DOMAIN ts : Insert(ts, ids)[t] = NewRow(t)
<1>1. IsFiniteSet(DOMAIN ts \cup ids)
  BY FS_Union DEF TasksOK
<1> QED
  BY <1>1, NewRowType DEF TasksOK, Insert

\* Closing rows changes the status of those rows only.
LEMMA CloseOK ==
  ASSUME NEW ts, TasksOK(ts), NEW ids, NEW s \in {"completed", "dead"}
  PROVE  /\ TasksOK(Close(ts, ids, s))
         /\ DOMAIN Close(ts, ids, s) = DOMAIN ts
         /\ \A t \in DOMAIN ts \ ids : Close(ts, ids, s)[t] = ts[t]
         /\ \A t \in DOMAIN ts \cap ids : Close(ts, ids, s)[t].status = s
<1>1. \A t \in DOMAIN ts : [ts[t] EXCEPT !.status = s, !.due = {}] \in Row
  BY DEF TasksOK, Row
<1>2. \A t \in DOMAIN ts : [ts[t] EXCEPT !.status = s, !.due = {}].status = s
  BY DEF TasksOK, Row
<1> QED
  BY <1>1, <1>2 DEF TasksOK, Close

\* The types of events the engine writes are event types.
LEMMA EventTypesOf ==
  /\ ScheduleEvents \subseteq EventTypes
  /\ TerminalEvents \subseteq EventTypes
  /\ ActivityOutcomes \subseteq EventTypes
  /\ TimerOutcomes \subseteq EventTypes
  /\ ChildOutcomes \subseteq EventTypes
  /\ {"WorkflowExecutionStarted", "WorkflowExecutionPaused",
      "WorkflowExecutionResumed", "WorkflowCancellationRequested", "ActivityStarted",
      "SignalReceived", "WorkflowUpdateReceived"} \subseteq EventTypes
  BY DEF EventTypes

Tags == Fingerprints \cup Signals \cup Updates \cup {NoTag}

\* insert into history_events
LEMMA EvType ==
  ASSUME NEW n \in Nat, NEW type \in EventTypes, NEW cmd \in Nat \cup {NoCommand},
         NEW tag \in Tags, NEW final \in BOOLEAN
  PROVE  Ev(n, type, cmd, tag, final) \in Event
  BY DEF Ev, Event, Tags

\* Record keeps histories and sequence numbers typed.
LEMMA RecordType ==
  ASSUME TypeOK, NEW w \in Workflows, NEW type \in EventTypes, NEW cmd \in Nat \cup {NoCommand},
         NEW tag \in Tags, NEW final \in BOOLEAN, Record(w, type, cmd, tag, final)
  PROVE  /\ history' \in [Workflows -> SUBSET Event]
         /\ next_seq' \in [Workflows -> Nat \ {0}]
<1>1. next_seq[w] \in Nat
  BY DEF TypeOK
<1>2. Ev(next_seq[w], type, cmd, tag, final) \in Event
  BY <1>1, EvType
<1> QED
  BY <1>2 DEF TypeOK, Record

\* The keys of the rows the engine inserts.
LEMMA KeyTypes ==
  /\ \A w \in Workflows, n \in Nat : WakeUp(w, n) \in TaskId
  /\ \A w \in Workflows, c \in Nat \cup {NoCommand}, n \in Nat : Attempt(w, c, n) \in TaskId
  /\ \A w \in Workflows, c \in Nat \cup {NoCommand} : Timer(w, c) \in TaskId
  BY DEF WakeUp, Attempt, Timer, TaskId

\* A single row is a finite set of rows, as the lemmas on tables require.
LEMMA OneTask ==
  ASSUME NEW t \in TaskId
  PROVE  {t} \in SUBSET TaskId /\ IsFiniteSet({t})
<1>1. IsFiniteSet({t})
  BY FS_Singleton
<1> QED
  BY <1>1

(***************************************************************************)
(* A step that closes no execution and no row that a poller has locked     *)
(* keeps the fences.                                                       *)
(***************************************************************************)
LEMMA FenceStep ==
  ASSUME IInv, claims' \subseteq claims,
         \A x \in Workflows : Running(x) => status'[x] = "running",
         DOMAIN tasks' \subseteq TaskId,
         \A t \in DOMAIN tasks' :
           \/ status'[t.wf] = "running"
           \/ t \in DOMAIN tasks /\ (tasks'[t].status \in {"pending", "leased"} => Open(t)),
         \A c \in claims' : c.task \in DOMAIN tasks'
                            /\ tasks'[c.task].status = tasks[c.task].status
  PROVE  /\ \A t \in DOMAIN tasks' : Open(t)' => Running(t.wf)'
         /\ ClaimsOK'
<1>1. \A t \in DOMAIN tasks' : Open(t)' => Running(t.wf)'
  BY DEF IInv, Open, Running, TaskId
<1>2. ClaimsOK'
  BY DEF IInv, ClaimsOK, Open
<1> QED
  BY <1>1, <1>2

\* The usual step: close some unlocked rows, insert others of running executions.
LEMMA QueueStep ==
  ASSUME IInv, NEW S, NEW s \in {"completed", "dead"},
         NEW ids \in SUBSET TaskId, IsFiniteSet(ids),
         tasks' = Insert(Close(tasks, S, s), ids),
         claims' \subseteq claims,
         \A c \in claims' : c.task \notin S,
         \A x \in Workflows : Running(x) => status'[x] = "running",
         \A t \in ids : status'[t.wf] = "running"
  PROVE  /\ TasksOK(tasks')
         /\ \A t \in DOMAIN tasks' : Open(t)' => Running(t.wf)'
         /\ ClaimsOK'
<1> DEFINE mid == Close(tasks, S, s)
<1>0. TasksOK(tasks)
  BY DEF IInv, TypeOK, TasksOK
<1>1. /\ TasksOK(mid) /\ DOMAIN mid = DOMAIN tasks
      /\ \A t \in DOMAIN tasks \ S : mid[t] = tasks[t]
      /\ \A t \in DOMAIN tasks \cap S : mid[t].status = s
  BY <1>0, CloseOK
<1> HIDE DEF mid
<1>2. /\ TasksOK(Insert(mid, ids)) /\ DOMAIN Insert(mid, ids) = DOMAIN mid \cup ids
      /\ \A t \in DOMAIN mid : Insert(mid, ids)[t] = mid[t]
  BY <1>1, InsertOK
<1>3. /\ TasksOK(tasks') /\ DOMAIN tasks' = DOMAIN tasks \cup ids
      /\ \A t \in DOMAIN tasks \ S : tasks'[t] = tasks[t]
      /\ \A t \in DOMAIN tasks \cap S : tasks'[t].status = s
  BY <1>1, <1>2 DEF mid
<1>4. DOMAIN tasks' \subseteq TaskId
  BY <1>3 DEF TasksOK
<1>5. \A t \in DOMAIN tasks' :
        \/ status'[t.wf] = "running"
        \/ t \in DOMAIN tasks /\ (tasks'[t].status \in {"pending", "leased"} => Open(t))
  BY <1>3 DEF Open
<1>6. \A c \in claims' : c.task \in DOMAIN tasks' /\ tasks'[c.task].status = tasks[c.task].status
  BY <1>3 DEF IInv, ClaimsOK
<1> QED
  BY <1>3, <1>4, <1>5, <1>6, FenceStep

\* Closing no row leaves the table as it is.
LEMMA NothingClosed ==
  ASSUME IInv
  PROVE  Close(tasks, {}, "dead") = tasks
  BY DEF Close, IInv, TypeOK

\* The same without a row to close.
LEMMA InsertStep ==
  ASSUME IInv, NEW ids \in SUBSET TaskId, IsFiniteSet(ids),
         tasks' = Insert(tasks, ids),
         claims' \subseteq claims,
         \A x \in Workflows : Running(x) => status'[x] = "running",
         \A t \in ids : status'[t.wf] = "running"
  PROVE  /\ TasksOK(tasks')
         /\ \A t \in DOMAIN tasks' : Open(t)' => Running(t.wf)'
         /\ ClaimsOK'
  BY NothingClosed, QueueStep

(***************************************************************************)
(* Client operations.                                                      *)
(***************************************************************************)
LEMMA StartOK ==
  ASSUME IInv, NEW w \in Workflows, StartWorkflow(w)
  PROVE  IInv'
<1>1. /\ history' \in [Workflows -> SUBSET Event]
      /\ next_seq' \in [Workflows -> Nat \ {0}]
  <2>1. Record(w, "WorkflowExecutionStarted", NoCommand, NoTag, TRUE)
    BY DEF StartWorkflow
  <2> QED BY <2>1, RecordType, EventTypesOf DEF Tags, IInv
<1>2. {WakeUp(w, 1)} \in SUBSET TaskId /\ IsFiniteSet({WakeUp(w, 1)})
  BY KeyTypes, OneTask
<1>3. \A t \in {WakeUp(w, 1)} : status'[t.wf] = "running"
  BY DEF WakeUp, StartWorkflow, IInv, TypeOK
<1>4. \A x \in Workflows : Running(x) => status'[x] = "running"
  BY DEF StartWorkflow, IInv, TypeOK, Running
<1>5. /\ TasksOK(tasks')
      /\ \A t \in DOMAIN tasks' : Open(t)' => Running(t.wf)'
      /\ ClaimsOK'
  BY <1>2, <1>3, <1>4, InsertStep DEF StartWorkflow
<1>6. TypeOK'
  BY <1>1, <1>5 DEF TypeOK, IInv, StartWorkflow, TasksOK
<1> QED
  BY <1>5, <1>6 DEF IInv, TasksOK

\* pause_workflow keeps the inductive invariant.
LEMMA PauseOK ==
  ASSUME IInv, NEW w \in Workflows, PauseWorkflow(w)
  PROVE  IInv'
<1>1. Record(w, "WorkflowExecutionPaused", NoCommand, NoTag, TRUE)
  BY DEF PauseWorkflow
<1>2. TypeOK'
  BY <1>1, RecordType, EventTypesOf DEF Tags, IInv, TypeOK, PauseWorkflow
<1> QED
  BY <1>2 DEF IInv, PauseWorkflow, Open, Running, ClaimsOK

\* resume_workflow keeps the inductive invariant.
LEMMA ResumeOK ==
  ASSUME IInv, NEW w \in Workflows, ResumeWorkflow(w)
  PROVE  IInv'
<1>1. Record(w, "WorkflowExecutionResumed", NoCommand, NoTag, TRUE)
  BY DEF ResumeWorkflow
<1>2. /\ DOMAIN tasks' = DOMAIN tasks
      /\ \A t \in DOMAIN tasks : tasks'[t] \in Row /\ tasks'[t].status = tasks[t].status
      /\ tasks' = [t \in DOMAIN tasks |-> tasks'[t]]
  BY DEF ResumeWorkflow, IInv, TypeOK, Row
<1>3. TypeOK'
  BY <1>1, <1>2, RecordType, EventTypesOf DEF Tags, IInv, TypeOK, ResumeWorkflow
<1> QED
  BY <1>2, <1>3 DEF IInv, ResumeWorkflow, Open, Running, ClaimsOK

\* What recording an event and enqueueing a wake-up for it amounts to.
LEMMA WakeOK ==
  ASSUME IInv, NEW w \in Workflows, Running(w), status' = status,
         NEW S, NEW s \in {"completed", "dead"},
         tasks' = Insert(Close(tasks, S, s), {WakeUp(w, next_seq[w])}),
         claims' \subseteq claims, \A c \in claims' : c.task \notin S
  PROVE  /\ TasksOK(tasks')
         /\ \A t \in DOMAIN tasks' : Open(t)' => Running(t.wf)'
         /\ ClaimsOK'
<1>1. WakeUp(w, next_seq[w]) \in TaskId
  BY KeyTypes DEF IInv, TypeOK
<1>2. \A t \in {WakeUp(w, next_seq[w])} : status'[t.wf] = "running"
  BY DEF WakeUp, Running
<1>3. \A x \in Workflows : Running(x) => status'[x] = "running"
  BY DEF Running
<1> QED
  BY <1>1, <1>2, <1>3, OneTask, QueueStep

\* request_workflow_cancellation: the rows it kills are locked by no poller.
LEMMA CancelOK ==
  ASSUME IInv, NEW w \in Workflows, RequestCancellation(w)
  PROVE  IInv'
<1>1. Record(w, "WorkflowCancellationRequested", NoCommand, NoTag, TRUE)
  BY DEF RequestCancellation
<1>2. \A c \in claims' : c.task \notin PendingActivities(w)
  BY DEF RequestCancellation, Locked
<1>3. /\ TasksOK(tasks')
      /\ \A t \in DOMAIN tasks' : Open(t)' => Running(t.wf)'
      /\ ClaimsOK'
  BY <1>2, WakeOK DEF RequestCancellation
<1>4. TypeOK'
  BY <1>1, <1>3, RecordType, EventTypesOf
     DEF Tags, TasksOK, IInv, TypeOK, RequestCancellation
<1> QED
  BY <1>3, <1>4 DEF IInv, TasksOK

\* send_signal keeps the inductive invariant.
LEMMA SignalOK ==
  ASSUME IInv, NEW w \in Workflows, NEW s \in Signals, SendSignal(w, s)
  PROVE  IInv'
<1>1. Record(w, "SignalReceived", NoCommand, s, TRUE)
  BY DEF SendSignal
<1>3. /\ TasksOK(tasks')
      /\ \A t \in DOMAIN tasks' : Open(t)' => Running(t.wf)'
      /\ ClaimsOK'
  BY NothingClosed, WakeOK DEF SendSignal
<1>4. TypeOK'
  BY <1>1, <1>3, RecordType, EventTypesOf DEF Tags, TasksOK, IInv, TypeOK, SendSignal
<1> QED
  BY <1>3, <1>4 DEF IInv, TasksOK

\* send_update keeps the inductive invariant.
LEMMA UpdateOK ==
  ASSUME IInv, NEW w \in Workflows, NEW u \in Updates, SendUpdate(w, u)
  PROVE  IInv'
<1>1. Record(w, "WorkflowUpdateReceived", NoCommand, u, TRUE)
  BY DEF SendUpdate
<1>2. updates' \in [Workflows -> [Updates -> {"none", "pending", "completed", "rejected"}]]
  BY DEF SendUpdate, IInv, TypeOK
<1>3. /\ TasksOK(tasks')
      /\ \A t \in DOMAIN tasks' : Open(t)' => Running(t.wf)'
      /\ ClaimsOK'
  BY NothingClosed, WakeOK DEF SendUpdate
<1>4. TypeOK'
  BY <1>1, <1>2, <1>3, RecordType, EventTypesOf DEF Tags, TasksOK, IInv, TypeOK, SendUpdate
<1> QED
  BY <1>3, <1>4 DEF IInv, TasksOK

(***************************************************************************)
(* Pollers.                                                                *)
(***************************************************************************)
LEMMA ClaimOK ==
  ASSUME IInv, NEW t \in DOMAIN tasks, ClaimLease(t) \/ ClaimTimer(t) \/ ClaimTimeout(t)
  PROVE  IInv'
<1>1. PICK op \in {"lease", "fire", "timeout"} :
        /\ Claim(op, t)
        /\ op = "lease" => t.kind # "timer" /\ tasks[t].status = "pending"
        /\ op = "fire" => t.kind = "timer" /\ tasks[t].status = "pending"
        /\ op = "timeout" => t.kind = "activity" /\ Open(t)
  BY DEF ClaimLease, ClaimTimer, ClaimTimeout, LeaseCandidate, DueTimer, OverdueActivity, Open
<1>2. TypeOK'
  BY <1>1 DEF Claim, IInv, TypeOK, execVars
<1>3. ClaimsOK'
  BY <1>1 DEF Claim, IInv, ClaimsOK, Locked, Open
<1> QED
  BY <1>1, <1>2, <1>3 DEF Claim, IInv, Open, Running, execVars

\* A rolled-back poller only gives its lock up.
LEMMA AbortOK ==
  ASSUME IInv, NEW c \in claims, AbortClaim(c)
  PROVE  IInv'
<1>1. TypeOK'
  BY DEF AbortClaim, Fault, IInv, TypeOK, execVars
<1> QED
  BY <1>1 DEF AbortClaim, IInv, Open, Running, ClaimsOK, execVars

\* The second step of lease_task: the claimed row is still open, so its execution runs.
LEMMA LeaseOK ==
  ASSUME IInv, NEW c \in claims, Lease(c)
  PROVE  /\ TasksOK(tasks')
         /\ claims' \in SUBSET [op : {"lease", "fire", "timeout"}, task : TaskId]
         /\ inflight' \in SUBSET [task : TaskId, token : Nat, replay : ReplayResult]
         /\ (status' = status => \A t \in DOMAIN tasks' : Open(t)' => Running(t.wf)')
         /\ ClaimsOK'
<1> DEFINE token == FreshToken(c.task)
<1>1. c.task \in DOMAIN tasks /\ c.task \in TaskId /\ tasks[c.task] \in Row
  BY DEF IInv, ClaimsOK, TypeOK
<1>2. token \in Nat
  BY <1>1 DEF FreshToken, Row
<1>3. NotReplayed \in ReplayResult
  BY DEF NotReplayed, ReplayResult
<1> HIDE DEF token
<1>4. inflight' \in SUBSET [task : TaskId, token : Nat, replay : ReplayResult]
  BY <1>1, <1>2, <1>3 DEF Lease, IInv, TypeOK, token
<1>5. /\ DOMAIN tasks' = DOMAIN tasks
      /\ \A t \in DOMAIN tasks \ {c.task} : tasks'[t] = tasks[t]
      /\ tasks'[c.task] \in Row
      /\ tasks' = [t \in DOMAIN tasks |-> tasks'[t]]
  BY <1>1, <1>2 DEF Lease, IInv, TypeOK, Row, token
<1>6. TasksOK(tasks')
  BY <1>5 DEF TasksOK, IInv, TypeOK
<1>7. Open(c.task)
  BY DEF Lease, IInv, ClaimsOK, Open
<1>8. status' = status => \A t \in DOMAIN tasks' : Open(t)' => Running(t.wf)'
  BY <1>5, <1>7 DEF IInv, Open, Running
<1>9. ClaimsOK'
  <2>1. claims' = claims \ {c}
    BY DEF Lease
  <2>2. \A d \in claims' : d.task # c.task /\ d.task \in DOMAIN tasks
    BY <2>1 DEF IInv, ClaimsOK
  <2> QED
    BY <1>5, <2>1, <2>2 DEF IInv, ClaimsOK, Open
<1> QED
  BY <1>4, <1>6, <1>8, <1>9 DEF Lease, IInv, TypeOK

\* lease_task on a workflow task keeps the inductive invariant.
LEMMA LeaseWorkflowOK ==
  ASSUME IInv, NEW c \in claims, LeaseWorkflowTask(c)
  PROVE  IInv'
<1>1. Lease(c) /\ UNCHANGED execVars
  BY DEF LeaseWorkflowTask
<1>2. TypeOK'
  BY <1>1, LeaseOK DEF Lease, IInv, TypeOK, execVars, TasksOK
<1> QED
  BY <1>1, <1>2, LeaseOK DEF IInv, TasksOK, execVars

\* lease_task on an activity keeps the inductive invariant.
LEMMA LeaseActivityOK ==
  ASSUME IInv, NEW c \in claims, LeaseActivity(c)
  PROVE  IInv'
<1>1. Lease(c) /\ UNCHANGED <<status, paused, canceled, parent, updates>>
  BY DEF LeaseActivity
<1>2. c.task.wf \in Workflows /\ c.task.cmd \in Nat \cup {NoCommand}
  BY DEF IInv, TypeOK, TaskId
<1>3. Record(c.task.wf, "ActivityStarted", c.task.cmd, NoTag, TRUE)
  BY DEF LeaseActivity
<1>4. TypeOK'
  BY <1>1, <1>2, <1>3, LeaseOK, RecordType, EventTypesOf DEF Lease, IInv, TypeOK, Tags, TasksOK
<1> QED
  BY <1>1, <1>4, LeaseOK DEF IInv, TasksOK

\* A claim that is dropped leaves no claim on its row.
LEMMA DropClaim ==
  ASSUME IInv, NEW c \in claims
  PROVE  \A d \in claims \ {c} : d.task \notin {c.task}
  BY DEF IInv, ClaimsOK

\* The second step of fire_due_timer keeps the inductive invariant.
LEMMA FireOK ==
  ASSUME IInv, NEW c \in claims, FireTimer(c)
  PROVE  IInv'
<1>1. c.task.wf \in Workflows /\ c.task.cmd \in Nat \cup {NoCommand}
  BY DEF IInv, TypeOK, TaskId
<1>2. Record(c.task.wf, "TimerFired", c.task.cmd, NoTag, TRUE)
  BY DEF FireTimer
<1>3. /\ TasksOK(tasks')
      /\ \A t \in DOMAIN tasks' : Open(t)' => Running(t.wf)'
      /\ ClaimsOK'
  BY <1>1, DropClaim, WakeOK DEF FireTimer
<1>4. TypeOK'
  BY <1>1, <1>2, <1>3, RecordType, EventTypesOf
     DEF FireTimer, IInv, TypeOK, Tags, TasksOK, TimerOutcomes
<1> QED
  BY <1>3, <1>4 DEF IInv, TasksOK

\* An attempt that did not succeed.
LEMMA FailAttemptOK ==
  ASSUME IInv, NEW t \in TaskId, NEW type \in ActivityOutcomes, FailAttempt(t, type),
         claims' \subseteq claims, \A c \in claims' : c.task \notin {t},
         inflight' \subseteq inflight, UNCHANGED faults
  PROVE  IInv'
<1>1. t.wf \in Workflows /\ t.cmd \in Nat \cup {NoCommand} /\ t.n \in Nat
  BY DEF TaskId
<1>2. IsFinal(t) \in BOOLEAN
  BY DEF IsFinal
<1>3. /\ history' \in [Workflows -> SUBSET Event]
      /\ next_seq' \in [Workflows -> Nat \ {0}]
  BY <1>1, <1>2, RecordType, EventTypesOf DEF FailAttempt, IInv, Tags
<1>4. TaskAfter(t) \in TaskId /\ TaskAfter(t).wf = t.wf
  BY <1>1 DEF TaskAfter, WakeUp, Attempt, TaskId, IInv, TypeOK
<1>5. PICK s \in {"completed", "dead"} : tasks' = Insert(Close(tasks, {t}, s), {TaskAfter(t)})
  BY DEF FailAttempt
<1>6. \A u \in {TaskAfter(t)} : status'[u.wf] = "running"
  BY <1>4 DEF FailAttempt, Running
<1>7. \A x \in Workflows : Running(x) => status'[x] = "running"
  BY DEF FailAttempt, Running
<1>8. {TaskAfter(t)} \in SUBSET TaskId /\ IsFiniteSet({TaskAfter(t)})
  BY <1>4, OneTask
<1>9. /\ TasksOK(tasks')
      /\ \A u \in DOMAIN tasks' : Open(u)' => Running(u.wf)'
      /\ ClaimsOK'
  BY <1>5, <1>6, <1>7, <1>8, QueueStep
<1>10. TypeOK'
  BY <1>3, <1>9 DEF FailAttempt, IInv, TypeOK, TasksOK
<1> QED
  BY <1>9, <1>10 DEF IInv, TasksOK

\* The second step of process_activity_timeout keeps the inductive invariant.
LEMMA TimeOutOK ==
  ASSUME IInv, NEW c \in claims, TimeOutActivity(c)
  PROVE  IInv'
<1>1. c.task \in TaskId /\ "ActivityTimedOut" \in ActivityOutcomes
  BY DEF IInv, TypeOK, ActivityOutcomes
<1> QED
  BY <1>1, DropClaim, FailAttemptOK DEF TimeOutActivity

\* A step that changes one open row in place, and its status only if no poller
\* has locked it.
LEMMA RowStep ==
  ASSUME IInv, NEW t \in DOMAIN tasks, NEW r \in Row, Open(t),
         tasks' = [tasks EXCEPT ![t] = r],
         r.status = tasks[t].status \/ \A c \in claims : c.task \notin {t},
         UNCHANGED <<execVars, claims>>,
         inflight' \in SUBSET [task : TaskId, token : Nat, replay : ReplayResult],
         faults' \in Nat
  PROVE  IInv'
<1>1. /\ DOMAIN tasks' = DOMAIN tasks
      /\ \A u \in DOMAIN tasks \ {t} : tasks'[u] = tasks[u]
      /\ tasks'[t] = r
      /\ tasks' \in [DOMAIN tasks' -> Row]
  BY DEF IInv, TypeOK
<1>2. TypeOK'
  BY <1>1 DEF IInv, TypeOK, execVars
<1>3. \A u \in DOMAIN tasks' : Open(u)' => Running(u.wf)'
  BY <1>1 DEF IInv, Open, Running, execVars
<1>4. ClaimsOK'
  BY <1>1 DEF IInv, ClaimsOK, Open
<1> QED
  BY <1>1, <1>2, <1>3, <1>4 DEF IInv

\* reclaim_expired_workflow_tasks keeps the inductive invariant.
LEMMA ReclaimOK ==
  ASSUME IInv, NEW t \in DOMAIN tasks, ReclaimWorkflowTask(t)
  PROVE  IInv'
<1> DEFINE r == [tasks[t] EXCEPT !.status = "pending", !.due = {"visible"}]
<1>1. tasks[t] \in Row
  BY DEF IInv, TypeOK
<1>2. r \in Row
  BY <1>1 DEF Row, AllDeadlines
<1>3. tasks' = [tasks EXCEPT ![t] = r]
  BY <1>1 DEF ReclaimWorkflowTask, IInv, TypeOK, Row
<1> QED
  BY <1>2, <1>3, RowStep DEF ReclaimWorkflowTask, Open, Locked, IInv, TypeOK

(***************************************************************************)
(* Workers.                                                                *)
(***************************************************************************)
LEMMA InflightType ==
  ASSUME IInv, NEW h \in inflight
  PROVE  /\ h.task \in TaskId /\ h.task.wf \in Workflows
         /\ h.task.cmd \in Nat \cup {NoCommand}
         /\ h.replay \in ReplayResult /\ h.replay.commands \in Seq(Command)
  BY DEF IInv, TypeOK, TaskId, ReplayResult

\* No poller has locked the row of a live workflow task.
LEMMA LiveUnlocked ==
  ASSUME IInv, NEW h \in inflight, Live(h), h.task.kind = "workflow"
  PROVE  \A c \in claims : c.task \notin {h.task}
  BY DEF IInv, TypeOK, ClaimsOK, Live

\* complete_activity keeps the inductive invariant.
LEMMA CompleteOK ==
  ASSUME IInv, NEW h \in inflight, CompleteActivity(h)
  PROVE  IInv'
<1>1. Record(h.task.wf, "ActivityCompleted", h.task.cmd, NoTag, TRUE)
  BY DEF CompleteActivity
<1>2. /\ TasksOK(tasks')
      /\ \A t \in DOMAIN tasks' : Open(t)' => Running(t.wf)'
      /\ ClaimsOK'
  <2>1. \A c \in claims' : c.task \notin {h.task}
    BY DEF CompleteActivity, Reporting, Locked
  <2>2. h.task.wf \in Workflows /\ Running(h.task.wf) /\ claims' = claims /\ status' = status
    BY InflightType DEF CompleteActivity, Reporting
  <2>3. tasks' = Insert(Close(tasks, {h.task}, "completed"),
                        {WakeUp(h.task.wf, next_seq[h.task.wf])})
    BY DEF CompleteActivity
  <2> QED
    BY <2>1, <2>2, <2>3, WakeOK
<1>3. TypeOK'
  BY <1>1, <1>2, InflightType, RecordType, EventTypesOf
     DEF CompleteActivity, Reporting, IInv, TypeOK, Tags, TasksOK, ActivityOutcomes
<1> QED
  BY <1>2, <1>3 DEF IInv, TasksOK

\* fail_activity keeps the inductive invariant.
LEMMA FailOK ==
  ASSUME IInv, NEW h \in inflight, FailActivity(h)
  PROVE  IInv'
<1>1. h.task \in TaskId /\ "ActivityFailed" \in ActivityOutcomes
  BY InflightType DEF ActivityOutcomes
<1> QED
  BY <1>1, FailAttemptOK DEF FailActivity, Reporting, Locked

\* heartbeat_activity keeps the inductive invariant.
LEMMA HeartbeatOK ==
  ASSUME IInv, NEW h \in inflight, HeartbeatActivity(h)
  PROVE  IInv'
<1> DEFINE t == h.task
           r == [tasks[t] EXCEPT !.due = @ \ {"heartbeat", "lease"}]
<1>1. t \in DOMAIN tasks /\ tasks[t] \in Row /\ Open(t)
  BY DEF HeartbeatActivity, Live, IInv, TypeOK, Open
<1>2. r \in Row /\ r.status = tasks[t].status
  BY <1>1 DEF Row
<1>3. tasks' = [tasks EXCEPT ![t] = r]
  BY <1>1 DEF HeartbeatActivity, IInv, TypeOK, Row
<1> QED
  BY <1>1, <1>2, <1>3, RowStep DEF HeartbeatActivity, IInv, TypeOK

\* A step that changes only what workers hold in memory.
LEMMA MemoryStep ==
  ASSUME IInv, UNCHANGED <<execVars, tasks, claims>>,
         inflight' \in SUBSET [task : TaskId, token : Nat, replay : ReplayResult],
         faults' \in Nat
  PROVE  IInv'
<1>1. TypeOK'
  BY DEF IInv, TypeOK, execVars
<1> QED
  BY <1>1 DEF IInv, Open, Running, ClaimsOK, execVars

\* Loading and replaying changes only what the worker holds in memory.
LEMMA LoadOK ==
  ASSUME IInv, NEW h \in inflight, LoadAndReplay(h)
  PROVE  IInv'
<1>1. PICK r \in ReplayResult : inflight' = (inflight \ {h}) \cup {[h EXCEPT !.replay = r]}
  BY DEF LoadAndReplay
<1>2. inflight' \in SUBSET [task : TaskId, token : Nat, replay : ReplayResult]
  BY <1>1 DEF IInv, TypeOK
<1> QED
  BY <1>2, MemoryStep DEF LoadAndReplay, IInv, TypeOK

\* release_workflow_task: a held row is leased, so no lease poller has it.
LEMMA ReleaseOK ==
  ASSUME IInv, NEW h \in inflight, ReleaseWorkflowTask(h)
  PROVE  IInv'
<1> DEFINE t == h.task
           r == [tasks[t] EXCEPT !.status = "pending", !.due = {}]
<1>1. t \in DOMAIN tasks /\ tasks[t] \in Row /\ Open(t)
  BY DEF ReleaseWorkflowTask, Live, IInv, TypeOK, Open
<1>2. r \in Row
  BY <1>1 DEF Row
<1>3. tasks' = [tasks EXCEPT ![t] = r]
  BY <1>1 DEF ReleaseWorkflowTask, IInv, TypeOK, Row
<1>4. \A c \in claims : c.task \notin {t}
  BY LiveUnlocked DEF ReleaseWorkflowTask
<1>5. /\ inflight' \in SUBSET [task : TaskId, token : Nat, replay : ReplayResult]
      /\ faults' \in Nat
  BY DEF ReleaseWorkflowTask, Fault, IInv, TypeOK
<1> QED
  BY <1>1, <1>2, <1>3, <1>4, <1>5, RowStep DEF ReleaseWorkflowTask

\* A worker that raises or dies changes nothing in the database.
LEMMA ForgetOK ==
  ASSUME IInv, NEW h \in inflight, Abandon(h) \/ Crash(h)
  PROVE  IInv'
<1>1. /\ inflight' \in SUBSET [task : TaskId, token : Nat, replay : ReplayResult]
      /\ faults' \in Nat
      /\ UNCHANGED <<execVars, tasks, claims>>
  BY DEF Abandon, Crash, Fault, IInv, TypeOK
<1> QED
  BY <1>1, MemoryStep

\* The clock only adds to the deadlines that have passed.
LEMMA PassesOK ==
  ASSUME IInv, NEW t \in DOMAIN tasks, NEW d \in AllDeadlines, Passes(t, d), faults' \in Nat
  PROVE  IInv'
<1> DEFINE r == [tasks[t] EXCEPT !.due = @ \cup {d}]
<1>1. tasks[t] \in Row
  BY DEF IInv, TypeOK
<1>2. r \in Row /\ r.status = tasks[t].status
  BY <1>1 DEF Row
<1>3. tasks' = [tasks EXCEPT ![t] = r]
  BY <1>1 DEF Passes, IInv, TypeOK, Row
<1> QED
  BY <1>2, <1>3, RowStep DEF Passes, IInv, TypeOK

(***************************************************************************)
(* Closing an execution.                                                   *)
(***************************************************************************)

\* The values of a function with a finite domain are finitely many.
LEMMA FiniteImage ==
  ASSUME NEW S, IsFiniteSet(S), NEW f, f = [x \in S |-> f[x]]
  PROVE  IsFiniteSet({f[x] : x \in S})
<1>1. f \in Surjection(S, {f[x] : x \in S})
  BY DEF Surjection
<1> QED
  BY <1>1, FS_Surjection

\* At most one parent is notified, and it stays open.
LEMMA NotifiedOK ==
  ASSUME NEW w, NEW D
  PROVE  /\ Notified(w, D) \in SUBSET Workflows /\ IsFiniteSet(Notified(w, D))
         /\ \A p \in Notified(w, D) : Running(p) /\ p \notin D \cup {w} /\ p = parent[w].wf
<1>1. IsFiniteSet({parent[w].wf}) /\ Notified(w, D) \subseteq {parent[w].wf}
  BY FS_Singleton DEF Notified
<1>2. IsFiniteSet(Notified(w, D))
  BY <1>1, FS_Subset
<1> QED
  BY <1>2 DEF Notified

\* What _terminate_descendants reaches are running executions.
LEMMA SubtreeOK ==
  ASSUME NEW w, NEW D \in Subtrees(w)
  PROVE  /\ D \in SUBSET Workflows
         /\ \A x \in D : Running(x)
         /\ \A x \in Workflows : /\ Running(x)
                                /\ parent[x].policy = "terminate"
                                /\ parent[x].wf \in D \cup {w} => x \in D
<1>1. D = {x \in Workflows : /\ Running(x)
                             /\ parent[x].policy = "terminate"
                             /\ parent[x].wf \in D \cup {w}}
  BY DEF Subtrees
<1> HIDE DEF Subtrees
<1> QED
  BY <1>1

\* The queue after a close: the rows of the closed executions are closed, other
\* rows stay, and the rows added belong to executions that run.
LEMMA CloseQueue ==
  ASSUME IInv, NEW closed, NEW running,
         NEW done, \A t \in done : t.wf \in closed,
         NEW gone, \A t \in DOMAIN tasks :
           t \in gone <=> t.wf \in closed /\ Open(t) /\ t \notin done,
         NEW ids \in SUBSET TaskId, IsFiniteSet(ids), \A t \in ids : t.wf \in running,
         tasks' = Insert(Close(Close(tasks, gone, "dead"), done, "completed"), ids)
  PROVE  /\ TasksOK(tasks')
         /\ \A t \in DOMAIN tasks' \ DOMAIN tasks : t.wf \in running
         /\ DOMAIN tasks \subseteq DOMAIN tasks'
         /\ \A t \in DOMAIN tasks : t.wf \notin closed => tasks'[t] = tasks[t]
         /\ \A t \in DOMAIN tasks :
              t.wf \in closed => tasks'[t].status \notin {"pending", "leased"}
<1> DEFINE m1 == Close(tasks, gone, "dead")
           m2 == Close(m1, done, "completed")
<1>1. TasksOK(tasks)
  BY DEF IInv, TypeOK, TasksOK
<1>2. /\ TasksOK(m1) /\ DOMAIN m1 = DOMAIN tasks
      /\ \A t \in DOMAIN tasks \ gone : m1[t] = tasks[t]
      /\ \A t \in DOMAIN tasks \cap gone : m1[t].status = "dead"
  BY <1>1, CloseOK
<1> HIDE DEF m1
<1>3. /\ TasksOK(m2) /\ DOMAIN m2 = DOMAIN tasks
      /\ \A t \in DOMAIN tasks \ done : m2[t] = m1[t]
      /\ \A t \in DOMAIN tasks \cap done : m2[t].status = "completed"
  BY <1>2, CloseOK
<1> HIDE DEF m2
<1>4. /\ TasksOK(Insert(m2, ids)) /\ DOMAIN Insert(m2, ids) = DOMAIN tasks \cup ids
      /\ \A t \in DOMAIN tasks : Insert(m2, ids)[t] = m2[t]
  BY <1>3, InsertOK
<1>5. tasks' = Insert(m2, ids)
  BY DEF m1, m2
<1>6. \A t \in DOMAIN tasks : t.wf \notin closed => tasks'[t] = tasks[t]
  BY <1>2, <1>3, <1>4, <1>5
<1>7. \A t \in DOMAIN tasks :
         t.wf \in closed => tasks'[t].status \notin {"pending", "leased"}
  <2> SUFFICES ASSUME NEW t \in DOMAIN tasks, t.wf \in closed
               PROVE  tasks'[t].status \notin {"pending", "leased"}
    OBVIOUS
  <2>1. CASE t \in done
    BY <1>3, <1>4, <1>5, <2>1
  <2>2. CASE t \in gone
    BY <1>2, <1>3, <1>4, <1>5, <2>2
  <2>3. CASE t \notin gone /\ t \notin done
    <3>1. ~Open(t)
      BY <2>3
    <3>2. tasks'[t] = tasks[t]
      BY <1>2, <1>3, <1>4, <1>5, <2>3
    <3> QED
      BY <3>1, <3>2 DEF Open
  <2> QED
    BY <2>1, <2>2, <2>3
<1> QED
  BY <1>4, <1>5, <1>6, <1>7

\* Wake-ups of finitely many executions.
LEMMA WakeUpsOK ==
  ASSUME NEW S \in SUBSET Workflows, IsFiniteSet(S), NEW n \in [S -> Nat]
  PROVE  /\ {WakeUp(x, n[x]) : x \in S} \in SUBSET TaskId
         /\ IsFiniteSet({WakeUp(x, n[x]) : x \in S})
         /\ \A t \in {WakeUp(x, n[x]) : x \in S} : t.wf \in S
<1> DEFINE f == [x \in S |-> WakeUp(x, n[x])]
<1>1. IsFiniteSet({f[x] : x \in S})
  BY FiniteImage
<1>2. \A x \in S : WakeUp(x, n[x]) \in TaskId /\ WakeUp(x, n[x]).wf = x
  BY DEF WakeUp, TaskId
<1> QED
  BY <1>1, <1>2

\* Whatever closes an execution keeps the invariant.
LEMMA CloseExecutionOK ==
  ASSUME IInv, NEW w \in Workflows, Running(w),
         NEW s \in {"completed", "failed", "terminated"},
         NEW evs \in SUBSET Event, NEW k \in Nat, NEW D \in Subtrees(w),
         NEW new \in SUBSET Workflows, IsFiniteSet(new), \A x \in new : status[x] = "absent",
         NEW done, \A t \in done : t.wf = w,
         CloseExecution(w, s, evs, k, D, new, done),
         inflight' \subseteq inflight, UNCHANGED faults
  PROVE  IInv'
<1> DEFINE P == Notified(w, D)
<1>1. /\ P \in SUBSET Workflows /\ IsFiniteSet(P)
      /\ \A p \in P : Running(p) /\ p \notin D \cup {w}
  BY NotifiedOK
<1>2. D \in SUBSET Workflows /\ \A x \in D : Running(x)
  BY SubtreeOK
<1> HIDE DEF P
<1>3. status' = [x \in Workflows |->
         IF x = w THEN s ELSE IF x \in D THEN "terminated"
         ELSE IF x \in new THEN "running" ELSE status[x]]
  BY DEF CloseExecution
<1>4. /\ status' \in [Workflows -> {"absent", "running", "completed", "failed", "terminated"}]
      /\ \A x \in Workflows \ (D \cup {w}) : Running(x) => status'[x] = "running"
      /\ \A x \in new : status'[x] = "running"
  BY <1>2, <1>3 DEF IInv, TypeOK, Running
<1>5. history' \in [Workflows -> SUBSET Event]
  <2>1. \A x \in Workflows : next_seq[x] \in Nat
    BY DEF IInv, TypeOK
  <2>2. \A n \in Nat : Plain(n, "WorkflowExecutionTerminated") \in Event
                       /\ Plain(n, "WorkflowExecutionStarted") \in Event
    BY EvType, EventTypesOf DEF Plain, TerminalEvents, Tags
  <2>3. ChildStatus[s] \in EventTypes /\ parent[w].cmd \in Nat \cup {NoCommand}
    BY EventTypesOf DEF ChildStatus, ChildOutcomes, IInv, TypeOK
  <2>4. \A n \in Nat : Ev(n, ChildStatus[s], parent[w].cmd, NoTag, TRUE) \in Event
    BY <2>3, EvType DEF Tags
  <2>5. \A x \in Workflows : history[x] \in SUBSET Event
    BY DEF IInv, TypeOK
  <2> QED
    BY <2>1, <2>2, <2>4, <2>5 DEF CloseExecution, P
<1>6. next_seq' \in [Workflows -> Nat \ {0}]
  BY DEF CloseExecution, IInv, TypeOK
<1>7. updates' \in [Workflows -> [Updates -> {"none", "pending", "completed", "rejected"}]]
  BY DEF CloseExecution, Rejected, IInv, TypeOK
<1> DEFINE gone == Outstanding(D \cup {w}) \ done
           woken == {WakeUp(p, next_seq[p]) : p \in P}
           begun == {WakeUp(x, 1) : x \in new}
           ids == woken \cup begun
<1>8. tasks' = Insert(Close(Close(tasks, gone, "dead"), done, "completed"), ids)
  BY DEF CloseExecution, P
<1>9. /\ TasksOK(tasks')
      /\ \A t \in DOMAIN tasks' \ DOMAIN tasks : t.wf \in P \cup new
      /\ DOMAIN tasks \subseteq DOMAIN tasks'
      /\ \A t \in DOMAIN tasks : t.wf \notin D \cup {w} => tasks'[t] = tasks[t]
      /\ \A t \in DOMAIN tasks :
           t.wf \in D \cup {w} => tasks'[t].status \notin {"pending", "leased"}
  <2>1. woken \in SUBSET TaskId /\ IsFiniteSet(woken) /\ \A t \in woken : t.wf \in P
    <3> DEFINE n == [p \in P |-> next_seq[p]]
    <3>1. n \in [P -> Nat]
      BY <1>1 DEF IInv, TypeOK
    <3>2. woken = {WakeUp(p, n[p]) : p \in P}
      OBVIOUS
    <3> HIDE DEF n, woken
    <3> QED
      BY <1>1, <3>1, <3>2, WakeUpsOK
  <2>2. begun \in SUBSET TaskId /\ IsFiniteSet(begun) /\ \A t \in begun : t.wf \in new
    <3> DEFINE n == [x \in new |-> 1]
    <3>1. n \in [new -> Nat]
      OBVIOUS
    <3>2. begun = {WakeUp(x, n[x]) : x \in new}
      OBVIOUS
    <3> HIDE DEF n, begun
    <3> QED
      BY <3>1, <3>2, WakeUpsOK
  <2> DEFINE running == P \cup new
             closed == D \cup {w}
  <2>3. \A t \in DOMAIN tasks : t \in gone <=> t.wf \in closed /\ Open(t) /\ t \notin done
    BY DEF Outstanding
  <2>4. \A t \in done : t.wf \in closed
    OBVIOUS
  <2> HIDE DEF gone, woken, begun
  <2>5. IsFiniteSet(ids)
    BY <2>1, <2>2, FS_Union
  <2>6. ids \in SUBSET TaskId /\ \A t \in ids : t.wf \in running
    BY <2>1, <2>2
  <2> HIDE DEF ids, running, closed
  <2>7. /\ TasksOK(tasks')
        /\ \A t \in DOMAIN tasks' \ DOMAIN tasks : t.wf \in running
        /\ DOMAIN tasks \subseteq DOMAIN tasks'
        /\ \A t \in DOMAIN tasks : t.wf \notin closed => tasks'[t] = tasks[t]
        /\ \A t \in DOMAIN tasks :
             t.wf \in closed => tasks'[t].status \notin {"pending", "leased"}
    BY <1>8, <2>3, <2>4, <2>5, <2>6, CloseQueue
  <2> QED
    BY <2>7 DEF running, closed
<1>10. TypeOK'
  BY <1>4, <1>5, <1>6, <1>7, <1>9 DEF CloseExecution, IInv, TypeOK, TasksOK
<1>11. \A t \in DOMAIN tasks' : Open(t)' => Running(t.wf)'
  <2> SUFFICES ASSUME NEW t \in DOMAIN tasks', Open(t)'
               PROVE  status'[t.wf] = "running"
    BY DEF Running
  <2>1. CASE t \in DOMAIN tasks
    <3>1. t.wf \in Workflows
      BY <2>1 DEF IInv, TypeOK, TaskId
    <3>2. t.wf \notin D \cup {w} /\ tasks'[t] = tasks[t]
      BY <1>9, <2>1 DEF Open
    <3>3. Running(t.wf)
      BY <2>1, <3>2 DEF IInv, Open
    <3> QED
      BY <1>4, <3>1, <3>2, <3>3
  <2>2. CASE t \notin DOMAIN tasks
    BY <1>1, <1>4, <1>9, <2>2
  <2> QED
    BY <2>1, <2>2
<1>12. ClaimsOK'
  <2>1. claims' = claims /\ \A c \in claims : c.task.wf \notin D \cup {w}
    BY DEF CloseExecution, Unlocked
  <2>2. \A c \in claims : c.task \in DOMAIN tasks' /\ tasks'[c.task] = tasks[c.task]
    BY <1>9, <2>1 DEF IInv, ClaimsOK
  <2> QED
    BY <2>1, <2>2 DEF IInv, ClaimsOK, Open
<1> QED
  BY <1>9, <1>10, <1>11, <1>12 DEF IInv, TasksOK

\* The events that end an execution, and how many they are.
LEMMA EndingType ==
  ASSUME IInv, NEW w \in Workflows, NEW f \in TimerOrders(w), NEW type \in TerminalEvents
  PROVE  /\ TimersCanceled(f) \cup {Ending(w, type)} \in SUBSET Event
         /\ Cardinality(PendingTimers(w)) + 1 \in Nat
<1>1. IsFiniteSet(PendingTimers(w))
  <2> DEFINE g == [t \in DOMAIN tasks |-> t.cmd]
  <2>1. IsFiniteSet({g[t] : t \in DOMAIN tasks})
    BY FiniteImage DEF IInv
  <2>2. PendingTimers(w) \subseteq {g[t] : t \in DOMAIN tasks}
    BY DEF PendingTimers
  <2> QED
    BY <2>1, <2>2, FS_Subset
<1>2. Cardinality(PendingTimers(w)) \in Nat
  BY <1>1, FS_CardinalityType
<1>3. next_seq[w] \in Nat
  BY DEF IInv, TypeOK
<1>4. Ending(w, type) \in Event
  <2>1. next_seq[w] + Cardinality(PendingTimers(w)) \in Nat
    BY <1>2, <1>3
  <2>2. type \in EventTypes /\ NoTag \in Tags
    BY EventTypesOf DEF Tags
  <2> QED
    BY <2>1, <2>2, EvType DEF Ending, Plain
<1>5. /\ DOMAIN f = PendingTimers(w)
      /\ \A c \in DOMAIN f : f[c] \in Nat
  BY <1>2, <1>3 DEF TimerOrders
<1>6. \A c \in DOMAIN f : c \in Nat \cup {NoCommand}
  BY <1>5 DEF PendingTimers, IInv, TypeOK, TaskId
<1>7. TimersCanceled(f) \subseteq Event
  BY <1>5, <1>6, EvType, EventTypesOf DEF TimersCanceled, TimerOutcomes, Tags
<1> QED
  BY <1>2, <1>4, <1>7

\* terminate_workflow keeps the inductive invariant.
LEMMA TerminateOK ==
  ASSUME IInv, NEW w \in Workflows, TerminateWorkflow(w)
  PROVE  IInv'
<1>1. PICK D \in Subtrees(w), f \in TimerOrders(w) :
        CloseExecution(w, "terminated",
          TimersCanceled(f) \cup {Ending(w, "WorkflowExecutionTerminated")},
          Cardinality(PendingTimers(w)) + 1, D, {}, {})
  BY DEF TerminateWorkflow
<1> DEFINE evs == TimersCanceled(f) \cup {Ending(w, "WorkflowExecutionTerminated")}
           k == Cardinality(PendingTimers(w)) + 1
<1>2. evs \in SUBSET Event /\ k \in Nat
  BY EndingType DEF TerminalEvents
<1>3. CloseExecution(w, "terminated", evs, k, D, {}, {})
  BY <1>1
<1>4. Running(w) /\ UNCHANGED <<inflight, faults>>
  BY DEF TerminateWorkflow
<1>5. IsFiniteSet({})
  BY FS_EmptySet
<1> HIDE DEF evs, k
<1> QED
  BY <1>2, <1>3, <1>4, <1>5, CloseExecutionOK

(***************************************************************************)
(* commit_workflow_replay.                                                 *)
(***************************************************************************)

\* A result, or a cancellation, that closes the execution.
LEMMA CommitClosesOK ==
  ASSUME IInv, NEW h \in inflight, CommitCanceled(h) \/ CommitResult(h)
  PROVE  IInv'
<1> DEFINE w == h.task.wf
<1>1. w \in Workflows /\ Running(w) /\ inflight' \subseteq inflight /\ UNCHANGED faults
  BY InflightType DEF CommitCanceled, CommitResult, Committing
<1>2. PICK s \in {"completed", "failed", "terminated"}, D \in Subtrees(w),
           f \in TimerOrders(w), type \in TerminalEvents :
        CloseExecution(w, s, TimersCanceled(f) \cup {Ending(w, type)},
          Cardinality(PendingTimers(w)) + 1, D, {}, {h.task})
  <2>1. CASE CommitCanceled(h)
    BY <2>1 DEF CommitCanceled, TerminalEvents
  <2>2. CASE CommitResult(h)
    <3>1. h.replay.status \in {"completed", "failed"}
      BY <2>2 DEF CommitResult
    <3>2. TerminalStatus[h.replay.status] \in TerminalEvents
      BY <3>1 DEF TerminalStatus, TerminalEvents
    <3> QED
      BY <2>2, <3>1, <3>2 DEF CommitResult
  <2> QED
    BY <2>1, <2>2
<1> DEFINE evs == TimersCanceled(f) \cup {Ending(w, type)}
           k == Cardinality(PendingTimers(w)) + 1
<1>3. evs \in SUBSET Event /\ k \in Nat
  BY <1>1, EndingType
<1>4. CloseExecution(w, s, evs, k, D, {}, {h.task})
  BY <1>2
<1>5. IsFiniteSet({})
  BY FS_EmptySet
<1>6. \A t \in {h.task} : t.wf = w
  OBVIOUS
<1> HIDE DEF w, evs, k
<1> QED
  BY <1>1, <1>3, <1>4, <1>5, <1>6, CloseExecutionOK

\* Committing a blocked replay closes the workflow task only.
LEMMA CommitBlockedOK ==
  ASSUME IInv, NEW h \in inflight, CommitBlocked(h)
  PROVE  IInv'
<1>1. Live(h) /\ h.task.kind = "workflow"
  BY DEF CommitBlocked, Committing
<1>2. /\ h.task \in DOMAIN tasks
      /\ \A c \in claims : c.task \notin {h.task}
  BY <1>1, LiveUnlocked DEF Live
<1>3. TasksOK(tasks)
  BY DEF IInv, TypeOK, TasksOK
<1>4. /\ TasksOK(tasks') /\ DOMAIN tasks' = DOMAIN tasks
      /\ \A t \in DOMAIN tasks \ {h.task} : tasks'[t] = tasks[t]
      /\ tasks'[h.task].status = "completed"
  BY <1>2, <1>3, CloseOK DEF CommitBlocked
<1>5. TypeOK'
  BY <1>4 DEF CommitBlocked, Committing, IInv, TypeOK, TasksOK, execVars
<1>6. \A t \in DOMAIN tasks' : Open(t)' => Running(t.wf)'
  BY <1>4 DEF CommitBlocked, IInv, Open, Running, execVars
<1>7. ClaimsOK'
  BY <1>2, <1>4 DEF CommitBlocked, IInv, ClaimsOK, Open
<1> QED
  BY <1>4, <1>5, <1>6, <1>7 DEF IInv, TasksOK

\* What Acceptable says of the commands it accepts.
LEMMA AcceptableOK ==
  ASSUME NEW w, NEW cs \in Seq(Command), Acceptable(w, cs), NEW i \in DOMAIN cs
  PROVE  /\ cs[i] \in Command
         /\ cs[i].kind \in {"child", "continue"} =>
              Child(w, cs[i].cmd) \in Workflows /\ status[Child(w, cs[i].cmd)] = "absent"
         /\ cs[i].kind = "resolve" => cs[i].upd \in Updates /\ updates[w][cs[i].upd] = "pending"
         /\ cs[i].kind = "continue" => Len(cs) = 1
  BY DEF Acceptable

\* _commit_continue_as_new keeps the inductive invariant.
LEMMA CommitContinueOK ==
  ASSUME IInv, NEW h \in inflight, CommitContinueAsNew(h)
  PROVE  IInv'
<1> DEFINE w == h.task.wf
           cs == h.replay.commands
           c == cs[1]
           n == next_seq[w]
           new == {Child(w, c.cmd)}
           evs == {Ev(n, "WorkflowExecutionContinuedAsNew", c.cmd, c.fp, TRUE),
                   Plain(n + 1, "WorkflowExecutionCompleted")}
<1>1. /\ w \in Workflows /\ Running(w) /\ inflight' \subseteq inflight /\ UNCHANGED faults
      /\ cs \in Seq(Command)
  BY InflightType DEF CommitContinueAsNew, Committing
<1>2. PICK D \in Subtrees(w) : CloseExecution(w, "completed", evs, 2, D, new, {h.task})
  BY DEF CommitContinueAsNew
<1>3. PICK i \in DOMAIN cs : cs[i].kind = "continue"
  BY DEF CommitContinueAsNew, Emitted
<1>4. Len(cs) = 1
  BY <1>1, <1>3, AcceptableOK DEF CommitContinueAsNew
<1>5. i = 1
  BY <1>1, <1>3, <1>4
<1>6. c \in Command /\ Child(w, c.cmd) \in Workflows /\ status[Child(w, c.cmd)] = "absent"
  BY <1>1, <1>3, <1>5, AcceptableOK DEF CommitContinueAsNew
<1>7. evs \in SUBSET Event
  <2>1. n \in Nat /\ n + 1 \in Nat
    BY <1>1 DEF IInv, TypeOK
  <2>2. c.cmd \in Nat \cup {NoCommand} /\ c.fp \in Tags /\ NoTag \in Tags
    BY <1>6 DEF Command, Tags
  <2>3. /\ "WorkflowExecutionContinuedAsNew" \in EventTypes
        /\ "WorkflowExecutionCompleted" \in EventTypes
    BY EventTypesOf DEF ScheduleEvents, TerminalEvents
  <2> HIDE DEF w, c, n
  <2>4. Ev(n, "WorkflowExecutionContinuedAsNew", c.cmd, c.fp, TRUE) \in Event
    BY <2>1, <2>2, <2>3, EvType
  <2>5. Plain(n + 1, "WorkflowExecutionCompleted") \in Event
    BY <2>1, <2>2, <2>3, EvType DEF Plain
  <2> QED
    BY <2>4, <2>5
<1>8. new \in SUBSET Workflows /\ IsFiniteSet(new) /\ \A x \in new : status[x] = "absent"
  BY <1>6, FS_Singleton
<1>9. \A t \in {h.task} : t.wf = w
  OBVIOUS
<1> HIDE DEF w, cs, c, n, new, evs
<1> QED
  BY <1>1, <1>2, <1>7, <1>8, <1>9, CloseExecutionOK

\* Committing commands keeps the inductive invariant: new rows belong to the
\* execution itself or to the children started with them.
LEMMA CommitCommandsOK ==
  ASSUME IInv, NEW h \in inflight, CommitCommands(h)
  PROVE  IInv'
<1> DEFINE w == h.task.wf
           cs == h.replay.commands
           n == next_seq[w] + Len(cs)
           E(kind) == Emitted(h, kind)
           new == {Child(w, cs[i].cmd) : i \in E("child")}
           ids == {Attempt(w, cs[i].cmd, 1) : i \in E("activity")}
                  \cup {Timer(w, cs[i].cmd) : i \in E("timer")}
                  \cup {WakeUp(x, 1) : x \in new} \cup {WakeUp(w, n - 1) : i \in MarkerRecorded(h)}
<1>1. /\ h.task \in TaskId /\ w \in Workflows /\ Running(w) /\ Live(h)
      /\ h.task.kind = "workflow"
      /\ inflight' \subseteq inflight /\ UNCHANGED faults
      /\ cs \in Seq(Command) /\ Acceptable(w, cs)
  BY InflightType DEF CommitCommands, Committing
<1>2. next_seq[w] \in Nat \ {0} /\ Len(cs) \in Nat /\ n \in Nat \ {0} /\ n - 1 \in Nat
  BY <1>1 DEF IInv, TypeOK
<1>3. \A i \in DOMAIN cs :
        /\ cs[i] \in Command
        /\ cs[i].kind = "child" =>
             Child(w, cs[i].cmd) \in Workflows /\ status[Child(w, cs[i].cmd)] = "absent"
        /\ cs[i].kind = "resolve" => cs[i].upd \in Updates
  BY <1>1, AcceptableOK
<1>4. \A k : E(k) \in SUBSET DOMAIN cs /\ \A i \in E(k) : cs[i].kind = k
  BY DEF Emitted
<1>5. new \in SUBSET Workflows /\ IsFiniteSet(new) /\ \A x \in new : status[x] = "absent"
  <2>1. IsFiniteSet(E("child"))
    <3>1. IsFiniteSet(1 .. Len(cs)) /\ DOMAIN cs = 1 .. Len(cs)
      BY <1>1, FS_Interval
    <3> QED
      BY <1>4, <3>1, FS_Subset
  <2> DEFINE f == [i \in E("child") |-> Child(w, cs[i].cmd)]
  <2>2. IsFiniteSet({f[i] : i \in E("child")})
    BY <2>1, FiniteImage
  <2>3. IsFiniteSet(new)
    BY <2>2
  <2> QED
    BY <1>3, <1>4, <2>3
<1>6. status' = [x \in Workflows |-> IF x \in new THEN "running" ELSE status[x]]
  BY DEF CommitCommands
<1>7. /\ status' \in [Workflows -> {"absent", "running", "completed", "failed", "terminated"}]
      /\ \A x \in Workflows : Running(x) => status'[x] = "running"
      /\ \A x \in new \cup {w} : status'[x] = "running"
  <2> HIDE DEF new, w
  <2> QED
    BY <1>1, <1>5, <1>6 DEF IInv, TypeOK, Running
<1>8. parent' \in [Workflows -> [wf : Workflows \cup {NoWorkflow}, cmd : Nat \cup {NoCommand},
                                policy : {"terminate", "abandon"}]]
  <2> DEFINE j(x) == CHOOSE i \in E("child") : x = Child(w, cs[i].cmd)
  <2>1. parent' = [x \in Workflows |->
          IF x \in new THEN [wf |-> w, cmd |-> cs[j(x)].cmd, policy |-> cs[j(x)].policy]
          ELSE parent[x]]
    BY DEF CommitCommands, ParentLink
  <2>2. \A x \in new : cs[j(x)] \in Command
    BY <1>3, <1>4
  <2> HIDE DEF j, new, w, cs
  <2> QED
    BY <1>1, <2>1, <2>2 DEF IInv, TypeOK, Command
<1>9. history' \in [Workflows -> SUBSET Event]
  <2> DEFINE e(i) == Ev(next_seq[w] + i - 1, EventOf[cs[i].kind], cs[i].cmd,
                        IF cs[i].kind = "resolve" THEN cs[i].upd ELSE cs[i].fp, cs[i].accepted)
  <2>1. \A i \in DOMAIN cs : e(i) \in Event
    <3> TAKE i \in DOMAIN cs
    <3>1. next_seq[w] + i - 1 \in Nat
      BY <1>1, <1>2
    <3>2. EventOf[cs[i].kind] \in EventTypes
      BY <1>3, EventTypesOf DEF Command, EventOf, ScheduleEvents
    <3>3. /\ cs[i].cmd \in Nat \cup {NoCommand} /\ cs[i].accepted \in BOOLEAN
          /\ (IF cs[i].kind = "resolve" THEN cs[i].upd ELSE cs[i].fp) \in Tags
      BY <1>3 DEF Command, Tags
    <3> QED
      BY <3>1, <3>2, <3>3, EvType
  <2>2. Plain(1, "WorkflowExecutionStarted") \in Event
    BY EvType, EventTypesOf DEF Plain, Tags
  <2>3. history' = [x \in Workflows |->
          IF x = w THEN history[x] \cup {e(i) : i \in DOMAIN cs}
          ELSE IF x \in new THEN {Plain(1, "WorkflowExecutionStarted")} ELSE history[x]]
    BY DEF CommitCommands, CommandEvent
  <2>4. \A x \in Workflows : history[x] \in SUBSET Event
    BY DEF IInv, TypeOK
  <2> HIDE DEF e, new, w, cs
  <2> QED
    BY <2>1, <2>2, <2>3, <2>4
<1>10. next_seq' \in [Workflows -> Nat \ {0}]
  <2>1. next_seq' = [x \in Workflows |-> IF x = w THEN n ELSE IF x \in new THEN 2 ELSE next_seq[x]]
    BY DEF CommitCommands
  <2> HIDE DEF n, new, w
  <2> QED
    BY <1>2, <2>1 DEF IInv, TypeOK
<1>11. updates' \in [Workflows -> [Updates -> {"none", "pending", "completed", "rejected"}]]
  <2> DEFINE upd == {cs[i].upd : i \in E("resolve")}
             ok(u) == \E i \in DOMAIN cs : cs[i].upd = u /\ cs[i].accepted
             g == [u \in Updates |-> IF u \notin upd THEN updates[w][u]
                                     ELSE IF ok(u) THEN "completed" ELSE "rejected"]
  <2>1. updates' = [updates EXCEPT ![w] = g]
    BY <1>1 DEF CommitCommands, IInv, TypeOK
  <2> HIDE DEF upd, ok, w
  <2>2. g \in [Updates -> {"none", "pending", "completed", "rejected"}]
    BY <1>1 DEF IInv, TypeOK
  <2> HIDE DEF g
  <2> QED
    BY <2>1, <2>2 DEF IInv, TypeOK
<1>12. /\ TasksOK(tasks')
       /\ \A t \in DOMAIN tasks' : Open(t)' => Running(t.wf)'
       /\ ClaimsOK'
  <2>1. tasks' = Insert(Close(tasks, {h.task}, "completed"), ids) /\ claims' = claims
    BY DEF CommitCommands
  <2>2. ids \in SUBSET TaskId /\ IsFiniteSet(ids) /\ \A t \in ids : t.wf \in new \cup {w}
    <3> DEFINE A == E("activity")
               T == E("timer")
               M == MarkerRecorded(h)
               last == n - 1
               as == {Attempt(w, cs[i].cmd, 1) : i \in A}
               ts == {Timer(w, cs[i].cmd) : i \in T}
               xs == {WakeUp(x, 1) : x \in new}
               ms == {WakeUp(w, last) : i \in M}
    <3>1. /\ w \in Workflows /\ last \in Nat
          /\ new \in SUBSET Workflows /\ IsFiniteSet(new)
          /\ \A i \in A \cup T : cs[i].cmd \in Nat
      BY <1>1, <1>2, <1>3, <1>4, <1>5 DEF Command
    <3>2. IsFiniteSet(A) /\ IsFiniteSet(T)
      <4>1. IsFiniteSet(1 .. Len(cs)) /\ DOMAIN cs = 1 .. Len(cs)
        BY <1>1, FS_Interval
      <4> QED
        BY <1>4, <4>1, FS_Subset
    <3>3. ids = as \cup ts \cup xs \cup ms
      OBVIOUS
    <3> HIDE DEF A, T, M, last, E, ids, new, w, cs, n
    <3>4. as \in SUBSET TaskId /\ IsFiniteSet(as) /\ \A t \in as : t.wf = w
      <4> DEFINE f == [i \in A |-> Attempt(w, cs[i].cmd, 1)]
      <4>1. IsFiniteSet({f[i] : i \in A})
        BY <3>2, FiniteImage
      <4>2. IsFiniteSet(as)
        BY <4>1
      <4> QED
        BY <3>1, <4>2 DEF Attempt, TaskId
    <3>5. ts \in SUBSET TaskId /\ IsFiniteSet(ts) /\ \A t \in ts : t.wf = w
      <4> DEFINE f == [i \in T |-> Timer(w, cs[i].cmd)]
      <4>1. IsFiniteSet({f[i] : i \in T})
        BY <3>2, FiniteImage
      <4>2. IsFiniteSet(ts)
        BY <4>1
      <4> QED
        BY <3>1, <4>2 DEF Timer, TaskId
    <3>6. xs \in SUBSET TaskId /\ IsFiniteSet(xs) /\ \A t \in xs : t.wf \in new
      <4> DEFINE f == [x \in new |-> WakeUp(x, 1)]
      <4>1. IsFiniteSet({f[x] : x \in new})
        BY <3>1, FiniteImage
      <4>2. IsFiniteSet(xs)
        BY <4>1
      <4> QED
        BY <3>1, <4>2 DEF WakeUp, TaskId
    <3>7. ms \in SUBSET TaskId /\ IsFiniteSet(ms) /\ \A t \in ms : t.wf = w
      <4>1. ms \subseteq {WakeUp(w, last)} /\ IsFiniteSet({WakeUp(w, last)})
        BY FS_Singleton
      <4>2. IsFiniteSet(ms)
        BY <4>1, FS_Subset
      <4> QED
        BY <3>1, <4>2 DEF WakeUp, TaskId
    <3> HIDE DEF as, ts, xs, ms
    <3>8. IsFiniteSet(as \cup ts \cup xs \cup ms)
      BY <3>4, <3>5, <3>6, <3>7, FS_Union
    <3> QED
      BY <3>3, <3>4, <3>5, <3>6, <3>7, <3>8
  <2>3. \A c \in claims' : c.task \notin {h.task}
    BY <1>1, <2>1, LiveUnlocked
  <2> HIDE DEF ids, new, w
  <2>4. \A t \in ids : status'[t.wf] = "running"
    BY <1>7, <2>2
  <2> QED
    BY <1>7, <2>1, <2>2, <2>3, <2>4, QueueStep
<1>13. TypeOK'
  BY <1>1, <1>7, <1>8, <1>9, <1>10, <1>11, <1>12
     DEF CommitCommands, IInv, TypeOK, TasksOK
<1> QED
  BY <1>12, <1>13 DEF IInv, TasksOK

(***************************************************************************)
(* The theorems.                                                           *)
(***************************************************************************)

\* The empty database satisfies the inductive invariant.
LEMMA InitOK == Init => IInv
<1> SUFFICES ASSUME Init PROVE IInv
  OBVIOUS
<1>1. DOMAIN tasks = {} /\ claims = {} /\ inflight = {}
  BY DEF Init
<1>2. tasks \in [DOMAIN tasks -> Row]
  BY <1>1 DEF Init
<1>3. TypeOK
  BY <1>1, <1>2 DEF Init, TypeOK, NoParent, NoCommand
<1>4. IsFiniteSet(DOMAIN tasks)
  BY <1>1, FS_EmptySet
<1> QED
  BY <1>1, <1>3, <1>4 DEF IInv, ClaimsOK

\* Every step keeps the inductive invariant, one case per action of Next.
LEMMA StepOK == IInv /\ [Next]_vars => IInv'
<1> SUFFICES ASSUME IInv, [Next]_vars PROVE IInv'
  OBVIOUS
<1>1. CASE ClientStep
  <2>1. \A w \in Workflows : StartWorkflow(w) => IInv'
    BY StartOK
  <2>2. \A w \in Workflows :
          PauseWorkflow(w) \/ ResumeWorkflow(w) \/ RequestCancellation(w) \/ TerminateWorkflow(w)
            => IInv'
    BY PauseOK, ResumeOK, CancelOK, TerminateOK
  <2>3. \A w \in Workflows, s \in Signals : SendSignal(w, s) => IInv'
    BY SignalOK
  <2>4. \A w \in Workflows, u \in Updates : SendUpdate(w, u) => IInv'
    BY UpdateOK
  <2>5. Roots \subseteq Workflows /\ Operated \subseteq Workflows
    BY EngineAssumption
  <2> QED
    BY <1>1, <2>1, <2>2, <2>3, <2>4, <2>5 DEF ClientStep, RetryWorkflow
<1>2. CASE PollStep
  BY <1>2, ClaimOK, ReclaimOK, LeaseWorkflowOK, LeaseActivityOK, FireOK, TimeOutOK DEF PollStep
<1>3. CASE WorkerStep
  BY <1>3, CompleteOK, FailOK, LoadOK, ForgetOK, CommitClosesOK, CommitBlockedOK,
     CommitContinueOK, CommitCommandsOK DEF WorkerStep, CommitStep
<1>4. CASE TimeStep
  <2>1. PICK t \in DOMAIN tasks, d \in AllDeadlines : Elapse(t, d)
    BY <1>4 DEF TimeStep
  <2>2. faults' \in Nat
    BY <2>1 DEF Elapse, IInv, TypeOK
  <2> QED
    BY <2>1, <2>2, PassesOK DEF Elapse
<1>5. CASE FaultStep
  <2>1. ASSUME NEW t \in DOMAIN tasks, NEW d \in AllDeadlines, Stall(t, d)
        PROVE  IInv'
    <3>1. faults' \in Nat
      BY <2>1 DEF Stall, Fault, IInv, TypeOK
    <3> QED
      BY <2>1, <3>1, PassesOK DEF Stall
  <2> QED
    BY <1>5, <2>1, AbortOK, ReleaseOK, ForgetOK DEF FaultStep
<1>6. CASE \E h \in inflight : HeartbeatActivity(h)
  BY <1>6, HeartbeatOK
<1>7. CASE UNCHANGED vars
  <2>1. TypeOK'
    BY <1>7 DEF IInv, TypeOK, vars, execVars
  <2> QED
    BY <1>7, <2>1 DEF IInv, ClaimsOK, Open, Running, vars, execVars
<1> QED
  BY <1>1, <1>2, <1>3, <1>4, <1>5, <1>6, <1>7 DEF Next, EngineStep

\* The invariant holds in every reachable state.
THEOREM Inductive == Spec => []IInv
  BY InitOK, StepOK, PTL DEF Spec

\* Every transition keeps the tables well formed: statuses and event types the
\* schema knows, sequence numbers, tokens, well-formed commands in memory.
THEOREM TypeCorrect == Spec => []TypeOK
<1>1. IInv => TypeOK
  BY DEF IInv
<1> QED
  BY <1>1, Inductive, PTL

\* A closed execution has no open task, and no poller holds a closed row: after
\* completion, failure or termination nothing can be leased, fired or timed out.
THEOREM Fenced == Spec => []ClosedFenced
<1>1. IInv => ClosedFenced
  BY DEF IInv, ClaimsOK, ClosedFenced, Open, TypeOK
<1> QED
  BY <1>1, Inductive, PTL

=============================================================================
