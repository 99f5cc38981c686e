--------------------------- MODULE HistoryProofs ----------------------------
(***************************************************************************)
(* Theorems about what the histories say: they are accepted by             *)
(* HistoryIndex, and they agree with the status of the execution, with its *)
(* updates, with its children, and with the rows of its activities and     *)
(* timers.                                                                 *)
(***************************************************************************)
EXTENDS LifecycleProofs

(***************************************************************************)
(* The inductive invariant.                                                *)
(***************************************************************************)

\* The events are numbered from n to m - 1.
Numbered(A, n, m) ==
  /\ \A e \in A : e.seq \in n .. (m - 1)
  /\ \A i \in n .. (m - 1) : \E e \in A : e.seq = i
  /\ \A e, f \in A : e.seq = f.seq => e = f

\* What the rest of its row says of the history of execution w.
RecordOK(w) ==
  /\ Numbered(history[w], 1, next_seq[w])
  /\ status[w] = "absent" <=> next_seq[w] = 1
  /\ StartsOnce(history[w])
  /\ \A e \in history[w] :
       e.type \in TerminalEvents => Closed(w) /\ e.seq = next_seq[w] - 1
  /\ Closed(w) => \E e \in history[w] :
       e.seq = next_seq[w] - 1 /\ e.type = TerminalStatus[status[w]]
  /\ ScheduledOnce(history[w]) /\ CanceledOnce(history[w])
  /\ canceled[w] <=> \E e \in history[w] : e.type = "WorkflowCancellationRequested"

\* What the updates table says of it.
AnswersOK(w) ==
  \A u \in Updates :
    /\ updates[w][u] = "pending" => Running(w)
    /\ (\E e \in history[w] : e.type = "WorkflowUpdateResolved" /\ e.tag = u)
         => updates[w][u] \in {"completed", "rejected"}
    /\ updates[w][u] = "completed" =>
         \E e \in history[w] : e.type = "WorkflowUpdateResolved" /\ e.tag = u /\ e.final

RecordInv == FamilyInv /\ \A w \in Workflows : RecordOK(w) /\ AnswersOK(w)

\* What a parent is told of its children.
ChildrenOK ==
  /\ ParentInformed
  /\ \A x, y \in Workflows :
       parent[x].wf \in Workflows /\ parent[x].wf = parent[y].wf /\ parent[x].cmd = parent[y].cmd
         => x = y
  /\ \A p \in Workflows : \A e \in history[p] : e.type \in ChildOutcomes =>
       /\ StartedBefore(history[p], e, "ChildWorkflowStarted")
       /\ \A f \in history[p] : f.type \in ChildOutcomes /\ f.cmd = e.cmd => f = e

\* The events of the activity of command c, and its rows.
Asked(w, c) == \E e \in history[w] : e.type = "ActivityScheduled" /\ e.cmd = c
Decided(w, c) == \E e \in history[w] : Decides(e) /\ e.cmd = c
Starts(w, c) == {e \in history[w] : e.type = "ActivityStarted" /\ e.cmd = c}
Attempts(w, c) == {t \in DOMAIN tasks : t.wf = w /\ t.kind = "activity" /\ t.cmd = c}
Tried(w, c) == {t \in Attempts(w, c) : tasks[t].token # 0}

\* The rows of an activity are its attempts; the last one is the only one that
\* can be open, one is open as long as the activity is undecided, and each has
\* been leased at most once.
ActivityOK(w, c) ==
  /\ \A t \in Attempts(w, c) :
       /\ Asked(w, c) /\ t.n \in 1 .. MaxAttempts
       /\ tasks[t].status = "pending" => tasks[t].token = 0
       /\ Open(t) => ~Decided(w, c) /\ \A u \in Attempts(w, c) : u.n <= t.n
  /\ Asked(w, c) /\ ~Decided(w, c) /\ Running(w) /\ ~canceled[w] =>
       \E t \in Attempts(w, c) : Open(t)
  /\ \A e \in history[w] : e.type \in ActivityOutcomes /\ e.cmd = c =>
       /\ StartedBefore(history[w], e, "ActivityScheduled")
       /\ Decides(e) =>
            \A f \in history[w] : f.type \in ActivityOutcomes /\ f.cmd = c => f.seq <= e.seq
  /\ Cardinality(Starts(w, c)) <= Cardinality(Tried(w, c))

\* No attempt is about to be started of an execution that is being canceled.
StartsOK ==
  /\ NoStartAfterCancel
  /\ \A c \in claims : c.op = "lease" /\ c.task.kind = "activity" => ~canceled[c.task.wf]

Commands == Nat \cup {NoCommand}

ActivityInv == StartsOK /\ \A w \in Workflows, c \in Commands : ActivityOK(w, c)

TimerBegun(w, c) == \E e \in history[w] : e.type = "TimerStarted" /\ e.cmd = c
TimerEnded(w, c) == \E e \in history[w] : e.type \in TimerOutcomes /\ e.cmd = c

\* A timer is one row, which is pending exactly as long as the timer has not
\* ended and its execution runs.
TimerOK(w, c) ==
  LET t == Timer(w, c) IN
  /\ t \in DOMAIN tasks <=> TimerBegun(w, c)
  /\ t \in DOMAIN tasks =>
       /\ tasks[t].status # "leased"
       /\ tasks[t].status = "pending" => ~TimerEnded(w, c)
       /\ Running(w) /\ tasks[t].status # "pending" =>
            tasks[t].status = "completed" /\ TimerEnded(w, c)
  /\ \A e \in history[w] : e.type \in TimerOutcomes /\ e.cmd = c =>
       /\ StartedBefore(history[w], e, "TimerStarted")
       /\ \A f \in history[w] : f.type \in TimerOutcomes /\ f.cmd = c => f = e

TimerInv ==
  /\ \A t \in DOMAIN tasks : t.kind = "timer" => t = Timer(t.wf, t.cmd) /\ t.cmd \in Nat
  /\ \A w \in Workflows, c \in Commands : TimerOK(w, c)

HInv == RecordInv /\ ChildrenOK /\ ActivityInv /\ TimerInv

(***************************************************************************)
(* What a step does, apart from pausing, deadlines and memory.             *)
(***************************************************************************)

\* The rows of these kinds keep their status and their token.
RowsKept(kinds) ==
  \A t \in TaskId : t.kind \in kinds =>
    /\ t \in DOMAIN tasks' <=> t \in DOMAIN tasks
    /\ t \in DOMAIN tasks =>
         tasks'[t].status = tasks[t].status /\ tasks'[t].token = tasks[t].token

\* Locks are released, or taken on rows that may be started.
ClaimsKept ==
  \A c \in claims' :
    c \in claims \/ (c.op = "lease" /\ c.task.kind = "activity" => ~canceled[c.task.wf])

\* A step that records nothing.
Still ==
  /\ UNCHANGED <<status, canceled, parent, updates, history, next_seq>>
  /\ RowsKept({"activity", "timer"}) /\ ClaimsKept

\* A step that records what a client did.
Noted(w) ==
  \/ PauseWorkflow(w) \/ ResumeWorkflow(w)
  \/ \E s \in Signals : SendSignal(w, s)
  \/ \E u \in Updates : SendUpdate(w, u)

\* The attempt t has ended; u is the row that follows it.
Reported(t, type, final, s, u) ==
  /\ t \in DOMAIN tasks /\ t.kind = "activity" /\ Open(t) /\ Running(t.wf)
  /\ type \in ActivityOutcomes /\ final \in BOOLEAN /\ s \in {"completed", "dead"}
  /\ Record(t.wf, type, t.cmd, NoTag, final)
  /\ tasks' = Insert(Close(tasks, {t}, s), {u})
  /\ \/ final /\ u = WakeUp(t.wf, next_seq[t.wf])
     \/ ~final /\ type # "ActivityCompleted" /\ t.n < MaxAttempts
        /\ u = Attempt(t.wf, t.cmd, t.n + 1)
  /\ claims' \subseteq claims
  /\ UNCHANGED <<status, canceled, parent, updates>>

\* The k events that end the history of w.
EndEvents(w, s, evs, k) ==
  LET last == next_seq[w] + k - 1 IN
  /\ k \in Nat \ {0} /\ Numbered(evs, next_seq[w], next_seq[w] + k)
  /\ \A e \in evs :
       \/ e.type = TerminalStatus[s] /\ e.seq = last
       \/ e.type = "TimerCanceled" /\ e.cmd \in PendingTimers(w)
       \/ /\ e.type = "WorkflowExecutionContinuedAsNew"
          /\ \A f \in Scheduled(history[w]) : f.cmd # e.cmd
  /\ \E e \in evs : e.type = TerminalStatus[s] /\ e.seq = last
  /\ \A e, f \in evs : e.type = f.type /\ e.cmd = f.cmd => e = f

\* w is closed, and D with it.
Ends(w, s, evs, k, D, new, done) ==
  /\ Running(w) /\ s \in {"completed", "failed", "terminated"}
  /\ D \in Subtrees(w) /\ new \in SUBSET Workflows
  /\ \A x \in new : status[x] = "absent"
  /\ \A t \in done : t.kind = "workflow" /\ t.wf = w
  /\ EndEvents(w, s, evs, k)
  /\ CloseExecution(w, s, evs, k, D, new, done)

\* Nothing of the queue changes.
LEMMA SameRows == tasks' = tasks => \A K : RowsKept(K)
  BY DEF RowsKept

\* One row is changed in place.
LEMMA EditedRow ==
  ASSUME IInv, NEW t \in DOMAIN tasks, NEW r, tasks' = [tasks EXCEPT ![t] = r],
         t.kind = "workflow" \/ (r.status = tasks[t].status /\ r.token = tasks[t].token)
  PROVE  RowsKept({"activity", "timer"})
<1>1. /\ DOMAIN tasks' = DOMAIN tasks /\ tasks'[t] = r
      /\ \A u \in DOMAIN tasks \ {t} : tasks'[u] = tasks[u]
  BY DEF IInv, TypeOK
<1> QED
  BY <1>1 DEF RowsKept

\* The rows of S are closed with status s, those of ids inserted.
Queued(S, s, ids) ==
  /\ DOMAIN tasks' = DOMAIN tasks \cup ids
  /\ \A t \in DOMAIN tasks \ S : tasks'[t] = tasks[t]
  /\ \A t \in DOMAIN tasks \cap S : tasks'[t].status = s /\ tasks'[t].token = tasks[t].token
  /\ \A t \in ids \ DOMAIN tasks : tasks'[t].status = "pending" /\ tasks'[t].token = 0

LEMMA QueueRows ==
  ASSUME IInv, NEW S, NEW s \in {"completed", "dead"}, NEW ids,
         tasks' = Insert(Close(tasks, S, s), ids)
  PROVE  Queued(S, s, ids)
<1>1. \A t \in DOMAIN tasks : tasks[t] \in Row
  BY DEF IInv, TypeOK
<1>2. \A r \in Row : /\ [r EXCEPT !.status = s, !.due = {}].status = s
                     /\ [r EXCEPT !.status = s, !.due = {}].token = r.token
  BY DEF Row
<1>3. \A t : NewRow(t).status = "pending" /\ NewRow(t).token = 0
  BY DEF NewRow
<1> DEFINE mid == Close(tasks, S, s)
<1>4. /\ DOMAIN mid = DOMAIN tasks
      /\ \A t \in DOMAIN tasks \ S : mid[t] = tasks[t]
      /\ \A t \in DOMAIN tasks \cap S : mid[t].status = s /\ mid[t].token = tasks[t].token
  BY <1>1, <1>2 DEF Close
<1>5. tasks' = Insert(mid, ids)
  OBVIOUS
<1> HIDE DEF mid
<1> QED
  BY <1>3, <1>4, <1>5 DEF Insert, Queued

\* Such a step leaves the rows of the other kinds alone.
LEMMA QueueKept ==
  ASSUME IInv, NEW S, NEW s \in {"completed", "dead"}, NEW ids, NEW K,
         tasks' = Insert(Close(tasks, S, s), ids),
         \A t \in S \cup ids : t.kind \notin K
  PROVE  RowsKept(K)
<1>1. Queued(S, s, ids)
  BY QueueRows
<1> QED
  BY <1>1 DEF RowsKept, Queued

\* An attempt whose deadline has passed, or that its worker reports.
LEMMA TimeOutReports ==
  ASSUME IInv, NEW c \in claims, TimeOutActivity(c)
  PROVE  \E t, type, final, s, u : Reported(t, type, final, s, u)
<1> DEFINE t == c.task
           s == IF IsFinal(t) THEN "dead" ELSE "completed"
<1>1. t \in DOMAIN tasks /\ t.kind = "activity" /\ Open(t) /\ t.n \in Nat
  BY DEF TimeOutActivity, IInv, ClaimsOK, TypeOK, TaskId
<1>2. t.n < MaxAttempts \/ IsFinal(t)
  BY <1>1, EngineAssumption DEF IsFinal
<1>3. Reported(t, "ActivityTimedOut", IsFinal(t), s, TaskAfter(t))
  BY <1>1, <1>2 DEF TimeOutActivity, FailAttempt, Reported, TaskAfter, ActivityOutcomes, IsFinal
<1> QED
  BY <1>3

LEMMA WorkerReports ==
  ASSUME IInv, NEW h \in inflight, CompleteActivity(h) \/ FailActivity(h)
  PROVE  \E t, type, final, s, u : Reported(t, type, final, s, u)
<1> DEFINE t == h.task
<1>0. t \in TaskId /\ (Live(h) => t \in DOMAIN tasks /\ tasks[t] \in Row /\ Open(t))
  BY DEF Live, IInv, TypeOK, Open
<1>1. CASE CompleteActivity(h)
  <2>1. Live(h) /\ t.kind = "activity"
    BY <1>1 DEF CompleteActivity, Reporting
  <2>2. Reported(t, "ActivityCompleted", TRUE, "completed", WakeUp(t.wf, next_seq[t.wf]))
    BY <1>0, <1>1, <2>1 DEF CompleteActivity, Reporting, Reported, ActivityOutcomes
  <2> QED
    BY <2>2
<1>2. CASE FailActivity(h)
  <2> DEFINE s == IF IsFinal(t) THEN "dead" ELSE "completed"
  <2>1. Live(h) /\ t.kind = "activity" /\ t.n \in Nat
    BY <1>0, <1>2 DEF FailActivity, Reporting, TaskId
  <2>2. t.n < MaxAttempts \/ IsFinal(t)
    BY <2>1, EngineAssumption DEF IsFinal
  <2>3. Reported(t, "ActivityFailed", IsFinal(t), s, TaskAfter(t))
    BY <1>0, <1>2, <2>1, <2>2 DEF FailActivity, Reporting, FailAttempt, Reported, TaskAfter,
       ActivityOutcomes, IsFinal
  <2> QED
    BY <2>3
<1> QED
  BY <1>1, <1>2

\* Polling takes locks, leases a workflow task, or records an event.
LEMMA PollCases ==
  ASSUME IInv, PollStep
  PROVE  \/ Still
         \/ \E c \in claims : LeaseActivity(c) \/ FireTimer(c)
         \/ \E t, type, final, s, u : Reported(t, type, final, s, u)
<1>1. ASSUME NEW t \in DOMAIN tasks, ClaimLease(t) \/ ClaimTimer(t) \/ ClaimTimeout(t)
      PROVE  Still
  <2>1. UNCHANGED <<execVars, tasks>>
    BY <1>1 DEF ClaimLease, ClaimTimer, ClaimTimeout, Claim
  <2>2. ClaimsKept
    BY <1>1 DEF ClaimLease, ClaimTimer, ClaimTimeout, Claim, LeaseCandidate, ClaimsKept
  <2> QED
    BY <2>1, <2>2, SameRows DEF Still, execVars
<1>2. ASSUME NEW t \in DOMAIN tasks, ReclaimWorkflowTask(t)
      PROVE  Still
  <2> DEFINE r == [tasks[t] EXCEPT !.status = "pending", !.due = {"visible"}]
  <2>1. tasks' = [tasks EXCEPT ![t] = r]
    BY <1>2 DEF ReclaimWorkflowTask, IInv, TypeOK, Row
  <2>2. RowsKept({"activity", "timer"})
    BY <1>2, <2>1, EditedRow DEF ReclaimWorkflowTask
  <2> QED
    BY <1>2, <2>2 DEF ReclaimWorkflowTask, Still, ClaimsKept, execVars
<1>3. ASSUME NEW c \in claims, LeaseWorkflowTask(c)
      PROVE  Still
  <2>1. c.task \in DOMAIN tasks
    BY DEF IInv, ClaimsOK
  <2>2. RowsKept({"activity", "timer"})
    BY <1>3, <2>1, EditedRow DEF LeaseWorkflowTask, Lease
  <2> QED
    BY <1>3, <2>2 DEF LeaseWorkflowTask, Lease, Still, ClaimsKept, execVars
<1> QED
  BY <1>1, <1>2, <1>3, TimeOutReports DEF PollStep

\* Workers that report an activity, replay, or commit nothing.
LEMMA WorkCases ==
  ASSUME IInv, NEW h \in inflight,
         \/ CompleteActivity(h) \/ FailActivity(h) \/ LoadAndReplay(h) \/ CommitBlocked(h)
         \/ Abandon(h) \/ Crash(h) \/ ReleaseWorkflowTask(h) \/ HeartbeatActivity(h)
  PROVE  Still \/ \E t, type, final, s, u : Reported(t, type, final, s, u)
<1> DEFINE t == h.task
<1>0. t \in TaskId /\ (Live(h) => t \in DOMAIN tasks /\ tasks[t] \in Row /\ Open(t))
  BY DEF Live, IInv, TypeOK, Open
<1>1. CASE CompleteActivity(h) \/ FailActivity(h)
  BY <1>1, WorkerReports
<1>2. CASE LoadAndReplay(h) \/ Abandon(h) \/ Crash(h)
  BY <1>2, SameRows DEF LoadAndReplay, Abandon, Crash, Still, ClaimsKept, execVars
<1>3. CASE CommitBlocked(h)
  <2>1. tasks' = Close(tasks, {t}, "completed") /\ t.kind = "workflow"
    BY <1>3 DEF CommitBlocked, Committing
  <2>2. RowsKept({"activity", "timer"})
    BY <2>1 DEF Close, RowsKept
  <2> QED
    BY <1>3, <2>2 DEF CommitBlocked, Still, ClaimsKept, execVars
<1>4. CASE ReleaseWorkflowTask(h)
  <2> DEFINE r == [tasks[t] EXCEPT !.status = "pending", !.due = {}]
  <2>1. tasks' = [tasks EXCEPT ![t] = r]
    BY <1>0, <1>4 DEF ReleaseWorkflowTask, IInv, TypeOK, Row
  <2>2. RowsKept({"activity", "timer"})
    BY <1>0, <1>4, <2>1, EditedRow DEF ReleaseWorkflowTask
  <2> QED
    BY <1>4, <2>2 DEF ReleaseWorkflowTask, Still, ClaimsKept, execVars
<1>5. CASE HeartbeatActivity(h)
  <2> DEFINE r == [tasks[t] EXCEPT !.due = @ \ {"heartbeat", "lease"}]
  <2>1. tasks' = [tasks EXCEPT ![t] = r] /\ t \in DOMAIN tasks
    BY <1>0, <1>5 DEF HeartbeatActivity, IInv, TypeOK, Row
  <2>2. r.status = tasks[t].status /\ r.token = tasks[t].token
    BY <1>0, <1>5 DEF HeartbeatActivity, Row
  <2>3. RowsKept({"activity", "timer"})
    BY <2>1, <2>2, EditedRow
  <2> QED
    BY <1>5, <2>3 DEF HeartbeatActivity, Still, ClaimsKept, execVars
<1> QED
  BY <1>1, <1>2, <1>3, <1>4, <1>5

\* The clock.
LEMMA PassesStill ==
  ASSUME IInv, NEW t \in DOMAIN tasks, NEW d, Passes(t, d)
  PROVE  Still
<1> DEFINE r == [tasks[t] EXCEPT !.due = @ \cup {d}]
<1>1. tasks[t] \in Row
  BY DEF IInv, TypeOK
<1>2. tasks' = [tasks EXCEPT ![t] = r]
  BY <1>1 DEF Passes, IInv, TypeOK, Row
<1>3. r.status = tasks[t].status /\ r.token = tasks[t].token
  BY <1>1 DEF Row
<1>4. RowsKept({"activity", "timer"})
  BY <1>2, <1>3, EditedRow
<1> QED
  BY <1>4 DEF Passes, Still, ClaimsKept, execVars

\* The canceled timers and the terminal event are numbered one after the other.
LEMMA EndingEvents ==
  ASSUME IInv, NEW w \in Workflows, NEW f \in TimerOrders(w),
         NEW s \in {"completed", "failed", "terminated"}
  PROVE  EndEvents(w, s, TimersCanceled(f) \cup {Ending(w, TerminalStatus[s])},
                   Cardinality(PendingTimers(w)) + 1)
<1> DEFINE C == PendingTimers(w)
           n == next_seq[w]
           m == Cardinality(C)
           type == TerminalStatus[s]
           last == Ending(w, type)
           T == TimersCanceled(f)
<1>1. n \in Nat /\ m \in Nat /\ m + 1 \in Nat \ {0}
  <2>1. type \in TerminalEvents
    BY DEF TerminalStatus, TerminalEvents
  <2>2. m + 1 \in Nat
    BY <2>1, EndingType
  <2>3. IsFiniteSet(C)
    <3> DEFINE g == [t \in DOMAIN tasks |-> t.cmd]
    <3>1. IsFiniteSet({g[t] : t \in DOMAIN tasks})
      BY FiniteImage DEF IInv
    <3>2. C \subseteq {g[t] : t \in DOMAIN tasks}
      BY DEF PendingTimers
    <3> QED
      BY <3>1, <3>2, FS_Subset
  <2>4. m \in Nat
    BY <2>3, FS_CardinalityType
  <2> QED
    BY <2>4 DEF IInv, TypeOK
<1>2. \A c \in C : c \in Int
  BY DEF PendingTimers, IInv, TypeOK, TaskId, NoCommand
<1>3. /\ DOMAIN f = C
      /\ \A c \in C : f[c] \in n .. (n + m - 1)
      /\ \A c, d \in C : c < d => f[c] < f[d]
      /\ \A i \in n .. (n + m - 1) : \E c \in C : f[c] = i
  BY DEF TimerOrders
<1>4. \A c, d \in C : f[c] = f[d] => c = d
  BY <1>1, <1>2, <1>3
<1>5. last.seq = n + m /\ last.type = type
  BY DEF Ending, Plain, Ev
<1> DEFINE ev(c) == Ev(f[c], "TimerCanceled", c, NoTag, TRUE)
<1>6. T = {ev(c) : c \in C}
  BY <1>3 DEF TimersCanceled
<1>7. \A c : ev(c).seq = f[c] /\ ev(c).cmd = c /\ ev(c).type = "TimerCanceled"
  BY DEF Ev
<1>8. type # "TimerCanceled"
  BY DEF TerminalStatus
<1> HIDE DEF C, n, m, type, last, T, ev
<1>9. \A e \in T : \E c \in C : e = ev(c) /\ e.seq = f[c] /\ e.cmd = c /\ e.type = "TimerCanceled"
  BY <1>6, <1>7
<1>10. \A e, g \in T : e.seq = g.seq \/ e.cmd = g.cmd => e = g
  BY <1>4, <1>9
<1>11. \A e \in T : e.seq \in n .. (n + m - 1) /\ e.cmd \in C /\ e.type = "TimerCanceled"
  BY <1>3, <1>9
<1>12. /\ \A e \in T \cup {last} : e.seq \in n .. (n + (m + 1) - 1)
       /\ \A i \in n .. (n + (m + 1) - 1) : \E e \in T \cup {last} : e.seq = i
  <2>1. \A i \in n .. (n + m - 1) : \E e \in T : e.seq = i
    BY <1>3, <1>6, <1>7
  <2>2. \A e \in T \cup {last} : e.seq \in n .. (n + (m + 1) - 1)
    BY <1>1, <1>5, <1>11
  <2>3. \A i \in n .. (n + (m + 1) - 1) : \E e \in T \cup {last} : e.seq = i
    BY <1>1, <1>5, <2>1
  <2> QED
    BY <2>2, <2>3
<1>13. \A e \in T : e.seq # last.seq /\ e.type # last.type
  BY <1>1, <1>5, <1>8, <1>11
<1>14. \A e, g \in T \cup {last} :
         e.seq = g.seq \/ (e.type = g.type /\ e.cmd = g.cmd) => e = g
  BY <1>10, <1>13
<1>15. last.seq = n + (m + 1) - 1
  BY <1>1, <1>5
<1>16. /\ \A e \in T \cup {last} :
            \/ e.type = type /\ e.seq = n + (m + 1) - 1
            \/ e.type = "TimerCanceled" /\ e.cmd \in C
       /\ \E e \in T \cup {last} : e.type = type /\ e.seq = n + (m + 1) - 1
  BY <1>5, <1>11, <1>15
<1>17. Numbered(T \cup {last}, n, n + (m + 1))
  BY <1>1, <1>12, <1>14 DEF Numbered
<1>18. EndEvents(w, s, T \cup {last}, m + 1)
  BY <1>1, <1>14, <1>16, <1>17 DEF EndEvents, C, n, type
<1> QED
  BY <1>18 DEF C, m, type, last, T

\* Every way of closing an execution.
LEMMA EndCases ==
  ASSUME IInv,
         \/ \E w \in Workflows : TerminateWorkflow(w)
         \/ \E h \in inflight : CommitCanceled(h) \/ CommitResult(h) \/ CommitContinueAsNew(h)
  PROVE  \E w \in Workflows : \E s, evs, k, D, new, done : Ends(w, s, evs, k, D, new, done)
<1>1. ASSUME NEW w \in Workflows, TerminateWorkflow(w)
      PROVE  \E s, evs, k, D, new, done : Ends(w, s, evs, k, D, new, done)
  <2>1. PICK D \in Subtrees(w), f \in TimerOrders(w) :
          CloseExecution(w, "terminated",
            TimersCanceled(f) \cup {Ending(w, "WorkflowExecutionTerminated")},
            Cardinality(PendingTimers(w)) + 1, D, {}, {})
    BY <1>1 DEF TerminateWorkflow
  <2>2. TerminalStatus["terminated"] = "WorkflowExecutionTerminated" /\ Running(w)
    BY <1>1 DEF TerminalStatus, TerminateWorkflow
  <2>3. EndEvents(w, "terminated",
          TimersCanceled(f) \cup {Ending(w, "WorkflowExecutionTerminated")},
          Cardinality(PendingTimers(w)) + 1)
    BY <2>2, EndingEvents
  <2>4. Ends(w, "terminated",
          TimersCanceled(f) \cup {Ending(w, "WorkflowExecutionTerminated")},
          Cardinality(PendingTimers(w)) + 1, D, {}, {})
    BY <2>1, <2>2, <2>3 DEF Ends
  <2> QED
    BY <2>4
<1>2. ASSUME NEW h \in inflight, CommitCanceled(h) \/ CommitResult(h)
      PROVE  \E s, evs, k, D, new, done : Ends(h.task.wf, s, evs, k, D, new, done)
  <2> DEFINE w == h.task.wf
  <2>1. w \in Workflows /\ Running(w) /\ h.task.kind = "workflow" /\ h.task.wf = w
    BY <1>2, InflightType DEF CommitCanceled, CommitResult, Committing
  <2>2. PICK s \in {"completed", "failed", "terminated"}, D \in Subtrees(w), f \in TimerOrders(w) :
          CloseExecution(w, s, TimersCanceled(f) \cup {Ending(w, TerminalStatus[s])},
            Cardinality(PendingTimers(w)) + 1, D, {}, {h.task})
    <3>1. CASE CommitCanceled(h)
      <4>1. TerminalStatus["terminated"] = "WorkflowExecutionTerminated"
        BY DEF TerminalStatus
      <4> QED
        BY <3>1, <4>1 DEF CommitCanceled
    <3>2. CASE CommitResult(h)
      BY <3>2 DEF CommitResult
    <3> QED
      BY <1>2, <3>1, <3>2
  <2>3. EndEvents(w, s, TimersCanceled(f) \cup {Ending(w, TerminalStatus[s])},
          Cardinality(PendingTimers(w)) + 1)
    BY <2>1, EndingEvents
  <2> HIDE DEF w
  <2>4. Ends(w, s, TimersCanceled(f) \cup {Ending(w, TerminalStatus[s])},
          Cardinality(PendingTimers(w)) + 1, D, {}, {h.task})
    BY <2>1, <2>2, <2>3 DEF Ends
  <2> QED
    BY <2>4 DEF w
<1>3. ASSUME NEW h \in inflight, CommitContinueAsNew(h)
      PROVE  \E s, evs, k, D, new, done : Ends(h.task.wf, s, evs, k, D, new, done)
  <2> DEFINE w == h.task.wf
             cs == h.replay.commands
             c == cs[1]
             n == next_seq[w]
             new == {Child(w, c.cmd)}
             first == Ev(n, "WorkflowExecutionContinuedAsNew", c.cmd, c.fp, TRUE)
             last == Plain(n + 1, "WorkflowExecutionCompleted")
             evs == {first, last}
  <2>1. /\ w \in Workflows /\ Running(w) /\ h.task.kind = "workflow" /\ n \in Nat
        /\ h.task.wf = w
        /\ cs \in Seq(Command) /\ Acceptable(w, cs)
    BY <1>3, InflightType DEF CommitContinueAsNew, Committing, IInv, TypeOK
  <2>2. PICK D \in Subtrees(w) : CloseExecution(w, "completed", evs, 2, D, new, {h.task})
    BY <1>3 DEF CommitContinueAsNew
  <2>3. PICK i \in DOMAIN cs : cs[i].kind = "continue"
    BY <1>3 DEF CommitContinueAsNew, Emitted
  <2>4. Len(cs) = 1 /\ i = 1
    BY <2>1, <2>3, AcceptableOK
  <2>5. Child(w, c.cmd) \in Workflows /\ status[Child(w, c.cmd)] = "absent"
    BY <2>1, <2>3, <2>4, AcceptableOK
  <2>6. \A e \in Scheduled(history[w]) : e.cmd # c.cmd
    BY <2>1, <2>3, <2>4 DEF Acceptable
  <2>7. /\ first.seq = n /\ first.type = "WorkflowExecutionContinuedAsNew" /\ first.cmd = c.cmd
        /\ last.seq = n + 1 /\ last.type = "WorkflowExecutionCompleted"
    BY DEF Ev, Plain
  <2>8. TerminalStatus["completed"] = "WorkflowExecutionCompleted"
    BY DEF TerminalStatus
  <2> HIDE DEF first, last, n, c, cs, w
  <2>9. /\ \A e \in evs : e.seq \in n .. (n + 2 - 1)
        /\ \A j \in n .. (n + 2 - 1) : \E e \in evs : e.seq = j
    BY <2>1, <2>7
  <2>10. \A e, f \in evs : e.seq = f.seq \/ e.type = f.type => e = f
    BY <2>1, <2>7
  <2>11. EndEvents(w, "completed", evs, 2)
    <3>1. last.seq = n + 2 - 1
      BY <2>1, <2>7
    <3> HIDE DEF evs
    <3>2. \A e \in evs : e = first \/ e = last
      BY DEF evs
    <3>3. last \in evs
      BY DEF evs
    <3>4. Numbered(evs, n, n + 2)
      BY <2>1, <2>9, <2>10 DEF Numbered
    <3>5. \A e \in evs :
            \/ e.type = TerminalStatus["completed"] /\ e.seq = n + 2 - 1
            \/ /\ e.type = "WorkflowExecutionContinuedAsNew"
               /\ \A f \in Scheduled(history[w]) : f.cmd # e.cmd
      BY <2>6, <2>7, <2>8, <3>1, <3>2
    <3>6. last.type = TerminalStatus["completed"]
      BY <2>7, <2>8
    <3> QED
      BY <2>10, <3>1, <3>3, <3>4, <3>5, <3>6 DEF EndEvents, n
  <2>12. Ends(w, "completed", evs, 2, D, new, {h.task})
    BY <2>1, <2>2, <2>5, <2>11 DEF Ends
  <2> QED
    BY <2>12 DEF w
<1>4. \A h \in inflight : h.task.wf \in Workflows
  BY InflightType
<1> QED
  BY <1>1, <1>2, <1>3, <1>4

\* The ways of closing an execution.
CloseStep ==
  \/ \E w \in Workflows : TerminateWorkflow(w)
  \/ \E h \in inflight : CommitCanceled(h) \/ CommitResult(h) \/ CommitContinueAsNew(h)

\* Every step of the engine is one of these.
LEMMA NextCases ==
  ASSUME IInv, [Next]_vars
  PROVE  \/ Still
         \/ \E w \in Workflows : StartWorkflow(w) \/ Noted(w) \/ RequestCancellation(w)
         \/ \E c \in claims : LeaseActivity(c) \/ FireTimer(c)
         \/ \E t, type, final, s, u : Reported(t, type, final, s, u)
         \/ CloseStep
         \/ \E h \in inflight : CommitCommands(h)
<1>1. CASE ClientStep
  <2>1. Roots \subseteq Workflows /\ Operated \subseteq Workflows
    BY EngineAssumption
  <2> QED
    BY <1>1, <2>1 DEF ClientStep, RetryWorkflow, Noted, CloseStep
<1>2. CASE PollStep
  BY <1>2, PollCases
<1>3. CASE WorkerStep
  BY <1>3, WorkCases DEF WorkerStep, CommitStep, CloseStep
<1>4. CASE TimeStep
  BY <1>4, PassesStill DEF TimeStep, Elapse
<1>5. CASE FaultStep
  <2>1. ASSUME NEW c \in claims, AbortClaim(c) PROVE Still
    BY <2>1, SameRows DEF AbortClaim, Still, ClaimsKept, execVars
  <2> QED
    BY <1>5, <2>1, WorkCases, PassesStill DEF FaultStep, Stall
<1>6. CASE \E h \in inflight : HeartbeatActivity(h)
  BY <1>6, WorkCases
<1>7. CASE UNCHANGED vars
  BY <1>7, SameRows DEF vars, execVars, Still, ClaimsKept
<1> QED
  BY <1>1, <1>2, <1>3, <1>4, <1>5, <1>6, <1>7 DEF Next, EngineStep

\* The same, whatever closes the execution.
LEMMA StepCases ==
  ASSUME IInv, [Next]_vars
  PROVE  \/ Still
         \/ \E w \in Workflows : StartWorkflow(w) \/ Noted(w) \/ RequestCancellation(w)
         \/ \E c \in claims : LeaseActivity(c) \/ FireTimer(c)
         \/ \E t, type, final, s, u : Reported(t, type, final, s, u)
         \/ \E w \in Workflows : \E s, evs, k, D, new, done : Ends(w, s, evs, k, D, new, done)
         \/ \E h \in inflight : CommitCommands(h)
  BY NextCases, EndCases DEF CloseStep

(***************************************************************************)
(* What a step does to one execution.                                      *)
(***************************************************************************)

Same(x) == Kept(x) /\ canceled'[x] = canceled[x]

\* The execution is started: by a client, by its parent, or as a continuation.
Born(x) ==
  /\ status[x] = "absent" /\ status'[x] = "running"
  /\ history'[x] = {Plain(1, "WorkflowExecutionStarted")} /\ next_seq'[x] = 2
  /\ canceled'[x] = canceled[x] /\ updates'[x] = updates[x]

\* Events are appended; no command is scheduled again.
Appended(x, A) ==
  /\ history'[x] = history[x] \cup A
  /\ next_seq'[x] > next_seq[x] /\ next_seq'[x] \in Nat
  /\ Numbered(A, next_seq[x], next_seq'[x])
  /\ \A e \in A : e.type # "WorkflowExecutionStarted"
  /\ \A e, f \in Scheduled(A) : e.cmd = f.cmd => e = f
  /\ \A e \in Scheduled(A), f \in Scheduled(history[x]) : e.cmd # f.cmd

Resolves(A, u) == \E e \in A : e.type = "WorkflowUpdateResolved" /\ e.tag = u

\* It goes on: at most one cancellation request is noted, updates are received
\* or answered.
Grows(x, A) ==
  /\ Running(x) /\ status'[x] = "running" /\ Appended(x, A)
  /\ \A e \in A : e.type \notin TerminalEvents
  /\ \/ canceled'[x] = canceled[x] /\ \A e \in A : e.type # "WorkflowCancellationRequested"
     \/ /\ ~canceled[x] /\ canceled'[x] = TRUE
        /\ \E e : A = {e} /\ e.type = "WorkflowCancellationRequested"
  /\ \A u \in Updates :
       \/ /\ updates'[x][u] = updates[x][u] \/ (updates[x][u] = "none" /\ updates'[x][u] = "pending")
          /\ ~Resolves(A, u)
       \/ /\ updates'[x][u] \in {"completed", "rejected"}
          /\ updates'[x][u] = "completed" =>
               \E e \in A : e.type = "WorkflowUpdateResolved" /\ e.tag = u /\ e.final

\* It is closed, with a terminal event at the end.
Dies(x, A) ==
  /\ Running(x) /\ status'[x] \in {"completed", "failed", "terminated"} /\ Appended(x, A)
  /\ \A e \in A :
       /\ e.type \in TerminalEvents => e.seq = next_seq'[x] - 1
       /\ e.type \notin {"WorkflowCancellationRequested", "WorkflowUpdateResolved"}
  /\ \E e \in A : e.seq = next_seq'[x] - 1 /\ e.type = TerminalStatus[status'[x]]
  /\ canceled'[x] = canceled[x] /\ updates'[x] = Rejected(updates[x])

\* One event.
LEMMA OneEvent ==
  ASSUME IInv, NEW x \in Workflows, NEW e, e.seq = next_seq[x],
         history'[x] = history[x] \cup {e}, next_seq'[x] = next_seq[x] + 1,
         e.type \notin ScheduleEvents, e.type # "WorkflowExecutionStarted"
  PROVE  Appended(x, {e})
<1>1. next_seq[x] \in Nat
  BY DEF IInv, TypeOK
<1>2. Numbered({e}, next_seq[x], next_seq'[x])
  BY <1>1 DEF Numbered
<1>3. Scheduled({e}) = {}
  BY DEF Scheduled
<1>4. next_seq'[x] > next_seq[x] /\ next_seq'[x] \in Nat
  BY <1>1
<1>5. /\ \A d, f \in Scheduled({e}) : d.cmd = f.cmd => d = f
      /\ \A d \in Scheduled({e}), f \in Scheduled(history[x]) : d.cmd # f.cmd
  BY <1>3
<1>6. \A d \in {e} : d.type # "WorkflowExecutionStarted"
  OBVIOUS
<1>7. history'[x] = history[x] \cup {e}
  OBVIOUS
<1> QED
  BY <1>2, <1>4, <1>5, <1>6, <1>7 DEF Appended

\* What Record appends.
LEMMA RecordEffect ==
  ASSUME IInv, NEW w \in Workflows, NEW type, NEW cmd, NEW tag, NEW final \in BOOLEAN,
         Record(w, type, cmd, tag, final)
  PROVE  /\ \A x \in Workflows \ {w} : history'[x] = history[x] /\ next_seq'[x] = next_seq[x]
         /\ next_seq'[w] = next_seq[w] + 1
         /\ \E e : /\ history'[w] = history[w] \cup {e}
                   /\ e.seq = next_seq[w] /\ e.type = type /\ e.cmd = cmd /\ e.final = final
<1> DEFINE e == Ev(next_seq[w], type, cmd, tag, final)
<1>1. e.seq = next_seq[w] /\ e.type = type /\ e.cmd = cmd /\ e.final = final
  BY DEF Ev
<1>2. /\ history' = [history EXCEPT ![w] = @ \cup {e}]
      /\ next_seq' = [next_seq EXCEPT ![w] = @ + 1]
  BY DEF Record
<1> HIDE DEF e
<1>3. history'[w] = history[w] \cup {e}
  BY <1>2 DEF IInv, TypeOK
<1>4. \A x \in Workflows \ {w} : history'[x] = history[x] /\ next_seq'[x] = next_seq[x]
  BY <1>2 DEF IInv, TypeOK
<1>5. next_seq'[w] = next_seq[w] + 1
  BY <1>2 DEF IInv, TypeOK
<1> QED
  BY <1>1, <1>3, <1>4, <1>5

\* The same for an event whose final attribute is TRUE.
LEMMA RecordTrue ==
  ASSUME IInv, NEW w \in Workflows, NEW type, NEW cmd, NEW tag,
         Record(w, type, cmd, tag, TRUE)
  PROVE  /\ \A x \in Workflows \ {w} : history'[x] = history[x] /\ next_seq'[x] = next_seq[x]
         /\ next_seq'[w] = next_seq[w] + 1
         /\ \E e : /\ history'[w] = history[w] \cup {e}
                   /\ e.seq = next_seq[w] /\ e.type = type /\ e.cmd = cmd
<1>1. \E final \in BOOLEAN : Record(w, type, cmd, tag, final)
  OBVIOUS
<1> QED
  BY <1>1, RecordEffect

\* The events of steps that record one, other than a request or an update.
PlainTypes == ActivityOutcomes \cup {"WorkflowExecutionPaused", "WorkflowExecutionResumed",
  "SignalReceived", "ActivityStarted", "TimerFired"}

LEMMA PlainTypesOK ==
  \A type \in PlainTypes \cup {"WorkflowUpdateReceived", "WorkflowCancellationRequested"} \cup ChildOutcomes :
    /\ type \notin ScheduleEvents /\ type \notin TerminalEvents
    /\ type # "WorkflowExecutionStarted" /\ type # "WorkflowUpdateResolved"
    /\ type = "WorkflowCancellationRequested" => type \notin PlainTypes \cup ChildOutcomes
  BY DEF PlainTypes, ActivityOutcomes, ChildOutcomes, ScheduleEvents, TerminalEvents

\* A step that records one such event.
LEMMA PlainChange ==
  ASSUME IInv, NEW w \in Workflows, Running(w), NEW type \in PlainTypes, NEW cmd, NEW tag,
         NEW final \in BOOLEAN, Record(w, type, cmd, tag, final),
         UNCHANGED <<status, canceled, updates>>, NEW x \in Workflows
  PROVE  Same(x) \/ \E A : Grows(x, A)
<1>1. CASE x # w
  BY <1>1, RecordEffect DEF Same, Kept
<1>2. CASE x = w
  <2>1. PICK e : /\ history'[w] = history[w] \cup {e}
                 /\ e.seq = next_seq[w] /\ e.type = type
    BY RecordEffect
  <2>2. next_seq'[w] = next_seq[w] + 1
    BY RecordEffect
  <2>3. Appended(w, {e})
    BY <2>1, <2>2, PlainTypesOK, OneEvent
  <2>4. \A u : ~Resolves({e}, u)
    BY <2>1, PlainTypesOK DEF Resolves
  <2>5. Grows(w, {e})
    BY <2>1, <2>3, <2>4, PlainTypesOK DEF Grows, Running
  <2> QED
    BY <1>2, <2>5
<1> QED
  BY <1>1, <1>2

\* Client operations.
LEMMA ClientChange ==
  ASSUME IInv, NEW w \in Workflows, StartWorkflow(w) \/ Noted(w) \/ RequestCancellation(w),
         status[w] = "absent" => history[w] = {} /\ next_seq[w] = 1, NEW x \in Workflows
  PROVE  Same(x) \/ Born(x) \/ \E A : Grows(x, A)
<1>1. CASE StartWorkflow(w)
  <2>1. CASE x # w
    BY <1>1, <2>1, StartEffect DEF Same, StartWorkflow
  <2>2. CASE x = w
    <3>1. history[w] = {} /\ next_seq[w] = 1 /\ status[w] = "absent"
      BY <1>1 DEF StartWorkflow
    <3>2. history' = [history EXCEPT ![w] = @ \cup {Plain(next_seq[w], "WorkflowExecutionStarted")}]
          /\ next_seq' = [next_seq EXCEPT ![w] = @ + 1]
      BY <1>1 DEF StartWorkflow, Record, Plain
    <3>3. history'[w] = {Plain(1, "WorkflowExecutionStarted")}
      BY <3>1, <3>2 DEF IInv, TypeOK
    <3>4. next_seq'[w] = 2
      BY <3>1, <3>2 DEF IInv, TypeOK
    <3>5. status'[w] = "running" /\ canceled' = canceled /\ updates' = updates
      BY <1>1 DEF StartWorkflow, IInv, TypeOK
    <3> QED
      BY <2>2, <3>1, <3>3, <3>4, <3>5 DEF Born
  <2> QED
    BY <2>1, <2>2
<1>2. CASE PauseWorkflow(w) \/ ResumeWorkflow(w)
  BY <1>2, PlainChange DEF PauseWorkflow, ResumeWorkflow, PlainTypes
<1>3. ASSUME NEW s, SendSignal(w, s)
      PROVE  Same(x) \/ \E A : Grows(x, A)
  <2>1. Record(w, "SignalReceived", NoCommand, s, TRUE) /\ Running(w)
        /\ UNCHANGED <<status, canceled, updates>>
    BY <1>3 DEF SendSignal
  <2>2. "SignalReceived" \in PlainTypes
    BY DEF PlainTypes
  <2> QED
    BY <2>1, <2>2, PlainChange
<1>4. ASSUME NEW u \in Updates, SendUpdate(w, u)
      PROVE  Same(x) \/ \E A : Grows(x, A)
  <2>0. Record(w, "WorkflowUpdateReceived", NoCommand, u, TRUE)
    BY <1>4 DEF SendUpdate
  <2>1. /\ Running(w) /\ updates[w][u] = "none"
        /\ updates' = [updates EXCEPT ![w][u] = "pending"] /\ UNCHANGED <<status, canceled>>
    BY <1>4 DEF SendUpdate
  <2>2. /\ \A v \in Updates : updates'[w][v] = IF v = u THEN "pending" ELSE updates[w][v]
        /\ \A y \in Workflows \ {w} : updates'[y] = updates[y]
    BY <2>1 DEF IInv, TypeOK
  <2>3. CASE x # w
    BY <2>0, <2>1, <2>2, <2>3, RecordTrue DEF Same, Kept
  <2>4. CASE x = w
    <3>1. PICK e : /\ history'[w] = history[w] \cup {e}
                   /\ e.seq = next_seq[w] /\ e.type = "WorkflowUpdateReceived"
                   /\ e.cmd = NoCommand
      BY <2>0, RecordTrue
    <3>2. next_seq'[w] = next_seq[w] + 1
      BY <2>0, RecordTrue
    <3>3. Appended(w, {e})
      BY <3>1, <3>2, PlainTypesOK, OneEvent
    <3>4. \A v : ~Resolves({e}, v)
      BY <3>1 DEF Resolves
    <3>5. Grows(w, {e})
      BY <2>1, <2>2, <3>1, <3>3, <3>4, PlainTypesOK DEF Grows, Running
    <3> QED
      BY <2>4, <3>5
  <2> QED
    BY <2>3, <2>4
<1>5. CASE RequestCancellation(w)
  <2>0. Record(w, "WorkflowCancellationRequested", NoCommand, NoTag, TRUE)
    BY <1>5 DEF RequestCancellation
  <2>1. /\ Running(w) /\ ~canceled[w] /\ canceled' = [canceled EXCEPT ![w] = TRUE]
        /\ UNCHANGED <<status, updates>>
    BY <1>5 DEF RequestCancellation
  <2>2. canceled'[w] = TRUE /\ \A y \in Workflows \ {w} : canceled'[y] = canceled[y]
    BY <2>1 DEF IInv, TypeOK
  <2>3. CASE x # w
    BY <2>0, <2>1, <2>2, <2>3, RecordTrue DEF Same, Kept
  <2>4. CASE x = w
    <3>1. PICK e : /\ history'[w] = history[w] \cup {e}
                   /\ e.seq = next_seq[w] /\ e.type = "WorkflowCancellationRequested"
                   /\ e.cmd = NoCommand
      BY <2>0, RecordTrue
    <3>2. next_seq'[w] = next_seq[w] + 1
      BY <2>0, RecordTrue
    <3>3. Appended(w, {e})
      BY <3>1, <3>2, PlainTypesOK, OneEvent
    <3>4. \A v : ~Resolves({e}, v)
      BY <3>1 DEF Resolves
    <3>5. Grows(w, {e})
      BY <2>1, <2>2, <3>1, <3>3, <3>4, PlainTypesOK DEF Grows, Running
    <3> QED
      BY <2>4, <3>5
  <2> QED
    BY <2>3, <2>4
<1> QED
  BY <1>1, <1>2, <1>3, <1>4, <1>5 DEF Noted

\* What closing w does to each execution.
Closing(w, s, evs, k, D, new) ==
  /\ Running(w) /\ D \in SUBSET Workflows /\ \A x \in D : Running(x)
  /\ \A x \in Notified(w, D) : Running(x) /\ x \in Workflows /\ x \notin D \cup {w}
  /\ \A x \in new : status[x] = "absent" /\ x \in Workflows
  /\ canceled' = canceled /\ parent' = parent
  /\ status'[w] = s /\ history'[w] = history[w] \cup evs
  /\ next_seq'[w] = next_seq[w] + k /\ updates'[w] = Rejected(updates[w])
  /\ \A x \in D \ {w} :
       /\ status'[x] = "terminated" /\ next_seq'[x] = next_seq[x] + 1
       /\ history'[x] = history[x]
            \cup {Plain(next_seq[x], "WorkflowExecutionTerminated")}
       /\ updates'[x] = Rejected(updates[x])
  /\ \A x \in Notified(w, D) :
       /\ status'[x] = status[x] /\ next_seq'[x] = next_seq[x] + 1
       /\ history'[x] = history[x]
            \cup {Ev(next_seq[x], ChildStatus[s], parent[w].cmd, NoTag, TRUE)}
       /\ updates'[x] = updates[x]
  /\ \A x \in new :
       /\ status'[x] = "running" /\ next_seq'[x] = next_seq[x] + 1
       /\ history'[x] = {Plain(1, "WorkflowExecutionStarted")} /\ updates'[x] = updates[x]
  /\ \A x \in Workflows \ ({w} \cup D \cup Notified(w, D) \cup new) : Kept(x)

LEMMA CloseRows ==
  ASSUME IInv, NEW w \in Workflows, NEW s, NEW evs, NEW k, NEW D, NEW new, NEW done,
         Ends(w, s, evs, k, D, new, done)
  PROVE  Closing(w, s, evs, k, D, new)
<1> DEFINE P == Notified(w, D)
<1>1. /\ Running(w) /\ D \in SUBSET Workflows /\ new \in SUBSET Workflows
      /\ \A x \in D : Running(x)
  BY SubtreeOK DEF Ends
<1>2. \A x \in new : status[x] = "absent" /\ ~Running(x)
  BY DEF Ends, Running
<1>3. \A x \in P : Running(x) /\ x \in Workflows /\ x \notin D \cup {w}
  BY NotifiedOK
<1>4. CloseExecution(w, s, evs, k, D, new, done)
  BY DEF Ends
<1>5. /\ canceled' = canceled /\ parent' = parent
      /\ \A x \in Workflows :
           /\ status'[x] = IF x = w THEN s ELSE IF x \in D THEN "terminated"
                           ELSE IF x \in new THEN "running" ELSE status[x]
           /\ next_seq'[x] = IF x = w THEN next_seq[x] + k
                             ELSE IF x \in D \cup P \cup new THEN next_seq[x] + 1 ELSE next_seq[x]
           /\ updates'[x] = IF x \in D \cup {w} THEN Rejected(updates[x]) ELSE updates[x]
  BY <1>4 DEF CloseExecution
<1>6. \A x \in Workflows :
        history'[x] = IF x = w THEN history[x] \cup evs
          ELSE IF x \in D
            THEN history[x] \cup {Plain(next_seq[x], "WorkflowExecutionTerminated")}
          ELSE IF x \in P
            THEN history[x] \cup {Ev(next_seq[x], ChildStatus[s], parent[w].cmd, NoTag, TRUE)}
          ELSE IF x \in new THEN {Plain(1, "WorkflowExecutionStarted")} ELSE history[x]
  BY <1>4 DEF CloseExecution
<1> HIDE DEF P
<1>7. w \notin new /\ w \notin P /\ \A x \in new : x \notin D /\ x \notin P
  BY <1>1, <1>2, <1>3
<1>8. \A x \in D \ {w} : x \in Workflows
  BY <1>1
<1>9. \A x \in D \ {w} :
        /\ status'[x] = "terminated" /\ next_seq'[x] = next_seq[x] + 1
        /\ history'[x] = history[x] \cup {Plain(next_seq[x], "WorkflowExecutionTerminated")}
        /\ updates'[x] = Rejected(updates[x])
  BY <1>5, <1>6, <1>8
<1>10. \A x \in P :
        /\ status'[x] = status[x] /\ next_seq'[x] = next_seq[x] + 1
        /\ history'[x] = history[x]
             \cup {Ev(next_seq[x], ChildStatus[s], parent[w].cmd, NoTag, TRUE)}
        /\ updates'[x] = updates[x]
  BY <1>3, <1>5, <1>6, <1>7
<1>11. \A x \in new :
        /\ status'[x] = "running" /\ next_seq'[x] = next_seq[x] + 1
        /\ history'[x] = {Plain(1, "WorkflowExecutionStarted")} /\ updates'[x] = updates[x]
  BY <1>1, <1>5, <1>6, <1>7
<1>12. \A x \in Workflows \ ({w} \cup D \cup P \cup new) : Kept(x)
  BY <1>5, <1>6 DEF Kept
<1>13. /\ status'[w] = s /\ history'[w] = history[w] \cup evs
       /\ next_seq'[w] = next_seq[w] + k /\ updates'[w] = Rejected(updates[w])
  BY <1>5, <1>6
<1> QED
  BY <1>1, <1>2, <1>3, <1>5, <1>9, <1>10, <1>11, <1>12, <1>13 DEF P, Closing

\* Closing an execution.
LEMMA CloseChange ==
  ASSUME RecordInv, NEW w \in Workflows, NEW s, NEW evs, NEW k, NEW D, NEW new, NEW done,
         Ends(w, s, evs, k, D, new, done), NEW x \in Workflows
  PROVE  \/ Same(x) \/ Born(x)
         \/ \E A : Grows(x, A)
         \/ \E A : Dies(x, A)
<1>0. IInv /\ next_seq[x] \in Nat
  BY DEF RecordInv, FamilyInv, IInv, TypeOK
<1>c. Closing(w, s, evs, k, D, new)
  BY <1>0, CloseRows
<1>1. CASE x = w
  <2>1. /\ s \in {"completed", "failed", "terminated"} /\ EndEvents(w, s, evs, k)
        /\ k \in Nat \ {0}
    BY DEF Ends, EndEvents
  <2>2. /\ Running(w) /\ status'[w] = s /\ history'[w] = history[w] \cup evs
        /\ next_seq'[w] = next_seq[w] + k /\ updates'[w] = Rejected(updates[w])
        /\ canceled' = canceled
    BY <1>c DEF Closing
  <2>3. TerminalStatus[s] \in TerminalEvents
    BY <2>1 DEF TerminalStatus, TerminalEvents
  <2>4. next_seq'[w] > next_seq[w] /\ next_seq'[w] \in Nat
        /\ next_seq'[w] - 1 = next_seq[w] + k - 1
    BY <1>0, <1>1, <2>1, <2>2
  <2>5. \A e \in evs :
          /\ e.type \notin {"WorkflowExecutionStarted", "WorkflowCancellationRequested",
                            "WorkflowUpdateResolved"}
          /\ e.type \in TerminalEvents => e.seq = next_seq'[w] - 1
          /\ e.type \in ScheduleEvents =>
               /\ e.type = "WorkflowExecutionContinuedAsNew"
               /\ \A f \in Scheduled(history[w]) : f.cmd # e.cmd
    BY <2>1, <2>3, <2>4 DEF EndEvents, TerminalEvents, ScheduleEvents
  <2>6. \E e \in evs : e.seq = next_seq'[w] - 1 /\ e.type = TerminalStatus[status'[w]]
    BY <2>1, <2>2, <2>4 DEF EndEvents
  <2>7. \A e, f \in evs : e.type = f.type /\ e.cmd = f.cmd => e = f
    BY <2>1 DEF EndEvents
  <2>8. Numbered(evs, next_seq[w], next_seq'[w])
    BY <2>1, <2>2 DEF EndEvents
  <2>9. /\ \A e, f \in Scheduled(evs) : e.cmd = f.cmd => e = f
        /\ \A e \in Scheduled(evs), f \in Scheduled(history[w]) : e.cmd # f.cmd
    BY <2>5, <2>7 DEF Scheduled
  <2>10. Appended(w, evs)
    BY <2>2, <2>4, <2>5, <2>8, <2>9 DEF Appended
  <2>11. Dies(w, evs)
    BY <2>1, <2>2, <2>5, <2>6, <2>10 DEF Dies
  <2> QED
    BY <1>1, <2>11
<1>2. CASE x \in D \ {w}
  <2> DEFINE e == Plain(next_seq[x], "WorkflowExecutionTerminated")
  <2>1. /\ Running(x) /\ status'[x] = "terminated" /\ next_seq'[x] = next_seq[x] + 1
        /\ history'[x] = history[x] \cup {e} /\ updates'[x] = Rejected(updates[x])
        /\ canceled' = canceled
    BY <1>c, <1>2 DEF Closing
  <2>2. e.seq = next_seq[x] /\ e.type = "WorkflowExecutionTerminated"
    BY DEF Plain, Ev
  <2> HIDE DEF e
  <2>3. e.type \notin ScheduleEvents /\ e.type # "WorkflowExecutionStarted"
    BY <2>2 DEF ScheduleEvents
  <2>4. Appended(x, {e})
    BY <1>0, <2>1, <2>2, <2>3, OneEvent
  <2>5. e.seq = next_seq'[x] - 1 /\ TerminalStatus["terminated"] = e.type
    BY <1>0, <2>1, <2>2 DEF TerminalStatus
  <2>6. Dies(x, {e})
    BY <2>1, <2>2, <2>4, <2>5 DEF Dies
  <2> QED
    BY <2>6
<1>3. CASE x \in Notified(w, D)
  <2> DEFINE e == Ev(next_seq[x], ChildStatus[s], parent[w].cmd, NoTag, TRUE)
  <2>1. /\ Running(x) /\ status'[x] = status[x] /\ next_seq'[x] = next_seq[x] + 1
        /\ history'[x] = history[x] \cup {e} /\ updates'[x] = updates[x]
        /\ canceled' = canceled
    BY <1>c, <1>3 DEF Closing
  <2>2. e.seq = next_seq[x] /\ e.type \in ChildOutcomes
    BY DEF Ends, Ev, ChildStatus, ChildOutcomes
  <2> HIDE DEF e
  <2>3. /\ e.type \notin ScheduleEvents /\ e.type # "WorkflowExecutionStarted"
        /\ e.type \notin TerminalEvents /\ e.type # "WorkflowUpdateResolved"
        /\ e.type # "WorkflowCancellationRequested"
    BY <2>2, PlainTypesOK
  <2>4. Appended(x, {e})
    BY <1>0, <2>1, <2>2, <2>3, OneEvent
  <2>5. \A u : ~Resolves({e}, u)
    BY <2>3 DEF Resolves
  <2>6. Grows(x, {e})
    BY <2>1, <2>3, <2>4, <2>5 DEF Grows, Running
  <2> QED
    BY <2>6
<1>4. CASE x \in new
  <2>1. /\ status[x] = "absent" /\ status'[x] = "running" /\ next_seq'[x] = next_seq[x] + 1
        /\ history'[x] = {Plain(1, "WorkflowExecutionStarted")} /\ updates'[x] = updates[x]
        /\ canceled' = canceled
    BY <1>c, <1>4 DEF Closing
  <2>2. next_seq[x] = 1
    BY <2>1 DEF RecordInv, RecordOK
  <2> QED
    BY <2>1, <2>2 DEF Born
<1>5. CASE x \notin {w} \cup D \cup Notified(w, D) \cup new
  <2>1. Kept(x) /\ canceled' = canceled
    BY <1>c, <1>5 DEF Closing
  <2> QED
    BY <2>1 DEF Same
<1> QED
  BY <1>1, <1>2, <1>3, <1>4, <1>5

\* The event e records the command c.
Describes(e, c) ==
  /\ e.type = EventOf[c.kind] /\ e.cmd = c.cmd /\ e.final = c.accepted
  /\ c.kind = "resolve" => e.tag = c.upd

\* A holds the events of the commands cs, one each.
Listed(w, cs, A) ==
  /\ Len(cs) \in Nat \ {0}
  /\ Numbered(A, next_seq[w], next_seq[w] + Len(cs))
  /\ \A e \in A : \E i \in DOMAIN cs : Describes(e, cs[i])
  /\ \A i \in DOMAIN cs : \E e \in A : Describes(e, cs[i])
  /\ \A e, f \in A : e.cmd = f.cmd => e = f
  /\ \A e \in A, f \in Scheduled(history[w]) : e.cmd # f.cmd

\* The events of a list of commands that the database accepts.
LEMMA CommandEvents ==
  ASSUME IInv, NEW w \in Workflows, NEW cs \in Seq(Command), Acceptable(w, cs), NEW A,
         A = {CommandEvent(next_seq[w] + i - 1, cs[i]) : i \in DOMAIN cs}
  PROVE  Listed(w, cs, A)
<1> DEFINE n == next_seq[w]
           ev(i) == CommandEvent(n + i - 1, cs[i])
<1>1. n \in Nat /\ Len(cs) \in Nat \ {0} /\ DOMAIN cs = 1 .. Len(cs)
  BY DEF IInv, TypeOK, Acceptable
<1>2. A = {ev(i) : i \in DOMAIN cs}
  OBVIOUS
<1>3. \A i \in DOMAIN cs : ev(i).seq = n + i - 1 /\ Describes(ev(i), cs[i])
  BY DEF CommandEvent, Ev, Describes
<1>4. \A i \in DOMAIN cs : /\ \A e \in Scheduled(history[w]) : e.cmd # cs[i].cmd
                           /\ \A j \in DOMAIN cs : cs[i].cmd = cs[j].cmd => i = j
  BY DEF Acceptable
<1> HIDE DEF n, ev
<1>5. \A e \in A : \E i \in DOMAIN cs : e = ev(i) /\ e.seq = n + i - 1 /\ Describes(e, cs[i])
  BY <1>2, <1>3
<1>6. \A i \in DOMAIN cs : ev(i) \in A /\ Describes(ev(i), cs[i]) /\ ev(i).seq = n + i - 1
  BY <1>2, <1>3
<1>7. \A e, f \in A : e.cmd = f.cmd => e = f
  BY <1>4, <1>5 DEF Describes
<1>8. \A e \in A, f \in Scheduled(history[w]) : e.cmd # f.cmd
  BY <1>4, <1>5 DEF Describes
<1>9. Numbered(A, n, n + Len(cs))
  <2>1. \A e \in A : e.seq \in n .. (n + Len(cs) - 1)
    BY <1>1, <1>5
  <2>2. \A j \in n .. (n + Len(cs) - 1) : \E e \in A : e.seq = j
    <3> TAKE j \in n .. (n + Len(cs) - 1)
    <3> DEFINE i == j - n + 1
    <3>1. i \in DOMAIN cs /\ n + i - 1 = j
      BY <1>1
    <3> HIDE DEF i
    <3>2. ev(i) \in A /\ ev(i).seq = j
      BY <1>6, <3>1
    <3> QED
      BY <3>2
  <2>3. \A e, f \in A : e.seq = f.seq => e = f
    BY <1>1, <1>5
  <2> QED
    BY <1>1, <2>1, <2>2, <2>3 DEF Numbered
<1> QED
  BY <1>1, <1>5, <1>6, <1>7, <1>8, <1>9 DEF n, Listed

\* What committing commands does to each execution.
LEMMA CommandRows ==
  ASSUME IInv, NEW h \in inflight, CommitCommands(h)
  PROVE  LET w == h.task.wf
             cs == h.replay.commands
             E == Emitted(h, "child")
             new == {Child(w, cs[i].cmd) : i \in E}
             upd == {cs[i].upd : i \in Emitted(h, "resolve")}
         IN
         /\ w \in Workflows /\ Running(w) /\ cs \in Seq(Command) /\ Acceptable(w, cs)
         /\ w \notin new /\ status'[w] = "running" /\ canceled' = canceled
         /\ history'[w] = history[w] \cup {CommandEvent(next_seq[w] + i - 1, cs[i]) : i \in DOMAIN cs}
         /\ next_seq'[w] = next_seq[w] + Len(cs) /\ parent'[w] = parent[w]
         /\ \A u \in Updates : updates'[w][u] =
              IF u \notin upd THEN updates[w][u]
              ELSE IF \E i \in DOMAIN cs : cs[i].upd = u /\ cs[i].accepted
              THEN "completed" ELSE "rejected"
         /\ \A x \in new :
              /\ x \in Workflows /\ status[x] = "absent" /\ status'[x] = "running"
              /\ history'[x] = {Plain(1, "WorkflowExecutionStarted")} /\ next_seq'[x] = 2
              /\ updates'[x] = updates[x]
              /\ \E i \in E : x = Child(w, cs[i].cmd) /\ parent'[x] = ParentLink(w, cs[i])
         /\ \A x \in Workflows \ (new \cup {w}) : Kept(x) /\ parent'[x] = parent[x]
<1> DEFINE w == h.task.wf
           cs == h.replay.commands
           E == Emitted(h, "child")
           new == {Child(w, cs[i].cmd) : i \in E}
           upd == {cs[i].upd : i \in Emitted(h, "resolve")}
           link(x) == LET i == CHOOSE j \in E : x = Child(w, cs[j].cmd) IN ParentLink(w, cs[i])
<1>1. /\ w \in Workflows /\ Running(w) /\ cs \in Seq(Command) /\ Acceptable(w, cs)
      /\ canceled' = canceled
  BY InflightType DEF CommitCommands, Committing
<1>2. \A i \in E : i \in DOMAIN cs /\ cs[i].kind = "child"
  BY DEF Emitted
<1>3. \A x \in new : x \in Workflows /\ status[x] = "absent"
  BY <1>1, <1>2, AcceptableOK
<1>4. w \notin new
  BY <1>1, <1>3 DEF Running
<1>5. \A x \in Workflows :
        /\ status'[x] = IF x \in new THEN "running" ELSE status[x]
        /\ next_seq'[x] = IF x = w THEN next_seq[w] + Len(cs) ELSE IF x \in new THEN 2 ELSE next_seq[x]
        /\ history'[x] = IF x = w
             THEN history[x] \cup {CommandEvent(next_seq[w] + i - 1, cs[i]) : i \in DOMAIN cs}
             ELSE IF x \in new THEN {Plain(1, "WorkflowExecutionStarted")} ELSE history[x]
  BY DEF CommitCommands
<1>6. \A x \in Workflows : parent'[x] = IF x \in new THEN link(x) ELSE parent[x]
  BY DEF CommitCommands
<1>7. updates' = [updates EXCEPT ![w] = [u \in Updates |->
        IF u \notin upd THEN @[u]
        ELSE IF \E i \in DOMAIN cs : cs[i].upd = u /\ cs[i].accepted
        THEN "completed" ELSE "rejected"]]
  BY DEF CommitCommands
<1>8. /\ \A x \in Workflows \ {w} : updates'[x] = updates[x]
      /\ \A u \in Updates : updates'[w][u] =
           IF u \notin upd THEN updates[w][u]
           ELSE IF \E i \in DOMAIN cs : cs[i].upd = u /\ cs[i].accepted
           THEN "completed" ELSE "rejected"
  BY <1>1, <1>7 DEF IInv, TypeOK
<1>9. \A x \in new : \E i \in E : x = Child(w, cs[i].cmd) /\ link(x) = ParentLink(w, cs[i])
  OBVIOUS
<1> HIDE DEF w, cs, E, new, upd, link
<1>10. /\ status'[w] = "running" /\ next_seq'[w] = next_seq[w] + Len(cs) /\ parent'[w] = parent[w]
       /\ history'[w] = history[w]
            \cup {CommandEvent(next_seq[w] + i - 1, cs[i]) : i \in DOMAIN cs}
  BY <1>1, <1>4, <1>5, <1>6 DEF Running
<1>11. \A x \in new :
         /\ x \in Workflows /\ status[x] = "absent" /\ status'[x] = "running"
         /\ history'[x] = {Plain(1, "WorkflowExecutionStarted")} /\ next_seq'[x] = 2
         /\ updates'[x] = updates[x]
  BY <1>3, <1>4, <1>5, <1>8
<1>12. \A x \in new : \E i \in E : x = Child(w, cs[i].cmd) /\ parent'[x] = ParentLink(w, cs[i])
  BY <1>3, <1>6, <1>9
<1>13. \A x \in Workflows \ (new \cup {w}) : Kept(x) /\ parent'[x] = parent[x]
  BY <1>5, <1>6, <1>8 DEF Kept
<1>14. \A x \in new :
         /\ x \in Workflows /\ status[x] = "absent" /\ status'[x] = "running"
         /\ history'[x] = {Plain(1, "WorkflowExecutionStarted")} /\ next_seq'[x] = 2
         /\ updates'[x] = updates[x]
         /\ \E i \in E : x = Child(w, cs[i].cmd) /\ parent'[x] = ParentLink(w, cs[i])
  BY <1>11, <1>12
<1> QED
  BY <1>1, <1>4, <1>8, <1>10, <1>13, <1>14 DEF w, cs, E, new, upd

\* Committing commands.
LEMMA CommitChange ==
  ASSUME RecordInv, NEW h \in inflight, CommitCommands(h), NEW x \in Workflows
  PROVE  Same(x) \/ Born(x) \/ \E A : Grows(x, A)
<1> DEFINE w == h.task.wf
           cs == h.replay.commands
           new == {Child(w, cs[i].cmd) : i \in Emitted(h, "child")}
           upd == {cs[i].upd : i \in Emitted(h, "resolve")}
           A == {CommandEvent(next_seq[w] + i - 1, cs[i]) : i \in DOMAIN cs}
<1>0. IInv
  BY DEF RecordInv, FamilyInv
<1>1. CASE x = w
  <2>1. /\ w \in Workflows /\ Running(w) /\ cs \in Seq(Command) /\ Acceptable(w, cs)
        /\ status'[w] = "running" /\ canceled' = canceled /\ history'[w] = history[w] \cup A
        /\ next_seq'[w] = next_seq[w] + Len(cs)
    BY <1>0, CommandRows
  <2>2. \A u \in Updates : updates'[w][u] =
          IF u \notin upd THEN updates[w][u]
          ELSE IF \E i \in DOMAIN cs : cs[i].upd = u /\ cs[i].accepted
          THEN "completed" ELSE "rejected"
    BY <1>0, CommandRows
  <2>3. \A i \in DOMAIN cs : cs[i] \in Command
    BY <2>1
  <2>a. Listed(w, cs, A)
    BY <1>0, <2>1, CommandEvents
  <2>4. /\ Len(cs) \in Nat \ {0}
        /\ Numbered(A, next_seq[w], next_seq[w] + Len(cs))
        /\ \A e \in A : \E i \in DOMAIN cs : Describes(e, cs[i])
        /\ \A i \in DOMAIN cs : \E e \in A : Describes(e, cs[i])
        /\ \A e, f \in A : e.cmd = f.cmd => e = f
        /\ \A e \in A, f \in Scheduled(history[w]) : e.cmd # f.cmd
    BY <2>a DEF Listed
  <2>5. \A i \in DOMAIN cs :
          cs[i].kind = "resolve" => \A j \in DOMAIN cs : cs[j].upd = cs[i].upd => i = j
    BY <2>1 DEF Acceptable
  <2>6. /\ \A u \in upd : \E i \in DOMAIN cs : cs[i].kind = "resolve" /\ cs[i].upd = u
        /\ \A i \in DOMAIN cs : cs[i].kind = "resolve" => cs[i].upd \in upd
    BY DEF Emitted
  <2> HIDE DEF A, upd, new, cs, w
  <2>7. \A c \in Command : /\ EventOf[c.kind] \in ScheduleEvents
                           /\ EventOf[c.kind] = "WorkflowUpdateResolved" <=> c.kind = "resolve"
    BY DEF Command, EventOf, ScheduleEvents
  <2>8. \A e \in A : e.type \in ScheduleEvents
    BY <2>3, <2>4, <2>7 DEF Describes
  <2>9. \A type \in ScheduleEvents :
          /\ type \notin TerminalEvents /\ type # "WorkflowExecutionStarted"
          /\ type # "WorkflowCancellationRequested"
    BY DEF ScheduleEvents, TerminalEvents
  <2>10. next_seq[w] \in Nat
    BY <1>0, <2>1 DEF IInv, TypeOK
  <2>11. next_seq'[w] > next_seq[w] /\ next_seq'[w] \in Nat
    BY <2>1, <2>4, <2>10
  <2>12. Scheduled(A) = A
    BY <2>8 DEF Scheduled
  <2>13. \A e \in A : e.type # "WorkflowExecutionStarted"
    BY <2>8, <2>9
  <2>14. Appended(w, A)
    BY <2>1, <2>4, <2>11, <2>12, <2>13 DEF Appended
  <2>15. ASSUME NEW u \in Updates, u \notin upd
         PROVE  updates'[w][u] = updates[w][u] /\ ~Resolves(A, u)
    BY <2>2, <2>3, <2>4, <2>6, <2>7, <2>15 DEF Resolves, Describes
  <2>16. ASSUME NEW u \in Updates, u \in upd
         PROVE  /\ updates'[w][u] \in {"completed", "rejected"}
                /\ updates'[w][u] = "completed" =>
                     \E e \in A : e.type = "WorkflowUpdateResolved" /\ e.tag = u /\ e.final
    <3>1. PICK i \in DOMAIN cs : cs[i].kind = "resolve" /\ cs[i].upd = u
      BY <2>6, <2>16
    <3>2. PICK e \in A : Describes(e, cs[i])
      BY <2>4
    <3>3. e.type = "WorkflowUpdateResolved" /\ e.tag = u /\ e.final = cs[i].accepted
      BY <2>3, <2>7, <3>1, <3>2 DEF Describes
    <3>4. \A j \in DOMAIN cs : cs[j].upd = u => j = i
      BY <2>5, <3>1
    <3>5. updates'[w][u] = IF \E j \in DOMAIN cs : cs[j].upd = u /\ cs[j].accepted
                           THEN "completed" ELSE "rejected"
      BY <2>2, <2>16
    <3>6. (\E j \in DOMAIN cs : cs[j].upd = u /\ cs[j].accepted) => e.final
      BY <3>3, <3>4
    <3> QED
      BY <3>3, <3>5, <3>6
  <2>17. \A e \in A : e.type \notin TerminalEvents /\ e.type # "WorkflowCancellationRequested"
    BY <2>8, <2>9
  <2>18. Grows(w, A)
    BY <2>1, <2>14, <2>15, <2>16, <2>17 DEF Grows
  <2> QED
    BY <1>1, <2>18
<1>2. CASE x \in new
  <2>1. /\ status[x] = "absent" /\ status'[x] = "running" /\ next_seq'[x] = 2
        /\ history'[x] = {Plain(1, "WorkflowExecutionStarted")} /\ updates'[x] = updates[x]
        /\ canceled' = canceled
    BY <1>0, <1>2, CommandRows
  <2> QED
    BY <2>1 DEF Born
<1>3. CASE x \notin new \cup {w}
  <2>1. Kept(x) /\ canceled' = canceled
    BY <1>0, <1>3, CommandRows
  <2> QED
    BY <2>1 DEF Same
<1> QED
  BY <1>1, <1>2, <1>3

\* Every step leaves an execution alone, starts it, appends to it, or closes it.
LEMMA Changes ==
  ASSUME RecordInv, [Next]_vars, NEW x \in Workflows
  PROVE  \/ Same(x) \/ Born(x)
         \/ \E A : Grows(x, A)
         \/ \E A : Dies(x, A)
<1>0. IInv
  BY DEF RecordInv, FamilyInv
<1>1. CASE Still
  BY <1>1 DEF Still, Same, Kept
<1>2. ASSUME NEW w \in Workflows, StartWorkflow(w) \/ Noted(w) \/ RequestCancellation(w)
      PROVE  Same(x) \/ Born(x) \/ \E A : Grows(x, A)
  <2>1. status[w] = "absent" => history[w] = {} /\ next_seq[w] = 1
    <3> SUFFICES ASSUME status[w] = "absent" PROVE history[w] = {} /\ next_seq[w] = 1
      OBVIOUS
    <3>1. next_seq[w] = 1 /\ Numbered(history[w], 1, next_seq[w])
      BY DEF RecordInv, RecordOK
    <3>2. \A e \in history[w] : e.seq \in 1 .. 0
      BY <3>1 DEF Numbered
    <3> QED
      BY <3>1, <3>2
  <2> QED
    BY <1>0, <1>2, <2>1, ClientChange
<1>3. ASSUME NEW c \in claims, LeaseActivity(c) \/ FireTimer(c)
      PROVE  Same(x) \/ \E A : Grows(x, A)
  <2>1. c.task.wf \in Workflows
    BY <1>0 DEF IInv, TypeOK, TaskId
  <2>2. PICK type \in {"ActivityStarted", "TimerFired"} :
          Record(c.task.wf, type, c.task.cmd, NoTag, TRUE)
    BY <1>3 DEF LeaseActivity, FireTimer
  <2>3. Running(c.task.wf) /\ UNCHANGED <<status, canceled, updates>>
    BY <1>3 DEF LeaseActivity, FireTimer
  <2>4. type \in PlainTypes
    BY DEF PlainTypes
  <2> QED
    BY <1>0, <2>1, <2>2, <2>3, <2>4, PlainChange
<1>4. ASSUME NEW t, NEW type, NEW final, NEW s, NEW u, Reported(t, type, final, s, u)
      PROVE  Same(x) \/ \E A : Grows(x, A)
  <2>1. /\ t.wf \in Workflows /\ type \in PlainTypes /\ final \in BOOLEAN
        /\ Running(t.wf) /\ UNCHANGED <<status, canceled, updates>>
    BY <1>0, <1>4 DEF Reported, IInv, TypeOK, TaskId, PlainTypes
  <2>2. Record(t.wf, type, t.cmd, NoTag, final)
    BY <1>4 DEF Reported
  <2> QED
    BY <1>0, <2>1, <2>2, PlainChange
<1> QED
  BY <1>0, <1>1, <1>2, <1>3, <1>4, StepCases, CloseChange, CommitChange

(***************************************************************************)
(* The record of an execution.                                             *)
(***************************************************************************)

\* Appending events keeps the numbers consecutive and commands unique.
LEMMA AppendOK ==
  ASSUME IInv, NEW x \in Workflows, NEW A, RecordOK(x), status[x] # "absent", Appended(x, A)
  PROVE  /\ Numbered(history'[x], 1, next_seq'[x]) /\ next_seq'[x] # 1
         /\ StartsOnce(history'[x]) /\ ScheduledOnce(history'[x])
         /\ next_seq[x] \in Nat \ {0, 1} /\ next_seq'[x] \in Nat
         /\ \A e \in history[x] : e.seq \in Nat /\ e.seq < next_seq[x]
         /\ \A e \in A : e.seq \in Nat /\ next_seq[x] <= e.seq /\ e.seq < next_seq'[x]
<1> DEFINE n == next_seq[x]
           m == next_seq'[x]
           H == history[x]
<1>1. n \in Nat \ {0, 1} /\ m \in Nat /\ m > n
  BY DEF RecordOK, Appended, IInv, TypeOK
<1>2. Numbered(H, 1, n) /\ Numbered(A, n, m)
  BY DEF RecordOK, Appended
<1>3. history'[x] = H \cup A
  BY DEF Appended
<1>4. \A e \in A : e.type # "WorkflowExecutionStarted"
  BY DEF Appended
<1>5. /\ \A e, f \in Scheduled(H) : e.cmd = f.cmd => e = f
      /\ \A e, f \in Scheduled(A) : e.cmd = f.cmd => e = f
      /\ \A e \in Scheduled(A), f \in Scheduled(H) : e.cmd # f.cmd
  BY DEF RecordOK, ScheduledOnce, Appended
<1>6. \A e \in H : e.seq = 1 <=> e.type = "WorkflowExecutionStarted"
  BY DEF RecordOK, StartsOnce
<1> HIDE DEF n, m, H
<1>7. \A e \in H : e.seq \in Nat /\ e.seq < n
  BY <1>1, <1>2 DEF Numbered
<1>8. \A e \in A : e.seq \in Nat /\ n <= e.seq /\ e.seq < m
  BY <1>1, <1>2 DEF Numbered
<1>9. \A e \in H \cup A : e.seq \in 1 .. (m - 1)
  BY <1>1, <1>2 DEF Numbered
<1>10. \A i \in 1 .. (m - 1) : \E e \in H \cup A : e.seq = i
  <2> TAKE i \in 1 .. (m - 1)
  <2>1. i \in 1 .. (n - 1) \/ i \in n .. (m - 1)
    BY <1>1
  <2> QED
    BY <1>2, <2>1 DEF Numbered
<1>11. \A e, f \in H \cup A : e.seq = f.seq => e = f
  <2> SUFFICES ASSUME NEW e \in H \cup A, NEW f \in H \cup A, e.seq = f.seq
               PROVE  e = f
    OBVIOUS
  <2>1. (e \in H /\ f \in H) \/ (e \in A /\ f \in A)
    BY <1>1, <1>7, <1>8
  <2> QED
    BY <1>2, <2>1 DEF Numbered
<1>12. Numbered(H \cup A, 1, m)
  BY <1>9, <1>10, <1>11 DEF Numbered
<1>13. StartsOnce(H \cup A)
  BY <1>1, <1>4, <1>6, <1>8 DEF StartsOnce
<1>14. ScheduledOnce(H \cup A)
  BY <1>5 DEF ScheduledOnce, Scheduled
<1> QED
  BY <1>1, <1>3, <1>7, <1>8, <1>12, <1>13, <1>14 DEF n, m, H

\* The first event.
LEMMA BornOK ==
  ASSUME IInv, NEW x \in Workflows, RecordOK(x), AnswersOK(x), Born(x)
  PROVE  RecordOK(x)' /\ AnswersOK(x)'
<1> DEFINE e == Plain(1, "WorkflowExecutionStarted")
<1>1. e.seq = 1 /\ e.type = "WorkflowExecutionStarted"
  BY DEF Plain, Ev
<1>2. /\ history'[x] = {e} /\ next_seq'[x] = 2 /\ status'[x] = "running"
      /\ canceled'[x] = canceled[x] /\ updates'[x] = updates[x] /\ status[x] = "absent"
  BY DEF Born
<1>3. history[x] = {}
  <2>1. \A f \in history[x] : f.seq \in 1 .. 0
    BY <1>2 DEF RecordOK, Numbered
  <2> QED
    BY <2>1
<1> HIDE DEF e
<1>4. /\ e.type \notin TerminalEvents /\ e.type # "WorkflowCancellationRequested"
      /\ e.type \notin ScheduleEvents /\ e.type # "WorkflowUpdateResolved"
  BY <1>1 DEF TerminalEvents, ScheduleEvents
<1>5. Numbered({e}, 1, 2) /\ StartsOnce({e})
  BY <1>1 DEF Numbered, StartsOnce
<1>6. ScheduledOnce({e}) /\ CanceledOnce({e})
  BY DEF ScheduledOnce, CanceledOnce, Scheduled
<1>7. ~canceled[x]
  BY <1>3 DEF RecordOK
<1>8. \A u \in Updates : updates[x][u] \notin {"pending", "completed"}
  BY <1>2, <1>3 DEF AnswersOK, Running
<1>9. RecordOK(x)'
  BY <1>2, <1>4, <1>5, <1>6, <1>7 DEF RecordOK, Closed
<1>10. AnswersOK(x)'
  BY <1>2, <1>4, <1>8 DEF AnswersOK
<1> QED
  BY <1>9, <1>10

\* An execution that goes on.
LEMMA GrowsOK ==
  ASSUME IInv, NEW x \in Workflows, RecordOK(x), AnswersOK(x), NEW A, Grows(x, A)
  PROVE  RecordOK(x)' /\ AnswersOK(x)'
<1>0. /\ Running(x) /\ status[x] # "absent" /\ ~Closed(x) /\ ~Closed(x)' /\ status'[x] = "running"
      /\ Appended(x, A) /\ history'[x] = history[x] \cup A
  BY DEF Grows, Running, Closed, Appended
<1>1. /\ Numbered(history'[x], 1, next_seq'[x]) /\ next_seq'[x] # 1
      /\ StartsOnce(history'[x]) /\ ScheduledOnce(history'[x])
  BY <1>0, AppendOK
<1>2. \A e \in history'[x] : e.type \notin TerminalEvents
  BY <1>0 DEF RecordOK, Grows
<1>3. /\ CanceledOnce(history'[x])
      /\ canceled'[x] <=> \E e \in history'[x] : e.type = "WorkflowCancellationRequested"
  <2>1. /\ CanceledOnce(history[x])
        /\ canceled[x] <=> \E e \in history[x] : e.type = "WorkflowCancellationRequested"
    BY DEF RecordOK
  <2>2. CASE canceled'[x] = canceled[x] /\ \A e \in A : e.type # "WorkflowCancellationRequested"
    BY <1>0, <2>1, <2>2 DEF CanceledOnce
  <2>3. CASE /\ ~canceled[x] /\ canceled'[x] = TRUE
             /\ \E e : A = {e} /\ e.type = "WorkflowCancellationRequested"
    BY <1>0, <2>1, <2>3 DEF CanceledOnce
  <2> QED
    BY <2>2, <2>3 DEF Grows
<1>4. RecordOK(x)'
  BY <1>0, <1>1, <1>2, <1>3 DEF RecordOK
<1>5. ASSUME NEW u \in Updates
      PROVE  /\ updates'[x][u] = "pending" => Running(x)'
             /\ (\E e \in history'[x] : e.type = "WorkflowUpdateResolved" /\ e.tag = u)
                  => updates'[x][u] \in {"completed", "rejected"}
             /\ updates'[x][u] = "completed" =>
                  \E e \in history'[x] : e.type = "WorkflowUpdateResolved" /\ e.tag = u /\ e.final
  <2>1. /\ (\E e \in history[x] : e.type = "WorkflowUpdateResolved" /\ e.tag = u)
             => updates[x][u] \in {"completed", "rejected"}
        /\ updates[x][u] = "completed" =>
             \E e \in history[x] : e.type = "WorkflowUpdateResolved" /\ e.tag = u /\ e.final
    BY DEF AnswersOK
  <2>2. CASE /\ updates'[x][u] = updates[x][u]
                \/ (updates[x][u] = "none" /\ updates'[x][u] = "pending")
             /\ ~Resolves(A, u)
    BY <1>0, <2>1, <2>2 DEF Resolves, Running
  <2>3. CASE /\ updates'[x][u] \in {"completed", "rejected"}
             /\ updates'[x][u] = "completed" =>
                  \E e \in A : e.type = "WorkflowUpdateResolved" /\ e.tag = u /\ e.final
    BY <1>0, <2>3 DEF Running
  <2> QED
    BY <2>2, <2>3 DEF Grows
<1>6. AnswersOK(x)'
  BY <1>5 DEF AnswersOK
<1> QED
  BY <1>4, <1>6

\* An execution that is closed.
LEMMA DiesOK ==
  ASSUME IInv, NEW x \in Workflows, RecordOK(x), AnswersOK(x), NEW A, Dies(x, A)
  PROVE  RecordOK(x)' /\ AnswersOK(x)'
<1>0. /\ Running(x) /\ status[x] # "absent" /\ ~Closed(x) /\ Closed(x)' /\ status'[x] # "absent"
      /\ Appended(x, A) /\ history'[x] = history[x] \cup A /\ canceled'[x] = canceled[x]
      /\ updates'[x] = Rejected(updates[x])
  BY DEF Dies, Running, Closed, Appended
<1>1. /\ Numbered(history'[x], 1, next_seq'[x]) /\ next_seq'[x] # 1
      /\ StartsOnce(history'[x]) /\ ScheduledOnce(history'[x])
  BY <1>0, AppendOK
<1>2. \A e \in history'[x] : e.type \in TerminalEvents => e.seq = next_seq'[x] - 1
  BY <1>0 DEF RecordOK, Dies
<1>3. \E e \in history'[x] : e.seq = next_seq'[x] - 1 /\ e.type = TerminalStatus[status'[x]]
  BY <1>0 DEF Dies
<1>4. /\ CanceledOnce(history'[x])
      /\ canceled'[x] <=> \E e \in history'[x] : e.type = "WorkflowCancellationRequested"
  <2>1. \A e \in A : e.type # "WorkflowCancellationRequested"
    BY DEF Dies
  <2> QED
    BY <1>0, <2>1 DEF RecordOK, CanceledOnce
<1>5. RecordOK(x)'
  BY <1>0, <1>1, <1>2, <1>3, <1>4 DEF RecordOK
<1>6. ASSUME NEW u \in Updates
      PROVE  /\ updates'[x][u] # "pending"
             /\ (\E e \in history'[x] : e.type = "WorkflowUpdateResolved" /\ e.tag = u)
                  => updates'[x][u] \in {"completed", "rejected"}
             /\ updates'[x][u] = "completed" =>
                  \E e \in history'[x] : e.type = "WorkflowUpdateResolved" /\ e.tag = u /\ e.final
  <2>1. /\ (\E e \in history[x] : e.type = "WorkflowUpdateResolved" /\ e.tag = u)
             => updates[x][u] \in {"completed", "rejected"}
        /\ updates[x][u] = "completed" =>
             \E e \in history[x] : e.type = "WorkflowUpdateResolved" /\ e.tag = u /\ e.final
    BY DEF AnswersOK
  <2>2. updates'[x][u] = IF updates[x][u] = "pending" THEN "rejected" ELSE updates[x][u]
    BY <1>0 DEF Rejected
  <2>3. \A e \in A : e.type # "WorkflowUpdateResolved"
    BY DEF Dies
  <2> QED
    BY <1>0, <2>1, <2>2, <2>3
<1>7. AnswersOK(x)'
  BY <1>6 DEF AnswersOK
<1> QED
  BY <1>5, <1>7

\* Every step keeps the record of every execution right.
LEMMA RecordStep == RecordInv /\ [Next]_vars => RecordInv'
<1> SUFFICES ASSUME RecordInv, [Next]_vars
             PROVE  RecordInv'
  OBVIOUS
<1>1. FamilyInv' /\ IInv
  BY FamilyStep DEF RecordInv, FamilyInv
<1>2. ASSUME NEW x \in Workflows
      PROVE  RecordOK(x)' /\ AnswersOK(x)'
  <2>1. RecordOK(x) /\ AnswersOK(x)
    BY DEF RecordInv
  <2>2. CASE Same(x)
    BY <2>1, <2>2 DEF Same, Kept, RecordOK, AnswersOK, Closed, Running
  <2> QED
    BY <1>1, <2>1, <2>2, Changes, BornOK, GrowsOK, DiesOK
<1> QED
  BY <1>1, <1>2 DEF RecordInv

\* Before the first step there are no records.
LEMMA RecordInit == Init => RecordInv
<1> SUFFICES ASSUME Init PROVE RecordInv
  OBVIOUS
<1>1. FamilyInv
  BY InitOK DEF Init, FamilyInv, Unborn, NoOrphans, Running
<1>2. ASSUME NEW x \in Workflows
      PROVE  RecordOK(x) /\ AnswersOK(x)
  <2>1. /\ history[x] = {} /\ next_seq[x] = 1 /\ status[x] = "absent" /\ ~canceled[x]
        /\ \A u \in Updates : updates[x][u] = "none"
    BY DEF Init
  <2>2. Numbered({}, 1, 1)
    BY DEF Numbered
  <2> QED
    BY <2>1, <2>2 DEF RecordOK, AnswersOK, StartsOnce, ScheduledOnce, CanceledOnce, Scheduled,
       Closed
<1> QED
  BY <1>1, <1>2 DEF RecordInv

\* The record of every execution is right in every reachable state.
LEMMA Recorded == Spec => []RecordInv
  BY RecordInit, RecordStep, PTL DEF Spec

\* The status column and the history agree: an execution is closed exactly when
\* its last event is terminal, and that event is the one of its status, however
\* terminations, cancellations, results and closing parents race.
THEOREM StatusRecorded == Spec => []StatusMatchesHistory
<1>1. RecordInv => StatusMatchesHistory
  <2> SUFFICES ASSUME RecordInv, NEW w \in Workflows
               PROVE  /\ Closed(w) <=> \E e \in history[w] : e.type \in TerminalEvents
                      /\ Closed(w) => \E e \in history[w] :
                           e.seq = next_seq[w] - 1 /\ e.type = TerminalStatus[status[w]]
    BY DEF StatusMatchesHistory
  <2>1. Closed(w) => TerminalStatus[status[w]] \in TerminalEvents
    BY DEF Closed, TerminalStatus, TerminalEvents
  <2>2. RecordOK(w)
    BY DEF RecordInv
  <2> QED
    BY <2>1, <2>2 DEF RecordOK
<1> QED
  BY <1>1, Recorded, PTL

\* A caller waiting on an update is answered at the latest when the execution
\* closes, and the history holds an answer for exactly the updates that replay
\* resolved.
THEOREM UpdatesAnswered == Spec => []UpdatesSettled
<1>1. RecordInv => UpdatesSettled
  BY DEF RecordInv, AnswersOK, UpdatesSettled
<1> QED
  BY <1>1, Recorded, PTL

(***************************************************************************)
(* What a parent is told of its children.                                  *)
(***************************************************************************)

ChildInv == RecordInv /\ ChildrenOK

KinTypes == ChildOutcomes \cup {"ChildWorkflowStarted"}

\* What the history of p says with events of these types does not change.
SameEvents(p, types) == \A e : e.type \in types => (e \in history'[p] <=> e \in history[p])

\* Executions without a history have no children.
LEMMA ChildlessAbsent ==
  ASSUME ChildInv, NEW x \in Workflows, parent[x].wf \in Workflows
  PROVE  status[parent[x].wf] # "absent" /\ status[x] # "absent"
<1> DEFINE p == parent[x].wf
<1>1. PICK e \in history[p] : e.type = "ChildWorkflowStarted"
  BY DEF ChildInv, ChildrenOK, ParentInformed
<1>2. RecordOK(p)
  BY DEF ChildInv, RecordInv
<1>3. next_seq[p] = 1 => e.seq \in 1 .. 0
  BY <1>1, <1>2 DEF RecordOK, Numbered
<1>4. status[p] # "absent"
  BY <1>2, <1>3 DEF RecordOK
<1>5. status[x] = "absent" => parent[x].wf = NoParent.wf
  BY DEF ChildInv, RecordInv, FamilyInv, Unborn
<1> QED
  BY <1>4, <1>5, NoParentOf

\* A step that closes nothing and says nothing about children.
LEMMA KinStep ==
  ASSUME ChildInv, parent' = parent,
         \A x \in Workflows : status'[x] = status[x]
                              \/ (status[x] = "absent" /\ status'[x] = "running"),
         \A x \in Workflows : SameEvents(x, KinTypes)
  PROVE  ChildrenOK'
<1>1. \A x \in Workflows : Closed(x)' <=> Closed(x)
  BY DEF Closed
<1>2. \A x \in Workflows : Running(x)' => Running(x) \/ status[x] = "absent"
  BY DEF Running
<1>3. ParentInformed'
  <2> SUFFICES ASSUME NEW x \in Workflows, parent[x].wf \in Workflows
               PROVE  LET p == parent[x].wf IN
                      /\ \E e \in history'[p] :
                           e.type = "ChildWorkflowStarted" /\ e.cmd = parent[x].cmd
                      /\ Running(p)' => (Closed(x)' <=>
                           \E e \in history'[p] : e.type \in ChildOutcomes /\ e.cmd = parent[x].cmd)
    BY DEF ParentInformed
  <2> DEFINE p == parent[x].wf
  <2>1. /\ \E e \in history[p] : e.type = "ChildWorkflowStarted" /\ e.cmd = parent[x].cmd
        /\ Running(p) => (Closed(x) <=>
             \E e \in history[p] : e.type \in ChildOutcomes /\ e.cmd = parent[x].cmd)
    BY DEF ChildInv, ChildrenOK, ParentInformed
  <2>2. SameEvents(p, KinTypes) /\ status[p] # "absent"
    BY ChildlessAbsent
  <2> QED
    BY <1>1, <1>2, <2>1, <2>2 DEF SameEvents, KinTypes
<1>4. \A p \in Workflows : \A e \in history'[p] : e.type \in ChildOutcomes =>
        /\ StartedBefore(history'[p], e, "ChildWorkflowStarted")
        /\ \A f \in history'[p] : f.type \in ChildOutcomes /\ f.cmd = e.cmd => f = e
  <2> SUFFICES ASSUME NEW p \in Workflows, NEW e \in history'[p], e.type \in ChildOutcomes
               PROVE  /\ StartedBefore(history'[p], e, "ChildWorkflowStarted")
                      /\ \A f \in history'[p] : f.type \in ChildOutcomes /\ f.cmd = e.cmd => f = e
    OBVIOUS
  <2>1. SameEvents(p, KinTypes) /\ e \in history[p]
    BY DEF SameEvents, KinTypes
  <2>2. /\ StartedBefore(history[p], e, "ChildWorkflowStarted")
        /\ \A f \in history[p] : f.type \in ChildOutcomes /\ f.cmd = e.cmd => f = e
    BY <2>1 DEF ChildInv, ChildrenOK
  <2> QED
    BY <2>1, <2>2 DEF SameEvents, KinTypes, StartedBefore
<1> QED
  BY <1>3, <1>4 DEF ChildInv, ChildrenOK

\* An event of another type.
LEMMA OtherEvent ==
  ASSUME IInv, NEW w \in Workflows, NEW type, NEW cmd, NEW tag, NEW final \in BOOLEAN,
         Record(w, type, cmd, tag, final), NEW types, type \notin types, NEW p \in Workflows
  PROVE  SameEvents(p, types)
<1> DEFINE e == Ev(next_seq[w], type, cmd, tag, final)
<1>1. e.type = type
  BY DEF Ev
<1>2. history' = [history EXCEPT ![w] = @ \cup {e}]
  BY DEF Record
<1> HIDE DEF e
<1>3. history'[p] = history[p] \/ history'[p] = history[p] \cup {e}
  BY <1>2 DEF IInv, TypeOK
<1> QED
  BY <1>1, <1>3 DEF SameEvents

\* Clients do not touch families.
LEMMA KinClient ==
  ASSUME ChildInv, NEW w \in Workflows, StartWorkflow(w) \/ Noted(w) \/ RequestCancellation(w)
  PROVE  ChildrenOK'
<1>0. IInv
  BY DEF ChildInv, RecordInv, FamilyInv
<1>1. PICK type, tag : /\ Record(w, type, NoCommand, tag, TRUE)
                       /\ type \in {"WorkflowExecutionStarted", "WorkflowExecutionPaused",
                            "WorkflowExecutionResumed", "SignalReceived",
                            "WorkflowUpdateReceived", "WorkflowCancellationRequested"}
  BY DEF StartWorkflow, Noted, RequestCancellation, PauseWorkflow, ResumeWorkflow, SendSignal,
     SendUpdate
<1>2. type \notin KinTypes
  BY <1>1 DEF KinTypes, ChildOutcomes
<1>3. \E final \in BOOLEAN : Record(w, type, NoCommand, tag, final)
  BY <1>1
<1>4. \A p \in Workflows : SameEvents(p, KinTypes)
  BY <1>0, <1>2, <1>3, OtherEvent
<1>5. parent' = parent
  BY DEF StartWorkflow, Noted, RequestCancellation, PauseWorkflow, ResumeWorkflow, SendSignal,
     SendUpdate
<1>6. CASE StartWorkflow(w)
  <2>1. status[w] = "absent" /\ status' = [status EXCEPT ![w] = "running"]
    BY <1>6 DEF StartWorkflow
  <2>2. \A x \in Workflows : status'[x] = status[x]
                             \/ (status[x] = "absent" /\ status'[x] = "running")
    BY <1>0, <2>1 DEF IInv, TypeOK
  <2> QED
    BY <1>4, <1>5, <2>2, KinStep
<1>7. CASE Noted(w) \/ RequestCancellation(w)
  <2>1. status' = status
    BY <1>7 DEF Noted, RequestCancellation, PauseWorkflow, ResumeWorkflow, SendSignal, SendUpdate
  <2> QED
    BY <1>4, <1>5, <2>1, KinStep
<1> QED
  BY <1>6, <1>7

\* Activities and timers do not either.
LEMMA KinWork ==
  ASSUME ChildInv, NEW w \in Workflows, NEW type \in PlainTypes, NEW cmd, NEW tag,
         NEW final \in BOOLEAN, Record(w, type, cmd, tag, final), UNCHANGED <<status, parent>>
  PROVE  ChildrenOK'
<1>1. IInv /\ type \notin KinTypes
  BY DEF ChildInv, RecordInv, FamilyInv, KinTypes, PlainTypes, ActivityOutcomes, ChildOutcomes
<1>2. \A p \in Workflows : SameEvents(p, KinTypes)
  BY <1>1, OtherEvent
<1> QED
  BY <1>2, KinStep

\* An absent execution has an empty history.
LEMMA AbsentEmpty ==
  ASSUME RecordInv, NEW x \in Workflows, status[x] = "absent"
  PROVE  history[x] = {} /\ next_seq[x] = 1
<1>1. next_seq[x] = 1 /\ Numbered(history[x], 1, next_seq[x])
  BY DEF RecordInv, RecordOK
<1>2. \A e \in history[x] : e.seq \in 1 .. 0
  BY <1>1 DEF Numbered
<1> QED
  BY <1>1, <1>2

\* An execution that closes tells its parent, unless that closes too.
LEMMA KinClose ==
  ASSUME ChildInv, NEW w \in Workflows, NEW s, NEW evs, NEW k, NEW D, NEW new, NEW done,
         Ends(w, s, evs, k, D, new, done)
  PROVE  ChildrenOK'
<1> DEFINE P == Notified(w, D)
           ev(p) == Ev(next_seq[p], ChildStatus[s], parent[w].cmd, NoTag, TRUE)
<1>0. IInv /\ RecordInv
  BY DEF ChildInv, RecordInv, FamilyInv
<1>1. Closing(w, s, evs, k, D, new)
  BY <1>0, CloseRows
<1>2. /\ parent' = parent /\ Running(w) /\ status'[w] = s
      /\ D \in SUBSET Workflows /\ \A x \in D : Running(x)
      /\ \A x \in D \ {w} : status'[x] = "terminated"
      /\ \A x \in new : x \in Workflows /\ status[x] = "absent" /\ status'[x] = "running"
      /\ \A x \in Workflows \ ({w} \cup D \cup new) : status'[x] = status[x]
  BY <1>1 DEF Closing, Kept
<1>3. s \in {"completed", "failed", "terminated"}
  BY DEF Ends
<1>4. \A p \in Workflows : p \in P <=> p = parent[w].wf /\ p \notin D \cup {w} /\ Running(p)
  BY DEF Notified
<1>5. \A p : ev(p).type \in ChildOutcomes /\ ev(p).cmd = parent[w].cmd /\ ev(p).seq = next_seq[p]
  BY <1>3 DEF Ev, ChildStatus, ChildOutcomes
<1>6. \A p \in P : history'[p] = history[p] \cup {ev(p)}
  BY <1>1 DEF Closing
<1>7. ASSUME NEW p \in Workflows \ P PROVE SameEvents(p, KinTypes)
  <2>1. CASE p = w
    <3>1. history'[w] = history[w] \cup evs
      BY <1>1 DEF Closing
    <3>2. \A e \in evs : e.type \in {TerminalStatus[s], "TimerCanceled",
                                     "WorkflowExecutionContinuedAsNew"}
      BY DEF Ends, EndEvents
    <3>3. \A type \in {TerminalStatus[s], "TimerCanceled", "WorkflowExecutionContinuedAsNew"} :
            type \notin KinTypes
      BY <1>3 DEF TerminalStatus, KinTypes, ChildOutcomes
    <3> QED
      BY <2>1, <3>1, <3>2, <3>3 DEF SameEvents
  <2>2. CASE p \in D \ {w}
    <3> DEFINE e == Plain(next_seq[p], "WorkflowExecutionTerminated")
    <3>1. history'[p] = history[p] \cup {e}
      BY <1>1, <2>2 DEF Closing
    <3>2. e.type \notin KinTypes
      BY DEF Plain, Ev, KinTypes, ChildOutcomes
    <3> HIDE DEF e
    <3> QED
      BY <3>1, <3>2 DEF SameEvents
  <2>3. CASE p \in new
    <3> DEFINE e == Plain(1, "WorkflowExecutionStarted")
    <3>1. history'[p] = {e} /\ status[p] = "absent"
      BY <1>1, <2>3 DEF Closing
    <3>2. e.type \notin KinTypes
      BY DEF Plain, Ev, KinTypes, ChildOutcomes
    <3>3. history[p] = {}
      BY <1>0, <3>1, AbsentEmpty
    <3> HIDE DEF e
    <3> QED
      BY <3>1, <3>2, <3>3 DEF SameEvents
  <2>4. CASE p \notin {w} \cup D \cup P \cup new
    <3>1. Kept(p)
      BY <1>1, <2>4 DEF Closing
    <3> QED
      BY <3>1 DEF SameEvents, Kept
  <2> QED
    BY <1>7, <2>1, <2>2, <2>3, <2>4
<1>8. \A x \in D : parent[x].wf \in D \cup {w}
  BY DEF Ends, Subtrees
<1> HIDE DEF P, ev
<1>9. \A x \in Workflows : Closed(x)' <=> Closed(x) \/ x \in D \cup {w}
  BY <1>2, <1>3 DEF Closed
<1>10. \A x \in Workflows : Running(x)' => x \notin D \cup {w} /\ (Running(x) \/ status[x] = "absent")
  BY <1>2, <1>3 DEF Running
<1>11. ASSUME NEW x \in Workflows, parent[x].wf \in Workflows
       PROVE  LET p == parent[x].wf IN
              /\ \E e \in history'[p] :
                   e.type = "ChildWorkflowStarted" /\ e.cmd = parent[x].cmd
              /\ Running(p)' => (Closed(x)' <=>
                   \E e \in history'[p] : e.type \in ChildOutcomes /\ e.cmd = parent[x].cmd)
  <2> DEFINE p == parent[x].wf
  <2>1. /\ \E e \in history[p] : e.type = "ChildWorkflowStarted" /\ e.cmd = parent[x].cmd
        /\ Running(p) => (Closed(x) <=>
             \E e \in history[p] : e.type \in ChildOutcomes /\ e.cmd = parent[x].cmd)
    BY <1>11 DEF ChildInv, ChildrenOK, ParentInformed
  <2>2. status[p] # "absent"
    BY <1>11, ChildlessAbsent
  <2>3. \E e \in history'[p] : e.type = "ChildWorkflowStarted" /\ e.cmd = parent[x].cmd
    BY <1>6, <1>7, <1>11, <2>1 DEF SameEvents, KinTypes
  <2>4. ASSUME Running(p)'
        PROVE  Closed(x)' <=>
                 \E e \in history'[p] : e.type \in ChildOutcomes /\ e.cmd = parent[x].cmd
    <3>1. p \notin D \cup {w} /\ Running(p)
      BY <1>2, <1>10, <1>11, <2>2, <2>4
    <3>2. x \notin D
      BY <1>8, <3>1
    <3>3. CASE x = w
      <4>1. p \in P
        BY <1>4, <1>11, <3>1, <3>3
      <4>2. ev(p) \in history'[p] /\ ev(p).type \in ChildOutcomes /\ ev(p).cmd = parent[x].cmd
        BY <1>5, <1>6, <3>3, <4>1
      <4> QED
        BY <1>9, <3>3, <4>2
    <3>4. CASE x # w
      <4>1. Closed(x)' <=> Closed(x)
        BY <1>9, <3>2, <3>4
      <4>2. CASE p \in P
        <5>1. p = parent[w].wf
          BY <1>4, <1>11, <4>2
        <5>2. parent[w].cmd # parent[x].cmd
          BY <1>11, <3>4, <5>1 DEF ChildInv, ChildrenOK
        <5>3. ev(p).cmd # parent[x].cmd /\ history'[p] = history[p] \cup {ev(p)}
          BY <1>5, <1>6, <4>2, <5>2
        <5> QED
          BY <2>1, <3>1, <4>1, <5>3
      <4>3. CASE p \notin P
        <5>1. SameEvents(p, KinTypes)
          BY <1>7, <1>11, <4>3
        <5> QED
          BY <2>1, <3>1, <4>1, <5>1 DEF SameEvents, KinTypes
      <4> QED
        BY <4>2, <4>3
    <3> QED
      BY <3>3, <3>4
  <2> QED
    BY <2>3, <2>4
<1>12. ASSUME NEW p \in Workflows, NEW e \in history'[p], e.type \in ChildOutcomes
       PROVE  /\ StartedBefore(history'[p], e, "ChildWorkflowStarted")
              /\ \A f \in history'[p] : f.type \in ChildOutcomes /\ f.cmd = e.cmd => f = e
  <2>0. \A d \in history[p] : d.type \in ChildOutcomes =>
          /\ StartedBefore(history[p], d, "ChildWorkflowStarted")
          /\ \A f \in history[p] : f.type \in ChildOutcomes /\ f.cmd = d.cmd => f = d
    BY DEF ChildInv, ChildrenOK
  <2>1. CASE p \notin P
    <3>1. SameEvents(p, KinTypes)
      BY <1>7, <2>1
    <3>2. e \in history[p]
      BY <1>12, <3>1 DEF SameEvents, KinTypes
    <3> QED
      BY <1>12, <2>0, <3>1, <3>2 DEF SameEvents, KinTypes, StartedBefore
  <2>2. CASE p \in P
    <3>1. /\ p = parent[w].wf /\ Running(p) /\ ~Closed(w)
          /\ history'[p] = history[p] \cup {ev(p)}
      BY <1>2, <1>4, <1>6, <2>2 DEF Closed, Running
    <3>2. /\ \E d \in history[p] : d.type = "ChildWorkflowStarted" /\ d.cmd = parent[w].cmd
          /\ ~ \E d \in history[p] : d.type \in ChildOutcomes /\ d.cmd = parent[w].cmd
      BY <3>1 DEF ChildInv, ChildrenOK, ParentInformed
    <3>3. next_seq[p] \in Nat /\ \A d \in history[p] : d.seq < next_seq[p]
      <4>1. next_seq[p] \in Nat
        BY <1>0 DEF IInv, TypeOK
      <4>2. Numbered(history[p], 1, next_seq[p])
        BY DEF ChildInv, RecordInv, RecordOK
      <4> QED
        BY <4>1, <4>2 DEF Numbered
    <3>4. CASE e = ev(p)
      <4>1. StartedBefore(history'[p], e, "ChildWorkflowStarted")
        BY <1>5, <3>1, <3>2, <3>3, <3>4 DEF StartedBefore
      <4>2. \A f \in history'[p] : f.type \in ChildOutcomes /\ f.cmd = e.cmd => f = e
        BY <1>5, <3>1, <3>2, <3>4
      <4> QED
        BY <4>1, <4>2
    <3>5. CASE e # ev(p)
      <4>1. e \in history[p] /\ e.cmd # ev(p).cmd
        BY <1>5, <1>12, <3>1, <3>2, <3>5
      <4> QED
        BY <1>12, <2>0, <3>1, <4>1 DEF StartedBefore
    <3> QED
      BY <3>4, <3>5
  <2> QED
    BY <2>1, <2>2
<1>13. ParentInformed'
  BY <1>2, <1>11 DEF ParentInformed
<1>14. \A x, y \in Workflows :
         parent'[x].wf \in Workflows /\ parent'[x].wf = parent'[y].wf
           /\ parent'[x].cmd = parent'[y].cmd => x = y
  BY <1>2 DEF ChildInv, ChildrenOK
<1> QED
  BY <1>12, <1>13, <1>14 DEF ChildrenOK

\* Child commands start children their parent has recorded, and only those.
LEMMA KinCommit ==
  ASSUME ChildInv, NEW h \in inflight, CommitCommands(h)
  PROVE  ChildrenOK'
<1> DEFINE w == h.task.wf
           cs == h.replay.commands
           E == Emitted(h, "child")
           new == {Child(w, cs[i].cmd) : i \in E}
           A == {CommandEvent(next_seq[w] + i - 1, cs[i]) : i \in DOMAIN cs}
<1>0. IInv /\ RecordInv
  BY DEF ChildInv, RecordInv, FamilyInv
<1>1. /\ w \in Workflows /\ Running(w) /\ cs \in Seq(Command) /\ Acceptable(w, cs)
      /\ w \notin new /\ status'[w] = "running" /\ history'[w] = history[w] \cup A
      /\ parent'[w] = parent[w]
  BY <1>0, CommandRows
<1>2. \A x \in new :
        /\ x \in Workflows /\ status[x] = "absent" /\ status'[x] = "running"
        /\ history'[x] = {Plain(1, "WorkflowExecutionStarted")}
        /\ \E i \in E : x = Child(w, cs[i].cmd) /\ parent'[x] = ParentLink(w, cs[i])
  BY <1>0, CommandRows
<1>3. \A x \in Workflows \ (new \cup {w}) : Kept(x) /\ parent'[x] = parent[x]
  BY <1>0, CommandRows
<1>4. Listed(w, cs, A)
  BY <1>0, <1>1, CommandEvents
<1>5. \A i \in E : i \in DOMAIN cs /\ cs[i].kind = "child"
  BY DEF Emitted
<1>6. \A i \in DOMAIN cs : cs[i] \in Command
  BY <1>1
<1> HIDE DEF w, cs, E, new, A
<1>7. \A c \in Command : EventOf[c.kind] \notin ChildOutcomes
  BY DEF Command, EventOf, ChildOutcomes
<1>8. \A e \in A : e.type \notin ChildOutcomes
  BY <1>4, <1>6, <1>7 DEF Listed, Describes
<1>9. \A x \in new : /\ parent'[x].wf = w
                     /\ \E i \in E : x = Child(w, cs[i].cmd) /\ parent'[x].cmd = cs[i].cmd
  <2>1. \A c : ParentLink(w, c).wf = w /\ ParentLink(w, c).cmd = c.cmd
    BY DEF ParentLink
  <2> TAKE x \in new
  <2>2. PICK i \in E : x = Child(w, cs[i].cmd) /\ parent'[x] = ParentLink(w, cs[i])
    BY <1>2
  <2> QED
    BY <2>1, <2>2
<1>10. \A i \in E : /\ \E e \in A : e.type = "ChildWorkflowStarted" /\ e.cmd = cs[i].cmd
                    /\ \A f \in Scheduled(history[w]) : f.cmd # cs[i].cmd
  <2> TAKE i \in E
  <2>1. PICK e \in A : Describes(e, cs[i])
    BY <1>4, <1>5 DEF Listed
  <2>2. EventOf["child"] = "ChildWorkflowStarted"
    BY DEF EventOf
  <2>3. e.type = "ChildWorkflowStarted" /\ e.cmd = cs[i].cmd
    BY <1>5, <2>1, <2>2 DEF Describes
  <2> QED
    BY <1>4, <2>3 DEF Listed
<1>11. \A e \in history[w] : e.type = "ChildWorkflowStarted" => e \in Scheduled(history[w])
  BY DEF Scheduled, ScheduleEvents
<1>12. \A x \in Workflows \ new : parent'[x] = parent[x]
  BY <1>1, <1>3
<1>13. \A x \in Workflows : Closed(x)' <=> Closed(x)
  BY <1>1, <1>2, <1>3 DEF Closed, Running, Kept
<1>14. \A p \in Workflows : Running(p)' => Running(p) \/ status[p] = "absent"
  BY <1>1, <1>2, <1>3 DEF Running, Kept
<1>15. \A p \in Workflows : status[p] # "absent" =>
         /\ history[p] \subseteq history'[p]
         /\ \A e \in history'[p] : e.type \in ChildOutcomes => e \in history[p]
  BY <1>1, <1>2, <1>3, <1>8 DEF Kept
<1>16. \A p \in new : \A e \in history'[p] : e.type \notin ChildOutcomes
  BY <1>2 DEF Plain, Ev, ChildOutcomes
<1>17. \A p \in Workflows : status[p] = "absent" => history[p] = {}
  BY <1>0, AbsentEmpty
<1>18. \A p \in Workflows : \A e \in history'[p] : e.type \in ChildOutcomes =>
         e \in history[p] /\ history[p] \subseteq history'[p]
  <2> SUFFICES ASSUME NEW p \in Workflows, NEW e \in history'[p], e.type \in ChildOutcomes
               PROVE  e \in history[p] /\ history[p] \subseteq history'[p]
    OBVIOUS
  <2>1. CASE p \in new
    BY <1>16, <2>1
  <2>2. CASE p \notin new
    BY <1>1, <1>3, <1>8, <2>2 DEF Kept
  <2> QED
    BY <2>1, <2>2
<1>19. \A p \in Workflows : \A e \in history[p] : e.type \in ChildOutcomes =>
         /\ StartedBefore(history[p], e, "ChildWorkflowStarted")
         /\ \A f \in history[p] : f.type \in ChildOutcomes /\ f.cmd = e.cmd => f = e
  BY DEF ChildInv, ChildrenOK
<1>20. \A p \in Workflows : \A e \in history'[p] : e.type \in ChildOutcomes =>
         /\ StartedBefore(history'[p], e, "ChildWorkflowStarted")
         /\ \A f \in history'[p] : f.type \in ChildOutcomes /\ f.cmd = e.cmd => f = e
  BY <1>18, <1>19 DEF StartedBefore
<1>21. ASSUME NEW x \in Workflows, parent'[x].wf \in Workflows
       PROVE  /\ \E e \in history'[parent'[x].wf] :
                   e.type = "ChildWorkflowStarted" /\ e.cmd = parent'[x].cmd
              /\ status'[parent'[x].wf] = "running" => (Closed(x)' <=>
                   \E e \in history'[parent'[x].wf] :
                     e.type \in ChildOutcomes /\ e.cmd = parent'[x].cmd)
  <2>1. CASE x \in new
    <3>1. PICK i \in E : parent'[x].wf = w /\ parent'[x].cmd = cs[i].cmd
      BY <1>9, <2>1
    <3>2. \E e \in history'[w] : e.type = "ChildWorkflowStarted" /\ e.cmd = cs[i].cmd
      BY <1>1, <1>10
    <3>3. ~Closed(x)'
      BY <1>2, <2>1 DEF Closed
    <3>4. \A e \in history'[w] : e.type \in ChildOutcomes => e.cmd # cs[i].cmd
      <4> SUFFICES ASSUME NEW e \in history'[w], e.type \in ChildOutcomes
                   PROVE  e.cmd # cs[i].cmd
        OBVIOUS
      <4>1. e \in history[w]
        BY <1>1, <1>18
      <4>2. PICK d \in history[w] : d.type = "ChildWorkflowStarted" /\ d.cmd = e.cmd
        BY <1>1, <1>19, <4>1 DEF StartedBefore
      <4> QED
        BY <1>10, <1>11, <4>2
    <3> QED
      BY <3>1, <3>2, <3>3, <3>4
  <2>2. CASE x \notin new
    <3> DEFINE p == parent[x].wf
               c == parent[x].cmd
    <3>1. parent'[x] = parent[x] /\ p \in Workflows
      BY <1>12, <1>21, <2>2
    <3>2. /\ \E e \in history[p] : e.type = "ChildWorkflowStarted" /\ e.cmd = c
          /\ Running(p) => (Closed(x) <=>
               \E e \in history[p] : e.type \in ChildOutcomes /\ e.cmd = c)
      BY <3>1 DEF ChildInv, ChildrenOK, ParentInformed
    <3>3. status[p] # "absent"
      BY <3>1, ChildlessAbsent
    <3>4. /\ history[p] \subseteq history'[p]
          /\ \A e \in history'[p] : e.type \in ChildOutcomes => e \in history[p]
      BY <1>15, <3>1, <3>3
    <3>5. status'[p] = "running" => Running(p)
      BY <1>1, <1>2, <1>3, <3>1, <3>3 DEF Running, Kept
    <3>6. Closed(x)' <=> Closed(x)
      BY <1>13
    <3> HIDE DEF p, c
    <3>7. /\ \E e \in history'[p] : e.type = "ChildWorkflowStarted" /\ e.cmd = c
          /\ status'[p] = "running" => (Closed(x)' <=>
               \E e \in history'[p] : e.type \in ChildOutcomes /\ e.cmd = c)
      BY <3>2, <3>4, <3>5, <3>6
    <3> QED
      BY <3>1, <3>7 DEF p, c
  <2> QED
    BY <2>1, <2>2
<1>22. ParentInformed'
  BY <1>21 DEF ParentInformed, Running
<1>23. \A x, y \in Workflows :
         parent'[x].wf \in Workflows /\ parent'[x].wf = parent'[y].wf
           /\ parent'[x].cmd = parent'[y].cmd => x = y
  <2>1. ASSUME NEW x \in new, NEW y \in Workflows \ new, parent[y].wf = w
        PROVE  parent[y].cmd # parent'[x].cmd
    <3>1. PICK e \in history[w] : e.type = "ChildWorkflowStarted" /\ e.cmd = parent[y].cmd
      BY <1>1, <2>1 DEF ChildInv, ChildrenOK, ParentInformed
    <3> QED
      BY <1>9, <1>10, <1>11, <3>1
  <2>2. ASSUME NEW x \in new, NEW y \in new, parent'[x].cmd = parent'[y].cmd
        PROVE  x = y
    BY <1>9, <2>2
  <2>3. \A x, y \in Workflows \ new :
          parent[x].wf \in Workflows /\ parent[x].wf = parent[y].wf
            /\ parent[x].cmd = parent[y].cmd => x = y
    BY DEF ChildInv, ChildrenOK
  <2>4. \A x \in new : parent'[x].wf = w
    BY <1>9
  <2> QED
    BY <1>1, <1>12, <2>1, <2>2, <2>3, <2>4
<1> QED
  BY <1>20, <1>22, <1>23 DEF ChildrenOK

\* Every step keeps parents informed.
LEMMA ChildStep == ChildInv /\ [Next]_vars => ChildInv'
<1> SUFFICES ASSUME ChildInv, [Next]_vars
             PROVE  ChildrenOK'
  BY RecordStep DEF ChildInv
<1>0. IInv
  BY DEF ChildInv, RecordInv, FamilyInv
<1>1. CASE Still
  <2>1. UNCHANGED <<status, parent, history>>
    BY <1>1 DEF Still
  <2> QED
    BY <2>1, KinStep DEF SameEvents
<1>2. ASSUME NEW c \in claims, LeaseActivity(c) \/ FireTimer(c)
      PROVE  ChildrenOK'
  <2>1. c.task.wf \in Workflows /\ UNCHANGED <<status, parent>>
    BY <1>0, <1>2 DEF IInv, TypeOK, TaskId, LeaseActivity, FireTimer
  <2>2. PICK type \in {"ActivityStarted", "TimerFired"} :
          Record(c.task.wf, type, c.task.cmd, NoTag, TRUE)
    BY <1>2 DEF LeaseActivity, FireTimer
  <2>3. \E final \in BOOLEAN : Record(c.task.wf, type, c.task.cmd, NoTag, final)
    BY <2>2
  <2>4. type \in PlainTypes
    BY DEF PlainTypes
  <2> QED
    BY <2>1, <2>3, <2>4, KinWork
<1>3. ASSUME NEW t, NEW type, NEW final, NEW s, NEW u, Reported(t, type, final, s, u)
      PROVE  ChildrenOK'
  <2>1. /\ t.wf \in Workflows /\ type \in PlainTypes /\ final \in BOOLEAN
        /\ UNCHANGED <<status, parent>>
    BY <1>0, <1>3 DEF Reported, IInv, TypeOK, TaskId, PlainTypes
  <2>2. Record(t.wf, type, t.cmd, NoTag, final)
    BY <1>3 DEF Reported
  <2> QED
    BY <2>1, <2>2, KinWork
<1> QED
  BY <1>0, <1>1, <1>2, <1>3, StepCases, KinClient, KinClose, KinCommit

\* Families are in order in every reachable state.
LEMMA Related == Spec => []ChildInv
<1>1. Init => ChildrenOK
  <2> SUFFICES ASSUME Init PROVE ChildrenOK
    OBVIOUS
  <2>1. \A x \in Workflows : parent[x].wf \notin Workflows /\ history[x] = {}
    BY NoParentOf DEF Init
  <2> QED
    BY <2>1 DEF ChildrenOK, ParentInformed
<1>2. Init => ChildInv
  BY <1>1, RecordInit DEF ChildInv
<1> QED
  BY <1>2, ChildStep, PTL DEF Spec

\* A running parent knows of every child that has closed, by itself or because
\* it was terminated, and of no child that still runs.
THEOREM ParentsInformed == Spec => []ParentInformed
<1>1. ChildInv => ParentInformed
  BY DEF ChildInv, ChildrenOK
<1> QED
  BY <1>1, Related, PTL

(***************************************************************************)
(* What a step does to the rows of activities and timers.                  *)
(***************************************************************************)

\* Clients insert workflow tasks only.
LEMMA ClientRows ==
  ASSUME IInv, NEW w \in Workflows, StartWorkflow(w) \/ Noted(w)
  PROVE  RowsKept({"activity", "timer"})
<1>1. CASE tasks' = tasks
  BY <1>1, SameRows
<1>2. ASSUME NEW n, tasks' = Insert(tasks, {WakeUp(w, n)})
      PROVE  RowsKept({"activity", "timer"})
  <2>1. tasks' = Insert(Close(tasks, {}, "dead"), {WakeUp(w, n)})
    BY <1>2, NothingClosed
  <2>2. \A t \in {} \cup {WakeUp(w, n)} : t.kind \notin {"activity", "timer"}
    BY DEF WakeUp
  <2> QED
    BY <2>1, <2>2, QueueKept
<1>3. CASE ResumeWorkflow(w)
  <2>1. \A t \in DOMAIN tasks : tasks[t] \in Row
    BY DEF IInv, TypeOK
  <2>2. \A r \in Row : /\ [r EXCEPT !.due = {}].status = r.status
                       /\ [r EXCEPT !.due = {}].token = r.token
    BY DEF Row
  <2>3. tasks' = [t \in DOMAIN tasks |->
                    IF t \in PendingTasks(w) THEN [tasks[t] EXCEPT !.due = {}] ELSE tasks[t]]
    BY <1>3 DEF ResumeWorkflow
  <2> QED
    BY <2>1, <2>2, <2>3 DEF RowsKept
<1> QED
  BY <1>1, <1>2, <1>3 DEF StartWorkflow, Noted, PauseWorkflow, SendSignal, SendUpdate

\* An activity that is leased, reported or canceled leaves timers alone.
LEMMA ActivityRows ==
  ASSUME IInv,
         \/ \E w \in Workflows : RequestCancellation(w)
         \/ \E c \in claims : LeaseActivity(c)
         \/ \E t, type, final, s, u : Reported(t, type, final, s, u)
  PROVE  RowsKept({"timer"})
<1>1. ASSUME NEW w \in Workflows, RequestCancellation(w)
      PROVE  RowsKept({"timer"})
  <2>1. tasks' = Insert(Close(tasks, PendingActivities(w), "dead"), {WakeUp(w, next_seq[w])})
    BY <1>1 DEF RequestCancellation
  <2>2. \A t \in PendingActivities(w) \cup {WakeUp(w, next_seq[w])} : t.kind \notin {"timer"}
    BY DEF WakeUp, PendingActivities
  <2> QED
    BY <2>1, <2>2, QueueKept
<1>2. ASSUME NEW c \in claims, LeaseActivity(c)
      PROVE  RowsKept({"timer"})
  <2>1. c.task \in DOMAIN tasks /\ c.task.kind = "activity"
    BY <1>2 DEF IInv, ClaimsOK, LeaseActivity
  <2>2. PICK r : tasks' = [tasks EXCEPT ![c.task] = r]
    BY <1>2 DEF LeaseActivity, Lease
  <2>3. DOMAIN tasks' = DOMAIN tasks /\ \A u \in DOMAIN tasks \ {c.task} : tasks'[u] = tasks[u]
    BY <2>1, <2>2 DEF IInv, TypeOK
  <2> QED
    BY <2>1, <2>3 DEF RowsKept
<1>3. ASSUME NEW t, NEW type, NEW final, NEW s, NEW u, Reported(t, type, final, s, u)
      PROVE  RowsKept({"timer"})
  <2>1. /\ tasks' = Insert(Close(tasks, {t}, s), {u}) /\ t.kind = "activity"
        /\ s \in {"completed", "dead"}
    BY <1>3 DEF Reported
  <2>2. u.kind # "timer"
    BY <1>3 DEF Reported, WakeUp, Attempt
  <2>3. \A v \in {t} \cup {u} : v.kind \notin {"timer"}
    BY <2>1, <2>2
  <2> QED
    BY <2>1, <2>3, QueueKept
<1> QED
  BY <1>1, <1>2, <1>3

\* Closing an execution kills its open rows and those of its descendants.
LEMMA CloseTasks ==
  ASSUME IInv, NEW w \in Workflows, NEW s, NEW evs, NEW k, NEW D, NEW new, NEW done,
         Ends(w, s, evs, k, D, new, done), NEW t \in TaskId, t.kind # "workflow"
  PROVE  /\ t \in DOMAIN tasks' <=> t \in DOMAIN tasks
         /\ t \in DOMAIN tasks =>
              /\ tasks'[t].token = tasks[t].token
              /\ tasks'[t].status = IF t.wf \in D \cup {w} /\ Open(t) THEN "dead" ELSE tasks[t].status
<1> DEFINE gone == Outstanding(D \cup {w}) \ done
           mid == Close(tasks, gone, "dead")
           last == Close(mid, done, "completed")
           ids == {WakeUp(p, next_seq[p]) : p \in Notified(w, D)} \cup {WakeUp(x, 1) : x \in new}
<1>1. tasks' = Insert(last, ids) /\ t \notin done
  BY DEF Ends, CloseExecution
<1>2. t \notin ids
  BY DEF WakeUp
<1>3. t \in DOMAIN tasks => tasks[t] \in Row
  BY DEF IInv, TypeOK
<1>4. \A r \in Row : /\ [r EXCEPT !.status = "dead", !.due = {}].status = "dead"
                     /\ [r EXCEPT !.status = "dead", !.due = {}].token = r.token
  BY DEF Row
<1>5. /\ DOMAIN mid = DOMAIN tasks
      /\ t \in DOMAIN tasks =>
           mid[t] = IF t \in gone THEN [tasks[t] EXCEPT !.status = "dead", !.due = {}] ELSE tasks[t]
  BY DEF Close
<1>6. t \in DOMAIN tasks => (t \in gone <=> t.wf \in D \cup {w} /\ Open(t))
  BY <1>1 DEF Outstanding
<1> HIDE DEF mid, gone, ids
<1>7. DOMAIN last = DOMAIN mid /\ (t \in DOMAIN mid => last[t] = mid[t])
  BY <1>1 DEF Close
<1> HIDE DEF last
<1>8. /\ t \in DOMAIN tasks' <=> t \in DOMAIN last
      /\ t \in DOMAIN last => tasks'[t] = last[t]
  BY <1>1, <1>2 DEF Insert
<1> QED
  BY <1>3, <1>4, <1>5, <1>6, <1>7, <1>8

\* Committed commands insert first attempts and timers.
LEMMA CommandTasks ==
  ASSUME IInv, NEW h \in inflight, CommitCommands(h), NEW t \in TaskId, t.kind # "workflow"
  PROVE  LET w == h.task.wf
             cs == h.replay.commands
         IN
         /\ t \in DOMAIN tasks' <=>
              \/ t \in DOMAIN tasks
              \/ \E i \in DOMAIN cs :
                   \/ cs[i].kind = "activity" /\ t = Attempt(w, cs[i].cmd, 1)
                   \/ cs[i].kind = "timer" /\ t = Timer(w, cs[i].cmd)
         /\ t \in DOMAIN tasks => tasks'[t] = tasks[t]
         /\ t \in DOMAIN tasks' \ DOMAIN tasks => tasks'[t].status = "pending" /\ tasks'[t].token = 0
<1> DEFINE w == h.task.wf
           cs == h.replay.commands
           new == {Child(w, cs[i].cmd) : i \in Emitted(h, "child")}
           acts == {Attempt(w, cs[i].cmd, 1) : i \in Emitted(h, "activity")}
           tims == {Timer(w, cs[i].cmd) : i \in Emitted(h, "timer")}
           wakes == {WakeUp(x, 1) : x \in new}
                      \cup {WakeUp(w, (next_seq[w] + Len(cs)) - 1) : i \in MarkerRecorded(h)}
           ids == acts \cup tims \cup wakes
<1>1. tasks' = Insert(Close(tasks, {h.task}, "completed"), ids) /\ h.task.kind = "workflow"
  BY DEF CommitCommands, Committing
<1>2. t \notin wakes
  BY DEF WakeUp
<1>3. t \in acts \cup tims <=>
        \E i \in DOMAIN cs :
          \/ cs[i].kind = "activity" /\ t = Attempt(w, cs[i].cmd, 1)
          \/ cs[i].kind = "timer" /\ t = Timer(w, cs[i].cmd)
  BY DEF Emitted
<1> HIDE DEF acts, tims, wakes, new, w, cs
<1>4. /\ DOMAIN tasks' = DOMAIN tasks \cup ids
      /\ \A u \in DOMAIN tasks \ {h.task} : tasks'[u] = tasks[u]
      /\ \A u \in ids \ DOMAIN tasks : tasks'[u].status = "pending" /\ tasks'[u].token = 0
  <2> DEFINE S == {h.task}
  <2>1. PICK s \in {"completed", "dead"} : tasks' = Insert(Close(tasks, S, s), ids)
    BY <1>1
  <2> HIDE DEF ids, S
  <2>2. Queued(S, s, ids)
    BY <2>1, QueueRows
  <2> QED
    BY <2>2 DEF S, Queued
<1> QED
  BY <1>1, <1>2, <1>3, <1>4 DEF w, cs

\* Every event was recorded before the next one.
LEMMA SeqBelow ==
  ASSUME RecordInv, NEW w \in Workflows
  PROVE  next_seq[w] \in Nat /\ \A e \in history[w] : e.seq \in Nat /\ e.seq < next_seq[w]
<1>1. next_seq[w] \in Nat
  BY DEF RecordInv, FamilyInv, IInv, TypeOK
<1>2. Numbered(history[w], 1, next_seq[w])
  BY DEF RecordInv, RecordOK
<1> QED
  BY <1>1, <1>2 DEF Numbered

\* The event e of this type and about this command is appended to w.
OneMore(w, type, cmd, e) ==
  /\ history'[w] = history[w] \cup {e}
  /\ \A x \in Workflows \ {w} : history'[x] = history[x]
  /\ e.seq = next_seq[w] /\ e.type = type /\ e.cmd = cmd

LEMMA RecordOne ==
  ASSUME IInv, NEW w \in Workflows, NEW type, NEW cmd, NEW tag, NEW final \in BOOLEAN,
         Record(w, type, cmd, tag, final)
  PROVE  \E e : OneMore(w, type, cmd, e) /\ e.final = final
<1> DEFINE e == Ev(next_seq[w], type, cmd, tag, final)
<1>1. e.seq = next_seq[w] /\ e.type = type /\ e.cmd = cmd /\ e.final = final
  BY DEF Ev
<1>2. history' = [history EXCEPT ![w] = @ \cup {e}]
  BY DEF Record
<1> HIDE DEF e
<1>3. history'[w] = history[w] \cup {e} /\ \A x \in Workflows \ {w} : history'[x] = history[x]
  BY <1>2 DEF IInv, TypeOK
<1> QED
  BY <1>1, <1>3 DEF OneMore

(***************************************************************************)
(* Timers.                                                                 *)
(***************************************************************************)

TimerTypes == TimerOutcomes \cup {"TimerStarted"}

\* The timers of x are not touched.
TimerRows(x) ==
  \A c \in Commands :
    /\ Timer(x, c) \in DOMAIN tasks' <=> Timer(x, c) \in DOMAIN tasks
    /\ Timer(x, c) \in DOMAIN tasks => tasks'[Timer(x, c)].status = tasks[Timer(x, c)].status

\* A step that keeps the rows of timers.
LEMMA KeptTimers ==
  ASSUME RowsKept({"timer"}), NEW x \in Workflows
  PROVE  TimerRows(x)
<1>1. \A c \in Commands : Timer(x, c) \in TaskId /\ Timer(x, c).kind = "timer"
  BY DEF Timer, TaskId, Commands
<1> QED
  BY <1>1 DEF TimerRows, RowsKept

\* An execution whose timers are not touched.
LEMMA TimerQuiet ==
  ASSUME RecordInv, TimerInv, NEW x \in Workflows,
         status'[x] = status[x] \/ (status[x] = "absent" /\ status'[x] = "running"),
         SameEvents(x, TimerTypes), TimerRows(x), NEW c \in Commands
  PROVE  TimerOK(x, c)'
<1> DEFINE t == Timer(x, c)
<1>0. TimerOK(x, c)
  BY DEF TimerInv
<1>1. /\ TimerBegun(x, c)' <=> TimerBegun(x, c)
      /\ TimerEnded(x, c)' <=> TimerEnded(x, c)
  BY DEF SameEvents, TimerTypes, TimerBegun, TimerEnded
<1>2. t \in DOMAIN tasks /\ Running(x)' => Running(x)
  <2>1. t \in DOMAIN tasks => history[x] # {}
    BY <1>0 DEF TimerOK, TimerBegun
  <2> QED
    BY <2>1, AbsentEmpty DEF Running
<1>3. \A e \in history'[x] : e.type \in TimerOutcomes /\ e.cmd = c =>
        /\ StartedBefore(history'[x], e, "TimerStarted")
        /\ \A f \in history'[x] : f.type \in TimerOutcomes /\ f.cmd = c => f = e
  <2>1. \A e \in history[x] : e.type \in TimerOutcomes /\ e.cmd = c =>
          /\ StartedBefore(history[x], e, "TimerStarted")
          /\ \A f \in history[x] : f.type \in TimerOutcomes /\ f.cmd = c => f = e
    BY <1>0 DEF TimerOK
  <2> QED
    BY <2>1 DEF SameEvents, TimerTypes, StartedBefore
<1>4. /\ t \in DOMAIN tasks' <=> t \in DOMAIN tasks
      /\ t \in DOMAIN tasks => tasks'[t].status = tasks[t].status
  BY DEF TimerRows
<1>5. /\ t \in DOMAIN tasks <=> TimerBegun(x, c)
      /\ t \in DOMAIN tasks =>
           /\ tasks[t].status # "leased"
           /\ tasks[t].status = "pending" => ~TimerEnded(x, c)
           /\ Running(x) /\ tasks[t].status # "pending" =>
                tasks[t].status = "completed" /\ TimerEnded(x, c)
  BY <1>0 DEF TimerOK
<1> QED
  BY <1>1, <1>2, <1>3, <1>4, <1>5 DEF TimerOK

\* The keys of timers.
TimerKeys == \A t \in DOMAIN tasks : t.kind = "timer" => t = Timer(t.wf, t.cmd) /\ t.cmd \in Nat

LEMMA KeysKept == ASSUME IInv', TimerInv, RowsKept({"timer"}) PROVE TimerKeys'
  BY DEF IInv, TypeOK, TimerInv, RowsKept, TimerKeys

\* A step that touches no timer.
LEMMA TimerStill ==
  ASSUME RecordInv, RecordInv', TimerInv, RowsKept({"timer"}),
         \A x \in Workflows :
           /\ status'[x] = status[x] \/ (status[x] = "absent" /\ status'[x] = "running")
           /\ SameEvents(x, TimerTypes)
  PROVE  TimerInv'
<1>1. \A x \in Workflows, c \in Commands : TimerOK(x, c)'
  BY KeptTimers, TimerQuiet
<1>2. TimerKeys'
  BY KeysKept DEF RecordInv, FamilyInv
<1> QED
  BY <1>1, <1>2 DEF TimerInv, TimerKeys

\* A timer fires once.
LEMMA TimerFire ==
  ASSUME RecordInv, RecordInv', TimerInv, NEW d \in claims, FireTimer(d)
  PROVE  TimerInv'
<1> DEFINE t == d.task
           w == t.wf
           b == t.cmd
<1>0. IInv
  BY DEF RecordInv, FamilyInv
<1>1. /\ t \in DOMAIN tasks /\ t \in TaskId /\ t.kind = "timer" /\ tasks[t].status = "pending"
      /\ w \in Workflows /\ b \in Commands
  BY <1>0 DEF FireTimer, IInv, ClaimsOK, TypeOK, TaskId, Commands
<1>2. t = Timer(w, b)
  BY <1>1 DEF TimerInv
<1>3. Running(w) /\ status' = status
  BY DEF FireTimer
<1>4. \E final \in BOOLEAN : Record(w, "TimerFired", b, NoTag, final)
  BY DEF FireTimer
<1>a. PICK e : OneMore(w, "TimerFired", b, e)
  BY <1>0, <1>1, <1>4, RecordOne
<1>5. /\ history'[w] = history[w] \cup {e}
      /\ \A x \in Workflows \ {w} : history'[x] = history[x]
      /\ e.seq = next_seq[w] /\ e.type = "TimerFired" /\ e.cmd = b
  BY <1>a DEF OneMore
<1>6. PICK s \in {"completed", "dead"} :
        s = "completed" /\ Queued({t}, s, {WakeUp(w, next_seq[w])})
  <2>1. tasks' = Insert(Close(tasks, {t}, "completed"), {WakeUp(w, next_seq[w])})
    BY DEF FireTimer
  <2> QED
    BY <1>0, <2>1, QueueRows
<1>7. WakeUp(w, next_seq[w]).kind = "workflow"
  BY DEF WakeUp
<1> DEFINE k == WakeUp(w, next_seq[w])
<1>8. /\ DOMAIN tasks' = DOMAIN tasks \cup {k}
      /\ \A u \in DOMAIN tasks \ {t} : tasks'[u] = tasks[u]
      /\ tasks'[t].status = "completed"
  BY <1>1, <1>6 DEF Queued
<1> HIDE DEF t, w, b, k
<1>9. TimerKeys'
  BY <1>7, <1>8 DEF TimerKeys, TimerInv, k
<1>10. ASSUME NEW x \in Workflows, NEW c \in Commands, ~(x = w /\ c = b)
       PROVE  TimerOK(x, c)'
  <2>1. Timer(x, c) # t /\ Timer(x, c) # k
    BY <1>2, <1>7, <1>10 DEF Timer, k
  <2>2. /\ Timer(x, c) \in DOMAIN tasks' <=> Timer(x, c) \in DOMAIN tasks
        /\ Timer(x, c) \in DOMAIN tasks => tasks'[Timer(x, c)] = tasks[Timer(x, c)]
    BY <1>8, <2>1
  <2>3. \A f : f.cmd = c => (f \in history'[x] <=> f \in history[x])
    BY <1>5, <1>10
  <2>4. TimerOK(x, c)
    BY DEF TimerInv
  <2>5. /\ TimerBegun(x, c)' <=> TimerBegun(x, c)
        /\ TimerEnded(x, c)' <=> TimerEnded(x, c)
    BY <2>3 DEF TimerBegun, TimerEnded
  <2>6. Running(x)' <=> Running(x)
    BY <1>3 DEF Running
  <2>7. \A f \in history'[x] : f.type \in TimerOutcomes /\ f.cmd = c =>
          /\ StartedBefore(history'[x], f, "TimerStarted")
          /\ \A g \in history'[x] : g.type \in TimerOutcomes /\ g.cmd = c => g = f
    BY <2>3, <2>4 DEF TimerOK, StartedBefore
  <2> QED
    BY <2>2, <2>4, <2>5, <2>6, <2>7 DEF TimerOK
<1>11. TimerOK(w, b)'
  <2>1. TimerOK(w, b)
    BY <1>1 DEF TimerInv
  <2>2. TimerBegun(w, b) /\ ~TimerEnded(w, b)
    BY <1>1, <1>2, <2>1 DEF TimerOK
  <2>3. PICK f \in history[w] : f.type = "TimerStarted" /\ f.cmd = b
    BY <2>2 DEF TimerBegun
  <2>4. f.seq < e.seq /\ f \in history'[w]
    BY <1>1, <1>5, SeqBelow
  <2>5. e.type \in TimerOutcomes
    BY <1>5 DEF TimerOutcomes
  <2>6. StartedBefore(history'[w], e, "TimerStarted")
    BY <1>5, <2>3, <2>4 DEF StartedBefore
  <2>7. \A g \in history'[w] : g.type \in TimerOutcomes /\ g.cmd = b => g = e
    BY <1>5, <2>2 DEF TimerEnded
  <2>8. TimerBegun(w, b)' /\ TimerEnded(w, b)'
    BY <1>5, <2>3, <2>4, <2>5 DEF TimerBegun, TimerEnded
  <2>9. Timer(w, b) \in DOMAIN tasks' /\ tasks'[Timer(w, b)].status = "completed"
    BY <1>1, <1>2, <1>8
  <2> QED
    BY <2>6, <2>7, <2>8, <2>9 DEF TimerOK
<1>12. \A x \in Workflows, c \in Commands : TimerOK(x, c)'
  BY <1>10, <1>11
<1> QED
  BY <1>9, <1>12 DEF TimerInv, TimerKeys

\* The events other executions get when w is closed.
CloseTypes == ChildOutcomes \cup {"WorkflowExecutionStarted", "WorkflowExecutionTerminated"}

LEMMA CloseOthers ==
  ASSUME RecordInv, NEW w \in Workflows, NEW s \in {"completed", "failed", "terminated"}, NEW evs,
         NEW k, NEW D, NEW new, Closing(w, s, evs, k, D, new), NEW types,
         \A type \in CloseTypes : type \notin types, NEW x \in Workflows \ {w}
  PROVE  SameEvents(x, types)
<1>1. CASE x \in D
  <2> DEFINE e == Plain(next_seq[x], "WorkflowExecutionTerminated")
  <2>1. history'[x] = history[x] \cup {e}
    BY <1>1 DEF Closing
  <2>2. e.type \notin types
    BY DEF Plain, Ev, CloseTypes
  <2> HIDE DEF e
  <2> QED
    BY <2>1, <2>2 DEF SameEvents
<1>2. CASE x \in Notified(w, D)
  <2> DEFINE e == Ev(next_seq[x], ChildStatus[s], parent[w].cmd, NoTag, TRUE)
  <2>1. history'[x] = history[x] \cup {e}
    BY <1>2 DEF Closing
  <2>2. e.type \in CloseTypes
    BY DEF Ev, ChildStatus, CloseTypes, ChildOutcomes
  <2> HIDE DEF e
  <2> QED
    BY <2>1, <2>2 DEF SameEvents
<1>3. CASE x \in new
  <2> DEFINE e == Plain(1, "WorkflowExecutionStarted")
  <2>1. history'[x] = {e} /\ status[x] = "absent"
    BY <1>3 DEF Closing
  <2>2. e.type \notin types
    BY DEF Plain, Ev, CloseTypes
  <2>3. history[x] = {}
    BY <2>1, AbsentEmpty
  <2> HIDE DEF e
  <2> QED
    BY <2>1, <2>2, <2>3 DEF SameEvents
<1>4. CASE x \notin {w} \cup D \cup Notified(w, D) \cup new
  <2>1. Kept(x)
    BY <1>4 DEF Closing
  <2> QED
    BY <2>1 DEF SameEvents, Kept
<1> QED
  BY <1>1, <1>2, <1>3, <1>4

\* Closing an execution cancels its pending timers; those of its descendants
\* just die.
LEMMA TimerClose ==
  ASSUME RecordInv, RecordInv', TimerInv, NEW w \in Workflows, NEW s, NEW evs, NEW k, NEW D,
         NEW new, NEW done, Ends(w, s, evs, k, D, new, done)
  PROVE  TimerInv'
<1>0. IInv /\ IInv'
  BY DEF RecordInv, FamilyInv
<1>1. Closing(w, s, evs, k, D, new)
  BY <1>0, CloseRows
<1>2. s \in {"completed", "failed", "terminated"} /\ EndEvents(w, s, evs, k)
  BY DEF Ends
<1>3. \A t \in TaskId : t.kind = "timer" =>
        /\ t \in DOMAIN tasks' <=> t \in DOMAIN tasks
        /\ t \in DOMAIN tasks => tasks'[t].status =
             IF t.wf \in D \cup {w} /\ Open(t) THEN "dead" ELSE tasks[t].status
  BY <1>0, CloseTasks
<1>4. TimerKeys'
  BY <1>0, <1>3 DEF TimerKeys, TimerInv, IInv, TypeOK
<1>5. \A x \in Workflows, c \in Commands :
        Timer(x, c) \in TaskId /\ Timer(x, c).kind = "timer" /\ Timer(x, c).wf = x
  BY DEF Timer, TaskId, Commands
<1>6. ASSUME NEW x \in Workflows \ {w} PROVE SameEvents(x, TimerTypes)
  <2>1. \A type \in CloseTypes : type \notin TimerTypes
    BY DEF CloseTypes, ChildOutcomes, TimerTypes, TimerOutcomes
  <2> QED
    BY <1>1, <1>2, <1>6, <2>1, CloseOthers
<1>7. ASSUME NEW x \in Workflows \ (D \cup {w}), NEW c \in Commands
      PROVE  TimerOK(x, c)'
  <2>1. status'[x] = status[x] \/ (status[x] = "absent" /\ status'[x] = "running")
    BY <1>1, <1>7 DEF Closing, Kept
  <2>2. TimerRows(x)
    BY <1>3, <1>5, <1>7 DEF TimerRows
  <2> QED
    BY <1>6, <1>7, <2>1, <2>2, TimerQuiet
<1>8. ASSUME NEW x \in D \cup {w}, NEW c \in Commands
      PROVE  TimerOK(x, c)'
  <2> DEFINE t == Timer(x, c)
  <2>0. x \in Workflows /\ TimerOK(x, c)
    BY <1>1, <1>8 DEF Closing, TimerInv
  <2>1. ~Running(x)'
    BY <1>1, <1>2, <1>8 DEF Closing, Running
  <2>2. /\ t \in DOMAIN tasks' <=> t \in DOMAIN tasks
        /\ t \in DOMAIN tasks =>
             tasks'[t].status = IF Open(t) THEN "dead" ELSE tasks[t].status
    BY <1>3, <1>5, <1>8, <2>0
  <2>3. t \in DOMAIN tasks => tasks'[t].status \notin {"pending", "leased"}
    BY <2>2 DEF Open
  <2>4. /\ history[x] \subseteq history'[x]
        /\ \A e \in history'[x] \ history[x] :
             /\ e.type # "TimerStarted"
             /\ e.type \in TimerOutcomes =>
                  /\ e.cmd \in PendingTimers(x) /\ next_seq[x] <= e.seq /\ e.seq \in Int
                  /\ \A f \in history'[x] \ history[x] :
                       f.type \in TimerOutcomes /\ f.cmd = e.cmd => f = e
    <3>1. CASE x = w
      <4>1. history'[w] = history[w] \cup evs
        BY <1>1 DEF Closing
      <4>2. \A e \in evs : e.type # "TimerStarted"
        BY <1>2 DEF EndEvents, TerminalStatus
      <4>3. \A e \in evs : e.type \in TimerOutcomes =>
              e.type = "TimerCanceled" /\ e.cmd \in PendingTimers(w)
        BY <1>2 DEF EndEvents, TerminalStatus, TimerOutcomes
      <4>4. next_seq[w] \in Nat /\ k \in Nat
        BY <1>0, <1>2 DEF IInv, TypeOK, EndEvents
      <4>5. \A e \in evs : next_seq[w] <= e.seq /\ e.seq \in Int
        BY <1>2, <4>4 DEF EndEvents, Numbered
      <4>6. \A e, f \in evs : e.type = f.type /\ e.cmd = f.cmd => e = f
        BY <1>2 DEF EndEvents
      <4> QED
        BY <3>1, <4>1, <4>2, <4>3, <4>5, <4>6
    <3>2. CASE x # w
      <4> DEFINE e == Plain(next_seq[x], "WorkflowExecutionTerminated")
      <4>1. history'[x] = history[x] \cup {e}
        BY <1>1, <1>8, <3>2 DEF Closing
      <4>2. e.type \notin TimerTypes
        BY DEF Plain, Ev, TimerTypes, TimerOutcomes
      <4> HIDE DEF e
      <4> QED
        BY <4>1, <4>2 DEF TimerTypes
    <3> QED
      BY <3>1, <3>2
  <2>5. c \in PendingTimers(x) => t \in DOMAIN tasks /\ tasks[t].status = "pending"
    BY DEF PendingTimers
  <2>6. TimerBegun(x, c)' <=> TimerBegun(x, c)
    BY <2>4 DEF TimerBegun
  <2>7. \A e \in history'[x] : e.type \in TimerOutcomes /\ e.cmd = c =>
          /\ StartedBefore(history'[x], e, "TimerStarted")
          /\ \A f \in history'[x] : f.type \in TimerOutcomes /\ f.cmd = c => f = e
    <3> SUFFICES ASSUME NEW e \in history'[x], e.type \in TimerOutcomes, e.cmd = c
                 PROVE  /\ StartedBefore(history'[x], e, "TimerStarted")
                        /\ \A f \in history'[x] : f.type \in TimerOutcomes /\ f.cmd = c => f = e
      OBVIOUS
    <3>1. CASE c \in PendingTimers(x)
      <4>1. ~TimerEnded(x, c) /\ TimerBegun(x, c)
        BY <2>0, <2>5, <3>1 DEF TimerOK
      <4>2. e \notin history[x] /\ next_seq[x] <= e.seq /\ e.seq \in Int
        BY <2>4, <4>1 DEF TimerEnded
      <4>3. PICK f \in history[x] : f.type = "TimerStarted" /\ f.cmd = c
        BY <4>1 DEF TimerBegun
      <4>4. f.seq < e.seq
        BY <2>0, <4>2, SeqBelow
      <4>5. StartedBefore(history'[x], e, "TimerStarted")
        BY <2>4, <4>3, <4>4 DEF StartedBefore
      <4>6. \A g \in history'[x] : g.type \in TimerOutcomes /\ g.cmd = c => g = e
        BY <2>4, <4>1, <4>2 DEF TimerEnded
      <4> QED
        BY <4>5, <4>6
    <3>2. CASE c \notin PendingTimers(x)
      <4>1. \A f \in history'[x] : f.type \in TimerOutcomes /\ f.cmd = c => f \in history[x]
        BY <2>4, <3>2
      <4>2. /\ StartedBefore(history[x], e, "TimerStarted")
            /\ \A f \in history[x] : f.type \in TimerOutcomes /\ f.cmd = c => f = e
        BY <2>0, <4>1 DEF TimerOK
      <4> QED
        BY <2>4, <4>1, <4>2 DEF StartedBefore
    <3> QED
      BY <3>1, <3>2
  <2>8. t \in DOMAIN tasks <=> TimerBegun(x, c)
    BY <2>0 DEF TimerOK
  <2> QED
    BY <2>1, <2>2, <2>3, <2>6, <2>7, <2>8 DEF TimerOK
<1>9. \A x \in Workflows, c \in Commands : TimerOK(x, c)'
  BY <1>7, <1>8
<1> QED
  BY <1>4, <1>9 DEF TimerInv, TimerKeys

\* What committed commands do to the history of each execution.
CommandHistory(w, cs, A) ==
  /\ w \in Workflows /\ Running(w) /\ Running(w)' /\ Listed(w, cs, A)
  /\ \A i \in DOMAIN cs : cs[i] \in Command
  /\ history'[w] = history[w] \cup A
  /\ \A x \in Workflows \ {w} :
       \/ history'[x] = history[x] /\ status'[x] = status[x]
       \/ /\ status[x] = "absent" /\ status'[x] = "running" /\ history[x] = {}
          /\ history'[x] = {Plain(1, "WorkflowExecutionStarted")}

LEMMA CommandHistories ==
  ASSUME RecordInv, NEW h \in inflight, CommitCommands(h)
  PROVE  \E A : CommandHistory(h.task.wf, h.replay.commands, A)
<1> DEFINE w == h.task.wf
           cs == h.replay.commands
           new == {Child(w, cs[i].cmd) : i \in Emitted(h, "child")}
           A == {CommandEvent(next_seq[w] + i - 1, cs[i]) : i \in DOMAIN cs}
<1>0. IInv
  BY DEF RecordInv, FamilyInv
<1>1. /\ w \in Workflows /\ Running(w) /\ cs \in Seq(Command) /\ Acceptable(w, cs)
      /\ status'[w] = "running" /\ history'[w] = history[w] \cup A
  BY <1>0, CommandRows
<1>2. \A x \in new : /\ x \in Workflows /\ status[x] = "absent" /\ status'[x] = "running"
                     /\ history'[x] = {Plain(1, "WorkflowExecutionStarted")}
  BY <1>0, CommandRows
<1>3. \A x \in Workflows \ (new \cup {w}) : Kept(x)
  BY <1>0, CommandRows
<1>4. Listed(w, cs, A)
  BY <1>0, <1>1, CommandEvents
<1>6. \A i \in DOMAIN cs : cs[i] \in Command
  BY <1>1
<1>7. Running(h.task.wf)'
  <2>1. h.task.wf' = h.task.wf
    OBVIOUS
  <2> QED
    BY <1>1, <2>1 DEF Running
<1> HIDE DEF new, A
<1>8. \A x \in Workflows \ {w} :
        \/ history'[x] = history[x] /\ status'[x] = status[x]
        \/ /\ status[x] = "absent" /\ status'[x] = "running" /\ history[x] = {}
           /\ history'[x] = {Plain(1, "WorkflowExecutionStarted")}
  BY <1>2, <1>3, AbsentEmpty DEF Kept
<1>9. CommandHistory(w, cs, A)
  BY <1>1, <1>4, <1>6, <1>7, <1>8 DEF CommandHistory
<1> QED
  BY <1>9

\* An entity none of these commands is about.
LEMMA UnlistedEvents ==
  ASSUME NEW w, NEW cs, NEW A, CommandHistory(w, cs, A), NEW c,
         \A i \in DOMAIN cs : cs[i].cmd # c
  PROVE  \A e : e.cmd = c => (e \in history'[w] <=> e \in history[w])
  BY DEF CommandHistory, Listed, Describes

\* Children that are started have no events about entities.
LEMMA StartedEvents ==
  ASSUME NEW w, NEW cs, NEW A, CommandHistory(w, cs, A), NEW x \in Workflows \ {w},
         NEW types, "WorkflowExecutionStarted" \notin types
  PROVE  /\ SameEvents(x, types)
         /\ status'[x] = status[x] \/ (status[x] = "absent" /\ status'[x] = "running")
<1> DEFINE e == Plain(1, "WorkflowExecutionStarted")
<1>1. e.type = "WorkflowExecutionStarted"
  BY DEF Plain, Ev
<1>2. \/ history'[x] = history[x] /\ status'[x] = status[x]
      \/ /\ status[x] = "absent" /\ status'[x] = "running" /\ history[x] = {}
         /\ history'[x] = {e}
  BY DEF CommandHistory
<1> HIDE DEF e
<1> QED
  BY <1>1, <1>2 DEF SameEvents

\* The event types of commands.
LEMMA CommandTypes ==
  ASSUME NEW c \in Command
  PROVE  /\ EventOf[c.kind] \in ScheduleEvents /\ c.cmd \in Nat
         /\ EventOf[c.kind] = "TimerStarted" <=> c.kind = "timer"
         /\ EventOf[c.kind] = "ActivityScheduled" <=> c.kind = "activity"
  BY DEF Command, EventOf, ScheduleEvents

\* A timer command is recorded and gets a row.
LEMMA TimerCommit ==
  ASSUME RecordInv, RecordInv', TimerInv, NEW h \in inflight, CommitCommands(h)
  PROVE  TimerInv'
<1> DEFINE w == h.task.wf
           cs == h.replay.commands
<1>0. IInv /\ IInv'
  BY DEF RecordInv, FamilyInv
<1>1. PICK A : CommandHistory(w, cs, A)
  BY CommandHistories
<1>2. \A t \in TaskId : t.kind = "timer" =>
        /\ t \in DOMAIN tasks' <=>
             t \in DOMAIN tasks \/ \E i \in DOMAIN cs : cs[i].kind = "timer" /\ t = Timer(w, cs[i].cmd)
        /\ t \in DOMAIN tasks => tasks'[t] = tasks[t]
        /\ t \in DOMAIN tasks' \ DOMAIN tasks => tasks'[t].status = "pending"
  <2>1. \A c : Attempt(w, c, 1).kind = "activity"
    BY DEF Attempt
  <2> QED
    BY <1>0, <2>1, CommandTasks
<1> HIDE DEF w, cs
<1>3. \A i \in DOMAIN cs : cs[i] \in Command
  BY <1>1 DEF CommandHistory
<1>4. \A x, c : Timer(x, c).kind = "timer" /\ Timer(x, c).wf = x /\ Timer(x, c).cmd = c
  BY DEF Timer
<1>5. \A x \in Workflows, c \in Commands : Timer(x, c) \in TaskId
  BY DEF Timer, TaskId, Commands
<1>6. TimerKeys'
  <2> SUFFICES ASSUME NEW t \in DOMAIN tasks', t.kind = "timer"
               PROVE  t = Timer(t.wf, t.cmd) /\ t.cmd \in Nat
    BY DEF TimerKeys
  <2>1. t \in TaskId
    BY <1>0 DEF IInv, TypeOK
  <2>2. CASE t \in DOMAIN tasks
    BY <2>2 DEF TimerInv
  <2>3. ASSUME NEW i \in DOMAIN cs, t = Timer(w, cs[i].cmd)
        PROVE  t = Timer(t.wf, t.cmd) /\ t.cmd \in Nat
    BY <1>3, <1>4, <2>3, CommandTypes
  <2> QED
    BY <1>2, <2>1, <2>2, <2>3
<1>7. ASSUME NEW x \in Workflows \ {w}, NEW c \in Commands
      PROVE  TimerOK(x, c)'
  <2>1. "WorkflowExecutionStarted" \notin TimerTypes
    BY DEF TimerTypes, TimerOutcomes
  <2>2. /\ SameEvents(x, TimerTypes)
        /\ status'[x] = status[x] \/ (status[x] = "absent" /\ status'[x] = "running")
    BY <1>1, <1>7, <2>1, StartedEvents
  <2>3. TimerRows(x)
    BY <1>2, <1>4, <1>5, <1>7 DEF TimerRows
  <2> QED
    BY <1>7, <2>2, <2>3, TimerQuiet
<1>8. w \in Workflows /\ Running(w) /\ Running(w)' /\ history'[w] = history[w] \cup A
  BY <1>1 DEF CommandHistory
<1>9. ASSUME NEW c \in Commands, \A i \in DOMAIN cs : cs[i].cmd # c
      PROVE  TimerOK(w, c)'
  <2>1. \A e : e.cmd = c => (e \in history'[w] <=> e \in history[w])
    BY <1>1, <1>9, UnlistedEvents
  <2>2. /\ Timer(w, c) \in DOMAIN tasks' <=> Timer(w, c) \in DOMAIN tasks
        /\ Timer(w, c) \in DOMAIN tasks => tasks'[Timer(w, c)] = tasks[Timer(w, c)]
    BY <1>2, <1>4, <1>5, <1>8, <1>9
  <2>3. TimerOK(w, c)
    BY <1>8 DEF TimerInv
  <2>4. /\ TimerBegun(w, c)' <=> TimerBegun(w, c)
        /\ TimerEnded(w, c)' <=> TimerEnded(w, c)
    BY <2>1 DEF TimerBegun, TimerEnded
  <2>5. \A f \in history'[w] : f.type \in TimerOutcomes /\ f.cmd = c =>
          /\ StartedBefore(history'[w], f, "TimerStarted")
          /\ \A g \in history'[w] : g.type \in TimerOutcomes /\ g.cmd = c => g = f
    BY <2>1, <2>3 DEF TimerOK, StartedBefore
  <2> QED
    BY <1>8, <2>2, <2>3, <2>4, <2>5 DEF TimerOK
<1>10. ASSUME NEW c \in Commands, NEW i \in DOMAIN cs, cs[i].cmd = c
       PROVE  TimerOK(w, c)'
  <2>1. PICK e \in A : Describes(e, cs[i])
    BY <1>1 DEF CommandHistory, Listed
  <2>2. \A f \in Scheduled(history[w]) : f.cmd # c
    BY <1>1, <1>10, <2>1 DEF CommandHistory, Listed, Describes
  <2>3. \A f \in A : f.cmd = c => f = e
    BY <1>1, <1>10, <2>1 DEF CommandHistory, Listed, Describes
  <2>4. ~TimerBegun(w, c)
    BY <2>2 DEF TimerBegun, Scheduled, ScheduleEvents
  <2>5. TimerOK(w, c)
    BY <1>8 DEF TimerInv
  <2>6. Timer(w, c) \notin DOMAIN tasks /\ ~TimerEnded(w, c)
    BY <2>4, <2>5 DEF TimerOK, TimerBegun, TimerEnded, StartedBefore
  <2>7. e.type \in ScheduleEvents /\ (e.type = "TimerStarted" <=> cs[i].kind = "timer")
    BY <1>3, <2>1, CommandTypes DEF Describes
  <2>8. e.type \notin TimerOutcomes
    BY <2>7 DEF ScheduleEvents, TimerOutcomes
  <2>9. ~TimerEnded(w, c)'
    BY <1>8, <2>3, <2>6, <2>8 DEF TimerEnded
  <2>10. TimerBegun(w, c)' <=> cs[i].kind = "timer"
    BY <1>8, <1>10, <2>1, <2>3, <2>4, <2>7 DEF TimerBegun, Describes
  <2>11. \A j \in DOMAIN cs : cs[j].cmd = c => (cs[j].kind = "timer" <=> cs[i].kind = "timer")
    <3> SUFFICES ASSUME NEW j \in DOMAIN cs, cs[j].cmd = c
                 PROVE  cs[j].kind = "timer" <=> cs[i].kind = "timer"
      OBVIOUS
    <3>1. PICK f \in A : Describes(f, cs[j])
      BY <1>1 DEF CommandHistory, Listed
    <3>2. f = e
      BY <2>3, <3>1 DEF Describes
    <3>3. f.type = "TimerStarted" <=> cs[j].kind = "timer"
      BY <1>3, <3>1, CommandTypes DEF Describes
    <3> QED
      BY <2>7, <3>2, <3>3
  <2>12. /\ Timer(w, c) \in DOMAIN tasks' <=> cs[i].kind = "timer"
         /\ Timer(w, c) \in DOMAIN tasks' => tasks'[Timer(w, c)].status = "pending"
    BY <1>2, <1>4, <1>5, <1>8, <1>10, <2>6, <2>11
  <2>13. \A f \in history'[w] : ~(f.type \in TimerOutcomes /\ f.cmd = c)
    BY <2>9 DEF TimerEnded
  <2> QED
    BY <2>9, <2>10, <2>12, <2>13 DEF TimerOK
<1>11. \A x \in Workflows, c \in Commands : TimerOK(x, c)'
  BY <1>7, <1>9, <1>10
<1> QED
  BY <1>6, <1>11 DEF TimerInv, TimerKeys

\* Events that are not about timers.
LEMMA TimerOther ==
  ASSUME RecordInv, RecordInv', TimerInv, NEW w \in Workflows, NEW type, NEW cmd, NEW tag,
         NEW final \in BOOLEAN, Record(w, type, cmd, tag, final), type \notin TimerTypes,
         RowsKept({"timer"}),
         \A x \in Workflows : status'[x] = status[x]
                              \/ (status[x] = "absent" /\ status'[x] = "running")
  PROVE  TimerInv'
<1>1. IInv
  BY DEF RecordInv, FamilyInv
<1>2. \A x \in Workflows : SameEvents(x, TimerTypes)
  BY <1>1, OtherEvent
<1> QED
  BY <1>2, TimerStill

\* Fewer kinds of rows.
LEMMA KeptLess == RowsKept({"activity", "timer"}) => RowsKept({"activity"}) /\ RowsKept({"timer"})
  BY DEF RowsKept

\* What clients record, and what it does to the status.
LEMMA ClientEvent ==
  ASSUME IInv, NEW w \in Workflows, StartWorkflow(w) \/ Noted(w) \/ RequestCancellation(w)
  PROVE  /\ \E type \in {"WorkflowExecutionStarted", "WorkflowExecutionPaused",
                         "WorkflowExecutionResumed", "SignalReceived",
                         "WorkflowUpdateReceived", "WorkflowCancellationRequested"} :
              \E tag : \E final \in BOOLEAN : Record(w, type, NoCommand, tag, final)
         /\ \A x \in Workflows : status'[x] = status[x]
                                 \/ (status[x] = "absent" /\ status'[x] = "running")
<1>1. \E type \in {"WorkflowExecutionStarted", "WorkflowExecutionPaused",
                   "WorkflowExecutionResumed", "SignalReceived",
                   "WorkflowUpdateReceived", "WorkflowCancellationRequested"} :
        \E tag : Record(w, type, NoCommand, tag, TRUE)
  BY DEF StartWorkflow, Noted, RequestCancellation, PauseWorkflow, ResumeWorkflow, SendSignal,
     SendUpdate
<1>2. CASE StartWorkflow(w)
  <2>1. status[w] = "absent" /\ status' = [status EXCEPT ![w] = "running"]
    BY <1>2 DEF StartWorkflow
  <2> QED
    BY <1>1, <2>1 DEF IInv, TypeOK
<1>3. CASE Noted(w) \/ RequestCancellation(w)
  <2>1. status' = status
    BY <1>3 DEF Noted, RequestCancellation, PauseWorkflow, ResumeWorkflow, SendSignal, SendUpdate
  <2> QED
    BY <1>1, <2>1
<1> QED
  BY <1>2, <1>3

\* Every step keeps the timers right.
LEMMA TimerStep ==
  ASSUME RecordInv, TimerInv, [Next]_vars
  PROVE  TimerInv'
<1>0. IInv /\ RecordInv'
  BY RecordStep DEF RecordInv, FamilyInv
<1>1. CASE Still
  <2>1. UNCHANGED <<status, history>> /\ RowsKept({"timer"})
    BY <1>1, KeptLess DEF Still
  <2> QED
    BY <1>0, <2>1, TimerStill DEF SameEvents
<1>2. ASSUME NEW w \in Workflows, StartWorkflow(w) \/ Noted(w) \/ RequestCancellation(w)
      PROVE  TimerInv'
  <2>1. RowsKept({"timer"})
    BY <1>0, <1>2, ClientRows, ActivityRows, KeptLess
  <2>2. PICK type \in {"WorkflowExecutionStarted", "WorkflowExecutionPaused",
                       "WorkflowExecutionResumed", "SignalReceived",
                       "WorkflowUpdateReceived", "WorkflowCancellationRequested"} :
          \E tag : \E final \in BOOLEAN : Record(w, type, NoCommand, tag, final)
    BY <1>0, <1>2, ClientEvent
  <2>3. type \notin TimerTypes
    BY DEF TimerTypes, TimerOutcomes
  <2>4. \A x \in Workflows : status'[x] = status[x]
                             \/ (status[x] = "absent" /\ status'[x] = "running")
    BY <1>0, <1>2, ClientEvent
  <2> QED
    BY <1>0, <2>1, <2>2, <2>3, <2>4, TimerOther
<1>3. ASSUME NEW c \in claims, LeaseActivity(c)
      PROVE  TimerInv'
  <2>1. c.task.wf \in Workflows /\ status' = status
    BY <1>0, <1>3 DEF IInv, TypeOK, TaskId, LeaseActivity
  <2>2. \E final \in BOOLEAN : Record(c.task.wf, "ActivityStarted", c.task.cmd, NoTag, final)
    BY <1>3 DEF LeaseActivity
  <2>3. "ActivityStarted" \notin TimerTypes
    BY DEF TimerTypes, TimerOutcomes
  <2>4. RowsKept({"timer"})
    BY <1>0, <1>3, ActivityRows
  <2> QED
    BY <1>0, <2>1, <2>2, <2>3, <2>4, TimerOther
<1>4. ASSUME NEW t, NEW type, NEW final, NEW s, NEW u, Reported(t, type, final, s, u)
      PROVE  TimerInv'
  <2>1. /\ t.wf \in Workflows /\ type \notin TimerTypes /\ final \in BOOLEAN
        /\ status' = status
    BY <1>0, <1>4 DEF Reported, IInv, TypeOK, TaskId, ActivityOutcomes, TimerTypes, TimerOutcomes
  <2>2. Record(t.wf, type, t.cmd, NoTag, final)
    BY <1>4 DEF Reported
  <2>3. RowsKept({"timer"})
    BY <1>0, <1>4, ActivityRows
  <2> QED
    BY <1>0, <2>1, <2>2, <2>3, TimerOther
<1> QED
  BY <1>0, <1>1, <1>2, <1>3, <1>4, StepCases, TimerFire, TimerClose, TimerCommit

\* Timers are right in every reachable state.
LEMMA Timed == Spec => [](RecordInv /\ TimerInv)
<1>1. Init => TimerInv
  <2> SUFFICES ASSUME Init PROVE TimerInv
    OBVIOUS
  <2>1. DOMAIN tasks = {} /\ \A x \in Workflows : history[x] = {}
    BY DEF Init
  <2> QED
    BY <2>1 DEF TimerInv, TimerOK, TimerBegun, TimerEnded
<1>2. RecordInv /\ TimerInv /\ [Next]_vars => TimerInv'
  BY TimerStep
<1> QED
  BY <1>1, <1>2, RecordInit, RecordStep, PTL DEF Spec

\* No timer of a running execution is lost: it is pending until it has fired,
\* and it fires once, although fire_due_timer chooses it without a lock on the
\* execution.
THEOREM TimersKept == Spec => []OneTimer
<1>1. RecordInv /\ TimerInv => OneTimer
  <2> SUFFICES ASSUME RecordInv, TimerInv, NEW w \in Workflows, Running(w), NEW s \in history[w],
                      s.type = "TimerStarted"
               PROVE  tasks[Timer(w, s.cmd)].status =
                        IF \E e \in history[w] : e.type \in TimerOutcomes /\ e.cmd = s.cmd
                        THEN "completed" ELSE "pending"
    BY DEF OneTimer
  <2>1. s.cmd \in Commands
    BY DEF RecordInv, FamilyInv, IInv, TypeOK, Event, Commands
  <2>2. TimerOK(w, s.cmd) /\ TimerBegun(w, s.cmd)
    BY <2>1 DEF TimerInv, TimerBegun
  <2> QED
    BY <2>2 DEF TimerOK, TimerEnded
<1> QED
  BY <1>1, Timed, PTL

(***************************************************************************)
(* Activities.                                                             *)
(***************************************************************************)

ActivityTypes == ActivityOutcomes \cup {"ActivityScheduled", "ActivityStarted"}

\* Nothing is recorded about the activity of command c of x.
ActivityEvents(x, c) ==
  \A e : e.type \in ActivityTypes /\ e.cmd = c => (e \in history'[x] <=> e \in history[x])

\* Its rows are the same, unless they are closed because x ends.
ActivityClosed(x, c) ==
  \A t \in TaskId : t.wf = x /\ t.kind = "activity" /\ t.cmd = c =>
    /\ t \in DOMAIN tasks' <=> t \in DOMAIN tasks
    /\ t \in DOMAIN tasks =>
         /\ tasks'[t].token = tasks[t].token
         /\ \/ tasks'[t].status = tasks[t].status
            \/ tasks'[t].status = "dead" /\ (canceled'[x] \/ ~Running(x)')

\* An execution does not run again, and stays canceled.
Onward(x) ==
  /\ Running(x)' => Running(x) \/ status[x] = "absent"
  /\ canceled[x] => canceled'[x]

LEMMA ActivityLess ==
  ASSUME RecordInv, IInv', NEW x \in Workflows, NEW c, ActivityOK(x, c),
         ActivityEvents(x, c), ActivityClosed(x, c), Onward(x)
  PROVE  ActivityOK(x, c)'
<1>1. /\ Asked(x, c)' <=> Asked(x, c)
      /\ Decided(x, c)' <=> Decided(x, c)
      /\ Starts(x, c)' = Starts(x, c)
  BY DEF ActivityEvents, ActivityTypes, Asked, Decided, Decides, Starts, ActivityOutcomes
<1>2. DOMAIN tasks \subseteq TaskId /\ DOMAIN tasks' \subseteq TaskId
  BY DEF RecordInv, FamilyInv, IInv, TypeOK
<1>3. Attempts(x, c)' = Attempts(x, c)
  BY <1>2 DEF Attempts, ActivityClosed
<1>4. \A t \in Attempts(x, c) :
        /\ t \in DOMAIN tasks /\ tasks'[t].token = tasks[t].token
        /\ \/ tasks'[t].status = tasks[t].status
           \/ tasks'[t].status = "dead" /\ (canceled'[x] \/ ~Running(x)')
  BY <1>2 DEF Attempts, ActivityClosed
<1>5. Tried(x, c)' = Tried(x, c)
  BY <1>3, <1>4 DEF Tried
<1>6. \A t \in Attempts(x, c) :
        /\ Asked(x, c) /\ t.n \in 1 .. MaxAttempts
        /\ tasks[t].status = "pending" => tasks[t].token = 0
        /\ Open(t) => ~Decided(x, c) /\ \A u \in Attempts(x, c) : u.n <= t.n
  BY DEF ActivityOK
<1>7. \A t \in Attempts(x, c) :
        /\ Open(t)' => Open(t)
        /\ tasks'[t].status = "pending" => tasks[t].status = "pending"
        /\ Running(x)' /\ ~canceled'[x] /\ Open(t) => Open(t)'
  BY <1>4 DEF Open
<1>8. \A t \in Attempts(x, c)' :
        /\ Asked(x, c)' /\ t.n \in 1 .. MaxAttempts
        /\ tasks'[t].status = "pending" => tasks'[t].token = 0
        /\ Open(t)' => ~Decided(x, c)' /\ \A u \in Attempts(x, c)' : u.n <= t.n
  BY <1>1, <1>3, <1>4, <1>6, <1>7
<1>9. Asked(x, c)' /\ ~Decided(x, c)' /\ Running(x)' /\ ~canceled'[x] =>
        \E t \in Attempts(x, c)' : Open(t)'
  <2> SUFFICES ASSUME Asked(x, c)', ~Decided(x, c)', Running(x)', ~canceled'[x]
               PROVE  \E t \in Attempts(x, c)' : Open(t)'
    OBVIOUS
  <2>1. history[x] # {}
    BY <1>1 DEF Asked
  <2>2. Running(x) /\ ~canceled[x]
    BY <2>1, AbsentEmpty DEF Onward
  <2>3. \E t \in Attempts(x, c) : Open(t)
    BY <1>1, <2>2 DEF ActivityOK
  <2> QED
    BY <1>3, <1>7, <2>3
<1>10. \A e \in history'[x] : e.type \in ActivityOutcomes /\ e.cmd = c =>
         /\ StartedBefore(history'[x], e, "ActivityScheduled")
         /\ Decides(e) =>
              \A f \in history'[x] : f.type \in ActivityOutcomes /\ f.cmd = c => f.seq <= e.seq
  <2>1. \A e : e.type \in ActivityOutcomes \/ e.type = "ActivityScheduled" => e.type \in ActivityTypes
    BY DEF ActivityTypes
  <2>2. \A e \in history[x] : e.type \in ActivityOutcomes /\ e.cmd = c =>
          /\ StartedBefore(history[x], e, "ActivityScheduled")
          /\ Decides(e) =>
               \A f \in history[x] : f.type \in ActivityOutcomes /\ f.cmd = c => f.seq <= e.seq
    BY DEF ActivityOK
  <2> QED
    BY <2>1, <2>2 DEF ActivityEvents, StartedBefore
<1>11. Cardinality(Starts(x, c)') <= Cardinality(Tried(x, c)')
  BY <1>1, <1>5 DEF ActivityOK
<1> QED
  BY <1>8, <1>9, <1>10, <1>11 DEF ActivityOK

\* Steps that leave activities alone.
LEMMA ActivityStill ==
  ASSUME RecordInv, IInv', ActivityInv, RowsKept({"activity"}),
         \A x \in Workflows : SameEvents(x, ActivityTypes) /\ Onward(x)
  PROVE  \A x \in Workflows, c \in Commands : ActivityOK(x, c)'
<1> SUFFICES ASSUME NEW x \in Workflows, NEW c \in Commands
             PROVE  ActivityOK(x, c)'
  OBVIOUS
<1>1. ActivityEvents(x, c) /\ ActivityOK(x, c)
  BY DEF ActivityEvents, SameEvents, ActivityInv
<1>2. ActivityClosed(x, c)
  BY DEF RowsKept, ActivityClosed
<1> QED
  BY <1>1, <1>2, ActivityLess

\* The first m numbers.
LEMMA UpTo ==
  ASSUME NEW m \in Nat
  PROVE  IsFiniteSet(1 .. m) /\ Cardinality(1 .. m) = m
<1>1. IsFiniteSet(1 .. m) /\ Cardinality(1 .. m) = IF 1 > m THEN 0 ELSE m - 1 + 1
  BY FS_Interval
<1> QED
  BY <1>1

\* A history is finite, and as long as its numbers say.
LEMMA FiniteHistory ==
  ASSUME RecordInv, NEW w \in Workflows
  PROVE  IsFiniteSet(history[w]) /\ Cardinality(history[w]) = next_seq[w] - 1
<1> DEFINE H == history[w]
           m == next_seq[w] - 1
           f == [e \in H |-> e.seq]
<1>1. next_seq[w] \in Nat \ {0} /\ m \in Nat
  BY DEF RecordInv, FamilyInv, IInv, TypeOK
<1>2. Numbered(H, 1, next_seq[w])
  BY DEF RecordInv, RecordOK
<1>3. /\ \A e \in H : f[e] \in 1 .. m
      /\ \A i \in 1 .. m : \E e \in H : f[e] = i
      /\ \A e, g \in H : f[e] = f[g] => e = g
  BY <1>2 DEF Numbered
<1>4. f \in Injection(H, 1 .. m) /\ f \in Surjection(H, 1 .. m)
  <2>1. f \in [H -> 1 .. m] /\ DOMAIN f = H
    BY <1>3
  <2> HIDE DEF f, m, H
  <2> QED
    BY <1>3, <2>1 DEF Injection, IsInjective, Surjection
<1>5. IsFiniteSet(1 .. m) /\ Cardinality(1 .. m) = m
  BY <1>1, UpTo
<1> HIDE DEF f, m, H
<1>6. IsFiniteSet(H) /\ Cardinality(H) = m
  BY <1>4, <1>5, FS_Injection
<1> QED
  BY <1>6 DEF H, m

\* The events and rows of an activity are finite sets.
LEMMA FiniteActivity ==
  ASSUME RecordInv, NEW w \in Workflows, NEW c
  PROVE  /\ IsFiniteSet(Starts(w, c)) /\ Cardinality(Starts(w, c)) \in Nat
         /\ IsFiniteSet(Tried(w, c)) /\ Cardinality(Tried(w, c)) \in Nat
<1>1. Starts(w, c) \subseteq history[w] /\ Tried(w, c) \subseteq DOMAIN tasks
  BY DEF Starts, Tried, Attempts
<1>2. IsFiniteSet(history[w]) /\ IsFiniteSet(DOMAIN tasks)
  BY FiniteHistory DEF RecordInv, FamilyInv, IInv
<1>3. IsFiniteSet(Starts(w, c)) /\ IsFiniteSet(Tried(w, c))
  BY <1>1, <1>2, FS_Subset
<1> QED
  BY <1>3, FS_CardinalityType

\* The effect of leasing an activity.
Leased(t, e) ==
  /\ t \in DOMAIN tasks /\ t.kind = "activity" /\ tasks[t].status = "pending"
  /\ t.wf \in Workflows /\ t.cmd \in Commands /\ Running(t.wf) /\ ~canceled[t.wf]
  /\ OneMore(t.wf, "ActivityStarted", t.cmd, e)
  /\ DOMAIN tasks' = DOMAIN tasks
  /\ tasks'[t].status = "leased" /\ tasks'[t].token = tasks[t].token + 1
  /\ \A u \in DOMAIN tasks \ {t} : tasks'[u] = tasks[u]
  /\ status' = status /\ canceled' = canceled /\ claims' \subseteq claims

LEMMA LeaseEffect ==
  ASSUME IInv, StartsOK, NEW c \in claims, LeaseActivity(c)
  PROVE  \E e : Leased(c.task, e)
<1> DEFINE t == c.task
<1>1. t \in DOMAIN tasks /\ t \in TaskId /\ t.kind = "activity" /\ c.op = "lease"
  BY DEF IInv, ClaimsOK, TypeOK, LeaseActivity, Lease
<1>2. tasks[t].status = "pending" /\ ~canceled[t.wf]
  BY <1>1 DEF IInv, ClaimsOK, StartsOK
<1>3. t.wf \in Workflows /\ t.cmd \in Commands
  BY <1>1 DEF TaskId, Commands
<1>4. \E final \in BOOLEAN : Record(t.wf, "ActivityStarted", t.cmd, NoTag, final)
  BY DEF LeaseActivity
<1>5. PICK e : OneMore(t.wf, "ActivityStarted", t.cmd, e)
  BY <1>3, <1>4, RecordOne
<1>6. PICK r : r.status = "leased" /\ r.token = tasks[t].token + 1 /\ tasks' = [tasks EXCEPT ![t] = r]
  BY DEF LeaseActivity, Lease, FreshToken
<1>7. DOMAIN tasks' = DOMAIN tasks /\ tasks'[t] = r /\ \A u \in DOMAIN tasks \ {t} : tasks'[u] = tasks[u]
  BY <1>1, <1>6 DEF IInv, TypeOK
<1>8. Leased(t, e)
  BY <1>1, <1>2, <1>3, <1>5, <1>6, <1>7 DEF Leased, LeaseActivity, Lease
<1> QED
  BY <1>8

\* The attempt that is started was the open one, and had not been leased before.
LEMMA ActivityLease ==
  ASSUME RecordInv, RecordInv', ActivityInv, NEW t, NEW e, Leased(t, e)
  PROVE  \A x \in Workflows, c \in Commands : ActivityOK(x, c)'
<1> DEFINE w == t.wf
           d == t.cmd
<1>0. IInv' /\ DOMAIN tasks \subseteq TaskId /\ w \in Workflows /\ d \in Commands
  BY DEF RecordInv, FamilyInv, IInv, TypeOK, Leased
<1>1. ASSUME NEW x \in Workflows, NEW c \in Commands, x # w \/ c # d
      PROVE  ActivityOK(x, c)'
  <2>1. ActivityEvents(x, c) /\ ActivityOK(x, c)
    BY <1>1 DEF Leased, OneMore, ActivityEvents, ActivityInv
  <2>2. ActivityClosed(x, c)
    BY <1>1 DEF Leased, ActivityClosed
  <2>3. Onward(x)
    BY DEF Leased, Onward, Running
  <2> QED
    BY <1>0, <2>1, <2>2, <2>3, ActivityLess
<1>2. /\ history'[w] = history[w] \cup {e}
      /\ e.seq = next_seq[w] /\ e.type = "ActivityStarted" /\ e.cmd = d
  BY DEF Leased, OneMore
<1>3. /\ Asked(w, d)' <=> Asked(w, d)
      /\ Decided(w, d)' <=> Decided(w, d)
      /\ \A f : f.type \in ActivityOutcomes \/ f.type = "ActivityScheduled" =>
           (f \in history'[w] <=> f \in history[w])
  BY <1>2 DEF Asked, Decided, Decides, ActivityOutcomes
<1>4. Starts(w, d)' = Starts(w, d) \cup {e}
  BY <1>2 DEF Starts
<1>5. Attempts(w, d)' = Attempts(w, d) /\ t \in Attempts(w, d)
  BY DEF Attempts, Leased
<1>6. ActivityOK(w, d)
  BY <1>0 DEF ActivityInv
<1>7. tasks[t].token = 0 /\ Open(t)
  BY <1>5, <1>6 DEF ActivityOK, Leased, Open
<1>8. Tried(w, d)' = Tried(w, d) \cup {t} /\ t \notin Tried(w, d)
  BY <1>5, <1>7 DEF Tried, Leased, Attempts
<1>9. \A u \in Attempts(w, d) :
        /\ Open(u)' <=> Open(u)
        /\ tasks'[u].status = "pending" => u # t /\ tasks'[u] = tasks[u]
  BY <1>7 DEF Open, Leased, Attempts
<1>10. Running(w)' /\ Running(w) /\ canceled'[w] = canceled[w]
  BY DEF Leased, Running
<1> HIDE DEF w, d
<1>11. \A u \in Attempts(w, d)' :
         /\ Asked(w, d)' /\ u.n \in 1 .. MaxAttempts
         /\ tasks'[u].status = "pending" => tasks'[u].token = 0
         /\ Open(u)' => ~Decided(w, d)' /\ \A v \in Attempts(w, d)' : v.n <= u.n
  BY <1>3, <1>5, <1>6, <1>9 DEF ActivityOK
<1>12. Open(t)' /\ t \in Attempts(w, d)'
  BY <1>5, <1>7, <1>9
<1>13. \A g \in history'[w] : g.type \in ActivityOutcomes /\ g.cmd = d =>
         /\ StartedBefore(history'[w], g, "ActivityScheduled")
         /\ Decides(g) =>
              \A f \in history'[w] : f.type \in ActivityOutcomes /\ f.cmd = d => f.seq <= g.seq
  BY <1>3, <1>6 DEF ActivityOK, StartedBefore
<1>14. Cardinality(Starts(w, d)') <= Cardinality(Tried(w, d)')
  <2>1. /\ IsFiniteSet(Starts(w, d)) /\ Cardinality(Starts(w, d)) \in Nat
        /\ IsFiniteSet(Tried(w, d)) /\ Cardinality(Tried(w, d)) \in Nat
    BY <1>0, FiniteActivity
  <2>2. Cardinality(Tried(w, d) \cup {t}) = Cardinality(Tried(w, d)) + 1
    BY <1>8, <2>1, FS_AddElement
  <2>3. \/ Cardinality(Starts(w, d) \cup {e}) = Cardinality(Starts(w, d)) + 1
        \/ Cardinality(Starts(w, d) \cup {e}) = Cardinality(Starts(w, d))
    BY <2>1, FS_AddElement
  <2>4. Cardinality(Starts(w, d)) <= Cardinality(Tried(w, d))
    BY <1>6 DEF ActivityOK
  <2> QED
    BY <1>4, <1>8, <2>1, <2>2, <2>3, <2>4
<1>15. ActivityOK(w, d)'
  BY <1>11, <1>12, <1>13, <1>14 DEF ActivityOK
<1> QED
  BY <1>1, <1>15 DEF w, d

\* An activity's attempts are told apart by their numbers.
LEMMA SameAttempt ==
  ASSUME IInv, NEW w, NEW c, NEW t \in Attempts(w, c), NEW u \in Attempts(w, c), t.n = u.n
  PROVE  t = u
<1>1. t \in TaskId /\ u \in TaskId
  BY DEF IInv, TypeOK, Attempts
<1>2. t.wf = u.wf /\ t.kind = u.kind /\ t.cmd = u.cmd
  BY DEF Attempts
<1> QED
  BY <1>1, <1>2 DEF TaskId

\* Only one attempt is open.
LEMMA OnlyOpen ==
  ASSUME IInv, NEW w, NEW c, ActivityOK(w, c), NEW t \in Attempts(w, c), Open(t),
         NEW u \in Attempts(w, c), Open(u)
  PROVE  t = u
<1>1. t.n <= u.n /\ u.n <= t.n /\ t.n \in Nat /\ u.n \in Nat
  BY DEF ActivityOK, IInv, TypeOK, Attempts, TaskId
<1> QED
  BY <1>1, SameAttempt

\* An attempt ends: it decides the activity, or the next one is scheduled.
LEMMA ActivityReport ==
  ASSUME RecordInv, RecordInv', ActivityInv,
         NEW t, NEW type, NEW final, NEW s, NEW u, Reported(t, type, final, s, u)
  PROVE  \A x \in Workflows, c \in Commands : ActivityOK(x, c)'
<1> DEFINE w == t.wf
           d == t.cmd
<1>0. IInv /\ IInv' /\ DOMAIN tasks \subseteq TaskId /\ t \in TaskId
  BY DEF RecordInv, FamilyInv, IInv, TypeOK, Reported
<1>1. w \in Workflows /\ d \in Commands /\ t.n \in Nat
  BY <1>0 DEF TaskId, Commands
<1>2. PICK e : OneMore(w, type, d, e) /\ e.final = final
  <2>1. Record(t.wf, type, t.cmd, NoTag, final) /\ final \in BOOLEAN
    BY DEF Reported
  <2> QED
    BY <1>0, <1>1, <2>1, RecordOne
<1>3. Queued({t}, s, {u})
  BY <1>0, QueueRows DEF Reported
<1>4. \/ final /\ u.kind = "workflow"
      \/ /\ ~final /\ type # "ActivityCompleted" /\ t.n < MaxAttempts
         /\ u.kind = "activity" /\ u.wf = w /\ u.cmd = d /\ u.n = t.n + 1
  BY DEF Reported, WakeUp, Attempt
<1>5. ASSUME NEW x \in Workflows, NEW c \in Commands, x # w \/ c # d
      PROVE  ActivityOK(x, c)'
  <2>1. ActivityEvents(x, c) /\ ActivityOK(x, c)
    BY <1>2, <1>5 DEF OneMore, ActivityEvents, ActivityInv
  <2>2. ActivityClosed(x, c)
    <3> SUFFICES ASSUME NEW v \in TaskId, v.wf = x, v.kind = "activity", v.cmd = c
                 PROVE  /\ v \in DOMAIN tasks' <=> v \in DOMAIN tasks
                        /\ v \in DOMAIN tasks => tasks'[v] = tasks[v]
      BY DEF ActivityClosed
    <3>1. v # t /\ v # u
      BY <1>4, <1>5
    <3> QED
      BY <1>3, <3>1 DEF Queued
  <2>3. Onward(x)
    BY DEF Reported, Onward, Running
  <2> QED
    BY <1>0, <2>1, <2>2, <2>3, ActivityLess
<1>6. /\ history'[w] = history[w] \cup {e}
      /\ e.seq = next_seq[w] /\ e.type = type /\ e.cmd = d /\ type \in ActivityOutcomes
  BY <1>2 DEF OneMore, Reported
<1>7. t \in Attempts(w, d) /\ Open(t) /\ Running(w) /\ Running(w)' /\ final \in BOOLEAN
  BY DEF Attempts, Reported, Running
<1>8. ActivityOK(w, d)
  BY <1>1 DEF ActivityInv
<1>9. Asked(w, d) /\ ~Decided(w, d) /\ \A v \in Attempts(w, d) : v.n <= t.n
  BY <1>7, <1>8 DEF ActivityOK
<1>10. Decides(e) <=> final
  BY <1>2, <1>4, <1>6 DEF Decides
<1>11. Asked(w, d)' /\ (Decided(w, d)' <=> final) /\ Starts(w, d)' = Starts(w, d)
  BY <1>6, <1>9, <1>10 DEF Asked, Decided, Starts, ActivityOutcomes
<1>12. s \in {"completed", "dead"} /\ ~Open(t)' /\ tasks'[t].token = tasks[t].token
  BY <1>3, <1>7 DEF Queued, Open, Attempts, Reported
<1>13. \A v \in Attempts(w, d) : v \in DOMAIN tasks' /\ (v # t => tasks'[v] = tasks[v])
  BY <1>3 DEF Attempts, Queued
<1>14. \A v \in Attempts(w, d) : ~Open(v)' /\ tasks'[v].token = tasks[v].token
  <2> SUFFICES ASSUME NEW v \in Attempts(w, d)
               PROVE  ~Open(v)' /\ tasks'[v].token = tasks[v].token
    OBVIOUS
  <2>1. CASE v = t
    BY <1>12, <2>1
  <2>2. CASE v # t
    BY <1>0, <1>7, <1>8, <1>13, <2>2, OnlyOpen DEF Open
  <2> QED
    BY <2>1, <2>2
<1>15. \A g \in history'[w] : g.type \in ActivityOutcomes /\ g.cmd = d =>
         /\ StartedBefore(history'[w], g, "ActivityScheduled")
         /\ Decides(g) =>
              \A f \in history'[w] : f.type \in ActivityOutcomes /\ f.cmd = d => f.seq <= g.seq
  <2> HIDE DEF w, d
  <2>1. /\ next_seq[w] \in Nat
        /\ \A f \in history[w] : f.seq \in Nat /\ f.seq < next_seq[w]
    BY <1>1, SeqBelow
  <2>2. StartedBefore(history'[w], e, "ActivityScheduled")
    BY <1>6, <1>9, <2>1 DEF Asked, StartedBefore
  <2>3. \A f \in history'[w] : f.seq <= e.seq
    BY <1>6, <2>1
  <2>4. \A g \in history[w] : g.type \in ActivityOutcomes /\ g.cmd = d =>
          StartedBefore(history[w], g, "ActivityScheduled") /\ ~Decides(g)
    BY <1>8, <1>9 DEF ActivityOK, Decided
  <2>5. \A g \in history[w] : StartedBefore(history[w], g, "ActivityScheduled") =>
          StartedBefore(history'[w], g, "ActivityScheduled")
    BY <1>6 DEF StartedBefore
  <2> QED
    BY <1>6, <2>2, <2>3, <2>4, <2>5
<1>16. \A v \in Attempts(w, d) : v.n \in 1 .. MaxAttempts /\ v \in TaskId
  BY <1>0, <1>8 DEF ActivityOK, Attempts
<1>17. Cardinality(Starts(w, d)) <= Cardinality(Tried(w, d))
  BY <1>8 DEF ActivityOK
<1>18. ASSUME final PROVE ActivityOK(w, d)'
  <2>1. Attempts(w, d)' = Attempts(w, d)
    BY <1>3, <1>4, <1>18 DEF Attempts, Queued
  <2>2. Tried(w, d)' = Tried(w, d)
    BY <1>14, <2>1 DEF Tried
  <2> HIDE DEF w, d
  <2>3. \A v \in Attempts(w, d)' : ~Open(v)' /\ tasks'[v].status # "pending"
    BY <1>14, <2>1 DEF Open
  <2> QED
    BY <1>11, <1>15, <1>16, <1>17, <1>18, <2>1, <2>2, <2>3 DEF ActivityOK
<1>19. ASSUME ~final PROVE ActivityOK(w, d)'
  <2>1. u \notin Attempts(w, d)
    BY <1>1, <1>4, <1>9, <1>19
  <2>2. /\ u \notin DOMAIN tasks /\ u \in DOMAIN tasks'
        /\ tasks'[u].status = "pending" /\ tasks'[u].token = 0 /\ Open(u)'
    BY <1>3, <1>4, <1>19, <2>1 DEF Queued, Attempts, Open
  <2>3. Attempts(w, d)' = Attempts(w, d) \cup {u}
    BY <1>3, <1>4, <1>19 DEF Attempts, Queued
  <2>4. Tried(w, d)' = Tried(w, d)
    BY <1>14, <2>2, <2>3 DEF Tried
  <2>5. u.n \in 1 .. MaxAttempts /\ \A v \in Attempts(w, d)' : v.n <= u.n
    BY <1>1, <1>4, <1>9, <1>16, <1>19, <2>3, EngineAssumption
  <2> HIDE DEF w, d
  <2>6. \A v \in Attempts(w, d)' :
          /\ v.n \in 1 .. MaxAttempts
          /\ tasks'[v].status = "pending" => tasks'[v].token = 0
          /\ Open(v)' => v = u
    BY <1>14, <1>16, <2>2, <2>3, <2>5 DEF Open
  <2>7. u \in Attempts(w, d)' /\ ~Decided(w, d)'
    BY <1>11, <1>19, <2>3
  <2> QED
    BY <1>11, <1>15, <1>17, <2>2, <2>4, <2>5, <2>6, <2>7 DEF ActivityOK
<1>20. ActivityOK(w, d)'
  BY <1>7, <1>18, <1>19
<1> QED
  BY <1>5, <1>20

\* Closing an execution closes its open attempts, without a word.
LEMMA ActivityClose ==
  ASSUME RecordInv, RecordInv', ActivityInv, NEW w \in Workflows, NEW s, NEW evs, NEW k, NEW D,
         NEW new, NEW done, Ends(w, s, evs, k, D, new, done)
  PROVE  \A x \in Workflows, c \in Commands : ActivityOK(x, c)'
<1>0. IInv /\ IInv'
  BY DEF RecordInv, FamilyInv
<1>1. Closing(w, s, evs, k, D, new)
  BY <1>0, CloseRows
<1>2. s \in {"completed", "failed", "terminated"} /\ EndEvents(w, s, evs, k)
  BY DEF Ends
<1>3. \A t \in TaskId : t.kind = "activity" =>
        /\ t \in DOMAIN tasks' <=> t \in DOMAIN tasks
        /\ t \in DOMAIN tasks =>
             /\ tasks'[t].token = tasks[t].token
             /\ tasks'[t].status = IF t.wf \in D \cup {w} /\ Open(t) THEN "dead" ELSE tasks[t].status
  BY <1>0, CloseTasks
<1> SUFFICES ASSUME NEW x \in Workflows, NEW c \in Commands
             PROVE  ActivityOK(x, c)'
  OBVIOUS
<1>4. SameEvents(x, ActivityTypes)
  <2>1. \A type \in CloseTypes : type \notin ActivityTypes
    BY DEF CloseTypes, ChildOutcomes, ActivityTypes, ActivityOutcomes
  <2>2. CASE x = w
    <3>1. history'[w] = history[w] \cup evs
      BY <1>1 DEF Closing
    <3>2. \A e \in evs : e.type \notin ActivityTypes
      BY <1>2 DEF EndEvents, TerminalStatus, ActivityTypes, ActivityOutcomes
    <3> QED
      BY <2>2, <3>1, <3>2 DEF SameEvents
  <2>3. CASE x # w
    BY <1>1, <1>2, <2>1, <2>3, CloseOthers
  <2> QED
    BY <2>2, <2>3
<1>5. ActivityEvents(x, c) /\ ActivityOK(x, c)
  BY <1>4 DEF ActivityEvents, SameEvents, ActivityInv
<1>6. x \in D \cup {w} => ~Running(x)'
  BY <1>1, <1>2 DEF Closing, Running
<1>7. Onward(x)
  BY <1>1, <1>2 DEF Closing, Onward, Running, Kept
<1>8. ActivityClosed(x, c)
  BY <1>3, <1>6 DEF ActivityClosed
<1> QED
  BY <1>0, <1>5, <1>7, <1>8, ActivityLess

\* A cancellation request closes the pending attempts; a leased one goes on.
LEMMA ActivityCancel ==
  ASSUME RecordInv, RecordInv', ActivityInv, NEW w \in Workflows, RequestCancellation(w)
  PROVE  \A x \in Workflows, c \in Commands : ActivityOK(x, c)'
<1>0. IInv /\ IInv'
  BY DEF RecordInv, FamilyInv
<1> DEFINE S == PendingActivities(w)
           k == WakeUp(w, next_seq[w])
<1>1. PICK s \in {"completed", "dead"} : s = "dead" /\ Queued(S, s, {k})
  <2>1. tasks' = Insert(Close(tasks, S, "dead"), {k})
    BY DEF RequestCancellation
  <2> HIDE DEF S, k
  <2> QED
    BY <1>0, <2>1, QueueRows
<1>2. k.kind = "workflow" /\ \A t \in S : t.wf = w
  BY DEF WakeUp, PendingActivities
<1>3. canceled'[w] = TRUE /\ \A x \in Workflows \ {w} : canceled'[x] = canceled[x]
  BY <1>0 DEF RequestCancellation, IInv, TypeOK
<1>4. \E final \in BOOLEAN : Record(w, "WorkflowCancellationRequested", NoCommand, NoTag, final)
  BY DEF RequestCancellation
<1>5. "WorkflowCancellationRequested" \notin ActivityTypes
  BY DEF ActivityTypes, ActivityOutcomes
<1> HIDE DEF S, k
<1> SUFFICES ASSUME NEW x \in Workflows, NEW c \in Commands
             PROVE  ActivityOK(x, c)'
  OBVIOUS
<1>6. SameEvents(x, ActivityTypes)
  BY <1>0, <1>4, <1>5, OtherEvent
<1>7. ActivityEvents(x, c) /\ ActivityOK(x, c)
  BY <1>6 DEF ActivityEvents, SameEvents, ActivityInv
<1>8. Onward(x)
  BY <1>3 DEF Onward, RequestCancellation, Running
<1>9. ActivityClosed(x, c)
  BY <1>1, <1>2, <1>3 DEF ActivityClosed, Queued
<1> QED
  BY <1>0, <1>7, <1>8, <1>9, ActivityLess

\* An activity command is recorded and gets a first attempt.
LEMMA ActivityCommit ==
  ASSUME RecordInv, RecordInv', ActivityInv, NEW h \in inflight, CommitCommands(h)
  PROVE  \A x \in Workflows, c \in Commands : ActivityOK(x, c)'
<1> DEFINE w == h.task.wf
           cs == h.replay.commands
<1>0. IInv /\ IInv' /\ DOMAIN tasks \subseteq TaskId /\ DOMAIN tasks' \subseteq TaskId
  BY DEF RecordInv, FamilyInv, IInv, TypeOK
<1>1. PICK A : CommandHistory(w, cs, A)
  BY CommandHistories
<1>2. \A t \in TaskId : t.kind = "activity" =>
        /\ t \in DOMAIN tasks' <=>
             t \in DOMAIN tasks
             \/ \E i \in DOMAIN cs : cs[i].kind = "activity" /\ t = Attempt(w, cs[i].cmd, 1)
        /\ t \in DOMAIN tasks => tasks'[t] = tasks[t]
        /\ t \in DOMAIN tasks' \ DOMAIN tasks => tasks'[t].status = "pending" /\ tasks'[t].token = 0
  <2>1. \A c : Timer(w, c).kind = "timer"
    BY DEF Timer
  <2> QED
    BY <1>0, <2>1, CommandTasks
<1>3. canceled' = canceled
  BY DEF CommitCommands
<1> HIDE DEF w, cs
<1>4. \A i \in DOMAIN cs : cs[i] \in Command
  BY <1>1 DEF CommandHistory
<1>5. \A x, c, n : /\ Attempt(x, c, n).kind = "activity" /\ Attempt(x, c, n).wf = x
                   /\ Attempt(x, c, n).cmd = c /\ Attempt(x, c, n).n = n
  BY DEF Attempt
<1>6. w \in Workflows /\ Running(w) /\ Running(w)' /\ history'[w] = history[w] \cup A
  BY <1>1 DEF CommandHistory
<1>7. ASSUME NEW x \in Workflows, NEW c \in Commands, ActivityEvents(x, c), Onward(x),
             x = w => \A i \in DOMAIN cs : cs[i].cmd = c => cs[i].kind # "activity"
      PROVE  ActivityOK(x, c)'
  <2>1. ActivityClosed(x, c)
    BY <1>2, <1>5, <1>7 DEF ActivityClosed
  <2>2. ActivityOK(x, c)
    BY DEF ActivityInv
  <2> QED
    BY <1>0, <1>7, <2>1, <2>2, ActivityLess
<1>8. ASSUME NEW x \in Workflows \ {w}, NEW c \in Commands
      PROVE  ActivityOK(x, c)'
  <2>1. "WorkflowExecutionStarted" \notin ActivityTypes
    BY DEF ActivityTypes, ActivityOutcomes
  <2>2. /\ SameEvents(x, ActivityTypes)
        /\ status'[x] = status[x] \/ (status[x] = "absent" /\ status'[x] = "running")
    BY <1>1, <1>8, <2>1, StartedEvents
  <2>3. ActivityEvents(x, c) /\ Onward(x)
    BY <1>3, <2>2 DEF ActivityEvents, SameEvents, Onward, Running
  <2> QED
    BY <1>7, <1>8, <2>3
<1>9. Onward(w)
  BY <1>3, <1>6 DEF Onward
<1>10. ASSUME NEW c \in Commands, \A i \in DOMAIN cs : cs[i].cmd # c
       PROVE  ActivityOK(w, c)'
  <2>1. ActivityEvents(w, c)
    BY <1>1, <1>10, UnlistedEvents DEF ActivityEvents
  <2> QED
    BY <1>6, <1>7, <1>9, <1>10, <2>1
<1>11. ASSUME NEW c \in Commands, NEW i \in DOMAIN cs, cs[i].cmd = c
       PROVE  ActivityOK(w, c)'
  <2>1. PICK e \in A : Describes(e, cs[i])
    BY <1>1 DEF CommandHistory, Listed
  <2>2. \A f \in Scheduled(history[w]) : f.cmd # c
    BY <1>1, <1>11, <2>1 DEF CommandHistory, Listed, Describes
  <2>3. \A f \in A : f.cmd = c => f = e
    BY <1>1, <1>11, <2>1 DEF CommandHistory, Listed, Describes
  <2>4. e.type \in ScheduleEvents /\ (e.type = "ActivityScheduled" <=> cs[i].kind = "activity")
    BY <1>4, <2>1, CommandTypes DEF Describes
  <2>5. CASE cs[i].kind # "activity"
    <3>1. e.type \notin ActivityTypes
      BY <2>4, <2>5 DEF ScheduleEvents, ActivityTypes, ActivityOutcomes
    <3>2. ActivityEvents(w, c)
      BY <1>6, <2>3, <3>1 DEF ActivityEvents
    <3>3. \A j \in DOMAIN cs : cs[j].cmd = c => cs[j].kind # "activity"
      <4> SUFFICES ASSUME NEW j \in DOMAIN cs, cs[j].cmd = c
                   PROVE  cs[j].kind # "activity"
        OBVIOUS
      <4>1. PICK f \in A : Describes(f, cs[j])
        BY <1>1 DEF CommandHistory, Listed
      <4>2. f = e
        BY <2>3, <4>1 DEF Describes
      <4>3. f.type = "ActivityScheduled" <=> cs[j].kind = "activity"
        BY <1>4, <4>1, CommandTypes DEF Describes
      <4> QED
        BY <2>4, <2>5, <4>2, <4>3
    <3> QED
      BY <1>6, <1>7, <1>9, <3>2, <3>3
  <2>6. CASE cs[i].kind = "activity"
    <3> DEFINE t == Attempt(w, c, 1)
    <3>1. ~Asked(w, c) /\ ActivityOK(w, c)
      BY <1>6, <2>2 DEF Asked, Scheduled, ScheduleEvents, ActivityInv
    <3>2. Attempts(w, c) = {} /\ Tried(w, c) = {}
      BY <3>1 DEF ActivityOK, Tried
    <3>3. \A f \in history[w] : ~(f.type \in ActivityOutcomes /\ f.cmd = c)
      BY <3>1 DEF ActivityOK, Asked, StartedBefore
    <3>4. \A f \in history'[w] : ~(f.type \in ActivityOutcomes /\ f.cmd = c)
      BY <1>6, <2>3, <2>4, <3>3 DEF ScheduleEvents, ActivityOutcomes
    <3>5. Asked(w, c)' /\ ~Decided(w, c)'
      BY <1>6, <1>11, <2>1, <2>4, <2>6, <3>4 DEF Asked, Decided, Decides, Describes, ActivityOutcomes
    <3>6. Starts(w, c)' = Starts(w, c)
      BY <1>6, <2>3, <2>4, <2>6 DEF Starts
    <3>7. t \in TaskId
      BY <1>6 DEF Attempt, TaskId, Commands
    <3>8. Attempts(w, c)' = {t}
      BY <1>0, <1>2, <1>5, <1>11, <2>6, <3>2, <3>7 DEF Attempts
    <3>9. tasks'[t].status = "pending" /\ tasks'[t].token = 0 /\ t.n = 1
      BY <1>2, <1>5, <1>11, <2>6, <3>2, <3>7 DEF Attempts
    <3> HIDE DEF t
    <3>10. Tried(w, c)' = Tried(w, c)
      BY <3>2, <3>8, <3>9 DEF Tried
    <3>11. Cardinality(Starts(w, c)') <= Cardinality(Tried(w, c)')
      BY <3>1, <3>6, <3>10 DEF ActivityOK
    <3>12. Open(t)' /\ t.n \in 1 .. MaxAttempts /\ t.n <= t.n
      BY <3>9, EngineAssumption DEF Open
    <3> QED
      BY <3>4, <3>5, <3>8, <3>9, <3>11, <3>12 DEF ActivityOK
  <2> QED
    BY <2>5, <2>6
<1> QED
  BY <1>8, <1>10, <1>11

\* Firing a timer leaves activities alone.
LEMMA FireRows ==
  ASSUME IInv, NEW c \in claims, FireTimer(c)
  PROVE  RowsKept({"activity"})
<1>1. tasks' = Insert(Close(tasks, {c.task}, "completed"), {WakeUp(c.task.wf, next_seq[c.task.wf])})
  BY DEF FireTimer
<1>2. c.task.kind = "timer"
  BY DEF FireTimer, IInv, ClaimsOK
<1>3. \A t \in {c.task} \cup {WakeUp(c.task.wf, next_seq[c.task.wf])} : t.kind \notin {"activity"}
  BY <1>2 DEF WakeUp
<1> QED
  BY <1>1, <1>3, QueueKept

\* Every step keeps the activities right.
LEMMA ActivityStep ==
  ASSUME RecordInv, ActivityInv, [Next]_vars
  PROVE  \A x \in Workflows, c \in Commands : ActivityOK(x, c)'
<1>0. IInv /\ RecordInv' /\ IInv' /\ StartsOK
  BY RecordStep DEF RecordInv, FamilyInv, ActivityInv
<1>1. CASE Still
  <2>1. RowsKept({"activity"})
    BY <1>1, KeptLess DEF Still
  <2>2. \A x \in Workflows : SameEvents(x, ActivityTypes) /\ Onward(x)
    BY <1>1 DEF Still, SameEvents, Onward, Running
  <2> QED
    BY <1>0, <2>1, <2>2, ActivityStill
<1>2. ASSUME NEW w \in Workflows, StartWorkflow(w) \/ Noted(w)
      PROVE  \A x \in Workflows, c \in Commands : ActivityOK(x, c)'
  <2>1. RowsKept({"activity"})
    BY <1>0, <1>2, ClientRows, KeptLess
  <2>2. PICK type \in {"WorkflowExecutionStarted", "WorkflowExecutionPaused",
                       "WorkflowExecutionResumed", "SignalReceived",
                       "WorkflowUpdateReceived", "WorkflowCancellationRequested"} :
          \E tag : \E final \in BOOLEAN : Record(w, type, NoCommand, tag, final)
    BY <1>0, <1>2, ClientEvent
  <2>3. type \notin ActivityTypes
    BY DEF ActivityTypes, ActivityOutcomes
  <2>4. \A x \in Workflows : SameEvents(x, ActivityTypes)
    BY <1>0, <2>2, <2>3, OtherEvent
  <2>5. canceled' = canceled
    BY <1>2 DEF StartWorkflow, Noted, PauseWorkflow, ResumeWorkflow, SendSignal, SendUpdate
  <2>6. \A x \in Workflows : Onward(x)
    BY <1>0, <1>2, <2>5, ClientEvent DEF Onward, Running
  <2> QED
    BY <1>0, <2>1, <2>4, <2>6, ActivityStill
<1>3. ASSUME NEW c \in claims, LeaseActivity(c)
      PROVE  \A x \in Workflows, d \in Commands : ActivityOK(x, d)'
  BY <1>0, <1>3, LeaseEffect, ActivityLease
<1>4. ASSUME NEW c \in claims, FireTimer(c)
      PROVE  \A x \in Workflows, d \in Commands : ActivityOK(x, d)'
  <2>1. c.task.wf \in Workflows /\ UNCHANGED <<status, canceled>>
    BY <1>0, <1>4 DEF IInv, TypeOK, TaskId, FireTimer
  <2>2. \E final \in BOOLEAN : Record(c.task.wf, "TimerFired", c.task.cmd, NoTag, final)
    BY <1>4 DEF FireTimer
  <2>3. "TimerFired" \notin ActivityTypes
    BY DEF ActivityTypes, ActivityOutcomes
  <2>4. \A x \in Workflows : SameEvents(x, ActivityTypes)
    BY <1>0, <2>1, <2>2, <2>3, OtherEvent
  <2>5. \A x \in Workflows : Onward(x)
    BY <2>1 DEF Onward, Running
  <2> QED
    BY <1>0, <1>4, <2>4, <2>5, FireRows, ActivityStill
<1> QED
  BY <1>0, <1>1, <1>2, <1>3, <1>4, StepCases, ActivityCancel, ActivityReport, ActivityClose,
     ActivityCommit

StartTypes == {"WorkflowCancellationRequested", "ActivityStarted"}

\* A step that starts no attempt and requests no cancellation.
LEMMA StartsQuiet ==
  ASSUME StartsOK, canceled' = canceled, ClaimsKept,
         \A x \in Workflows : SameEvents(x, StartTypes)
  PROVE  StartsOK'
<1>1. NoStartAfterCancel'
  BY DEF NoStartAfterCancel, SameEvents, StartTypes, StartsOK
<1>2. \A c \in claims' : c.op = "lease" /\ c.task.kind = "activity" => ~canceled'[c.task.wf]
  BY DEF ClaimsKept, StartsOK
<1> QED
  BY <1>1, <1>2 DEF StartsOK

\* A cancellation request comes after every start, and finds no attempt about
\* to be started: its transaction waits for the poller that has locked the row.
LEMMA StartsCancel ==
  ASSUME RecordInv, StartsOK, NEW w \in Workflows, RequestCancellation(w)
  PROVE  StartsOK'
<1>0. IInv
  BY DEF RecordInv, FamilyInv
<1>1. \E final \in BOOLEAN : Record(w, "WorkflowCancellationRequested", NoCommand, NoTag, final)
  BY DEF RequestCancellation
<1>2. PICK e : OneMore(w, "WorkflowCancellationRequested", NoCommand, e)
  BY <1>0, <1>1, RecordOne
<1>3. \A x \in Workflows \ {w} : history'[x] = history[x]
  BY <1>2 DEF OneMore
<1>4. /\ history'[w] = history[w] \cup {e} /\ e.type = "WorkflowCancellationRequested"
      /\ \A f \in history[w] : f.seq < e.seq
  BY <1>2, SeqBelow DEF OneMore
<1>5. NoStartAfterCancel'
  BY <1>3, <1>4 DEF NoStartAfterCancel, StartsOK
<1>6. ASSUME NEW c \in claims', c.op = "lease", c.task.kind = "activity"
      PROVE  ~canceled'[c.task.wf]
  <2>1. c \in claims /\ c.task \in DOMAIN tasks /\ tasks[c.task].status = "pending"
    BY <1>0, <1>6 DEF RequestCancellation, IInv, ClaimsOK
  <2>2. c.task \in TaskId /\ c.task.wf \in Workflows
    BY <1>0, <2>1 DEF IInv, TypeOK, TaskId
  <2>3. c.task.wf # w
    BY <1>6, <2>1 DEF RequestCancellation, PendingActivities, Locked
  <2>4. canceled'[c.task.wf] = canceled[c.task.wf]
    BY <1>0, <2>2, <2>3 DEF RequestCancellation, IInv, TypeOK
  <2> QED
    BY <1>6, <2>1, <2>4 DEF StartsOK
<1> QED
  BY <1>5, <1>6 DEF StartsOK

\* An attempt is started before any request.
LEMMA StartsLease ==
  ASSUME RecordInv, StartsOK, NEW t, NEW e, Leased(t, e)
  PROVE  StartsOK'
<1>1. t.wf \in Workflows /\ ~canceled[t.wf] /\ canceled' = canceled /\ claims' \subseteq claims
  BY DEF Leased
<1>2. \A f \in history[t.wf] : f.type # "WorkflowCancellationRequested"
  BY <1>1 DEF RecordInv, RecordOK
<1>3. /\ history'[t.wf] = history[t.wf] \cup {e} /\ e.type = "ActivityStarted"
      /\ \A x \in Workflows \ {t.wf} : history'[x] = history[x]
  BY DEF Leased, OneMore
<1>4. NoStartAfterCancel'
  BY <1>2, <1>3 DEF NoStartAfterCancel, StartsOK
<1>5. \A c \in claims' : c.op = "lease" /\ c.task.kind = "activity" => ~canceled'[c.task.wf]
  BY <1>1 DEF StartsOK
<1> QED
  BY <1>4, <1>5 DEF StartsOK

\* Every step keeps cancellation before starts.
LEMMA StartsStep ==
  ASSUME RecordInv, StartsOK, [Next]_vars
  PROVE  StartsOK'
<1>0. IInv
  BY DEF RecordInv, FamilyInv
<1>1. CASE Still
  BY <1>1, StartsQuiet DEF Still, SameEvents
<1>2. ASSUME NEW w \in Workflows, StartWorkflow(w) \/ Noted(w)
      PROVE  StartsOK'
  <2>1. PICK type \in {"WorkflowExecutionStarted", "WorkflowExecutionPaused",
                       "WorkflowExecutionResumed", "SignalReceived", "WorkflowUpdateReceived"} :
          \E tag : Record(w, type, NoCommand, tag, TRUE)
    BY <1>2 DEF StartWorkflow, Noted, PauseWorkflow, ResumeWorkflow, SendSignal, SendUpdate
  <2>2. \E tag : \E final \in BOOLEAN : Record(w, type, NoCommand, tag, final)
    BY <2>1
  <2>3. type \notin StartTypes
    BY DEF StartTypes
  <2>4. \A x \in Workflows : SameEvents(x, StartTypes)
    BY <1>0, <2>2, <2>3, OtherEvent
  <2>5. canceled' = canceled /\ claims' = claims
    BY <1>2 DEF StartWorkflow, Noted, PauseWorkflow, ResumeWorkflow, SendSignal, SendUpdate
  <2> QED
    BY <2>4, <2>5, StartsQuiet DEF ClaimsKept
<1>3. ASSUME NEW c \in claims, LeaseActivity(c)
      PROVE  StartsOK'
  BY <1>0, <1>3, LeaseEffect, StartsLease
<1>4. ASSUME NEW c \in claims, FireTimer(c)
      PROVE  StartsOK'
  <2>1. c.task.wf \in Workflows /\ canceled' = canceled /\ claims' \subseteq claims
    BY <1>0, <1>4 DEF IInv, TypeOK, TaskId, FireTimer
  <2>2. \E final \in BOOLEAN : Record(c.task.wf, "TimerFired", c.task.cmd, NoTag, final)
    BY <1>4 DEF FireTimer
  <2>3. "TimerFired" \notin StartTypes
    BY DEF StartTypes
  <2>4. \A x \in Workflows : SameEvents(x, StartTypes)
    BY <1>0, <2>1, <2>2, <2>3, OtherEvent
  <2> QED
    BY <2>1, <2>4, StartsQuiet DEF ClaimsKept
<1>5. ASSUME NEW t, NEW type, NEW final, NEW s, NEW u, Reported(t, type, final, s, u)
      PROVE  StartsOK'
  <2>1. /\ t.wf \in Workflows /\ type \notin StartTypes /\ final \in BOOLEAN
        /\ canceled' = canceled /\ claims' \subseteq claims
    BY <1>0, <1>5 DEF Reported, IInv, TypeOK, TaskId, ActivityOutcomes, StartTypes
  <2>2. Record(t.wf, type, t.cmd, NoTag, final)
    BY <1>5 DEF Reported
  <2>3. \A x \in Workflows : SameEvents(x, StartTypes)
    BY <1>0, <2>1, <2>2, OtherEvent
  <2> QED
    BY <2>1, <2>3, StartsQuiet DEF ClaimsKept
<1>6. ASSUME NEW w \in Workflows, NEW s, NEW evs, NEW k, NEW D, NEW new, NEW done,
             Ends(w, s, evs, k, D, new, done)
      PROVE  StartsOK'
  <2>1. Closing(w, s, evs, k, D, new)
    BY <1>0, <1>6, CloseRows
  <2>2. s \in {"completed", "failed", "terminated"} /\ EndEvents(w, s, evs, k)
    BY <1>6 DEF Ends
  <2>3. \A type \in CloseTypes : type \notin StartTypes
    BY DEF CloseTypes, ChildOutcomes, StartTypes
  <2>4. \A x \in Workflows \ {w} : SameEvents(x, StartTypes)
    BY <2>1, <2>2, <2>3, CloseOthers
  <2>5. SameEvents(w, StartTypes)
    <3>1. history'[w] = history[w] \cup evs
      BY <2>1 DEF Closing
    <3>2. \A e \in evs : e.type \notin StartTypes
      BY <2>2 DEF EndEvents, TerminalStatus, StartTypes
    <3> QED
      BY <3>1, <3>2 DEF SameEvents
  <2>6. canceled' = canceled /\ claims' = claims
    BY <1>6 DEF Ends, CloseExecution
  <2> QED
    BY <2>4, <2>5, <2>6, StartsQuiet DEF ClaimsKept
<1>7. ASSUME NEW h \in inflight, CommitCommands(h)
      PROVE  StartsOK'
  <2>1. PICK A : CommandHistory(h.task.wf, h.replay.commands, A)
    BY <1>7, CommandHistories
  <2> DEFINE w == h.task.wf
             cs == h.replay.commands
  <2>2. canceled' = canceled /\ claims' = claims
    BY <1>7 DEF CommitCommands
  <2> HIDE DEF w, cs
  <2>3. CommandHistory(w, cs, A)
    BY <2>1 DEF w, cs
  <2>4. "WorkflowExecutionStarted" \notin StartTypes
    BY DEF StartTypes
  <2>5. \A x \in Workflows \ {w} : SameEvents(x, StartTypes)
    BY <2>3, <2>4, StartedEvents
  <2>6. SameEvents(w, StartTypes)
    <3>1. /\ history'[w] = history[w] \cup A
          /\ \A e \in A : \E i \in DOMAIN cs : Describes(e, cs[i]) /\ cs[i] \in Command
      BY <2>3 DEF CommandHistory, Listed
    <3>2. \A e \in A : e.type \in ScheduleEvents
      BY <3>1, CommandTypes DEF Describes
    <3>3. \A e \in A : e.type \notin StartTypes
      BY <3>2 DEF ScheduleEvents, StartTypes
    <3> QED
      BY <3>1, <3>3 DEF SameEvents
  <2> QED
    BY <2>2, <2>5, <2>6, StartsQuiet DEF ClaimsKept
<1> QED
  BY <1>0, <1>1, <1>2, <1>3, <1>4, <1>5, <1>6, <1>7, StepCases, StartsCancel

\* Activities are right in every reachable state.
LEMMA Attempted == Spec => [](RecordInv /\ ActivityInv)
<1>1. Init => ActivityInv
  <2> SUFFICES ASSUME Init PROVE ActivityInv
    OBVIOUS
  <2>1. DOMAIN tasks = {} /\ claims = {} /\ \A x \in Workflows : history[x] = {}
    BY DEF Init
  <2>2. StartsOK
    BY <2>1 DEF StartsOK, NoStartAfterCancel
  <2>3. ASSUME NEW w \in Workflows, NEW c \in Commands PROVE ActivityOK(w, c)
    <3>1. Attempts(w, c) = {} /\ Tried(w, c) = {} /\ Starts(w, c) = {} /\ ~Asked(w, c)
      BY <2>1 DEF Attempts, Tried, Starts, Asked
    <3>2. Cardinality({}) <= Cardinality({})
      BY FS_EmptySet
    <3> QED
      BY <2>1, <3>1, <3>2 DEF ActivityOK
  <2> QED
    BY <2>2, <2>3 DEF ActivityInv
<1>2. RecordInv /\ ActivityInv /\ [Next]_vars => ActivityInv'
  BY ActivityStep, StartsStep DEF ActivityInv
<1> QED
  BY <1>1, <1>2, RecordInit, RecordStep, PTL DEF Spec

\* No activity is lost and none is run by two live attempts: however retries,
\* timeouts, crashes and late reports interleave, an undecided activity of a
\* running execution that is not being canceled has exactly one open attempt.
THEOREM AttemptsKept == Spec => []OneAttempt
<1>1. RecordInv /\ ActivityInv => OneAttempt
  <2> SUFFICES ASSUME RecordInv, ActivityInv, NEW w \in Workflows, Running(w), NEW s \in history[w],
                      s.type = "ActivityScheduled"
               PROVE  LET open == {t \in DOMAIN tasks : /\ t.wf = w /\ t.kind = "activity"
                                                        /\ t.cmd = s.cmd /\ Open(t)}
                          decided == \E e \in history[w] : Decides(e) /\ e.cmd = s.cmd
                      IN IF decided THEN open = {}
                         ELSE Cardinality(open) = 1 \/ (canceled[w] /\ open = {})
    BY DEF OneAttempt
  <2> DEFINE c == s.cmd
             open == {t \in DOMAIN tasks : /\ t.wf = w /\ t.kind = "activity"
                                           /\ t.cmd = c /\ Open(t)}
  <2>1. IInv /\ c \in Commands
    BY DEF RecordInv, FamilyInv, IInv, TypeOK, Event, Commands
  <2>2. ActivityOK(w, c) /\ Asked(w, c)
    BY <2>1 DEF ActivityInv, Asked
  <2>3. open = {t \in Attempts(w, c) : Open(t)}
    BY DEF Attempts
  <2>4. Decided(w, c) <=> \E e \in history[w] : Decides(e) /\ e.cmd = c
    BY DEF Decided
  <2> HIDE DEF c, open
  <2>5. Decided(w, c) => open = {}
    BY <2>2, <2>3 DEF ActivityOK
  <2>6. \A t, u \in open : t = u
    BY <2>1, <2>2, <2>3, OnlyOpen
  <2>7. open # {} => Cardinality(open) = 1
    <3>1. open # {} => \E t : open = {t}
      BY <2>6
    <3> QED
      BY <3>1, FS_Singleton
  <2>8. ~Decided(w, c) => open # {} \/ canceled[w]
    BY <2>2, <2>3 DEF ActivityOK
  <2> QED
    BY <2>4, <2>5, <2>7, <2>8 DEF c, open
<1> QED
  BY <1>1, Attempted, PTL

\* An activity is started at most max_attempts times, however its attempts end:
\* each start is the first lease of a row, and the rows are numbered up to
\* max_attempts.
THEOREM AttemptsLimited == Spec => []AttemptsBounded
<1>1. RecordInv /\ ActivityInv => AttemptsBounded
  <2> SUFFICES ASSUME RecordInv, ActivityInv, NEW w \in Workflows, NEW s \in history[w]
               PROVE  Cardinality(Starts(w, s.cmd)) <= MaxAttempts
    BY DEF AttemptsBounded, Starts
  <2> DEFINE c == s.cmd
             T == Tried(w, c)
             f == [t \in T |-> t.n]
  <2>1. IInv /\ c \in Commands
    BY DEF RecordInv, FamilyInv, IInv, TypeOK, Event, Commands
  <2>2. ActivityOK(w, c)
    BY <2>1 DEF ActivityInv
  <2> HIDE DEF c
  <2>3. \A t \in T : t.n \in 1 .. MaxAttempts /\ t \in Attempts(w, c)
    BY <2>2 DEF ActivityOK, Tried
  <2>4. \A t, u \in T : t.n = u.n => t = u
    BY <2>1, <2>3, SameAttempt
  <2>5. f \in Injection(T, 1 .. MaxAttempts)
    <3>1. f \in [T -> 1 .. MaxAttempts] /\ DOMAIN f = T /\ \A t \in T : f[t] = t.n
      BY <2>3
    <3> HIDE DEF f
    <3> QED
      BY <2>4, <3>1 DEF Injection, IsInjective
  <2>6. IsFiniteSet(1 .. MaxAttempts) /\ Cardinality(1 .. MaxAttempts) = MaxAttempts
    BY EngineAssumption, UpTo
  <2> HIDE DEF T, f
  <2>7. Cardinality(T) <= MaxAttempts
    BY <2>5, <2>6, FS_Injection
  <2>8. /\ Cardinality(Starts(w, c)) <= Cardinality(T) /\ Cardinality(T) \in Nat
        /\ Cardinality(Starts(w, c)) \in Nat
    BY <2>2, FiniteActivity DEF ActivityOK, T
  <2>9. Cardinality(Starts(w, c)) <= MaxAttempts
    BY <2>7, <2>8, EngineAssumption
  <2> QED
    BY <2>9 DEF c
<1> QED
  BY <1>1, Attempted, PTL

\* No attempt is started after a cancellation request, not even by a poller that
\* read the execution before the request.
THEOREM CancellationStopsStarts == Spec => []NoStartAfterCancel
<1>1. ActivityInv => NoStartAfterCancel
  BY DEF ActivityInv, StartsOK
<1> QED
  BY <1>1, Attempted, PTL

(***************************************************************************)
(* What HistoryIndex requires.                                             *)
(***************************************************************************)

\* The whole invariant.
LEMMA AllKept == Spec => []HInv
<1>1. ChildInv /\ (RecordInv /\ TimerInv) /\ (RecordInv /\ ActivityInv) => HInv
  BY DEF HInv, ChildInv
<1> QED
  BY <1>1, Related, Timed, Attempted, PTL

\* What is known of outcomes, entity by entity, holds for the whole history.
LEMMA OutcomesAccepted ==
  ASSUME HInv, NEW w \in Workflows
  PROVE  OutcomesOnce(history[w])
<1> DEFINE H == history[w]
<1>1. \A e \in H : e.cmd \in Commands
  BY DEF HInv, RecordInv, FamilyInv, IInv, TypeOK, Event, Commands
<1>2. \A e, f \in H : e.type \in ActivityOutcomes =>
        /\ StartedBefore(H, e, "ActivityScheduled")
        /\ Decides(e) /\ f.type \in ActivityOutcomes /\ f.cmd = e.cmd => f.seq <= e.seq
  <2> SUFFICES ASSUME NEW e \in H, e.type \in ActivityOutcomes, NEW f \in H
               PROVE  /\ StartedBefore(H, e, "ActivityScheduled")
                      /\ Decides(e) /\ f.type \in ActivityOutcomes /\ f.cmd = e.cmd
                           => f.seq <= e.seq
    OBVIOUS
  <2>1. ActivityOK(w, e.cmd)
    BY <1>1 DEF HInv, ActivityInv
  <2> QED
    BY <2>1 DEF ActivityOK
<1>3. \A e, f \in H : e.type \in TimerOutcomes =>
        /\ StartedBefore(H, e, "TimerStarted")
        /\ f.type \in TimerOutcomes /\ f.cmd = e.cmd => e = f
  <2> SUFFICES ASSUME NEW e \in H, e.type \in TimerOutcomes, NEW f \in H
               PROVE  /\ StartedBefore(H, e, "TimerStarted")
                      /\ f.type \in TimerOutcomes /\ f.cmd = e.cmd => e = f
    OBVIOUS
  <2>1. TimerOK(w, e.cmd)
    BY <1>1 DEF HInv, TimerInv
  <2> QED
    BY <2>1 DEF TimerOK
<1>4. \A e, f \in H : e.type \in ChildOutcomes =>
        /\ StartedBefore(H, e, "ChildWorkflowStarted")
        /\ f.type \in ChildOutcomes /\ f.cmd = e.cmd => e = f
  BY DEF HInv, ChildrenOK
<1> HIDE DEF H
<1>5. OutcomesOnce(H)
  BY <1>2, <1>3, <1>4 DEF OutcomesOnce
<1> QED
  BY <1>5 DEF H

\* So HistoryIndex accepts the whole history.
LEMMA Accepted ==
  ASSUME HInv, NEW w \in Workflows
  PROVE  IndexAccepts(history[w]) /\ next_seq[w] = Cardinality(history[w]) + 1
<1> DEFINE H == history[w]
           n == next_seq[w]
           m == Cardinality(H)
<1>1. RecordInv /\ RecordOK(w)
  BY DEF HInv, RecordInv
<1>2. m = n - 1 /\ n \in Nat /\ \A e \in H : e.seq \in Nat /\ e.seq < n
  BY <1>1, FiniteHistory, SeqBelow
<1>3. OutcomesOnce(H)
  BY OutcomesAccepted
<1>4. /\ Numbered(H, 1, n) /\ StartsOnce(H) /\ ScheduledOnce(H) /\ CanceledOnce(H)
      /\ \A e \in H : e.type \in TerminalEvents => e.seq = n - 1
  BY <1>1 DEF RecordOK
<1> HIDE DEF H, n, m
<1>5. Contiguous(H, m)
  BY <1>2, <1>4 DEF Numbered, Contiguous
<1>6. EndsOnce(H)
  BY <1>2, <1>4 DEF EndsOnce
<1>7. n = m + 1
  BY <1>2
<1>8. IndexAccepts(H) /\ n = Cardinality(H) + 1
  BY <1>3, <1>4, <1>5, <1>6, <1>7 DEF IndexAccepts, m
<1> QED
  BY <1>8 DEF H, n

\* HistoryIndex never raises InvalidHistoryError on what the transitions have
\* committed: the events are numbered without a gap, begin and end once, no
\* command is scheduled twice, and every outcome follows what it is about and
\* comes once; next_seq is the number of the next event.
THEOREM HistoriesAccepted == Spec => []HistoryAccepted
<1>1. HInv => HistoryAccepted
  BY Accepted DEF HistoryAccepted
<1> QED
  BY <1>1, AllKept, PTL

=============================================================================
