---------------------------- MODULE LeaseProofs -----------------------------
(***************************************************************************)
(* What workers hold in memory: of all the workers that remember a task,   *)
(* at most one can still act on it; and what they commit is what the       *)
(* history calls for although it has grown since they replayed it.         *)
(***************************************************************************)
EXTENDS HistoryProofs, CodeProofs

\* Rows are never deleted and keep their lease token.
TokensKept(ts, us) ==
  DOMAIN ts \subseteq DOMAIN us /\ \A t \in DOMAIN ts : us[t].token = ts[t].token

\* What workers remember: a token the row has or has had, and nothing that
\* another worker remembers too.
Memories ==
  \A h \in inflight :
    /\ h.task \in DOMAIN tasks
    /\ h.token <= tasks[h.task].token
    /\ \A g \in inflight : g.task = h.task /\ g.token = h.token => g = h

OwnerInv == IInv /\ Memories

(***************************************************************************)
(* Statements keep tokens.                                                 *)
(***************************************************************************)

\* Inserting rows keeps the tokens of the others.
LEMMA InsertTokens == \A ts, ids : TokensKept(ts, Insert(ts, ids))
  BY DEF TokensKept, Insert

\* Closing rows keeps their tokens.
LEMMA CloseTokens ==
  ASSUME NEW ts, ts \in [DOMAIN ts -> Row], NEW ids, NEW s
  PROVE  TokensKept(ts, Close(ts, ids, s))
<1>1. \A t \in DOMAIN ts : ts[t] \in Row
  OBVIOUS
<1>2. \A r \in Row : [r EXCEPT !.status = s, !.due = {}].token = r.token
  BY DEF Row
<1> QED
  BY <1>1, <1>2 DEF TokensKept, Close

\* One statement after another.
LEMMA TokensThen ==
  ASSUME NEW ts, NEW us, NEW vs, TokensKept(ts, us), TokensKept(us, vs)
  PROVE  TokensKept(ts, vs)
  BY DEF TokensKept

\* Closing some rows and inserting others.
LEMMA QueueTokens ==
  ASSUME IInv, NEW ids, NEW s, NEW new, tasks' = Insert(Close(tasks, ids, s), new)
  PROVE  TokensKept(tasks, tasks')
<1>1. tasks \in [DOMAIN tasks -> Row]
  BY DEF IInv, TypeOK
<1> QED
  BY <1>1, CloseTokens, InsertTokens, TokensThen

\* Changing the status or the deadlines of one row.
LEMMA RowTokens ==
  ASSUME IInv, NEW t \in DOMAIN tasks, NEW r, r.token = tasks[t].token,
         tasks' = [tasks EXCEPT ![t] = r]
  PROVE  TokensKept(tasks, tasks')
  BY DEF IInv, TypeOK, TokensKept

\* Closing an execution.
LEMMA ClosingTokens ==
  ASSUME IInv, NEW w, NEW s, NEW evs, NEW k, NEW D, NEW new, NEW done,
         CloseExecution(w, s, evs, k, D, new, done)
  PROVE  TokensKept(tasks, tasks')
<1> DEFINE gone == Outstanding(D \cup {w}) \ done
           ts == Close(tasks, gone, "dead")
           us == Close(ts, done, "completed")
<1>1. tasks \in [DOMAIN tasks -> Row]
  BY DEF IInv, TypeOK
<1>2. PICK ids : tasks' = Insert(us, ids)
  BY DEF CloseExecution
<1>3. TokensKept(tasks, ts)
  BY <1>1, CloseTokens
<1>4. ts \in [DOMAIN ts -> Row]
  <2>1. \A r \in Row : [r EXCEPT !.status = "dead", !.due = {}] \in Row
    BY DEF Row
  <2> QED
    BY <1>1, <2>1 DEF Close
<1> HIDE DEF ts
<1>5. TokensKept(ts, us)
  BY <1>4, CloseTokens
<1> HIDE DEF us
<1>6. TokensKept(us, tasks')
  BY <1>2, InsertTokens
<1> QED
  BY <1>3, <1>5, <1>6, TokensThen

(***************************************************************************)
(* Steps.                                                                  *)
(***************************************************************************)

\* A step that keeps tokens and forgets memories at most.
LEMMA KeepsMemories ==
  ASSUME OwnerInv, TokensKept(tasks, tasks'), inflight' \subseteq inflight
  PROVE  Memories'
  BY DEF OwnerInv, Memories, TokensKept

\* What clients do.
LEMMA ClientTokens ==
  ASSUME IInv, ClientStep
  PROVE  TokensKept(tasks, tasks') /\ inflight' = inflight
<1>1. tasks \in [DOMAIN tasks -> Row]
  BY DEF IInv, TypeOK
<1>2. ASSUME NEW w, \/ StartWorkflow(w) \/ (\E s \in Signals : SendSignal(w, s))
                    \/ (\E u \in Updates : SendUpdate(w, u))
      PROVE  TokensKept(tasks, tasks') /\ inflight' = inflight
  <2>1. (\E ids : tasks' = Insert(tasks, ids)) /\ inflight' = inflight
    BY <1>2 DEF StartWorkflow, SendSignal, SendUpdate
  <2> QED
    BY <2>1, InsertTokens
<1>3. ASSUME NEW w, PauseWorkflow(w)
      PROVE  TokensKept(tasks, tasks') /\ inflight' = inflight
  BY <1>3 DEF PauseWorkflow, TokensKept
<1>4. ASSUME NEW w, ResumeWorkflow(w)
      PROVE  TokensKept(tasks, tasks') /\ inflight' = inflight
  <2>1. \A r \in Row : [r EXCEPT !.due = {}].token = r.token
    BY DEF Row
  <2>2. \A t \in DOMAIN tasks : tasks[t] \in Row
    BY <1>1
  <2> QED
    BY <1>4, <2>1, <2>2 DEF ResumeWorkflow, TokensKept
<1>5. ASSUME NEW w, RequestCancellation(w)
      PROVE  TokensKept(tasks, tasks') /\ inflight' = inflight
  BY <1>5, QueueTokens DEF RequestCancellation
<1>6. ASSUME NEW w, TerminateWorkflow(w)
      PROVE  TokensKept(tasks, tasks') /\ inflight' = inflight
  BY <1>6, ClosingTokens DEF TerminateWorkflow
<1> QED
  BY <1>2, <1>3, <1>4, <1>5, <1>6 DEF ClientStep, RetryWorkflow

\* What pollers do, but for the lease itself.
LEMMA PollTokens ==
  ASSUME IInv, PollStep
  PROVE  \/ TokensKept(tasks, tasks') /\ inflight' = inflight
         \/ \E c \in claims : Lease(c)
<1>1. ASSUME NEW t \in DOMAIN tasks, ClaimLease(t) \/ ClaimTimer(t) \/ ClaimTimeout(t)
      PROVE  TokensKept(tasks, tasks') /\ inflight' = inflight
  BY <1>1 DEF ClaimLease, ClaimTimer, ClaimTimeout, Claim, TokensKept
<1>2. ASSUME NEW t \in DOMAIN tasks, ReclaimWorkflowTask(t)
      PROVE  TokensKept(tasks, tasks') /\ inflight' = inflight
  <2> DEFINE r == [tasks[t] EXCEPT !.status = "pending", !.due = {"visible"}]
  <2>1. tasks[t] \in Row /\ inflight' = inflight
    BY <1>2 DEF ReclaimWorkflowTask, IInv, TypeOK
  <2>2. r.token = tasks[t].token
    BY <2>1 DEF Row
  <2>3. tasks' = [tasks EXCEPT ![t] = r]
    BY <1>2, <2>1 DEF ReclaimWorkflowTask, IInv, TypeOK, Row
  <2> HIDE DEF r
  <2> QED
    BY <2>1, <2>2, <2>3, RowTokens
<1>3. ASSUME NEW c \in claims, FireTimer(c) \/ TimeOutActivity(c)
      PROVE  TokensKept(tasks, tasks') /\ inflight' = inflight
  <2>1. (\E ids, s, new : tasks' = Insert(Close(tasks, ids, s), new)) /\ inflight' = inflight
    BY <1>3 DEF FireTimer, TimeOutActivity, FailAttempt
  <2> QED
    BY <2>1, QueueTokens
<1> QED
  BY <1>1, <1>2, <1>3 DEF PollStep, LeaseWorkflowTask, LeaseActivity

\* A new lease has a token no worker remembers.
LEMMA LeaseMemories ==
  ASSUME OwnerInv, NEW c \in claims, Lease(c)
  PROVE  Memories'
<1> DEFINE t == c.task
           n == tasks[t].token + 1
           r == [status |-> "leased", token |-> n, due |-> {}]
           m == [task |-> t, token |-> n, replay |-> NotReplayed]
<1>1. t \in DOMAIN tasks /\ tasks[t].token \in Nat
  BY DEF OwnerInv, IInv, ClaimsOK, TypeOK, Row
<1>2. tasks' = [tasks EXCEPT ![t] = r] /\ inflight' = inflight \cup {m}
  BY DEF Lease, FreshToken
<1>3. /\ DOMAIN tasks' = DOMAIN tasks /\ tasks'[t].token = n
      /\ \A u \in DOMAIN tasks \ {t} : tasks'[u].token = tasks[u].token
  BY <1>1, <1>2 DEF OwnerInv, IInv, TypeOK
<1>4. \A h \in inflight : h.token \in Nat
  BY DEF OwnerInv, IInv, TypeOK
<1>5. \A h \in inflight : h.task = t => h.token < n
  BY <1>1, <1>4 DEF OwnerInv, Memories
<1>6. m.task = t /\ m.token = n
  OBVIOUS
<1> HIDE DEF m, r
<1>7. ASSUME NEW h \in inflight'
      PROVE  h.task \in DOMAIN tasks' /\ h.token <= tasks'[h.task].token
  BY <1>1, <1>2, <1>3, <1>4, <1>5, <1>6 DEF OwnerInv, Memories
<1>8. ASSUME NEW h \in inflight', NEW g \in inflight', g.task = h.task, g.token = h.token
      PROVE  g = h
  BY <1>2, <1>4, <1>5, <1>6, <1>8 DEF OwnerInv, Memories
<1> QED
  BY <1>7, <1>8 DEF Memories

\* What workers do, but for the replay itself.
LEMMA WorkTokens ==
  ASSUME IInv, NEW h \in inflight,
         \/ CompleteActivity(h) \/ FailActivity(h) \/ CommitStep(h) \/ Abandon(h) \/ Crash(h)
         \/ ReleaseWorkflowTask(h) \/ HeartbeatActivity(h)
  PROVE  TokensKept(tasks, tasks') /\ inflight' \subseteq inflight
<1>1. CASE CompleteActivity(h) \/ FailActivity(h) \/ CommitCommands(h)
  <2>1. inflight' \subseteq inflight
    BY <1>1 DEF CompleteActivity, FailActivity, Reporting, CommitCommands, Committing
  <2>2. CASE CompleteActivity(h) \/ FailActivity(h)
    BY <2>1, <2>2, QueueTokens DEF CompleteActivity, FailActivity, FailAttempt
  <2>3. CASE CommitCommands(h)
    BY <2>1, <2>3, QueueTokens DEF CommitCommands
  <2> QED
    BY <1>1, <2>2, <2>3
<1>2. CASE CommitCanceled(h) \/ CommitResult(h) \/ CommitContinueAsNew(h)
  <2>1. inflight' \subseteq inflight
    BY <1>2 DEF CommitCanceled, CommitResult, CommitContinueAsNew, Committing
  <2>2. \E w, s, evs, k, D, new, done : CloseExecution(w, s, evs, k, D, new, done)
    <3>1. CASE CommitCanceled(h)
      BY <3>1 DEF CommitCanceled
    <3>2. CASE CommitResult(h)
      BY <3>2 DEF CommitResult
    <3>3. CASE CommitContinueAsNew(h)
      BY <3>3 DEF CommitContinueAsNew
    <3> QED
      BY <1>2, <3>1, <3>2, <3>3
  <2> QED
    BY <2>1, <2>2, ClosingTokens
<1>3. CASE CommitBlocked(h)
  <2>1. tasks \in [DOMAIN tasks -> Row]
    BY DEF IInv, TypeOK
  <2> QED
    BY <1>3, <2>1, CloseTokens DEF CommitBlocked, Committing
<1>4. CASE Abandon(h) \/ Crash(h)
  BY <1>4 DEF Abandon, Crash, TokensKept
<1>5. CASE ReleaseWorkflowTask(h) \/ HeartbeatActivity(h)
  <2> DEFINE t == h.task
  <2>1. t \in DOMAIN tasks /\ tasks[t] \in Row /\ inflight' \subseteq inflight
    BY <1>5 DEF ReleaseWorkflowTask, HeartbeatActivity, Live, IInv, TypeOK
  <2>2. \E r : r.token = tasks[t].token /\ tasks' = [tasks EXCEPT ![t] = r]
    <3>1. CASE ReleaseWorkflowTask(h)
      <4> DEFINE r == [tasks[t] EXCEPT !.status = "pending", !.due = {}]
      <4>1. r.token = tasks[t].token
        BY <2>1 DEF Row
      <4>2. tasks' = [tasks EXCEPT ![t] = r]
        BY <2>1, <3>1 DEF ReleaseWorkflowTask, IInv, TypeOK, Row
      <4> QED
        BY <4>1, <4>2
    <3>2. CASE HeartbeatActivity(h)
      <4> DEFINE r == [tasks[t] EXCEPT !.due = @ \ {"heartbeat", "lease"}]
      <4>1. r.token = tasks[t].token
        BY <2>1 DEF Row
      <4>2. tasks' = [tasks EXCEPT ![t] = r]
        BY <2>1, <3>2 DEF HeartbeatActivity, IInv, TypeOK, Row
      <4> QED
        BY <4>1, <4>2
    <3> QED
      BY <1>5, <3>1, <3>2
  <2> HIDE DEF t
  <2> QED
    BY <2>1, <2>2, RowTokens
<1> QED
  BY <1>1, <1>2, <1>3, <1>4, <1>5 DEF CommitStep

\* A replay is remembered in place of the task it belongs to.
LEMMA ReplayMemories ==
  ASSUME OwnerInv, NEW h \in inflight, LoadAndReplay(h)
  PROVE  Memories'
<1> DEFINE m == [h EXCEPT !.replay = Replay(h.task.wf, history[h.task.wf])]
<1>1. h \in [task : TaskId, token : Nat, replay : ReplayResult]
  BY DEF OwnerInv, IInv, TypeOK
<1>2. m.task = h.task /\ m.token = h.token
  BY <1>1
<1>3. inflight' = (inflight \ {h}) \cup {m} /\ tasks' = tasks
  BY DEF LoadAndReplay
<1> HIDE DEF m
<1> QED
  BY <1>2, <1>3 DEF OwnerInv, Memories

\* A deadline that passes is not a new lease.
LEMMA PassesTokens ==
  ASSUME IInv, NEW t \in DOMAIN tasks, NEW d, Passes(t, d)
  PROVE  TokensKept(tasks, tasks') /\ inflight' = inflight
<1> DEFINE r == [tasks[t] EXCEPT !.due = @ \cup {d}]
<1>1. tasks[t] \in Row /\ inflight' = inflight
  BY DEF Passes, IInv, TypeOK
<1>2. r.token = tasks[t].token
  BY <1>1 DEF Row
<1>3. tasks' = [tasks EXCEPT ![t] = r]
  BY <1>1 DEF Passes, IInv, TypeOK, Row
<1> HIDE DEF r
<1> QED
  BY <1>1, <1>2, <1>3, RowTokens

\* Every step keeps the invariant.
LEMMA OwnerStep == OwnerInv /\ [Next]_vars => OwnerInv'
<1> SUFFICES ASSUME OwnerInv, [Next]_vars PROVE Memories'
  BY StepOK DEF OwnerInv
<1>0. IInv
  BY DEF OwnerInv
<1>1. CASE ClientStep
  BY <1>0, <1>1, ClientTokens, KeepsMemories
<1>2. CASE PollStep
  BY <1>0, <1>2, PollTokens, LeaseMemories, KeepsMemories
<1>3. CASE WorkerStep
  BY <1>0, <1>3, WorkTokens, ReplayMemories, KeepsMemories DEF WorkerStep
<1>4. CASE TimeStep
  BY <1>0, <1>4, PassesTokens, KeepsMemories DEF TimeStep, Elapse
<1>5. CASE FaultStep
  <2>1. ASSUME NEW c \in claims, AbortClaim(c)
        PROVE  TokensKept(tasks, tasks') /\ inflight' \subseteq inflight
    BY <2>1 DEF AbortClaim, TokensKept
  <2> QED
    BY <1>0, <1>5, <2>1, WorkTokens, PassesTokens, KeepsMemories DEF FaultStep, Stall
<1>6. CASE \E h \in inflight : HeartbeatActivity(h)
  BY <1>0, <1>6, WorkTokens, KeepsMemories
<1>7. CASE UNCHANGED vars
  BY <1>7, KeepsMemories DEF vars, TokensKept
<1> QED
  BY <1>1, <1>2, <1>3, <1>4, <1>5, <1>6, <1>7 DEF Next, EngineStep

\* At most one worker holds a live lease on a task, however many have leased
\* it before and still remember it: a stale worker can report or commit nothing.
THEOREM OneOwner == Spec => []SingleOwner
<1>1. Init => OwnerInv
  <2>1. Init => Memories
    BY DEF Init, Memories
  <2> QED
    BY <2>1, InitOK DEF OwnerInv
<1>2. OwnerInv => SingleOwner
  BY DEF OwnerInv, Memories, SingleOwner, Live
<1> QED
  BY <1>1, <1>2, OwnerStep, PTL DEF Spec

(***************************************************************************)
(* What workers commit.                                                    *)
(***************************************************************************)

\* What a command and its event have in common.
TagOf(c) == IF c.kind = "resolve" THEN c.upd ELSE c.fp
Signatures(E) == {<<e.cmd, e.tag>> : e \in E}
Commanded(cs) == {<<cs[i].cmd, TagOf(cs[i])>> : i \in DOMAIN cs}

\* The step records the commands cs of w, and nothing else but its end.
Enters(w, cs) ==
  /\ \A e \in history'[w] \ history[w] : e.type \in ScheduleEvents \cup TerminalEvents
  /\ \A e \in Scheduled(history'[w]) \ Scheduled(history[w]) : \E i \in DOMAIN cs : Writes(e, cs[i])
  /\ \A i \in DOMAIN cs : \E e \in Scheduled(history'[w]) : Writes(e, cs[i])

\* The step commits the commands of g as the events E of w.
Carries(w, g, E) ==
  /\ g.task.wf = w /\ g.replay.status = "commands" /\ Acceptable(w, g.replay.commands)
  /\ Scheduled(history'[w]) = Scheduled(history[w]) \cup E
  /\ Signatures(E) = Commanded(g.replay.commands)
  /\ Enters(w, g.replay.commands)
  /\ status'[w] = "completed" =>
       \A i \in DOMAIN g.replay.commands : g.replay.commands[i].kind = "continue"

\* A step schedules nothing, closes w with a result, or commits commands.
Advance(w) ==
  \/ /\ Scheduled(history'[w]) = Scheduled(history[w])
     /\ status'[w] \in {"running", "terminated"}
  \/ /\ Scheduled(history'[w]) = Scheduled(history[w]) /\ status'[w] \in {"completed", "failed"}
     /\ \E g \in inflight : g.task.wf = w /\ g.replay.status = status'[w]
  \/ /\ status'[w] \in {"running", "completed"}
     /\ \E g \in inflight : \E E : Carries(w, g, E)

\* Events that are no commands.
LEMMA SameScheduled ==
  ASSUME NEW w, NEW A, history'[w] = history[w] \cup A, \A e \in A : e.type \notin ScheduleEvents
  PROVE  Scheduled(history'[w]) = Scheduled(history[w])
  BY DEF Scheduled

\* An event that is no command is recorded for some execution.
LEMMA RecordAdvance ==
  ASSUME IInv, NEW x \in Workflows, NEW type, type \notin ScheduleEvents, NEW cmd, NEW tag,
         NEW final \in BOOLEAN, Record(x, type, cmd, tag, final), NEW w \in Workflows,
         status'[w] = "running"
  PROVE  Advance(w)
<1>1. CASE w # x
  <2>1. history'[w] = history[w]
    BY <1>1, RecordEffect
  <2> QED
    BY <2>1 DEF Advance
<1>2. CASE w = x
  <2>1. PICK e : history'[x] = history[x] \cup {e} /\ e.type = type
    BY RecordEffect
  <2>2. Scheduled(history'[x]) = Scheduled(history[x])
    BY <2>1, SameScheduled
  <2> QED
    BY <1>2, <2>2 DEF Advance
<1> QED
  BY <1>1, <1>2

\* What closing x does to the commands and the status of w.
AfterClose(x, s, evs, w) ==
  /\ w # x => /\ Scheduled(history'[w]) = Scheduled(history[w])
              /\ status'[w] \in {"running", "terminated"}
  /\ w = x => /\ Scheduled(history'[w]) = Scheduled(history[w]) \cup Scheduled(evs)
              /\ status'[w] = s

LEMMA CloseCommands ==
  ASSUME IInv, NEW x \in Workflows, NEW s, NEW evs, NEW k, NEW D \in Subtrees(x),
         NEW new, \A y \in new : status[y] = "absent", NEW done,
         CloseExecution(x, s, evs, k, D, new, done), s \in {"completed", "failed", "terminated"},
         NEW w \in Workflows, Running(w)
  PROVE  AfterClose(x, s, evs, w)
<1>1. w \notin new /\ status[w] = "running"
  BY DEF Running
<1>2. status'[w] = IF w = x THEN s ELSE IF w \in D THEN "terminated" ELSE "running"
  BY <1>1 DEF CloseExecution
<1>3. CASE w = x
  <2>1. history'[w] = history[w] \cup evs
    BY <1>3 DEF CloseExecution
  <2> QED
    BY <1>2, <1>3, <2>1 DEF Scheduled, AfterClose
<1>4. CASE w # x
  <2> DEFINE d == Plain(next_seq[w], "WorkflowExecutionTerminated")
             e == Ev(next_seq[w], ChildStatus[s], parent[x].cmd, NoTag, TRUE)
  <2>1. history'[w] = history[w] \/ history'[w] = history[w] \cup {d}
        \/ history'[w] = history[w] \cup {e}
    BY <1>1, <1>4 DEF CloseExecution
  <2>2. d.type \notin ScheduleEvents /\ e.type \notin ScheduleEvents
    BY DEF Plain, Ev, ChildStatus, ScheduleEvents
  <2> HIDE DEF d, e
  <2>3. Scheduled(history'[w]) = Scheduled(history[w])
    BY <2>1, <2>2, SameScheduled
  <2> QED
    BY <1>2, <1>4, <2>3 DEF AfterClose
<1> QED
  BY <1>3, <1>4

\* The events that end a history without a continuation are no commands.
LEMMA EndingNoCommands ==
  ASSUME NEW w, NEW f, NEW type \in TerminalEvents
  PROVE  Scheduled(TimersCanceled(f) \cup {Ending(w, type)}) = {}
<1>1. \A e \in TimersCanceled(f) : e.type = "TimerCanceled"
  BY DEF TimersCanceled, Ev
<1>2. Ending(w, type).type = type
  BY DEF Ending, Plain, Ev
<1>3. "TimerCanceled" \notin ScheduleEvents /\ type \notin ScheduleEvents
  BY DEF TerminalEvents, ScheduleEvents
<1> QED
  BY <1>1, <1>2, <1>3 DEF Scheduled

\* Closing an execution commits a result, a continuation, or nothing.
LEMMA ClosingAdvance ==
  ASSUME IInv, CloseStep, NEW w \in Workflows, Running(w)
  PROVE  Advance(w)
<1>1. ASSUME NEW x \in Workflows, NEW D \in Subtrees(x), NEW f \in TimerOrders(x), NEW done,
             NEW k, CloseExecution(x, "terminated",
               TimersCanceled(f) \cup {Ending(x, "WorkflowExecutionTerminated")}, k, D, {}, done)
      PROVE  Advance(w)
  <2> DEFINE evs == TimersCanceled(f) \cup {Ending(x, "WorkflowExecutionTerminated")}
  <2>1. Scheduled(evs) = {}
    BY EndingNoCommands DEF TerminalEvents
  <2>2. CloseExecution(x, "terminated", evs, k, D, {}, done)
    BY <1>1
  <2> HIDE DEF evs
  <2>3. Scheduled(history'[w]) = Scheduled(history[w]) /\ status'[w] \in {"running", "terminated"}
    <3>1. AfterClose(x, "terminated", evs, w)
      BY <2>2, CloseCommands
    <3> QED
      BY <2>1, <3>1 DEF AfterClose
  <2> QED
    BY <2>3 DEF Advance
<1>2. ASSUME NEW x \in Workflows, TerminateWorkflow(x) PROVE Advance(w)
  BY <1>1, <1>2 DEF TerminateWorkflow
<1>3. ASSUME NEW g \in inflight, CommitCanceled(g) PROVE Advance(w)
  <2>1. g.task.wf \in Workflows
    BY DEF IInv, TypeOK, TaskId
  <2> QED
    BY <1>1, <1>3, <2>1 DEF CommitCanceled
<1>4. ASSUME NEW g \in inflight, CommitResult(g) PROVE Advance(w)
  <2>1. PICK x \in Workflows, s \in {"completed", "failed"} :
          x = g.task.wf /\ s = g.replay.status
    BY <1>4 DEF CommitResult, IInv, TypeOK, TaskId
  <2>2. PICK D \in Subtrees(x), f \in TimerOrders(x) :
          CloseExecution(x, s, TimersCanceled(f) \cup {Ending(x, TerminalStatus[s])},
            Cardinality(PendingTimers(x)) + 1, D, {}, {g.task})
    BY <1>4, <2>1 DEF CommitResult
  <2> DEFINE evs == TimersCanceled(f) \cup {Ending(x, TerminalStatus[s])}
  <2>3. TerminalStatus[s] \in TerminalEvents
    BY DEF TerminalStatus, TerminalEvents
  <2>4. Scheduled(evs) = {}
    BY <2>3, EndingNoCommands
  <2>5. PICK k, done : CloseExecution(x, s, evs, k, D, {}, done)
    BY <2>2
  <2> HIDE DEF evs
  <2>6. /\ Scheduled(history'[w]) = Scheduled(history[w])
        /\ w # x => status'[w] \in {"running", "terminated"}
        /\ w = x => status'[w] = s
    <3>1. s \in {"completed", "failed", "terminated"} /\ \A y \in {} : status[y] = "absent"
      OBVIOUS
    <3>2. AfterClose(x, s, evs, w)
      BY <2>5, <3>1, CloseCommands
    <3> QED
      BY <2>4, <3>2 DEF AfterClose
  <2> QED
    BY <2>1, <2>6 DEF Advance
<1>5. ASSUME NEW g \in inflight, CommitContinueAsNew(g) PROVE Advance(w)
  <2>1. PICK x \in Workflows, cs \in Seq(Command) : x = g.task.wf /\ cs = g.replay.commands
    BY InflightType DEF IInv, TypeOK, TaskId
  <2>2. g.replay.status = "commands" /\ Acceptable(x, cs)
    BY <1>5, <2>1 DEF CommitContinueAsNew
  <2>3. PICK i \in DOMAIN cs : cs[i].kind = "continue"
    BY <1>5, <2>1 DEF CommitContinueAsNew, Emitted
  <2>4. Len(cs) = 1 /\ i = 1
    BY <2>1, <2>2, <2>3, AcceptableOK
  <2>5. status[Child(x, cs[1].cmd)] = "absent"
    BY <2>1, <2>2, <2>3, <2>4, AcceptableOK
  <2> DEFINE e == Ev(next_seq[x], "WorkflowExecutionContinuedAsNew", cs[1].cmd, cs[1].fp, TRUE)
             d == Plain(next_seq[x] + 1, "WorkflowExecutionCompleted")
  <2>6. PICK D \in Subtrees(x) :
          CloseExecution(x, "completed", {e, d}, 2, D, {Child(x, cs[1].cmd)}, {g.task})
    BY <1>5, <2>1 DEF CommitContinueAsNew
  <2>7. /\ e.type = "WorkflowExecutionContinuedAsNew" /\ d.type = "WorkflowExecutionCompleted"
        /\ e.cmd = cs[1].cmd /\ e.tag = cs[1].fp
    BY DEF Ev, Plain
  <2> HIDE DEF e, d
  <2>8. Scheduled({e, d}) = {e}
    BY <2>7 DEF Scheduled, ScheduleEvents
  <2>9. Signatures({e}) = Commanded(cs)
    <3>1. TagOf(cs[1]) = cs[1].fp
      BY <2>3, <2>4 DEF TagOf
    <3>2. DOMAIN cs = {1}
      BY <2>4
    <3> QED
      BY <2>7, <3>1, <3>2 DEF Signatures, Commanded
  <2>10. /\ w # x => Scheduled(history'[w]) = Scheduled(history[w])
                     /\ status'[w] \in {"running", "terminated"}
         /\ w = x => Scheduled(history'[w]) = Scheduled(history[w]) \cup {e}
                     /\ status'[w] = "completed"
    <3>1. \A y \in {Child(x, cs[1].cmd)} : status[y] = "absent"
      BY <2>5
    <3>2. "completed" \in {"completed", "failed", "terminated"}
      OBVIOUS
    <3>3. PICK new, k, done : CloseExecution(x, "completed", {e, d}, k, D, new, done)
                              /\ \A y \in new : status[y] = "absent"
      BY <2>6, <3>1
    <3>4. AfterClose(x, "completed", {e, d}, w)
      BY <3>2, <3>3, CloseCommands
    <3> QED
      BY <2>8, <3>4 DEF AfterClose
  <2>11. w = x => Enters(w, cs)
    <3> HAVE w = x
    <3>1. history'[x] = history[x] \cup {e, d}
      BY <2>6 DEF CloseExecution
    <3>2. Writes(e, cs[1]) /\ DOMAIN cs = {1} /\ e.type \in ScheduleEvents
      BY <2>3, <2>4, <2>7 DEF Writes, EventFor, ScheduleEvents
    <3>3. d.type \in TerminalEvents /\ d.type \notin ScheduleEvents
      BY <2>7 DEF TerminalEvents, ScheduleEvents
    <3> QED
      BY <3>1, <3>2, <3>3 DEF Enters, Scheduled
  <2>12. w = x => Carries(w, g, {e})
    <3>1. \A j \in DOMAIN cs : cs[j].kind = "continue"
      BY <2>3, <2>4
    <3> QED
      BY <2>1, <2>2, <2>9, <2>10, <2>11, <3>1 DEF Carries
  <2> QED
    BY <2>10, <2>12 DEF Advance
<1> QED
  BY <1>2, <1>3, <1>4, <1>5 DEF CloseStep

\* The events of committed commands.
LEMMA CommandsCarry ==
  ASSUME IInv, NEW g \in inflight, CommitCommands(g)
  PROVE  \E E : Carries(g.task.wf, g, E)
<1>1. PICK x \in Workflows, cs \in Seq(Command) : x = g.task.wf /\ cs = g.replay.commands
  BY InflightType DEF IInv, TypeOK, TaskId
<1> DEFINE n == next_seq[x]
           ev(i) == CommandEvent(n + i - 1, cs[i])
           E == {ev(i) : i \in DOMAIN cs}
<1>2. Acceptable(x, cs) /\ status'[x] = "running" /\ history'[x] = history[x] \cup E
  <2>1. /\ Acceptable(g.task.wf, g.replay.commands) /\ status'[g.task.wf] = "running"
        /\ history'[g.task.wf] = history[g.task.wf] \cup
             {CommandEvent(next_seq[g.task.wf] + i - 1, g.replay.commands[i])
                : i \in DOMAIN g.replay.commands}
    BY CommandRows
  <2> QED
    BY <1>1, <2>1
<1>3. \A i \in DOMAIN cs : /\ ev(i).cmd = cs[i].cmd /\ ev(i).tag = TagOf(cs[i])
                           /\ ev(i).type \in ScheduleEvents /\ Writes(ev(i), cs[i])
  <2>1. \A i \in DOMAIN cs : cs[i] \in Command
    OBVIOUS
  <2>2. \A i \in DOMAIN cs : ev(i).cmd = cs[i].cmd /\ ev(i).tag = TagOf(cs[i])
                             /\ ev(i).type = EventOf[cs[i].kind]
    BY DEF CommandEvent, Ev, TagOf
  <2>3. EventOf = EventFor
    BY DEF EventOf, EventFor
  <2>4. \A i \in DOMAIN cs : ev(i).type \in ScheduleEvents
    BY <2>1, CommandTypes DEF CommandEvent, Ev
  <2> QED
    BY <2>2, <2>3, <2>4 DEF Writes, TagOf
<1> HIDE DEF ev
<1>4. Signatures(E) = Commanded(cs)
  BY <1>3 DEF Signatures, Commanded
<1>5. Scheduled(history[x] \cup E) = Scheduled(history[x]) \cup E
  BY <1>3 DEF Scheduled
<1> HIDE DEF E
<1>6. g.replay.status = "commands"
  BY DEF CommitCommands
<1>7. Enters(x, cs)
  <2>1. \A e \in E : \E i \in DOMAIN cs : Writes(e, cs[i]) /\ e.type \in ScheduleEvents
    BY <1>3 DEF E
  <2>2. \A i \in DOMAIN cs : ev(i) \in E
    BY DEF E
  <2> QED
    BY <1>2, <1>3, <1>5, <2>1, <2>2 DEF Enters, Scheduled
<1>8. Carries(x, g, E)
  BY <1>1, <1>2, <1>4, <1>5, <1>6, <1>7 DEF Carries
<1> QED
  BY <1>1, <1>8

LEMMA CommandsAdvance ==
  ASSUME IInv, NEW g \in inflight, CommitCommands(g), NEW w \in Workflows, Running(w)
  PROVE  Advance(w)
<1>1. PICK x \in Workflows, cs \in Seq(Command) : x = g.task.wf /\ cs = g.replay.commands
  BY InflightType DEF IInv, TypeOK, TaskId
<1>2. status'[x] = "running"
  BY <1>1, CommandRows
<1>3. w # x => history'[w] = history[w] /\ status'[w] = "running"
  <2>1. \A y \in {Child(x, cs[i].cmd) : i \in Emitted(g, "child")} : status[y] = "absent"
    BY <1>1, CommandRows
  <2>2. \A y \in Workflows \ ({Child(x, cs[i].cmd) : i \in Emitted(g, "child")} \cup {x}) : Kept(y)
    BY <1>1, CommandRows
  <2> QED
    BY <2>1, <2>2 DEF Kept, Running
<1> QED
  BY <1>1, <1>2, <1>3, CommandsCarry DEF Advance

\* Every step.
LEMMA AdvanceStep ==
  ASSUME IInv, [Next]_vars, NEW w \in Workflows, Running(w)
  PROVE  Advance(w)
<1>1. CASE Still
  BY <1>1 DEF Still, Advance, Running
<1>2. ASSUME NEW x \in Workflows, StartWorkflow(x) \/ Noted(x) \/ RequestCancellation(x)
      PROVE  Advance(w)
  <2>1. PICK type \in {"WorkflowExecutionStarted", "WorkflowExecutionPaused",
                       "WorkflowExecutionResumed", "SignalReceived",
                       "WorkflowUpdateReceived", "WorkflowCancellationRequested"} :
          \E tag : \E final \in BOOLEAN : Record(x, type, NoCommand, tag, final)
    BY <1>2, ClientEvent
  <2>2. status'[w] = "running"
    BY <1>2, ClientEvent DEF Running
  <2>3. type \notin ScheduleEvents
    BY DEF ScheduleEvents
  <2> QED
    BY <2>1, <2>2, <2>3, RecordAdvance
<1>3. ASSUME NEW c \in claims, LeaseActivity(c) \/ FireTimer(c) PROVE Advance(w)
  <2>1. PICK type \in {"ActivityStarted", "TimerFired"} :
          Record(c.task.wf, type, c.task.cmd, NoTag, TRUE)
    BY <1>3 DEF LeaseActivity, FireTimer
  <2>2. c.task.wf \in Workflows /\ status'[w] = "running"
    BY <1>3 DEF LeaseActivity, FireTimer, IInv, TypeOK, TaskId, Running
  <2>3. type \notin ScheduleEvents
    BY DEF ScheduleEvents
  <2>4. \E final \in BOOLEAN : Record(c.task.wf, type, c.task.cmd, NoTag, final)
    BY <2>1
  <2> QED
    BY <2>2, <2>3, <2>4, RecordAdvance
<1>4. ASSUME NEW t, NEW type, NEW final, NEW s, NEW u, Reported(t, type, final, s, u)
      PROVE  Advance(w)
  <2>1. /\ t.wf \in Workflows /\ status'[w] = "running" /\ final \in BOOLEAN
        /\ Record(t.wf, type, t.cmd, NoTag, final)
    BY <1>4 DEF Reported, IInv, TypeOK, TaskId, Running
  <2>2. type \notin ScheduleEvents
    BY <1>4 DEF Reported, ActivityOutcomes, ScheduleEvents
  <2> QED
    BY <2>1, <2>2, RecordAdvance
<1> QED
  BY <1>1, <1>2, <1>3, <1>4, NextCases, ClosingAdvance, CommandsAdvance

\* Some command of the replay has been scheduled meanwhile.
Stale(h) ==
  h.replay.status = "commands" /\
  \E i \in DOMAIN h.replay.commands, e \in Scheduled(history[h.task.wf]) :
    e.cmd = h.replay.commands[i].cmd

\* A replay result in a worker's memory is what the history calls for, or it is
\* stale and the unique index will refuse it.
Current(h) ==
  h.replay.status \in Actionable =>
    /\ status[h.task.wf] # "absent"
    /\ Running(h.task.wf) => h.replay = Decision(h.task.wf) \/ Stale(h)

WorkInv == IInv /\ \A h \in inflight : Current(h)

\* The action of DecisionsStable.
StableStep ==
  \A w \in Workflows :
    /\ Running(w) /\ Running(w)' /\ Decision(w).status \in Actionable
    /\ Scheduled(history'[w]) = Scheduled(history[w])
    => Decision(w)' = Decision(w)

\* What a worker remembers after a step: what it remembered, a task it has just
\* leased, or the replay it has just made.
LEMMA Remembers ==
  ASSUME IInv, [Next]_vars, NEW h \in inflight'
  PROVE  \/ h \in inflight
         \/ h.replay = NotReplayed
         \/ h.task.wf \in Workflows /\ Running(h.task.wf) /\ UNCHANGED execVars
            /\ h.replay = Decision(h.task.wf)
<1>1. CASE ClientStep
  BY <1>1, ClientTokens
<1>2. ASSUME NEW c \in claims, Lease(c) PROVE h \in inflight \/ h.replay = NotReplayed
  BY <1>2 DEF Lease
<1>3. CASE PollStep
  BY <1>2, <1>3, PollTokens
<1>4. ASSUME NEW g \in inflight, LoadAndReplay(g), h \notin inflight
      PROVE  /\ h.task.wf \in Workflows /\ Running(h.task.wf) /\ UNCHANGED execVars
             /\ h.replay = Decision(h.task.wf)
  <2> DEFINE r == Replay(g.task.wf, history[g.task.wf])
  <2>1. g \in [task : TaskId, token : Nat, replay : ReplayResult]
    BY DEF IInv, TypeOK
  <2>2. Running(g.task.wf) /\ UNCHANGED execVars /\ h = [g EXCEPT !.replay = r]
    BY <1>4 DEF LoadAndReplay
  <2> HIDE DEF r
  <2>3. h.task = g.task /\ h.replay = r /\ g.task.wf \in Workflows
    BY <2>1, <2>2 DEF TaskId
  <2> QED
    BY <2>2, <2>3 DEF r, Decision
<1>5. CASE WorkerStep
  BY <1>4, <1>5, WorkTokens DEF WorkerStep
<1>6. CASE TimeStep
  BY <1>6, PassesTokens DEF TimeStep, Elapse
<1>7. CASE FaultStep
  BY <1>7, WorkTokens, PassesTokens DEF FaultStep, Stall, AbortClaim
<1>8. CASE \E g \in inflight : HeartbeatActivity(g)
  BY <1>8, WorkTokens
<1>9. CASE UNCHANGED vars
  BY <1>9 DEF vars
<1> QED
  BY <1>1, <1>3, <1>5, <1>6, <1>7, <1>8, <1>9 DEF Next, EngineStep

\* Commands that the database accepts are what the history calls for.
LEMMA AcceptedCurrent ==
  ASSUME WorkInv, NEW w \in Workflows, Running(w), NEW g \in inflight, g.task.wf = w,
         g.replay.status = "commands", Acceptable(w, g.replay.commands)
  PROVE  g.replay = Decision(w)
<1>1. ~Stale(g)
  BY DEF Stale, Acceptable
<1>2. Current(g)
  BY DEF WorkInv
<1> QED
  BY <1>1, <1>2 DEF Current, Actionable

\* What a step does to a replay result in memory.
LEMMA CurrentStep ==
  ASSUME WorkInv, [Next]_vars, StableStep, NEW h \in inflight
  PROVE  Current(h)'
<1>0. IInv /\ Current(h)
  BY DEF WorkInv
<1>1. PICK w \in Workflows : w = h.task.wf
  BY <1>0 DEF IInv, TypeOK, TaskId
<1> SUFFICES ASSUME h.replay.status \in Actionable
             PROVE  /\ status'[w] # "absent"
                    /\ status'[w] = "running" => h.replay = Replay(w, history'[w]) \/ Stale(h)'
  BY <1>1 DEF Current, Running, Decision
<1>2. status[w] # "absent" /\ (Running(w) => h.replay = Decision(w) \/ Stale(h))
  BY <1>0, <1>1 DEF Current
<1>3. CASE Closed(w)
  <2>1. status'[w] = status[w]
    BY <1>0, <1>3, FinalStep DEF Kept
  <2> QED
    BY <1>2, <1>3, <2>1 DEF Closed
<1>4. CASE Running(w)
  <2>1. Scheduled(history'[w]) = Scheduled(history[w]) => (Stale(h) => Stale(h)')
    BY <1>1 DEF Stale
  <2>2. ASSUME Scheduled(history'[w]) = Scheduled(history[w]), status'[w] = "running"
        PROVE  h.replay = Replay(w, history'[w]) \/ Stale(h)'
    BY <1>2, <1>4, <2>1, <2>2 DEF StableStep, Running, Decision
  <2>3. ASSUME NEW g \in inflight, NEW E, Carries(w, g, E)
        PROVE  Stale(h)'
    <3>1. Scheduled(history'[w]) = Scheduled(history[w]) \cup E
      BY <2>3 DEF Carries
    <3>2. CASE Stale(h)
      BY <1>1, <3>1, <3>2 DEF Stale
    <3>3. CASE h.replay = Decision(w)
      <4>1. g.replay = h.replay /\ h.replay.status = "commands"
            /\ Acceptable(w, h.replay.commands)
        BY <1>4, <2>3, <3>3, AcceptedCurrent DEF Carries
      <4>2. h.replay.commands \in Seq(Command) /\ h.replay.commands # <<>>
        BY <1>0, <4>1, InflightType DEF Acceptable
      <4>3. 1 \in DOMAIN h.replay.commands
        BY <4>2
      <4>4. <<h.replay.commands[1].cmd, TagOf(h.replay.commands[1])>> \in Signatures(E)
        BY <2>3, <4>1, <4>3 DEF Carries, Commanded
      <4>5. PICK e \in E : e.cmd = h.replay.commands[1].cmd
        BY <4>4 DEF Signatures
      <4>6. e \in Scheduled(history'[w])
        BY <3>1
      <4> QED
        BY <1>1, <4>1, <4>3, <4>5, <4>6 DEF Stale
    <3> QED
      BY <1>2, <1>4, <3>2, <3>3
  <2>4. Advance(w)
    BY <1>0, <1>4, AdvanceStep
  <2> QED
    BY <2>2, <2>3, <2>4 DEF Advance
<1>5. status[w] \in {"absent", "running", "completed", "failed", "terminated"}
  BY <1>0 DEF IInv, TypeOK
<1> QED
  BY <1>2, <1>3, <1>4, <1>5 DEF Closed, Running

LEMMA WorkStep == ASSUME WorkInv, [Next]_vars, StableStep PROVE WorkInv'
<1>0. IInv /\ IInv'
  BY StepOK DEF WorkInv
<1> SUFFICES ASSUME NEW h \in inflight' PROVE Current(h)'
  BY <1>0 DEF WorkInv
<1>1. CASE h \in inflight
  BY <1>1, CurrentStep
<1>2. CASE h.replay = NotReplayed
  BY <1>2 DEF Current, NotReplayed, Actionable
<1>3. CASE /\ h.task.wf \in Workflows /\ Running(h.task.wf) /\ UNCHANGED execVars
           /\ h.replay = Decision(h.task.wf)
  BY <1>3 DEF Current, Running, Decision, execVars
<1> QED
  BY <1>0, <1>1, <1>2, <1>3, Remembers

\* What a step commits for w.
CommitsRight(w) ==
  LET new == Scheduled(history'[w]) \ Scheduled(history[w]) IN
  /\ new # {} =>
       /\ Decision(w).status = "commands"
       /\ Signatures(new) = Commanded(Decision(w).commands)
  /\ new = {} /\ status'[w] \in {"completed", "failed"} => Decision(w).status = status'[w]

LEMMA RightStep ==
  ASSUME WorkInv, [Next]_vars, NEW w \in Workflows, Running(w)
  PROVE  CommitsRight(w)
<1>0. IInv
  BY DEF WorkInv
<1>1. Advance(w)
  BY <1>0, AdvanceStep
<1>2. CASE /\ Scheduled(history'[w]) = Scheduled(history[w])
           /\ status'[w] \in {"running", "terminated"}
  BY <1>2 DEF CommitsRight
<1>3. ASSUME Scheduled(history'[w]) = Scheduled(history[w]), status'[w] \in {"completed", "failed"},
             NEW g \in inflight, g.task.wf = w, g.replay.status = status'[w]
      PROVE  CommitsRight(w)
  <2>1. ~Stale(g) /\ g.replay.status \in Actionable
    BY <1>3 DEF Stale, Actionable
  <2>2. g.replay = Decision(w)
    BY <1>3, <2>1 DEF WorkInv, Current
  <2> QED
    BY <1>3, <2>2 DEF CommitsRight
<1>4. ASSUME NEW g \in inflight, NEW E, Carries(w, g, E)
      PROVE  CommitsRight(w)
  <2>1. g.replay = Decision(w) /\ Decision(w).status = "commands"
        /\ Acceptable(w, Decision(w).commands)
    BY <1>4, AcceptedCurrent DEF Carries
  <2>2. /\ Scheduled(history'[w]) = Scheduled(history[w]) \cup E
        /\ Signatures(E) = Commanded(Decision(w).commands)
    BY <1>4, <2>1 DEF Carries
  <2> DEFINE cs == Decision(w).commands
  <2>3. \A i \in DOMAIN cs : \A e \in Scheduled(history[w]) : e.cmd # cs[i].cmd
    BY <2>1 DEF Acceptable
  <2> HIDE DEF cs
  <2>4. \A e \in E : \E i \in DOMAIN cs : e.cmd = cs[i].cmd
    <3> TAKE e \in E
    <3>1. <<e.cmd, e.tag>> \in Commanded(cs)
      BY <2>2 DEF Signatures, cs
    <3> QED
      BY <3>1 DEF Commanded
  <2>5. E \cap Scheduled(history[w]) = {}
    BY <2>3, <2>4
  <2>6. Scheduled(history'[w]) \ Scheduled(history[w]) = E
    BY <2>2, <2>5
  <2>7. E # {}
    <3>1. cs \in Seq(Command) /\ cs # <<>>
      BY <1>0, <2>1, InflightType DEF Acceptable, cs
    <3>2. 1 \in DOMAIN cs
      BY <3>1
    <3>3. <<cs[1].cmd, TagOf(cs[1])>> \in Signatures(E)
      BY <2>2, <3>2 DEF Commanded, cs
    <3> QED
      BY <3>3 DEF Signatures
  <2> QED
    BY <2>1, <2>2, <2>6, <2>7 DEF CommitsRight
<1> QED
  BY <1>1, <1>2, <1>3, <1>4 DEF Advance

\* What is committed is what replaying the committed history decides, although
\* several workers may have replayed the execution, each on a shorter history:
\* it suffices that outside events do not change a decision of the code
\* (DecisionsStable, which TLC checks of the code in the runs).  A result that
\* another worker's commit has overtaken is refused by the unique index on
\* scheduled commands.
THEOREM CommitsFaithful == Spec /\ DecisionsStable => CommitsMatchReplay
<1>1. Init => WorkInv
  BY InitOK DEF Init, WorkInv
<1>2. WorkInv /\ [Next]_vars /\ [StableStep]_vars => WorkInv'
  <2>1. CASE UNCHANGED vars
    <3>1. StableStep
      BY <2>1 DEF StableStep, Decision, vars, execVars
    <3> QED
      BY <3>1, WorkStep
  <2> QED
    BY <2>1, WorkStep
<1>3. WorkInv /\ [Next]_vars => [\A w \in Workflows : status[w] = "running" => CommitsRight(w)]_vars
  BY RightStep DEF Running
<1>4. (\A w \in Workflows : status[w] = "running" => CommitsRight(w)) =>
       \A w \in Workflows : status[w] = "running" =>
       LET new == Scheduled(history'[w]) \ Scheduled(history[w]) IN
       /\ new # {} =>
            /\ Decision(w).status = "commands"
            /\ {<<e.cmd, e.tag>> : e \in new} =
               {<<Decision(w).commands[i].cmd,
                  IF Decision(w).commands[i].kind = "resolve"
                  THEN Decision(w).commands[i].upd ELSE Decision(w).commands[i].fp>>
                  : i \in DOMAIN Decision(w).commands}
       /\ new = {} /\ status'[w] \in {"completed", "failed"} =>
            Decision(w).status = status'[w]
  BY DEF CommitsRight, Signatures, Commanded, TagOf
<1> QED
  BY <1>1, <1>2, <1>3, <1>4, PTL DEF Spec, DecisionsStable, StableStep, CommitsMatchReplay

(***************************************************************************)
(* Executions of sequential code.                                          *)
(***************************************************************************)

\* Replay is replay_workflow of the sequential program code[w].
Runs(code) ==
  \A w \in Workflows :
    Sequential(code[w]) /\ \A H : Replay(w, H) = ReplayWorkflow(code[w], H)

\* Every history has been written by its program.
WrittenBy(code) ==
  \A w \in Workflows : status[w] # "absent" => Consistent(code[w], history[w])

\* A closed execution has the status its history replays to.
EndsAsReplayed ==
  \A w \in Workflows : status[w] \in {"completed", "failed"} => Decision(w).status = status[w]

CodeInv(code) == WorkInv /\ WrittenBy(code) /\ EndsAsReplayed

\* What the invariants say of a history is what the lemmas about code require.
AllValid == \A w \in Workflows : Valid(history[w])

LEMMA ValidHistory == HInv => AllValid
<1> SUFFICES ASSUME HInv, NEW w \in Workflows PROVE Valid(history[w])
  BY DEF AllValid
<1>1. RecordInv /\ TypeOK
  BY DEF HInv, RecordInv, FamilyInv, IInv
<1>2. IsFiniteSet(history[w])
  BY <1>1, FiniteHistory
<1>3. \A e \in history[w] : e.seq \in Nat /\ e.cmd \in Nat \cup {NoCommand}
  BY <1>1 DEF TypeOK, Event
<1> QED
  BY <1>2, <1>3, Accepted DEF Valid

LEMMA ValidLater == HInv' => AllValid'
  BY ValidHistory, PTL

\* Histories only grow.
LEMMA HistoryExtends ==
  ASSUME HInv, HInv', [Next]_vars, NEW w \in Workflows, status[w] # "absent"
  PROVE  Extends(history[w], history'[w])
<1>1. RecordInv
  BY DEF HInv
<1>2. history[w] \subseteq history'[w]
  <2>1. CASE Same(w)
    BY <2>1 DEF Same, Kept
  <2>2. CASE Born(w)
    BY <2>2 DEF Born
  <2>3. CASE \E A : Grows(w, A)
    BY <2>3 DEF Grows, Appended
  <2>4. CASE \E A : Dies(w, A)
    BY <2>4 DEF Dies, Appended
  <2> QED
    BY <1>1, <2>1, <2>2, <2>3, <2>4, Changes
<1>3. Valid(history[w]) /\ Valid(history'[w])
  BY ValidHistory, ValidLater DEF AllValid
<1> QED
  BY <1>2, <1>3 DEF Extends

\* Outside events do not change what sequential code has decided.
LEMMA CodeStable ==
  ASSUME NEW code, Runs(code), HInv, HInv', CodeInv(code), [Next]_vars
  PROVE  StableStep
<1> SUFFICES ASSUME NEW w \in Workflows, Running(w), Decision(w).status \in Actionable,
                    Scheduled(history'[w]) = Scheduled(history[w])
             PROVE  Replay(w, history'[w]) = Replay(w, history[w])
  BY DEF StableStep, Decision
<1>1. Sequential(code[w]) /\ \A H : Replay(w, H) = ReplayWorkflow(code[w], H)
  BY DEF Runs
<1>2. Extends(history[w], history'[w])
  BY HistoryExtends DEF Running
<1>3. Outside(history[w], history'[w]) /\ Consistent(code[w], history[w])
  BY <1>2 DEF Outside, CodeInv, WrittenBy, Running
<1>4. ReplayWorkflow(code[w], history[w]).status # "blocked"
  BY <1>1 DEF Decision, Actionable
<1> QED
  BY <1>1, <1>3, <1>4, OutsideDecision

\* A commit writes down the commands the history calls for.
LEMMA CarriesCommits ==
  ASSUME NEW code, Runs(code), HInv, HInv', CodeInv(code), [Next]_vars, NEW w \in Workflows,
         Running(w), NEW g \in inflight, NEW E, Carries(w, g, E)
  PROVE  /\ ReplayWorkflow(code[w], history[w]) = g.replay
         /\ ReplayWorkflow(code[w], history[w]).status = "commands"
         /\ Commits(history[w], history'[w], ReplayWorkflow(code[w], history[w]).commands)
<1>1. g.replay = Decision(w) /\ g.replay.status = "commands" /\ Enters(w, g.replay.commands)
  BY AcceptedCurrent DEF Carries, CodeInv
<1>2. Decision(w) = ReplayWorkflow(code[w], history[w])
  BY DEF Runs, Decision
<1>3. Extends(history[w], history'[w])
  BY HistoryExtends DEF Running
<1>4. Commits(history[w], history'[w], g.replay.commands)
  BY <1>1, <1>3 DEF Commits, Enters
<1> QED
  BY <1>1, <1>2, <1>4

\* What a step does to the record of a running execution.
LEMMA WrittenStep ==
  ASSUME NEW code, Runs(code), HInv, HInv', CodeInv(code), [Next]_vars, NEW w \in Workflows,
         Running(w)
  PROVE  /\ Consistent(code[w], history'[w])
         /\ status'[w] \in {"completed", "failed"} => Replay(w, history'[w]).status = status'[w]
<1>0. IInv /\ WorkInv /\ Sequential(code[w]) /\ \A H : Replay(w, H) = ReplayWorkflow(code[w], H)
  BY DEF Runs, CodeInv, WorkInv
<1>1. Consistent(code[w], history[w]) /\ Extends(history[w], history'[w])
  BY HistoryExtends DEF CodeInv, WrittenBy, Running
<1>2. ASSUME Scheduled(history'[w]) = Scheduled(history[w])
      PROVE  /\ Consistent(code[w], history'[w])
             /\ status'[w] \in {"completed", "failed"} =>
                  Replay(w, history'[w]).status = status'[w]
  <2>1. Outside(history[w], history'[w])
    BY <1>1, <1>2 DEF Outside
  <2>2. Consistent(code[w], history'[w])
    BY <1>0, <1>1, <2>1, OutsideConsistent
  <2>3. ASSUME status'[w] \in {"completed", "failed"}
        PROVE  Replay(w, history'[w]).status = status'[w]
    <3>1. Decision(w).status = status'[w]
      BY <1>0, <1>2, <2>3, RightStep DEF CommitsRight
    <3>2. ReplayWorkflow(code[w], history[w]).status # "blocked"
      BY <1>0, <2>3, <3>1 DEF Decision
    <3>3. ReplayWorkflow(code[w], history'[w]) = ReplayWorkflow(code[w], history[w])
      BY <1>0, <1>1, <2>1, <3>2, OutsideDecision
    <3> QED
      BY <1>0, <3>1, <3>3 DEF Decision
  <2> QED
    BY <2>2, <2>3
<1>3. ASSUME NEW g \in inflight, NEW E, Carries(w, g, E), status'[w] \in {"running", "completed"}
      PROVE  /\ Consistent(code[w], history'[w])
             /\ status'[w] \in {"completed", "failed"} =>
                  Replay(w, history'[w]).status = status'[w]
  <2> DEFINE r == ReplayWorkflow(code[w], history[w])
  <2>1. r = g.replay /\ r.status = "commands" /\ Commits(history[w], history'[w], r.commands)
    BY <1>3, CarriesCommits
  <2>2. Consistent(code[w], history'[w])
    BY <1>0, <1>1, <2>1, CommitConsistent
  <2>3. ASSUME status'[w] = "completed" PROVE Replay(w, history'[w]).status = "completed"
    <3>1. \A i \in DOMAIN r.commands : r.commands[i].kind = "continue"
      BY <1>3, <2>1, <2>3 DEF Carries
    <3>2. ReplayWorkflow(code[w], history'[w]).status = "completed"
      BY <1>0, <1>1, <2>1, <3>1, CommitEnds
    <3> QED
      BY <1>0, <3>2
  <2> QED
    BY <1>3, <2>2, <2>3
<1>4. Advance(w)
  BY <1>0, AdvanceStep
<1> QED
  BY <1>2, <1>3, <1>4 DEF Advance

\* The record of a new execution calls for nothing yet.
LEMMA BornWritten ==
  ASSUME NEW code, Runs(code), HInv', NEW w \in Workflows, Born(w)
  PROVE  Consistent(code[w], history'[w])
<1>1. Valid(history'[w])
  BY ValidLater DEF AllValid
<1>2. Scheduled(history'[w]) = {}
  BY DEF Born, Scheduled, Plain, Ev, ScheduleEvents
<1> QED
  BY <1>1, <1>2, StartConsistent DEF Runs

\* Every step keeps the invariant.
LEMMA CodeStep ==
  ASSUME NEW code, Runs(code), HInv, HInv', CodeInv(code), [Next]_vars
  PROVE  CodeInv(code)'
<1>0. IInv /\ RecordInv /\ WorkInv
  BY DEF HInv, RecordInv, FamilyInv, CodeInv
<1>1. WorkInv'
  BY <1>0, CodeStable, WorkStep
<1>2. ASSUME NEW w \in Workflows, status'[w] # "absent"
      PROVE  /\ Consistent(code[w], history'[w])
             /\ status'[w] \in {"completed", "failed"} =>
                  Replay(w, history'[w]).status = status'[w]
  <2>1. CASE status[w] = "absent"
    <3>1. Born(w)
      BY <1>0, <1>2, <2>1, Changes DEF Same, Kept, Grows, Dies, Running
    <3> QED
      BY <3>1, BornWritten DEF Born
  <2>2. CASE Closed(w)
    <3>1. history'[w] = history[w] /\ status'[w] = status[w]
      BY <1>0, <2>2, FinalStep DEF Kept
    <3> QED
      BY <1>2, <3>1 DEF CodeInv, WrittenBy, EndsAsReplayed, Decision
  <2>3. CASE Running(w)
    BY <2>3, WrittenStep
  <2>4. status[w] \in {"absent", "running", "completed", "failed", "terminated"}
    BY <1>0 DEF IInv, TypeOK
  <2> QED
    BY <2>1, <2>2, <2>3, <2>4 DEF Closed, Running
<1>3. WrittenBy(code)' /\ EndsAsReplayed'
  BY <1>2 DEF WrittenBy, EndsAsReplayed, Decision
<1> QED
  BY <1>1, <1>3 DEF CodeInv

LEMMA Written ==
  ASSUME NEW code, Runs(code)
  PROVE  Spec => [](HInv /\ CodeInv(code))
<1>1. Init => CodeInv(code)
  <2>1. Init => WorkInv
    BY InitOK DEF Init, WorkInv
  <2>2. Init => WrittenBy(code) /\ EndsAsReplayed
    BY DEF Init, WrittenBy, EndsAsReplayed
  <2> QED
    BY <2>1, <2>2 DEF CodeInv
<1>2. HInv /\ HInv' /\ CodeInv(code) /\ [Next]_vars => CodeInv(code)'
  BY CodeStep
<1> QED
  BY <1>1, <1>2, AllKept, PTL DEF Spec

\* What a worker has decided stays what the history calls for: signals,
\* outcomes, requests and pauses that are appended before it commits change
\* nothing, whatever sequential code the executions run.
THEOREM DecisionsKept == ASSUME NEW code, Runs(code) PROVE Spec => DecisionsStable
<1>1. HInv /\ HInv' /\ CodeInv(code) /\ [Next]_vars => [StableStep]_vars
  BY CodeStable
<1> QED
  BY <1>1, Written, PTL DEF Spec, DecisionsStable, StableStep

\* What is committed is what replaying the committed history decides.
THEOREM CommitsOfCode == ASSUME NEW code, Runs(code) PROVE Spec => CommitsMatchReplay
  BY DecisionsKept, CommitsFaithful, PTL

\* A history passes the replay check against its own code, open or closed: the
\* code never meets a command it did not issue, and a closed execution replays
\* to the status it was closed with.
THEOREM RecordsReplay == ASSUME NEW code, Runs(code) PROVE Spec => []RecordReplays
<1>1. HInv /\ CodeInv(code) => RecordReplays
  <2> SUFFICES ASSUME HInv, CodeInv(code), NEW w \in Workflows, status[w] # "absent"
               PROVE  ReplayCheck(w)
    BY DEF RecordReplays
  <2>1. ReplayWorkflow(code[w], history[w]).status # "diverged"
    BY ValidHistory, ConsistentReplays DEF AllValid, Runs, CodeInv, WrittenBy
  <2>2. Decision(w).status # "diverged"
    BY <2>1 DEF Runs, Decision
  <2> QED
    BY <2>2 DEF ReplayCheck, CodeInv, EndsAsReplayed
<1> QED
  BY <1>1, Written, PTL

(***************************************************************************)
(* Wake-ups.                                                               *)
(***************************************************************************)

\* A workflow task is keyed by the number of an event that has been recorded.
WakeKeys == \A t \in DOMAIN tasks : t.kind = "workflow" => t.n < next_seq[t.wf]

\* No worker that holds the task has found that there is nothing to do.
Promising(t) ==
  \A h \in inflight : h.task = t /\ h.token = tasks[t].token => h.replay.status # "blocked"

\* The row can still make a worker replay its execution.
Hopeful(t) == Open(t) /\ (t.kind = "workflow" => Promising(t))

\* An execution that can move forward has such a row; a timer counts only for
\* code that waits with a timeout.
Awake(code) ==
  \A w \in Workflows : Running(w) /\ Decision(w).status \in Actionable =>
    \E t \in DOMAIN tasks :
      /\ t.wf = w /\ Hopeful(t)
      /\ t.kind = "workflow" \/ (t.kind = "timer" /\ ~Untimed(code[w]))

\* What a step does to the rows of w: a new workflow task, or none is lost.
Fresh(w) == \E t \in DOMAIN tasks' : t.wf = w /\ t.kind = "workflow" /\ Hopeful(t)'

Keeps(w) ==
  \A t \in DOMAIN tasks :
    t.wf = w /\ t.kind \in {"workflow", "timer"} /\ Hopeful(t) => t \in DOMAIN tasks' /\ Hopeful(t)'

\* Nothing is appended that a blocked replay may wait for.
Quiet(w) == \A e \in history'[w] \ history[w] : ~Rouses(e)

Alert(w) ==
  \/ Fresh(w)
  \/ Running(w) /\ Quiet(w) /\ (Decision(w).status # "blocked" => Keeps(w))

NewKeys == \A t \in DOMAIN tasks' \ DOMAIN tasks : t.kind = "workflow" => t.n < next_seq'[t.wf]

\* A step that closes no row and makes no worker remember more.
LEMMA OpenKeeps ==
  ASSUME TokensKept(tasks, tasks'), inflight' \subseteq inflight,
         \A t \in DOMAIN tasks : Open(t) => Open(t)', NEW w
  PROVE  Keeps(w)
  BY DEF Keeps, Hopeful, Promising, TokensKept

\* A step that closes no hopeful row of w.
LEMMA QueuedKeeps ==
  ASSUME NEW S, NEW s, NEW ids, Queued(S, s, ids), inflight' \subseteq inflight, NEW w,
         \A t \in S : ~(t.wf = w /\ t.kind \in {"workflow", "timer"} /\ Hopeful(t))
  PROVE  Keeps(w)
<1> SUFFICES ASSUME NEW t \in DOMAIN tasks, t.wf = w, t.kind \in {"workflow", "timer"}, Hopeful(t)
             PROVE  t \in DOMAIN tasks' /\ Hopeful(t)'
  BY DEF Keeps
<1>1. t \in DOMAIN tasks' /\ tasks'[t] = tasks[t]
  BY DEF Queued
<1> QED
  BY <1>1 DEF Hopeful, Promising, Open

\* A new workflow task: no worker holds it yet.
LEMMA QueuedFresh ==
  ASSUME Memories, NEW S, NEW s, NEW ids, Queued(S, s, ids), inflight' \subseteq inflight,
         NEW t \in ids, t \notin DOMAIN tasks, t.kind = "workflow"
  PROVE  Fresh(t.wf)
<1>1. t \in DOMAIN tasks' /\ tasks'[t].status = "pending"
  BY DEF Queued
<1>2. \A h \in inflight' : h.task # t
  BY DEF Memories
<1> QED
  BY <1>1, <1>2 DEF Fresh, Hopeful, Promising, Open

\* Its key is new.
LEMMA FreshKey ==
  ASSUME IInv, WakeKeys, NEW w \in Workflows, NEW n \in Nat, n >= next_seq[w]
  PROVE  /\ WakeUp(w, n) \notin DOMAIN tasks /\ WakeUp(w, n).kind = "workflow"
         /\ WakeUp(w, n).wf = w /\ WakeUp(w, n).n = n
<1>1. WakeUp(w, n).kind = "workflow" /\ WakeUp(w, n).wf = w /\ WakeUp(w, n).n = n
  BY DEF WakeUp
<1>2. next_seq[w] \in Nat
  BY DEF IInv, TypeOK
<1> QED
  BY <1>1, <1>2 DEF WakeKeys

\* A lease does not take hope away: the new holder has not replayed yet.
LEMMA LeaseKeeps ==
  ASSUME OwnerInv, NEW c \in claims, Lease(c), NEW w
  PROVE  Keeps(w) /\ DOMAIN tasks' = DOMAIN tasks
<1> DEFINE u == c.task
           n == tasks[u].token + 1
           r == [status |-> "leased", token |-> n, due |-> {}]
           m == [task |-> u, token |-> n, replay |-> NotReplayed]
<1>1. u \in DOMAIN tasks /\ tasks[u].token \in Nat
  BY DEF OwnerInv, IInv, ClaimsOK, TypeOK, Row
<1>2. tasks' = [tasks EXCEPT ![u] = r] /\ inflight' = inflight \cup {m}
  BY DEF Lease, FreshToken
<1>3. /\ DOMAIN tasks' = DOMAIN tasks /\ tasks'[u].token = n /\ tasks'[u].status = "leased"
      /\ \A t \in DOMAIN tasks \ {u} : tasks'[t] = tasks[t]
  BY <1>1, <1>2 DEF OwnerInv, IInv, TypeOK
<1>4. \A h \in inflight : h.token \in Nat /\ (h.task = u => h.token < n)
  BY <1>1 DEF OwnerInv, IInv, TypeOK, Memories
<1>5. m.task = u /\ m.replay.status # "blocked"
  BY DEF NotReplayed
<1> HIDE DEF m, r, n
<1>6. ASSUME NEW t \in DOMAIN tasks, Hopeful(t) PROVE Hopeful(t)'
  <2>1. CASE t = u
    <3>1. \A h \in inflight' : h.task = t /\ h.token = tasks'[t].token => h = m
      BY <1>2, <1>3, <1>4, <2>1 DEF n
    <3> QED
      BY <1>3, <1>5, <2>1, <3>1 DEF Hopeful, Promising, Open
  <2>2. CASE t # u
    BY <1>2, <1>3, <1>5, <1>6, <2>2 DEF Hopeful, Promising, Open
  <2> QED
    BY <2>1, <2>2
<1> QED
  BY <1>3, <1>6 DEF Keeps

\* A replay that is not blocked does not either.
LEMMA ReplayKeeps ==
  ASSUME IInv, NEW h \in inflight, LoadAndReplay(h), NEW w, Decision(w).status # "blocked"
  PROVE  Keeps(w)
<1> DEFINE r == Replay(h.task.wf, history[h.task.wf])
           m == [h EXCEPT !.replay = r]
<1>1. h \in [task : TaskId, token : Nat, replay : ReplayResult]
  BY DEF IInv, TypeOK
<1>2. inflight' = (inflight \ {h}) \cup {m} /\ tasks' = tasks
  BY DEF LoadAndReplay
<1> HIDE DEF r
<1>3. m.task = h.task /\ m.token = h.token /\ m.replay = r
  BY <1>1
<1> HIDE DEF m
<1>4. h.task.wf = w => m.replay.status # "blocked"
  BY <1>3 DEF r, Decision
<1> QED
  BY <1>2, <1>3, <1>4 DEF Keeps, Hopeful, Promising, Open

\* A worker that has nothing to commit closes only the task it holds.
LEMMA BlockedKeeps ==
  ASSUME IInv, NEW h \in inflight, CommitBlocked(h), NEW w
  PROVE  Keeps(w) /\ DOMAIN tasks' = DOMAIN tasks
<1> DEFINE S == {h.task}
<1>1. tasks' = Close(tasks, S, "completed") /\ inflight' \subseteq inflight
  BY DEF CommitBlocked, Committing
<1>2. Insert(tasks', {}) = tasks'
  <2>1. tasks' = [t \in DOMAIN tasks' |-> tasks'[t]]
    BY <1>1 DEF Close
  <2> QED
    BY <2>1 DEF Insert
<1>3. Queued(S, "completed", {})
  <2>1. \E s \in {"completed", "dead"} : s = "completed" /\ tasks' = Insert(Close(tasks, S, s), {})
    BY <1>1, <1>2
  <2> HIDE DEF S
  <2> QED
    BY <2>1, QueueRows
<1>4. ~Hopeful(h.task)
  BY DEF CommitBlocked, Committing, Live, Hopeful, Promising
<1>5. Keeps(w)
  BY <1>1, <1>3, <1>4, QueuedKeeps
<1>6. DOMAIN tasks' = DOMAIN tasks
  BY <1>3 DEF Queued
<1> QED
  BY <1>5, <1>6

\* A step that records nothing and loses no hopeful row.
Steady ==
  /\ UNCHANGED <<status, history, next_seq>> /\ DOMAIN tasks' = DOMAIN tasks
  /\ \A w \in Workflows : Decision(w).status # "blocked" => Keeps(w)

\* One row is changed but not closed.
LEMMA RowKeeps ==
  ASSUME IInv, NEW t \in DOMAIN tasks, NEW r, r.token = tasks[t].token,
         Open(t) => r.status \in {"pending", "leased"}, tasks' = [tasks EXCEPT ![t] = r],
         inflight' \subseteq inflight
  PROVE  DOMAIN tasks' = DOMAIN tasks /\ \A w : Keeps(w)
<1>1. /\ DOMAIN tasks' = DOMAIN tasks /\ tasks'[t] = r
      /\ \A u \in DOMAIN tasks \ {t} : tasks'[u] = tasks[u]
  BY DEF IInv, TypeOK
<1>2. \A u \in DOMAIN tasks : Open(u) => Open(u)'
  BY <1>1 DEF Open
<1>3. TokensKept(tasks, tasks')
  BY RowTokens
<1> QED
  BY <1>1, <1>2, <1>3, OpenKeeps

\* No row is changed.
LEMMA SameKeeps ==
  ASSUME tasks' = tasks, inflight' \subseteq inflight
  PROVE  DOMAIN tasks' = DOMAIN tasks /\ \A w : Keeps(w)
  BY OpenKeeps DEF TokensKept, Open

LEMMA PollSteady ==
  ASSUME OwnerInv, PollStep
  PROVE  \/ Steady
         \/ \E c \in claims : LeaseActivity(c) \/ FireTimer(c)
         \/ inflight' \subseteq inflight /\ \E t, type, final, s, u : Reported(t, type, final, s, u)
<1>0. IInv
  BY DEF OwnerInv
<1>1. ASSUME NEW t \in DOMAIN tasks, ClaimLease(t) \/ ClaimTimer(t) \/ ClaimTimeout(t)
      PROVE  Steady
  <2>1. UNCHANGED <<execVars, tasks, inflight>>
    BY <1>1 DEF ClaimLease, ClaimTimer, ClaimTimeout, Claim
  <2> QED
    BY <2>1, SameKeeps DEF Steady, execVars
<1>2. ASSUME NEW t \in DOMAIN tasks, ReclaimWorkflowTask(t)
      PROVE  Steady
  <2> DEFINE r == [tasks[t] EXCEPT !.status = "pending", !.due = {"visible"}]
  <2>1. UNCHANGED <<execVars, inflight>> /\ tasks[t] \in Row
    BY <1>0, <1>2 DEF ReclaimWorkflowTask, IInv, TypeOK
  <2>2. r.token = tasks[t].token /\ r.status = "pending"
    BY <2>1 DEF Row
  <2>3. tasks' = [tasks EXCEPT ![t] = r]
    BY <1>0, <1>2, <2>1 DEF ReclaimWorkflowTask, IInv, TypeOK, Row
  <2> HIDE DEF r
  <2> QED
    BY <1>0, <2>1, <2>2, <2>3, RowKeeps DEF Steady, execVars
<1>3. ASSUME NEW c \in claims, LeaseWorkflowTask(c)
      PROVE  Steady
  <2>1. Lease(c) /\ UNCHANGED execVars
    BY <1>3 DEF LeaseWorkflowTask
  <2> QED
    BY <2>1, LeaseKeeps DEF Steady, execVars
<1>4. ASSUME NEW c \in claims, TimeOutActivity(c)
      PROVE  inflight' \subseteq inflight /\ \E t, type, final, s, u : Reported(t, type, final, s, u)
  <2>1. inflight' = inflight
    BY <1>4 DEF TimeOutActivity
  <2> QED
    BY <1>0, <1>4, <2>1, TimeOutReports
<1> QED
  BY <1>1, <1>2, <1>3, <1>4 DEF PollStep

LEMMA WorkSteady ==
  ASSUME OwnerInv, NEW h \in inflight,
         \/ CompleteActivity(h) \/ FailActivity(h) \/ LoadAndReplay(h) \/ CommitBlocked(h)
         \/ Abandon(h) \/ Crash(h) \/ ReleaseWorkflowTask(h) \/ HeartbeatActivity(h)
  PROVE  \/ Steady
         \/ inflight' \subseteq inflight /\ \E t, type, final, s, u : Reported(t, type, final, s, u)
<1> DEFINE t == h.task
<1>0. IInv /\ t \in TaskId /\ (Live(h) => t \in DOMAIN tasks /\ tasks[t] \in Row /\ Open(t))
  BY DEF OwnerInv, Live, IInv, TypeOK, Open
<1>1. CASE CompleteActivity(h) \/ FailActivity(h)
  <2>1. inflight' \subseteq inflight
    BY <1>1 DEF CompleteActivity, FailActivity, Reporting
  <2> QED
    BY <1>0, <1>1, <2>1, WorkerReports
<1>2. CASE LoadAndReplay(h)
  <2>1. UNCHANGED <<execVars, tasks>>
    BY <1>2 DEF LoadAndReplay
  <2> QED
    BY <1>0, <1>2, <2>1, ReplayKeeps DEF Steady, execVars
<1>3. CASE CommitBlocked(h)
  <2>1. UNCHANGED execVars
    BY <1>3 DEF CommitBlocked
  <2> QED
    BY <1>0, <1>3, <2>1, BlockedKeeps DEF Steady, execVars
<1>4. CASE Abandon(h) \/ Crash(h)
  <2>1. UNCHANGED <<execVars, tasks>> /\ inflight' \subseteq inflight
    BY <1>4 DEF Abandon, Crash
  <2> QED
    BY <2>1, SameKeeps DEF Steady, execVars
<1>5. CASE ReleaseWorkflowTask(h)
  <2> DEFINE r == [tasks[t] EXCEPT !.status = "pending", !.due = {}]
  <2>1. /\ UNCHANGED execVars /\ inflight' \subseteq inflight /\ t \in DOMAIN tasks
        /\ tasks[t] \in Row
    BY <1>0, <1>5 DEF ReleaseWorkflowTask
  <2>2. r.token = tasks[t].token /\ r.status = "pending"
    BY <2>1 DEF Row
  <2>3. tasks' = [tasks EXCEPT ![t] = r]
    BY <1>0, <1>5, <2>1 DEF ReleaseWorkflowTask, IInv, TypeOK, Row
  <2> HIDE DEF r, t
  <2> QED
    BY <1>0, <2>1, <2>2, <2>3, RowKeeps DEF Steady, execVars
<1>6. CASE HeartbeatActivity(h)
  <2> DEFINE r == [tasks[t] EXCEPT !.due = @ \ {"heartbeat", "lease"}]
  <2>1. /\ UNCHANGED execVars /\ inflight' \subseteq inflight /\ t \in DOMAIN tasks
        /\ tasks[t] \in Row /\ Open(t)
    BY <1>0, <1>6 DEF HeartbeatActivity
  <2>2. r.token = tasks[t].token /\ r.status = tasks[t].status
    BY <2>1 DEF Row
  <2>3. tasks' = [tasks EXCEPT ![t] = r]
    BY <1>0, <1>6, <2>1 DEF HeartbeatActivity, IInv, TypeOK, Row
  <2>4. r.status \in {"pending", "leased"}
    BY <2>1, <2>2 DEF Open
  <2> HIDE DEF r, t
  <2> QED
    BY <1>0, <2>1, <2>2, <2>3, <2>4, RowKeeps DEF Steady, execVars
<1> QED
  BY <1>1, <1>2, <1>3, <1>4, <1>5, <1>6

LEMMA PassesSteady ==
  ASSUME OwnerInv, NEW t \in DOMAIN tasks, NEW d, Passes(t, d)
  PROVE  Steady
<1> DEFINE r == [tasks[t] EXCEPT !.due = @ \cup {d}]
<1>1. IInv /\ tasks[t] \in Row /\ UNCHANGED <<execVars, inflight>> /\ Open(t)
  BY DEF Passes, OwnerInv, IInv, TypeOK
<1>2. r.token = tasks[t].token /\ r.status = tasks[t].status
  BY <1>1 DEF Row
<1>3. tasks' = [tasks EXCEPT ![t] = r]
  BY <1>1 DEF Passes, IInv, TypeOK, Row
<1>4. r.status \in {"pending", "leased"}
  BY <1>1, <1>2 DEF Open
<1> HIDE DEF r
<1> QED
  BY <1>1, <1>2, <1>3, <1>4, RowKeeps DEF Steady, execVars

\* Every step, seen from the queue.
LEMMA QueueCases ==
  ASSUME OwnerInv, [Next]_vars
  PROVE  \/ Steady
         \/ \E w \in Workflows : StartWorkflow(w) \/ Noted(w) \/ RequestCancellation(w)
         \/ \E c \in claims : LeaseActivity(c) \/ FireTimer(c)
         \/ inflight' \subseteq inflight /\ \E t, type, final, s, u : Reported(t, type, final, s, u)
         \/ inflight' \subseteq inflight /\ CloseStep
         \/ \E h \in inflight : CommitCommands(h)
<1>0. IInv
  BY DEF OwnerInv
<1>1. CASE ClientStep
  <2>1. Roots \subseteq Workflows /\ Operated \subseteq Workflows
    BY EngineAssumption
  <2>2. inflight' = inflight
    BY <1>0, <1>1, ClientTokens
  <2> QED
    BY <1>1, <2>1, <2>2 DEF ClientStep, RetryWorkflow, Noted, CloseStep
<1>2. CASE PollStep
  BY <1>2, PollSteady
<1>3. CASE WorkerStep
  <2>1. PICK h \in inflight : CompleteActivity(h) \/ FailActivity(h) \/ LoadAndReplay(h)
                              \/ CommitStep(h) \/ Abandon(h)
    BY <1>3 DEF WorkerStep
  <2>2. CommitStep(h) => inflight' \subseteq inflight
    BY <1>0, WorkTokens
  <2> QED
    BY <2>1, <2>2, WorkSteady DEF CommitStep, CloseStep
<1>4. CASE TimeStep
  BY <1>4, PassesSteady DEF TimeStep, Elapse
<1>5. CASE FaultStep
  <2>1. ASSUME NEW c \in claims, AbortClaim(c) PROVE Steady
    BY <2>1, SameKeeps DEF AbortClaim, Steady, execVars
  <2> QED
    BY <1>5, <2>1, WorkSteady, PassesSteady DEF FaultStep, Stall
<1>6. CASE \E h \in inflight : HeartbeatActivity(h)
  BY <1>6, WorkSteady
<1>7. CASE UNCHANGED vars
  BY <1>7, SameKeeps DEF vars, execVars, Steady
<1> QED
  BY <1>1, <1>2, <1>3, <1>4, <1>5, <1>6, <1>7 DEF Next, EngineStep

\* What a step does to the wake-ups of every execution but those of Ws.
Attentive(Ws) ==
  /\ NewKeys
  /\ \A w \in Workflows \ Ws : status'[w] = "running" => Alert(w)

WakeInv == OwnerInv /\ RecordInv /\ WakeKeys

\* A step that records an event of x and enqueues a workflow task with it.
LEMMA RecordWakes ==
  ASSUME WakeInv, NEW x \in Workflows, NEW type, NEW cmd, NEW tag, NEW final \in BOOLEAN,
         Record(x, type, cmd, tag, final), NEW S, NEW s \in {"completed", "dead"},
         tasks' = Insert(Close(tasks, S, s), {WakeUp(x, next_seq[x])}),
         \A t \in S : t.wf = x \/ t.kind = "activity",
         \A w \in Workflows \ {x} : status'[w] = status[w], inflight' \subseteq inflight
  PROVE  Attentive({})
<1> DEFINE t == WakeUp(x, next_seq[x])
           ids == {t}
<1>0. IInv /\ Memories /\ WakeKeys /\ next_seq[x] \in Nat
  BY DEF WakeInv, OwnerInv, IInv, TypeOK
<1>1. Queued(S, s, ids)
  BY <1>0, QueueRows
<1>2. t \notin DOMAIN tasks /\ t.kind = "workflow" /\ t.wf = x /\ t.n = next_seq[x]
  BY <1>0, FreshKey
<1> HIDE DEF t
<1>3. /\ \A w \in Workflows \ {x} : history'[w] = history[w]
      /\ next_seq'[x] = next_seq[x] + 1
  BY <1>0, RecordEffect
<1>4. NewKeys
  <2>1. DOMAIN tasks' = DOMAIN tasks \cup {t}
    BY <1>1 DEF Queued
  <2> QED
    BY <1>0, <1>2, <1>3, <2>1 DEF NewKeys
<1>5. Fresh(x)
  <2>1. t \in ids
    OBVIOUS
  <2> QED
    BY <1>0, <1>1, <1>2, <2>1, QueuedFresh
<1>6. ASSUME NEW w \in Workflows, w # x, status'[w] = "running" PROVE Alert(w)
  <2>1. Keeps(w)
    BY <1>1, <1>6, QueuedKeeps
  <2>2. Quiet(w) /\ Running(w)
    BY <1>3, <1>6 DEF Quiet, Running
  <2> QED
    BY <2>1, <2>2 DEF Alert
<1> QED
  BY <1>4, <1>5, <1>6 DEF Attentive, Alert

\* A step that records an event that rouses nobody, and closes no hopeful row.
LEMMA RecordQuietly ==
  ASSUME WakeInv, NEW x \in Workflows, NEW type, NEW cmd, NEW tag, NEW final \in BOOLEAN,
         Record(x, type, cmd, tag, final), status' = status, \A w \in Workflows : Keeps(w),
         \A t \in DOMAIN tasks' \ DOMAIN tasks : t.kind # "workflow",
         \/ type \in {"WorkflowExecutionPaused", "WorkflowExecutionResumed", "ActivityStarted"}
         \/ type \in ActivityOutcomes \ {"ActivityCompleted"} /\ ~final
  PROVE  Attentive({})
<1>0. IInv
  BY DEF WakeInv, OwnerInv
<1>1. /\ \A w \in Workflows \ {x} : history'[w] = history[w]
      /\ \E e : history'[x] = history[x] \cup {e} /\ e.type = type /\ e.final = final
  BY <1>0, RecordEffect
<1>2. PICK e : history'[x] = history[x] \cup {e} /\ e.type = type /\ e.final = final
  BY <1>1
<1>3. ~Rouses(e)
  BY <1>2 DEF Rouses, Decides, ActivityOutcomes, TimerOutcomes, ChildOutcomes
<1>4. \A w \in Workflows : Quiet(w)
  BY <1>1, <1>2, <1>3 DEF Quiet
<1> QED
  BY <1>4 DEF Attentive, NewKeys, Alert, Running

\* What clients do.
LEMMA ClientAlert ==
  ASSUME WakeInv, NEW x \in Workflows, StartWorkflow(x) \/ Noted(x) \/ RequestCancellation(x)
  PROVE  Attentive({})
<1>0. /\ IInv /\ RecordOK(x) /\ inflight' \subseteq inflight
      /\ status \in [Workflows -> {"absent", "running", "completed", "failed", "terminated"}]
  BY DEF WakeInv, RecordInv, FamilyInv, IInv, TypeOK, StartWorkflow, Noted, RequestCancellation,
     PauseWorkflow, ResumeWorkflow, SendSignal, SendUpdate
<1>1. ASSUME StartWorkflow(x) \/ (\E s \in Signals : SendSignal(x, s))
             \/ (\E u \in Updates : SendUpdate(x, u))
      PROVE  Attentive({})
  <2>1. PICK type, tag : Record(x, type, NoCommand, tag, TRUE)
    BY <1>1 DEF StartWorkflow, SendSignal, SendUpdate
  <2>2. tasks' = Insert(tasks, {WakeUp(x, next_seq[x])})
    BY <1>0, <1>1 DEF StartWorkflow, SendSignal, SendUpdate, RecordOK
  <2>3. tasks' = Insert(Close(tasks, {}, "dead"), {WakeUp(x, next_seq[x])})
    BY <1>0, <2>2, NothingClosed
  <2>4. \A w \in Workflows \ {x} : status'[w] = status[w]
    BY <1>0, <1>1 DEF StartWorkflow, SendSignal, SendUpdate
  <2>5. \E S : \E s \in {"completed", "dead"} :
          S = {} /\ tasks' = Insert(Close(tasks, S, s), {WakeUp(x, next_seq[x])})
    BY <2>3
  <2>6. \E final \in BOOLEAN : Record(x, type, NoCommand, tag, final)
    BY <2>1
  <2> QED
    BY <1>0, <2>4, <2>5, <2>6, RecordWakes
<1>2. ASSUME PauseWorkflow(x) PROVE Attentive({})
  <2>1. tasks' = tasks /\ status' = status
        /\ \E final \in BOOLEAN : Record(x, "WorkflowExecutionPaused", NoCommand, NoTag, final)
    BY <1>2 DEF PauseWorkflow
  <2>2. DOMAIN tasks' = DOMAIN tasks /\ \A w : Keeps(w)
    BY <1>0, <2>1, SameKeeps
  <2> QED
    BY <2>1, <2>2, RecordQuietly
<1>3. ASSUME ResumeWorkflow(x) PROVE Attentive({})
  <2>1. status' = status
        /\ \E final \in BOOLEAN : Record(x, "WorkflowExecutionResumed", NoCommand, NoTag, final)
    BY <1>3 DEF ResumeWorkflow
  <2>2. tasks' = [t \in DOMAIN tasks |->
                    IF t \in PendingTasks(x) THEN [tasks[t] EXCEPT !.due = {}] ELSE tasks[t]]
    BY <1>3 DEF ResumeWorkflow
  <2>3. \A r \in Row : /\ [r EXCEPT !.due = {}].token = r.token
                       /\ [r EXCEPT !.due = {}].status = r.status
    BY DEF Row
  <2>4. \A t \in DOMAIN tasks : tasks[t] \in Row
    BY <1>0 DEF IInv, TypeOK
  <2>5. /\ DOMAIN tasks' = DOMAIN tasks
        /\ \A t \in DOMAIN tasks : /\ tasks'[t].token = tasks[t].token
                                   /\ tasks'[t].status = tasks[t].status
    BY <2>2, <2>3, <2>4
  <2>6. \A w : Keeps(w)
    BY <1>0, <2>5, OpenKeeps DEF TokensKept, Open
  <2> QED
    BY <2>1, <2>5, <2>6, RecordQuietly
<1>4. ASSUME RequestCancellation(x) PROVE Attentive({})
  <2>1. status' = status
        /\ \E final \in BOOLEAN : Record(x, "WorkflowCancellationRequested", NoCommand, NoTag, final)
    BY <1>4 DEF RequestCancellation
  <2>2. \E S : \E s \in {"completed", "dead"} :
          S = PendingActivities(x) /\ tasks' = Insert(Close(tasks, S, s), {WakeUp(x, next_seq[x])})
    BY <1>4 DEF RequestCancellation
  <2>3. \A t \in PendingActivities(x) : t.wf = x
    BY DEF PendingActivities
  <2> QED
    BY <1>0, <2>1, <2>2, <2>3, RecordWakes
<1> QED
  BY <1>1, <1>2, <1>3, <1>4 DEF Noted

\* What pollers do.
LEMMA PollAlert ==
  ASSUME WakeInv, NEW c \in claims, LeaseActivity(c) \/ FireTimer(c)
  PROVE  Attentive({})
<1>0. IInv /\ OwnerInv /\ c.task.wf \in Workflows
  BY DEF WakeInv, OwnerInv, IInv, TypeOK, TaskId
<1>1. CASE LeaseActivity(c)
  <2>1. status' = status /\ Lease(c)
        /\ \E final \in BOOLEAN : Record(c.task.wf, "ActivityStarted", c.task.cmd, NoTag, final)
    BY <1>1 DEF LeaseActivity
  <2> QED
    BY <1>0, <2>1, LeaseKeeps, RecordQuietly
<1>2. CASE FireTimer(c)
  <2>1. status' = status /\ inflight' \subseteq inflight
        /\ \E final \in BOOLEAN : Record(c.task.wf, "TimerFired", c.task.cmd, NoTag, final)
    BY <1>2 DEF FireTimer
  <2>2. \E S : \E s \in {"completed", "dead"} :
          S = {c.task} /\ tasks' = Insert(Close(tasks, S, s), {WakeUp(c.task.wf, next_seq[c.task.wf])})
    BY <1>2 DEF FireTimer
  <2> QED
    BY <1>0, <2>1, <2>2, RecordWakes
<1> QED
  BY <1>1, <1>2

\* The end of an attempt.
LEMMA ReportAlert ==
  ASSUME WakeInv, inflight' \subseteq inflight,
         NEW t, NEW type, NEW final, NEW s, NEW u, Reported(t, type, final, s, u)
  PROVE  Attentive({})
<1>1. /\ t \in DOMAIN tasks /\ t.kind = "activity" /\ t.wf \in Workflows /\ type \in ActivityOutcomes
      /\ final \in BOOLEAN /\ s \in {"completed", "dead"} /\ status' = status
      /\ Record(t.wf, type, t.cmd, NoTag, final) /\ IInv
    BY DEF Reported, WakeInv, OwnerInv, IInv, TypeOK, TaskId
<1>2. PICK S : S = {t} /\ tasks' = Insert(Close(tasks, S, s), {u})
  BY DEF Reported
<1>3. CASE final
  <2>1. u = WakeUp(t.wf, next_seq[t.wf])
    BY <1>3 DEF Reported
  <2> QED
    BY <1>1, <1>2, <2>1, RecordWakes
<1>4. CASE ~final
  <2>1. u.kind # "workflow" /\ type # "ActivityCompleted"
    BY <1>4 DEF Reported, Attempt
  <2>2. PICK ids : ids = {u} /\ Queued(S, s, ids)
    BY <1>1, <1>2, QueueRows
  <2>3. \A w : Keeps(w)
    BY <1>1, <1>2, <2>2, QueuedKeeps
  <2>4. \A v \in DOMAIN tasks' \ DOMAIN tasks : v.kind # "workflow"
    BY <2>1, <2>2 DEF Queued
  <2> QED
    BY <1>1, <1>4, <2>1, <2>3, <2>4, RecordQuietly
<1> QED
  BY <1>1, <1>3, <1>4

\* Closing an execution: a running parent is woken, a continuation is started,
\* and the rows of the executions that go on are left alone.
LEMMA CloseAlert ==
  ASSUME WakeInv, inflight' \subseteq inflight, NEW x \in Workflows, NEW s, NEW evs, NEW k, NEW D,
         NEW new, NEW done, Ends(x, s, evs, k, D, new, done)
  PROVE  Attentive({})
<1> DEFINE P == Notified(x, D)
           gone == Outstanding(D \cup {x}) \ done
           mid == Close(tasks, gone, "dead")
           last == Close(mid, done, "completed")
           told == {WakeUp(p, next_seq[p]) : p \in P}
           begun == {WakeUp(y, 1) : y \in new}
<1>0. IInv /\ Memories /\ WakeKeys /\ \A w \in Workflows : RecordOK(w) /\ next_seq[w] \in Nat
  BY DEF WakeInv, OwnerInv, RecordInv, IInv, TypeOK
<1>1. Closing(x, s, evs, k, D, new) /\ s \in {"completed", "failed", "terminated"}
  BY <1>0, CloseRows DEF Ends
<1>2. tasks' = Insert(last, told \cup begun) /\ \A t \in done : t.wf = x
  BY DEF Ends, CloseExecution
<1>3. \A y \in new : y \in Workflows /\ next_seq[y] = 1 /\ next_seq'[y] = next_seq[y] + 1
  BY <1>0, <1>1 DEF Closing, RecordOK
<1>4. \A p \in P : p \in Workflows /\ next_seq'[p] = next_seq[p] + 1
  BY <1>1 DEF Closing
<1>5. DOMAIN last = DOMAIN tasks /\ \A t \in DOMAIN tasks \ (gone \cup done) : last[t] = tasks[t]
  <2>1. DOMAIN mid = DOMAIN tasks /\ \A t \in DOMAIN tasks \ gone : mid[t] = tasks[t]
    BY DEF Close
  <2> HIDE DEF mid
  <2> QED
    BY <2>1 DEF Close
<1>6. \A t \in gone \cup done : t.wf \in D \cup {x}
  BY <1>2 DEF Outstanding
<1> HIDE DEF last, gone
<1>7. /\ DOMAIN tasks' = DOMAIN tasks \cup told \cup begun
      /\ \A t \in DOMAIN tasks : t.wf \notin D \cup {x} => tasks'[t] = tasks[t]
      /\ \A t \in told \cup begun : t \notin DOMAIN tasks => tasks'[t] = NewRow(t)
  BY <1>2, <1>5, <1>6 DEF Insert
<1>8. \A t \in told : /\ t \notin DOMAIN tasks /\ t.kind = "workflow"
                      /\ t.n < next_seq'[t.wf]
  <2> SUFFICES ASSUME NEW p \in P
               PROVE  LET t == WakeUp(p, next_seq[p]) IN
                      /\ t \notin DOMAIN tasks /\ t.kind = "workflow" /\ t.n < next_seq'[t.wf]
    OBVIOUS
  <2>1. p \in Workflows /\ next_seq[p] \in Nat /\ next_seq'[p] = next_seq[p] + 1
    BY <1>0, <1>4
  <2> HIDE DEF P
  <2> QED
    BY <1>0, <2>1, FreshKey
<1>9. \A t \in begun : t \notin DOMAIN tasks /\ t.kind = "workflow" /\ t.n < next_seq'[t.wf]
  <2> SUFFICES ASSUME NEW y \in new
               PROVE  LET t == WakeUp(y, 1) IN
                      /\ t \notin DOMAIN tasks /\ t.kind = "workflow" /\ t.n < next_seq'[t.wf]
    OBVIOUS
  <2>1. y \in Workflows /\ next_seq[y] = 1 /\ next_seq'[y] = next_seq[y] + 1
    BY <1>3
  <2> QED
    BY <1>0, <2>1, FreshKey
<1>10. NewKeys
  BY <1>7, <1>8, <1>9 DEF NewKeys
<1>11. \A t \in told \cup begun : Fresh(t.wf)
  <2> HIDE DEF told, begun
  <2> TAKE t \in told \cup begun
  <2>0. NewRow(t).status = "pending"
    BY DEF NewRow
  <2>1. t \in DOMAIN tasks' /\ tasks'[t].status = "pending" /\ t \notin DOMAIN tasks
        /\ t.kind = "workflow"
    BY <1>7, <1>8, <1>9, <2>0
  <2>2. \A h \in inflight' : h.task # t
    BY <1>0, <2>1 DEF Memories
  <2> QED
    BY <2>1, <2>2 DEF Fresh, Hopeful, Promising, Open
<1>12. ASSUME NEW w \in Workflows, status'[w] = "running"
       PROVE  Alert(w)
  <2>1. w \notin D \cup {x}
    BY <1>1, <1>12 DEF Closing
  <2>2. CASE w \in P
    <3>1. WakeUp(w, next_seq[w]) \in told /\ WakeUp(w, next_seq[w]).wf = w
      BY <2>2 DEF WakeUp
    <3> QED
      BY <1>11, <3>1 DEF Alert
  <2>3. CASE w \in new
    <3>1. WakeUp(w, 1) \in begun /\ WakeUp(w, 1).wf = w
      BY <2>3 DEF WakeUp
    <3> QED
      BY <1>11, <3>1 DEF Alert
  <2>4. CASE w \notin P \cup new
    <3>1. Kept(w)
      BY <1>1, <2>1, <2>4 DEF Closing
    <3>2. Running(w) /\ Quiet(w)
      BY <1>12, <3>1 DEF Kept, Running, Quiet
    <3>3. Keeps(w)
      BY <1>7, <2>1 DEF Keeps, Hopeful, Promising, Open
    <3> QED
      BY <3>2, <3>3 DEF Alert
  <2> QED
    BY <2>2, <2>3, <2>4
<1> QED
  BY <1>10, <1>12 DEF Attentive

\* Committing commands: markers and resolutions wake their own execution, timers
\* are pending, and a child is started with a task.
LEMMA CommandsAlert ==
  ASSUME WakeInv, TimerInv, NEW g \in inflight, CommitCommands(g)
  PROVE  /\ Attentive({g.task.wf})
         /\ \A i \in DOMAIN g.replay.commands :
              LET c == g.replay.commands[i] IN
              /\ c.kind \in {"marker", "resolve"} => Fresh(g.task.wf)
              /\ c.kind = "timer" =>
                   \E t \in DOMAIN tasks' : t.wf = g.task.wf /\ t.kind = "timer" /\ Hopeful(t)'
<1>0. IInv /\ Memories /\ WakeKeys /\ \A w \in Workflows : RecordOK(w) /\ next_seq[w] \in Nat
  BY DEF WakeInv, OwnerInv, RecordInv, IInv, TypeOK
<1>1. PICK x \in Workflows, cs \in Seq(Command) : x = g.task.wf /\ cs = g.replay.commands
  BY <1>0, InflightType DEF IInv, TypeOK, TaskId
<1> DEFINE new == {Child(x, cs[i].cmd) : i \in Emitted(g, "child")}
           acts == {Attempt(x, cs[i].cmd, 1) : i \in Emitted(g, "activity")}
           tims == {Timer(x, cs[i].cmd) : i \in Emitted(g, "timer")}
           begun == {WakeUp(y, 1) : y \in new}
           n == next_seq[x] + Len(cs)
           own == {WakeUp(x, n - 1) : i \in MarkerRecorded(g)}
           ids == acts \cup tims \cup begun \cup own
           S == {g.task}
<1>2. tasks' = Insert(Close(tasks, S, "completed"), ids) /\ inflight' \subseteq inflight
  BY <1>1 DEF CommitCommands, Committing
<1>3. Acceptable(x, cs) /\ next_seq'[x] = n
  BY <1>0, <1>1, CommandRows
<1>4. \A y \in new : y \in Workflows /\ next_seq[y] = 1 /\ next_seq'[y] = 2
  <2>1. \A y \in new : y \in Workflows /\ status[y] = "absent" /\ next_seq'[y] = 2
    BY <1>0, <1>1, CommandRows
  <2> QED
    BY <1>0, <2>1 DEF RecordOK
<1>5. \A y \in Workflows \ (new \cup {x}) : Kept(y)
  BY <1>0, <1>1, CommandRows
<1>6. n \in Nat /\ n - 1 \in Nat /\ n - 1 >= next_seq[x] /\ n - 1 < n
  <2>1. Len(cs) \in Nat \ {0}
    BY <1>1, <1>3 DEF Acceptable
  <2> QED
    BY <1>0, <2>1
<1> HIDE DEF n
<1>7. \A t \in own : /\ t = WakeUp(x, n - 1) /\ t \notin DOMAIN tasks /\ t.kind = "workflow"
                     /\ t.wf = x /\ t.n < next_seq'[t.wf]
  <2>1. /\ WakeUp(x, n - 1) \notin DOMAIN tasks /\ WakeUp(x, n - 1).kind = "workflow"
        /\ WakeUp(x, n - 1).wf = x /\ WakeUp(x, n - 1).n = n - 1
    BY <1>0, <1>6, FreshKey
  <2> QED
    BY <1>3, <1>6, <2>1
<1>8. \A t \in begun : t \notin DOMAIN tasks /\ t.kind = "workflow" /\ t.n < next_seq'[t.wf]
  <2> SUFFICES ASSUME NEW y \in new
               PROVE  LET t == WakeUp(y, 1) IN
                      /\ t \notin DOMAIN tasks /\ t.kind = "workflow" /\ t.n < next_seq'[t.wf]
    OBVIOUS
  <2>1. y \in Workflows /\ next_seq[y] = 1 /\ next_seq'[y] = 2
    BY <1>4
  <2> QED
    BY <1>0, <2>1, FreshKey
<1>9. \A t \in acts \cup tims : t.kind # "workflow"
  BY DEF Attempt, Timer
<1> HIDE DEF own, begun, acts, tims
<1>10. Queued(S, "completed", ids)
  <2>1. \E s \in {"completed", "dead"} : s = "completed" /\ tasks' = Insert(Close(tasks, S, s), ids)
    BY <1>2
  <2> HIDE DEF S, ids
  <2> QED
    BY <1>0, <2>1, QueueRows
<1>11. NewKeys
  BY <1>7, <1>8, <1>9, <1>10 DEF NewKeys, Queued
<1>12. \A t \in own \cup begun : Fresh(t.wf)
  <2> TAKE t \in own \cup begun
  <2>1. t \in ids /\ t \notin DOMAIN tasks /\ t.kind = "workflow"
    BY <1>7, <1>8
  <2> QED
    BY <1>0, <1>2, <1>10, <2>1, QueuedFresh
<1>13. ASSUME NEW w \in Workflows, w # x, status'[w] = "running"
       PROVE  Alert(w)
  <2>1. CASE w \in new
    <3>1. WakeUp(w, 1) \in begun /\ WakeUp(w, 1).wf = w
      BY <2>1 DEF WakeUp, begun
    <3> QED
      BY <1>12, <3>1 DEF Alert
  <2>2. CASE w \notin new
    <3>1. Kept(w)
      BY <1>5, <1>13, <2>2
    <3>2. Running(w) /\ Quiet(w)
      BY <1>13, <3>1 DEF Kept, Running, Quiet
    <3>3. Keeps(w)
      BY <1>1, <1>2, <1>10, <1>13, QueuedKeeps
    <3> QED
      BY <3>2, <3>3 DEF Alert
  <2> QED
    BY <2>1, <2>2
<1>14. ASSUME NEW i \in DOMAIN cs, cs[i].kind \in {"marker", "resolve"}
       PROVE  Fresh(x)
  <2>1. i \in MarkerRecorded(g)
    BY <1>1, <1>14 DEF MarkerRecorded, Emitted
  <2>2. WakeUp(x, n - 1) \in own
    BY <2>1 DEF own
  <2> QED
    BY <1>7, <1>12, <2>2
<1>15. ASSUME NEW i \in DOMAIN cs, cs[i].kind = "timer"
       PROVE  \E t \in DOMAIN tasks' : t.wf = x /\ t.kind = "timer" /\ Hopeful(t)'
  <2> DEFINE t == Timer(x, cs[i].cmd)
  <2>0. cs[i] \in Command
    OBVIOUS
  <2>1. i \in Emitted(g, "timer") /\ cs[i].cmd \in Nat
    BY <1>1, <1>15, <2>0 DEF Emitted, Command
  <2>2. t \in ids /\ t.wf = x /\ t.kind = "timer"
    BY <2>1 DEF tims, Timer
  <2>3. ~TimerBegun(x, cs[i].cmd)
    BY <1>3 DEF Acceptable, TimerBegun, Scheduled, ScheduleEvents
  <2>4. TimerOK(x, cs[i].cmd)
    BY <2>1 DEF TimerInv, Commands
  <2>5. t \notin DOMAIN tasks
    BY <2>3, <2>4 DEF TimerOK
  <2> HIDE DEF t
  <2>6. t \in DOMAIN tasks' /\ tasks'[t].status = "pending"
    BY <1>10, <2>2, <2>5 DEF Queued
  <2> QED
    BY <2>2, <2>6 DEF Hopeful, Open
<1> QED
  BY <1>1, <1>11, <1>13, <1>14, <1>15 DEF Attentive

\* Every step, but for the execution whose commands it commits.
LEMMA StepAlert ==
  ASSUME WakeInv, TimerInv, [Next]_vars
  PROVE  Attentive({}) \/ \E g \in inflight : CommitCommands(g) /\ Attentive({g.task.wf})
<1>0. OwnerInv /\ IInv
  BY DEF WakeInv, OwnerInv
<1>1. CASE Steady
  <2>1. NewKeys
    BY <1>1 DEF Steady, NewKeys
  <2>2. \A w \in Workflows : status'[w] = "running" => Alert(w)
    BY <1>1 DEF Steady, Alert, Quiet, Running
  <2> QED
    BY <2>1, <2>2 DEF Attentive
<1>2. CASE inflight' \subseteq inflight /\ CloseStep
  <2>1. \E x \in Workflows : \E s, evs, k, D, new, done : Ends(x, s, evs, k, D, new, done)
    BY <1>0, <1>2, EndCases DEF CloseStep
  <2> QED
    BY <1>2, <2>1, CloseAlert
<1>3. CASE inflight' \subseteq inflight /\ \E t, type, final, s, u : Reported(t, type, final, s, u)
  BY <1>3, ReportAlert
<1> QED
  BY <1>0, <1>1, <1>2, <1>3, QueueCases, ClientAlert, PollAlert, CommandsAlert

\* Keys of workflow tasks stay below the next number.
LEMMA KeysStep ==
  ASSUME WakeInv, TimerInv, [Next]_vars
  PROVE  WakeKeys'
<1>0. IInv /\ IInv' /\ RecordInv
  BY StepOK DEF WakeInv, OwnerInv
<1>1. NewKeys
  BY StepAlert DEF Attentive
<1>2. \A x \in Workflows : next_seq[x] \in Nat /\ next_seq'[x] \in Nat /\ next_seq[x] <= next_seq'[x]
  <2> TAKE x \in Workflows
  <2>1. next_seq[x] \in Nat /\ next_seq'[x] \in Nat
    BY <1>0 DEF IInv, TypeOK
  <2>2. CASE Same(x)
    BY <2>1, <2>2 DEF Same, Kept
  <2>3. CASE Born(x)
    BY <1>0, <2>1, <2>3 DEF Born, RecordInv, RecordOK
  <2>4. CASE \E A : Grows(x, A)
    BY <2>1, <2>4 DEF Grows, Appended
  <2>5. CASE \E A : Dies(x, A)
    BY <2>1, <2>5 DEF Dies, Appended
  <2> QED
    BY <1>0, <2>2, <2>3, <2>4, <2>5, Changes
<1> SUFFICES ASSUME NEW t \in DOMAIN tasks', t.kind = "workflow" PROVE t.n < next_seq'[t.wf]
  BY DEF WakeKeys
<1>3. t.wf \in Workflows /\ t.n \in Nat
  BY <1>0 DEF IInv, TypeOK, TaskId
<1>4. CASE t \in DOMAIN tasks
  BY <1>2, <1>3, <1>4 DEF WakeInv, WakeKeys
<1>5. CASE t \notin DOMAIN tasks
  BY <1>1, <1>5 DEF NewKeys
<1> QED
  BY <1>4, <1>5

\* An execution that could move forward keeps its hope, and one that a step lets
\* move forward gets some.
LEMMA AwakeStep ==
  ASSUME NEW code, Runs(code), HInv, HInv', CodeInv(code), WakeInv, Awake(code), [Next]_vars
  PROVE  Awake(code)'
<1> SUFFICES ASSUME NEW w \in Workflows, status'[w] = "running",
                    Replay(w, history'[w]).status \in Actionable
             PROVE  \E t \in DOMAIN tasks' :
                      /\ t.wf = w /\ Hopeful(t)'
                      /\ t.kind = "workflow" \/ (t.kind = "timer" /\ ~Untimed(code[w]))
  BY DEF Awake, Running, Decision
<1>0. /\ Sequential(code[w]) /\ \A H : Replay(w, H) = ReplayWorkflow(code[w], H)
      /\ IInv /\ TimerInv
  BY DEF Runs, HInv, WakeInv, OwnerInv
<1>1. CASE Fresh(w)
  BY <1>1 DEF Fresh
<1>2. ASSUME Running(w), Quiet(w), Decision(w).status # "blocked" => Keeps(w)
      PROVE  \E t \in DOMAIN tasks' :
                      /\ t.wf = w /\ Hopeful(t)'
                      /\ t.kind = "workflow" \/ (t.kind = "timer" /\ ~Untimed(code[w]))
  <2>1. CASE Decision(w).status \in Actionable
    <3>1. Keeps(w)
      BY <1>2, <2>1 DEF Actionable
    <3>2. PICK t \in DOMAIN tasks :
            /\ t.wf = w /\ Hopeful(t)
            /\ t.kind = "workflow" \/ (t.kind = "timer" /\ ~Untimed(code[w]))
      BY <1>2, <2>1 DEF Awake
    <3> QED
      BY <3>1, <3>2 DEF Keeps
  <2>2. CASE Decision(w).status \notin Actionable
    <3>1. Scheduled(history'[w]) = Scheduled(history[w])
      <4>1. ASSUME NEW g \in inflight, NEW E, Carries(w, g, E) PROVE FALSE
        <5>1. ReplayWorkflow(code[w], history[w]).status = "commands"
          BY <1>2, <4>1, CarriesCommits
        <5> QED
          BY <1>0, <2>2, <5>1 DEF Decision, Actionable
      <4>2. Advance(w)
        BY <1>0, <1>2, AdvanceStep
      <4> QED
        BY <4>1, <4>2 DEF Advance
    <3>2. Outside(history[w], history'[w]) /\ Consistent(code[w], history[w])
      BY <1>2, <3>1, HistoryExtends DEF Outside, CodeInv, WrittenBy, Running
    <3>3. ReplayWorkflow(code[w], history'[w]) = ReplayWorkflow(code[w], history[w])
      BY <1>0, <1>2, <3>2, OutsideDecision DEF Quiet
    <3> QED
      BY <1>0, <2>2, <3>3 DEF Decision
  <2> QED
    BY <2>1, <2>2
<1>3. ASSUME NEW g \in inflight, CommitCommands(g), g.task.wf = w
      PROVE  \E t \in DOMAIN tasks' :
                      /\ t.wf = w /\ Hopeful(t)'
                      /\ t.kind = "workflow" \/ (t.kind = "timer" /\ ~Untimed(code[w]))
  <2> DEFINE r == ReplayWorkflow(code[w], history[w])
  <2>1. Running(w)
    BY <1>3 DEF CommitCommands, Committing
  <2>2. PICK E : Carries(w, g, E)
    BY <1>0, <1>3, CommandsCarry
  <2>3. r = g.replay /\ r.status = "commands" /\ Commits(history[w], history'[w], r.commands)
    BY <2>1, <2>2, CarriesCommits
  <2>4. Consistent(code[w], history[w])
    BY <2>1 DEF CodeInv, WrittenBy, Running
  <2>5. ReplayWorkflow(code[w], history'[w]).status # "blocked"
    BY <1>0 DEF Actionable
  <2> HIDE DEF r
  <2>6. PICK i \in DOMAIN r.commands :
          LET kind == r.commands[i].kind IN
          ~(kind \in {"activity", "child"} \/ (kind = "timer" /\ Untimed(code[w])))
    BY <1>0, <2>3, <2>4, <2>5, CommitBlocks DEF r
  <2>7. r.commands \in Seq(Command)
    BY <1>0, <2>3, InflightType
  <2>8. r.commands[i].kind \in {"marker", "resolve", "timer", "continue"}
    <3>1. r.commands[i] \in Command
      BY <2>7
    <3> QED
      BY <2>6, <3>1 DEF Command
  <2>9. r.commands[i].kind # "continue"
    BY <1>3, <2>3 DEF CommitCommands, Emitted
  <2>10. /\ r.commands[i].kind \in {"marker", "resolve"} => Fresh(w)
         /\ r.commands[i].kind = "timer" =>
              \E t \in DOMAIN tasks' : t.wf = w /\ t.kind = "timer" /\ Hopeful(t)'
    BY <1>0, <1>3, <2>3, CommandsAlert
  <2>11. CASE r.commands[i].kind = "timer"
    BY <2>6, <2>10, <2>11
  <2>12. CASE r.commands[i].kind # "timer"
    BY <1>1, <2>8, <2>9, <2>10, <2>12
  <2> QED
    BY <2>11, <2>12
<1> QED
  BY <1>0, <1>1, <1>2, <1>3, StepAlert DEF Attentive, Alert

LEMMA AllAwake ==
  ASSUME NEW code, Runs(code)
  PROVE  Spec => [](WakeKeys /\ Awake(code))
<1>1. Init => WakeInv /\ Awake(code)
  <2>1. Init => OwnerInv /\ RecordInv
    <3>1. Init => Memories
      BY DEF Init, Memories
    <3> QED
      BY <3>1, InitOK, RecordInit DEF OwnerInv
  <2>2. Init => WakeKeys
    BY DEF Init, WakeKeys
  <2>3. Init => Awake(code)
    BY DEF Init, Awake, Running
  <2> QED
    BY <2>1, <2>2, <2>3 DEF WakeInv
<1>2. HInv /\ HInv' /\ CodeInv(code) /\ WakeInv /\ Awake(code) /\ [Next]_vars
        => WakeInv' /\ Awake(code)'
  <2> SUFFICES ASSUME HInv, HInv', CodeInv(code), WakeInv, Awake(code), [Next]_vars
               PROVE  WakeInv' /\ Awake(code)'
    OBVIOUS
  <2>1. OwnerInv' /\ RecordInv'
    BY OwnerStep DEF WakeInv, HInv
  <2>2. WakeKeys'
    BY KeysStep DEF HInv
  <2> QED
    BY <2>1, <2>2, AwakeStep DEF WakeInv
<1>3. WakeInv => WakeKeys
  BY DEF WakeInv
<1> QED
  BY <1>1, <1>2, <1>3, Written, PTL DEF Spec

\* An execution that replay could move forward has an open workflow task or a
\* pending timer: no wake-up is lost for good, although outcomes, signals and
\* updates arrive while a worker is replaying a history without them.
THEOREM WakeUpsKept == ASSUME NEW code, Runs(code) PROVE Spec => []WakeUpOrTimer
<1>1. Awake(code) => WakeUpOrTimer
  BY DEF Awake, WakeUpOrTimer, Hopeful, Actionable
<1> QED
  BY <1>1, AllAwake, PTL

\* Where no wait has a timeout, the task is a workflow task: what NoLostWakeUp
\* refutes for wait_signal with a timeout holds of all other sequential code.
THEOREM WakeUpsPrompt ==
  ASSUME NEW code, Runs(code), \A w \in Workflows : Untimed(code[w])
  PROVE  Spec => []NoLostWakeUp
<1>1. Awake(code) => NoLostWakeUp
  BY DEF Awake, NoLostWakeUp, Hopeful, Actionable
<1> QED
  BY <1>1, AllAwake, PTL

=============================================================================
