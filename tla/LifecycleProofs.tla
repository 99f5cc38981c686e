-------------------------- MODULE LifecycleProofs ---------------------------
(***************************************************************************)
(* Theorems about the life cycle of executions: a closed execution never   *)
(* changes, and no child that is to be terminated outlives its parent.     *)
(* Both rest on a classification of the steps by what they do to           *)
(* executions: nothing but appending to running ones, starting one,        *)
(* closing some, or starting children.  And the refinement: Engine         *)
(* implements Lifecycle.                                                   *)
(***************************************************************************)
EXTENDS EngineProofs

\* What a step leaves alone of execution x.
Kept(x) ==
  /\ status'[x] = status[x] /\ history'[x] = history[x]
  /\ next_seq'[x] = next_seq[x] /\ updates'[x] = updates[x]

\* A step that starts and closes nothing, and appends to running executions only.
Appends ==
  /\ UNCHANGED <<status, parent>>
  /\ \A x \in Workflows : Closed(x) => Kept(x)

\* A step that closes the execution w, and D with it.
Closes(w, D, new) ==
  \E s \in {"completed", "failed", "terminated"} : \E evs, k, done :
    CloseExecution(w, s, evs, k, D, new, done)

\* The parent column is null until a child command fills it.
Unborn == \A x \in Workflows : status[x] = "absent" => parent[x] = NoParent

(***************************************************************************)
(* Classification of the steps.                                            *)
(***************************************************************************)

\* Steps that touch no execution.
LEMMA QuietAppends == UNCHANGED execVars => Appends
  BY DEF execVars, Appends, Kept

\* An event recorded for a running execution is no event of a closed one.
LEMMA RecordAppends ==
  ASSUME IInv, NEW w \in Workflows, Running(w), NEW type, NEW cmd, NEW tag, NEW final,
         Record(w, type, cmd, tag, final), UNCHANGED <<status, parent>>,
         \A x \in Workflows \ {w} : updates'[x] = updates[x]
  PROVE  Appends
<1> SUFFICES ASSUME NEW x \in Workflows, Closed(x) PROVE Kept(x)
  BY DEF Appends
<1>1. x # w
  BY DEF Closed, Running
<1>2. history'[x] = history[x] /\ next_seq'[x] = next_seq[x]
  BY <1>1 DEF Record, IInv, TypeOK
<1> QED
  BY <1>1, <1>2 DEF Kept

\* Pause, resume, cancellation, signals and updates.
LEMMA ClientAppends ==
  ASSUME IInv, NEW w \in Workflows,
         \/ PauseWorkflow(w) \/ ResumeWorkflow(w) \/ RequestCancellation(w)
         \/ \E s \in Signals : SendSignal(w, s)
         \/ \E u \in Updates : SendUpdate(w, u)
  PROVE  Appends
<1>1. CASE PauseWorkflow(w) \/ ResumeWorkflow(w) \/ RequestCancellation(w)
  BY <1>1, RecordAppends DEF PauseWorkflow, ResumeWorkflow, RequestCancellation
<1>2. CASE \E s \in Signals : SendSignal(w, s)
  BY <1>2, RecordAppends DEF SendSignal
<1>3. CASE \E u \in Updates : SendUpdate(w, u)
  <2>1. PICK u \in Updates : SendUpdate(w, u)
    BY <1>3
  <2>2. \A x \in Workflows \ {w} : updates'[x] = updates[x]
    BY <2>1 DEF SendUpdate, IInv, TypeOK
  <2> QED
    BY <2>1, <2>2, RecordAppends DEF SendUpdate
<1> QED
  BY <1>1, <1>2, <1>3

\* Pollers: they re-read the status before they record anything.
LEMMA PollAppends == ASSUME IInv, PollStep PROVE Appends
<1>1. CASE \E t \in DOMAIN tasks :
             ClaimLease(t) \/ ClaimTimer(t) \/ ClaimTimeout(t) \/ ReclaimWorkflowTask(t)
  BY <1>1, QuietAppends DEF ClaimLease, ClaimTimer, ClaimTimeout, Claim, ReclaimWorkflowTask
<1>2. ASSUME NEW c \in claims, LeaseWorkflowTask(c)
      PROVE  Appends
  BY <1>2, QuietAppends DEF LeaseWorkflowTask
<1>3. \A c \in claims : c.task.wf \in Workflows
  BY DEF IInv, TypeOK, TaskId
<1>4. ASSUME NEW c \in claims, LeaseActivity(c)
      PROVE  Appends
  BY <1>3, <1>4, RecordAppends DEF LeaseActivity
<1>5. ASSUME NEW c \in claims, FireTimer(c)
      PROVE  Appends
  BY <1>3, <1>5, RecordAppends DEF FireTimer
<1>6. ASSUME NEW c \in claims, TimeOutActivity(c)
      PROVE  Appends
  BY <1>3, <1>6, RecordAppends DEF TimeOutActivity, FailAttempt
<1> QED
  BY <1>1, <1>2, <1>4, <1>5, <1>6 DEF PollStep

\* Workers that report an activity, replay, or commit nothing.
LEMMA WorkAppends ==
  ASSUME IInv, NEW h \in inflight,
         \/ CompleteActivity(h) \/ FailActivity(h) \/ LoadAndReplay(h) \/ CommitBlocked(h)
         \/ Abandon(h) \/ Crash(h) \/ ReleaseWorkflowTask(h) \/ HeartbeatActivity(h)
  PROVE  Appends
<1>1. h.task.wf \in Workflows
  BY DEF IInv, TypeOK, TaskId
<1>2. CASE CompleteActivity(h)
  BY <1>1, <1>2, RecordAppends DEF CompleteActivity
<1>3. CASE FailActivity(h)
  BY <1>1, <1>3, RecordAppends DEF FailActivity, FailAttempt
<1>4. CASE \/ LoadAndReplay(h) \/ CommitBlocked(h) \/ Abandon(h) \/ Crash(h)
           \/ ReleaseWorkflowTask(h) \/ HeartbeatActivity(h)
  BY <1>4, QuietAppends DEF LoadAndReplay, CommitBlocked, Abandon, Crash,
     ReleaseWorkflowTask, HeartbeatActivity
<1> QED
  BY <1>2, <1>3, <1>4

\* The four ways of closing are one.
LEMMA ClosingStep ==
  ASSUME IInv,
         \/ \E w \in Workflows : TerminateWorkflow(w)
         \/ \E h \in inflight : CommitCanceled(h) \/ CommitResult(h) \/ CommitContinueAsNew(h)
  PROVE  \E w \in Workflows : Running(w) /\ \E D \in Subtrees(w), new \in SUBSET Workflows :
           (\A x \in new : status[x] = "absent") /\ Closes(w, D, new)
<1>1. ASSUME NEW w \in Workflows, TerminateWorkflow(w)
      PROVE  Running(w) /\ \E D \in Subtrees(w) : Closes(w, D, {})
  BY <1>1 DEF TerminateWorkflow, Closes
<1>2. ASSUME NEW h \in inflight, CommitCanceled(h) \/ CommitResult(h)
      PROVE  Running(h.task.wf) /\ \E D \in Subtrees(h.task.wf) : Closes(h.task.wf, D, {})
  <2>1. Running(h.task.wf)
    BY <1>2 DEF CommitCanceled, CommitResult, Committing
  <2>2. CASE CommitCanceled(h)
    BY <2>1, <2>2 DEF CommitCanceled, Closes
  <2>3. CASE CommitResult(h)
    BY <2>1, <2>3 DEF CommitResult, Closes
  <2> QED
    BY <1>2, <2>2, <2>3
<1>3. ASSUME NEW h \in inflight, CommitContinueAsNew(h)
      PROVE  /\ Running(h.task.wf)
             /\ \E D \in Subtrees(h.task.wf), new \in SUBSET Workflows :
                  (\A x \in new : status[x] = "absent") /\ Closes(h.task.wf, D, new)
  <2> DEFINE w == h.task.wf
             cs == h.replay.commands
  <2>1. Running(w) /\ cs \in Seq(Command) /\ Acceptable(w, cs)
    BY <1>3, InflightType DEF CommitContinueAsNew, Committing
  <2>2. PICK i \in DOMAIN cs : cs[i].kind = "continue"
    BY <1>3 DEF CommitContinueAsNew, Emitted
  <2>3. Len(cs) = 1 /\ i = 1
    BY <2>1, <2>2, AcceptableOK
  <2>4. Child(w, cs[1].cmd) \in Workflows /\ status[Child(w, cs[1].cmd)] = "absent"
    BY <2>1, <2>2, <2>3, AcceptableOK
  <2>5. \E D \in Subtrees(w) : Closes(w, D, {Child(w, cs[1].cmd)})
    BY <1>3 DEF CommitContinueAsNew, Closes
  <2> HIDE DEF w, cs
  <2> QED
    BY <2>1, <2>4, <2>5 DEF w
<1>4. \A h \in inflight : h.task.wf \in Workflows
  BY DEF IInv, TypeOK, TaskId
<1> QED
  BY <1>1, <1>2, <1>3, <1>4

\* Every step is one of the four kinds.
LEMMA StepKinds ==
  ASSUME IInv, [Next]_vars
  PROVE  \/ Appends
         \/ \E w \in Workflows : StartWorkflow(w)
         \/ \E w \in Workflows : Running(w) /\ \E D \in Subtrees(w), new \in SUBSET Workflows :
              (\A x \in new : status[x] = "absent") /\ Closes(w, D, new)
         \/ \E h \in inflight : CommitCommands(h)
<1>1. CASE ClientStep
  <2>1. Roots \subseteq Workflows /\ Operated \subseteq Workflows
    BY EngineAssumption
  <2>2. \A w \in Workflows : PauseWorkflow(w) \/ ResumeWorkflow(w) \/ RequestCancellation(w)
          \/ (\E s \in Signals : SendSignal(w, s)) \/ (\E u \in Updates : SendUpdate(w, u))
            => Appends
    BY ClientAppends
  <2> QED
    BY <1>1, <2>1, <2>2, ClosingStep DEF ClientStep, RetryWorkflow
<1>2. CASE PollStep
  BY <1>2, PollAppends
<1>3. CASE WorkerStep
  BY <1>3, WorkAppends, ClosingStep DEF WorkerStep, CommitStep
<1>4. CASE TimeStep \/ FaultStep
  BY <1>4, QuietAppends, WorkAppends
     DEF TimeStep, FaultStep, Elapse, Stall, Passes, AbortClaim
<1>5. CASE \E h \in inflight : HeartbeatActivity(h)
  BY <1>5, WorkAppends
<1>6. CASE UNCHANGED vars
  BY <1>6, QuietAppends DEF vars
<1> QED
  BY <1>1, <1>2, <1>3, <1>4, <1>5, <1>6 DEF Next, EngineStep

(***************************************************************************)
(* What the kinds of steps do.                                             *)
(***************************************************************************)

\* start_workflow concerns an execution that did not exist.
LEMMA StartEffect ==
  ASSUME IInv, NEW w \in Workflows, StartWorkflow(w)
  PROVE  /\ status[w] = "absent" /\ parent' = parent
         /\ \A x \in Workflows \ {w} : Kept(x)
  BY DEF StartWorkflow, Record, IInv, TypeOK, Kept

\* Committed commands change the execution itself, which runs and goes on
\* running, and children that did not exist.
LEMMA CommandsEffect ==
  ASSUME IInv, NEW h \in inflight, CommitCommands(h)
  PROVE  \E w \in Workflows, new \in SUBSET Workflows :
           /\ Running(w) /\ Running(w)'
           /\ \A x \in new : status[x] = "absent" /\ parent'[x].wf = w /\ status'[x] = "running"
           /\ \A x \in Workflows \ new : parent'[x] = parent[x] /\ status'[x] = status[x]
           /\ \A x \in Workflows \ (new \cup {w}) : Kept(x)
<1> DEFINE w == h.task.wf
           cs == h.replay.commands
           E == Emitted(h, "child")
           new == {Child(w, cs[i].cmd) : i \in E}
<1>1. w \in Workflows /\ Running(w) /\ cs \in Seq(Command) /\ Acceptable(w, cs)
  BY InflightType DEF CommitCommands, Committing
<1>2. \A i \in E : i \in DOMAIN cs /\ cs[i].kind = "child"
  BY DEF Emitted
<1>3. new \in SUBSET Workflows /\ \A x \in new : status[x] = "absent"
  BY <1>1, <1>2, AcceptableOK
<1>4. w \notin new
  BY <1>1, <1>3 DEF Running
<1>5. \A x \in Workflows : status'[x] = IF x \in new THEN "running" ELSE status[x]
  BY DEF CommitCommands
<1>6. \A x \in new : parent'[x].wf = w
  <2> DEFINE j(x) == CHOOSE i \in E : x = Child(w, cs[i].cmd)
  <2>1. \A x \in new : parent'[x] = ParentLink(w, cs[j(x)])
    BY <1>3 DEF CommitCommands
  <2>2. \A c : ParentLink(w, c).wf = w
    BY DEF ParentLink
  <2> HIDE DEF j, new, w, cs
  <2> QED
    BY <2>1, <2>2
<1>7. \A x \in Workflows \ new : parent'[x] = parent[x]
  BY DEF CommitCommands
<1>8. \A x \in Workflows \ (new \cup {w}) :
        history'[x] = history[x] /\ next_seq'[x] = next_seq[x]
  BY DEF CommitCommands
<1>9. \A x \in Workflows \ {w} : updates'[x] = updates[x]
  BY DEF CommitCommands, IInv, TypeOK
<1> HIDE DEF new, w
<1>10. Running(w)'
  BY <1>1, <1>4, <1>5 DEF Running
<1>11. \A x \in Workflows \ (new \cup {w}) : Kept(x)
  BY <1>5, <1>8, <1>9 DEF Kept
<1>12. \A x \in new : status[x] = "absent" /\ parent'[x].wf = w /\ status'[x] = "running"
  BY <1>3, <1>5, <1>6
<1>13. \A x \in Workflows \ new : parent'[x] = parent[x] /\ status'[x] = status[x]
  BY <1>5, <1>7
<1>14. w \in Workflows /\ new \in SUBSET Workflows
  BY <1>1, <1>3
<1> USE <1>14
<1> WITNESS w \in Workflows, new \in SUBSET Workflows
<1> QED
  BY <1>1, <1>10, <1>11, <1>12, <1>13

\* Closing changes executions that run or do not exist yet, and starts the
\* continuation only.
LEMMA CloseEffect ==
  ASSUME IInv, NEW w \in Workflows, Running(w), NEW D \in Subtrees(w),
         NEW new \in SUBSET Workflows, \A x \in new : status[x] = "absent", Closes(w, D, new)
  PROVE  /\ parent' = parent
         /\ \A x \in D \cup {w} : Running(x) /\ Closed(x)'
         /\ \A x \in Workflows \ (D \cup new \cup {w}) : status'[x] = status[x]
         /\ \A x \in Workflows : Closed(x) => Kept(x)
<1>0. PICK s \in {"completed", "failed", "terminated"} :
        \E evs, k, done : CloseExecution(w, s, evs, k, D, new, done)
  BY DEF Closes
<1>1. PICK evs, k, done : CloseExecution(w, s, evs, k, D, new, done)
  BY <1>0
<1>2. D \in SUBSET Workflows /\ \A x \in D : Running(x)
  BY DEF Subtrees
<1>3. \A p \in Notified(w, D) : p \in Workflows /\ Running(p)
  BY DEF Notified
<1>4. \A x \in Workflows : status'[x] =
        IF x = w THEN s ELSE IF x \in D THEN "terminated"
        ELSE IF x \in new THEN "running" ELSE status[x]
  BY <1>1 DEF CloseExecution
<1>5. \A x \in Workflows \ (D \cup new \cup Notified(w, D) \cup {w}) : Kept(x)
  BY <1>1, <1>4 DEF CloseExecution, Kept
<1>6. \A x \in Workflows : Closed(x) => x \notin D \cup new \cup Notified(w, D) \cup {w}
  BY <1>2, <1>3 DEF Closed, Running
<1>7. parent' = parent
  BY <1>1 DEF CloseExecution
<1>8. \A x \in D \cup {w} : Running(x) /\ Closed(x)'
  BY <1>2, <1>4 DEF Closed
<1> QED
  BY <1>4, <1>5, <1>6, <1>7, <1>8

(***************************************************************************)
(* Closed executions are final.                                            *)
(***************************************************************************)

\* No step changes a closed execution.
LEMMA FinalStep == IInv /\ [Next]_vars => \A x \in Workflows : Closed(x) => Kept(x)
<1> SUFFICES ASSUME IInv, [Next]_vars, NEW x \in Workflows, Closed(x)
             PROVE  Kept(x)
  OBVIOUS
<1>1. CASE Appends
  BY <1>1 DEF Appends
<1>2. CASE \E w \in Workflows : StartWorkflow(w)
  BY <1>2, StartEffect DEF Closed
<1>3. CASE \E w \in Workflows : Running(w) /\ \E D \in Subtrees(w), new \in SUBSET Workflows :
             (\A y \in new : status[y] = "absent") /\ Closes(w, D, new)
  BY <1>3, CloseEffect
<1>4. CASE \E h \in inflight : CommitCommands(h)
  BY <1>4, CommandsEffect DEF Closed, Running
<1> QED
  BY <1>1, <1>2, <1>3, <1>4, StepKinds

\* After completion, failure or termination no transition is accepted: not the
\* status, not the history, not the answers to updates change again, whichever
\* worker, poller, client or parent acts, and however late.
THEOREM Final == Spec => ClosedForever
<1> DEFINE A == \A w \in Workflows : Closed(w) =>
                  /\ status'[w] = status[w] /\ history'[w] = history[w]
                  /\ next_seq'[w] = next_seq[w] /\ updates'[w] = updates[w]
<1>1. IInv /\ [Next]_vars => [A]_vars
  BY FinalStep DEF Kept
<1>2. Spec => [][A]_vars
  BY <1>1, Inductive, PTL DEF Spec
<1> QED
  BY <1>2 DEF ClosedForever

(***************************************************************************)
(* Parents and children.                                                   *)
(***************************************************************************)

\* No child that is to be terminated outlives its parent, and the parent
\* column is null before the execution exists.
FamilyInv == IInv /\ Unborn /\ NoOrphans

\* The parent of an execution that does not exist yet is not an execution.
LEMMA NoParentOf == NoParent.wf \notin Workflows
  BY EngineAssumption DEF NoParent

\* Steps that leave status and parent alone.
LEMMA AppendsFamily == FamilyInv /\ Appends => Unborn' /\ NoOrphans'
  BY DEF FamilyInv, Appends, Unborn, NoOrphans, Running

\* Every kind of step keeps families together.
LEMMA FamilyStep == FamilyInv /\ [Next]_vars => FamilyInv'
<1> SUFFICES ASSUME FamilyInv, [Next]_vars PROVE Unborn' /\ NoOrphans'
  BY StepOK DEF FamilyInv
<1> USE DEF FamilyInv
<1>1. CASE Appends
  BY <1>1, AppendsFamily
<1>2. CASE \E w \in Workflows : StartWorkflow(w)
  <2>1. PICK w \in Workflows : StartWorkflow(w)
    BY <1>2
  <2>2. /\ status[w] = "absent" /\ parent' = parent
        /\ \A x \in Workflows \ {w} : status'[x] = status[x]
    BY <2>1, StartEffect DEF Kept
  <2>3. status'[w] = "running"
    BY <2>1 DEF StartWorkflow, IInv, TypeOK
  <2>4. parent[w].wf \notin Workflows
    BY <2>2, NoParentOf DEF Unborn
  <2>5. Unborn'
    BY <2>2, <2>3 DEF Unborn
  <2> QED
    BY <2>2, <2>3, <2>4, <2>5 DEF NoOrphans, Running
<1>3. CASE \E w \in Workflows : Running(w) /\ \E D \in Subtrees(w), new \in SUBSET Workflows :
             (\A y \in new : status[y] = "absent") /\ Closes(w, D, new)
  <2>0. PICK w \in Workflows :
          Running(w) /\ \E D \in Subtrees(w), new \in SUBSET Workflows :
            (\A y \in new : status[y] = "absent") /\ Closes(w, D, new)
    BY <1>3
  <2>1. PICK D \in Subtrees(w), new \in SUBSET Workflows :
          Running(w) /\ (\A y \in new : status[y] = "absent") /\ Closes(w, D, new)
    BY <2>0
  <2>2. /\ parent' = parent
        /\ \A x \in D \cup {w} : Running(x) /\ Closed(x)'
        /\ \A x \in Workflows \ (D \cup new \cup {w}) : status'[x] = status[x]
    BY <2>1, CloseEffect
  <2>3. \A x \in Workflows : Running(x) /\ parent[x].policy = "terminate"
                             /\ parent[x].wf \in D \cup {w} => x \in D
    BY DEF Subtrees
  <2>4. \A x \in new : parent[x].wf \notin Workflows
    BY <2>1, NoParentOf DEF Unborn
  <2>5. \A x \in Workflows : status'[x] = "absent" => status[x] = "absent" \/ x \in new
    BY <2>2 DEF Closed
  <2>6. Unborn'
    BY <2>1, <2>2, <2>5 DEF Unborn
  <2>7. ASSUME NEW x \in Workflows, status'[x] = "running", parent'[x].wf \in Workflows,
               parent'[x].policy = "terminate"
        PROVE  status'[parent'[x].wf] = "running"
    <3>1. x \notin D \cup {w} /\ x \notin new
      BY <2>2, <2>4, <2>7 DEF Closed, Running
    <3>2. Running(x) /\ Running(parent[x].wf)
      BY <2>2, <2>7, <3>1 DEF NoOrphans, Running
    <3>3. parent[x].wf \notin D \cup {w}
      BY <2>2, <2>3, <2>7, <3>1, <3>2
    <3>4. parent[x].wf \notin new
      BY <2>1, <3>2 DEF Running
    <3> QED
      BY <2>2, <2>7, <3>2, <3>3, <3>4 DEF Running
  <2> QED
    BY <2>6, <2>7 DEF NoOrphans, Running
<1>4. CASE \E h \in inflight : CommitCommands(h)
  <2>1. PICK w \in Workflows, new \in SUBSET Workflows :
           /\ Running(w) /\ Running(w)'
           /\ \A x \in new : status[x] = "absent" /\ parent'[x].wf = w /\ status'[x] = "running"
           /\ \A x \in Workflows \ new : parent'[x] = parent[x] /\ status'[x] = status[x]
    BY <1>4, CommandsEffect
  <2>2. Unborn'
    BY <2>1 DEF Unborn
  <2>3. \A x \in Workflows : Running(x) => Running(x)'
    BY <2>1 DEF Running
  <2>4. ASSUME NEW x \in Workflows, status'[x] = "running", parent'[x].wf \in Workflows,
               parent'[x].policy = "terminate"
        PROVE  status'[parent'[x].wf] = "running"
    <3>1. CASE x \in new
      BY <2>1, <3>1 DEF Running
    <3>2. CASE x \notin new
      BY <2>1, <2>3, <2>4, <3>2 DEF NoOrphans, Running
    <3> QED
      BY <3>1, <3>2
  <2> QED
    BY <2>2, <2>4 DEF NoOrphans, Running
<1> QED
  BY <1>1, <1>2, <1>3, <1>4, StepKinds

\* No execution with close policy 'terminate' runs on after its parent has
\* closed, at any depth and through continuations.
THEOREM Families == Spec => []NoOrphans
<1>1. Init => FamilyInv
  <2>1. Init => Unborn /\ NoOrphans
    BY DEF Init, Unborn, NoOrphans, Running
  <2> QED
    BY <2>1, InitOK DEF FamilyInv
<1>2. FamilyInv => NoOrphans
  BY DEF FamilyInv
<1> QED
  BY <1>1, <1>2, FamilyStep, PTL DEF Spec

(***************************************************************************)
(* The engine implements Lifecycle: every step of Engine is a step of the  *)
(* abstract specification or leaves its variables alone.  A lemma for each *)
(* abstract action, and one for the steps the abstraction does not see.    *)
(***************************************************************************)

\* The columns Lifecycle is about.
Unseen == UNCHANGED <<status, paused, canceled, updates, parent>>

\* What a step of the engine is to the abstraction.
Allowed == L!Next \/ UNCHANGED L!vars

LEMMA UnseenAllowed == Unseen => Allowed
  BY DEF Unseen, Allowed, L!vars, Owner

\* Owners change only with the parent columns.
LEMMA SameOwner == parent' = parent => Owner' = Owner
  BY DEF Owner

LEMMA StartAllowed ==
  ASSUME IInv, NEW w \in Workflows, StartWorkflow(w)
  PROVE  Allowed
<1>1. status' = L!WithStarted(status, {w})
  BY DEF StartWorkflow, L!WithStarted, IInv, TypeOK
<1>2. L!Start(w)
  BY <1>1, SameOwner DEF StartWorkflow, L!Start
<1> QED
  BY <1>2 DEF Allowed, L!Next

\* Pause, resume, cancellation, signals and updates.
LEMMA ClientAllowed ==
  ASSUME IInv, NEW w \in Workflows,
         \/ PauseWorkflow(w) \/ ResumeWorkflow(w) \/ RequestCancellation(w)
         \/ \E s \in Signals : SendSignal(w, s)
         \/ \E u \in Updates : SendUpdate(w, u)
  PROVE  Allowed
<1>1. CASE PauseWorkflow(w)
  <2>1. L!Pause(w)
    BY <1>1, SameOwner DEF PauseWorkflow, L!Pause, L!Running, Running
  <2> QED
    BY <2>1 DEF Allowed, L!Next
<1>2. CASE ResumeWorkflow(w)
  <2>1. L!Resume(w)
    BY <1>2, SameOwner DEF ResumeWorkflow, L!Resume, L!Running, Running
  <2> QED
    BY <2>1 DEF Allowed, L!Next
<1>3. CASE RequestCancellation(w)
  <2>1. L!Cancel(w)
    BY <1>3, SameOwner DEF RequestCancellation, L!Cancel, L!Running, Running
  <2> QED
    BY <2>1 DEF Allowed, L!Next
<1>4. CASE \E s \in Signals : SendSignal(w, s)
  BY <1>4, UnseenAllowed DEF SendSignal, Unseen
<1>5. ASSUME NEW u \in Updates, SendUpdate(w, u)
      PROVE  Allowed
  <2>1. L!Ask(w, u)
    BY <1>5, SameOwner DEF SendUpdate, L!Ask, L!Running, Running
  <2> QED
    BY <2>1 DEF Allowed, L!Next
<1> QED
  BY <1>1, <1>2, <1>3, <1>4, <1>5

\* Pollers and time.
LEMMA PollAllowed == ASSUME PollStep \/ TimeStep PROVE Allowed
<1>1. CASE \E t \in DOMAIN tasks :
             ClaimLease(t) \/ ClaimTimer(t) \/ ClaimTimeout(t) \/ ReclaimWorkflowTask(t)
  BY <1>1, UnseenAllowed
     DEF ClaimLease, ClaimTimer, ClaimTimeout, Claim, ReclaimWorkflowTask, execVars, Unseen
<1>2. CASE \E c \in claims : LeaseWorkflowTask(c) \/ LeaseActivity(c)
  BY <1>2, UnseenAllowed DEF LeaseWorkflowTask, LeaseActivity, execVars, Unseen
<1>3. CASE \E c \in claims : FireTimer(c) \/ TimeOutActivity(c)
  BY <1>3, UnseenAllowed DEF FireTimer, TimeOutActivity, FailAttempt, Unseen
<1>4. CASE TimeStep
  BY <1>4, UnseenAllowed DEF TimeStep, Elapse, Passes, execVars, Unseen
<1> QED
  BY <1>1, <1>2, <1>3, <1>4 DEF PollStep

\* Workers that report an activity, replay, or commit nothing; faults.
LEMMA WorkAllowed ==
  ASSUME \/ FaultStep
         \/ \E h \in inflight :
              \/ CompleteActivity(h) \/ FailActivity(h) \/ LoadAndReplay(h)
              \/ CommitBlocked(h) \/ Abandon(h) \/ HeartbeatActivity(h)
  PROVE  Allowed
<1>1. CASE FaultStep
  BY <1>1, UnseenAllowed DEF FaultStep, AbortClaim, ReleaseWorkflowTask, Crash, Stall, Passes,
     execVars, Unseen
<1>2. CASE \E h \in inflight : CompleteActivity(h) \/ FailActivity(h)
  BY <1>2, UnseenAllowed DEF CompleteActivity, FailActivity, FailAttempt, Unseen
<1>3. CASE \E h \in inflight :
             LoadAndReplay(h) \/ CommitBlocked(h) \/ Abandon(h) \/ HeartbeatActivity(h)
  BY <1>3, UnseenAllowed DEF LoadAndReplay, CommitBlocked, Abandon, HeartbeatActivity,
     execVars, Unseen
<1> QED
  BY <1>1, <1>2, <1>3

\* The executions _terminate_descendants reaches, with the one that closes,
\* are its family.
LEMMA SubtreeIsFamily ==
  ASSUME IInv, NEW w \in Workflows, Running(w), NEW D \in Subtrees(w)
  PROVE  L!Family(w, D \cup {w}) /\ D \in SUBSET Workflows
<1>1. D = {x \in Workflows : /\ Running(x)
                             /\ parent[x].policy = "terminate"
                             /\ parent[x].wf \in D \cup {w}}
      /\ D \in SUBSET Workflows
  BY DEF Subtrees
<1>2. \A x \in Workflows : Owner[x] =
        IF parent[x].policy = "terminate" THEN parent[x].wf ELSE NoWorkflow
  BY DEF Owner
<1>3. NoWorkflow \notin D \cup {w}
  BY <1>1, EngineAssumption
<1>4. \A y \in Workflows : Running(y) /\ Owner[y] \in D \cup {w} => y \in D
  BY <1>1, <1>2, <1>3
<1>5. \A y \in D : Owner[y] \in D \cup {w} /\ Running(y)
  BY <1>1, <1>2
<1> QED
  BY <1>1, <1>4, <1>5 DEF L!Family, L!Running, Running

\* Closing ends the family.
LEMMA CloseAllowed ==
  ASSUME IInv, NEW w \in Workflows, Running(w), NEW D \in Subtrees(w),
         NEW s \in {"completed", "failed", "terminated"}, NEW new \in SUBSET Workflows,
         \A y, z \in new : y = z /\ status[y] = "absent",
         new # {} => s = "completed" /\ ~canceled[w] /\ Owner[w] = NoWorkflow,
         NEW evs, NEW k, NEW done, CloseExecution(w, s, evs, k, D, new, done)
  PROVE  Allowed
<1> DEFINE S == D \cup {w}
<1>1. L!Family(w, S) /\ D \in SUBSET Workflows
  BY SubtreeIsFamily
<1>2. status' = [y \in Workflows |->
        IF y = w THEN s ELSE IF y \in S THEN "terminated"
        ELSE L!WithStarted(status, new)[y]]
  BY DEF CloseExecution, L!WithStarted
<1>3. updates' = [y \in Workflows |-> [u \in Updates |->
        IF y \in S /\ updates[y][u] = "pending" THEN "rejected" ELSE updates[y][u]]]
  <2>1. updates' = [x \in Workflows |-> IF x \in S THEN Rejected(updates[x]) ELSE updates[x]]
    BY DEF CloseExecution
  <2>2. \A x \in Workflows : updates[x] = [u \in Updates |-> updates[x][u]]
    BY DEF IInv, TypeOK
  <2> HIDE DEF S
  <2>3. \A x \in Workflows : updates'[x] = [u \in Updates |->
          IF x \in S /\ updates[x][u] = "pending" THEN "rejected" ELSE updates[x][u]]
    BY <2>1, <2>2 DEF Rejected
  <2> QED
    BY <2>1, <2>3
<1>4. paused' = paused /\ canceled' = canceled /\ Owner' = Owner
  BY SameOwner DEF CloseExecution
<1> HIDE DEF S
<1>5. S \in SUBSET L!In("running") /\ new \in SUBSET L!In("absent")
  <2>1. S \in SUBSET Workflows
    BY <1>1 DEF S
  <2> QED
    BY <1>1, <2>1 DEF L!In, L!Family, L!Running
<1>6. L!End(w, s, S, new)
  BY <1>1, <1>2, <1>3, <1>4 DEF L!End
<1> QED
  BY <1>1, <1>5, <1>6 DEF Allowed, L!Next

\* Termination, a canceled commit, a result.
LEMMA EndAllowed ==
  ASSUME IInv,
         \/ \E w \in Workflows : TerminateWorkflow(w)
         \/ \E h \in inflight : CommitCanceled(h) \/ CommitResult(h)
  PROVE  Allowed
<1>1. ASSUME NEW w \in Workflows, TerminateWorkflow(w)
      PROVE  Allowed
  BY <1>1, CloseAllowed DEF TerminateWorkflow
<1>2. ASSUME NEW h \in inflight, CommitCanceled(h)
      PROVE  Allowed
  BY <1>2, InflightType, CloseAllowed DEF CommitCanceled, Committing
<1>3. ASSUME NEW h \in inflight, CommitResult(h)
      PROVE  Allowed
  BY <1>3, InflightType, CloseAllowed DEF CommitResult, Committing
<1> QED
  BY <1>1, <1>2, <1>3

\* A continuation: no cancellation is pending and the execution is no child.
LEMMA ContinueAllowed ==
  ASSUME IInv, NEW h \in inflight, CommitContinueAsNew(h)
  PROVE  Allowed
<1> DEFINE w == h.task.wf
           cs == h.replay.commands
           new == {Child(w, cs[1].cmd)}
<1>1. w \in Workflows /\ Running(w) /\ cs \in Seq(Command) /\ Acceptable(w, cs)
  BY InflightType DEF CommitContinueAsNew, Committing
<1>2. PICK i \in DOMAIN cs : cs[i].kind = "continue"
  BY DEF CommitContinueAsNew, Emitted
<1>3. Len(cs) = 1 /\ i = 1
  BY <1>1, <1>2, AcceptableOK
<1>4. new \in SUBSET Workflows /\ \A y, z \in new : y = z /\ status[y] = "absent"
  BY <1>1, <1>2, <1>3, AcceptableOK
<1>5. ~canceled[w]
  BY DEF CommitContinueAsNew, EndsCanceled
<1>6. Owner[w] = NoWorkflow
  BY <1>1, <1>2 DEF Acceptable, Owner
<1>7. \E D \in Subtrees(w) : \E evs, k, done :
        CloseExecution(w, "completed", evs, k, D, new, done)
  BY DEF CommitContinueAsNew
<1> HIDE DEF new, w
<1> QED
  BY <1>1, <1>4, <1>5, <1>6, <1>7, CloseAllowed

\* Committed commands: children are started and updates answered, and no
\* cancellation is pending.
LEMMA CommandsAllowed ==
  ASSUME IInv, NEW h \in inflight, CommitCommands(h)
  PROVE  Allowed
<1> DEFINE w == h.task.wf
           cs == h.replay.commands
           E == Emitted(h, "child")
           N == {Child(w, cs[i].cmd) : i \in E}
           K == {x \in N : parent'[x].policy = "terminate"}
           A == {cs[i].upd : i \in Emitted(h, "resolve")}
           Y == {u \in A : \E i \in DOMAIN cs : cs[i].upd = u /\ cs[i].accepted}
<1>1. w \in Workflows /\ Running(w) /\ cs \in Seq(Command) /\ Acceptable(w, cs)
  BY InflightType DEF CommitCommands, Committing
<1>2. /\ N \in SUBSET Workflows /\ \A x \in N : status[x] = "absent"
      /\ N \in SUBSET L!In("absent")
  BY <1>1, AcceptableOK DEF Emitted, L!In
<1>3. A \in SUBSET Updates /\ \A u \in A : updates[w][u] = "pending"
  BY <1>1, AcceptableOK DEF Emitted
<1>4. ~canceled[w]
  BY DEF CommitCommands, EndsCanceled
<1>5. status' = L!WithStarted(status, N)
  BY DEF CommitCommands, L!WithStarted
<1>6. Owner' = [y \in Workflows |->
        IF y \notin N THEN Owner[y] ELSE IF y \in K THEN w ELSE NoWorkflow]
  <2> DEFINE j(x) == CHOOSE i \in E : x = Child(w, cs[i].cmd)
  <2>1. \A x \in N : parent'[x] = ParentLink(w, cs[j(x)])
    BY <1>2 DEF CommitCommands
  <2>2. \A c : ParentLink(w, c).wf = w
    BY DEF ParentLink
  <2>3. \A x \in Workflows \ N : parent'[x] = parent[x]
    BY DEF CommitCommands
  <2>4. \A x \in N : parent'[x].wf = w
    <3> HIDE DEF j, N, w, cs
    <3> QED
      BY <2>1, <2>2
  <2> HIDE DEF N, w
  <2>5. \A x \in Workflows : Owner'[x] =
          IF x \notin N THEN Owner[x] ELSE IF x \in K THEN w ELSE NoWorkflow
    BY <2>3, <2>4 DEF Owner
  <2>6. Owner' = [y \in Workflows |-> Owner'[y]]
    BY DEF Owner
  <2> HIDE DEF K
  <2> QED
    BY <2>5, <2>6
<1>7. updates' = [updates EXCEPT ![w] = [u \in Updates |->
        IF u \notin A THEN updates[w][u] ELSE IF u \in Y THEN "completed" ELSE "rejected"]]
  <2>1. \A u \in A : u \in Y <=> \E i \in DOMAIN cs : cs[i].upd = u /\ cs[i].accepted
    OBVIOUS
  <2>2. updates' = [updates EXCEPT ![w] = [u \in Updates |->
          IF u \notin A THEN updates[w][u]
          ELSE IF \E i \in DOMAIN cs : cs[i].upd = u /\ cs[i].accepted
          THEN "completed" ELSE "rejected"]]
    BY <1>1 DEF CommitCommands, IInv, TypeOK
  <2> HIDE DEF A, Y, w
  <2> QED
    BY <2>1, <2>2
<1>8. paused' = paused /\ canceled' = canceled
  BY DEF CommitCommands
<1>9. L!Running(w)
  BY <1>1 DEF L!Running, Running
<1>10. K \in SUBSET N /\ Y \in SUBSET A
  OBVIOUS
<1> HIDE DEF w, N, K, A, Y
<1>11. L!Proceed(w, N, K, A, Y)
  BY <1>2, <1>3, <1>4, <1>5, <1>6, <1>7, <1>8, <1>9 DEF L!Proceed
<1> QED
  BY <1>1, <1>2, <1>3, <1>10, <1>11 DEF Allowed, L!Next

(***************************************************************************)
(* The refinement.                                                         *)
(***************************************************************************)

LEMMA InitAllowed == Init => L!Init
  BY DEF Init, L!Init, Owner, NoParent

LEMMA StepAllowed == IInv /\ [Next]_vars => Allowed
<1> SUFFICES ASSUME IInv, [Next]_vars PROVE Allowed
  OBVIOUS
<1>1. CASE ClientStep
  <2>1. Roots \subseteq Workflows /\ Operated \subseteq Workflows
    BY EngineAssumption
  <2>2. \A w \in Workflows : PauseWorkflow(w) \/ ResumeWorkflow(w) \/ RequestCancellation(w)
          \/ (\E s \in Signals : SendSignal(w, s)) \/ (\E u \in Updates : SendUpdate(w, u))
            => Allowed
    BY ClientAllowed
  <2> QED
    BY <1>1, <2>1, <2>2, StartAllowed, EndAllowed DEF ClientStep, RetryWorkflow
<1>2. CASE PollStep \/ TimeStep
  BY <1>2, PollAllowed
<1>3. CASE WorkerStep
  BY <1>3, WorkAllowed, EndAllowed, ContinueAllowed, CommandsAllowed DEF WorkerStep, CommitStep
<1>4. CASE FaultStep \/ \E h \in inflight : HeartbeatActivity(h)
  BY <1>4, WorkAllowed
<1>5. CASE UNCHANGED vars
  BY <1>5, UnseenAllowed DEF vars, execVars, Unseen
<1> QED
  BY <1>1, <1>2, <1>3, <1>4, <1>5 DEF Next, EngineStep

\* The detailed engine implements what Lifecycle promises, for any workflow
\* code, any number of executions and processes and any faults: each
\* transaction, poller step, commit and crash is one abstract step or none.
THEOREM Implements == Spec => ImplementsLifecycle
<1>1. IInv /\ [Next]_vars => [L!Next]_(L!vars)
  BY StepAllowed DEF Allowed
<1>2. Spec => L!Init
  BY InitAllowed DEF Spec
<1>3. Spec => [][L!Next]_(L!vars)
  BY <1>1, Inductive, PTL DEF Spec
<1> QED
  BY <1>2, <1>3 DEF ImplementsLifecycle, L!Spec

=============================================================================
