------------------------------ MODULE History -------------------------------
(***************************************************************************)
(* Event histories (engine/runtime/history.py): the event types, and the   *)
(* conditions under which HistoryIndex accepts a history.  A history is a  *)
(* set of events, each carrying its sequence number, as in the table       *)
(* history_events.                                                         *)
(***************************************************************************)
EXTENDS Integers, FiniteSets

NoCommand == -1
NoTag == "no tag"
NoUpdate == "no update"

ScheduleEvents == {"ActivityScheduled", "TimerStarted", "MarkerRecorded",
  "ChildWorkflowStarted", "WorkflowUpdateResolved", "WorkflowExecutionContinuedAsNew"}

TerminalEvents == {"WorkflowExecutionCompleted", "WorkflowExecutionFailed",
  "WorkflowExecutionTerminated"}

ActivityOutcomes == {"ActivityCompleted", "ActivityFailed", "ActivityTimedOut"}
TimerOutcomes == {"TimerFired", "TimerCanceled"}
ChildOutcomes == {"ChildWorkflowCompleted", "ChildWorkflowFailed", "ChildWorkflowTerminated"}

EventTypes == ScheduleEvents \cup TerminalEvents \cup ActivityOutcomes \cup TimerOutcomes
  \cup ChildOutcomes \cup {"WorkflowExecutionStarted", "WorkflowExecutionPaused",
  "WorkflowExecutionResumed", "WorkflowCancellationRequested", "ActivityStarted",
  "SignalReceived", "WorkflowUpdateReceived"}

\* A row of history_events.  Entities are uuid5(workflow, kind, command), so an
\* event about an activity, a timer or a child names the entity by its command.
\* tag is the fingerprint of a schedule event or the id of a signal or update;
\* final is the attribute of a failed attempt, and accepted of a resolution.
Ev(n, type, cmd, tag, final) ==
  [seq |-> n, type |-> type, cmd |-> cmd, tag |-> tag, final |-> final]

Plain(n, type) == Ev(n, type, NoCommand, NoTag, TRUE)

\* The events HistoryIndex.scheduled holds.
Scheduled(H) == {e \in H : e.type \in ScheduleEvents}

\* An outcome that ends its activity; a failed attempt that will be retried
\* does not.
Decides(e) == e.type = "ActivityCompleted" \/ (e.type \in ActivityOutcomes /\ e.final)

(***************************************************************************)
(* What HistoryIndex requires of a history; anything else is an            *)
(* InvalidHistoryError.                                                    *)
(***************************************************************************)

\* Numbered 1, 2, ... without a gap or a repetition.
Contiguous(H, n) ==
  /\ {e.seq : e \in H} = 1 .. n
  /\ \A e, f \in H : e.seq = f.seq => e = f

\* Begins with WorkflowExecutionStarted, and only there.
StartsOnce(H) == \A e \in H : e.seq = 1 <=> e.type = "WorkflowExecutionStarted"

\* Nothing follows a terminal event.
EndsOnce(H) == \A e, f \in H : e.type \in TerminalEvents => f.seq <= e.seq

\* No command is scheduled twice.
ScheduledOnce(H) == \A e, f \in Scheduled(H) : e.cmd = f.cmd => e = f

StartedBefore(H, e, type) == \E s \in H : s.type = type /\ s.cmd = e.cmd /\ s.seq < e.seq

\* Outcomes follow the event that scheduled their entity, and nothing is
\* reported about an entity that is already decided.
OutcomesOnce(H) ==
  /\ \A e \in H :
       /\ e.type \in ActivityOutcomes => StartedBefore(H, e, "ActivityScheduled")
       /\ e.type \in TimerOutcomes => StartedBefore(H, e, "TimerStarted")
       /\ e.type \in ChildOutcomes => StartedBefore(H, e, "ChildWorkflowStarted")
  /\ \A e, f \in H : e.cmd = f.cmd =>
       /\ e.type \in ActivityOutcomes /\ f.type \in ActivityOutcomes /\ Decides(e)
            => f.seq <= e.seq
       /\ e.type \in TimerOutcomes /\ f.type \in TimerOutcomes => e = f
       /\ e.type \in ChildOutcomes /\ f.type \in ChildOutcomes => e = f

CanceledOnce(H) ==
  \A e, f \in H : e.type = "WorkflowCancellationRequested" /\ f.type = e.type => e = f

IndexAccepts(H) ==
  /\ Contiguous(H, Cardinality(H))
  /\ StartsOnce(H) /\ EndsOnce(H) /\ ScheduledOnce(H) /\ OutcomesOnce(H) /\ CanceledOnce(H)

=============================================================================
