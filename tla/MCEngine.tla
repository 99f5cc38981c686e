------------------------------ MODULE MCEngine ------------------------------
(***************************************************************************)
(* Instances of Engine for TLC: the workflow code of each scenario.        *)
(***************************************************************************)
EXTENDS Engine, WorkflowCode

CONSTANT Scenario     \* which programs the executions run

\* uuid5 of the execution and the command.
MCChild(w, c) ==
  CASE w = "w1" /\ c = 0 -> "w2"
    [] w = "w1" /\ c > 0 -> "w5"
    [] w = "w2" /\ c = 0 -> "w3"
    [] w = "w2" /\ c > 0 -> "w4"
    [] OTHER -> NoWorkflow

Code ==
  [ retry |-> [w1 |-> <<Marker("m"), Activity("a"), WaitSignal({"s1"})>>,
               w2 |-> <<>>],
    race |-> [w1 |-> <<Activity("a"), WaitSignalFor({"s1"}, "t")>>],
    early |-> [w1 |-> <<Activity("a"), Catching(WaitSignalFor({"s1"}, "t"))>>],
    update |-> [w1 |-> <<Activity("a"), WaitUpdate({"u1"}), ResolveUpdate(TRUE)>>],
    family |-> [w1 |-> <<Catching(StartChild("k", "terminate")), ContinueAsNew("n")>>,
                w2 |-> <<Catching(StartChild("k", "terminate")), StartChild("k", "abandon")>>,
                w3 |-> <<>>,
                w4 |-> <<>>,
                w5 |-> <<Activity("a"), Sleep("t")>>],
    compensate |-> [w1 |-> <<Catching(Gather(<<"a", "b">>)), Activity("c")>>] ]

\* The code of all scenarios but one is sequential.
ASSUME ScenarioAssumption ==
  Scenario # "compensate" <=>
    \A w \in DOMAIN Code[Scenario] : Sequential(Code[Scenario][w])

MCReplay(w, H) == ReplayWorkflow(Code[Scenario][w], H)

\* cancellation_requested is not tied to a position in history: code that has
\* branched on it and scheduled an activity replays its history, but no longer
\* does once the request is recorded, for the same test then answers otherwise.
Branching == <<Activity("a"), IfCanceled(4), Activity("b"), Activity("c")>>

Branched ==
  {Plain(1, "WorkflowExecutionStarted"),
   Ev(2, "ActivityScheduled", 0, "a", TRUE), Ev(3, "ActivityStarted", 0, NoTag, TRUE),
   Ev(4, "ActivityCompleted", 0, NoTag, TRUE), Ev(5, "ActivityScheduled", 1, "b", TRUE)}

ASSUME CancellationRead ==
  /\ ReplayWorkflow(Branching, Branched).status = "blocked"
  /\ ReplayWorkflow(Branching, Branched \cup {Plain(6, "WorkflowCancellationRequested")}).status
       = "diverged"

Prints == {"a", "b", "c", "t", "m", "k", "n", "resolve"}

=============================================================================
