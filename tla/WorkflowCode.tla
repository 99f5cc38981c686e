---------------------------- MODULE WorkflowCode ----------------------------
(***************************************************************************)
(* Replay of workflow code against a history: WorkflowContext              *)
(* (engine/sdk/context.py) and replay_workflow (engine/runtime/replay.py). *)
(* A program is a sequence of calls on the context; a call that catches    *)
(* its errors goes on to the next one, any other error fails the workflow. *)
(***************************************************************************)
EXTENDS Integers, Sequences, FiniteSets, History

(***************************************************************************)
(* Programs.                                                               *)
(***************************************************************************)

Call == [op |-> "gather", fps |-> <<>>, ids |-> {}, timeout |-> FALSE, catches |-> FALSE,
         policy |-> "terminate", accepted |-> TRUE, goto |-> 0]

Activity(fp) == [Call EXCEPT !.fps = <<fp>>]
Gather(fps) == [Call EXCEPT !.fps = fps]
Sleep(fp) == [Call EXCEPT !.op = "sleep", !.fps = <<fp>>]
WaitSignal(ids) == [Call EXCEPT !.op = "wait_signal", !.ids = ids]
WaitSignalFor(ids, fp) == [Call EXCEPT !.op = "wait_signal", !.ids = ids, !.timeout = TRUE,
                                       !.fps = <<fp>>]
Marker(fp) == [Call EXCEPT !.op = "marker", !.fps = <<fp>>]
StartChild(fp, policy) == [Call EXCEPT !.op = "child", !.fps = <<fp>>, !.policy = policy]
WaitUpdate(ids) == [Call EXCEPT !.op = "wait_update", !.ids = ids]
ResolveUpdate(accepted) == [Call EXCEPT !.op = "resolve_update", !.fps = <<"resolve">>,
                                        !.accepted = accepted]
ContinueAsNew(fp) == [Call EXCEPT !.op = "continue", !.fps = <<fp>>]
IfCanceled(pc) == [Call EXCEPT !.op = "if_canceled", !.goto = pc]
Catching(call) == [call EXCEPT !.catches = TRUE]

(***************************************************************************)
(* One call.                                                               *)
(***************************************************************************)

First(S) == CHOOSE e \in S : \A f \in S : e.seq <= f.seq

\* What history says of a command: not there yet, another command at this
\* position (NonDeterminismError), or recorded.
Known(H, id, type, tag) ==
  LET S == {e \in Scheduled(H) : e.cmd = id} IN
  IF S = {} THEN "new"
  ELSE IF \A e \in S : e.type = type /\ e.tag = tag THEN "recorded" ELSE "diverged"

Of(H, types, id) == {e \in H : e.type \in types /\ e.cmd = id}

\* _evaluate_activity
EvaluateActivity(H, id, fp) ==
  LET known == Known(H, id, "ActivityScheduled", fp)
      terminal == {e \in Of(H, ActivityOutcomes, id) : Decides(e)}
  IN IF known # "recorded" THEN known
     ELSE IF terminal = {} THEN "blocked"
     ELSE IF First(terminal).type = "ActivityCompleted" THEN "ok" ELSE "error"

\* sleep; a canceled timer raises.
EvaluateTimer(H, id, fp) ==
  LET known == Known(H, id, "TimerStarted", fp)
      terminal == Of(H, TimerOutcomes, id)
  IN IF known # "recorded" THEN known
     ELSE IF terminal = {} THEN "blocked"
     ELSE IF First(terminal).type = "TimerFired" THEN "ok" ELSE "error"

\* _evaluate_child_workflow
EvaluateChild(H, id, fp) ==
  LET known == Known(H, id, "ChildWorkflowStarted", fp)
      terminal == Of(H, ChildOutcomes, id)
  IN IF known # "recorded" THEN known
     ELSE IF terminal = {} THEN "blocked"
     ELSE IF First(terminal).type = "ChildWorkflowCompleted" THEN "ok" ELSE "error"

\* _marker and resolve_update: recorded is all they need.
EvaluateRecord(H, id, type, tag) ==
  LET known == Known(H, id, type, tag)
  IN IF known = "recorded" THEN "ok" ELSE known

\* continue_as_new: recorded, it ends the run (_ContinueAsNewRecorded).
EvaluateContinue(H, id, fp) ==
  LET known == Known(H, id, "WorkflowExecutionContinuedAsNew", fp)
  IN IF known = "recorded" THEN "ended" ELSE known

\* Faulty variant: a signal wins whenever it is there.
SignalAlwaysWins(H, id, fp, matching) ==
  LET known == Known(H, id, "TimerStarted", fp)
  IN IF known # "recorded" THEN known
     ELSE IF matching # {} THEN "ok"
     ELSE IF \E e \in Of(H, TimerOutcomes, id) : e.type = "TimerFired" THEN "error" ELSE "blocked"

\* wait_signal with a timeout: the signal wins if it precedes the end of the
\* timer, and the timer is started even when the signal is already there.
EvaluateSignalTimeout(H, id, fp, matching) ==
  LET known == Known(H, id, "TimerStarted", fp)
      terminal == Of(H, TimerOutcomes, id)
  IN IF known # "recorded" THEN known
     ELSE IF matching # {} /\ (terminal = {} \/ First(matching).seq < First(terminal).seq)
       THEN "ok"
     ELSE IF \E e \in terminal : e.type = "TimerFired" THEN "error" ELSE "blocked"

(***************************************************************************)
(* A run of the program.                                                   *)
(***************************************************************************)

Cmd(kind, id, fp) == [kind |-> kind, cmd |-> id, fp |-> fp, policy |-> "abandon",
                      upd |-> NoUpdate, accepted |-> TRUE]

Result(s) == [status |-> s, commands |-> <<>>]
NewCommands(cs) == [status |-> "commands", commands |-> cs]

\* first_unvisited_command, when the program has returned.
Returned(H, id) ==
  IF \E e \in Scheduled(H) : e.cmd >= id THEN Result("diverged") ELSE Result("completed")

\* Where a run of the program stands: the call it makes next, the next command
\* id, the signals and updates consumed so far, the update last waited for, and
\* the result once there is one.
Entry == [pc |-> 1, id |-> 0, used |-> {}, held |-> NoUpdate, result |-> Result("going")]

Going(k) == k.result.status = "going"

Stop(k, r) == [pc |-> k.pc, id |-> k.id, used |-> k.used, held |-> k.held, result |-> r]

\* The fingerprint of a call that issues one command.
Fp(call) == IF call.fps = <<>> THEN NoTag ELSE call.fps[1]

\* The signals or updates a wait may consume.
Matching(H, k, call) ==
  {e \in H \ k.used : /\ e.type \in {"SignalReceived", "WorkflowUpdateReceived"}
                       /\ e.tag \in call.ids}

\* gather evaluates its activities in order until one raises.
Each(H, k, call, i) == EvaluateActivity(H, k.id + i - 1, call.fps[i])

Raising(H, k, call) == {i \in DOMAIN call.fps : Each(H, k, call, i) \in {"diverged", "error"}}

FirstRaising(H, k, call) ==
  CHOOSE i \in Raising(H, k, call) : \A j \in Raising(H, k, call) : i <= j

Missing(H, k, call) == {i \in DOMAIN call.fps : Each(H, k, call, i) = "new"}

EvaluateGather(H, k, call) ==
  IF Raising(H, k, call) # {} THEN Each(H, k, call, FirstRaising(H, k, call))
  ELSE IF Missing(H, k, call) # {} THEN "new"
  ELSE IF \E i \in DOMAIN call.fps : Each(H, k, call, i) = "blocked" THEN "blocked" ELSE "ok"

\* What a call comes to: new commands, another command than the recorded one,
\* suspension, a return, an exception, or the end of the run.
Evaluate(H, k, call) ==
  CASE call.op = "gather" -> EvaluateGather(H, k, call)
    [] call.op = "sleep" -> EvaluateTimer(H, k.id, Fp(call))
    [] call.op = "child" -> EvaluateChild(H, k.id, Fp(call))
    [] call.op = "marker" -> EvaluateRecord(H, k.id, "MarkerRecorded", Fp(call))
    [] call.op = "resolve_update" -> EvaluateRecord(H, k.id, "WorkflowUpdateResolved", k.held)
    [] call.op = "continue" -> EvaluateContinue(H, k.id, Fp(call))
    [] call.op = "wait_signal" /\ call.timeout ->
         EvaluateSignalTimeout(H, k.id, Fp(call), Matching(H, k, call))
    [] call.op = "wait_signal" /\ ~call.timeout ->
         IF Matching(H, k, call) = {} THEN "blocked" ELSE "ok"
    [] call.op = "wait_update" -> IF Matching(H, k, call) = {} THEN "blocked" ELSE "ok"
    [] call.op = "if_canceled" -> "ok"

\* The numbers of S in ascending order.
Ascending(S) ==
  CHOOSE f \in [1 .. Cardinality(S) -> S] :
    /\ \A i, j \in 1 .. Cardinality(S) : i < j => f[i] < f[j]
    /\ \A s \in S : \E i \in 1 .. Cardinality(S) : f[i] = s

\* The commands of a call that finds some of them not yet recorded.
CommandsOf(H, k, call) ==
  CASE call.op = "gather" ->
         LET new == Missing(H, k, call)
             at == Ascending(new)
         IN [j \in 1 .. Cardinality(new) |->
               Cmd("activity", k.id + at[j] - 1, call.fps[at[j]])]
    [] call.op \in {"sleep", "wait_signal"} -> <<Cmd("timer", k.id, Fp(call))>>
    [] call.op \in {"marker", "continue"} -> <<Cmd(call.op, k.id, Fp(call))>>
    [] call.op = "child" -> <<[Cmd("child", k.id, Fp(call)) EXCEPT !.policy = call.policy]>>
    [] call.op = "resolve_update" ->
         <<[Cmd("resolve", k.id, Fp(call)) EXCEPT !.upd = k.held, !.accepted = call.accepted]>>

\* The command ids a call has taken when it returns or raises.
Taken(H, k, call) ==
  CASE call.op = "gather" ->
         IF Raising(H, k, call) = {} THEN Len(call.fps) ELSE FirstRaising(H, k, call)
    [] call.op \in {"wait_update", "if_canceled"} -> 0
    [] call.op = "wait_signal" -> IF call.timeout THEN 1 ELSE 0
    [] OTHER -> 1

\* The program goes on after a call: the earliest matching signal or update is
\* consumed unless the wait has timed out.
After(H, k, call) ==
  LET received == /\ call.op \in {"wait_signal", "wait_update"}
                  /\ Evaluate(H, k, call) = "ok"
      requested == \E e \in H : e.type = "WorkflowCancellationRequested"
  IN [pc |-> IF call.op = "if_canceled" /\ requested THEN call.goto ELSE k.pc + 1,
      id |-> k.id + Taken(H, k, call),
      used |-> IF received THEN k.used \cup {First(Matching(H, k, call))} ELSE k.used,
      held |-> IF call.op = "wait_update" THEN First(Matching(H, k, call)).tag ELSE k.held,
      result |-> k.result]

\* One call of the program.
Step(prog, H, k) ==
  IF ~Going(k) THEN k
  ELSE IF k.pc > Len(prog) THEN Stop(k, Returned(H, k.id))
  ELSE LET call == prog[k.pc]
           outcome == Evaluate(H, k, call)
       IN CASE outcome = "new" -> Stop(k, NewCommands(CommandsOf(H, k, call)))
            [] outcome = "ended" -> Stop(k, Result("completed"))
            [] outcome \in {"blocked", "diverged"} -> Stop(k, Result(outcome))
            [] outcome = "error" /\ ~call.catches -> Stop(k, Result("failed"))
            [] OTHER -> After(H, k, call)

\* The run call by call (TLC evaluates the bound k once, a parameter of Step each
\* time it is used).  Jumps go forward, so Len(prog) + 1 calls end the run.
Path(prog, H) ==
  LET path[n \in Nat] ==
        IF n = 0 THEN Entry
        ELSE CHOOSE next \in {Step(prog, H, k) : k \in {path[n - 1]}} : TRUE
  IN path

\* replay_workflow; HistoryIndex refuses an invalid history before any code runs.
ReplayWorkflow(prog, H) ==
  IF IndexAccepts(H) THEN Path(prog, H)[Len(prog) + 1].result ELSE Result("diverged")

(***************************************************************************)
(* Sequential programs: what follows a call does not depend on when the    *)
(* history is read.  A caught failure of a gather of several activities    *)
(* and a test of cancellation_requested do depend on it.                   *)
(***************************************************************************)

Ops == {"gather", "sleep", "child", "marker", "resolve_update", "continue", "wait_signal",
        "wait_update", "if_canceled"}

Calls == [op : Ops, fps : Seq(STRING), ids : SUBSET STRING, timeout : BOOLEAN,
          catches : BOOLEAN, policy : {"terminate", "abandon"}, accepted : BOOLEAN, goto : Nat]

Sequential(prog) ==
  /\ prog \in Seq(Calls)
  /\ \A i \in DOMAIN prog :
       /\ prog[i].op # "if_canceled"
       /\ prog[i].op = "gather" /\ prog[i].catches => Len(prog[i].fps) <= 1

=============================================================================
