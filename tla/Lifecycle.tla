----------------------------- MODULE Lifecycle ------------------------------
(***************************************************************************)
(* What the engine promises the clients of its executions, without         *)
(* histories, tasks, leases, workers or replay: an execution is started    *)
(* once, may be paused, resumed, asked to cancel and asked for updates     *)
(* while it runs, starts others and answers updates unless it is being     *)
(* canceled, and ends once, together with exactly the running executions   *)
(* it owns.                                                                *)
(***************************************************************************)
CONSTANTS Executions, Requests, Nobody

VARIABLES
  status,     \* absent, running, completed, failed or terminated
  paused,
  canceled,   \* cancellation was requested
  answers,    \* answers[x][u]: none, pending, completed or rejected
  owner       \* the execution that x ends with, or Nobody

vars == <<status, paused, canceled, answers, owner>>

Init ==
  /\ status = [x \in Executions |-> "absent"]
  /\ paused = [x \in Executions |-> FALSE]
  /\ canceled = [x \in Executions |-> FALSE]
  /\ answers = [x \in Executions |-> [u \in Requests |-> "none"]]
  /\ owner = [x \in Executions |-> Nobody]

Running(x) == status[x] = "running"

In(s) == {x \in Executions : status[x] = s}

\* The status column when the executions of N are started.
WithStarted(st, N) == [x \in Executions |-> IF x \in N THEN "running" ELSE st[x]]

Start(x) ==
  /\ status[x] = "absent"
  /\ status' = WithStarted(status, {x})
  /\ UNCHANGED <<paused, canceled, answers, owner>>

Pause(x) ==
  /\ Running(x) /\ ~paused[x]
  /\ paused' = [paused EXCEPT ![x] = TRUE]
  /\ UNCHANGED <<status, canceled, answers, owner>>

Resume(x) ==
  /\ Running(x) /\ paused[x]
  /\ paused' = [paused EXCEPT ![x] = FALSE]
  /\ UNCHANGED <<status, canceled, answers, owner>>

Cancel(x) ==
  /\ Running(x) /\ ~canceled[x]
  /\ canceled' = [canceled EXCEPT ![x] = TRUE]
  /\ UNCHANGED <<status, paused, answers, owner>>

Ask(x, u) ==
  /\ Running(x) /\ answers[x][u] = "none"
  /\ answers' = [answers EXCEPT ![x][u] = "pending"]
  /\ UNCHANGED <<status, paused, canceled, owner>>

\* x starts the executions of N, owning those of K, and answers the updates of
\* A, completing those of Y.  An execution that is being canceled does neither.
Proceed(x, N, K, A, Y) ==
  /\ Running(x) /\ ~canceled[x]
  /\ \A y \in N : status[y] = "absent"
  /\ \A u \in A : answers[x][u] = "pending"
  /\ status' = WithStarted(status, N)
  /\ owner' = [y \in Executions |->
       IF y \notin N THEN owner[y] ELSE IF y \in K THEN x ELSE Nobody]
  /\ answers' = [answers EXCEPT ![x] = [u \in Requests |->
       IF u \notin A THEN answers[x][u] ELSE IF u \in Y THEN "completed" ELSE "rejected"]]
  /\ UNCHANGED <<paused, canceled>>

\* S is x with the running executions it owns, those they own, and so on.
Family(x, S) ==
  /\ x \in S
  /\ \A y \in S : Running(y)
  /\ \A y \in S \ {x} : owner[y] \in S
  /\ \A y \in Executions : Running(y) /\ owner[y] \in S => y \in S

\* x ends and its family with it, in one step; whoever waits for an update of
\* theirs is answered.  N is the execution it continues as, if any.
End(x, s, S, N) ==
  /\ Family(x, S)
  /\ \A y, z \in N : y = z /\ status[y] = "absent"
  /\ N # {} => s = "completed" /\ ~canceled[x] /\ owner[x] = Nobody
  /\ status' = [y \in Executions |->
       IF y = x THEN s ELSE IF y \in S THEN "terminated" ELSE WithStarted(status, N)[y]]
  /\ answers' = [y \in Executions |-> [u \in Requests |->
       IF y \in S /\ answers[y][u] = "pending" THEN "rejected" ELSE answers[y][u]]]
  /\ UNCHANGED <<paused, canceled, owner>>

Next ==
  \E x \in Executions :
    \/ Start(x) \/ Pause(x) \/ Resume(x) \/ Cancel(x)
    \/ \E u \in Requests : Ask(x, u)
    \/ \E N \in SUBSET In("absent") : \E K \in SUBSET N :
         \E A \in SUBSET Requests : \E Y \in SUBSET A : Proceed(x, N, K, A, Y)
    \/ \E S \in SUBSET In("running") :
         /\ Family(x, S)
         /\ \E s \in {"completed", "failed", "terminated"}, N \in SUBSET In("absent") :
              End(x, s, S, N)

Spec == Init /\ [][Next]_vars

=============================================================================
